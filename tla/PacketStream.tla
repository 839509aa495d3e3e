---------------------------- MODULE PacketStream ----------------------------
(***************************************************************************)
(* What the server owes the handlers, whichever of its threading modes     *)
(* runs: the packets of a peer arrive in the order it sent them, each of   *)
(* them once - for as long as the peer's stream is intact.  Once a stream  *)
(* is broken nothing is promised about that peer any more, except that     *)
(* what has been delivered stays delivered; the other peers are not        *)
(* affected.                                                               *)
(***************************************************************************)
EXTENDS Integers, Sequences

CONSTANTS Clients, Payloads

VARIABLES sent,       (* packets each peer has sent                        *)
          delivered,  (* packets handed over as that peer's                *)
          intact      (* the peers whose stream nothing has broken         *)

vars == <<sent, delivered, intact>>

Init ==
    /\ sent = [c \in Clients |-> <<>>]
    /\ delivered = [c \in Clients |-> <<>>]
    /\ intact = Clients

Send(c) ==
    /\ \E payload \in Payloads : sent' = [sent EXCEPT ![c] = Append(@, payload)]
    /\ UNCHANGED <<delivered, intact>>

Extends(longer, shorter) ==
    /\ Len(shorter) <= Len(longer)
    /\ SubSeq(longer, 1, Len(shorter)) = shorter

(* One or more packets of c are handed over.                               *)
Deliver(c) ==
    /\ DOMAIN delivered' = Clients
    /\ \A d \in Clients \ {c} : delivered'[d] = delivered[d]
    /\ Extends(delivered'[c], delivered[c])
    /\ c \in intact => Extends(sent[c], delivered'[c])
    /\ UNCHANGED <<sent, intact>>

Break(c) ==
    /\ intact' = intact \ {c}
    /\ UNCHANGED <<sent, delivered>>

Next == \E c \in Clients : Send(c) \/ Deliver(c) \/ Break(c)

Spec == Init /\ [][Next]_vars
=============================================================================
