------------------------------- MODULE Peers -------------------------------
(***************************************************************************)
(* The peers of the server and the TCP connections they write to: what the *)
(* server's sockets can return.  A connection delivers the bytes written   *)
(* to it in order, in pieces of any size; it is outside the repository and *)
(* modelled from how Net/src/socket.cpp uses it.                           *)
(***************************************************************************)
EXTENDS Codec

CONSTANTS Clients,    (* the peers                                         *)
          Payloads,   (* serialised packets the peers send                 *)
          ChunkSizes, (* bound: the sizes a Recv may return                *)
          MaxSends    (* bound: packets a peer sends                       *)

ASSUME PayloadsAssumption == Payloads \subseteq Seq(Byte)
(* Protobuf serialises no message of 2^31 bytes or more; those of the last *)
(* four sizes below are left out, whose frame's length is no int (Codec).  *)
ASSUME PayloadsFitAssumption ==
    \A payload \in Payloads : 2 * (Len(payload) + HeaderLen) < SizeModulus

ASSUME BoundsAssumption == ChunkSizes \subseteq Nat \ {0} /\ MaxSends \in Nat

VARIABLES
    wire,           (* bytes of each peer that Recv has not returned yet   *)
    (* history, read by no action of the server *)
    sent,           (* packets each peer has sent                          *)
    stream          (* all bytes each peer has sent                        *)

peerVars == <<wire, sent, stream>>

PeersTypeOK ==
    /\ wire \in [Clients -> Seq(Byte)]
    /\ sent \in [Clients -> Seq(Payloads)]
    /\ stream \in [Clients -> Seq(Byte)]

PeersInit ==
    /\ wire = [c \in Clients |-> <<>>]
    /\ sent = [c \in Clients |-> <<>>]
    /\ stream = [c \in Clients |-> <<>>]

PeerSends(c, payload) ==
    /\ Len(sent[c]) < MaxSends
    /\ sent' = [sent EXCEPT ![c] = Append(@, payload)]
    /\ stream' = [stream EXCEPT ![c] = @ \o packet_to_buffer(payload)]
    /\ wire' = [wire EXCEPT ![c] = @ \o packet_to_buffer(payload)]

(* What a Recv of size bytes from c returns, and its effect.               *)
Received(c, size) == SubSeq(wire[c], 1, size)

RecvReturns(c, size) ==
    /\ size <= Len(wire[c])
    /\ wire' = [wire EXCEPT ![c] = Rest(@, size)]
    /\ UNCHANGED <<sent, stream>>
=============================================================================
