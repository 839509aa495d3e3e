--------------------------- MODULE SingleThreaded ---------------------------
(***************************************************************************)
(* Server::SingleThreaded: the server with --threads=1, its default.  One  *)
(* thread accepts at most one peer, calls Recv once on every client, then  *)
(* takes the whole frames out of each read buffer and processes them.  An  *)
(* exception is caught nowhere up to main and ends the process.            *)
(***************************************************************************)
EXTENDS ReadBuffer

CONSTANT Throwing   (* packets whose handler may throw                     *)

VARIABLES
    pending,        (* peers whose connection is not accepted yet          *)
    m_clients,      (* the accepted peers, in the order of their ids       *)
    m_read_buffer,  (* ClientSocket::m_read_buffer, per client             *)
    pc,             (* the thread's program counter                        *)
    toVisit,        (* clients left in the running loop over m_clients     *)
    packets,        (* packets of Head(toVisit) left to process            *)
    (* history, read by no action's guard *)
    taken,          (* bytes of each client parsed and erased              *)
    processed,      (* packets of each client passed to ProcessPacket      *)
    mixed           (* clients with a chunk put in front of older bytes    *)

netVars     == <<pending, m_clients, m_read_buffer>>
threadVars  == <<pc, toVisit, packets>>
historyVars == <<taken, processed, mixed>>
vars == <<peerVars, netVars, threadVars, historyVars>>

TypeOK ==
    /\ PeersTypeOK
    /\ pending \subseteq Clients
    /\ m_clients \in Seq(Clients)
    /\ m_read_buffer \in [Clients -> Seq(Byte)]
    /\ pc \in {"accept", "recv", "read", "process", "terminated"}
    /\ toVisit \in Seq(Clients)
    /\ packets \in Seq(Seq(Byte))
    /\ taken \in [Clients -> Seq(Byte)]
    /\ processed \in [Clients -> Seq(Seq(Byte))]
    /\ mixed \subseteq Clients

Init ==
    /\ PeersInit
    /\ pending = Clients
    /\ m_clients = <<>>
    /\ m_read_buffer = [c \in Clients |-> <<>>]
    /\ pc = "accept"
    /\ toVisit = <<>>
    /\ packets = <<>>
    /\ taken = [c \in Clients |-> <<>>]
    /\ processed = [c \in Clients |-> <<>>]
    /\ mixed = {}
-----------------------------------------------------------------------------
Send(c, payload) ==
    /\ PeerSends(c, payload)
    /\ UNCHANGED <<netVars, threadVars, historyVars>>

(* accept() would block, or failed; the round goes on with ClientsRecv.    *)
AcceptNothing ==
    /\ pc = "accept"
    /\ pc' = "recv"
    /\ toVisit' = m_clients
    /\ UNCHANGED <<peerVars, netVars, packets, historyVars>>

Accept(c) ==
    /\ pc = "accept"
    /\ c \in pending
    /\ pending' = pending \ {c}
    /\ m_clients' = Append(m_clients, c)
    /\ pc' = "recv"
    /\ toVisit' = Append(m_clients, c)
    /\ UNCHANGED <<peerVars, m_read_buffer, packets, historyVars>>

RecvNothing ==
    /\ pc = "recv"
    /\ toVisit # <<>>
    /\ wire[Head(toVisit)] = <<>>
    /\ toVisit' = Tail(toVisit)
    /\ UNCHANGED <<peerVars, netVars, pc, packets, historyVars>>

Recv(size) ==
    /\ pc = "recv"
    /\ toVisit # <<>>
    /\ RecvReturns(Head(toVisit), size)
    /\ LET c == Head(toVisit)
       IN  /\ m_read_buffer' = [m_read_buffer EXCEPT ![c] = Inserted(Received(c, size), @)]
           /\ mixed' = IF m_read_buffer[c] # <<>> THEN mixed \cup {c} ELSE mixed
    /\ toVisit' = Tail(toVisit)
    /\ UNCHANGED <<pending, m_clients, pc, packets, taken, processed>>

ClientsRecvDone ==
    /\ pc = "recv"
    /\ toVisit = <<>>
    /\ pc' = "read"
    /\ toVisit' = m_clients
    /\ UNCHANGED <<peerVars, netVars, packets, historyVars>>

(* "if (len <= 0) continue;"                                               *)
ReadNothing ==
    /\ pc = "read"
    /\ toVisit # <<>>
    /\ packets_from_buffer(m_read_buffer[Head(toVisit)]).len <= 0
    /\ toVisit' = Tail(toVisit)
    /\ UNCHANGED <<peerVars, netVars, pc, packets, historyVars>>

Read ==
    /\ pc = "read"
    /\ toVisit # <<>>
    /\ LET c == Head(toVisit)
           result == packets_from_buffer(m_read_buffer[c])
       IN  /\ result.len > 0
           /\ packets' = result.packets
           /\ m_read_buffer' = [m_read_buffer EXCEPT ![c] = Erased(@, result.len)]
           /\ taken' = [taken EXCEPT ![c] = @ \o SubSeq(m_read_buffer[c], 1, result.len)]
    /\ pc' = "process"
    /\ UNCHANGED <<peerVars, pending, m_clients, toVisit, processed, mixed>>

(* bad_alloc, or a copy past the end of the buffer that ends the process;  *)
(* where it does not, ReadNothing or Read goes on.                         *)
ReadFails ==
    /\ pc = "read"
    /\ toVisit # <<>>
    /\ packets_from_buffer(m_read_buffer[Head(toVisit)]).overruns
    /\ pc' = "terminated"
    /\ UNCHANGED <<peerVars, netVars, toVisit, packets, historyVars>>

RoundDone ==
    /\ pc = "read"
    /\ toVisit = <<>>
    /\ pc' = "accept"
    /\ UNCHANGED <<peerVars, netVars, toVisit, packets, historyVars>>

RunHandler ==
    /\ pc = "process"
    /\ packets # <<>>
    /\ packets' = Tail(packets)
    /\ processed' = [processed EXCEPT ![Head(toVisit)] = Append(@, Head(packets))]
    /\ UNCHANGED <<peerVars, netVars, toVisit, taken, mixed>>

Process == RunHandler /\ UNCHANGED pc

Throw == RunHandler /\ Head(packets) \in Throwing /\ pc' = "terminated"

ProcessDone ==
    /\ pc = "process"
    /\ packets = <<>>
    /\ pc' = "read"
    /\ toVisit' = Tail(toVisit)
    /\ UNCHANGED <<peerVars, netVars, packets, historyVars>>

Server ==
    \/ AcceptNothing
    \/ \E c \in Clients : Accept(c)
    \/ RecvNothing
    \/ \E size \in ChunkSizes : Recv(size)
    \/ ClientsRecvDone
    \/ ReadNothing
    \/ Read
    \/ ReadFails
    \/ RoundDone
    \/ Process
    \/ Throw
    \/ ProcessDone

Next ==
    \/ \E c \in Clients, payload \in Payloads : Send(c, payload)
    \/ Server

Spec == Init /\ [][Next]_vars

(* The thread keeps being scheduled.                                       *)
FairSpec == Spec /\ WF_vars(Server)
-----------------------------------------------------------------------------
(* Properties.                                                             *)

(***************************************************************************)
(* The stream of a client none of whose chunks met a part of an earlier    *)
(* packet in the read buffer is kept byte for byte (server_socket.cpp:96,  *)
(* server.cpp:157-165).                                                    *)
(***************************************************************************)
StreamKept ==
    \A c \in Clients \ mixed :
        stream[c] = taken[c] \o m_read_buffer[c] \o wire[c]

(***************************************************************************)
(* However the chunks were mixed, no byte is lost or read twice.           *)
(***************************************************************************)
BytesConserved ==
    \A c \in Clients :
        Len(stream[c]) = Len(taken[c]) + Len(m_read_buffer[c]) + Len(wire[c])

(***************************************************************************)
(* "Recv Buffer.  Contains all the data from Recv"                         *)
(* (client_socket.hpp:27-31): what the server has parsed and what the read *)
(* buffer holds are together what Recv returned, in its order.             *)
(***************************************************************************)
BufferContainsAllFromRecv ==
    \A c \in Clients :
        taken[c] \o m_read_buffer[c] = SubSeq(stream[c], 1, Len(stream[c]) - Len(wire[c]))

(***************************************************************************)
(* The handlers see a PacketStream (server.cpp:155-172).                   *)
(***************************************************************************)
Stream == INSTANCE PacketStream WITH
              delivered <- processed,
              intact    <- Clients \ mixed

ImplementsPacketStream == Stream!Spec

(***************************************************************************)
(* A packet of an accepted client is processed eventually, unless a chunk  *)
(* met a part of an earlier packet, an empty packet came before it (its    *)
(* header alone is no frame to packet.cpp:23), or the process has ended.   *)
(***************************************************************************)
EveryPacketProcessed ==
    \A c \in Clients, n \in 1 .. MaxSends :
        (/\ c \notin pending
         /\ Len(sent[c]) >= n
         /\ \A i \in 1 .. n : sent[c][i] # <<>>)
        ~> \/ Len(processed[c]) >= n
           \/ c \in mixed
           \/ pc = "terminated"
=============================================================================
