--------------------------- MODULE Multithreaded ---------------------------
(***************************************************************************)
(* Server::Multithreaded: the threads the server runs with --threads=N for *)
(* every N but 1 and 2, and what they share.                               *)
(*                                                                         *)
(*   - the receiver accepts at most one peer per round and then calls      *)
(*     Recv once on every client (server_socket.cpp), writing              *)
(*     m_clients and the m_read_buffer of each client WITHOUT a lock;      *)
(*   - the reader copies each m_read_buffer, parses the copy and erases    *)
(*     the parsed length, copy and erasure each under the client's mutex,  *)
(*     and pushes the packets under m_unprocessed_packet_mutex;            *)
(*   - N - 2 workers pop one packet each and process it, all of it under   *)
(*     m_unprocessed_packet_mutex.                                         *)
(*                                                                         *)
(* Only the reader takes a client's mutex, so that mutex excludes nobody   *)
(* and is not a variable.  An unlocked write that another thread's access  *)
(* overlaps is a data race: such a write takes two steps here, and an      *)
(* access between them has any of the outcomes listed at that access.      *)
(***************************************************************************)
EXTENDS ReadBuffer, FiniteSets, SequencesExt

CONSTANTS Workers,    (* the processing threads: N - 2 of them, or none    *)
          Throwing    (* packets whose handler may throw: an unknown       *)
                      (* command (server.cpp:387), a failing SQL statement *)

ASSUME ThreadsAssumption == "free" \notin Workers

VARIABLES
    pending,        (* peers whose connection is not accepted yet          *)
    m_clients,      (* the accepted peers, in the order of their ids       *)
    m_read_buffer,  (* ClientSocket::m_read_buffer, per client             *)
    receiver,       (* the receiver's program counter                      *)
    toReceive,      (* clients left in the running ClientsRecv             *)
    chunk,          (* what the last Recv returned, while it is inserted   *)
    reader,         (* the reader's program counter                        *)
    toRead,         (* clients left in the reader's copy of m_clients      *)
    packet_buffer,  (* the reader's copy of a read buffer                  *)
    readLength,     (* bytes of packet_buffer parsed so far                *)
    packets,        (* packets parsed so far                               *)
    m_unprocessed_packets,
    mutex,          (* m_unprocessed_packet_mutex: its holder or "free"    *)
    worker,         (* the workers' program counters                       *)
    item,           (* the packet a worker has popped                      *)
    crashed,        (* the process has been killed by undefined behaviour  *)
    (* history, read by no action's guard *)
    taken,          (* bytes of each client the reader parsed and erased   *)
    pushed,         (* everything pushed to m_unprocessed_packets          *)
    processed,      (* everything passed to ProcessPacket                  *)
    integrity       (* how each client's stream has been treated           *)

netVars      == <<pending, m_clients, m_read_buffer>>
receiverVars == <<receiver, toReceive, chunk>>
readerVars   == <<reader, toRead, packet_buffer, readLength, packets>>
workerVars   == <<worker, item>>
queueVars    == <<m_unprocessed_packets, mutex, pushed, processed>>
vars == <<peerVars, netVars, receiverVars, readerVars, workerVars, queueVars,
          crashed, taken, integrity>>

Packet == Clients \X Seq(Byte)

NoItem == <<>>

(***************************************************************************)
(* "clean": every chunk so far went into an empty read buffer the reader   *)
(* was not about to erase from.  "mixed": some chunk did not; it was put   *)
(* in front of older bytes.  "raced": the reader touched the buffer while  *)
(* a chunk was being inserted.                                             *)
(***************************************************************************)
Integrity == {"clean", "mixed", "raced"}

TypeOK ==
    /\ PeersTypeOK
    /\ pending \subseteq Clients
    /\ m_clients \in Seq(Clients)
    /\ m_read_buffer \in [Clients -> Seq(Byte)]
    /\ receiver \in {"accept", "addClient", "recv", "insert"}
    /\ toReceive \in Seq(Clients)
    /\ chunk \in Seq(Byte)
    /\ reader \in {"copy", "parse", "erase", "push", "dead"}
    /\ toRead \in Seq(Clients)
    /\ packet_buffer \in Seq(Byte)
    /\ readLength \in Int
    /\ packets \in Seq(Seq(Byte))
    /\ m_unprocessed_packets \in Seq(Packet)
    /\ mutex \in Workers \cup {"free"}
    /\ worker \in [Workers -> {"idle", "check", "process", "dead"}]
    /\ item \in [Workers -> Packet \cup {NoItem}]
    /\ crashed \in BOOLEAN
    /\ taken \in [Clients -> Seq(Byte)]
    /\ pushed \in Seq(Packet)
    /\ processed \in Seq(Packet)
    /\ integrity \in [Clients -> Integrity]

Init ==
    /\ PeersInit
    /\ pending = Clients
    /\ m_clients = <<>>
    /\ m_read_buffer = [c \in Clients |-> <<>>]
    /\ receiver = "accept"
    /\ toReceive = <<>>
    /\ chunk = <<>>
    /\ reader = "copy"
    /\ toRead = <<>>
    /\ packet_buffer = <<>>
    /\ readLength = 0
    /\ packets = <<>>
    /\ m_unprocessed_packets = <<>>
    /\ mutex = "free"
    /\ worker = [w \in Workers |-> "idle"]
    /\ item = [w \in Workers |-> NoItem]
    /\ crashed = FALSE
    /\ taken = [c \in Clients |-> <<>>]
    /\ pushed = <<>>
    /\ processed = <<>>
    /\ integrity = [c \in Clients |-> "clean"]
-----------------------------------------------------------------------------
(* The peers.                                                              *)

Send(c, payload) ==
    /\ PeerSends(c, payload)
    /\ UNCHANGED <<netVars, receiverVars, readerVars, workerVars, queueVars,
                   crashed, taken, integrity>>
-----------------------------------------------------------------------------
(* The receiver.                                                           *)

(* accept() would block, or failed; the round goes on with ClientsRecv.    *)
AcceptNothing ==
    /\ receiver = "accept"
    /\ receiver' = "recv"
    /\ toReceive' = m_clients
    /\ UNCHANGED <<peerVars, netVars, chunk, readerVars, workerVars,
                   queueVars, crashed, taken, integrity>>

(* accept() has returned a peer; m_clients is about to be written.         *)
Accept ==
    /\ receiver = "accept"
    /\ pending # {}
    /\ receiver' = "addClient"
    /\ UNCHANGED <<peerVars, netVars, toReceive, chunk, readerVars, workerVars,
                   queueVars, crashed, taken, integrity>>

AddClient(c) ==
    /\ receiver = "addClient"
    /\ c \in pending
    /\ pending' = pending \ {c}
    /\ m_clients' = Append(m_clients, c)
    /\ receiver' = "recv"
    /\ toReceive' = Append(m_clients, c)
    /\ UNCHANGED <<peerVars, m_read_buffer, chunk, readerVars, workerVars,
                   queueVars, crashed, taken, integrity>>

(* Recv has returned nothing for the next client.                          *)
RecvNothing ==
    /\ receiver = "recv"
    /\ toReceive # <<>>
    /\ wire[Head(toReceive)] = <<>>
    /\ toReceive' = Tail(toReceive)
    /\ UNCHANGED <<peerVars, netVars, receiver, chunk, readerVars, workerVars,
                   queueVars, crashed, taken, integrity>>

(* Recv has returned size bytes; their insertion is under way from here to *)
(* Insert.  Nobody else sees the bytes before it starts, so that the two   *)
(* need no step between them.                                              *)
Recv(size) ==
    /\ receiver = "recv"
    /\ toReceive # <<>>
    /\ RecvReturns(Head(toReceive), size)
    /\ chunk' = Received(Head(toReceive), size)
    /\ receiver' = "insert"
    /\ UNCHANGED <<netVars, toReceive, readerVars, workerVars, queueVars,
                   crashed, taken, integrity>>

Inserting(c) == receiver = "insert" /\ Head(toReceive) = c

InFlight(c) == IF Inserting(c) THEN chunk ELSE <<>>

(* The reader has a copy of the read buffer of c it has not erased yet.    *)
Parsing(c) == reader \in {"parse", "erase"} /\ Head(toRead) = c

InsertionDone ==
    /\ receiver' = "recv"
    /\ toReceive' = Tail(toReceive)
    /\ chunk' = <<>>

(* The chunk goes to the BEGINNING of the read buffer.                     *)
Insert ==
    /\ receiver = "insert"
    /\ LET c == Head(toReceive)
       IN  /\ m_read_buffer' = [m_read_buffer EXCEPT ![c] = Inserted(chunk, @)]
           /\ integrity' = [integrity EXCEPT ![c] =
                  IF @ = "clean" /\ (m_read_buffer[c] # <<>> \/ Parsing(c))
                  THEN "mixed" ELSE @]
    /\ InsertionDone
    /\ UNCHANGED <<peerVars, pending, m_clients, readerVars, workerVars, queueVars,
                   crashed, taken>>

RoundDone ==
    /\ receiver = "recv"
    /\ toReceive = <<>>
    /\ receiver' = "accept"
    /\ UNCHANGED <<peerVars, netVars, toReceive, chunk, readerVars, workerVars,
                   queueVars, crashed, taken, integrity>>

Receiver ==
    /\ ~crashed
    /\ \/ AcceptNothing
       \/ Accept
       \/ \E c \in Clients : AddClient(c)
       \/ RecvNothing
       \/ \E size \in ChunkSizes : Recv(size)
       \/ Insert
       \/ RoundDone
-----------------------------------------------------------------------------
(* The reader.                                                             *)

GetClients ==
    /\ reader = "copy"
    /\ toRead = <<>>
    /\ toRead' = m_clients
    /\ UNCHANGED <<peerVars, netVars, receiverVars, reader, packet_buffer,
                   readLength, packets, workerVars, queueVars, crashed, taken,
                   integrity>>

(***************************************************************************)
(* What a copy made while old is being turned into new can hold: the copy  *)
(* runs forward and the insertion shifts the old bytes backward, so that   *)
(* the copy is old up to where they meet and new from there on, with the   *)
(* old or the new size.                                                    *)
(***************************************************************************)
Torn(old, new) ==
    UNION {{SubSeq(old, 1, meet) \o SubSeq(new, meet + 1, size) : meet \in 0 .. Len(old)}
              : size \in {Len(old), Len(new)}}

CopyTo(buffer) ==
    /\ packet_buffer' = buffer
    /\ readLength' = 0
    /\ packets' = <<>>
    /\ reader' = "parse"
    /\ UNCHANGED <<peerVars, netVars, receiverVars, toRead, workerVars,
                   queueVars, crashed, taken>>

Copy ==
    /\ reader = "copy"
    /\ toRead # <<>>
    /\ ~Inserting(Head(toRead))
    /\ CopyTo(m_read_buffer[Head(toRead)])
    /\ UNCHANGED integrity

CopyTorn ==
    /\ reader = "copy"
    /\ toRead # <<>>
    /\ LET c == Head(toRead)
       IN  /\ Inserting(c)
           /\ \E buffer \in Torn(m_read_buffer[c], Inserted(chunk, m_read_buffer[c])) :
                  CopyTo(buffer)
           /\ integrity' = [integrity EXCEPT ![c] = "raced"]

Unparsed == Rest(packet_buffer, readLength)

Found == packet_from_buffer(Unparsed)

(* Mutant: a frame replaces the ones parsed before it.                     *)
ParseFrameLastOnly ==
    /\ reader = "parse"
    /\ readLength >= 0 /\ Found.len > 0
    /\ readLength' = ToInt(readLength + Found.len)
    /\ packets' = <<Found.packet>>
    /\ UNCHANGED <<peerVars, netVars, receiverVars, reader, toRead, packet_buffer,
                   workerVars, queueVars, crashed, taken, integrity>>

(* One turn of the loop of packets_from_buffer on the reader's own copy.   *)
ParseFrame ==
    /\ reader = "parse"
    /\ readLength >= 0 /\ Found.len > 0
    /\ readLength' = ToInt(readLength + Found.len)
    /\ packets' = Append(packets, Found.packet)
    /\ UNCHANGED <<peerVars, netVars, receiverVars, reader, toRead, packet_buffer,
                   workerVars, queueVars, crashed, taken, integrity>>

(* The loop ends, and the length it returns.                               *)
LoopEnds == reader = "parse" /\ (readLength < 0 \/ Found.len <= 0)

ReturnedLen == IF readLength < 0 THEN readLength ELSE readLength + Found.len

(* Its locals are not used again; they are cleared to save states.         *)
NextClient ==
    /\ reader' = "copy"
    /\ toRead' = Tail(toRead)
    /\ packet_buffer' = <<>>
    /\ readLength' = 0
    /\ packets' = <<>>

(* "if (len <= 0) continue;"                                               *)
ParsedNothing ==
    /\ LoopEnds
    /\ ReturnedLen <= 0
    /\ NextClient
    /\ UNCHANGED <<peerVars, netVars, receiverVars, workerVars, queueVars,
                   crashed, taken, integrity>>

ParsedSome ==
    /\ LoopEnds
    /\ ReturnedLen > 0
    /\ readLength' = ReturnedLen
    /\ reader' = "erase"
    /\ UNCHANGED <<peerVars, netVars, receiverVars, toRead, packet_buffer,
                   packets, workerVars, queueVars, crashed, taken, integrity>>

(* A size that wraps: bad_alloc leaves the thread function and ends the    *)
(* reader.  Crash and ParseFrame, or the end of the loop, are the other    *)
(* outcomes.                                                               *)
ReaderThrows ==
    /\ reader = "parse"
    /\ readLength >= 0 /\ SizeWraps(Unparsed)
    /\ reader' = "dead"
    /\ UNCHANGED <<peerVars, netVars, receiverVars, toRead, packet_buffer,
                   readLength, packets, workerVars, queueVars, crashed, taken,
                   integrity>>

EraseFrom(c) ==
    /\ reader = "erase"
    /\ c = Head(toRead)
    /\ reader' = "push"
    /\ taken' = [taken EXCEPT ![c] = @ \o SubSeq(packet_buffer, 1, readLength)]
    /\ UNCHANGED <<peerVars, pending, m_clients, toRead, packet_buffer, readLength, packets,
                   workerVars, queueVars, crashed>>

Erase(c) ==
    /\ EraseFrom(c)
    /\ ~Inserting(c)
    /\ m_read_buffer' = [m_read_buffer EXCEPT ![c] = Erased(@, readLength)]
    /\ UNCHANGED <<receiverVars, integrity>>

(* Erasure and insertion overlap: either one may be lost.                  *)
EraseTorn(c) ==
    /\ EraseFrom(c)
    /\ Inserting(c)
    /\ LET old == m_read_buffer[c]
           new == Inserted(chunk, old)
       IN  \E buffer \in {Erased(old, readLength), new, Erased(new, readLength)} :
               m_read_buffer' = [m_read_buffer EXCEPT ![c] = buffer]
    /\ InsertionDone
    /\ integrity' = [integrity EXCEPT ![c] = "raced"]

(* Mutant: the packets go to the client that was accepted first.           *)
ParsedForFirst(c) == [i \in DOMAIN packets |-> <<Head(m_clients), packets[i]>>]

Parsed(c) == [i \in DOMAIN packets |-> <<c, packets[i]>>]

(* The whole critical section: nobody sees the queue before its end.       *)
Push ==
    /\ reader = "push"
    /\ mutex = "free"
    /\ m_unprocessed_packets' = m_unprocessed_packets \o Parsed(Head(toRead))
    /\ pushed' = pushed \o Parsed(Head(toRead))
    /\ NextClient
    /\ UNCHANGED <<peerVars, netVars, receiverVars, workerVars, mutex, processed,
                   crashed, taken, integrity>>

Reader ==
    /\ ~crashed
    /\ \/ GetClients
       \/ Copy
       \/ CopyTorn
       \/ ParseFrame
       \/ ParsedNothing
       \/ ParsedSome
       \/ ReaderThrows
       \/ \E c \in Clients : Erase(c) \/ EraseTorn(c)
       \/ Push
-----------------------------------------------------------------------------
(* The workers.                                                            *)

Lock(w) ==
    /\ worker[w] = "idle"
    /\ mutex = "free"
    /\ mutex' = w
    /\ worker' = [worker EXCEPT ![w] = "check"]
    /\ UNCHANGED <<peerVars, netVars, receiverVars, readerVars, item,
                   m_unprocessed_packets, pushed, processed, crashed, taken,
                   integrity>>

FindEmpty(w) ==
    /\ worker[w] = "check"
    /\ m_unprocessed_packets = <<>>
    /\ mutex' = "free"
    /\ worker' = [worker EXCEPT ![w] = "idle"]
    /\ UNCHANGED <<peerVars, netVars, receiverVars, readerVars, item,
                   m_unprocessed_packets, pushed, processed, crashed, taken,
                   integrity>>

(* Mutant: the newest packet is taken.                                     *)
PopNewest(w) ==
    /\ worker[w] = "check"
    /\ m_unprocessed_packets # <<>>
    /\ LET last == Len(m_unprocessed_packets)
       IN  /\ item' = [item EXCEPT ![w] = m_unprocessed_packets[last]]
           /\ m_unprocessed_packets' = SubSeq(m_unprocessed_packets, 1, last - 1)
    /\ worker' = [worker EXCEPT ![w] = "process"]
    /\ UNCHANGED <<peerVars, netVars, receiverVars, readerVars, mutex, pushed,
                   processed, crashed, taken, integrity>>

Pop(w) ==
    /\ worker[w] = "check"
    /\ m_unprocessed_packets # <<>>
    /\ item' = [item EXCEPT ![w] = Head(m_unprocessed_packets)]
    /\ m_unprocessed_packets' = Tail(m_unprocessed_packets)
    /\ worker' = [worker EXCEPT ![w] = "process"]
    /\ UNCHANGED <<peerVars, netVars, receiverVars, readerVars, mutex, pushed,
                   processed, crashed, taken, integrity>>

(* Mutant: no guard; a handler that throws keeps the mutex.                *)
FinishUnguarded(w, state) ==
    /\ worker[w] = "process"
    /\ processed' = Append(processed, item[w])
    /\ item' = [item EXCEPT ![w] = NoItem]
    /\ mutex' = IF state = "dead" THEN w ELSE "free"
    /\ worker' = [worker EXCEPT ![w] = state]
    /\ UNCHANGED <<peerVars, netVars, receiverVars, readerVars,
                   m_unprocessed_packets, pushed, crashed, taken, integrity>>

(* ProcessPacket has run to its end, or has thrown.  Either way the guard  *)
(* releases the mutex.                                                     *)
Finish(w, state) ==
    /\ worker[w] = "process"
    /\ processed' = Append(processed, item[w])
    /\ item' = [item EXCEPT ![w] = NoItem]
    /\ mutex' = "free"
    /\ worker' = [worker EXCEPT ![w] = state]
    /\ UNCHANGED <<peerVars, netVars, receiverVars, readerVars,
                   m_unprocessed_packets, pushed, crashed, taken, integrity>>

Process(w) == Finish(w, "idle")

(* Nothing catches the exception in the thread function: the thread ends.  *)
Throw(w) == item[w] # NoItem /\ item[w][2] \in Throwing /\ Finish(w, "dead")

Worker(w) ==
    /\ ~crashed
    /\ Lock(w) \/ FindEmpty(w) \/ Pop(w) \/ Process(w) \/ Throw(w)
-----------------------------------------------------------------------------
(***************************************************************************)
(* The outcomes of undefined behaviour that end the process: reading       *)
(* m_clients or a read buffer during an unlocked write to it, or copying   *)
(* past the end of the reader's copy.                                      *)
(***************************************************************************)
Crash ==
    /\ ~crashed
    /\ \/ reader = "copy" /\ toRead = <<>> /\ receiver = "addClient"
       \/ reader = "copy" /\ toRead # <<>> /\ Inserting(Head(toRead))
       \/ reader = "erase" /\ Inserting(Head(toRead))
       \/ reader = "parse" /\ readLength >= 0 /\ SizeWraps(Unparsed)
    /\ crashed' = TRUE
    /\ UNCHANGED <<peerVars, netVars, receiverVars, readerVars, workerVars,
                   queueVars, taken, integrity>>

Next ==
    \/ \E c \in Clients, payload \in Payloads : Send(c, payload)
    \/ Receiver
    \/ Reader
    \/ \E w \in Workers : Worker(w)
    \/ Crash

Spec == Init /\ [][Next]_vars

(* Every thread of the server keeps being scheduled.                       *)
Fairness == /\ WF_vars(Receiver)
            /\ WF_vars(Reader)
            /\ \A w \in Workers : WF_vars(Worker(w))

FairSpec == Spec /\ Fairness
-----------------------------------------------------------------------------
(* Properties.                                                             *)

(***************************************************************************)
(* A worker that is inside the critical section, and only such a worker,   *)
(* holds m_unprocessed_packet_mutex: handlers never overlap, and a thread  *)
(* that an exception has ended does not keep the others out                *)
(* (server.cpp:233-241).                                                   *)
(***************************************************************************)
MutexHeldByWorkerInside ==
    \A w \in Workers : worker[w] \in {"check", "process"} <=> mutex = w

InHand ==
    IF mutex # "free" /\ worker[mutex] = "process" THEN <<item[mutex]>> ELSE <<>>

(***************************************************************************)
(* Whatever the number of workers and whichever of them have died, packets *)
(* are processed in the order in which the reader pushed them, none twice  *)
(* and none skipped: the mutex is held from the pop to the end of the      *)
(* handler (server.cpp:233-240).                                           *)
(***************************************************************************)
ProcessedInPushOrder == pushed = processed \o InHand \o m_unprocessed_packets

(***************************************************************************)
(* Until the reader and the receiver meet inside one vector operation, no  *)
(* byte count goes astray: as many bytes as were parsed have been erased.  *)
(* A chunk inserted between copy and erasure makes the reader erase the    *)
(* wrong bytes, never the wrong number (server.cpp:198-212).               *)
(***************************************************************************)
BytesConserved ==
    \A c \in Clients :
        integrity[c] # "raced" =>
            Len(stream[c]) = Len(taken[c]) + Len(m_read_buffer[c])
                               + Len(InFlight(c)) + Len(wire[c])

(***************************************************************************)
(* As long as every chunk finds an empty read buffer that the reader is    *)
(* not about to erase from, the stream is kept byte for byte: what was     *)
(* parsed, what is buffered and what is still to come are what the peer    *)
(* sent (server_socket.cpp:92-96, server.cpp:198-212).                     *)
(***************************************************************************)
StreamKept ==
    \A c \in Clients :
        integrity[c] = "clean" =>
            stream[c] = taken[c] \o m_read_buffer[c] \o InFlight(c) \o wire[c]

(***************************************************************************)
(* The loop the reader runs over its copy computes packets_from_buffer     *)
(* (packet.cpp:41-67).                                                     *)
(***************************************************************************)
LoopParsesTheCopy ==
    reader = "erase" =>
        /\ packets_from_buffer(packet_buffer).len = readLength
        /\ packets_from_buffer(packet_buffer).packets = packets

(***************************************************************************)
(* The packets queued for the handlers, per client, implement PacketStream *)
(* with the clean streams as the intact ones (server.cpp:191-225).         *)
(***************************************************************************)
PushedFrom(c) ==
    FlattenSeq([i \in DOMAIN pushed |->
                  IF pushed[i][1] = c THEN <<pushed[i][2]>> ELSE <<>>])

Stream == INSTANCE PacketStream WITH
              delivered <- [c \in Clients |-> PushedFrom(c)],
              intact    <- {c \in Clients : integrity[c] = "clean"}

ImplementsPacketStream == Stream!Spec

(***************************************************************************)
(* A pushed packet is taken off the queue eventually, unless the handlers  *)
(* have thrown in every worker or the process has been killed.             *)
(***************************************************************************)
QueueDrains ==
    \A n \in 1 .. Cardinality(Clients) * MaxSends :
        Len(pushed) >= n ~>
            Len(processed) >= n \/ crashed \/ \A w \in Workers : worker[w] = "dead"
=============================================================================
