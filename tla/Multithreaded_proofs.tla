------------------------ MODULE Multithreaded_proofs ------------------------
(***************************************************************************)
(* What holds of Server::Multithreaded for every number of clients and     *)
(* workers, every payload, every size of a chunk and every number of       *)
(* packets sent.                                                           *)
(***************************************************************************)
EXTENDS Multithreaded, Base_proofs

(* Where the loops stand, as far as the types of what they touch need it.  *)
LoopsOK ==
    /\ reader = "parse" /\ readLength >= 0 => readLength \in ReadLengths(packet_buffer)
    /\ reader = "erase" => readLength \in 1 .. Len(packet_buffer)
    /\ reader \in {"parse", "erase", "push"} => toRead # <<>>
    /\ receiver = "insert" => toReceive # <<>>
    /\ \A w \in Workers : worker[w] = "process" => item[w] \in Packet

TypeInv == TypeOK /\ LoopsOK

LEMMA InitTypeInv == Init => TypeInv
<1> SUFFICES ASSUME Init PROVE TypeInv
  OBVIOUS
<1>1. /\ <<>> \in Seq(Clients) /\ <<>> \in Seq(Byte) /\ <<>> \in Seq(Payloads)
      /\ <<>> \in Seq(Seq(Byte)) /\ <<>> \in Seq(Packet) /\ Len(<<>>) = 0
  OBVIOUS
<1>2. PeersTypeOK
  BY <1>1 DEF Init, PeersInit, PeersTypeOK
<1>3. /\ packet_buffer \in Seq(Byte) /\ readLength \in Int /\ packets \in Seq(Seq(Byte))
      /\ reader = "copy" /\ toRead \in Seq(Clients)
  BY <1>1 DEF Init
<1>5. TypeOK
  BY <1>1, <1>2, <1>3 DEF Init, TypeOK, Integrity, NoItem
<1>4. LoopsOK
  BY <1>1 DEF Init, LoopsOK
<1>. QED
  BY <1>4, <1>5 DEF TypeInv

LEMMA SendTypeInv ==
    ASSUME TypeInv, NEW c \in Clients, NEW payload \in Payloads, Send(c, payload)
    PROVE  TypeInv'
<1>1. packet_to_buffer(payload) \in Seq(Byte)
  BY PayloadsAssumption, PacketToBufferType
<1>2. PeersTypeOK'
  BY <1>1 DEF TypeInv, TypeOK, PeersTypeOK, Send, PeerSends
<1>. QED
  BY <1>2 DEF TypeInv, TypeOK, LoopsOK, Send, netVars, receiverVars, readerVars,
              workerVars, queueVars

LEMMA ReceiverTypeInv ==
    ASSUME TypeInv, Receiver
    PROVE  TypeInv'
<1> USE DEF TypeInv, TypeOK, PeersTypeOK, LoopsOK, peerVars, netVars, receiverVars,
            readerVars, workerVars, queueVars
<1>1. CASE AcceptNothing
  BY <1>1 DEF AcceptNothing
<1>2. CASE Accept
  BY <1>2 DEF Accept
<1>3. ASSUME NEW c \in Clients, AddClient(c) PROVE TypeInv'
  <2>1. Append(m_clients, c) \in Seq(Clients)
    OBVIOUS
  <2>2. pending' \subseteq Clients /\ m_clients' \in Seq(Clients) /\ toReceive' \in Seq(Clients)
    BY <1>3, <2>1 DEF AddClient
  <2>. QED
    BY <1>3, <2>2 DEF AddClient
<1>4. CASE RecvNothing
  <2>1. toReceive' \in Seq(Clients)
    BY <1>4 DEF RecvNothing
  <2>. QED
    BY <1>4, <2>1 DEF RecvNothing
<1>5. ASSUME NEW size \in ChunkSizes, Recv(size) PROVE TypeInv'
  <2>1. PICK c \in Clients : c = Head(toReceive) /\ toReceive # <<>>
    BY <1>5, HeadTailProperties DEF Recv
  <2>2. size \in 0 .. Len(wire[c]) /\ wire[c] \in Seq(Byte)
    <3>1. wire[c] \in Seq(Byte)
      BY <2>1
    <3>2. size <= Len(wire[c])
      BY <1>5, <2>1 DEF Recv, RecvReturns
    <3>. QED
      BY <3>1, <3>2, BoundsAssumption
  <2>3. Received(c, size) \in Seq(Byte) /\ Rest(wire[c], size) \in Seq(Byte)
    BY <2>2, RestType, PrefixType DEF Received
  <2>4. chunk' \in Seq(Byte) /\ PeersTypeOK'
    BY <1>5, <2>1, <2>3 DEF Recv, RecvReturns
  <2>. QED
    BY <1>5, <2>1, <2>4 DEF Recv
<1>6. CASE Insert
  <2>1. Head(toReceive) \in Clients /\ Tail(toReceive) \in Seq(Clients)
    BY <1>6, HeadTailProperties DEF Insert
  <2>2. m_read_buffer' \in [Clients -> Seq(Byte)]
    <3>1. chunk \o m_read_buffer[Head(toReceive)] \in Seq(Byte)
      BY <2>1
    <3>. QED
      BY <1>6, <3>1 DEF Insert, Inserted
  <2>3. integrity' \in [Clients -> Integrity]
    BY <1>6, <2>1 DEF Insert, Integrity
  <2>4. /\ receiver' = "recv" /\ toReceive' \in Seq(Clients) /\ chunk' \in Seq(Byte)
        /\ UNCHANGED <<peerVars, pending, m_clients, readerVars, workerVars, queueVars,
                        crashed, taken>>
    BY <1>6, <2>1 DEF Insert, InsertionDone
  <2>. QED
    BY <2>2, <2>3, <2>4
<1>7. CASE RoundDone
  BY <1>7 DEF RoundDone
<1>. QED
  BY <1>1, <1>2, <1>3, <1>4, <1>5, <1>6, <1>7 DEF Receiver

(* A copy made during an insertion is made of bytes.                       *)
LEMMA TornType ==
    ASSUME NEW old \in Seq(Byte), NEW inserted \in Seq(Byte),
           NEW buffer \in Torn(old, inserted \o old)
    PROVE  buffer \in Seq(Byte)
<1> DEFINE new == inserted \o old
<1>1. new \in Seq(Byte) /\ Len(old) <= Len(new)
  OBVIOUS
<1> HIDE DEF new
<1>2. PICK meet \in 0 .. Len(old), size \in {Len(old), Len(new)} :
          buffer = SubSeq(old, 1, meet) \o SubSeq(new, meet + 1, size)
  BY DEF Torn, new
<1>3. SubSeq(old, 1, meet) \in Seq(Byte) /\ SubSeq(new, meet + 1, size) \in Seq(Byte)
  BY <1>1
<1>. QED
  BY <1>2, <1>3

LEMMA CopyToTypeInv ==
    ASSUME TypeInv, NEW buffer \in Seq(Byte), CopyTo(buffer),
           integrity' \in [Clients -> Integrity], toRead # <<>>,
           UNCHANGED <<m_read_buffer, receiver>>
    PROVE  TypeInv'
<1>1. 0 \in ReadLengths(buffer) /\ <<>> \in Seq(Seq(Byte))
  BY FirstLength
<1>2. /\ packet_buffer' \in Seq(Byte) /\ readLength' \in Int
      /\ packets' \in Seq(Seq(Byte)) /\ reader' = "parse"
      /\ readLength' \in ReadLengths(packet_buffer')
  BY <1>1 DEF CopyTo
<1>3. UNCHANGED <<peerVars, pending, m_clients, receiverVars, toRead, workerVars,
                  queueVars, crashed, taken>>
  BY DEF CopyTo, netVars
<1>. QED
  BY <1>2, <1>3 DEF TypeInv, TypeOK, PeersTypeOK, LoopsOK, peerVars, netVars,
              receiverVars, workerVars, queueVars

(* The reader leaves a client with its locals cleared.                     *)
LEMMA NextClientType ==
    ASSUME TypeInv, toRead # <<>>, NextClient
    PROVE  /\ reader' = "copy"
           /\ toRead' \in Seq(Clients)
           /\ packet_buffer' \in Seq(Byte)
           /\ readLength' \in Int
           /\ packets' \in Seq(Seq(Byte))
<1>1. toRead \in Seq(Clients)
  BY DEF TypeInv, TypeOK
<1>2. <<>> \in Seq(Byte) /\ <<>> \in Seq(Seq(Byte))
  OBVIOUS
<1>. QED
  BY <1>1, <1>2 DEF NextClient

(* Where the loop of the reader stands, and what it finds there.           *)
LEMMA TurnOfReader ==
    ASSUME TypeInv, reader = "parse", readLength >= 0
    PROVE  /\ packet_buffer \in Seq(Byte) /\ readLength \in ReadLengths(packet_buffer)
           /\ Unparsed \in Seq(Byte)
           /\ Found.len = FrontLen(packet_buffer, readLength) /\ Found.len \in Int
           /\ Found.packet \in Seq(Byte)
           /\ Found.len <= Len(packet_buffer) - readLength
           /\ ToInt(readLength + Found.len) \in Int
           /\ Found.len > 0 /\ ToInt(readLength + Found.len) >= 0 =>
                  ToInt(readLength + Found.len) \in ReadLengths(packet_buffer)
<1>0. packet_buffer \in Seq(Byte) /\ readLength \in ReadLengths(packet_buffer)
  BY DEF TypeInv, TypeOK, LoopsOK
<1>1. PICK b \in Seq(Byte), n \in Nat : b = packet_buffer /\ n = readLength /\ n \in ReadLengths(b)
  BY <1>0, Lengths
<1>2. PICK rest \in Seq(Byte) : rest = Rest(b, n)
  BY <1>1, Lengths
<1>3. packet_from_buffer(rest).packet \in Seq(Byte)
  BY FrontBounds
<1>4. PICK len, next : len = FrontLen(b, n) /\ next = ToInt(n + len)
  OBVIOUS
<1>5. /\ len \in Int /\ next \in Int /\ len <= Len(b) - n
      /\ len > 0 /\ next >= 0 => next \in ReadLengths(b)
  BY <1>1, <1>4, NextLength
<1>6. Unparsed = rest /\ Found.len = len /\ Found.packet = packet_from_buffer(rest).packet
  BY <1>1, <1>2, <1>4 DEF Unparsed, Found, FrontLen
<1>. QED
  BY <1>1, <1>3, <1>4, <1>5, <1>6

LEMMA ParsedLength ==
    ASSUME TypeInv, ParsedSome
    PROVE  readLength' \in 1 .. Len(packet_buffer)
<1>1. reader = "parse" /\ readLength >= 0 /\ Found.len <= 0 /\ readLength + Found.len > 0
      /\ readLength' = readLength + Found.len
  <2>1. readLength \in Int
    BY DEF TypeInv, TypeOK
  <2>. QED
    BY <2>1 DEF ParsedSome, LoopEnds, ReturnedLen
<1>2. PICK b \in Seq(Byte), len \in Int :
          b = packet_buffer /\ len = Found.len /\ readLength \in ReadLengths(b)
  BY <1>1, TurnOfReader
<1>3. readLength \in 0 .. Len(b) /\ Len(b) \in Nat
  BY <1>2, Lengths, LenIsNat
<1>4. readLength + len \in 1 .. Len(b)
  BY <1>1, <1>2, <1>3
<1>. QED
  BY <1>1, <1>2, <1>4

LEMMA ParseTypeInv ==
    ASSUME TypeInv
    PROVE  /\ ParseFrame => TypeInv'
           /\ ParsedNothing => TypeInv'
           /\ ParsedSome => TypeInv'
           /\ ReaderThrows => TypeInv'
<1> USE DEF TypeInv, TypeOK, PeersTypeOK, LoopsOK, peerVars, netVars, receiverVars,
            workerVars, queueVars
<1>1. ASSUME ParseFrame PROVE TypeInv'
  <2>1. /\ Found.packet \in Seq(Byte) /\ readLength' \in Int
        /\ readLength' >= 0 => readLength' \in ReadLengths(packet_buffer)
    BY <1>1, TurnOfReader DEF ParseFrame
  <2>2. packets' \in Seq(Seq(Byte))
    BY <1>1, <2>1 DEF ParseFrame
  <2>3. /\ reader = "parse"
        /\ UNCHANGED <<peerVars, netVars, receiverVars, reader, toRead, packet_buffer,
                       workerVars, queueVars, crashed, taken, integrity>>
    BY <1>1 DEF ParseFrame
  <2>4. LoopsOK'
    BY <2>1, <2>3
  <2>. QED
    BY <2>1, <2>2, <2>3, <2>4
<1>2. ASSUME ParsedNothing PROVE TypeInv'
  <2>1. toRead # <<>> /\ NextClient
    BY <1>2 DEF ParsedNothing, LoopEnds
  <2>. QED
    BY <1>2, <2>1, NextClientType DEF ParsedNothing
<1>3. ASSUME ParsedSome PROVE TypeInv'
  <2>1. readLength' \in 1 .. Len(packet_buffer)
    BY <1>3, ParsedLength
  <2>2. \A n \in 1 .. Len(packet_buffer) : n \in Int
    OBVIOUS
  <2>3. /\ reader = "parse" /\ reader' = "erase"
        /\ UNCHANGED <<peerVars, netVars, receiverVars, toRead, packet_buffer,
                       packets, workerVars, queueVars, crashed, taken, integrity>>
    BY <1>3 DEF ParsedSome, LoopEnds
  <2>4. LoopsOK'
    BY <2>1, <2>3
  <2>. QED
    BY <2>1, <2>2, <2>3, <2>4
<1>4. ASSUME ReaderThrows PROVE TypeInv'
  BY <1>4 DEF ReaderThrows
<1>. QED
  BY <1>1, <1>2, <1>3, <1>4

LEMMA EraseTypeInv ==
    ASSUME TypeInv, NEW c \in Clients
    PROVE  /\ Erase(c) => TypeInv'
           /\ EraseTorn(c) => TypeInv'
<1> USE DEF TypeInv, TypeOK, PeersTypeOK, LoopsOK, peerVars, netVars, receiverVars,
            workerVars, queueVars
<1>1. ASSUME EraseFrom(c)
      PROVE  taken' \in [Clients -> Seq(Byte)] /\ toRead # <<>>
             /\ readLength \in 0 .. Len(packet_buffer)
  <2>0. readLength \in 0 .. Len(packet_buffer)
    BY <1>1 DEF EraseFrom
  <2>1. SubSeq(packet_buffer, 1, readLength) \in Seq(Byte)
    BY <2>0, PrefixType
  <2>2. taken' = [taken EXCEPT ![c] = @ \o SubSeq(packet_buffer, 1, readLength)]
        /\ reader = "erase"
    BY <1>1 DEF EraseFrom
  <2>3. taken[c] \o SubSeq(packet_buffer, 1, readLength) \in Seq(Byte)
    BY <2>1
  <2>. QED
    BY <2>0, <2>2, <2>3
<1>2. ASSUME Erase(c) PROVE TypeInv'
  <2>1. m_read_buffer' \in [Clients -> Seq(Byte)]
    <3>1. Rest(m_read_buffer[c], readLength) \in Seq(Byte)
      BY <1>1, <1>2, RestType DEF Erase
    <3>. QED
      BY <1>2, <3>1 DEF Erase, Erased
  <2>. QED
    BY <1>1, <1>2, <2>1 DEF Erase, EraseFrom
<1>3. ASSUME EraseTorn(c) PROVE TypeInv'
  <2>1. receiver = "insert" /\ toReceive # <<>>
    BY <1>3 DEF EraseTorn, Inserting
  <2>2. m_read_buffer' \in [Clients -> Seq(Byte)]
    <3>1. PICK n \in Nat : n = readLength
      BY <1>1, <1>3 DEF EraseTorn
    <3>2. PICK old \in Seq(Byte), new \in Seq(Byte) :
              old = m_read_buffer[c] /\ new = Inserted(chunk, old)
      BY ConcatOfBytes DEF Inserted
    <3>3. Rest(old, n) \in Seq(Byte) /\ Rest(new, n) \in Seq(Byte)
      BY RestType
    <3>4. PICK buffer \in Seq(Byte) : m_read_buffer' = [m_read_buffer EXCEPT ![c] = buffer]
      BY <1>3, <3>1, <3>2, <3>3 DEF EraseTorn, Erased
    <3>. QED
      BY <3>4
  <2>3. integrity' \in [Clients -> Integrity]
    BY <1>3 DEF EraseTorn, Integrity
  <2>4. toReceive' \in Seq(Clients) /\ chunk' \in Seq(Byte) /\ receiver' = "recv"
    BY <1>3, <2>1 DEF EraseTorn, InsertionDone
  <2>. QED
    BY <1>1, <1>3, <2>2, <2>3, <2>4 DEF EraseTorn, EraseFrom
<1>. QED
  BY <1>2, <1>3

LEMMA ParsedType ==
    ASSUME TypeInv, NEW c \in Clients
    PROVE  Parsed(c) \in Seq(Packet)
<1>1. packets \in Seq(Seq(Byte))
  BY DEF TypeInv, TypeOK
<1>2. \A i \in 1 .. Len(packets) : <<c, packets[i]>> \in Packet
  BY <1>1 DEF Packet
<1>. QED
  BY <1>1, <1>2 DEF Parsed

LEMMA ReaderTypeInv ==
    ASSUME TypeInv, Reader
    PROVE  TypeInv'
<1> USE DEF TypeInv, TypeOK, PeersTypeOK, LoopsOK, peerVars, netVars, receiverVars,
            readerVars, workerVars, queueVars
<1>1. CASE GetClients
  BY <1>1 DEF GetClients
<1>2. CASE Copy
  <2>1. /\ toRead # <<>> /\ Head(toRead) \in Clients
        /\ CopyTo(m_read_buffer[Head(toRead)])
        /\ UNCHANGED integrity
    BY <1>2, HeadTailProperties DEF Copy
  <2>2. m_read_buffer[Head(toRead)] \in Seq(Byte)
    BY <2>1
  <2>3. UNCHANGED <<m_read_buffer, receiver>>
    BY <2>1 DEF CopyTo
  <2>. QED
    BY <2>1, <2>2, <2>3, CopyToTypeInv
<1>3. CASE CopyTorn
  <2>1. PICK c \in Clients :
            /\ toRead # <<>> /\ c = Head(toRead)
            /\ \E buffer \in Torn(m_read_buffer[c], chunk \o m_read_buffer[c]) :
                   CopyTo(buffer)
            /\ integrity' = [integrity EXCEPT ![c] = "raced"]
    BY <1>3, HeadTailProperties DEF CopyTorn, Inserted
  <2>2. PICK buffer \in Seq(Byte) : CopyTo(buffer)
    BY <2>1, TornType
  <2>3. integrity' \in [Clients -> Integrity]
    BY <2>1 DEF Integrity
  <2>4. UNCHANGED <<m_read_buffer, receiver>>
    BY <2>2 DEF CopyTo
  <2>. QED
    BY <2>1, <2>2, <2>3, <2>4, CopyToTypeInv
<1>4. CASE ParseFrame \/ ParsedNothing \/ ParsedSome \/ ReaderThrows
  BY <1>4, ParseTypeInv
<1>5. ASSUME NEW c \in Clients, Erase(c) \/ EraseTorn(c) PROVE TypeInv'
  BY <1>5, EraseTypeInv
<1>6. CASE Push
  <2>1. toRead # <<>> /\ NextClient
    BY <1>6 DEF Push
  <2>2. Parsed(Head(toRead)) \in Seq(Packet)
    BY <2>1, HeadTailProperties, ParsedType
  <2>3. m_unprocessed_packets' \in Seq(Packet) /\ pushed' \in Seq(Packet)
    BY <1>6, <2>2 DEF Push
  <2>. QED
    BY <1>6, <2>1, <2>3, NextClientType DEF Push
<1>. QED
  BY <1>1, <1>2, <1>3, <1>4, <1>5, <1>6 DEF Reader

LEMMA WorkerTypeInv ==
    ASSUME TypeInv, NEW w \in Workers, Worker(w)
    PROVE  TypeInv'
<1> USE DEF TypeInv, TypeOK, PeersTypeOK, LoopsOK, peerVars, netVars, receiverVars,
            readerVars, workerVars, queueVars
<1>1. CASE Lock(w)
  BY <1>1 DEF Lock
<1>2. CASE FindEmpty(w)
  BY <1>2 DEF FindEmpty
<1>3. CASE Pop(w)
  <2>1. /\ Head(m_unprocessed_packets) \in Packet
        /\ Tail(m_unprocessed_packets) \in Seq(Packet)
    BY <1>3, HeadTailProperties DEF Pop
  <2>. QED
    BY <1>3, <2>1 DEF Pop
<1>4. ASSUME NEW state \in {"idle", "dead"}, Finish(w, state) PROVE TypeInv'
  <2>1. item[w] \in Packet
    BY <1>4 DEF Finish
  <2>2. processed' \in Seq(Packet)
    BY <1>4, <2>1 DEF Finish
  <2>. QED
    BY <1>4, <2>2 DEF Finish
<1>5. CASE Process(w) \/ Throw(w)
  BY <1>4, <1>5 DEF Process, Throw
<1>. QED
  BY <1>1, <1>2, <1>3, <1>5 DEF Worker

LEMMA CrashTypeInv == TypeInv /\ Crash => TypeInv'
BY DEF Crash, TypeInv, TypeOK, PeersTypeOK, LoopsOK, peerVars, netVars, receiverVars,
       readerVars, workerVars, queueVars

(***************************************************************************)
(* The types of all that the receiver, the reader and the workers keep,    *)
(* their locals included, for every value of the constants                 *)
(* (server.cpp:176-245).                                                   *)
(***************************************************************************)
THEOREM TypeInvariant == Spec => []TypeInv
<1>1. TypeInv /\ [Next]_vars => TypeInv'
  <2>1. SUFFICES ASSUME TypeInv, [Next]_vars PROVE TypeInv'
    OBVIOUS
  <2>2. CASE UNCHANGED vars
    BY <2>1, <2>2 DEF vars, TypeInv, TypeOK, PeersTypeOK, LoopsOK, peerVars, netVars,
                      receiverVars, readerVars, workerVars, queueVars
  <2>. QED
    BY <2>1, <2>2, SendTypeInv, ReceiverTypeInv, ReaderTypeInv, WorkerTypeInv,
       CrashTypeInv DEF Next
<1>. QED
  BY <1>1, InitTypeInv, PTL DEF Spec

(***************************************************************************)
(* Every variable keeps its type (server.cpp:176-245).                     *)
(***************************************************************************)
THEOREM TypeCorrect == Spec => []TypeOK
BY TypeInvariant, PTL DEF TypeInv
-----------------------------------------------------------------------------
(* The queue.                                                              *)

QueueInv == MutexHeldByWorkerInside /\ ProcessedInPushOrder

LEMMA InitQueueInv == Init => QueueInv
<1> SUFFICES ASSUME Init PROVE QueueInv
  OBVIOUS
<1>1. MutexHeldByWorkerInside
  BY ThreadsAssumption DEF Init, MutexHeldByWorkerInside
<1>2. InHand = <<>>
  BY DEF Init, InHand
<1>3. ProcessedInPushOrder
  BY <1>2 DEF Init, ProcessedInPushOrder
<1>. QED
  BY <1>1, <1>3 DEF QueueInv

(* Steps that leave the workers and the queue alone.                       *)
LEMMA QueueUntouched ==
    ASSUME QueueInv, UNCHANGED <<workerVars, queueVars>>
    PROVE  QueueInv'
BY DEF QueueInv, MutexHeldByWorkerInside, ProcessedInPushOrder, InHand, workerVars,
       queueVars

LEMMA OthersLeaveQueueAlone ==
    ASSUME \/ \E c \in Clients, payload \in Payloads : Send(c, payload)
           \/ Receiver
           \/ Reader /\ ~Push
           \/ Crash
           \/ UNCHANGED vars
    PROVE  UNCHANGED <<workerVars, queueVars>>
<1>1. ASSUME Receiver PROVE UNCHANGED <<workerVars, queueVars>>
  BY <1>1 DEF Receiver, AcceptNothing, Accept, AddClient, RecvNothing, Recv, Insert,
              RoundDone
<1>2. ASSUME Reader, ~Push PROVE UNCHANGED <<workerVars, queueVars>>
  BY <1>2 DEF Reader, GetClients, Copy, CopyTorn, CopyTo, ParseFrame, ParsedNothing,
              ParsedSome, ReaderThrows, Erase, EraseTorn, EraseFrom
<1>. QED
  BY <1>1, <1>2 DEF Send, Crash, vars

LEMMA PushQueueInv ==
    ASSUME TypeInv, QueueInv, Push
    PROVE  QueueInv'
<1> DEFINE pushing == Parsed(Head(toRead))
<1>1. pushing \in Seq(Packet)
  BY HeadTailProperties, ParsedType DEF TypeInv, TypeOK, LoopsOK, Push
<1>2. /\ pushed \in Seq(Packet) /\ processed \in Seq(Packet)
      /\ m_unprocessed_packets \in Seq(Packet)
  BY DEF TypeInv, TypeOK
<1>3. /\ pushed' = pushed \o pushing
      /\ m_unprocessed_packets' = m_unprocessed_packets \o pushing
      /\ mutex = "free"
      /\ UNCHANGED <<worker, item, processed, mutex>>
  BY DEF Push, workerVars
<1> HIDE DEF pushing
<1>4. InHand = <<>> /\ InHand' = <<>>
  BY <1>3 DEF InHand
<1>5. ProcessedInPushOrder'
  BY <1>1, <1>2, <1>3, <1>4 DEF QueueInv, ProcessedInPushOrder
<1>6. MutexHeldByWorkerInside'
  BY <1>3 DEF QueueInv, MutexHeldByWorkerInside
<1>. QED
  BY <1>5, <1>6 DEF QueueInv

LEMMA WorkerQueueInv ==
    ASSUME TypeInv, QueueInv, NEW w \in Workers, Worker(w)
    PROVE  QueueInv'
<1>1. /\ pushed \in Seq(Packet) /\ processed \in Seq(Packet)
      /\ m_unprocessed_packets \in Seq(Packet)
      /\ worker \in [Workers -> {"idle", "check", "process", "dead"}]
      /\ item \in [Workers -> Packet \cup {NoItem}]
      /\ w # "free"
  BY ThreadsAssumption DEF TypeInv, TypeOK
<1>2. /\ \A v \in Workers : worker[v] \in {"check", "process"} <=> mutex = v
      /\ pushed = processed \o InHand \o m_unprocessed_packets
  BY DEF QueueInv, MutexHeldByWorkerInside, ProcessedInPushOrder
<1>3. ASSUME NEW state \in {"idle", "check", "process", "dead"},
             worker' = [worker EXCEPT ![w] = state],
             mutex \in {w, "free"},
             mutex' = IF state \in {"check", "process"} THEN w ELSE "free"
      PROVE  MutexHeldByWorkerInside'
  <2>1. SUFFICES ASSUME NEW v \in Workers
                 PROVE  worker'[v] \in {"check", "process"} <=> mutex' = v
    BY DEF MutexHeldByWorkerInside
  <2>2. CASE v = w
    BY <1>1, <1>3, <2>2
  <2>3. CASE v # w
    <3>1. worker'[v] = worker[v] /\ mutex # v /\ mutex' # v
      BY <1>1, <1>3, <2>3, ThreadsAssumption
    <3>. QED
      BY <1>2, <3>1
  <2>. QED
    BY <2>2, <2>3
<1>4. CASE Lock(w)
  <2>1. MutexHeldByWorkerInside'
    BY <1>3, <1>4 DEF Lock
  <2>2. InHand = <<>> /\ InHand' = <<>>
    BY <1>1, <1>4 DEF Lock, InHand
  <2>3. ProcessedInPushOrder'
    BY <1>2, <1>4, <2>2 DEF Lock, ProcessedInPushOrder
  <2>. QED
    BY <2>1, <2>3 DEF QueueInv
<1>5. CASE FindEmpty(w)
  <2>1. mutex = w
    BY <1>2, <1>5 DEF FindEmpty
  <2>2. MutexHeldByWorkerInside'
    BY <1>3, <1>5, <2>1 DEF FindEmpty
  <2>3. InHand = <<>> /\ InHand' = <<>>
    BY <1>1, <1>5, <2>1 DEF FindEmpty, InHand
  <2>4. ProcessedInPushOrder'
    BY <1>2, <1>5, <2>3 DEF FindEmpty, ProcessedInPushOrder
  <2>. QED
    BY <2>2, <2>4 DEF QueueInv
<1>6. CASE Pop(w)
  <2>1. mutex = w /\ mutex' = w
    BY <1>2, <1>6 DEF Pop
  <2>2. MutexHeldByWorkerInside'
    BY <1>3, <1>6, <2>1 DEF Pop
  <2>3. InHand = <<>> /\ InHand' = <<Head(m_unprocessed_packets)>>
    BY <1>1, <1>6, <2>1 DEF Pop, InHand
  <2>4. m_unprocessed_packets = <<Head(m_unprocessed_packets)>> \o m_unprocessed_packets'
    BY <1>1, <1>6 DEF Pop
  <2>5. /\ <<Head(m_unprocessed_packets)>> \in Seq(Packet)
        /\ m_unprocessed_packets' \in Seq(Packet)
    BY <1>1, <1>6, HeadTailProperties DEF Pop
  <2>6. pushed = (processed \o <<Head(m_unprocessed_packets)>>) \o m_unprocessed_packets'
    <3>1. pushed = processed \o m_unprocessed_packets
      BY <1>1, <1>2, <2>3
    <3> DEFINE head == <<Head(m_unprocessed_packets)>>
    <3> HIDE DEF head
    <3>2. head \in Seq(Packet) /\ m_unprocessed_packets = head \o m_unprocessed_packets'
      BY <2>4, <2>5 DEF head
    <3>3. (processed \o head) \o m_unprocessed_packets'
              = processed \o (head \o m_unprocessed_packets')
      BY <1>1, <2>5, <3>2, ConcatAssociative
    <3>. QED
      BY <3>1, <3>2, <3>3 DEF head
  <2>7. ProcessedInPushOrder'
    BY <1>6, <2>3, <2>6 DEF Pop, ProcessedInPushOrder
  <2>. QED
    BY <2>2, <2>7 DEF QueueInv
<1>7. ASSUME NEW state \in {"idle", "dead"}, Finish(w, state) PROVE QueueInv'
  <2>1. mutex = w /\ worker[w] = "process"
    BY <1>2, <1>7 DEF Finish
  <2>2. MutexHeldByWorkerInside'
    BY <1>3, <1>7, <2>1 DEF Finish
  <2>3. InHand = <<item[w]>> /\ InHand' = <<>>
    BY <1>1, <1>7, <2>1 DEF Finish, InHand
  <2>4. item[w] \in Packet
    BY <2>1 DEF TypeInv, LoopsOK
  <2>5. processed' = processed \o <<item[w]>> /\ processed' \in Seq(Packet)
    BY <1>1, <1>7, <2>4 DEF Finish
  <2>6. pushed = processed' \o <<>> \o m_unprocessed_packets
    BY <1>1, <1>2, <2>3, <2>5
  <2>7. ProcessedInPushOrder'
    BY <1>7, <2>3, <2>6 DEF Finish, ProcessedInPushOrder
  <2>. QED
    BY <2>2, <2>7 DEF QueueInv
<1>8. CASE Process(w) \/ Throw(w)
  BY <1>7, <1>8 DEF Process, Throw
<1>. QED
  BY <1>4, <1>5, <1>6, <1>8 DEF Worker

(***************************************************************************)
(* The invariant of the queue and its mutex: who is inside the critical    *)
(* section, and that the packets processed and those still queued are, in  *)
(* order, those that were pushed (server.cpp:214-242).                     *)
(***************************************************************************)
THEOREM QueueInvariant == Spec => []QueueInv
<1>1. TypeInv /\ QueueInv /\ [Next]_vars => QueueInv'
  <2>1. SUFFICES ASSUME TypeInv, QueueInv, [Next]_vars PROVE QueueInv'
    OBVIOUS
  <2>. QED
    BY <2>1, OthersLeaveQueueAlone, QueueUntouched, PushQueueInv, WorkerQueueInv DEF Next
<1>. QED
  BY <1>1, InitQueueInv, TypeInvariant, PTL DEF Spec

(***************************************************************************)
(* Whatever the number of workers, only the worker inside the critical     *)
(* section holds m_unprocessed_packet_mutex, and one that an exception     *)
(* has ended does not keep it (server.cpp:233-241).                        *)
(***************************************************************************)
THEOREM HandlersExcludeEachOther == Spec => []MutexHeldByWorkerInside
BY QueueInvariant, PTL DEF QueueInv

(***************************************************************************)
(* Whatever the number of workers and however many of them die, packets    *)
(* are processed in the order they were pushed, each once                  *)
(* (server.cpp:214-222, 231-242).                                          *)
(***************************************************************************)
THEOREM QueueIsFifo == Spec => []ProcessedInPushOrder
BY QueueInvariant, PTL DEF QueueInv
-----------------------------------------------------------------------------
(***************************************************************************)
(* What becomes of the bytes of a client.                                  *)
(*                                                                         *)
(* The two properties of the streams are not inductive: the reader erases  *)
(* from the read buffer what it parsed from its copy, so that the copy has *)
(* to be related to the buffer.  As long as nothing raced the copy is no   *)
(* longer than the buffer, for insertions only make that longer; a clean   *)
(* buffer is still the copy.                                               *)
(***************************************************************************)
StreamInv(c) ==
    /\ integrity[c] # "raced" =>
           Balanced(stream[c], taken[c], m_read_buffer[c], InFlight(c), wire[c])
    /\ integrity[c] = "clean" =>
           Kept(stream[c], taken[c], m_read_buffer[c], InFlight(c), wire[c])
    /\ Parsing(c) /\ integrity[c] # "raced" =>
           Len(packet_buffer) <= Len(m_read_buffer[c])
    /\ Parsing(c) /\ integrity[c] = "clean" => packet_buffer = m_read_buffer[c]

StreamsInv == \A c \in Clients : StreamInv(c)

(* The types of everything StreamInv(c) looks at.                          *)
LEMMA BytesOf ==
    ASSUME TypeInv, NEW c \in Clients
    PROVE  /\ stream[c] \in Seq(Byte) /\ taken[c] \in Seq(Byte)
           /\ m_read_buffer[c] \in Seq(Byte) /\ wire[c] \in Seq(Byte)
           /\ chunk \in Seq(Byte) /\ InFlight(c) \in Seq(Byte)
           /\ packet_buffer \in Seq(Byte)
           /\ reader = "erase" => readLength \in 0 .. Len(packet_buffer)
           /\ integrity[c] \in Integrity
<1>1. chunk \in Seq(Byte) /\ <<>> \in Seq(Byte)
  BY DEF TypeInv, TypeOK
<1>2. InFlight(c) \in Seq(Byte)
  BY <1>1 DEF InFlight
<1>. QED
  BY <1>1, <1>2 DEF TypeInv, TypeOK, PeersTypeOK, LoopsOK

LEMMA InitStreamsInv == Init => StreamsInv
<1> SUFFICES ASSUME Init, NEW c \in Clients PROVE StreamInv(c)
  BY DEF StreamsInv
<1>1. /\ stream[c] = <<>> /\ taken[c] = <<>> /\ m_read_buffer[c] = <<>> /\ wire[c] = <<>>
  BY DEF Init, PeersInit
<1>2. InFlight(c) = <<>> /\ ~Parsing(c)
  BY DEF Init, InFlight, Inserting, Parsing
<1>3. Len(<<>>) = 0 /\ <<>> = <<>> \o <<>> \o <<>> \o <<>>
  OBVIOUS
<1>. QED
  BY <1>1, <1>2, <1>3 DEF StreamInv, Kept, Balanced

(* A step that leaves the bytes of c where they are, and does not start    *)
(* to parse them.                                                          *)
LEMMA StreamUntouched ==
    ASSUME NEW c \in Clients, StreamInv(c),
           /\ stream'[c] = stream[c] /\ taken'[c] = taken[c]
           /\ m_read_buffer'[c] = m_read_buffer[c] /\ wire'[c] = wire[c]
           /\ InFlight(c)' = InFlight(c) /\ integrity'[c] = integrity[c],
           Parsing(c)' => Parsing(c) /\ packet_buffer' = packet_buffer
    PROVE  StreamInv(c)'
BY DEF StreamInv

LEMMA SendStreamsInv ==
    ASSUME TypeInv, StreamsInv, NEW d \in Clients, NEW payload \in Payloads,
           Send(d, payload), NEW c \in Clients
    PROVE  StreamInv(c)'
<1>1. StreamInv(c)
  BY DEF StreamsInv
<1>2. /\ taken' = taken /\ m_read_buffer' = m_read_buffer /\ integrity' = integrity
      /\ InFlight(c)' = InFlight(c) /\ Parsing(c)' = Parsing(c)
      /\ packet_buffer' = packet_buffer
  BY DEF Send, netVars, receiverVars, readerVars, InFlight, Inserting, Parsing
<1>3. CASE c # d
  <2>1. stream'[c] = stream[c] /\ wire'[c] = wire[c]
    BY <1>3 DEF Send, PeerSends, TypeInv, TypeOK, PeersTypeOK
  <2>. QED
    BY <1>1, <1>2, <2>1, StreamUntouched
<1>4. CASE c = d
  <2>1. PICK frame \in Seq(Byte) : frame = packet_to_buffer(payload)
    BY PayloadsAssumption, PacketToBufferType
  <2>2. stream'[c] = stream[c] \o frame /\ wire'[c] = wire[c] \o frame
    BY <1>4, <2>1 DEF Send, PeerSends, TypeInv, TypeOK, PeersTypeOK
  <2>3. /\ stream'[c] \in Seq(Byte) /\ wire'[c] \in Seq(Byte)
        /\ Joined(stream[c], frame, stream'[c]) /\ Joined(wire[c], frame, wire'[c])
    BY <2>2, BytesOf, ConcatOfBytes DEF Joined
  <2>4. /\ integrity[c] = "clean" =>
               Kept(stream'[c], taken[c], m_read_buffer[c], InFlight(c), wire'[c])
        /\ integrity[c] # "raced" =>
               Balanced(stream'[c], taken[c], m_read_buffer[c], InFlight(c), wire'[c])
    BY <1>1, <2>3, BytesOf, KeptWhenGrown DEF StreamInv
  <2>. QED
    BY <1>1, <1>2, <2>4 DEF StreamInv
<1>. QED
  BY <1>3, <1>4

LEMMA ReceiverStreamsInv ==
    ASSUME TypeInv, StreamsInv, Receiver, NEW c \in Clients
    PROVE  StreamInv(c)'
<1>1. StreamInv(c)
  BY DEF StreamsInv
<1>2. /\ wire \in [Clients -> Seq(Byte)]
      /\ m_read_buffer \in [Clients -> Seq(Byte)]
      /\ integrity \in [Clients -> Integrity]
      /\ <<>> \in Seq(Byte)
  BY BytesOf DEF TypeInv, TypeOK, PeersTypeOK
<1>3. Parsing(c)' = Parsing(c) /\ packet_buffer' = packet_buffer
      /\ stream' = stream /\ taken' = taken
  BY DEF Receiver, AcceptNothing, Accept, AddClient, RecvNothing, Recv, RecvReturns, Insert,
         RoundDone, Parsing, readerVars, peerVars
<1>4. ASSUME receiver # "insert", receiver' # "insert",
             UNCHANGED <<m_read_buffer, wire, integrity>>
      PROVE  StreamInv(c)'
  BY <1>1, <1>3, <1>4, StreamUntouched DEF InFlight, Inserting
<1>5. CASE AcceptNothing \/ Accept \/ (\E d \in Clients : AddClient(d))
             \/ RecvNothing \/ RoundDone
  BY <1>4, <1>5 DEF AcceptNothing, Accept, AddClient, RecvNothing, RoundDone, netVars, peerVars
<1>6. ASSUME NEW size \in ChunkSizes, Recv(size) PROVE StreamInv(c)'
  <2>1. /\ InFlight(c) = <<>> /\ UNCHANGED <<m_read_buffer, integrity>>
        /\ InFlight(c)' = IF Head(toReceive) = c THEN chunk' ELSE <<>>
    BY <1>6 DEF Recv, InFlight, Inserting, netVars
  <2>2. CASE Head(toReceive) # c
    <3>1. wire'[c] = wire[c] /\ InFlight(c)' = InFlight(c)
      BY <1>2, <1>6, <2>1, <2>2 DEF Recv, RecvReturns
    <3>. QED
      BY <1>1, <1>3, <2>1, <3>1, StreamUntouched
  <2>3. CASE Head(toReceive) = c
    <3>1. size \in 0 .. Len(wire[c]) /\ wire[c] \in Seq(Byte)
      BY <1>2, <1>6, <2>3, BoundsAssumption DEF Recv, RecvReturns
    <3>2. chunk' = SubSeq(wire[c], 1, size) /\ wire'[c] = Rest(wire[c], size)
      BY <1>2, <1>6, <2>3 DEF Recv, RecvReturns, Received
    <3>3. SubSeq(wire[c], 1, size) \in Seq(Byte)
      BY <3>1, PrefixType
    <3>4. Rest(wire[c], size) \in Seq(Byte)
      BY <3>1, RestType
    <3>5. wire[c] = SubSeq(wire[c], 1, size) \o Rest(wire[c], size)
      BY <3>1, SplitAt
    <3>6. chunk' \in Seq(Byte) /\ wire'[c] \in Seq(Byte) /\ Joined(chunk', wire'[c], wire[c])
      BY <3>2, <3>3, <3>4, <3>5 DEF Joined
    <3>7. InFlight(c)' = chunk'
      BY <2>1, <2>3
    <3>8. /\ integrity[c] = "clean" =>
                 Kept(stream[c], taken[c], m_read_buffer[c], chunk', wire'[c])
          /\ integrity[c] # "raced" =>
                 Balanced(stream[c], taken[c], m_read_buffer[c], chunk', wire'[c])
      BY <1>1, <2>1, <3>6, BytesOf, KeptWhenReceived DEF StreamInv
    <3>. QED
      BY <1>1, <1>3, <2>1, <3>7, <3>8 DEF StreamInv
  <2>. QED
    BY <2>2, <2>3
<1>7. CASE Insert
  <2>1. /\ InFlight(c)' = <<>> /\ UNCHANGED wire
        /\ InFlight(c) = IF Head(toReceive) = c THEN chunk ELSE <<>>
        /\ Head(toReceive) \in Clients
    BY <1>7, HeadTailProperties DEF Insert, InsertionDone, InFlight, Inserting, peerVars,
                                    TypeInv, TypeOK, LoopsOK
  <2>2. CASE Head(toReceive) # c
    <3>1. m_read_buffer'[c] = m_read_buffer[c] /\ integrity'[c] = integrity[c]
      BY <1>2, <1>7, <2>1, <2>2 DEF Insert
    <3>. QED
      BY <1>1, <1>3, <2>1, <2>2, <3>1, StreamUntouched
  <2>3. CASE Head(toReceive) = c
    <3>1. /\ m_read_buffer'[c] = chunk \o m_read_buffer[c]
          /\ integrity'[c] =
                 IF integrity[c] = "clean" /\ (m_read_buffer[c] # <<>> \/ Parsing(c))
                 THEN "mixed" ELSE integrity[c]
      BY <1>2, <1>7, <2>3 DEF Insert, Inserted
    <3>2. m_read_buffer'[c] \in Seq(Byte) /\ Joined(chunk, m_read_buffer[c], m_read_buffer'[c])
      BY <3>1, BytesOf, ConcatOfBytes DEF Joined
    <3>3. /\ integrity'[c] # "raced" => integrity[c] # "raced"
          /\ integrity'[c] = "clean" =>
                 integrity[c] = "clean" /\ m_read_buffer[c] = <<>> /\ ~Parsing(c)
      BY <3>1
    <3>4. /\ integrity'[c] = "clean" =>
                 Kept(stream[c], taken[c], m_read_buffer'[c], InFlight(c)', wire[c])
          /\ integrity'[c] # "raced" =>
                 Balanced(stream[c], taken[c], m_read_buffer'[c], InFlight(c)', wire[c])
          /\ Len(m_read_buffer[c]) <= Len(m_read_buffer'[c])
      <4>1. PICK e \in Seq(Byte) : e = <<>> /\ e = InFlight(c)'
        BY <1>2, <2>1
      <4>2. PICK f \in Seq(Byte) : f = chunk /\ f = InFlight(c)
        BY <2>1, <2>3, BytesOf
      <4>3. PICK b \in Seq(Byte) : b = m_read_buffer[c]
        BY BytesOf
      <4>4. PICK b2 \in Seq(Byte) : b2 = m_read_buffer'[c]
        BY <3>2
      <4>5. Joined(f, b, b2)
        BY <3>2, <4>2, <4>3, <4>4
      <4>6. /\ b = <<>> /\ Kept(stream[c], taken[c], b, f, wire[c])
                => Kept(stream[c], taken[c], b2, e, wire[c])
            /\ Balanced(stream[c], taken[c], b, f, wire[c])
                => Balanced(stream[c], taken[c], b2, e, wire[c])
            /\ Len(b) <= Len(b2)
        BY <4>1, <4>5, BytesOf, KeptWhenInserted
      <4>. QED
        BY <1>1, <3>3, <4>1, <4>2, <4>3, <4>4, <4>6 DEF StreamInv
    <3>5. Parsing(c) /\ integrity'[c] # "raced" => Len(packet_buffer) <= Len(m_read_buffer'[c])
      <4>1. PICK m \in Nat, n \in Nat, k \in Nat :
                m = Len(packet_buffer) /\ n = Len(m_read_buffer[c]) /\ k = Len(m_read_buffer'[c])
        BY <3>2, BytesOf, LenIsNat
      <4>. QED
        BY <1>1, <3>3, <3>4, <4>1 DEF StreamInv
    <3>. QED
      BY <1>3, <2>1, <3>3, <3>4, <3>5 DEF StreamInv
  <2>. QED
    BY <2>2, <2>3
<1>. QED
  BY <1>5, <1>6, <1>7 DEF Receiver

LEMMA CopyStreamsInv ==
    ASSUME TypeInv, StreamsInv, NEW c \in Clients, Copy \/ CopyTorn
    PROVE  StreamInv(c)'
<1>1. StreamInv(c)
  BY DEF StreamsInv
<1>2. /\ stream' = stream /\ taken' = taken /\ m_read_buffer' = m_read_buffer /\ wire' = wire
      /\ InFlight(c)' = InFlight(c) /\ toRead' = toRead /\ reader' = "parse"
      /\ integrity \in [Clients -> Integrity]
  BY DEF Copy, CopyTorn, CopyTo, peerVars, netVars, receiverVars, InFlight, Inserting,
         TypeInv, TypeOK
<1>3. CASE Head(toRead) # c
  <2>1. ~Parsing(c)' /\ integrity'[c] = integrity[c]
    BY <1>2, <1>3 DEF Parsing, Copy, CopyTorn
  <2>. QED
    BY <1>1, <1>2, <2>1, StreamUntouched
<1>4. CASE Copy /\ Head(toRead) = c
  <2>1. packet_buffer' = m_read_buffer[c] /\ integrity' = integrity
    BY <1>4 DEF Copy, CopyTo
  <2>2. PICK n \in Nat : n = Len(m_read_buffer[c])
    BY BytesOf, LenIsNat
  <2>. QED
    BY <1>1, <1>2, <2>1, <2>2 DEF StreamInv
<1>5. CASE CopyTorn /\ Head(toRead) = c
  <2>1. integrity'[c] = "raced"
    BY <1>2, <1>5 DEF CopyTorn
  <2>. QED
    BY <2>1 DEF StreamInv
<1>. QED
  BY <1>3, <1>4, <1>5

(***************************************************************************)
(* The reader erases readLength bytes of the buffer: no more than it has,  *)
(* and from a clean buffer those that were parsed.                         *)
(***************************************************************************)
LEMMA EraseStreamsInv ==
    ASSUME TypeInv, StreamsInv, NEW c \in Clients, Erase(c)
    PROVE  StreamInv(c)'
<1>0. readLength \in 0 .. Len(packet_buffer)
  BY BytesOf DEF Erase, EraseFrom
<1>1. StreamInv(c) /\ Parsing(c)
  BY DEF StreamsInv, Parsing, Erase, EraseFrom
<1>2. /\ stream' = stream /\ wire' = wire /\ InFlight(c)' = InFlight(c)
      /\ integrity' = integrity /\ ~Parsing(c)'
  BY DEF Erase, EraseFrom, peerVars, receiverVars, InFlight, Inserting, Parsing
<1>3. PICK x \in Seq(Byte) : x = SubSeq(packet_buffer, 1, readLength) /\ Len(x) = readLength
  BY <1>0, BytesOf, PrefixType
<1>4. PICK b \in Seq(Byte) : b = m_read_buffer[c]
  BY BytesOf
<1>5. PICK b2 \in Seq(Byte) : /\ b2 = Rest(b, readLength)
                              /\ readLength <= Len(b) => Len(b2) = Len(b) - readLength
  <2>1. readLength \in Nat
    BY <1>0
  <2>2. /\ Rest(b, readLength) \in Seq(Byte)
        /\ readLength <= Len(b) => Len(Rest(b, readLength)) = Len(b) - readLength
    BY <2>1, RestType
  <2>. QED
    BY <2>2, Zenon
<1>6. PICK t2 \in Seq(Byte) : t2 = taken[c] \o x
  BY BytesOf, ConcatOfBytes
<1>7. m_read_buffer'[c] = b2 /\ taken'[c] = t2
  BY <1>3, <1>4, <1>5, <1>6 DEF Erase, Erased, EraseFrom, TypeInv, TypeOK
<1>8. Joined(taken[c], x, t2)
  BY <1>6 DEF Joined
<1>9. PICK p \in Nat, m \in Nat, n \in Nat, k \in Nat :
          p = Len(packet_buffer) /\ m = Len(b) /\ n = Len(x) /\ k = Len(b2)
  BY BytesOf, LenIsNat
<1>10. integrity[c] # "raced" => Len(b) = Len(x) + Len(b2)
  <2>1. integrity[c] # "raced" => p <= m
    BY <1>1, <1>4, <1>9 DEF StreamInv
  <2>. QED
    BY <1>0, <1>3, <1>5, <1>9, <2>1, BytesOf
<1>11. integrity[c] = "clean" => Joined(x, b2, b)
  <2>1. SUFFICES ASSUME integrity[c] = "clean" PROVE b = x \o b2
    BY DEF Joined
  <2>2. packet_buffer = b
    BY <1>1, <1>4, <2>1 DEF StreamInv
  <2>3. b = SubSeq(b, 1, readLength) \o Rest(b, readLength)
    BY <1>0, <2>2, BytesOf, SplitAt
  <2>. QED
    BY <1>3, <1>5, <2>2, <2>3
<1>12. /\ integrity[c] = "clean" =>
              Kept(stream[c], t2, b2, InFlight(c), wire[c])
       /\ integrity[c] # "raced" =>
              Balanced(stream[c], t2, b2, InFlight(c), wire[c])
  BY <1>1, <1>4, <1>8, <1>10, <1>11, BytesOf, KeptWhenErased DEF StreamInv
<1>. QED
  BY <1>2, <1>7, <1>12 DEF StreamInv

LEMMA ReaderStreamsInv ==
    ASSUME TypeInv, StreamsInv, Reader, NEW c \in Clients
    PROVE  StreamInv(c)'
<1>1. StreamInv(c)
  BY DEF StreamsInv
<1>2. ASSUME Parsing(c)' => Parsing(c) /\ packet_buffer' = packet_buffer,
             UNCHANGED <<stream, taken, m_read_buffer, wire, receiverVars, integrity>>
      PROVE  StreamInv(c)'
  <2>1. InFlight(c)' = InFlight(c)
    BY <1>2 DEF receiverVars, InFlight, Inserting
  <2>. QED
    BY <1>1, <1>2, <2>1, StreamUntouched
<1>3. CASE GetClients
  BY <1>2, <1>3 DEF GetClients, Parsing, peerVars, netVars
<1>4. CASE Copy \/ CopyTorn
  BY <1>4, CopyStreamsInv
<1>5. CASE ParseFrame \/ ParsedSome
  BY <1>2, <1>5 DEF ParseFrame, ParsedSome, LoopEnds, Parsing, peerVars, netVars
<1>6. CASE ParsedNothing \/ ReaderThrows \/ Push
  BY <1>2, <1>6 DEF ParsedNothing, LoopEnds, ReaderThrows, Push, NextClient, Parsing, peerVars, netVars
<1>7. ASSUME NEW d \in Clients, Erase(d) \/ EraseTorn(d) PROVE StreamInv(c)'
  <2>1. /\ stream' = stream /\ wire' = wire /\ ~Parsing(c)'
        /\ integrity \in [Clients -> Integrity]
        /\ m_read_buffer \in [Clients -> Seq(Byte)] /\ taken \in [Clients -> Seq(Byte)]
    BY <1>7 DEF Erase, EraseTorn, EraseFrom, peerVars, Parsing, TypeInv, TypeOK
  <2>2. CASE c # d
    <3>1. /\ integrity'[c] = integrity[c] /\ m_read_buffer'[c] = m_read_buffer[c]
          /\ taken'[c] = taken[c]
      BY <1>7, <2>1, <2>2 DEF Erase, EraseTorn, EraseFrom
    <3>2. InFlight(c)' = InFlight(c)
      BY <1>7, <2>2 DEF Erase, EraseTorn, InsertionDone, receiverVars, InFlight, Inserting
    <3>. QED
      BY <1>1, <2>1, <3>1, <3>2, StreamUntouched
  <2>3. CASE c = d /\ Erase(d)
    BY <2>3, EraseStreamsInv
  <2>4. CASE c = d /\ EraseTorn(d)
    <3>1. integrity'[c] = "raced"
      BY <2>1, <2>4 DEF EraseTorn
    <3>. QED
      BY <3>1 DEF StreamInv
  <2>. QED
    BY <1>7, <2>2, <2>3, <2>4
<1>. QED
  BY <1>3, <1>4, <1>5, <1>6, <1>7 DEF Reader

LEMMA OthersStreamsInv ==
    ASSUME StreamsInv, NEW c \in Clients,
           (\E w \in Workers : Worker(w)) \/ Crash \/ UNCHANGED vars
    PROVE  StreamInv(c)'
<1>1. UNCHANGED <<peerVars, netVars, receiverVars, readerVars, taken, integrity>>
  BY DEF Worker, Lock, FindEmpty, Pop, Process, Throw, Finish, Crash, vars
<1>. QED
  BY <1>1, StreamUntouched DEF StreamsInv, peerVars, netVars, receiverVars, readerVars,
                               InFlight, Inserting, Parsing

(***************************************************************************)
(* The reader's copy stays related to the read buffers, whatever the       *)
(* receiver does in between (server.cpp:191-225).                          *)
(***************************************************************************)
THEOREM StreamsInvariant == Spec => []StreamsInv
<1>1. TypeInv /\ StreamsInv /\ [Next]_vars => StreamsInv'
  <2>1. SUFFICES ASSUME TypeInv, StreamsInv, [Next]_vars, NEW c \in Clients
                 PROVE  StreamInv(c)'
    BY DEF StreamsInv
  <2>. QED
    BY <2>1, SendStreamsInv, ReceiverStreamsInv, ReaderStreamsInv, OthersStreamsInv DEF Next
<1>. QED
  BY <1>1, InitStreamsInv, TypeInvariant, PTL DEF Spec

(***************************************************************************)
(* For any clients, payloads and chunk sizes, and any number of workers:   *)
(* unless the reader and the receiver met inside a vector operation, no    *)
(* byte count goes astray (server_socket.cpp:92-96, server.cpp:198-212).   *)
(***************************************************************************)
THEOREM BytesAreConserved == Spec => []BytesConserved
<1>1. StreamsInv => BytesConserved
  BY DEF StreamsInv, StreamInv, Balanced, BytesConserved
<1>. QED
  BY <1>1, StreamsInvariant, PTL

(***************************************************************************)
(* For any clients, payloads and chunk sizes, and any number of workers:   *)
(* a stream whose chunks all found an empty buffer that was not about to   *)
(* be erased from is kept byte for byte (server_socket.cpp:92-96,          *)
(* server.cpp:198-212).                                                    *)
(***************************************************************************)
THEOREM CleanStreamsAreKept == Spec => []StreamKept
<1>1. StreamsInv => StreamKept
  BY DEF StreamsInv, StreamInv, Kept, StreamKept
<1>. QED
  BY <1>1, StreamsInvariant, PTL
-----------------------------------------------------------------------------
(***************************************************************************)
(* The loop the reader runs over its copy: after len bytes, cut into the   *)
(* packets of parsed, what packets_from_buffer still owes is what it would *)
(* return for the rest.                                                    *)
(***************************************************************************)
ParsedSoFar(buffer, len, parsed) ==
    /\ packets_from_buffer(buffer).len = Cut(buffer)[len].len
    /\ packets_from_buffer(buffer).packets = parsed \o Cut(buffer)[len].packets

(* The loop has ended.                                                     *)
ParsedAll(buffer, len, parsed) ==
    /\ packets_from_buffer(buffer).len = len
    /\ packets_from_buffer(buffer).packets = parsed

LEMMA ParsedNothingYet ==
    ASSUME NEW b \in Seq(Byte)
    PROVE  ParsedSoFar(b, 0, <<>>)
<1>1. packets_from_buffer(b) = Cut(b)[0]
  BY CutOfBuffer
<1>2. PICK p \in Seq(Seq(Byte)) : p = packets_from_buffer(b).packets
  BY ParseFields
<1>3. <<>> \o p = p
  OBVIOUS
<1>. QED
  BY <1>1, <1>2, <1>3 DEF ParsedSoFar

LEMMA AppendPacket ==
    \A p \in Seq(Seq(Byte)), packet \in Seq(Byte) :
        Append(p, packet) = p \o <<packet>> /\ <<packet>> \in Seq(Seq(Byte))
OBVIOUS

LEMMA ParsedOneMore ==
    ASSUME NEW b \in Seq(Byte), NEW n \in ReadLengths(b), NEW p \in Seq(Seq(Byte)),
           ParsedSoFar(b, n, p), NEW next \in Int, NEW packet \in Seq(Byte),
           FrontLen(b, n) > 0, next = ToInt(n + FrontLen(b, n)),
           packet = packet_from_buffer(Rest(b, n)).packet
    PROVE  IF next >= 0 THEN ParsedSoFar(b, next, Append(p, packet))
                        ELSE ParsedAll(b, next, Append(p, packet))
<1>1. Append(p, packet) = p \o <<packet>> /\ <<packet>> \in Seq(Seq(Byte))
  BY AppendPacket
<1>2. CASE next >= 0
  <2>1. /\ Cut(b)[n].len = Cut(b)[next].len
        /\ Cut(b)[n].packets = <<packet>> \o Cut(b)[next].packets
    <3>1. FrontLen(b, n) > 0 /\ next = ToInt(n + FrontLen(b, n)) /\ next >= 0
      BY <1>2
    <3>2. /\ Cut(b)[n].len = Cut(b)[next].len
          /\ Cut(b)[n].packets =
                 <<packet_from_buffer(Rest(b, n)).packet>> \o Cut(b)[next].packets
      BY <3>1, CutGoesOn
    <3>. QED
      BY <3>2
  <2>2. next \in ReadLengths(b)
    BY <1>2, NextLength
  <2>3. PICK q \in Seq(Seq(Byte)) : q = Cut(b)[next].packets
    BY <2>2, CutType DEF ParseResult
  <2>4. (p \o <<packet>>) \o q = p \o (<<packet>> \o q)
    BY <1>1, ThreePackets
  <2>. QED
    BY <1>1, <1>2, <2>1, <2>3, <2>4 DEF ParsedSoFar
<1>3. CASE next < 0
  <2>1. Cut(b)[n].len = next /\ Cut(b)[n].packets = <<packet>>
    <3>1. FrontLen(b, n) > 0 /\ ToInt(n + FrontLen(b, n)) < 0
      BY <1>3
    <3>2. /\ Cut(b)[n].len = ToInt(n + FrontLen(b, n))
          /\ Cut(b)[n].packets = <<packet_from_buffer(Rest(b, n)).packet>>
      BY <3>1, CutOverflows
    <3>. QED
      BY <3>2
  <2>2. ParsedAll(b, next, Append(p, packet))
    BY <1>1, <2>1 DEF ParsedSoFar, ParsedAll
  <2>. QED
    BY <1>3, <2>2
<1>. QED
  BY <1>2, <1>3

LEMMA ParsedToTheEnd ==
    ASSUME NEW b \in Seq(Byte), NEW n \in ReadLengths(b), NEW p \in Seq(Seq(Byte)),
           ParsedSoFar(b, n, p), FrontLen(b, n) <= 0
    PROVE  ParsedAll(b, n + FrontLen(b, n), p)
<1>1. Cut(b)[n].len = n + FrontLen(b, n) /\ Cut(b)[n].packets = <<>>
  BY CutStops
<1>2. p \o <<>> = p
  OBVIOUS
<1>. QED
  BY <1>1, <1>2 DEF ParsedSoFar, ParsedAll

LoopInv ==
    /\ reader = "parse" /\ readLength >= 0 => ParsedSoFar(packet_buffer, readLength, packets)
    /\ reader = "parse" /\ readLength < 0 => ParsedAll(packet_buffer, readLength, packets)
    /\ reader \in {"erase", "push"} => ParsedAll(packet_buffer, readLength, packets)

LEMMA InitLoopInv == Init => LoopInv
BY DEF Init, LoopInv

LEMMA LoopUntouched ==
    ASSUME LoopInv, UNCHANGED <<packet_buffer, readLength, packets>>,
           \/ reader' = reader
           \/ reader' = "dead"
           \/ reader = "erase" /\ reader' = "push"
    PROVE  LoopInv'
BY DEF LoopInv

LEMMA CopyLoopInv ==
    ASSUME NEW b \in Seq(Byte), CopyTo(b)
    PROVE  LoopInv'
<1>1. packets' = <<>> /\ readLength' = 0 /\ packet_buffer' = b /\ reader' = "parse"
  BY DEF CopyTo
<1>2. ParsedSoFar(b, 0, <<>>)
  BY ParsedNothingYet
<1>. QED
  BY <1>1, <1>2 DEF LoopInv

LEMMA NextClientLoopInv == NextClient => LoopInv'
BY DEF NextClient, LoopInv

LEMMA ParseFrameLoopInv ==
    ASSUME TypeInv, LoopInv, ParseFrame
    PROVE  LoopInv'
<1>0. /\ packet_buffer \in Seq(Byte) /\ readLength \in ReadLengths(packet_buffer)
      /\ packets \in Seq(Seq(Byte)) /\ Found.packet \in Seq(Byte)
      /\ ToInt(readLength + Found.len) \in Int
      /\ Found.len = FrontLen(packet_buffer, readLength)
  BY TurnOfReader DEF ParseFrame, TypeInv, TypeOK
<1>1. PICK b \in Seq(Byte), n \in Nat, p \in Seq(Seq(Byte)), packet \in Seq(Byte), next \in Int :
          /\ b = packet_buffer /\ n = readLength /\ n \in ReadLengths(b) /\ p = packets
          /\ packet = Found.packet /\ next = ToInt(n + Found.len)
          /\ Found.len = FrontLen(b, n)
  <2>1. readLength \in Nat
    BY <1>0, Lengths
  <2>. QED
    BY <1>0, <2>1
<1>2. ParsedSoFar(b, n, p) /\ FrontLen(b, n) > 0 /\ next = ToInt(n + FrontLen(b, n))
      /\ packet = packet_from_buffer(Rest(b, n)).packet
  BY <1>1 DEF LoopInv, ParseFrame, Unparsed, Found
<1>3. IF next >= 0 THEN ParsedSoFar(b, next, Append(p, packet))
                   ELSE ParsedAll(b, next, Append(p, packet))
  BY <1>1, <1>2, ParsedOneMore
<1>4. /\ readLength' = next /\ packets' = Append(p, packet) /\ packet_buffer' = b
      /\ reader' = "parse"
  BY <1>1 DEF ParseFrame
<1>. QED
  BY <1>3, <1>4 DEF LoopInv

LEMMA ParsedSomeLoopInv ==
    ASSUME TypeInv, LoopInv, ParsedSome
    PROVE  LoopInv'
<1>1. /\ reader = "parse" /\ readLength >= 0 /\ Found.len <= 0
      /\ readLength' = readLength + Found.len /\ reader' = "erase"
      /\ UNCHANGED <<packet_buffer, packets>>
  BY DEF ParsedSome, LoopEnds, ReturnedLen, TypeInv, TypeOK
<1>2. PICK b \in Seq(Byte), n \in Nat, p \in Seq(Seq(Byte)) :
          /\ b = packet_buffer /\ n = readLength /\ n \in ReadLengths(b) /\ p = packets
          /\ Found.len = FrontLen(b, n)
  BY <1>1, TurnOfReader, Lengths DEF TypeInv, TypeOK
<1>3. ParsedSoFar(b, n, p) /\ FrontLen(b, n) <= 0
  BY <1>1, <1>2 DEF LoopInv
<1>4. ParsedAll(b, n + FrontLen(b, n), p)
  BY <1>2, <1>3, ParsedToTheEnd
<1>. QED
  BY <1>1, <1>2, <1>4 DEF LoopInv

LEMMA ReaderLoopInv ==
    ASSUME TypeInv, TypeInv', LoopInv, Reader
    PROVE  LoopInv'
<1>1. CASE Copy \/ CopyTorn
  <2>1. PICK b : CopyTo(b)
    BY <1>1 DEF Copy, CopyTorn
  <2>2. b \in Seq(Byte)
    BY <2>1 DEF CopyTo, TypeInv, TypeOK
  <2>. QED
    BY <2>1, <2>2, CopyLoopInv
<1>2. CASE ParseFrame
  BY <1>2, ParseFrameLoopInv
<1>3. CASE ParsedNothing \/ Push
  BY <1>3, NextClientLoopInv DEF ParsedNothing, Push
<1>4. CASE GetClients \/ ReaderThrows
  BY <1>4, LoopUntouched DEF GetClients, ReaderThrows
<1>6. CASE ParsedSome
  BY <1>6, ParsedSomeLoopInv
<1>5. ASSUME NEW c \in Clients, Erase(c) \/ EraseTorn(c) PROVE LoopInv'
  BY <1>5, LoopUntouched DEF Erase, EraseTorn, EraseFrom
<1>. QED
  BY <1>1, <1>2, <1>3, <1>4, <1>5, <1>6 DEF Reader

LEMMA OthersLoopInv ==
    ASSUME LoopInv,
           \/ \E c \in Clients, payload \in Payloads : Send(c, payload)
           \/ Receiver
           \/ \E w \in Workers : Worker(w)
           \/ Crash
           \/ UNCHANGED vars
    PROVE  LoopInv'
<1>1. UNCHANGED readerVars
  BY DEF Send, Receiver, AcceptNothing, Accept, AddClient, RecvNothing, Recv, Insert,
         RoundDone, Worker, Lock, FindEmpty, Pop, Process, Throw, Finish, Crash, vars
<1>. QED
  BY <1>1, LoopUntouched DEF readerVars

(***************************************************************************)
(* Whatever the receiver does to the read buffer meanwhile, the reader's   *)
(* locals hold what packets_from_buffer has done with the copy up to here  *)
(* (server.cpp:198-206, packet.cpp:41-67).                                 *)
(***************************************************************************)
THEOREM LoopInvariant == Spec => []LoopInv
<1>1. TypeInv /\ TypeInv' /\ LoopInv /\ [Next]_vars => LoopInv'
  <2> SUFFICES ASSUME TypeInv, TypeInv', LoopInv, [Next]_vars PROVE LoopInv'
    OBVIOUS
  <2>. QED
    BY ReaderLoopInv, OthersLoopInv DEF Next
<1>. QED
  BY InitLoopInv, <1>1, TypeInvariant, PTL DEF Spec

(***************************************************************************)
(* What the reader erases and pushes is what packets_from_buffer returns   *)
(* for the copy it took, for any copy (server.cpp:203-222).                *)
(***************************************************************************)
THEOREM CopiesAreParsed == Spec => []LoopParsesTheCopy
<1>1. LoopInv => LoopParsesTheCopy
  BY DEF LoopInv, ParsedAll, LoopParsesTheCopy
<1>. QED
  BY <1>1, LoopInvariant, PTL
-----------------------------------------------------------------------------
(***************************************************************************)
(* What is pushed for one client, and what the reader has parsed of its    *)
(* stream.                                                                 *)
(***************************************************************************)
LEMMA SeqInduction ==
    ASSUME NEW S, NEW Good, <<>> \in Good,
           \A s \in Seq(S) : \A x \in S : s \in Good => Append(s, x) \in Good
    PROVE  \A s \in Seq(S) : s \in Good
<1> DEFINE GoodLengths == {k \in Nat : \A s \in Seq(S) : Len(s) = k => s \in Good}
<1>1. 0 \in GoodLengths
  BY EmptySeq
<1>2. ASSUME NEW k \in Nat, k \in GoodLengths PROVE k + 1 \in GoodLengths
  <2>1. ASSUME NEW s \in Seq(S), Len(s) = k + 1 PROVE s \in Good
    <3>1. PICK t \in Seq(S), x \in S : s = Append(t, x)
      <4>1. s # <<>>
        BY <2>1, EmptySeq
      <4>. QED
        BY <4>1, SequenceEmptyOrAppend
    <3>2. Len(t) = k
      BY <2>1, <3>1
    <3>. QED
      BY <1>2, <3>1, <3>2
  <2>. QED
    BY <2>1
<1> HIDE DEF GoodLengths
<1>3. \A k \in Nat : k \in GoodLengths
  BY <1>1, <1>2, SetInduction
<1>4. \A s \in Seq(S) : Len(s) \in Nat
  BY LenProperties
<1>. QED
  BY <1>3, <1>4 DEF GoodLengths

Singles(s) == [i \in DOMAIN s |-> <<s[i]>>]

Empties(s) == [i \in DOMAIN s |-> <<>>]

LEMMA SinglesType ==
    ASSUME NEW S, NEW s \in Seq(S)
    PROVE  /\ Singles(s) \in Seq(Seq(S)) /\ Empties(s) \in Seq(Seq(S))
           /\ Len(Singles(s)) = Len(s) /\ Len(Empties(s)) = Len(s)
<1>1. DOMAIN s = 1 .. Len(s) /\ Len(s) \in Nat
  OBVIOUS
<1>2. \A i \in 1 .. Len(s) : <<s[i]>> \in Seq(S)
  OBVIOUS
<1>3. <<>> \in Seq(S)
  BY EmptySeq
<1>. QED
  BY <1>1, <1>2, <1>3 DEF Singles, Empties

LEMMA SinglesAppend ==
    ASSUME NEW S, NEW s \in Seq(S), NEW x \in S
    PROVE  /\ Singles(Append(s, x)) = Append(Singles(s), <<x>>)
           /\ Empties(Append(s, x)) = Append(Empties(s), <<>>)
<1>1. PICK t \in Seq(S) : t = Append(s, x)
  <2>1. Append(s, x) \in Seq(S)
    OBVIOUS
  <2>. QED
    BY <2>1, Zenon
<1>2. PICK k \in Nat : k = Len(s) /\ Len(t) = k + 1 /\ t[k + 1] = x /\ \A i \in 1 .. k : t[i] = s[i]
  BY <1>1
<1>3. DOMAIN s = 1 .. k /\ DOMAIN t = 1 .. k + 1
  BY <1>2
<1>4. \A i \in 1 .. k + 1 : i \in 1 .. k \/ i = k + 1
  OBVIOUS
<1>5. /\ <<x>> \in Seq(S) /\ <<>> \in Seq(S)
      /\ Singles(s) \in Seq(Seq(S)) /\ Empties(s) \in Seq(Seq(S))
      /\ Singles(t) \in Seq(Seq(S)) /\ Empties(t) \in Seq(Seq(S))
      /\ Len(Singles(s)) = k /\ Len(Empties(s)) = k
      /\ Len(Singles(t)) = k + 1 /\ Len(Empties(t)) = k + 1
  BY <1>2, SinglesType, EmptySeq
<1>6. Singles(t) = Append(Singles(s), <<x>>)
  <2>1. PICK u \in Seq(Seq(S)) : /\ u = Append(Singles(s), <<x>>) /\ Len(u) = k + 1
                                 /\ u[k + 1] = <<x>> /\ \A i \in 1 .. k : u[i] = Singles(s)[i]
    <3>1. PICK v \in Seq(Seq(S)) : v = Singles(s)
      BY <1>5, Zenon
    <3>2. PICK e \in Seq(S) : e = <<x>>
      BY <1>5, Zenon
    <3>3. Len(v) = k
      BY <1>5, <3>1
    <3>4. /\ Append(v, e) \in Seq(Seq(S)) /\ Len(Append(v, e)) = k + 1
          /\ Append(v, e)[k + 1] = e /\ \A i \in 1 .. k : Append(v, e)[i] = v[i]
      BY <3>3, AppendProperties
    <3>. QED
      BY <3>1, <3>2, <3>4
  <2>2. \A i \in 1 .. k : Singles(t)[i] = <<s[i]>> /\ Singles(s)[i] = <<s[i]>>
    BY <1>2, <1>3 DEF Singles
  <2>3. Singles(t)[k + 1] = <<x>>
    BY <1>2, <1>3 DEF Singles
  <2>4. \A i \in 1 .. k + 1 : Singles(t)[i] = u[i]
    BY <1>4, <2>1, <2>2, <2>3
  <2>5. Singles(t) = u
    BY <1>5, <2>1, <2>4, SeqEqual
  <2>. QED
    BY <2>1, <2>5
<1>7. Empties(t) = Append(Empties(s), <<>>)
  <2>1. PICK u \in Seq(Seq(S)) : /\ u = Append(Empties(s), <<>>) /\ Len(u) = k + 1
                                 /\ u[k + 1] = <<>> /\ \A i \in 1 .. k : u[i] = Empties(s)[i]
    <3>1. PICK v \in Seq(Seq(S)) : v = Empties(s)
      BY <1>5, Zenon
    <3>2. PICK e \in Seq(S) : e = <<>>
      BY <1>5, Zenon
    <3>3. Len(v) = k
      BY <1>5, <3>1
    <3>4. /\ Append(v, e) \in Seq(Seq(S)) /\ Len(Append(v, e)) = k + 1
          /\ Append(v, e)[k + 1] = e /\ \A i \in 1 .. k : Append(v, e)[i] = v[i]
      BY <3>3, AppendProperties
    <3>. QED
      BY <3>1, <3>2, <3>4
  <2>2. \A i \in 1 .. k : Empties(t)[i] = <<>> /\ Empties(s)[i] = <<>>
    BY <1>2, <1>3 DEF Empties
  <2>3. Empties(t)[k + 1] = <<>>
    BY <1>2, <1>3 DEF Empties
  <2>4. \A i \in 1 .. k + 1 : Empties(t)[i] = u[i]
    BY <1>4, <2>1, <2>2, <2>3
  <2>5. PICK v \in Seq(Seq(S)) : v = Empties(t) /\ Len(v) = k + 1
    BY <1>5, Zenon
  <2>6. v = u
    BY <2>1, <2>4, <2>5, SeqEqual
  <2>. QED
    BY <2>1, <2>5, <2>6
<1>. QED
  BY <1>1, <1>6, <1>7

LEMMA FlattenSingles ==
    ASSUME NEW S
    PROVE  \A s \in Seq(S) : FlattenSeq(Singles(s)) = s /\ FlattenSeq(Empties(s)) = <<>>
<1> DEFINE Good == {s \in Seq(S) : FlattenSeq(Singles(s)) = s /\ FlattenSeq(Empties(s)) = <<>>}
<1>1. <<>> \in Good
  <2>1. Singles(<<>>) = <<>> /\ Empties(<<>>) = <<>>
    BY DEF Singles, Empties
  <2>. QED
    BY <2>1, FlattenEmpty, EmptySeq
<1>2. ASSUME NEW s \in Seq(S), NEW x \in S, s \in Good PROVE Append(s, x) \in Good
  <2>1. /\ FlattenSeq(Append(Singles(s), <<x>>)) = FlattenSeq(Singles(s)) \o <<x>>
        /\ FlattenSeq(Append(Empties(s), <<>>)) = FlattenSeq(Empties(s)) \o <<>>
    <3>1. /\ Singles(s) \in Seq(Seq(S)) /\ Empties(s) \in Seq(Seq(S))
          /\ <<x>> \in Seq(S) /\ <<>> \in Seq(S)
      BY SinglesType, EmptySeq
    <3>. QED
      BY <3>1, FlattenAppend
  <2>2. s \o <<x>> = Append(s, x) /\ <<>> \o <<>> = <<>> /\ Append(s, x) \in Seq(S)
    OBVIOUS
  <2>. QED
    BY <1>2, <2>1, <2>2, SinglesAppend
<1> HIDE DEF Good
<1>3. \A s \in Seq(S) : s \in Good
  BY <1>1, <1>2, SeqInduction
<1>. QED
  BY <1>3 DEF Good

(* The pieces PushedFrom(c) is flattened from.                             *)
From(queue, c) ==
    [i \in DOMAIN queue |-> IF queue[i][1] = c THEN <<queue[i][2]>> ELSE <<>>]

LEMMA FromType ==
    ASSUME NEW q \in Seq(Packet), NEW c \in Clients
    PROVE  From(q, c) \in Seq(Seq(Seq(Byte))) /\ Len(From(q, c)) = Len(q)
<1>1. DOMAIN q = 1 .. Len(q) /\ Len(q) \in Nat
  OBVIOUS
<1>2. \A i \in 1 .. Len(q) : q[i][2] \in Seq(Byte)
  BY DEF Packet
<1>3. \A x \in Seq(Byte) : <<x>> \in Seq(Seq(Byte))
  OBVIOUS
<1>4. <<>> \in Seq(Seq(Byte))
  BY EmptySeq
<1>5. \A i \in 1 .. Len(q) : (IF q[i][1] = c THEN <<q[i][2]>> ELSE <<>>) \in Seq(Seq(Byte))
  BY <1>2, <1>3, <1>4
<1>. QED
  BY <1>1, <1>5 DEF From

LEMMA FromConcat ==
    ASSUME NEW q \in Seq(Packet), NEW r \in Seq(Packet), NEW c \in Clients
    PROVE  From(q \o r, c) = From(q, c) \o From(r, c)
<1>1. PICK qr \in Seq(Packet) : qr = q \o r
  BY ConcatProperties
<1>2. PICK f \in Seq(Seq(Seq(Byte))), g \in Seq(Seq(Seq(Byte))), h \in Seq(Seq(Seq(Byte))) :
          /\ f = From(q, c) /\ g = From(r, c) /\ h = From(qr, c)
          /\ Len(f) = Len(q) /\ Len(g) = Len(r) /\ Len(h) = Len(qr)
  <2>1. From(q, c) \in Seq(Seq(Seq(Byte))) /\ Len(From(q, c)) = Len(q)
    BY FromType
  <2>2. From(r, c) \in Seq(Seq(Seq(Byte))) /\ Len(From(r, c)) = Len(r)
    BY FromType
  <2>3. From(qr, c) \in Seq(Seq(Seq(Byte))) /\ Len(From(qr, c)) = Len(qr)
    BY FromType
  <2>. QED
    BY <2>1, <2>2, <2>3
<1>3. PICK k \in Nat, l \in Nat : k = Len(q) /\ l = Len(r)
  OBVIOUS
<1>4. f \o g \in Seq(Seq(Seq(Byte))) /\ Len(f \o g) = k + l /\ Len(h) = k + l
  <2>1. f \o g \in Seq(Seq(Seq(Byte))) /\ Len(f \o g) = Len(f) + Len(g)
    BY ConcatProperties
  <2>2. Len(q \o r) = Len(q) + Len(r)
    BY ConcatProperties
  <2>. QED
    BY <1>1, <1>2, <1>3, <2>1, <2>2
<1>5. ASSUME NEW i \in 1 .. k + l PROVE h[i] = (f \o g)[i]
  <2>1. CASE i <= k
    <3>1. qr[i] = q[i] /\ i \in DOMAIN qr /\ i \in DOMAIN q
      BY <1>1, <1>3, <2>1
    <3>2. (f \o g)[i] = f[i]
      BY <1>2, <1>3, <2>1
    <3>3. h[i] = f[i]
      BY <1>2, <3>1 DEF From
    <3>. QED
      BY <3>2, <3>3
  <2>2. CASE ~(i <= k)
    <3>1. PICK j \in 1 .. l : j = i - k
      BY <2>2
    <3>2. qr[i] = r[j] /\ i \in DOMAIN qr /\ j \in DOMAIN r
      BY <1>1, <1>3, <2>2, <3>1
    <3>3. (f \o g)[i] = g[j]
      BY <1>2, <1>3, <2>2, <3>1
    <3>4. h[i] = g[j]
      BY <1>2, <3>2 DEF From
    <3>. QED
      BY <3>3, <3>4
  <2>. QED
    BY <2>1, <2>2
<1>. QED
  BY <1>1, <1>2, <1>4, <1>5, SeqEqual

LEMMA PushingType ==
    ASSUME NEW d \in Clients, NEW p \in Seq(Seq(Byte))
    PROVE  [i \in DOMAIN p |-> <<d, p[i]>>] \in Seq(Packet)
<1>1. DOMAIN p = 1 .. Len(p) /\ Len(p) \in Nat /\ \A i \in 1 .. Len(p) : p[i] \in Seq(Byte)
  OBVIOUS
<1>2. \A i \in 1 .. Len(p) : <<d, p[i]>> \in Packet
  BY <1>1 DEF Packet
<1>. QED
  BY <1>1, <1>2

(* What one round of the reader adds to the packets of each client.        *)
LEMMA PushedAfter ==
    ASSUME NEW q \in Seq(Packet), NEW d \in Clients, NEW c \in Clients,
           NEW p \in Seq(Seq(Byte))
    PROVE  FlattenSeq(From(q \o [i \in DOMAIN p |-> <<d, p[i]>>], c))
               = FlattenSeq(From(q, c)) \o (IF c = d THEN p ELSE <<>>)
<1> DEFINE pushing == [i \in DOMAIN p |-> <<d, p[i]>>]
<1>1. PICK r \in Seq(Packet) : r = pushing
  BY PushingType, Zenon
<1>2. FlattenSeq(From(q \o r, c)) = FlattenSeq(From(q, c)) \o FlattenSeq(From(r, c))
  <2>1. PICK f \in Seq(Seq(Seq(Byte))) : f = From(q, c)
    BY FromType, Zenon
  <2>2. PICK g \in Seq(Seq(Seq(Byte))) : g = From(r, c)
    BY FromType, Zenon
  <2>3. From(q \o r, c) = f \o g
    <3> HIDE DEF pushing
    <3>1. From(q \o r, c) = From(q, c) \o From(r, c)
      BY FromConcat, Zenon
    <3>. QED
      BY <2>1, <2>2, <3>1
  <2>4. FlattenSeq(f \o g) = FlattenSeq(f) \o FlattenSeq(g)
    BY FlattenConcat
  <2>. QED
    BY <2>1, <2>2, <2>3, <2>4
<1>3. \A i \in DOMAIN p : r[i][1] = d /\ r[i][2] = p[i]
  BY <1>1
<1>4. DOMAIN r = DOMAIN p
  BY <1>1
<1>5. CASE c = d
  <2>1. From(r, c) = Singles(p)
    BY <1>3, <1>4, <1>5 DEF From, Singles
  <2>. QED
    BY <1>1, <1>2, <1>5, <2>1, FlattenSingles
<1>6. CASE c # d
  <2>1. From(r, c) = Empties(p)
    BY <1>3, <1>4, <1>6 DEF From, Empties
  <2>. QED
    BY <1>1, <1>2, <1>6, <2>1, FlattenSingles
<1>. QED
  BY <1>5, <1>6
-----------------------------------------------------------------------------
(***************************************************************************)
(* The stream of a client is the encoding of the packets it sent.  While   *)
(* it is clean, the bytes parsed for the client are the encoding of the    *)
(* packets pushed for it and of those the reader is about to push.  Of     *)
(* other streams nothing like this holds: where a size wraps the bytes     *)
(* erased are not those of the packets.                                    *)
(***************************************************************************)
Held(c) == IF reader = "push" /\ Head(toRead) = c THEN packets ELSE <<>>

Delivered(c) ==
    /\ PushedFrom(c) \in Seq(Readable)
    /\ Held(c) \in Seq(Readable)
    /\ taken[c] = Encoded(PushedFrom(c) \o Held(c))

DeliveryInv ==
    \A c \in Clients :
        /\ stream[c] = Encoded(sent[c])
        /\ integrity[c] = "clean" => Delivered(c)

LEMMA PayloadsWritable == Payloads \subseteq Writable /\ Seq(Payloads) \subseteq Seq(Writable)
<1>1. Payloads \subseteq Writable
  BY PayloadsAssumption, PayloadsFitAssumption DEF Writable, Fits
<1>. QED
  BY <1>1, SeqMonotonic

LEMMA PushedType ==
    ASSUME TypeInv, NEW c \in Clients
    PROVE  PushedFrom(c) \in Seq(Seq(Byte)) /\ PushedFrom(c) \o <<>> = PushedFrom(c)
<1>1. pushed \in Seq(Packet)
  BY DEF TypeInv, TypeOK
<1>2. From(pushed, c) \in Seq(Seq(Seq(Byte)))
  BY <1>1, FromType
<1>3. PushedFrom(c) \in Seq(Seq(Byte))
  BY <1>2, FlattenType DEF From, PushedFrom
<1>4. \A s \in Seq(Seq(Byte)) : s \o <<>> = s
  OBVIOUS
<1>. QED
  BY <1>3, <1>4

LEMMA InitDeliveryInv == Init => DeliveryInv
<1> SUFFICES ASSUME Init PROVE DeliveryInv
  OBVIOUS
<1>1. <<>> \in Seq(Readable) /\ <<>> \o <<>> = <<>>
  OBVIOUS
<1>2. \A c \in Clients : Held(c) = <<>>
  BY DEF Init, Held
<1>3. \A c \in Clients : PushedFrom(c) = <<>>
  <2>1. \A c \in Clients : From(pushed, c) = <<>>
    BY DEF Init, From
  <2>. QED
    BY <2>1, FlattenEmpty DEF From, PushedFrom
<1>. QED
  BY <1>1, <1>2, <1>3, EncodedEmpty DEF Init, PeersInit, DeliveryInv, Delivered

LEMMA SendDeliveryInv ==
    ASSUME TypeInv, DeliveryInv, NEW d \in Clients, NEW payload \in Payloads, Send(d, payload)
    PROVE  DeliveryInv'
<1>1. UNCHANGED <<readerVars, pushed, taken, integrity>>
  BY DEF Send, queueVars
<1>2. \A c \in Clients : Held(c)' = Held(c) /\ PushedFrom(c)' = PushedFrom(c)
  BY <1>1 DEF Held, PushedFrom, readerVars
<1>3. ASSUME NEW c \in Clients PROVE stream'[c] = Encoded(sent'[c])
  <2>1. CASE c # d
    <3>1. stream'[c] = stream[c] /\ sent'[c] = sent[c]
      BY <2>1 DEF Send, PeerSends, TypeInv, TypeOK, PeersTypeOK
    <3>. QED
      BY <3>1 DEF DeliveryInv
  <2>2. CASE c = d
    <3>1. PICK s \in Seq(Seq(Byte)) : s = sent[c]
      BY PayloadsWritable, ReadableWritable DEF TypeInv, TypeOK, PeersTypeOK
    <3>2. payload \in Seq(Byte)
      BY PayloadsAssumption
    <3>3. stream'[c] = stream[c] \o packet_to_buffer(payload) /\ sent'[c] = Append(s, payload)
      BY <2>2, <3>1 DEF Send, PeerSends, TypeInv, TypeOK, PeersTypeOK
    <3>4. Encoded(Append(s, payload)) = Encoded(s) \o packet_to_buffer(payload)
      BY <3>2, EncodedAppend
    <3>. QED
      BY <3>1, <3>3, <3>4 DEF DeliveryInv
  <2>. QED
    BY <2>1, <2>2
<1>. QED
  BY <1>1, <1>2, <1>3 DEF DeliveryInv, Delivered

(* Steps between two erasures.                                             *)
LEMMA DeliveryUntouched ==
    ASSUME DeliveryInv, UNCHANGED <<sent, stream, pushed, taken>>,
           \A c \in Clients : integrity'[c] = "clean" => integrity[c] = "clean",
           \/ UNCHANGED <<reader, toRead, packets>>
           \/ reader # "push" /\ reader' # "push"
    PROVE  DeliveryInv'
<1>1. \A c \in Clients : Held(c)' = Held(c) /\ PushedFrom(c)' = PushedFrom(c)
  BY DEF Held, PushedFrom
<1>. QED
  BY <1>1 DEF DeliveryInv, Delivered

(***************************************************************************)
(* What is parsed from the read buffer of a clean stream is what that part *)
(* of the stream is the encoding of.                                       *)
(***************************************************************************)
LEMMA CleanIsParsed ==
    ASSUME TypeInv, StreamsInv, LoopInv, DeliveryInv, NEW d \in Clients, Erase(d),
           integrity[d] = "clean"
    PROVE  /\ packets \in Seq(Readable)
           /\ Encoded(packets) = SubSeq(packet_buffer, 1, readLength)
<1>1. reader = "erase" /\ d = Head(toRead) /\ Parsing(d) /\ InFlight(d) = <<>>
  BY DEF Erase, EraseFrom, Parsing, InFlight
<1>2. PICK a \in Seq(Writable), l \in Seq(Readable) :
          a = sent[d] /\ l = PushedFrom(d) /\ stream[d] = Encoded(a) /\ taken[d] = Encoded(l)
  <2>1. sent[d] \in Seq(Writable)
    BY PayloadsWritable DEF TypeInv, TypeOK, PeersTypeOK
  <2>2. Held(d) = <<>>
    BY <1>1 DEF Held
  <2>3. PushedFrom(d) \in Seq(Readable) /\ PushedFrom(d) \o <<>> = PushedFrom(d)
    BY PushedType DEF DeliveryInv, Delivered
  <2>. QED
    BY <2>1, <2>2, <2>3 DEF DeliveryInv, Delivered
<1>3. PICK b \in Seq(Byte), w \in Seq(Byte), t \in Seq(Byte) :
          b = packet_buffer /\ b = m_read_buffer[d] /\ w = wire[d] /\ t = taken[d]
  BY <1>1, BytesOf DEF StreamsInv, StreamInv
<1>4. stream[d] = t \o b \o <<>> \o w
  BY <1>1, <1>3 DEF StreamsInv, StreamInv, Kept
<1>5. t \o b \o <<>> \o w = t \o (b \o w)
  <2>1. PICK tb \in Seq(Byte) : tb = t \o b
    BY ConcatOfBytes
  <2>2. tb \o <<>> = tb
    BY ConcatEmpty
  <2>3. (t \o b) \o w = t \o (b \o w)
    BY ConcatIsAssociative
  <2>. QED
    BY <2>1, <2>2, <2>3
<1>6. Encoded(a) = Encoded(l) \o (b \o w)
  BY <1>2, <1>3, <1>4, <1>5
<1>7. Cleanly(b, 0, packets_from_buffer(b))
  BY <1>6, StreamGoesOn, ParsesStream
<1>8. packets_from_buffer(b).len = readLength /\ packets_from_buffer(b).packets = packets
  BY <1>1, <1>3 DEF LoopInv, ParsedAll
<1>9. readLength >= 0
  BY <1>1, <1>3 DEF TypeInv, LoopsOK
<1>. QED
  BY <1>3, <1>7, <1>8, <1>9 DEF Cleanly

LEMMA EraseDeliveryInv ==
    ASSUME TypeInv, StreamsInv, LoopInv, DeliveryInv, NEW d \in Clients, Erase(d) \/ EraseTorn(d)
    PROVE  DeliveryInv'
<1>1. /\ UNCHANGED <<sent, stream, pushed, toRead, packets>>
      /\ reader = "erase" /\ reader' = "push" /\ d = Head(toRead)
      /\ taken' = [taken EXCEPT ![d] = taken[d] \o SubSeq(packet_buffer, 1, readLength)]
      /\ \A c \in Clients : integrity'[c] = "clean" =>
             integrity[c] = "clean" /\ (c = d => Erase(d))
  BY DEF Erase, EraseTorn, EraseFrom, peerVars, queueVars, TypeInv, TypeOK
<1>2. \A c \in Clients : PushedFrom(c)' = PushedFrom(c)
  BY <1>1 DEF PushedFrom
<1>3. ASSUME NEW c \in Clients, integrity'[c] = "clean" PROVE Delivered(c)'
  <2>1. PICK s \in Seq(Readable) : s = PushedFrom(c) /\ taken[c] = Encoded(s)
    <3>1. Held(c) = <<>>
      BY <1>1 DEF Held
    <3>. QED
      BY <1>1, <1>3, <3>1, PushedType DEF DeliveryInv, Delivered
  <2>2. CASE c # d
    <3>1. Held(c)' = <<>> /\ taken'[c] = taken[c]
      BY <1>1, <2>2 DEF Held, TypeInv, TypeOK
    <3>2. s \o <<>> = s /\ <<>> \in Seq(Readable)
      OBVIOUS
    <3>. QED
      BY <1>2, <2>1, <3>1, <3>2 DEF Delivered
  <2>3. CASE c = d
    <3>1. packets \in Seq(Readable) /\ Encoded(packets) = SubSeq(packet_buffer, 1, readLength)
      BY <1>1, <1>3, <2>3, CleanIsParsed
    <3>2. PICK p \in Seq(Readable) : p = packets
      BY <3>1
    <3>3. Held(c)' = p /\ taken'[c] = taken[c] \o SubSeq(packet_buffer, 1, readLength)
      BY <1>1, <2>3, <3>2 DEF Held, TypeInv, TypeOK
    <3>4. s \in Seq(Seq(Byte)) /\ p \in Seq(Seq(Byte))
      BY ReadableWritable
    <3>5. Encoded(s \o p) = Encoded(s) \o Encoded(p)
      BY <3>4, EncodedConcat
    <3>. QED
      BY <1>2, <2>1, <3>1, <3>2, <3>3, <3>5 DEF Delivered
  <2>. QED
    BY <2>2, <2>3
<1>. QED
  BY <1>1, <1>3 DEF DeliveryInv

(* A round's packets go from the reader's hands to the queue.              *)
LEMMA PushDelivers ==
    ASSUME TypeInv, Push
    PROVE  \E d \in Clients :
              /\ d = Head(toRead) /\ toRead # <<>>
              /\ pushed' \in Seq(Packet)
              /\ \A c \in Clients :
                     PushedFrom(c)' = PushedFrom(c) \o (IF c = d THEN packets ELSE <<>>)
<1>1. PICK d \in Clients : d = Head(toRead) /\ toRead # <<>>
  BY HeadTailProperties DEF TypeInv, TypeOK, LoopsOK, Push
<1>2. PICK q \in Seq(Packet), p \in Seq(Seq(Byte)) : q = pushed /\ p = packets
  BY DEF TypeInv, TypeOK
<1>3. PICK r : r = [i \in DOMAIN p |-> <<d, p[i]>>]
  OBVIOUS
<1>4. pushed' = q \o r
  BY <1>1, <1>2, <1>3 DEF Push, Parsed
<1>5. r \in Seq(Packet)
  BY <1>3, PushingType
<1>6. ASSUME NEW c \in Clients
      PROVE  PushedFrom(c)' = PushedFrom(c) \o (IF c = d THEN p ELSE <<>>)
  <2>1. FlattenSeq(From(q \o r, c)) = FlattenSeq(From(q, c)) \o (IF c = d THEN p ELSE <<>>)
    BY <1>3, PushedAfter
  <2>2. PushedFrom(c) = FlattenSeq(From(q, c)) /\ PushedFrom(c)' = FlattenSeq(From(q \o r, c))
    BY <1>2, <1>4 DEF PushedFrom, From
  <2>. QED
    BY <2>1, <2>2
<1>7. q \o r \in Seq(Packet)
  BY <1>5, ConcatProperties
<1>. QED
  BY <1>1, <1>2, <1>4, <1>6, <1>7

LEMMA PushDeliveryInv ==
    ASSUME TypeInv, DeliveryInv, Push
    PROVE  DeliveryInv'
<1>1. PICK d \in Clients :
              /\ d = Head(toRead) /\ toRead # <<>>
              /\ pushed' \in Seq(Packet)
              /\ \A c \in Clients :
                     PushedFrom(c)' = PushedFrom(c) \o (IF c = d THEN packets ELSE <<>>)
  BY PushDelivers
<1>2. UNCHANGED <<sent, stream, taken, integrity>> /\ reader = "push" /\ reader' = "copy"
  BY DEF Push, NextClient, peerVars
<1>3. ASSUME NEW c \in Clients, Delivered(c) PROVE Delivered(c)'
  <2>1. Held(c) = (IF c = d THEN packets ELSE <<>>) /\ Held(c)' = <<>>
    BY <1>1, <1>2 DEF Held
  <2>2. PICK s \in Seq(Readable), t \in Seq(Readable) :
            s = PushedFrom(c) /\ t = Held(c) /\ taken[c] = Encoded(s \o t)
    BY <1>3 DEF Delivered
  <2>3. PushedFrom(c)' = s \o t
    BY <1>1, <2>1, <2>2
  <2>4. s \o t \in Seq(Readable) /\ (s \o t) \o <<>> = s \o t /\ <<>> \in Seq(Readable)
    OBVIOUS
  <2>. QED
    BY <1>2, <2>1, <2>2, <2>3, <2>4 DEF Delivered
<1>. QED
  BY <1>2, <1>3 DEF DeliveryInv

(***************************************************************************)
(* Nothing of a clean stream is lost, added or reordered between the bytes *)
(* that are parsed and the packets that are queued (server.cpp:203-222).   *)
(***************************************************************************)
THEOREM DeliveryInvariant == Spec => []DeliveryInv
<1>1. TypeInv /\ StreamsInv /\ LoopInv /\ DeliveryInv /\ [Next]_vars => DeliveryInv'
  <2> SUFFICES ASSUME TypeInv, StreamsInv, LoopInv, DeliveryInv, [Next]_vars PROVE DeliveryInv'
    OBVIOUS
  <2>1. ASSUME NEW d \in Clients, NEW payload \in Payloads, Send(d, payload) PROVE DeliveryInv'
    BY <2>1, SendDeliveryInv
  <2>2. CASE Receiver
    <3>1. UNCHANGED <<sent, stream, readerVars, pushed, taken>>
      BY <2>2 DEF Receiver, AcceptNothing, Accept, AddClient, RecvNothing, Recv, RecvReturns,
                  Insert, RoundDone, peerVars, queueVars
    <3>2. \A c \in Clients : integrity'[c] = "clean" => integrity[c] = "clean"
      <4>1. CASE Insert
        BY <4>1 DEF Insert, TypeInv, TypeOK
      <4>2. CASE ~Insert
        BY <2>2, <4>2 DEF Receiver, AcceptNothing, Accept, AddClient, RecvNothing, Recv, RoundDone
      <4>. QED
        BY <4>1, <4>2
    <3>. QED
      BY <3>1, <3>2, DeliveryUntouched DEF readerVars
  <2>3. ASSUME NEW w \in Workers, Worker(w) PROVE DeliveryInv'
    <3>1. UNCHANGED <<peerVars, readerVars, pushed, taken, integrity>>
      BY <2>3 DEF Worker, Lock, FindEmpty, Pop, Process, Throw, Finish
    <3>. QED
      BY <3>1, DeliveryUntouched DEF peerVars, readerVars
  <2>4. CASE Crash \/ UNCHANGED vars
    BY <2>4, DeliveryUntouched DEF Crash, vars, peerVars, readerVars, queueVars
  <2>5. ASSUME NEW d \in Clients, Erase(d) \/ EraseTorn(d) PROVE DeliveryInv'
    BY <2>5, EraseDeliveryInv
  <2>6. CASE Push
    BY <2>6, PushDeliveryInv
  <2>7. CASE GetClients \/ Copy \/ CopyTorn \/ ParseFrame \/ ParsedNothing \/ ParsedSome
             \/ ReaderThrows
    <3>1. UNCHANGED <<sent, stream, pushed, taken>> /\ reader # "push" /\ reader' # "push"
      BY <2>7 DEF GetClients, Copy, CopyTorn, CopyTo, ParseFrame, ParsedNothing, LoopEnds,
                  NextClient, ParsedSome, ReaderThrows, peerVars, queueVars
    <3>2. \A c \in Clients : integrity'[c] = "clean" => integrity[c] = "clean"
      <4>1. CASE CopyTorn
        BY <4>1 DEF CopyTorn, TypeInv, TypeOK
      <4>2. CASE ~CopyTorn
        BY <2>7, <4>2 DEF GetClients, Copy, ParseFrame, ParsedNothing, ParsedSome, ReaderThrows
      <4>. QED
        BY <4>1, <4>2
    <3>. QED
      BY <3>1, <3>2, DeliveryUntouched
  <2>. QED
    BY <2>1, <2>2, <2>3, <2>4, <2>5, <2>6, <2>7 DEF Next, Reader
<1>. QED
  BY InitDeliveryInv, <1>1, TypeInvariant, StreamsInvariant, LoopInvariant, PTL DEF Spec
-----------------------------------------------------------------------------
(***************************************************************************)
(* Refinement of PacketStream: a send is a Send, a push a Deliver, and a   *)
(* step after which a stream is no longer clean a Break.                   *)
(***************************************************************************)
Intact == {c \in Clients : integrity[c] = "clean"}

LEMMA InitRefines == Init => Stream!Init
<1> SUFFICES ASSUME Init PROVE Stream!Init
  OBVIOUS
<1>1. \A c \in Clients : PushedFrom(c) = <<>>
  <2>1. \A c \in Clients : From(pushed, c) = <<>>
    BY DEF Init, From
  <2>. QED
    BY <2>1, FlattenEmpty DEF From, PushedFrom
<1>. QED
  BY <1>1 DEF Init, PeersInit, Stream!Init

(* What a step that pushes nothing and leaves every stream as it was, or   *)
(* makes one that was clean unclean, is in the abstract.                   *)
LEMMA StutterRefines ==
    ASSUME UNCHANGED <<sent, pushed>>, Intact' = Intact
    PROVE  UNCHANGED Stream!vars
<1>1. [c \in Clients |-> PushedFrom(c)]' = [c \in Clients |-> PushedFrom(c)]
  BY DEF PushedFrom
<1>. QED
  BY <1>1 DEF Stream!vars, Intact

LEMMA BreakRefines ==
    ASSUME UNCHANGED <<sent, pushed>>, NEW c \in Clients, Intact' = Intact \ {c}
    PROVE  Stream!Next
<1>1. [d \in Clients |-> PushedFrom(d)]' = [d \in Clients |-> PushedFrom(d)]
  BY DEF PushedFrom
<1>2. Stream!Break(c)
  BY <1>1 DEF Stream!Break, Intact
<1>. QED
  BY <1>2 DEF Stream!Next

LEMMA SendRefines ==
    ASSUME NEW c \in Clients, NEW payload \in Payloads, Send(c, payload)
    PROVE  Stream!Next
<1>1. UNCHANGED <<pushed, integrity>>
  BY DEF Send, queueVars
<1>2. [d \in Clients |-> PushedFrom(d)]' = [d \in Clients |-> PushedFrom(d)]
  BY <1>1 DEF PushedFrom
<1>3. Stream!Send(c)
  BY <1>1, <1>2 DEF Send, PeerSends, Stream!Send
<1>. QED
  BY <1>3 DEF Stream!Next

(* A verdict on one stream that is never taken back.                       *)
LEMMA VerdictRefines ==
    ASSUME TypeInv, UNCHANGED <<sent, pushed>>, NEW c \in Clients, NEW verdict \in Integrity,
           integrity' = [integrity EXCEPT ![c] = verdict],
           verdict = "clean" => integrity[c] = "clean"
    PROVE  Stream!Next \/ UNCHANGED Stream!vars
<1>1. CASE verdict # "clean"
  <2>1. Intact' = Intact \ {c}
    BY <1>1 DEF Intact, TypeInv, TypeOK
  <2>. QED
    BY <2>1, BreakRefines
<1>2. CASE verdict = "clean"
  <2>1. Intact' = Intact
    BY <1>2 DEF Intact, TypeInv, TypeOK
  <2>. QED
    BY <2>1, StutterRefines
<1>. QED
  BY <1>1, <1>2

LEMMA ReceiverRefines ==
    ASSUME TypeInv, Receiver
    PROVE  Stream!Next \/ UNCHANGED Stream!vars
<1>1. CASE Insert
  <2>1. PICK c \in Clients : c = Head(toReceive)
    BY <1>1, HeadTailProperties DEF Insert, TypeInv, TypeOK, LoopsOK
  <2>2. UNCHANGED <<sent, pushed>>
    BY <1>1 DEF Insert, peerVars, queueVars
  <2>3. PICK verdict \in Integrity : /\ integrity' = [integrity EXCEPT ![c] = verdict]
                                     /\ verdict = "clean" => integrity[c] = "clean"
    <3>1. integrity[c] \in Integrity /\ "mixed" \in Integrity
      BY DEF TypeInv, TypeOK, Integrity
    <3>2. integrity' = [integrity EXCEPT ![c] =
                  IF integrity[c] = "clean" /\ (m_read_buffer[c] # <<>> \/ Parsing(c))
                  THEN "mixed" ELSE integrity[c]]
      BY <1>1, <2>1 DEF Insert
    <3>3. CASE integrity[c] = "clean" /\ (m_read_buffer[c] # <<>> \/ Parsing(c))
      BY <3>1, <3>2, <3>3
    <3>4. CASE ~(integrity[c] = "clean" /\ (m_read_buffer[c] # <<>> \/ Parsing(c)))
      <4>1. integrity' = [integrity EXCEPT ![c] = integrity[c]]
        BY <3>2, <3>4
      <4>. QED
        BY <3>1, <4>1
    <3>. QED
      BY <3>3, <3>4
  <2>. QED
    BY <2>2, <2>3, VerdictRefines
<1>2. CASE ~Insert
  <2>1. UNCHANGED <<sent, pushed, integrity>>
    BY <1>2 DEF Receiver, AcceptNothing, Accept, AddClient, RecvNothing, Recv, RecvReturns,
                RoundDone, peerVars, queueVars
  <2>. QED
    BY <2>1, StutterRefines DEF Intact
<1>. QED
  BY <1>1, <1>2

LEMMA TornRefines ==
    ASSUME TypeInv, NEW c \in Clients, UNCHANGED <<sent, pushed>>,
           integrity' = [integrity EXCEPT ![c] = "raced"]
    PROVE  Stream!Next \/ UNCHANGED Stream!vars
<1>1. "raced" \in Integrity /\ "raced" # "clean"
  BY DEF Integrity
<1>. QED
  BY <1>1, VerdictRefines

(* What is pushed extends what was pushed for that client before, and if   *)
(* its stream is clean it is what the client sent next.                    *)
LEMMA PushRefines ==
    ASSUME TypeInv, StreamsInv, DeliveryInv, Push
    PROVE  Stream!Next
<1>1. PICK d \in Clients :
              /\ d = Head(toRead) /\ toRead # <<>>
              /\ pushed' \in Seq(Packet)
              /\ \A c \in Clients :
                     PushedFrom(c)' = PushedFrom(c) \o (IF c = d THEN packets ELSE <<>>)
  BY PushDelivers
<1>2. UNCHANGED <<sent, integrity>> /\ reader = "push"
  BY DEF Push, peerVars
<1>3. PICK p \in Seq(Seq(Byte)), q \in Seq(Seq(Byte)), s \in Seq(Seq(Byte)) :
          p = PushedFrom(d) /\ q = packets /\ s = p \o q
  <2>1. PushedFrom(d) \in Seq(Seq(Byte)) /\ packets \in Seq(Seq(Byte))
    BY PushedType DEF TypeInv, TypeOK
  <2>2. PushedFrom(d) \o packets \in Seq(Seq(Byte))
    BY <2>1, ConcatOfPackets
  <2>. QED
    BY <2>1, <2>2
<1>4. PushedFrom(d)' = s
  BY <1>1, <1>3
<1>5. \A c \in Clients \ {d} : PushedFrom(c)' = PushedFrom(c)
  BY <1>1, PushedType
<1>6. Stream!Extends(s, p)
  <2>1. Len(p) <= Len(p \o q) /\ SubSeq(p \o q, 1, Len(p)) = p
    OBVIOUS
  <2>. QED
    BY <1>3, <2>1 DEF Stream!Extends
<1>7. ASSUME integrity[d] = "clean" PROVE Stream!Extends(sent[d], s)
  <2>1. PICK a \in Seq(Writable), e \in Seq(Readable) : a = sent[d] /\ e = <<>>
    BY PayloadsWritable, EmptySeq DEF TypeInv, TypeOK, PeersTypeOK
  <2>2. PICK u \in Seq(Byte), t \in Seq(Byte), b \in Seq(Byte), f \in Seq(Byte), w \in Seq(Byte) :
            /\ u = stream[d] /\ t = taken[d] /\ b = m_read_buffer[d] /\ f = InFlight(d)
            /\ w = wire[d]
    BY BytesOf
  <2>3. Kept(u, t, b, f, w)
    BY <1>7, <2>2 DEF StreamsInv, StreamInv
  <2>4. u = Encoded(a)
    BY <2>1, <2>2 DEF DeliveryInv
  <2>5. s \in Seq(Readable) /\ t = Encoded(s)
    <3>1. Held(d) = packets
      BY <1>1, <1>2 DEF Held
    <3>2. p \in Seq(Readable) /\ q \in Seq(Readable) /\ t = Encoded(p \o q)
      BY <1>3, <1>7, <2>2, <3>1 DEF DeliveryInv, Delivered
    <3>. QED
      BY <1>3, <3>2, ConcatOfReadable
  <2>6. PICK z \in Seq(Readable) : z = s /\ z \o e = z /\ t = Encoded(z \o e)
    BY <2>1, <2>5
  <2>7. Len(z) <= Len(a) /\ SubSeq(a, 1, Len(z)) = z
    BY <2>3, <2>4, <2>6, TakenIsWritten
  <2>. QED
    BY <2>1, <2>6, <2>7 DEF Stream!Extends
<1>8. Stream!Deliver(d)
  BY <1>2, <1>3, <1>4, <1>5, <1>6, <1>7 DEF Stream!Deliver
<1>. QED
  BY <1>8 DEF Stream!Next

LEMMA ReaderRefines ==
    ASSUME TypeInv, StreamsInv, DeliveryInv, Reader
    PROVE  Stream!Next \/ UNCHANGED Stream!vars
<1>1. CASE GetClients \/ Copy \/ ParseFrame \/ ParsedNothing \/ ParsedSome \/ ReaderThrows
             \/ \E c \in Clients : Erase(c)
  <2>1. UNCHANGED <<sent, pushed, integrity>>
    BY <1>1 DEF GetClients, Copy, CopyTo, ParseFrame, ParsedNothing, ParsedSome,
                ReaderThrows, Erase, EraseFrom, peerVars, queueVars
  <2>. QED
    BY <2>1, StutterRefines DEF Intact
<1>2. CASE CopyTorn
  <2>1. PICK c \in Clients : c = Head(toRead)
    BY <1>2, HeadTailProperties DEF CopyTorn, TypeInv, TypeOK
  <2>2. UNCHANGED <<sent, pushed>> /\ integrity' = [integrity EXCEPT ![c] = "raced"]
    BY <1>2, <2>1 DEF CopyTorn, CopyTo, peerVars, queueVars
  <2>. QED
    BY <2>2, TornRefines
<1>3. ASSUME NEW c \in Clients, EraseTorn(c) PROVE Stream!Next \/ UNCHANGED Stream!vars
  BY <1>3, TornRefines DEF EraseTorn, EraseFrom, peerVars, queueVars
<1>4. CASE Push
  BY <1>4, PushRefines
<1>. QED
  BY <1>1, <1>2, <1>3, <1>4 DEF Reader

(***************************************************************************)
(* Multithreaded implements PacketStream, for any number of clients and    *)
(* workers: what is queued for the handlers as a peer's is what that peer  *)
(* sent, in order, each packet once and none left out, for as long as no   *)
(* chunk met older bytes or the reader's hands; and the queue never takes  *)
(* back what it was given (server.cpp:191-225, server_socket.cpp:92-96).   *)
(***************************************************************************)
THEOREM QueueSeesPacketStream == Spec => ImplementsPacketStream
<1>1. TypeInv /\ StreamsInv /\ DeliveryInv /\ [Next]_vars
          => [Stream!Next]_(Stream!vars)
  <2> SUFFICES ASSUME TypeInv, StreamsInv, DeliveryInv, [Next]_vars
               PROVE  Stream!Next \/ UNCHANGED Stream!vars
    OBVIOUS
  <2>1. CASE (\E w \in Workers : Worker(w)) \/ Crash \/ UNCHANGED vars
    <3>1. UNCHANGED <<sent, pushed, integrity>>
      BY <2>1 DEF Worker, Lock, FindEmpty, Pop, Process, Throw, Finish, Crash, vars,
                  peerVars, queueVars
    <3>. QED
      BY <3>1, StutterRefines DEF Intact
  <2>. QED
    BY <2>1, SendRefines, ReceiverRefines, ReaderRefines DEF Next
<1>. QED
  BY InitRefines, <1>1, TypeInvariant, StreamsInvariant, DeliveryInvariant, PTL
     DEF Spec, ImplementsPacketStream, Stream!Spec
=============================================================================
