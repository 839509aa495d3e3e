----------------------- MODULE SingleThreaded_proofs -----------------------
(***************************************************************************)
(* What holds of Server::SingleThreaded for every number of clients, every *)
(* payload, every size of a chunk and every number of packets sent.        *)
(***************************************************************************)
EXTENDS SingleThreaded, Base_proofs

(* A packet is processed for the client the loop stands at.                *)
LoopOK == pc = "process" => toVisit # <<>>

TypeInv == TypeOK /\ LoopOK

LEMMA InitTypeInv == Init => TypeInv
<1> SUFFICES ASSUME Init PROVE TypeInv
  OBVIOUS
<1>1. /\ <<>> \in Seq(Clients) /\ <<>> \in Seq(Byte) /\ <<>> \in Seq(Payloads)
      /\ <<>> \in Seq(Seq(Byte))
  OBVIOUS
<1>2. PeersTypeOK
  BY <1>1 DEF Init, PeersInit, PeersTypeOK
<1>. QED
  BY <1>1, <1>2 DEF Init, TypeInv, TypeOK, LoopOK

LEMMA SendTypeInv ==
    ASSUME TypeInv, NEW c \in Clients, NEW payload \in Payloads, Send(c, payload)
    PROVE  TypeInv'
<1>1. packet_to_buffer(payload) \in Seq(Byte)
  BY PayloadsAssumption, PacketToBufferType
<1>2. PeersTypeOK'
  BY <1>1 DEF TypeInv, TypeOK, PeersTypeOK, Send, PeerSends
<1>. QED
  BY <1>2 DEF TypeInv, TypeOK, LoopOK, Send, netVars, threadVars, historyVars

LEMMA RecvTypeInv ==
    ASSUME TypeInv, NEW size \in ChunkSizes, Recv(size)
    PROVE  TypeInv'
<1>1. PICK c \in Clients : c = Head(toVisit)
  BY HeadTailProperties DEF TypeInv, TypeOK, Recv
<1>2. size \in 0 .. Len(wire[c])
  <2>1. size \in Nat /\ size <= Len(wire[c])
    BY <1>1, BoundsAssumption DEF Recv, RecvReturns
  <2>. QED
    BY <2>1
<1>3. wire[c] \in Seq(Byte) /\ m_read_buffer[c] \in Seq(Byte)
  BY DEF TypeInv, TypeOK, PeersTypeOK
<1>4. Rest(wire[c], size) \in Seq(Byte) /\ SubSeq(wire[c], 1, size) \in Seq(Byte)
  <2>1. Rest(wire[c], size) \in Seq(Byte)
    BY <1>2, <1>3, RestElements
  <2>2. SubSeq(wire[c], 1, size) \in Seq(Byte)
    BY <1>2, <1>3, PrefixType
  <2>. QED
    BY <2>1, <2>2
<1>5. Inserted(Received(c, size), m_read_buffer[c]) \in Seq(Byte)
  BY <1>3, <1>4, ConcatOfBytes DEF Inserted, Received
<1>6. PeersTypeOK'
  BY <1>1, <1>4 DEF TypeInv, TypeOK, PeersTypeOK, Recv, RecvReturns
<1>7. m_read_buffer' \in [Clients -> Seq(Byte)] /\ mixed' \subseteq Clients
  BY <1>1, <1>5 DEF TypeInv, TypeOK, Recv
<1>8. toVisit' \in Seq(Clients)
  BY HeadTailProperties DEF TypeInv, TypeOK, Recv
<1>. QED
  BY <1>6, <1>7, <1>8 DEF TypeInv, TypeOK, LoopOK, Recv

(* What the loop takes out of a buffer: some of its bytes, and packets.    *)
LEMMA ParsedMore ==
    ASSUME NEW b \in Seq(Byte), packets_from_buffer(b).len > 0
    PROVE  /\ packets_from_buffer(b).len \in 1 .. Len(b)
           /\ packets_from_buffer(b).packets \in Seq(Seq(Byte))
<1>1. /\ packets_from_buffer(b).len \in Int /\ packets_from_buffer(b).len <= Len(b)
      /\ packets_from_buffer(b).packets \in Seq(Seq(Byte))
  BY ParseFields
<1>. QED
  BY <1>1, LenIsNat

LEMMA ReadTypeInv ==
    ASSUME TypeInv, Read
    PROVE  TypeInv'
<1>1. PICK c \in Clients : c = Head(toVisit)
  BY HeadTailProperties DEF TypeInv, TypeOK, Read
<1>2. PICK b \in Seq(Byte) : b = m_read_buffer[c]
  BY DEF TypeInv, TypeOK
<1>3. PICK n \in 1 .. Len(b), p \in Seq(Seq(Byte)) :
          n = packets_from_buffer(b).len /\ p = packets_from_buffer(b).packets
  <2>1. packets_from_buffer(b).len > 0
    BY <1>1, <1>2 DEF Read
  <2>. QED
    BY <2>1, ParsedMore
<1>4. Erased(b, n) \in Seq(Byte) /\ SubSeq(b, 1, n) \in Seq(Byte)
  <2>1. Rest(b, n) \in Seq(Byte)
    BY RestElements
  <2>2. SubSeq(b, 1, n) \in Seq(Byte)
    BY PrefixType
  <2>. QED
    BY <2>1, <2>2 DEF Erased
<1>5. taken[c] \o SubSeq(b, 1, n) \in Seq(Byte)
  BY <1>4, ConcatOfBytes DEF TypeInv, TypeOK
<1>6. /\ packets' = p
      /\ m_read_buffer' = [m_read_buffer EXCEPT ![c] = Erased(b, n)]
      /\ taken' = [taken EXCEPT ![c] = taken[c] \o SubSeq(b, 1, n)]
      /\ toVisit # <<>> /\ pc' = "process"
      /\ UNCHANGED <<peerVars, pending, m_clients, toVisit, processed, mixed>>
  BY <1>1, <1>2, <1>3 DEF Read
<1>7. m_read_buffer' \in [Clients -> Seq(Byte)] /\ taken' \in [Clients -> Seq(Byte)]
  BY <1>4, <1>5, <1>6 DEF TypeInv, TypeOK
<1>. QED
  BY <1>4, <1>6, <1>7 DEF TypeInv, TypeOK, LoopOK, PeersTypeOK, peerVars

LEMMA RunHandlerTypeInv ==
    ASSUME TypeInv, RunHandler
    PROVE  /\ packets' \in Seq(Seq(Byte))
           /\ processed' \in [Clients -> Seq(Seq(Byte))]
<1>1. PICK c \in Clients : c = Head(toVisit)
  BY HeadTailProperties DEF TypeInv, TypeOK, LoopOK, RunHandler
<1>2. Head(packets) \in Seq(Byte) /\ Tail(packets) \in Seq(Seq(Byte))
  BY HeadTailProperties DEF TypeInv, TypeOK, RunHandler
<1>3. Append(processed[c], Head(packets)) \in Seq(Seq(Byte))
  BY <1>2 DEF TypeInv, TypeOK
<1>. QED
  BY <1>1, <1>2, <1>3 DEF TypeInv, TypeOK, RunHandler

LEMMA ServerTypeInv ==
    ASSUME TypeInv, Server
    PROVE  TypeInv'
<1>1. ASSUME \/ AcceptNothing \/ RecvNothing \/ ClientsRecvDone \/ ReadNothing
             \/ ReadFails \/ RoundDone \/ ProcessDone
      PROVE  TypeInv'
  <2>1. toVisit' \in Seq(Clients) /\ pc' # "process"
    BY <1>1, HeadTailProperties
       DEF TypeInv, TypeOK, LoopOK, AcceptNothing, RecvNothing, ClientsRecvDone, ReadNothing,
           ReadFails, RoundDone, ProcessDone
  <2>2. pc' \in {"accept", "recv", "read", "terminated"}
    BY <1>1 DEF AcceptNothing, RecvNothing, ClientsRecvDone, ReadNothing, ReadFails,
                RoundDone, ProcessDone
  <2>3. UNCHANGED <<peerVars, netVars, packets, historyVars>>
    BY <1>1 DEF AcceptNothing, RecvNothing, ClientsRecvDone, ReadNothing, ReadFails,
                RoundDone, ProcessDone
  <2>. QED
    BY <2>1, <2>2, <2>3
       DEF TypeInv, TypeOK, LoopOK, PeersTypeOK, peerVars, netVars, historyVars
<1>2. ASSUME NEW c \in Clients, Accept(c) PROVE TypeInv'
  BY <1>2 DEF TypeInv, TypeOK, LoopOK, PeersTypeOK, Accept, peerVars, historyVars
<1>3. ASSUME Process \/ Throw PROVE TypeInv'
  <2>1. RunHandler /\ pc' \in {"process", "terminated"}
    BY <1>3 DEF Process, Throw, RunHandler
  <2>2. toVisit # <<>>
    BY <2>1 DEF TypeInv, LoopOK, RunHandler
  <2>3. packets' \in Seq(Seq(Byte)) /\ processed' \in [Clients -> Seq(Seq(Byte))]
    BY <2>1, RunHandlerTypeInv
  <2>4. UNCHANGED <<peerVars, netVars, toVisit, taken, mixed>>
    BY <2>1 DEF RunHandler
  <2>. QED
    BY <2>1, <2>2, <2>3, <2>4 DEF TypeInv, TypeOK, LoopOK, PeersTypeOK, peerVars, netVars
<1>. QED
  BY <1>1, <1>2, <1>3, RecvTypeInv, ReadTypeInv DEF Server

(***************************************************************************)
(* The types of all that the loop keeps, the packets it has still to       *)
(* handle and the content of every stream included, for every value of the *)
(* constants (server.cpp:142-174).                                         *)
(***************************************************************************)
THEOREM TypeInvariant == Spec => []TypeInv
<1>1. TypeInv /\ [Next]_vars => TypeInv'
  <2> SUFFICES ASSUME TypeInv, [Next]_vars PROVE TypeInv'
    OBVIOUS
  <2>1. CASE UNCHANGED vars
    BY <2>1 DEF TypeInv, TypeOK, LoopOK, PeersTypeOK, vars, peerVars, netVars, threadVars,
                historyVars
  <2>. QED
    BY <2>1, SendTypeInv, ServerTypeInv DEF Next
<1>. QED
  BY InitTypeInv, <1>1, PTL DEF Spec

(***************************************************************************)
(* Type correctness, for every value of the constants: every Recv, read    *)
(* and handler of the loop works on a client, and what is parsed is a      *)
(* sequence of packets (server.cpp:142-174).                               *)
(***************************************************************************)
THEOREM TypeCorrect == Spec => []TypeOK
BY TypeInvariant, PTL DEF TypeInv
-----------------------------------------------------------------------------
(***************************************************************************)
(* What becomes of the bytes of a client: parsed and erased, in the read   *)
(* buffer, or on the wire.  Both properties are inductive, given that what *)
(* is erased from a buffer is the beginning of that very buffer.           *)
(***************************************************************************)
StreamInv(c) ==
    /\ Balanced(stream[c], taken[c], m_read_buffer[c], <<>>, wire[c])
    /\ c \notin mixed => Kept(stream[c], taken[c], m_read_buffer[c], <<>>, wire[c])

StreamsInv == \A c \in Clients : StreamInv(c)

(* The types of everything StreamInv(c) looks at.                          *)
LEMMA BytesOf ==
    ASSUME TypeInv, NEW c \in Clients
    PROVE  /\ stream[c] \in Seq(Byte) /\ taken[c] \in Seq(Byte)
           /\ m_read_buffer[c] \in Seq(Byte) /\ wire[c] \in Seq(Byte)
           /\ <<>> \in Seq(Byte)
<1>1. <<>> \in Seq(Byte)
  OBVIOUS
<1>. QED
  BY <1>1 DEF TypeInv, TypeOK, PeersTypeOK

LEMMA InitStreamsInv == Init => StreamsInv
<1> SUFFICES ASSUME Init, NEW c \in Clients PROVE StreamInv(c)
  BY DEF StreamsInv
<1>1. stream[c] = <<>> /\ taken[c] = <<>> /\ m_read_buffer[c] = <<>> /\ wire[c] = <<>>
  BY DEF Init, PeersInit
<1>2. Len(<<>>) = 0 /\ <<>> = <<>> \o <<>> \o <<>> \o <<>>
  OBVIOUS
<1>. QED
  BY <1>1, <1>2 DEF StreamInv, Kept, Balanced

LEMMA StreamUntouched ==
    ASSUME NEW c \in Clients, StreamInv(c),
           /\ stream'[c] = stream[c] /\ taken'[c] = taken[c]
           /\ m_read_buffer'[c] = m_read_buffer[c] /\ wire'[c] = wire[c],
           c \in mixed => c \in mixed'
    PROVE  StreamInv(c)'
BY DEF StreamInv

LEMMA SendStreamsInv ==
    ASSUME TypeInv, StreamsInv, NEW d \in Clients, NEW payload \in Payloads,
           Send(d, payload), NEW c \in Clients
    PROVE  StreamInv(c)'
<1>1. StreamInv(c)
  BY DEF StreamsInv
<1>2. UNCHANGED <<taken, m_read_buffer, mixed>>
  BY DEF Send, netVars, historyVars
<1>3. CASE c # d
  <2>1. stream'[c] = stream[c] /\ wire'[c] = wire[c]
    BY <1>3 DEF Send, PeerSends, TypeInv, TypeOK, PeersTypeOK
  <2>. QED
    BY <1>1, <1>2, <2>1, StreamUntouched
<1>4. CASE c = d
  <2>1. PICK frame \in Seq(Byte) : frame = packet_to_buffer(payload)
    BY PayloadsAssumption, PacketToBufferType
  <2>2. stream'[c] = stream[c] \o frame /\ wire'[c] = wire[c] \o frame
    BY <1>4, <2>1 DEF Send, PeerSends, TypeInv, TypeOK, PeersTypeOK
  <2>3. /\ stream'[c] \in Seq(Byte) /\ wire'[c] \in Seq(Byte)
        /\ Joined(stream[c], frame, stream'[c]) /\ Joined(wire[c], frame, wire'[c])
    BY <2>2, BytesOf, ConcatOfBytes DEF Joined
  <2>4. PICK e \in Seq(Byte) : e = <<>>
    BY BytesOf
  <2>5. /\ Kept(stream[c], taken[c], m_read_buffer[c], e, wire[c]) =>
               Kept(stream'[c], taken[c], m_read_buffer[c], e, wire'[c])
        /\ Balanced(stream[c], taken[c], m_read_buffer[c], e, wire[c]) =>
               Balanced(stream'[c], taken[c], m_read_buffer[c], e, wire'[c])
    BY <2>3, BytesOf, KeptWhenGrown
  <2>. QED
    BY <1>1, <1>2, <2>4, <2>5 DEF StreamInv
<1>. QED
  BY <1>3, <1>4

(* Recv: the chunk leaves the wire and goes in front of the read buffer.   *)
LEMMA RecvStreamsInv ==
    ASSUME TypeInv, StreamsInv, NEW size \in ChunkSizes, Recv(size), NEW c \in Clients
    PROVE  StreamInv(c)'
<1>1. StreamInv(c)
  BY DEF StreamsInv
<1>2. PICK d \in Clients : d = Head(toVisit)
  BY HeadTailProperties DEF TypeInv, TypeOK, Recv
<1>3. /\ UNCHANGED <<stream, taken>>
      /\ wire' = [wire EXCEPT ![d] = Rest(wire[d], size)]
      /\ m_read_buffer' = [m_read_buffer EXCEPT ![d] = Received(d, size) \o m_read_buffer[d]]
      /\ size <= Len(wire[d])
      /\ mixed' = IF m_read_buffer[d] # <<>> THEN mixed \cup {d} ELSE mixed
  BY <1>2 DEF Recv, RecvReturns, Inserted
<1>4. CASE c # d
  <2>1. m_read_buffer'[c] = m_read_buffer[c] /\ wire'[c] = wire[c]
    BY <1>3, <1>4 DEF TypeInv, TypeOK, PeersTypeOK
  <2>2. c \in mixed <=> c \in mixed'
    BY <1>3, <1>4
  <2>. QED
    BY <1>1, <1>3, <2>1, <2>2, StreamUntouched
<1>5. CASE c = d
  <2>1. size \in 0 .. Len(wire[c])
    <3>1. size \in Nat /\ size <= Len(wire[c])
      BY <1>3, <1>5, BoundsAssumption
    <3>. QED
      BY <3>1
  <2>2. PICK f \in Seq(Byte), w2 \in Seq(Byte) :
            f = Received(c, size) /\ w2 = Rest(wire[c], size) /\ Joined(f, w2, wire[c])
    <3>1. Received(c, size) \in Seq(Byte)
      BY <2>1, BytesOf, PrefixType DEF Received
    <3>2. Rest(wire[c], size) \in Seq(Byte)
      BY <2>1, BytesOf, RestElements
    <3>3. Joined(Received(c, size), Rest(wire[c], size), wire[c])
      BY <2>1, BytesOf, SplitAt DEF Joined, Received
    <3>. QED
      BY <3>1, <3>2, <3>3
  <2>3. PICK b2 \in Seq(Byte) : b2 = f \o m_read_buffer[c]
    BY BytesOf, ConcatOfBytes
  <2>4. wire'[c] = w2 /\ m_read_buffer'[c] = b2
    BY <1>3, <1>5, <2>2, <2>3 DEF TypeInv, TypeOK, PeersTypeOK
  <2>5. PICK e \in Seq(Byte) : e = <<>>
    BY BytesOf
  <2>6. /\ Kept(stream[c], taken[c], m_read_buffer[c], e, wire[c]) =>
               Kept(stream[c], taken[c], m_read_buffer[c], f, w2)
        /\ Balanced(stream[c], taken[c], m_read_buffer[c], e, wire[c]) =>
               Balanced(stream[c], taken[c], m_read_buffer[c], f, w2)
    BY <2>2, <2>5, BytesOf, KeptWhenReceived
  <2>7. /\ m_read_buffer[c] = <<>> /\ Kept(stream[c], taken[c], m_read_buffer[c], f, w2) =>
               Kept(stream[c], taken[c], b2, e, w2)
        /\ Balanced(stream[c], taken[c], m_read_buffer[c], f, w2) =>
               Balanced(stream[c], taken[c], b2, e, w2)
    <3>1. Joined(f, m_read_buffer[c], b2)
      BY <2>3 DEF Joined
    <3>. QED
      BY <2>5, <3>1, BytesOf, KeptWhenInserted
  <2>8. c \notin mixed' => c \notin mixed /\ m_read_buffer[c] = <<>>
    BY <1>3, <1>5
  <2>. QED
    BY <1>1, <1>3, <2>4, <2>5, <2>6, <2>7, <2>8 DEF StreamInv
<1>. QED
  BY <1>4, <1>5

(* Read: what was parsed leaves the front of the read buffer.              *)
LEMMA ReadStreamsInv ==
    ASSUME TypeInv, StreamsInv, Read, NEW c \in Clients
    PROVE  StreamInv(c)'
<1>1. StreamInv(c)
  BY DEF StreamsInv
<1>2. PICK d \in Clients : d = Head(toVisit)
  BY HeadTailProperties DEF TypeInv, TypeOK, Read
<1>3. PICK b \in Seq(Byte) : b = m_read_buffer[d]
  BY BytesOf
<1>4. PICK n \in 1 .. Len(b) : n = packets_from_buffer(b).len
  <2>1. packets_from_buffer(b).len > 0
    BY <1>2, <1>3 DEF Read
  <2>. QED
    BY <2>1, ParsedMore
<1>5. /\ UNCHANGED <<stream, wire, mixed>>
      /\ m_read_buffer' = [m_read_buffer EXCEPT ![d] = Rest(b, n)]
      /\ taken' = [taken EXCEPT ![d] = taken[d] \o SubSeq(b, 1, n)]
  BY <1>2, <1>3, <1>4 DEF Read, peerVars, Erased
<1>6. CASE c # d
  <2>1. m_read_buffer'[c] = m_read_buffer[c] /\ taken'[c] = taken[c]
    BY <1>5, <1>6 DEF TypeInv, TypeOK
  <2>. QED
    BY <1>1, <1>5, <2>1, StreamUntouched
<1>7. CASE c = d
  <2>1. PICK x \in Seq(Byte), b2 \in Seq(Byte) :
            x = SubSeq(b, 1, n) /\ b2 = Rest(b, n) /\ Joined(x, b2, b)
    <3>1. SubSeq(b, 1, n) \in Seq(Byte) /\ Rest(b, n) \in Seq(Byte)
      BY PrefixType, RestElements
    <3>2. Joined(SubSeq(b, 1, n), Rest(b, n), b)
      BY SplitAt DEF Joined
    <3>. QED
      BY <3>1, <3>2
  <2>2. PICK t2 \in Seq(Byte) : t2 = taken[c] \o x
    BY BytesOf, ConcatOfBytes
  <2>3. m_read_buffer'[c] = b2 /\ taken'[c] = t2
    BY <1>5, <1>7, <2>1, <2>2 DEF TypeInv, TypeOK
  <2>4. PICK e \in Seq(Byte) : e = <<>>
    BY BytesOf
  <2>5. Joined(taken[c], x, t2) /\ Len(b) = Len(x) + Len(b2)
    BY <2>1, <2>2, LenOfConcat DEF Joined
  <2>6. /\ Kept(stream[c], taken[c], b, e, wire[c]) => Kept(stream[c], t2, b2, e, wire[c])
        /\ Balanced(stream[c], taken[c], b, e, wire[c]) =>
               Balanced(stream[c], t2, b2, e, wire[c])
    <3>1. PICK s \in Seq(Byte), t \in Seq(Byte), w \in Seq(Byte) :
              s = stream[c] /\ t = taken[c] /\ w = wire[c]
      BY BytesOf
    <3>2. Joined(t, x, t2)
      BY <2>5, <3>1
    <3>3. /\ Joined(x, b2, b) /\ Kept(s, t, b, e, w) => Kept(s, t2, b2, e, w)
          /\ /\ Len(b) = Len(x) + Len(b2)
             /\ Balanced(s, t, b, e, w)
             => Balanced(s, t2, b2, e, w)
      BY <3>2, KeptWhenErased
    <3>. QED
      BY <2>1, <2>5, <3>1, <3>3
  <2>. QED
    BY <1>1, <1>3, <1>5, <1>7, <2>3, <2>4, <2>6 DEF StreamInv
<1>. QED
  BY <1>6, <1>7

LEMMA OthersStreamsInv ==
    ASSUME StreamsInv, UNCHANGED <<peerVars, m_read_buffer, taken, mixed>>, NEW c \in Clients
    PROVE  StreamInv(c)'
BY StreamUntouched DEF StreamsInv, peerVars

(***************************************************************************)
(* The invariant of the streams: what has been parsed, what is buffered    *)
(* and what is still to come, against what the peer sent.                  *)
(***************************************************************************)
THEOREM StreamsInvariant == Spec => []StreamsInv
<1>1. TypeInv /\ StreamsInv /\ [Next]_vars => StreamsInv'
  <2> SUFFICES ASSUME TypeInv, StreamsInv, [Next]_vars, NEW c \in Clients PROVE StreamInv(c)'
    BY DEF StreamsInv
  <2>1. CASE UNCHANGED vars
    BY <2>1, OthersStreamsInv DEF vars, netVars, historyVars
  <2>2. ASSUME NEW d \in Clients, NEW payload \in Payloads, Send(d, payload) PROVE StreamInv(c)'
    BY <2>2, SendStreamsInv
  <2>3. ASSUME NEW size \in ChunkSizes, Recv(size) PROVE StreamInv(c)'
    BY <2>3, RecvStreamsInv
  <2>4. CASE Read
    BY <2>4, ReadStreamsInv
  <2>5. ASSUME NEW d \in Clients, Accept(d) PROVE StreamInv(c)'
    BY <2>5, OthersStreamsInv DEF Accept, historyVars
  <2>6. CASE \/ AcceptNothing \/ RecvNothing \/ ClientsRecvDone \/ ReadNothing
             \/ ReadFails \/ RoundDone \/ ProcessDone
    BY <2>6, OthersStreamsInv
       DEF AcceptNothing, RecvNothing, ClientsRecvDone, ReadNothing, ReadFails, RoundDone,
           ProcessDone, netVars, historyVars
  <2>7. CASE Process \/ Throw
    BY <2>7, OthersStreamsInv DEF Process, Throw, RunHandler, netVars
  <2>. QED
    BY <2>1, <2>2, <2>3, <2>4, <2>5, <2>6, <2>7 DEF Next, Server
<1>. QED
  BY InitStreamsInv, <1>1, TypeInvariant, PTL DEF Spec

(***************************************************************************)
(* However the chunks are mixed, no byte is lost or read twice: every byte *)
(* sent is on the wire, in the read buffer or parsed (server.cpp:142-174). *)
(***************************************************************************)
THEOREM BytesAreConserved == Spec => []BytesConserved
<1>1. TypeInv /\ StreamsInv => BytesConserved
  <2> SUFFICES ASSUME TypeInv, StreamsInv, NEW c \in Clients
               PROVE  Len(stream[c]) = Len(taken[c]) + Len(m_read_buffer[c]) + Len(wire[c])
    BY DEF BytesConserved
  <2>1. Balanced(stream[c], taken[c], m_read_buffer[c], <<>>, wire[c])
    BY DEF StreamsInv, StreamInv
  <2>2. /\ Len(taken[c]) \in Nat /\ Len(m_read_buffer[c]) \in Nat /\ Len(wire[c]) \in Nat
        /\ Len(<<>>) = 0
    BY BytesOf, LenIsNat
  <2>. QED
    BY <2>1, <2>2 DEF Balanced
<1>. QED
  BY <1>1, TypeInvariant, StreamsInvariant, PTL

(***************************************************************************)
(* The stream of a client none of whose chunks met older bytes in the read *)
(* buffer is kept byte for byte, in order (server_socket.cpp:96,           *)
(* server.cpp:154-166).                                                    *)
(***************************************************************************)
THEOREM UnmixedStreamsAreKept == Spec => []StreamKept
<1>1. TypeInv /\ StreamsInv => StreamKept
  <2> SUFFICES ASSUME TypeInv, StreamsInv, NEW c \in Clients \ mixed
               PROVE  stream[c] = taken[c] \o m_read_buffer[c] \o wire[c]
    BY DEF StreamKept
  <2>1. Kept(stream[c], taken[c], m_read_buffer[c], <<>>, wire[c])
    BY DEF StreamsInv, StreamInv
  <2>2. PICK x \in Seq(Byte) : x = taken[c] \o m_read_buffer[c]
    BY BytesOf, ConcatOfBytes
  <2>3. x \o <<>> = x
    BY ConcatEmpty
  <2>. QED
    BY <2>1, <2>2, <2>3 DEF Kept
<1>. QED
  BY <1>1, TypeInvariant, StreamsInvariant, PTL
-----------------------------------------------------------------------------
(***************************************************************************)
(* What the handlers get.  The stream of a client is the encoding of the   *)
(* packets it sent; if the client is not in mixed, the bytes parsed for it *)
(* are the encoding of the packets processed for it and of those still in  *)
(* the loop's hands.  For as long as the stream is kept the latter packets *)
(* begin the former.                                                       *)
(***************************************************************************)
InHand(c) == IF toVisit # <<>> /\ Head(toVisit) = c THEN packets ELSE <<>>

Delivered(c) ==
    /\ processed[c] \in Seq(Readable) /\ InHand(c) \in Seq(Readable)
    /\ taken[c] = Encoded(processed[c] \o InHand(c))

DeliveryInv ==
    /\ pc \in {"accept", "recv", "read"} => packets = <<>>
    /\ \A c \in Clients : stream[c] = Encoded(sent[c])
    /\ \A c \in Clients \ mixed : Delivered(c)

LEMMA PayloadsWritable == Payloads \subseteq Writable /\ Seq(Payloads) \subseteq Seq(Writable)
<1>1. Payloads \subseteq Writable
  BY PayloadsAssumption, PayloadsFitAssumption DEF Writable, Fits
<1>. QED
  BY <1>1, SeqMonotonic

LEMMA NothingInHand == packets = <<>> => \A c \in Clients : InHand(c) = <<>>
BY DEF InHand

LEMMA AppendNothing == \A s \in Seq(Readable) : s \o <<>> = s
OBVIOUS

LEMMA InitDeliveryInv == Init => DeliveryInv
<1> SUFFICES ASSUME Init PROVE DeliveryInv
  OBVIOUS
<1>1. <<>> \in Seq(Readable) /\ <<>> \o <<>> = <<>>
  BY AppendNothing
<1>2. packets = <<>> /\ \A c \in Clients : InHand(c) = <<>>
  BY DEF Init, InHand
<1>. QED
  BY <1>1, <1>2, EncodedEmpty DEF Init, PeersInit, DeliveryInv, Delivered

LEMMA SendDeliveryInv ==
    ASSUME TypeInv, DeliveryInv, NEW d \in Clients, NEW payload \in Payloads, Send(d, payload)
    PROVE  DeliveryInv'
<1>1. UNCHANGED <<pc, toVisit, packets, processed, taken, mixed>>
  BY DEF Send, threadVars, historyVars
<1>2. \A c \in Clients : InHand(c)' = InHand(c)
  BY <1>1 DEF InHand
<1>3. ASSUME NEW c \in Clients PROVE stream'[c] = Encoded(sent'[c])
  <2>1. CASE c # d
    <3>1. stream'[c] = stream[c] /\ sent'[c] = sent[c]
      BY <2>1 DEF Send, PeerSends, TypeInv, TypeOK, PeersTypeOK
    <3>. QED
      BY <3>1 DEF DeliveryInv
  <2>2. CASE c = d
    <3>1. PICK s \in Seq(Seq(Byte)) : s = sent[c]
      BY PayloadsWritable, ReadableWritable DEF TypeInv, TypeOK, PeersTypeOK
    <3>2. payload \in Seq(Byte)
      BY PayloadsAssumption
    <3>3. stream'[c] = stream[c] \o packet_to_buffer(payload) /\ sent'[c] = Append(s, payload)
      BY <2>2, <3>1 DEF Send, PeerSends, TypeInv, TypeOK, PeersTypeOK
    <3>4. Encoded(Append(s, payload)) = Encoded(s) \o packet_to_buffer(payload)
      BY <3>2, EncodedAppend
    <3>. QED
      BY <3>1, <3>3, <3>4 DEF DeliveryInv
  <2>. QED
    BY <2>1, <2>2
<1>. QED
  BY <1>1, <1>2, <1>3 DEF DeliveryInv, Delivered

LEMMA IdleDeliveryInv ==
    ASSUME DeliveryInv, UNCHANGED <<stream, sent, packets, processed, taken>>,
           packets = <<>>, mixed \subseteq mixed'
    PROVE  DeliveryInv'
<1>1. \A c \in Clients : InHand(c)' = InHand(c)
  BY DEF InHand
<1>. QED
  BY <1>1 DEF DeliveryInv, Delivered

(* What Read takes from the buffer of a client that is not in mixed is the *)
(* encoding of packets the client may have sent: the buffer goes on where  *)
(* the parsed packets end.                                                 *)
LEMMA UnmixedIsParsed ==
    ASSUME TypeInv, StreamsInv, DeliveryInv, NEW d \in Clients \ mixed, InHand(d) = <<>>,
           packets_from_buffer(m_read_buffer[d]).len > 0
    PROVE  LET result == packets_from_buffer(m_read_buffer[d])
           IN  /\ result.packets \in Seq(Readable)
               /\ Encoded(result.packets) = SubSeq(m_read_buffer[d], 1, result.len)
<1>1. PICK a \in Seq(Writable), l \in Seq(Readable) :
          a = sent[d] /\ l = processed[d] /\ stream[d] = Encoded(a) /\ taken[d] = Encoded(l)
  <2>1. sent[d] \in Seq(Writable)
    BY PayloadsWritable DEF TypeInv, TypeOK, PeersTypeOK
  <2>2. processed[d] \in Seq(Readable) /\ processed[d] \o <<>> = processed[d]
    BY AppendNothing DEF DeliveryInv, Delivered
  <2>. QED
    BY <2>1, <2>2 DEF DeliveryInv, Delivered
<1>2. PICK b \in Seq(Byte), w \in Seq(Byte), t \in Seq(Byte) :
          b = m_read_buffer[d] /\ w = wire[d] /\ t = taken[d]
  BY BytesOf
<1>3. stream[d] = t \o b \o <<>> \o w
  BY <1>2 DEF StreamsInv, StreamInv, Kept
<1>4. t \o b \o <<>> \o w = t \o (b \o w)
  <2>1. PICK tb \in Seq(Byte) : tb = t \o b
    BY ConcatOfBytes
  <2>2. tb \o <<>> = tb
    BY ConcatEmpty
  <2>3. (t \o b) \o w = t \o (b \o w)
    BY ConcatIsAssociative
  <2>. QED
    BY <2>1, <2>2, <2>3
<1>5. Encoded(a) = Encoded(l) \o (b \o w)
  BY <1>1, <1>2, <1>3, <1>4
<1>6. Cleanly(b, 0, packets_from_buffer(b))
  BY <1>5, StreamGoesOn, ParsesStream
<1>7. packets_from_buffer(b).len >= 0
  <2>1. packets_from_buffer(b).len > 0 /\ packets_from_buffer(b).len \in Int
    BY <1>2, ParseFields
  <2>. QED
    BY <2>1
<1>. QED
  BY <1>2, <1>6, <1>7 DEF Cleanly

LEMMA ReadDeliveryInv ==
    ASSUME TypeInv, StreamsInv, DeliveryInv, Read
    PROVE  DeliveryInv'
<1>1. PICK d \in Clients : d = Head(toVisit)
  BY HeadTailProperties DEF TypeInv, TypeOK, Read
<1>2. PICK b \in Seq(Byte) : b = m_read_buffer[d]
  BY DEF TypeInv, TypeOK
<1>3. PICK n, p : n = packets_from_buffer(b).len /\ p = packets_from_buffer(b).packets
  OBVIOUS
<1>4. /\ UNCHANGED <<stream, sent, toVisit, processed, mixed>>
      /\ pc' = "process" /\ packets' = p /\ packets = <<>> /\ toVisit # <<>> /\ n > 0
      /\ taken' = [taken EXCEPT ![d] = taken[d] \o SubSeq(b, 1, n)]
  BY <1>1, <1>2, <1>3 DEF Read, peerVars, DeliveryInv
<1>5. ASSUME NEW c \in Clients \ mixed PROVE Delivered(c)'
  <2>0. InHand(c) = <<>>
    BY <1>4, NothingInHand
  <2>1. PICK s \in Seq(Readable) : s = processed[c] /\ taken[c] = Encoded(s)
    BY <2>0, AppendNothing DEF DeliveryInv, Delivered
  <2>2. CASE c # d
    <3>1. InHand(c)' = <<>> /\ taken'[c] = taken[c]
      BY <1>1, <1>4, <2>2 DEF InHand, TypeInv, TypeOK
    <3>2. s \o <<>> = s /\ <<>> \in Seq(Readable)
      OBVIOUS
    <3>. QED
      BY <1>4, <2>1, <3>1, <3>2 DEF Delivered
  <2>3. CASE c = d
    <3>1. p \in Seq(Readable) /\ Encoded(p) = SubSeq(b, 1, n)
      BY <1>2, <1>3, <1>4, <2>0, <2>3, UnmixedIsParsed
    <3>2. InHand(c)' = p /\ taken'[c] = taken[c] \o SubSeq(b, 1, n)
      BY <1>1, <1>4, <2>3 DEF InHand, TypeInv, TypeOK
    <3>3. s \in Seq(Seq(Byte)) /\ p \in Seq(Seq(Byte))
      BY <3>1, ReadableWritable
    <3>4. Encoded(s \o p) = Encoded(s) \o Encoded(p)
      BY <3>3, EncodedConcat
    <3>. QED
      BY <1>4, <2>1, <3>1, <3>2, <3>4 DEF Delivered
  <2>. QED
    BY <2>2, <2>3
<1>. QED
  BY <1>4, <1>5 DEF DeliveryInv

(* A packet goes from the loop's hands to its handler.                     *)
LEMMA HandOver ==
    ASSUME NEW S, NEW s \in Seq(S), NEW p \in Seq(S), p # <<>>
    PROVE  /\ Tail(p) \in Seq(S)
           /\ Append(s, Head(p)) \in Seq(S)
           /\ Append(s, Head(p)) \o Tail(p) = s \o p
<1>1. PICK x \in S, q \in Seq(S) : x = Head(p) /\ q = Tail(p) /\ p = <<x>> \o q
  <2>1. Head(p) \in S /\ Tail(p) \in Seq(S) /\ p = <<Head(p)>> \o Tail(p)
    BY HeadTailProperties
  <2>. QED
    BY <2>1
<1>2. Append(s, x) = s \o <<x>> /\ <<x>> \in Seq(S) /\ Append(s, x) \in Seq(S)
  OBVIOUS
<1>3. (s \o <<x>>) \o q = s \o (<<x>> \o q)
  BY <1>2, ConcatAssociative
<1>. QED
  BY <1>1, <1>2, <1>3

LEMMA RunHandlerDelivers ==
    ASSUME TypeInv, RunHandler
    PROVE  \E d \in Clients, p \in Seq(Seq(Byte)) :
              /\ d = Head(toVisit) /\ toVisit # <<>>
              /\ p = Append(processed[d], Head(packets))
              /\ processed' = [processed EXCEPT ![d] = p]
              /\ p \o packets' = processed[d] \o packets
              /\ processed[d] \in Seq(Readable) /\ packets \in Seq(Readable)
                     => p \in Seq(Readable) /\ packets' \in Seq(Readable)
<1>1. PICK d \in Clients : d = Head(toVisit) /\ toVisit # <<>>
  BY HeadTailProperties DEF TypeInv, TypeOK, LoopOK, RunHandler
<1>2. /\ processed[d] \in Seq(Seq(Byte)) /\ packets \in Seq(Seq(Byte)) /\ packets # <<>>
  BY DEF TypeInv, TypeOK, RunHandler
<1>3. packets' = Tail(packets)
      /\ processed' = [processed EXCEPT ![d] = Append(processed[d], Head(packets))]
  BY <1>1 DEF RunHandler
<1>4. /\ Append(processed[d], Head(packets)) \in Seq(Seq(Byte))
      /\ Append(processed[d], Head(packets)) \o Tail(packets) = processed[d] \o packets
  BY <1>2, HandOver
<1>5. processed[d] \in Seq(Readable) /\ packets \in Seq(Readable) =>
          /\ Tail(packets) \in Seq(Readable)
          /\ Append(processed[d], Head(packets)) \in Seq(Readable)
  BY <1>2, HandOver
<1>. QED
  BY <1>1, <1>3, <1>4, <1>5

LEMMA RunHandlerDeliveryInv ==
    ASSUME TypeInv, DeliveryInv, RunHandler, pc' \notin {"accept", "recv", "read"}
    PROVE  DeliveryInv'
<1>1. PICK d \in Clients, p \in Seq(Seq(Byte)) :
              /\ d = Head(toVisit) /\ toVisit # <<>>
              /\ p = Append(processed[d], Head(packets))
              /\ processed' = [processed EXCEPT ![d] = p]
              /\ p \o packets' = processed[d] \o packets
              /\ processed[d] \in Seq(Readable) /\ packets \in Seq(Readable)
                     => p \in Seq(Readable) /\ packets' \in Seq(Readable)
  BY RunHandlerDelivers
<1>2. UNCHANGED <<stream, sent, toVisit, taken, mixed>>
  BY DEF RunHandler, peerVars
<1>3. ASSUME NEW c \in Clients \ mixed
      PROVE  /\ processed'[c] \in Seq(Readable) /\ InHand(c)' \in Seq(Readable)
             /\ processed'[c] \o InHand(c)' = processed[c] \o InHand(c)
  <2>1. CASE c # d
    <3>1. processed'[c] = processed[c] /\ InHand(c)' = InHand(c)
      BY <1>1, <1>2, <2>1 DEF InHand, TypeInv, TypeOK
    <3>. QED
      BY <3>1 DEF DeliveryInv, Delivered
  <2>2. CASE c = d
    <3>1. processed'[c] = p /\ InHand(c)' = packets' /\ InHand(c) = packets
      BY <1>1, <1>2, <2>2 DEF InHand, TypeInv, TypeOK
    <3>2. processed[c] \in Seq(Readable) /\ InHand(c) \in Seq(Readable)
      BY DEF DeliveryInv, Delivered
    <3>. QED
      BY <1>1, <2>2, <3>1, <3>2
  <2>. QED
    BY <2>1, <2>2
<1>. QED
  BY <1>1, <1>2, <1>3 DEF DeliveryInv, Delivered

(***************************************************************************)
(* What was handed to the handlers, followed by the packets that wait for  *)
(* theirs, is what was parsed from the read buffer of a client none of     *)
(* whose chunks met older bytes there: for such a client the loop neither  *)
(* loses nor repeats nor reorders a packet (server.cpp:154-171).           *)
(***************************************************************************)
THEOREM DeliveryInvariant == Spec => []DeliveryInv
<1>1. TypeInv /\ StreamsInv /\ DeliveryInv /\ [Next]_vars => DeliveryInv'
  <2> SUFFICES ASSUME TypeInv, StreamsInv, DeliveryInv, [Next]_vars PROVE DeliveryInv'
    OBVIOUS
  <2>1. CASE UNCHANGED vars
    BY <2>1 DEF DeliveryInv, Delivered, InHand, vars, peerVars, threadVars, historyVars
  <2>2. ASSUME NEW d \in Clients, NEW payload \in Payloads, Send(d, payload) PROVE DeliveryInv'
    BY <2>2, SendDeliveryInv
  <2>3. CASE Read
    BY <2>3, ReadDeliveryInv
  <2>4. CASE \/ AcceptNothing \/ RecvNothing \/ ClientsRecvDone \/ ReadNothing
             \/ ReadFails \/ RoundDone \/ ProcessDone
    <3>1. packets = <<>>
      BY <2>4 DEF DeliveryInv, AcceptNothing, RecvNothing, ClientsRecvDone, ReadNothing,
                  ReadFails, RoundDone, ProcessDone
    <3>2. UNCHANGED <<stream, sent, packets, processed, taken, mixed>>
      BY <2>4 DEF AcceptNothing, RecvNothing, ClientsRecvDone, ReadNothing, ReadFails,
                  RoundDone, ProcessDone, peerVars, historyVars
    <3>. QED
      BY <3>1, <3>2, IdleDeliveryInv
  <2>5. ASSUME NEW d \in Clients, Accept(d) PROVE DeliveryInv'
    BY <2>5, IdleDeliveryInv DEF DeliveryInv, Accept, peerVars, historyVars
  <2>6. ASSUME NEW size \in ChunkSizes, Recv(size) PROVE DeliveryInv'
    BY <2>6, IdleDeliveryInv DEF DeliveryInv, Recv, RecvReturns
  <2>7. CASE Process \/ Throw
    BY <2>7, RunHandlerDeliveryInv DEF Process, Throw, RunHandler
  <2>. QED
    BY <2>1, <2>2, <2>3, <2>4, <2>5, <2>6, <2>7 DEF Next, Server
<1>. QED
  BY InitDeliveryInv, <1>1, TypeInvariant, StreamsInvariant, PTL DEF Spec
-----------------------------------------------------------------------------
(***************************************************************************)
(* Refinement of PacketStream: a send is a Send, a handler's run a         *)
(* Deliver, a chunk that meets older bytes a Break.                        *)
(***************************************************************************)
LEMMA InitRefines == Init => Stream!Init
BY DEF Init, PeersInit, Stream!Init

LEMMA SendRefines ==
    ASSUME NEW c \in Clients, NEW payload \in Payloads, Send(c, payload)
    PROVE  Stream!Send(c)
BY DEF Send, PeerSends, historyVars, Stream!Send

LEMMA RecvRefines ==
    ASSUME TypeInv, NEW size \in ChunkSizes, Recv(size)
    PROVE  (\E c \in Clients : Stream!Break(c)) \/ UNCHANGED <<sent, processed, mixed>>
<1>1. PICK c \in Clients : c = Head(toVisit)
  BY HeadTailProperties DEF TypeInv, TypeOK, Recv
<1>2. UNCHANGED <<sent, processed>> /\ (mixed' = mixed \cup {c} \/ mixed' = mixed)
  BY <1>1 DEF Recv, RecvReturns
<1>3. CASE mixed' = mixed \cup {c}
  <2>1. Clients \ mixed' = (Clients \ mixed) \ {c}
    BY <1>3
  <2>. QED
    BY <1>2, <2>1 DEF Stream!Break
<1>. QED
  BY <1>2, <1>3

(* What a handler gets extends what the peer's handlers got before, and    *)
(* is the next packet the peer sent if its stream is intact.               *)
LEMMA RunHandlerRefines ==
    ASSUME TypeInv, StreamsInv, DeliveryInv, RunHandler
    PROVE  \E c \in Clients : Stream!Deliver(c)
<1>1. PICK d \in Clients, p \in Seq(Seq(Byte)) :
              /\ d = Head(toVisit) /\ toVisit # <<>>
              /\ p = Append(processed[d], Head(packets))
              /\ processed' = [processed EXCEPT ![d] = p]
              /\ p \o packets' = processed[d] \o packets
              /\ processed[d] \in Seq(Readable) /\ packets \in Seq(Readable)
                     => p \in Seq(Readable) /\ packets' \in Seq(Readable)
  BY RunHandlerDelivers
<1>2. processed'[d] = p /\ \A c \in Clients \ {d} : processed'[c] = processed[c]
  BY <1>1 DEF TypeInv, TypeOK
<1>3. Stream!Extends(p, processed[d])
  <2>1. PICK s \in Seq(Seq(Byte)) : s = processed[d]
    BY DEF TypeInv, TypeOK
  <2>2. Len(s) <= Len(Append(s, Head(packets)))
        /\ SubSeq(Append(s, Head(packets)), 1, Len(s)) = s
    OBVIOUS
  <2>. QED
    BY <1>1, <2>1, <2>2 DEF Stream!Extends
<1>4. ASSUME d \notin mixed PROVE Stream!Extends(sent[d], p)
  <2>0. InHand(d) = packets /\ Delivered(d)
    BY <1>1, <1>4 DEF InHand, DeliveryInv
  <2>1. PICK a \in Seq(Writable), q \in Seq(Readable) :
            a = sent[d] /\ q = packets' /\ p \in Seq(Readable)
    BY <1>1, <2>0, PayloadsWritable DEF Delivered, TypeInv, TypeOK, PeersTypeOK
  <2>2. PICK s \in Seq(Byte), t \in Seq(Byte), b \in Seq(Byte), e \in Seq(Byte), w \in Seq(Byte) :
            /\ s = stream[d] /\ t = taken[d] /\ b = m_read_buffer[d] /\ e = <<>> /\ w = wire[d]
    BY BytesOf
  <2>3. Kept(s, t, b, e, w)
    BY <1>4, <2>2 DEF StreamsInv, StreamInv
  <2>4. s = Encoded(a)
    BY <2>1, <2>2 DEF DeliveryInv
  <2>5. t = Encoded(p \o q)
    BY <1>1, <2>0, <2>1, <2>2 DEF Delivered
  <2>6. Len(p) <= Len(a) /\ SubSeq(a, 1, Len(p)) = p
    BY <2>1, <2>3, <2>4, <2>5, TakenIsWritten
  <2>. QED
    BY <2>1, <2>6 DEF Stream!Extends
<1>5. DOMAIN processed' = Clients
  BY <1>1 DEF TypeInv, TypeOK
<1>6. UNCHANGED <<sent, mixed>>
  BY DEF RunHandler, peerVars
<1>7. Stream!Deliver(d)
  BY <1>2, <1>3, <1>4, <1>5, <1>6 DEF Stream!Deliver
<1>. QED
  BY <1>7

(***************************************************************************)
(* SingleThreaded implements PacketStream: the handlers get the packets of *)
(* each peer in the order it sent them, each once and none left out, for   *)
(* as long as every chunk finds that peer's read buffer empty; and after   *)
(* that nothing that was handed over is taken back (server.cpp:142-174,    *)
(* server_socket.cpp:96).                                                  *)
(***************************************************************************)
THEOREM HandlersSeePacketStream == Spec => ImplementsPacketStream
<1>1. TypeInv /\ StreamsInv /\ DeliveryInv /\ [Next]_vars => [Stream!Next]_(Stream!vars)
  <2> SUFFICES ASSUME TypeInv, StreamsInv, DeliveryInv, [Next]_vars
               PROVE  Stream!Next \/ UNCHANGED Stream!vars
    OBVIOUS
  <2>0. UNCHANGED <<sent, processed, mixed>> => UNCHANGED Stream!vars
    BY DEF Stream!vars
  <2>1. CASE UNCHANGED vars
    BY <2>0, <2>1 DEF vars, peerVars, historyVars
  <2>2. ASSUME NEW c \in Clients, NEW payload \in Payloads, Send(c, payload)
        PROVE  Stream!Next
    BY <2>2, SendRefines DEF Stream!Next
  <2>3. ASSUME NEW size \in ChunkSizes, Recv(size) PROVE Stream!Next \/ UNCHANGED Stream!vars
    BY <2>0, <2>3, RecvRefines DEF Stream!Next
  <2>4. CASE Process \/ Throw
    BY <2>4, RunHandlerRefines DEF Process, Throw, Stream!Next
  <2>5. ASSUME NEW c \in Clients, Accept(c) PROVE UNCHANGED Stream!vars
    BY <2>0, <2>5 DEF Accept, peerVars, historyVars
  <2>6. CASE \/ AcceptNothing \/ RecvNothing \/ ClientsRecvDone \/ ReadNothing
             \/ Read \/ ReadFails \/ RoundDone \/ ProcessDone
    BY <2>0, <2>6
       DEF AcceptNothing, RecvNothing, ClientsRecvDone, ReadNothing, Read, ReadFails,
           RoundDone, ProcessDone, peerVars, historyVars
  <2>. QED
    BY <2>1, <2>2, <2>3, <2>4, <2>5, <2>6 DEF Next, Server
<1>. QED
  BY InitRefines, <1>1, TypeInvariant, StreamsInvariant, DeliveryInvariant, PTL
     DEF Spec, ImplementsPacketStream, Stream!Spec
=============================================================================
