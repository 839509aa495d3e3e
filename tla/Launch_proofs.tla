---------------------------- MODULE Launch_proofs ----------------------------
(***************************************************************************)
(* Whatever --threads is, and however the receivers and readers of two     *)
(* modes work on the same clients: the types of their state, the order in  *)
(* which packets are handled, and that frames are not lost without others  *)
(* being read twice.                                                       *)
(***************************************************************************)
EXTENDS Launch, Base_proofs, FiniteSetTheorems

(***************************************************************************)
(* Types, finer than TypeOK: what the threads are in the middle of.        *)
(***************************************************************************)

Buffers == [Peers -> Seq(Nat)]

(* Client maps: peers by their ids.                                        *)
ClientMaps == UNION {[ids -> Peers] : ids \in {S \in SUBSET Nat : IsFiniteSet(S)}}

NetTypes ==
    [sent : [Peers -> Nat], wire : Buffers, pending : SUBSET Peers, counter : Nat,
     m_clients : ClientMaps, buffer : Buffers]

ReceiverTypes ==
    [pc : {"none", "accept", "count", "add", "log", "recv", "insert"},
     peer : Peers \cup {"none"}, id : Int, chunk : Seq(Nat)]

ReaderTypes ==
    [pc : {"none", "get", "copy", "erase", "lock", "process", "sad"},
     todo : Seq(Peers), copy : Seq(Nat)]

(* Workers is applied to the threads asked for, which may be any number.   *)
WorkerMaps(threads) ==
    UNION {[ids -> {"idle", "sad", "process", "dead"}] : ids \in SUBSET Workers(threads)}

PoolTypes(threads) ==
    [queue : Seq(Peers \X Nat), mutex : {"free", "directReader", "worker"},
     worker : WorkerMaps(threads), emojis : SUBSET (EMOJIS \cup {"sad"})]

LogTypes == [taken : Buffers, handled : Buffers, mixed : SUBSET Peers]

(* What the threads are in the middle of.                                  *)
ReceiverStage(m) ==
    /\ receiver[m].pc \in {"count", "add", "insert"} => receiver[m].peer \in Peers
    /\ receiver[m].pc \in {"count", "add"} => receiver[m].id \in Nat
    /\ receiver[m].pc = "insert" => receiver[m].chunk # <<>>
    /\ main = "listen" => receiver[m].pc = "none"

ReaderStage(m) ==
    /\ reader[m].pc \in {"copy", "erase", "lock", "process", "sad"} => reader[m].todo # <<>>
    /\ reader[m].pc \in {"process", "sad"} => m = "Create2Threads"
    /\ m = "Create2Threads" /\ reader[m].pc # "none" => m_settings = 2

(* The inductive invariant of the types.                                   *)
TypeInv ==
    /\ m_settings \in Options
    /\ main \in {"listen", "wait", "exit"}
    /\ net \in NetTypes
    /\ receiver \in [Modes -> ReceiverTypes]
    /\ reader \in [Modes -> ReaderTypes]
    /\ pool \in PoolTypes(m_settings)
    /\ log \in LogTypes
    /\ \A m \in Modes : ReceiverStage(m) /\ ReaderStage(m)
-----------------------------------------------------------------------------
LEMMA MinOfNumbers ==
    ASSUME NEW S \in SUBSET Nat, S # {}
    PROVE  Min(S) \in S
<1>1. \E x \in S : \A y \in S : x <= y
  BY LeastNumber
<1>. QED
  BY <1>1 DEF Min

(* Every place below the size of a finite set of numbers is that of one of *)
(* them.                                                                   *)
Below(S, x) == {i \in S : i < x}

HasRanks(S) == \A k \in 0 .. Cardinality(S) - 1 : \E x \in S : Cardinality(Below(S, x)) = k

LEMMA Ranks ==
    ASSUME NEW S \in SUBSET Nat, IsFiniteSet(S)
    PROVE  HasRanks(S)
<1> DEFINE Sets(n) == {T \in SUBSET Nat : IsFiniteSet(T) /\ Cardinality(T) = n}
           N == {n \in Nat : \A T \in Sets(n) : HasRanks(T)}
<1>1. 0 \in N
  <2>1. ASSUME NEW T \in Sets(0) PROVE HasRanks(T)
    BY <2>1 DEF HasRanks
  <2>. QED
    BY <2>1
<1>2. ASSUME NEW n \in Nat, n \in N PROVE n + 1 \in N
  <2>1. SUFFICES ASSUME NEW T \in Sets(n + 1), NEW k \in 0 .. n
                 PROVE  \E x \in T : Cardinality(Below(T, x)) = k
    BY <2>1 DEF HasRanks
  <2>2. T # {} /\ T \subseteq Nat /\ IsFiniteSet(T) /\ Cardinality(T) = n + 1
    BY FS_EmptySet
  <2>3. PICK least \in T : \A y \in T : least <= y
    BY <2>2, LeastNumber
  <2> DEFINE U == T \ {least}
  <2>4. IsFiniteSet(U) /\ Cardinality(U) = Cardinality(T) - 1
    BY <2>2, <2>3, FS_RemoveElement, Zenon
  <2>5. U \in SUBSET Nat /\ Cardinality(U) = n
    BY <2>2, <2>4
  <2>6. HasRanks(U)
    BY <1>2, <2>4, <2>5
  <2>7. CASE k = 0
    <3>1. ASSUME NEW i \in T, i < least PROVE FALSE
      BY <2>2, <2>3, <3>1
    <3>2. Below(T, least) = {}
      BY <3>1 DEF Below
    <3>. QED
      BY <2>7, <3>2, FS_EmptySet
  <2>8. CASE k # 0
    <3>1. PICK x \in U : Cardinality(Below(U, x)) = k - 1
      BY <2>5, <2>6, <2>8 DEF HasRanks
    <3>2. Below(T, x) = Below(U, x) \cup {least} /\ least \notin Below(U, x)
      BY <2>2, <2>3, <3>1 DEF Below
    <3>3. Below(U, x) \in SUBSET U
      BY DEF Below
    <3>4. IsFiniteSet(Below(U, x))
      BY <2>4, <3>3, FS_Subset, Zenon
    <3>5. Cardinality(Below(T, x)) = Cardinality(Below(U, x)) + 1
      BY <3>2, <3>4, FS_AddElement, Zenon
    <3>. QED
      BY <3>1, <3>5
  <2>. QED
    BY <2>7, <2>8
<1> HIDE DEF N
<1>3. \A n \in Nat : n \in N
  BY <1>1, <1>2, SetInduction
<1>. QED
  BY <1>3, FS_CardinalityType DEF N

(* GetClients gives peers, and some if there are any                       *)
(* (server_socket.cpp:100-103).                                            *)
LEMMA InIdOrderType ==
    ASSUME NEW clients \in ClientMaps
    PROVE  /\ InIdOrder(clients) \in Seq(Peers)
           /\ clients # <<>> => InIdOrder(clients) # <<>>
<1>1. PICK ids \in SUBSET Nat : IsFiniteSet(ids) /\ clients \in [ids -> Peers]
  BY DEF ClientMaps
<1>2. DOMAIN clients = ids /\ Cardinality(ids) \in Nat
  BY <1>1, FS_CardinalityType
<1> DEFINE Place(n) == CHOOSE id \in DOMAIN clients : Cardinality(Below(DOMAIN clients, id)) = n - 1
<1>3. ASSUME NEW n \in 1 .. Cardinality(ids)
      PROVE  clients[Place(n)] \in Peers
  <2>1. \E id \in ids : Cardinality(Below(ids, id)) = n - 1
    BY <1>1, <1>2, Ranks DEF HasRanks
  <2>2. Place(n) \in ids
    BY <1>2, <2>1
  <2>. QED
    BY <1>1, <2>2
<1>4. InIdOrder(clients) = [n \in 1 .. Cardinality(DOMAIN clients) |-> clients[Place(n)]]
  BY Zenon DEF InIdOrder, Below
<1>5. InIdOrder(clients) \in Seq(Peers) /\ Len(InIdOrder(clients)) = Cardinality(ids)
  <2> HIDE DEF Place
  <2>. QED
    BY <1>2, <1>3, <1>4
<1>6. ASSUME clients # <<>> PROVE InIdOrder(clients) # <<>>
  <2>1. ids # {}
    BY <1>1, <1>6
  <2>2. Cardinality(ids) # 0
    BY <1>1, <2>1, FS_EmptySet
  <2>. QED
    BY <1>5, <2>2
<1>. QED
  BY <1>5, <1>6

LEMMA EmptyMaps ==
    /\ <<>> \in ClientMaps
    /\ \A threads \in Int : <<>> \in WorkerMaps(threads)
<1>1. <<>> \in [{} -> Peers] /\ IsFiniteSet({})
  BY FS_EmptySet
<1>2. <<>> \in [{} -> {"idle", "sad", "process", "dead"}]
  OBVIOUS
<1>. QED
  BY <1>1, <1>2 DEF ClientMaps, WorkerMaps

(* What receivers and readers start with, with the fields written out.     *)
LEMMA StartTypes ==
    /\ Receiving \in ReceiverTypes /\ Receiving.pc = "accept"
    /\ NoReceiver \in ReceiverTypes /\ NoReceiver.pc = "none"
    /\ [Receiving EXCEPT !.pc = "recv"] \in ReceiverTypes
    /\ [Receiving EXCEPT !.pc = "recv"].pc = "recv"
    /\ Reading \in ReaderTypes /\ Reading.pc = "get"
    /\ NoReader \in ReaderTypes /\ NoReader.pc = "none"
<1>1. <<>> \in Seq(Nat) /\ <<>> \in Seq(Peers)
  OBVIOUS
<1>2. -1 \in Int
  OBVIOUS
<1>3. Receiving \in ReceiverTypes /\ Receiving.pc = "accept"
  BY <1>1, <1>2 DEF Receiving, ReceiverTypes
<1>4. \A r \in ReceiverTypes, pc \in {"none", "recv"} :
          [r EXCEPT !.pc = pc] \in ReceiverTypes /\ [r EXCEPT !.pc = pc].pc = pc
  BY DEF ReceiverTypes
<1>5. Reading \in ReaderTypes /\ Reading.pc = "get"
  BY <1>1 DEF Reading, ReaderTypes
<1>6. \A r \in ReaderTypes, pc \in {"none"} :
          [r EXCEPT !.pc = pc] \in ReaderTypes /\ [r EXCEPT !.pc = pc].pc = pc
  BY DEF ReaderTypes
<1>. QED
  BY <1>3, <1>4, <1>5, <1>6 DEF NoReceiver, NoReader

LEMMA InitTypeInv == Init => TypeInv
<1> SUFFICES ASSUME Init PROVE TypeInv
  OBVIOUS
<1>1. net \in NetTypes
  BY EmptyMaps DEF Init, FreshNet, NetTypes, Buffers
<1>2. receiver \in [Modes -> ReceiverTypes]
  BY StartTypes DEF Init
<1>3. reader \in [Modes -> ReaderTypes]
  BY StartTypes DEF Init
<1>4. pool \in PoolTypes(m_settings)
  BY EmptyMaps, OptionsAssumption DEF Init, NoPool, PoolTypes
<1>5. log \in LogTypes
  BY DEF Init, LogTypes, Buffers
<1>6. \A m \in Modes : ReceiverStage(m) /\ ReaderStage(m)
  BY DEF Init, ReceiverStage, ReaderStage, NoReceiver, NoReader, Receiving, Reading
<1>. QED
  BY <1>1, <1>2, <1>3, <1>4, <1>5, <1>6 DEF Init, TypeInv

LEMMA ListenTypeInv ==
    ASSUME TypeInv, Listen
    PROVE  TypeInv'
<1> USE DEF Listen
<1>1. receiver' \in [Modes -> ReceiverTypes]
  BY StartTypes
<1>2. reader' \in [Modes -> ReaderTypes]
  BY StartTypes
<1>3. [w \in Workers(m_settings) |-> "idle"] \in WorkerMaps(m_settings)
  <2>1. [w \in Workers(m_settings) |-> "idle"]
            \in [Workers(m_settings) -> {"idle", "sad", "process", "dead"}]
    OBVIOUS
  <2>. QED
    BY <2>1 DEF WorkerMaps
<1>4. pool' \in PoolTypes(m_settings)
  <2> DEFINE workers == [w \in Workers(m_settings) |-> "idle"]
  <2>1. pool' = [queue |-> <<>>, mutex |-> "free", worker |-> workers, emojis |-> EMOJIS]
    BY DEF NoPool
  <2>2. workers \in WorkerMaps(m_settings)
    BY <1>3
  <2>3. <<>> \in Seq(Peers \X Nat) /\ EMOJIS \in SUBSET (EMOJIS \cup {"sad"})
    OBVIOUS
  <2> HIDE DEF workers, Listen
  <2>. QED
    BY <2>1, <2>2, <2>3 DEF PoolTypes
<1>5. \A m \in Modes : ReceiverStage(m)'
  BY DEF ReceiverStage, Receiving, NoReceiver
<1>6. \A m \in Modes : ReaderStage(m)'
  BY OptionsAssumption DEF ReaderStage, Reading, NoReader, Cases, TypeInv
<1>. QED
  BY <1>1, <1>2, <1>4, <1>5, <1>6 DEF TypeInv

(* A step of a thread.                                                     *)
Running == TypeInv /\ main = "wait" /\ UNCHANGED <<m_settings, main>>

LEMMA AnotherReceiver ==
    ASSUME Running, NEW m \in Modes, NEW r \in ReceiverTypes,
           receiver' = [receiver EXCEPT ![m] = r],
           r.pc \in {"count", "add", "insert"} => r.peer \in Peers,
           r.pc \in {"count", "add"} => r.id \in Nat,
           r.pc = "insert" => r.chunk # <<>>
    PROVE  receiver' \in [Modes -> ReceiverTypes] /\ \A n \in Modes : ReceiverStage(n)'
<1>1. receiver' \in [Modes -> ReceiverTypes]
  BY DEF Running, TypeInv
<1>2. ASSUME NEW n \in Modes PROVE ReceiverStage(n)'
  <2>1. CASE n = m
    BY <2>1 DEF Running, TypeInv, ReceiverStage
  <2>2. CASE n # m
    BY <2>2 DEF Running, TypeInv, ReceiverStage
  <2>. QED
    BY <2>1, <2>2
<1>. QED
  BY <1>1, <1>2

LEMMA AnotherReader ==
    ASSUME Running, NEW m \in Modes, NEW r \in ReaderTypes,
           reader' = [reader EXCEPT ![m] = r],
           reader[m].pc # "none",
           r.pc \in {"copy", "erase", "lock", "process", "sad"} => r.todo # <<>>,
           r.pc \in {"process", "sad"} => m = "Create2Threads"
    PROVE  reader' \in [Modes -> ReaderTypes] /\ \A n \in Modes : ReaderStage(n)'
<1>1. reader' \in [Modes -> ReaderTypes]
  BY DEF Running, TypeInv
<1>2. ASSUME NEW n \in Modes PROVE ReaderStage(n)'
  <2>1. CASE n = m
    BY <2>1 DEF Running, TypeInv, ReaderStage
  <2>2. CASE n # m
    BY <2>2 DEF Running, TypeInv, ReaderStage
  <2>. QED
    BY <2>1, <2>2
<1>. QED
  BY <1>1, <1>2

(* A field of a record is changed, one after the other.                    *)
LEMMA FieldsOfReceiver ==
    ASSUME TypeInv, NEW m \in Modes
    PROVE  /\ receiver[m] \in ReceiverTypes
           /\ \A pc : [receiver EXCEPT ![m].pc = pc] =
                          [receiver EXCEPT ![m] = [receiver[m] EXCEPT !.pc = pc]]
           /\ \A id : [receiver EXCEPT ![m].id = id] =
                          [receiver EXCEPT ![m] = [receiver[m] EXCEPT !.id = id]]
  BY DEF TypeInv

(* The same of a receiver that has inserted its chunk.                     *)
LEMMA InsertedReceiver ==
    ASSUME TypeInv, NEW m \in Modes
    PROVE  [receiver EXCEPT ![m].pc = "recv", ![m].peer = "none", ![m].chunk = <<>>]
               = [receiver EXCEPT ![m] =
                     [receiver[m] EXCEPT !.pc = "recv", !.peer = "none", !.chunk = <<>>]]
  BY DEF TypeInv, ReceiverTypes

(* ClientsRecv visits a client there is.                                   *)
LEMMA NextClient ==
    ASSUME TypeInv, NEW m \in Modes, Unvisited(m) # {}
    PROVE  Min(Unvisited(m)) \in Nat /\ net.m_clients[Min(Unvisited(m))] \in Peers
<1>1. PICK ids \in SUBSET Nat : IsFiniteSet(ids) /\ net.m_clients \in [ids -> Peers]
  BY DEF ClientMaps, TypeInv, NetTypes
<1>2. Unvisited(m) \in SUBSET Nat /\ Unvisited(m) \subseteq ids
  BY <1>1 DEF Unvisited
<1>3. Min(Unvisited(m)) \in Unvisited(m)
  BY <1>2, MinOfNumbers
<1>. QED
  BY <1>1, <1>2, <1>3

(* A step of a receiver.                                                   *)
LEMMA ReceiverTypeInv ==
    ASSUME Running, NEW m \in Modes, Receiver(m)
    PROVE  TypeInv'
<1> USE DEF At
<1>0. receiver[m] \in ReceiverTypes /\ ReceiverStage(m)
  BY DEF Running, TypeInv
<1>1. CASE AcceptNothing(m) \/ LogConnected(m) \/ RoundDone(m)
  <2>1. PICK r \in ReceiverTypes : receiver' = [receiver EXCEPT ![m] = r] /\ r.pc \in {"accept", "recv"}
    BY <1>1, StartTypes DEF AcceptNothing, LogConnected, RoundDone, Loop
  <2>2. receiver' \in [Modes -> ReceiverTypes] /\ \A n \in Modes : ReceiverStage(n)'
    BY <2>1, AnotherReceiver
  <2>. QED
    BY <1>1, <2>2 DEF AcceptNothing, LogConnected, RoundDone, Running, TypeInv, ReaderStage
<1>2. ASSUME NEW p \in Peers, Accept(m, p) PROVE TypeInv'
  <2>1. [pc |-> "count", peer |-> p, id |-> net.counter, chunk |-> <<>>] \in ReceiverTypes /\ net.counter \in Nat
    BY DEF Running, TypeInv, NetTypes, ReceiverTypes
  <2>2. receiver' \in [Modes -> ReceiverTypes] /\ \A n \in Modes : ReceiverStage(n)'
    BY <1>2, <2>1, AnotherReceiver DEF Accept
  <2>3. net' \in NetTypes
    BY <1>2 DEF Accept, Running, TypeInv, NetTypes
  <2>. QED
    BY <1>2, <2>2, <2>3 DEF Accept, Running, TypeInv, ReaderStage
<1>3. CASE Count(m)
  <2> DEFINE r == [receiver[m] EXCEPT !.pc = "add"]
  <2>1. r \in ReceiverTypes /\ r.pc = "add" /\ r.peer \in Peers /\ r.id \in Nat
    BY <1>0, <1>3 DEF Count, ReceiverTypes, ReceiverStage
  <2>2. receiver' = [receiver EXCEPT ![m] = r]
    BY <1>3, FieldsOfReceiver DEF Count, Running
  <2>3. receiver' \in [Modes -> ReceiverTypes] /\ \A n \in Modes : ReceiverStage(n)'
    <3> HIDE DEF r
    <3>. QED
      BY <2>1, <2>2, AnotherReceiver
  <2>4. net' \in NetTypes
    BY <1>3, <2>1 DEF Count, Running, TypeInv, NetTypes
  <2>. QED
    BY <1>3, <2>3, <2>4 DEF Count, Running, TypeInv, ReaderStage
<1>4. CASE AddClient(m)
  <2> DEFINE r == [receiver[m] EXCEPT !.pc = "log"]
  <2>1. r \in ReceiverTypes /\ r.pc = "log"
    BY <1>0 DEF ReceiverTypes
  <2>2. receiver' = [receiver EXCEPT ![m] = r]
    BY <1>4, FieldsOfReceiver DEF AddClient, Running
  <2>3. receiver' \in [Modes -> ReceiverTypes] /\ \A n \in Modes : ReceiverStage(n)'
    <3> HIDE DEF r
    <3>. QED
      BY <2>1, <2>2, AnotherReceiver
  <2> DEFINE clients == InsertOrAssign(net.m_clients, receiver[m].id, receiver[m].peer)
  <2>4. clients \in ClientMaps
    <3>1. PICK ids \in SUBSET Nat : IsFiniteSet(ids) /\ net.m_clients \in [ids -> Peers]
      BY DEF ClientMaps, Running, TypeInv, NetTypes
    <3>2. receiver[m].id \in Nat /\ receiver[m].peer \in Peers
      BY <1>0, <1>4 DEF AddClient, ReceiverStage
    <3>3. clients \in [ids \cup {receiver[m].id} -> Peers]
      BY <3>1, <3>2 DEF InsertOrAssign
    <3>4. IsFiniteSet(ids \cup {receiver[m].id}) /\ ids \cup {receiver[m].id} \in SUBSET Nat
      BY <3>1, <3>2, FS_AddElement
    <3> HIDE DEF clients
    <3>. QED
      BY <3>3, <3>4 DEF ClientMaps
  <2>5. net' = [net EXCEPT !.m_clients = clients]
    BY <1>4 DEF AddClient
  <2>6. net' \in NetTypes
    <3> HIDE DEF clients
    <3>. QED
      BY <2>4, <2>5 DEF Running, TypeInv, NetTypes
  <2>. QED
    BY <1>4, <2>3, <2>6 DEF AddClient, Running, TypeInv, ReaderStage
<1>5. CASE RecvNothing(m)
  <2>1. PICK id \in Nat : receiver' = [receiver EXCEPT ![m].id = id]
    BY <1>5, NextClient DEF RecvNothing, Running
  <2> DEFINE r == [receiver[m] EXCEPT !.id = id]
  <2>2. r \in ReceiverTypes /\ r.pc = "recv"
    BY <1>0, <1>5 DEF RecvNothing, ReceiverTypes
  <2>3. receiver' = [receiver EXCEPT ![m] = r]
    BY <2>1, FieldsOfReceiver DEF Running
  <2>4. receiver' \in [Modes -> ReceiverTypes] /\ \A n \in Modes : ReceiverStage(n)'
    <3> HIDE DEF r
    <3>. QED
      BY <2>2, <2>3, AnotherReceiver
  <2>. QED
    BY <1>5, <2>4 DEF RecvNothing, Running, TypeInv, ReaderStage
<1>6. CASE Recv(m)
  <2>1. PICK id \in Nat, p \in Peers :
            /\ net.wire[p] # <<>>
            /\ receiver' = [receiver EXCEPT ![m] =
                                [pc |-> "insert", peer |-> p, id |-> id, chunk |-> net.wire[p]]]
            /\ net' = [net EXCEPT !.wire[p] = <<>>]
    BY <1>6, NextClient DEF Recv, Running
  <2>2. net.wire[p] \in Seq(Nat) /\ <<>> \in Seq(Nat)
    BY DEF Running, TypeInv, NetTypes, Buffers
  <2> DEFINE r == [pc |-> "insert", peer |-> p, id |-> id, chunk |-> net.wire[p]]
  <2>3. r \in ReceiverTypes /\ r.pc = "insert" /\ r.peer \in Peers /\ r.chunk # <<>>
    BY <2>1, <2>2 DEF ReceiverTypes
  <2>4. receiver' \in [Modes -> ReceiverTypes] /\ \A n \in Modes : ReceiverStage(n)'
    <3>1. receiver' = [receiver EXCEPT ![m] = r]
      BY <2>1
    <3> HIDE DEF r
    <3>. QED
      BY <2>3, <3>1, AnotherReceiver
  <2>5. net' \in NetTypes
    BY <2>1, <2>2 DEF Running, TypeInv, NetTypes, Buffers
  <2>. QED
    BY <1>6, <2>4, <2>5 DEF Recv, Running, TypeInv, ReaderStage
<1>7. CASE Insert(m)
  <2>1. receiver[m].pc = "insert" /\ receiver[m].peer \in Peers /\ receiver[m].chunk \in Seq(Nat)
    BY <1>0, <1>7 DEF Insert, ReceiverStage, ReceiverTypes
  <2>2. net' \in NetTypes
    <3>1. net.buffer[receiver[m].peer] \in Seq(Nat)
      BY <2>1 DEF Running, TypeInv, NetTypes, Buffers
    <3>2. receiver[m].chunk \o net.buffer[receiver[m].peer] \in Seq(Nat)
      BY <2>1, <3>1
    <3>. QED
      BY <1>7, <2>1, <3>2 DEF Insert, Running, TypeInv, NetTypes, Buffers
  <2>3. log' \in LogTypes
    BY <1>7, <2>1 DEF Insert, Running, TypeInv, LogTypes
  <2> DEFINE r == [receiver[m] EXCEPT !.pc = "recv", !.peer = "none", !.chunk = <<>>]
  <2>4. r \in ReceiverTypes /\ r.pc = "recv"
    <3>1. <<>> \in Seq(Nat)
      OBVIOUS
    <3>. QED
      BY <1>0, <3>1 DEF ReceiverTypes
  <2>5. receiver' = [receiver EXCEPT ![m] = r]
    BY <1>7, InsertedReceiver DEF Insert, Running
  <2>6. receiver' \in [Modes -> ReceiverTypes] /\ \A n \in Modes : ReceiverStage(n)'
    <3> HIDE DEF r
    <3>. QED
      BY <2>4, <2>5, AnotherReceiver
  <2>. QED
    BY <1>7, <2>2, <2>3, <2>6 DEF Insert, Running, TypeInv, ReaderStage
<1>. QED
  BY <1>1, <1>2, <1>3, <1>4, <1>5, <1>6, <1>7 DEF Receiver

(* A peer's packet.                                                        *)
LEMMA SendTypeInv ==
    ASSUME Running, NEW p \in Peers, Send(p)
    PROVE  TypeInv'
<1>1. net.sent[p] + 1 \in Nat /\ Append(net.wire[p], net.sent[p] + 1) \in Seq(Nat)
  BY DEF Running, TypeInv, NetTypes, Buffers
<1>2. net' \in NetTypes
  BY <1>1 DEF Send, Running, TypeInv, NetTypes, Buffers
<1>. QED
  BY <1>2 DEF Send, Running, TypeInv, ReaderStage, ReceiverStage

LEMMA TailOfClients ==
    ASSUME NEW s \in Seq(Peers), s # <<>>
    PROVE  Head(s) \in Peers /\ Tail(s) \in Seq(Peers)
  OBVIOUS

LEMMA ContinueType ==
    ASSUME Running, NEW m \in Modes, reader[m].todo # <<>>, reader[m].pc # "none", Continue(m)
    PROVE  /\ reader' \in [Modes -> ReaderTypes] /\ \A n \in Modes : ReaderStage(n)'
           /\ reader'[m].pc \in {"get", "copy"}
<1> DEFINE left == Tail(reader[m].todo)
           r == [pc |-> IF left = <<>> THEN "get" ELSE "copy", todo |-> left, copy |-> <<>>]
<1>1. reader[m].todo \in Seq(Peers)
  BY DEF Running, TypeInv, ReaderTypes
<1>2. left \in Seq(Peers) /\ <<>> \in Seq(Nat)
  BY <1>1, TailOfClients
<1>3. /\ r \in ReaderTypes /\ r.pc \in {"get", "copy"}
      /\ r.pc = "copy" => r.todo # <<>>
  <2> HIDE DEF left
  <2>. QED
    BY <1>2 DEF ReaderTypes
<1>4. reader' = [reader EXCEPT ![m] = r]
  BY DEF Continue
<1> HIDE DEF r
<1>5. reader' \in [Modes -> ReaderTypes] /\ \A n \in Modes : ReaderStage(n)'
  BY <1>3, <1>4, AnotherReader
<1>6. reader'[m] = r
  BY <1>4 DEF Running, TypeInv
<1>. QED
  BY <1>3, <1>5, <1>6

ReaderPcs == {"none", "get", "copy", "erase", "lock", "process", "sad"}

(* What the steps of a reader change in reader: one of four things.        *)
LEMMA ReaderTo ==
    ASSUME Running, NEW m \in Modes, reader[m].pc # "none", NEW pc \in ReaderPcs,
           pc \in {"copy", "erase", "lock", "process", "sad"} => reader[m].todo # <<>>,
           pc \in {"process", "sad"} => m = "Create2Threads",
           \/ reader' = [reader EXCEPT ![m].pc = pc]
           \/ \E copy \in Seq(Nat) : reader' = [reader EXCEPT ![m].pc = pc, ![m].copy = copy]
           \/ \E copy \in Seq(Nat) : reader' = [reader EXCEPT ![m].copy = copy, ![m].pc = pc]
    PROVE  reader' \in [Modes -> ReaderTypes] /\ \A n \in Modes : ReaderStage(n)'
<1>1. reader[m] \in ReaderTypes /\ reader \in [Modes -> ReaderTypes]
  BY DEF Running, TypeInv
<1>2. PICK r \in ReaderTypes : reader' = [reader EXCEPT ![m] = r] /\ r.pc = pc /\ r.todo = reader[m].todo
  <2>1. CASE reader' = [reader EXCEPT ![m].pc = pc]
    <3> DEFINE r == [pc |-> pc, todo |-> reader[m].todo, copy |-> reader[m].copy]
    <3>1. r \in ReaderTypes /\ r.pc = pc /\ r.todo = reader[m].todo
      BY <1>1 DEF ReaderTypes, ReaderPcs
    <3>2. reader' = [reader EXCEPT ![m] = r]
      BY <1>1, <2>1 DEF ReaderTypes
    <3> HIDE DEF r
    <3>. QED
      BY <3>1, <3>2
  <2>2. CASE \E copy \in Seq(Nat) : reader' = [reader EXCEPT ![m].pc = pc, ![m].copy = copy]
    <3>0. PICK copy \in Seq(Nat) : reader' = [reader EXCEPT ![m].pc = pc, ![m].copy = copy]
      BY <2>2
    <3> DEFINE r == [pc |-> pc, todo |-> reader[m].todo, copy |-> copy]
    <3>1. r \in ReaderTypes /\ r.pc = pc /\ r.todo = reader[m].todo
      BY <1>1 DEF ReaderTypes, ReaderPcs
    <3>2. reader' = [reader EXCEPT ![m] = r]
      BY <1>1, <3>0 DEF ReaderTypes
    <3> HIDE DEF r
    <3>. QED
      BY <3>1, <3>2
  <2>3. CASE \E copy \in Seq(Nat) : reader' = [reader EXCEPT ![m].copy = copy, ![m].pc = pc]
    <3>0. PICK copy \in Seq(Nat) : reader' = [reader EXCEPT ![m].copy = copy, ![m].pc = pc]
      BY <2>3
    <3> DEFINE r == [pc |-> pc, todo |-> reader[m].todo, copy |-> copy]
    <3>1. r \in ReaderTypes /\ r.pc = pc /\ r.todo = reader[m].todo
      BY <1>1 DEF ReaderTypes, ReaderPcs
    <3>2. reader' = [reader EXCEPT ![m] = r]
      BY <1>1, <3>0 DEF ReaderTypes
    <3> HIDE DEF r
    <3>. QED
      BY <3>1, <3>2
  <2>. QED
    BY <2>1, <2>2, <2>3
<1>. QED
  BY <1>2, AnotherReader

LEMMA ErasedType ==
    ASSUME NEW s \in Seq(Nat), NEW n \in Nat
    PROVE  Erased(s, n) \in Seq(Nat)
  BY DEF Erased

LEMMA HandleType ==
    ASSUME TypeInv, NEW p \in Peers, NEW frame \in Nat, Handle(p, frame)
    PROVE  log' \in LogTypes
<1>1. log \in LogTypes /\ log.handled[p] \in Seq(Nat)
  BY DEF TypeInv, LogTypes, Buffers
<1>2. Append(log.handled[p], frame) \in Seq(Nat)
  BY <1>1
<1>. QED
  BY <1>1, <1>2 DEF Handle, LogTypes, Buffers

(* A step of a reader.                                                     *)
LEMMA ReaderTypeInv ==
    ASSUME Running, NEW m \in Modes, ReaderStep(m)
    PROVE  TypeInv'
<1> USE DEF ReaderAt
<1>0. /\ reader[m] \in ReaderTypes /\ ReaderStage(m)
      /\ reader[m].todo \in Seq(Peers) /\ reader[m].copy \in Seq(Nat)
      /\ reader[m].todo # <<>> => Head(reader[m].todo) \in Peers
  BY TailOfClients DEF Running, TypeInv, ReaderTypes
<1>a. ASSUME reader' \in [Modes -> ReaderTypes] /\ \A n \in Modes : ReaderStage(n)',
             net' \in NetTypes, log' \in LogTypes, pool' \in PoolTypes(m_settings),
             UNCHANGED receiver
      PROVE  TypeInv'
  BY <1>a DEF Running, TypeInv, ReceiverStage
<1>b. net \in NetTypes /\ log \in LogTypes /\ pool \in PoolTypes(m_settings)
  BY DEF Running, TypeInv
<1>c. \A mutex \in {"free", "directReader", "worker"} :
          [pool EXCEPT !.mutex = mutex] \in PoolTypes(m_settings)
  BY <1>b DEF PoolTypes
<1>1. CASE GetClients(m)
  <2>1. net.m_clients \in ClientMaps
    BY <1>b DEF NetTypes
  <2>2. PICK todo \in Seq(Peers), pc \in {"get", "copy"} :
            /\ pc = "copy" => todo # <<>>
            /\ reader' = [reader EXCEPT ![m].todo = todo, ![m].pc = pc]
    BY <1>1, <2>1, InIdOrderType DEF GetClients
  <2> DEFINE r == [pc |-> pc, todo |-> todo, copy |-> reader[m].copy]
  <2>4. r \in ReaderTypes /\ r.pc = pc /\ r.todo = todo
    BY <1>0, <2>2 DEF ReaderTypes
  <2>5. reader' = [reader EXCEPT ![m] = r]
    <3>1. reader \in [Modes -> ReaderTypes] /\ reader[m] \in ReaderTypes
      BY DEF Running, TypeInv
    <3>2. PICK s : s = [reader[m] EXCEPT !.todo = todo]
      OBVIOUS
    <3>3. [s EXCEPT !.pc = pc] = r
      <4>1. PICK oldPc \in ReaderPcs, oldTodo \in Seq(Peers), oldCopy \in Seq(Nat) :
                reader[m] = [pc |-> oldPc, todo |-> oldTodo, copy |-> oldCopy]
        BY <3>1 DEF ReaderTypes, ReaderPcs
      <4>2. s = [pc |-> oldPc, todo |-> todo, copy |-> oldCopy] /\ reader[m].copy = oldCopy
        BY <3>2, <4>1
      <4>. QED
        BY <4>2
    <3>. QED
      BY <2>2, <3>1, <3>2, <3>3
  <2> HIDE DEF r
  <2>6. reader' \in [Modes -> ReaderTypes] /\ \A n \in Modes : ReaderStage(n)'
    BY <1>1, <2>2, <2>4, <2>5, AnotherReader DEF GetClients
  <2>. QED
    BY <1>1, <1>a, <1>b, <2>6 DEF GetClients
<1>2. CASE CopyNothing(m)
  <2>1. reader' \in [Modes -> ReaderTypes] /\ \A n \in Modes : ReaderStage(n)'
    BY <1>0, <1>2, ContinueType DEF CopyNothing, ReaderStage
  <2>. QED
    BY <1>2, <1>a, <1>b, <2>1 DEF CopyNothing
<1>3. CASE Copy(m)
  <2>1. reader[m].todo # <<>>
    BY <1>0, <1>3 DEF Copy, ReaderStage
  <2>2. net.buffer[Head(reader[m].todo)] \in Seq(Nat)
    BY <1>0, <1>b, <2>1 DEF NetTypes, Buffers
  <2>3. reader' \in [Modes -> ReaderTypes] /\ \A n \in Modes : ReaderStage(n)'
    BY <1>3, <2>1, <2>2, ReaderTo DEF Copy, ReaderPcs
  <2>. QED
    BY <1>3, <1>a, <1>b, <2>3 DEF Copy
<1>4. CASE Erase(m)
  <2>1. reader[m].todo # <<>> /\ reader[m].pc = "erase"
    BY <1>0, <1>4 DEF Erase, ReaderStage
  <2>2. reader' \in [Modes -> ReaderTypes] /\ \A n \in Modes : ReaderStage(n)'
    BY <1>4, <2>1, ReaderTo DEF Erase, ReaderPcs
  <2>3. PICK p \in Peers : p = Head(reader[m].todo)
    BY <1>0, <2>1
  <2>4. net.buffer[p] \in Seq(Nat) /\ log.taken[p] \in Seq(Nat)
    BY <1>b DEF NetTypes, LogTypes, Buffers
  <2>5. Erased(net.buffer[p], Len(reader[m].copy)) \in Seq(Nat) /\ log.taken[p] \o reader[m].copy \in Seq(Nat)
    <3>1. Len(reader[m].copy) \in Nat
      BY <1>0
    <3>2. Erased(net.buffer[p], Len(reader[m].copy)) \in Seq(Nat)
      BY <2>4, <3>1, ErasedType
    <3>3. log.taken[p] \o reader[m].copy \in Seq(Nat)
      BY <1>0, <2>4
    <3>. QED
      BY <3>2, <3>3
  <2>6. net' \in NetTypes
    BY <1>4, <1>b, <2>3, <2>5 DEF Erase, NetTypes, Buffers
  <2>7. log' \in LogTypes
    BY <1>4, <1>b, <2>3, <2>5 DEF Erase, LogTypes, Buffers
  <2>. QED
    BY <1>4, <1>a, <1>b, <2>2, <2>6, <2>7 DEF Erase
<1>5. CASE Push(m)
  <2>1. reader' \in [Modes -> ReaderTypes] /\ \A n \in Modes : ReaderStage(n)'
    BY <1>0, <1>5, ContinueType DEF Push, ReaderStage
  <2>2. PICK p \in Peers : p = Head(reader[m].todo)
    BY <1>0, <1>5 DEF Push, ReaderStage
  <2> DEFINE pushed == [i \in DOMAIN reader[m].copy |-> <<p, reader[m].copy[i]>>]
  <2>3. pushed \in Seq(Peers \X Nat)
    <3>1. PICK copy \in Seq(Nat) : copy = reader[m].copy
      BY <1>0
    <3>2. \A i \in 1 .. Len(copy) : <<p, copy[i]>> \in Peers \X Nat
      OBVIOUS
    <3>3. [i \in 1 .. Len(copy) |-> <<p, copy[i]>>] \in Seq(Peers \X Nat)
      BY <3>2
    <3>4. DOMAIN copy = 1 .. Len(copy)
      OBVIOUS
    <3>5. pushed = [i \in 1 .. Len(copy) |-> <<p, copy[i]>>]
      BY <3>1, <3>4
    <3>. QED
      BY <3>3, <3>5
  <2>4. pool.queue \in Seq(Peers \X Nat)
    BY <1>b DEF PoolTypes
  <2>5. pool' = [pool EXCEPT !.queue = @ \o pushed]
    BY <1>5, <2>2 DEF Push
  <2> HIDE DEF pushed
  <2>6. pool.queue \o pushed \in Seq(Peers \X Nat)
    BY <2>3, <2>4
  <2>7. pool' \in PoolTypes(m_settings)
    BY <1>b, <2>5, <2>6 DEF PoolTypes
  <2>. QED
    BY <1>5, <1>a, <1>b, <2>1, <2>7 DEF Push
<1>6. CASE LockDirectly(m)
  <2>1. reader' \in [Modes -> ReaderTypes] /\ \A n \in Modes : ReaderStage(n)'
    BY <1>0, <1>6, ReaderTo DEF LockDirectly, ReaderPcs, ReaderStage
  <2>. QED
    BY <1>6, <1>a, <1>b, <1>c, <2>1 DEF LockDirectly
<1>7. CASE ProcessDirectly(m)
  <2>1. reader[m].todo # <<>> /\ m = "Create2Threads"
    BY <1>0, <1>7 DEF ProcessDirectly, ReaderStage
  <2>2. reader[m].copy # <<>> /\ Head(reader[m].copy) \in Nat /\ Tail(reader[m].copy) \in Seq(Nat)
    BY <1>0, <1>7 DEF ProcessDirectly
  <2>3. PICK pc \in {"sad", "process"} :
            reader' = [reader EXCEPT ![m].copy = Tail(reader[m].copy), ![m].pc = pc]
    BY <1>7 DEF ProcessDirectly
  <2>4. reader' \in [Modes -> ReaderTypes] /\ \A n \in Modes : ReaderStage(n)'
    BY <1>7, <2>1, <2>2, <2>3, ReaderTo DEF ProcessDirectly, ReaderPcs
  <2>5. log' \in LogTypes
    <3>1. Handle(Head(reader[m].todo), Head(reader[m].copy)) /\ Head(reader[m].todo) \in Peers
      BY <1>0, <1>7, <2>1 DEF ProcessDirectly
    <3>. QED
      BY <2>2, <3>1, HandleType DEF Running
  <2>. QED
    BY <1>7, <1>a, <1>b, <2>4, <2>5 DEF ProcessDirectly
<1>8. CASE AddSadDirectly(m)
  <2>1. reader' \in [Modes -> ReaderTypes] /\ \A n \in Modes : ReaderStage(n)'
    BY <1>0, <1>8, ReaderTo DEF AddSadDirectly, ReaderPcs, ReaderStage
  <2>2. pool' \in PoolTypes(m_settings)
    BY <1>b, <1>8 DEF AddSadDirectly, PoolTypes
  <2>. QED
    BY <1>8, <1>a, <1>b, <2>1, <2>2 DEF AddSadDirectly
<1>9. CASE UnlockDirectly(m)
  <2>1. reader' \in [Modes -> ReaderTypes] /\ \A n \in Modes : ReaderStage(n)'
    BY <1>0, <1>9, ContinueType DEF UnlockDirectly, ReaderStage
  <2>. QED
    BY <1>9, <1>a, <1>b, <1>c, <2>1 DEF UnlockDirectly
<1>10. CASE DirectReaderThrows(m)
  <2>1. reader' \in [Modes -> ReaderTypes] /\ \A n \in Modes : ReaderStage(n)'
    BY <1>0, <1>10, AnotherReader, StartTypes DEF DirectReaderThrows
  <2>. QED
    BY <1>10, <1>a, <1>b, <1>c, <2>1 DEF DirectReaderThrows
<1>. QED
  BY <1>1, <1>2, <1>3, <1>4, <1>5, <1>6, <1>7, <1>8, <1>9, <1>10 DEF ReaderStep

(* A step of a worker.                                                     *)
LEMMA WorkerTypeInv ==
    ASSUME Running, NEW w \in DOMAIN pool.worker, Worker(w)
    PROVE  TypeInv'
<1>b. net \in NetTypes /\ log \in LogTypes /\ pool \in PoolTypes(m_settings)
  BY DEF Running, TypeInv
<1>1. ASSUME pool' \in PoolTypes(m_settings), log' \in LogTypes, UNCHANGED <<net, receiver, reader>>
      PROVE  TypeInv'
  BY <1>1 DEF Running, TypeInv, ReceiverStage, ReaderStage
<1>2. \A pc \in {"idle", "sad", "process", "dead"} :
          [pool.worker EXCEPT ![w] = pc] \in WorkerMaps(m_settings)
  <2>1. pool.worker \in WorkerMaps(m_settings)
    BY <1>b DEF PoolTypes
  <2>2. PICK ids \in SUBSET Workers(m_settings) : pool.worker \in [ids -> {"idle", "sad", "process", "dead"}]
    BY <2>1 DEF WorkerMaps
  <2>3. \A pc \in {"idle", "sad", "process", "dead"} :
            [pool.worker EXCEPT ![w] = pc] \in [ids -> {"idle", "sad", "process", "dead"}]
    BY <2>2
  <2>. QED
    BY <2>3 DEF WorkerMaps
<1>3. CASE Pop(w)
  <2>1. PICK pc \in {"sad", "process"} :
            pool' = [pool EXCEPT !.queue = Tail(@), !.mutex = "worker", !.worker[w] = pc]
    BY <1>3 DEF Pop
  <2>2. pool.queue \in Seq(Peers \X Nat) /\ pool.queue # <<>>
    BY <1>b, <1>3 DEF Pop, PoolTypes
  <2>3. Tail(pool.queue) \in Seq(Peers \X Nat) /\ Head(pool.queue) \in Peers \X Nat
    BY <2>2
  <2>4. PICK workers \in WorkerMaps(m_settings) : workers = [pool.worker EXCEPT ![w] = pc]
    BY <1>2
  <2>5. pool' = [pool EXCEPT !.queue = Tail(@), !.mutex = "worker", !.worker = workers]
    BY <1>b, <2>1, <2>4 DEF PoolTypes
  <2>6. pool' \in PoolTypes(m_settings)
    BY <1>b, <2>3, <2>5 DEF PoolTypes
  <2>7. log' \in LogTypes
    BY <1>3, <2>3, HandleType DEF Pop, Running
  <2>. QED
    BY <1>1, <1>3, <2>6, <2>7 DEF Pop
<1>4. CASE AddSad(w)
  <2>1. PICK workers \in WorkerMaps(m_settings) : workers = [pool.worker EXCEPT ![w] = "process"]
    BY <1>2
  <2>2. pool' = [pool EXCEPT !.emojis = @ \cup {"sad"}, !.worker = workers]
    BY <1>b, <1>4, <2>1 DEF AddSad, PoolTypes
  <2>3. pool' \in PoolTypes(m_settings)
    BY <1>b, <2>2 DEF PoolTypes
  <2>. QED
    BY <1>1, <1>4, <1>b, <2>3 DEF AddSad
<1>5. ASSUME NEW pc \in {"idle", "dead"}, Finish(w, pc) PROVE TypeInv'
  <2>1. PICK workers \in WorkerMaps(m_settings) : workers = [pool.worker EXCEPT ![w] = pc]
    BY <1>2
  <2>2. pool' = [pool EXCEPT !.mutex = "free", !.worker = workers]
    BY <1>b, <1>5, <2>1 DEF Finish, PoolTypes
  <2>3. pool' \in PoolTypes(m_settings)
    BY <1>b, <2>2 DEF PoolTypes
  <2>. QED
    BY <1>1, <1>5, <1>b, <2>3 DEF Finish
<1>. QED
  BY <1>3, <1>4, <1>5 DEF Worker

LEMMA NextTypeInv == TypeInv /\ [Next]_vars => TypeInv'
<1> SUFFICES ASSUME TypeInv, [Next]_vars PROVE TypeInv'
  OBVIOUS
<1>1. CASE Listen
  BY <1>1, ListenTypeInv
<1>2. CASE ListenFails
  BY <1>2 DEF ListenFails, TypeInv, ReceiverStage, ReaderStage
<1>3. CASE Threads
  <2>1. Running
    BY <1>3 DEF Threads, Running
  <2>. QED
    BY <1>3, <2>1, SendTypeInv, ReceiverTypeInv, ReaderTypeInv, WorkerTypeInv DEF Threads
<1>4. CASE Race
  BY <1>4 DEF Race, TypeInv, ReceiverStage, ReaderStage
<1>5. CASE UNCHANGED vars
  BY <1>5 DEF vars, TypeInv, ReceiverStage, ReaderStage
<1>. QED
  BY <1>1, <1>2, <1>3, <1>4, <1>5 DEF Next

(***************************************************************************)
(* The types the proofs below rest on hold in every state: a thread deals  *)
(* with a peer and has a client left where it uses one, and only the reader *)
(* of Create2Threads runs handlers itself (server.cpp:73-140, 176-245).    *)
(***************************************************************************)
THEOREM TypeInvariant == Spec => []TypeInv
  BY InitTypeInv, NextTypeInv, PTL DEF Spec

-----------------------------------------------------------------------------
(***************************************************************************)
(* Sequences of frames, and the sets of their elements.                    *)
(***************************************************************************)

Increasing(s) == \A i, j \in DOMAIN s : i < j => s[i] < s[j]
Differing(s) == \A i, j \in DOMAIN s : i # j => s[i] # s[j]
Precedes(S, T) == \A x \in S, y \in T : x < y

LEMMA ElementsOfEmpty == ToSet(<<>>) = {} /\ Increasing(<<>>) /\ Differing(<<>>) /\ Len(<<>>) = 0
  BY DEF ToSet, Increasing, Differing

LEMMA Elements ==
    ASSUME NEW s \in Seq(Nat)
    PROVE  /\ ToSet(s) \subseteq Nat /\ Len(s) \in Nat
           /\ \A i \in 1 .. Len(s) : s[i] \in ToSet(s)
           /\ \A x \in ToSet(s) : \E i \in 1 .. Len(s) : s[i] = x
  BY DEF ToSet

LEMMA ElementsOfConcat ==
    ASSUME NEW s \in Seq(Nat), NEW t \in Seq(Nat)
    PROVE  /\ s \o t \in Seq(Nat)
           /\ ToSet(s \o t) = ToSet(s) \cup ToSet(t)
           /\ Len(s \o t) = Len(s) + Len(t)
<1>1. s \o t \in Seq(Nat) /\ Len(s \o t) = Len(s) + Len(t) /\ Len(s) \in Nat /\ Len(t) \in Nat
  OBVIOUS
<1>2. ASSUME NEW x \in ToSet(s \o t) PROVE x \in ToSet(s) \cup ToSet(t)
  <2>1. PICK i \in 1 .. Len(s) + Len(t) : (s \o t)[i] = x
    BY <1>1, <1>2, Elements
  <2>2. CASE i <= Len(s)
    BY <1>1, <2>1, <2>2, Elements
  <2>3. CASE i > Len(s)
    <3>1. i - Len(s) \in 1 .. Len(t) /\ (s \o t)[i] = t[i - Len(s)]
      BY <1>1, <2>1, <2>3
    <3>. QED
      BY <2>1, <3>1, Elements
  <2>. QED
    BY <1>1, <2>2, <2>3
<1>3. ASSUME NEW x \in ToSet(s) PROVE x \in ToSet(s \o t)
  <2>1. PICK i \in 1 .. Len(s) : s[i] = x
    BY <1>3, Elements
  <2>2. i \in 1 .. Len(s \o t) /\ (s \o t)[i] = x
    BY <1>1, <2>1
  <2>. QED
    BY <1>1, <2>2, Elements
<1>4. ASSUME NEW x \in ToSet(t) PROVE x \in ToSet(s \o t)
  <2>1. PICK i \in 1 .. Len(t) : t[i] = x
    BY <1>4, Elements
  <2>2. Len(s) + i \in 1 .. Len(s \o t) /\ (s \o t)[Len(s) + i] = x
    BY <1>1, <2>1
  <2>. QED
    BY <1>1, <2>2, Elements
<1>. QED
  BY <1>1, <1>2, <1>3, <1>4

LEMMA ElementsOfAppend ==
    ASSUME NEW s \in Seq(Nat), NEW x \in Nat
    PROVE  /\ Append(s, x) \in Seq(Nat)
           /\ ToSet(Append(s, x)) = ToSet(s) \cup {x}
           /\ Len(Append(s, x)) = Len(s) + 1
           /\ Increasing(s) /\ Precedes(ToSet(s), {x}) => Increasing(Append(s, x))
<1>1. Append(s, x) \in Seq(Nat) /\ Len(Append(s, x)) = Len(s) + 1 /\ Len(s) \in Nat
  OBVIOUS
<1>2. \A i \in 1 .. Len(s) : Append(s, x)[i] = s[i]
  OBVIOUS
<1>3. Append(s, x)[Len(s) + 1] = x
  OBVIOUS
<1>4. ToSet(Append(s, x)) = ToSet(s) \cup {x}
  BY <1>1, <1>2, <1>3 DEF ToSet
<1>5. ASSUME Increasing(s), Precedes(ToSet(s), {x}),
             NEW i \in 1 .. Len(s) + 1, NEW j \in 1 .. Len(s) + 1, i < j
      PROVE  Append(s, x)[i] < Append(s, x)[j]
  <2>1. i \in 1 .. Len(s) /\ Append(s, x)[i] = s[i] /\ s[i] \in ToSet(s)
    BY <1>1, <1>2, <1>5, Elements
  <2>2. CASE j = Len(s) + 1
    BY <1>3, <1>5, <2>1, <2>2 DEF Precedes
  <2>3. CASE j # Len(s) + 1
    BY <1>1, <1>2, <1>5, <2>1, <2>3 DEF Increasing
  <2>. QED
    BY <2>2, <2>3
<1>. QED
  BY <1>1, <1>4, <1>5 DEF Increasing

LEMMA ElementsOfErased ==
    ASSUME NEW s \in Seq(Nat), NEW n \in Nat
    PROVE  /\ Erased(s, n) \in Seq(Nat)
           /\ ToSet(Erased(s, n)) \subseteq ToSet(s)
           /\ Len(Erased(s, n)) + n >= Len(s) /\ Len(Erased(s, n)) <= Len(s)
           /\ Len(s) <= n => Erased(s, n) = <<>>
           /\ Increasing(s) => Increasing(Erased(s, n))
           /\ Differing(s) => Differing(Erased(s, n))
<1> DEFINE e == Erased(s, n)
<1>1. e \in Seq(Nat) /\ Len(e) = (IF n + 1 <= Len(s) THEN Len(s) - n ELSE 0) /\ Len(s) \in Nat
  BY DEF Erased
<1>2. \A i \in 1 .. Len(e) : i + n \in 1 .. Len(s) /\ e[i] = s[i + n]
  BY <1>1 DEF Erased
<1>3. DOMAIN e = 1 .. Len(e) /\ DOMAIN s = 1 .. Len(s) /\ Len(e) \in Nat
  BY <1>1
<1>4. Len(s) <= n => e = <<>>
  BY <1>1
<1> HIDE DEF e
<1>5. ToSet(e) \subseteq ToSet(s)
  BY <1>2, <1>3 DEF ToSet
<1>6. ASSUME Increasing(s), NEW i \in 1 .. Len(e), NEW j \in 1 .. Len(e), i < j
      PROVE  e[i] < e[j]
  <2>1. i + n \in DOMAIN s /\ j + n \in DOMAIN s /\ i + n < j + n
    BY <1>2, <1>3, <1>6
  <2>. QED
    BY <1>2, <1>6, <2>1 DEF Increasing
<1>7. ASSUME Differing(s), NEW i \in 1 .. Len(e), NEW j \in 1 .. Len(e), i # j
      PROVE  e[i] # e[j]
  <2>1. i + n \in DOMAIN s /\ j + n \in DOMAIN s /\ i + n # j + n
    BY <1>2, <1>3, <1>7
  <2>. QED
    BY <1>2, <1>7, <2>1 DEF Differing
<1>8. Len(e) + n >= Len(s) /\ Len(e) <= Len(s)
  <2>1. PICK k \in Nat, l \in Nat : k = Len(s) /\ l = Len(e)
    BY <1>1, <1>3
  <2>2. l = (IF n + 1 <= k THEN k - n ELSE 0)
    BY <1>1, <2>1
  <2>3. l + n >= k /\ l <= k
    BY <2>2
  <2>. QED
    BY <2>1, <2>3
<1>9. (Increasing(s) => Increasing(e)) /\ (Differing(s) => Differing(e))
  BY <1>3, <1>6, <1>7 DEF Increasing, Differing
<1>. QED
  BY <1>1, <1>4, <1>5, <1>8, <1>9 DEF e

LEMMA ElementsOfTail ==
    ASSUME NEW s \in Seq(Nat), s # <<>>
    PROVE  /\ Tail(s) \in Seq(Nat) /\ Head(s) \in ToSet(s)
           /\ ToSet(Tail(s)) \subseteq ToSet(s)
           /\ Increasing(s) => Increasing(Tail(s)) /\ Precedes({Head(s)}, ToSet(Tail(s)))
<1>1. Tail(s) \in Seq(Nat) /\ Len(Tail(s)) = Len(s) - 1 /\ Len(s) \in Nat \ {0}
  OBVIOUS
<1>2. \A i \in 1 .. Len(s) - 1 : Tail(s)[i] = s[i + 1] /\ i + 1 \in 1 .. Len(s)
  OBVIOUS
<1>3. DOMAIN Tail(s) = 1 .. Len(s) - 1 /\ DOMAIN s = 1 .. Len(s)
  BY <1>1
<1>4. Head(s) = s[1]
  OBVIOUS
<1>5. Head(s) \in ToSet(s)
  BY <1>1, <1>3, <1>4 DEF ToSet
<1>6. ToSet(Tail(s)) \subseteq ToSet(s)
  BY <1>2, <1>3 DEF ToSet
<1>7. ASSUME Increasing(s) PROVE Increasing(Tail(s))
  <2>1. ASSUME NEW i \in 1 .. Len(s) - 1, NEW j \in 1 .. Len(s) - 1, i < j
        PROVE  s[i + 1] < s[j + 1]
    BY <1>1, <1>2, <1>3, <1>7, <2>1 DEF Increasing
  <2>. QED
    BY <1>2, <1>3, <2>1 DEF Increasing
<1>8. ASSUME Increasing(s), NEW y \in ToSet(Tail(s)) PROVE Head(s) < y
  <2>1. PICK i \in 1 .. Len(s) - 1 : Tail(s)[i] = y
    BY <1>3, <1>8 DEF ToSet
  <2>. QED
    BY <1>1, <1>2, <1>3, <1>4, <1>8, <2>1 DEF Increasing
<1>. QED
  BY <1>1, <1>5, <1>6, <1>7, <1>8 DEF Precedes

LEMMA DifferingConcat ==
    ASSUME NEW s \in Seq(Nat), NEW t \in Seq(Nat), Increasing(s), Differing(t),
           ToSet(s) \cap ToSet(t) = {}
    PROVE  Differing(s \o t)
<1> DEFINE c == s \o t
<1>1. /\ c \in Seq(Nat) /\ Len(c) = Len(s) + Len(t) /\ Len(s) \in Nat /\ Len(t) \in Nat
      /\ DOMAIN c = 1 .. Len(s) + Len(t)
  OBVIOUS
<1>2. \A i \in 1 .. Len(s) + Len(t) :
          IF i <= Len(s) THEN c[i] = s[i] /\ s[i] \in ToSet(s) /\ i \in DOMAIN s
                         ELSE c[i] = t[i - Len(s)] /\ t[i - Len(s)] \in ToSet(t) /\ i - Len(s) \in DOMAIN t
  BY <1>1, Elements
<1> HIDE DEF c
<1>3. ASSUME NEW i \in 1 .. Len(s) + Len(t), NEW j \in 1 .. Len(s) + Len(t), i < j
      PROVE  c[i] # c[j]
  <2>1. CASE j <= Len(s)
    <3>1. c[i] = s[i] /\ c[j] = s[j] /\ i \in DOMAIN s /\ j \in DOMAIN s
      BY <1>1, <1>2, <1>3, <2>1
    <3>2. s[i] < s[j] /\ s[i] \in Nat /\ s[j] \in Nat
      BY <1>3, <3>1 DEF Increasing
    <3>. QED
      BY <3>1, <3>2
  <2>2. CASE i <= Len(s) /\ j > Len(s)
    BY <1>1, <1>2, <2>2
  <2>3. CASE i > Len(s)
    <3>1. c[i] = t[i - Len(s)] /\ c[j] = t[j - Len(s)] /\ i - Len(s) \in DOMAIN t /\ j - Len(s) \in DOMAIN t
      BY <1>1, <1>2, <1>3, <2>3
    <3>. QED
      BY <1>1, <1>3, <3>1 DEF Differing
  <2>. QED
    BY <1>1, <2>1, <2>2, <2>3
<1>4. \A i, j \in 1 .. Len(s) + Len(t) : i # j => c[i] # c[j]
  BY <1>1, <1>3
<1>. QED
  BY <1>1, <1>4 DEF Differing, c

-----------------------------------------------------------------------------
(***************************************************************************)
(* Where the frames of one peer are, as a matter of sequences alone.  All  *)
(* its frames are on their way, held by a receiver, buffered or taken;     *)
(* what a reader has copied is remembered, as it will be taken.            *)
(***************************************************************************)

Inside(buffer, taken, copied) == ToSet(buffer) \cup ToSet(taken) \cup copied

(* The n frames sent are among the counted ones.                           *)
Accounted(n, wire, one, other, buffer, taken) == n <= wire + one + other + buffer + taken

(* No frame is in two places but the buffer and what is taken; those on    *)
(* the way follow the others; a receiver's chunk precedes, or follows, the *)
(* other receiver's; and none of the n sent is missing, if the ones read   *)
(* more than once are counted each time.                                   *)
Flowing(n, wire, held, buffer, taken, copied) ==
    /\ ToSet(wire) \cup Inside(buffer, taken, copied) \subseteq 1 .. n
    /\ Increasing(wire) /\ Differing(buffer)
    /\ Precedes(Inside(buffer, taken, copied), ToSet(wire))
    /\ \A m \in Modes :
           /\ ToSet(held[m]) \subseteq 1 .. n
           /\ Increasing(held[m])
           /\ Precedes(ToSet(held[m]), ToSet(wire))
           /\ Inside(buffer, taken, copied) \cap ToSet(held[m]) = {}
    /\ \A m, k \in Modes :
           m # k => \/ Precedes(ToSet(held[m]), ToSet(held[k]))
                    \/ Precedes(ToSet(held[k]), ToSet(held[m]))
    /\ Accounted(n, Len(wire), Len(held["Create2Threads"]), Len(held["Multithreaded"]),
                 Len(buffer), Len(taken))

(* What receivers hold follows all that was buffered before.               *)
Following(held, buffer, taken, copied) ==
    \A m \in Modes : Precedes(Inside(buffer, taken, copied), ToSet(held[m]))

(* Less of what was copied is remembered, or some more of the buffer.      *)
LEMMA FlowsOn ==
    ASSUME NEW n, NEW wire, NEW held, NEW buffer, NEW taken, NEW copied, NEW remembered,
           Flowing(n, wire, held, buffer, taken, copied),
           remembered \subseteq copied \cup ToSet(buffer)
    PROVE  /\ Flowing(n, wire, held, buffer, taken, remembered)
           /\ Following(held, buffer, taken, copied) => Following(held, buffer, taken, remembered)
<1>1. Inside(buffer, taken, remembered) \subseteq Inside(buffer, taken, copied)
  BY DEF Inside
<1> USE DEF Precedes
<1>2. Following(held, buffer, taken, copied) => Following(held, buffer, taken, remembered)
  BY <1>1 DEF Following
<1>3. Flowing(n, wire, held, buffer, taken, remembered)
  BY <1>1 DEF Flowing
<1>. QED
  BY <1>2, <1>3

(* The peer sends a frame, the next number.                                *)
LEMMA FlowsWhenSent ==
    ASSUME NEW n \in Nat, NEW wire \in Seq(Nat), NEW held \in [Modes -> Seq(Nat)],
           NEW buffer \in Seq(Nat), NEW taken \in Seq(Nat), NEW copied,
           Flowing(n, wire, held, buffer, taken, copied)
    PROVE  Flowing(n + 1, Append(wire, n + 1), held, buffer, taken, copied)
<1> DEFINE longer == Append(wire, n + 1)
<1>0. n + 1 \in Nat
  OBVIOUS
<1>1. /\ ToSet(longer) = ToSet(wire) \cup {n + 1} /\ Len(longer) = Len(wire) + 1
      /\ Increasing(wire) /\ Precedes(ToSet(wire), {n + 1}) => Increasing(longer)
  BY <1>0, ElementsOfAppend
<1> HIDE DEF longer
<1>2. \A S : S \subseteq 1 .. n => S \subseteq 1 .. n + 1 /\ Precedes(S, {n + 1})
  BY DEF Precedes
<1>3. ToSet(wire) \subseteq 1 .. n /\ Inside(buffer, taken, copied) \subseteq 1 .. n
  BY DEF Flowing
<1>4. Increasing(longer)
  BY <1>1, <1>2, <1>3 DEF Flowing
<1>5. ToSet(longer) \cup Inside(buffer, taken, copied) \subseteq 1 .. n + 1
  BY <1>1, <1>2, <1>3
<1>6. \A S : Precedes(S, ToSet(wire)) /\ S \subseteq 1 .. n => Precedes(S, ToSet(longer))
  BY <1>1, <1>2 DEF Precedes
<1>7. Accounted(n + 1, Len(longer), Len(held["Create2Threads"]), Len(held["Multithreaded"]), Len(buffer), Len(taken))
  <2>1. /\ Len(wire) \in Nat /\ Len(held["Create2Threads"]) \in Nat /\ Len(held["Multithreaded"]) \in Nat
        /\ Len(buffer) \in Nat /\ Len(taken) \in Nat
    BY DEF Modes
  <2>2. Accounted(n, Len(wire), Len(held["Create2Threads"]), Len(held["Multithreaded"]), Len(buffer), Len(taken))
    BY DEF Flowing
  <2>3. PICK w \in Nat, one \in Nat, other \in Nat, b \in Nat, t \in Nat :
            /\ w = Len(wire) /\ one = Len(held["Create2Threads"]) /\ other = Len(held["Multithreaded"])
            /\ b = Len(buffer) /\ t = Len(taken)
    BY <2>1
  <2>4. Accounted(n + 1, w + 1, one, other, b, t)
    <3>1. Accounted(n, w, one, other, b, t)
      BY <2>2, <2>3
    <3>. QED
      BY <3>1 DEF Accounted
  <2>. QED
    BY <1>1, <2>3, <2>4
<1>8. \A m \in Modes : /\ ToSet(held[m]) \subseteq 1 .. n + 1
                       /\ Precedes(ToSet(held[m]), ToSet(longer))
  BY <1>2, <1>6 DEF Flowing
<1>9. Precedes(Inside(buffer, taken, copied), ToSet(longer))
  BY <1>3, <1>6 DEF Flowing
<1>. QED
  BY <1>4, <1>5, <1>7, <1>8, <1>9 DEF Flowing, longer

(* A receiver takes the frames that are on their way.                      *)
LEMMA FlowsWhenReceived ==
    ASSUME NEW n \in Nat, NEW wire \in Seq(Nat), NEW held \in [Modes -> Seq(Nat)],
           NEW buffer \in Seq(Nat), NEW taken \in Seq(Nat), NEW copied,
           Flowing(n, wire, held, buffer, taken, copied),
           NEW m \in Modes, held[m] = <<>>
    PROVE  /\ Flowing(n, <<>>, [held EXCEPT ![m] = wire], buffer, taken, copied)
           /\ Following(held, buffer, taken, copied)
                  => Following([held EXCEPT ![m] = wire], buffer, taken, copied)
<1> DEFINE now == [held EXCEPT ![m] = wire]
<1>1. now[m] = wire /\ \A k \in Modes \ {m} : now[k] = held[k]
  OBVIOUS
<1>2. \A S : Precedes(S, {})
  BY DEF Precedes
<1>3. ToSet(<<>>) = {} /\ Increasing(<<>>) /\ Len(<<>>) = 0
  BY ElementsOfEmpty
<1>4. Following(held, buffer, taken, copied) => Following(now, buffer, taken, copied)
  BY <1>1 DEF Following, Flowing
<1> HIDE DEF now
<1>5. Accounted(n, Len(<<>>), Len(now["Create2Threads"]), Len(now["Multithreaded"]), Len(buffer), Len(taken))
  <2>1. /\ Len(wire) \in Nat /\ Len(held["Create2Threads"]) \in Nat /\ Len(held["Multithreaded"]) \in Nat
        /\ Len(buffer) \in Nat /\ Len(taken) \in Nat
    BY DEF Modes
  <2>2. Accounted(n, Len(wire), Len(held["Create2Threads"]), Len(held["Multithreaded"]), Len(buffer), Len(taken))
    BY DEF Flowing
  <2>5. PICK w \in Nat, one \in Nat, other \in Nat, b \in Nat, t \in Nat :
            /\ w = Len(wire) /\ one = Len(held["Create2Threads"]) /\ other = Len(held["Multithreaded"])
            /\ b = Len(buffer) /\ t = Len(taken)
    BY <2>1
  <2>6. Accounted(n, w, one, other, b, t)
    BY <2>2, <2>5
  <2>3. CASE m = "Create2Threads"
    <3>1. /\ now["Create2Threads"] = wire /\ now["Multithreaded"] = held["Multithreaded"]
          /\ Len(held["Create2Threads"]) = 0
      BY <1>1, <1>3, <2>3 DEF Modes
    <3>2. one = 0 => Accounted(n, 0, w, other, b, t)
      BY <2>6 DEF Accounted
    <3>. QED
      BY <1>3, <2>5, <3>1, <3>2
  <2>4. CASE m = "Multithreaded"
    <3>1. /\ now["Multithreaded"] = wire /\ now["Create2Threads"] = held["Create2Threads"]
          /\ Len(held["Multithreaded"]) = 0
      BY <1>1, <1>3, <2>4 DEF Modes
    <3>2. other = 0 => Accounted(n, 0, one, w, b, t)
      BY <2>6 DEF Accounted
    <3>. QED
      BY <1>3, <2>5, <3>1, <3>2
  <2>. QED
    BY <2>3, <2>4 DEF Modes
<1>6. Inside(buffer, taken, copied) \cap ToSet(wire) = {}
  <2>1. Inside(buffer, taken, copied) \subseteq Nat /\ Precedes(Inside(buffer, taken, copied), ToSet(wire))
    BY DEF Flowing
  <2>. QED
    BY <2>1 DEF Precedes
<1>7. \A k \in Modes :
           /\ ToSet(now[k]) \subseteq 1 .. n
           /\ Increasing(now[k])
           /\ Inside(buffer, taken, copied) \cap ToSet(now[k]) = {}
  BY <1>1, <1>6 DEF Flowing
<1>8. \A l, k \in Modes :
           l # k => \/ Precedes(ToSet(now[l]), ToSet(now[k]))
                    \/ Precedes(ToSet(now[k]), ToSet(now[l]))
  BY <1>1 DEF Flowing, Modes
<1>9. Flowing(n, <<>>, now, buffer, taken, copied)
  BY <1>2, <1>3, <1>5, <1>7, <1>8 DEF Flowing
<1>. QED
  BY <1>4, <1>9 DEF now

(* A receiver puts its chunk in front of the buffer ...                    *)
LEMMA FlowsWhenInserted ==
    ASSUME NEW n \in Nat, NEW wire \in Seq(Nat), NEW held \in [Modes -> Seq(Nat)],
           NEW buffer \in Seq(Nat), NEW taken \in Seq(Nat), NEW copied,
           Flowing(n, wire, held, buffer, taken, copied),
           NEW m \in Modes
    PROVE  Flowing(n, wire, [held EXCEPT ![m] = <<>>], held[m] \o buffer, taken, copied)
<1> DEFINE now == [held EXCEPT ![m] = <<>>]
           more == held[m] \o buffer
<1>1. now[m] = <<>> /\ \A k \in Modes \ {m} : now[k] = held[k]
  OBVIOUS
<1>2. \A S : Precedes(S, {}) /\ Precedes({}, S)
  BY DEF Precedes
<1>3. ToSet(<<>>) = {} /\ Increasing(<<>>) /\ Len(<<>>) = 0
  BY ElementsOfEmpty
<1>4. /\ more \in Seq(Nat) /\ ToSet(more) = ToSet(held[m]) \cup ToSet(buffer)
      /\ Len(more) = Len(held[m]) + Len(buffer)
  BY ElementsOfConcat
<1>5. Differing(more)
  <2>1. ToSet(held[m]) \cap ToSet(buffer) = {} /\ Increasing(held[m]) /\ Differing(buffer)
    BY DEF Flowing, Inside
  <2>. QED
    BY <2>1, DifferingConcat
<1> HIDE DEF now, more
<1>6. Accounted(n, Len(wire), Len(now["Create2Threads"]), Len(now["Multithreaded"]), Len(more), Len(taken))
  <2>1. /\ Len(wire) \in Nat /\ Len(held["Create2Threads"]) \in Nat /\ Len(held["Multithreaded"]) \in Nat
        /\ Len(buffer) \in Nat /\ Len(taken) \in Nat
    BY DEF Modes
  <2>2. Accounted(n, Len(wire), Len(held["Create2Threads"]), Len(held["Multithreaded"]), Len(buffer), Len(taken))
    BY DEF Flowing
  <2>5. PICK w \in Nat, one \in Nat, other \in Nat, b \in Nat, t \in Nat :
            /\ w = Len(wire) /\ one = Len(held["Create2Threads"]) /\ other = Len(held["Multithreaded"])
            /\ b = Len(buffer) /\ t = Len(taken)
    BY <2>1
  <2>6. Accounted(n, w, one, other, b, t)
    BY <2>2, <2>5
  <2>3. CASE m = "Create2Threads"
    <3>1. /\ Len(now["Create2Threads"]) = 0 /\ now["Multithreaded"] = held["Multithreaded"]
          /\ Len(more) = Len(held["Create2Threads"]) + Len(buffer)
      BY <1>1, <1>3, <1>4, <2>3 DEF Modes
    <3>2. Accounted(n, w, 0, other, one + b, t)
      BY <2>6 DEF Accounted
    <3>. QED
      BY <1>3, <2>5, <3>1, <3>2
  <2>4. CASE m = "Multithreaded"
    <3>1. /\ Len(now["Multithreaded"]) = 0 /\ now["Create2Threads"] = held["Create2Threads"]
          /\ Len(more) = Len(held["Multithreaded"]) + Len(buffer)
      BY <1>1, <1>3, <1>4, <2>4 DEF Modes
    <3>2. Accounted(n, w, one, 0, other + b, t)
      BY <2>6 DEF Accounted
    <3>. QED
      BY <1>3, <2>5, <3>1, <3>2
  <2>. QED
    BY <2>3, <2>4 DEF Modes
<1>7. Inside(more, taken, copied) = Inside(buffer, taken, copied) \cup ToSet(held[m])
  BY <1>4 DEF Inside
<1>8. Precedes(Inside(more, taken, copied), ToSet(wire))
  BY <1>7 DEF Flowing, Precedes
<1>9. ToSet(wire) \cup Inside(more, taken, copied) \subseteq 1 .. n
  BY <1>7 DEF Flowing
<1>10. ASSUME NEW k \in Modes
       PROVE  /\ ToSet(now[k]) \subseteq 1 .. n
              /\ Increasing(now[k])
              /\ Precedes(ToSet(now[k]), ToSet(wire))
              /\ Inside(more, taken, copied) \cap ToSet(now[k]) = {}
  <2>1. CASE k = m
    BY <1>1, <1>2, <1>3, <2>1
  <2>2. CASE k # m
    <3>1. ToSet(held[m]) \cap ToSet(held[k]) = {}
      <4>1. ToSet(held[m]) \subseteq Nat /\ ToSet(held[k]) \subseteq Nat
        BY DEF Flowing
      <4>2. \/ Precedes(ToSet(held[m]), ToSet(held[k]))
            \/ Precedes(ToSet(held[k]), ToSet(held[m]))
        BY <2>2 DEF Flowing
      <4>. QED
        BY <4>1, <4>2 DEF Precedes
    <3>. QED
      BY <1>1, <1>7, <2>2, <3>1 DEF Flowing
  <2>. QED
    BY <2>1, <2>2
<1>11. \A l, k \in Modes :
           l # k => \/ Precedes(ToSet(now[l]), ToSet(now[k]))
                    \/ Precedes(ToSet(now[k]), ToSet(now[l]))
  BY <1>1, <1>2, <1>3 DEF Flowing
<1>12. Increasing(wire)
  BY DEF Flowing
<1>13. Flowing(n, wire, now, more, taken, copied)
  BY <1>5, <1>6, <1>8, <1>9, <1>10, <1>11, <1>12 DEF Flowing
<1>. QED
  BY <1>13 DEF now, more

(* ... that is empty, while no reader has a copy and the chunk precedes that *)
(* of the other receiver.                                                  *)
LEMMA FollowsWhenInserted ==
    ASSUME NEW n \in Nat, NEW wire \in Seq(Nat), NEW held \in [Modes -> Seq(Nat)],
           NEW taken \in Seq(Nat),
           Following(held, <<>>, taken, {}),
           NEW m \in Modes,
           \A k \in Modes \ {m} : Precedes(ToSet(held[m]), ToSet(held[k]))
    PROVE  Following([held EXCEPT ![m] = <<>>], held[m], taken, {})
<1> DEFINE now == [held EXCEPT ![m] = <<>>]
<1>1. now[m] = <<>> /\ \A k \in Modes \ {m} : now[k] = held[k]
  OBVIOUS
<1>2. ToSet(<<>>) = {}
  BY ElementsOfEmpty
<1>3. Inside(held[m], taken, {}) = Inside(<<>>, taken, {}) \cup ToSet(held[m])
  BY <1>2 DEF Inside
<1> HIDE DEF now
<1>4. Following(now, held[m], taken, {})
  BY <1>1, <1>2, <1>3 DEF Following, Precedes
<1>. QED
  BY <1>4 DEF now

(* A reader erases as much as it has copied, whatever is there by then.    *)
LEMMA FlowsWhenErased ==
    ASSUME NEW n \in Nat, NEW wire \in Seq(Nat), NEW held \in [Modes -> Seq(Nat)],
           NEW buffer \in Seq(Nat), NEW taken \in Seq(Nat), NEW copied,
           Flowing(n, wire, held, buffer, taken, copied),
           NEW copy \in Seq(Nat), ToSet(copy) \subseteq copied
    PROVE  /\ Flowing(n, wire, held, Erased(buffer, Len(copy)), taken \o copy, copied)
           /\ Following(held, buffer, taken, copied)
                  => Following(held, Erased(buffer, Len(copy)), taken \o copy, copied)
<1> DEFINE left == Erased(buffer, Len(copy))
           more == taken \o copy
<1>1. /\ left \in Seq(Nat) /\ ToSet(left) \subseteq ToSet(buffer)
      /\ Len(left) + Len(copy) >= Len(buffer) /\ (Differing(buffer) => Differing(left))
  <2>1. Len(copy) \in Nat
    OBVIOUS
  <2>. QED
    BY <2>1, ElementsOfErased
<1>2. more \in Seq(Nat) /\ ToSet(more) = ToSet(taken) \cup ToSet(copy) /\ Len(more) = Len(taken) + Len(copy)
  BY ElementsOfConcat
<1> HIDE DEF left, more
<1>3. Inside(left, more, copied) \subseteq Inside(buffer, taken, copied)
  BY <1>1, <1>2 DEF Inside
<1>4. Following(held, buffer, taken, copied) => Following(held, left, more, copied)
  BY <1>3 DEF Following, Precedes
<1>5. Accounted(n, Len(wire), Len(held["Create2Threads"]), Len(held["Multithreaded"]), Len(left), Len(more))
  <2>1. /\ Len(wire) \in Nat /\ Len(held["Create2Threads"]) \in Nat /\ Len(held["Multithreaded"]) \in Nat
        /\ Len(buffer) \in Nat /\ Len(taken) \in Nat /\ Len(left) \in Nat /\ Len(copy) \in Nat
    BY <1>1 DEF Modes
  <2>2. Accounted(n, Len(wire), Len(held["Create2Threads"]), Len(held["Multithreaded"]), Len(buffer), Len(taken))
    BY DEF Flowing
  <2>3. PICK w \in Nat, one \in Nat, other \in Nat, b \in Nat, t \in Nat :
            /\ w = Len(wire) /\ one = Len(held["Create2Threads"]) /\ other = Len(held["Multithreaded"])
            /\ b = Len(buffer) /\ t = Len(taken)
    BY <2>1
  <2>4. PICK l \in Nat, c \in Nat : l = Len(left) /\ c = Len(copy) /\ l + c >= b
    BY <1>1, <2>1, <2>3
  <2>5. Accounted(n, w, one, other, l, t + c)
    <3>1. Accounted(n, w, one, other, b, t)
      BY <2>2, <2>3
    <3>. QED
      BY <2>4, <3>1 DEF Accounted
  <2>. QED
    BY <1>2, <2>3, <2>4, <2>5
<1>6. Precedes(Inside(left, more, copied), ToSet(wire))
  BY <1>3 DEF Flowing, Precedes
<1>7. Differing(left)
  BY <1>1 DEF Flowing
<1>8. Flowing(n, wire, held, left, more, copied)
  BY <1>3, <1>5, <1>6, <1>7 DEF Flowing
<1>. QED
  BY <1>4, <1>8 DEF left, more

-----------------------------------------------------------------------------
(***************************************************************************)
(* The same of the server, and that its steps preserve it (server.cpp:73-  *)
(* 140, 176-245, server_socket.cpp:83-98).                                 *)
(***************************************************************************)

(* The frames of p that receiver m has read and not inserted.              *)
HeldBy(m, p) ==
    IF receiver[m].pc = "insert" /\ receiver[m].peer = p THEN receiver[m].chunk ELSE <<>>

Held(p) == [m \in Modes |-> HeldBy(m, p)]

(* Those reader m has copied and not erased.                               *)
CopiedBy(m, p) ==
    IF reader[m].pc = "erase" /\ Head(reader[m].todo) = p THEN ToSet(reader[m].copy) ELSE {}

Copied(p) == CopiedBy("Create2Threads", p) \cup CopiedBy("Multithreaded", p)

FlowInv(p) == Flowing(net.sent[p], net.wire[p], Held(p), net.buffer[p], log.taken[p], Copied(p))

FollowInv(p) == Following(Held(p), net.buffer[p], log.taken[p], Copied(p))

FlowTypes(p) ==
    /\ net.sent[p] \in Nat /\ net.wire[p] \in Seq(Nat) /\ Held(p) \in [Modes -> Seq(Nat)]
    /\ net.buffer[p] \in Seq(Nat) /\ log.taken[p] \in Seq(Nat)

LEMMA FlowType ==
    ASSUME TypeInv, NEW p \in Peers
    PROVE  FlowTypes(p)
<1>1. ASSUME NEW m \in Modes PROVE HeldBy(m, p) \in Seq(Nat)
  <2>1. receiver[m].chunk \in Seq(Nat) /\ <<>> \in Seq(Nat)
    BY DEF TypeInv, ReceiverTypes
  <2>. QED
    BY <2>1 DEF HeldBy
<1>2. Held(p) \in [Modes -> Seq(Nat)]
  BY <1>1 DEF Held
<1>. QED
  BY <1>2 DEF FlowTypes, TypeInv, NetTypes, LogTypes, Buffers

(* All that a step may do to the frames of p, to preserve the invariants.  *)
FlowKept(p) == FlowInv(p)' /\ (p \notin log.mixed' /\ FollowInv(p) => FollowInv(p)')

(* Steps that touch none of this, but that a reader may copy the buffer.   *)
LEMMA FlowsByItself ==
    ASSUME NEW p \in Peers, FlowInv(p),
           net'.sent[p] = net.sent[p], net'.wire[p] = net.wire[p], net'.buffer[p] = net.buffer[p],
           log'.taken[p] = log.taken[p], Held(p)' = Held(p),
           Copied(p)' \subseteq Copied(p) \cup ToSet(net.buffer[p])
    PROVE  FlowKept(p)
  BY FlowsOn DEF FlowInv, FollowInv, FlowKept

LEMMA InitFlow ==
    ASSUME Init, NEW p \in Peers
    PROVE  FlowInv(p) /\ FollowInv(p)
<1>1. \A m \in Modes : HeldBy(m, p) = <<>> /\ CopiedBy(m, p) = {}
  BY StartTypes DEF Init, HeldBy, CopiedBy
<1>2. Copied(p) = {} /\ \A m \in Modes : Held(p)[m] = <<>>
  BY <1>1 DEF Copied, Held, Modes
<1>3. net.sent[p] = 0 /\ net.wire[p] = <<>> /\ net.buffer[p] = <<>> /\ log.taken[p] = <<>>
  BY DEF Init, FreshNet
<1>4. Inside(<<>>, <<>>, {}) = {}
  BY ElementsOfEmpty DEF Inside
<1>5. \A S : Precedes({}, S)
  BY DEF Precedes
<1>6. Following(Held(p), <<>>, <<>>, {})
  BY <1>4, <1>5 DEF Following
<1>7. Accounted(0, Len(<<>>), Len(<<>>), Len(<<>>), Len(<<>>), Len(<<>>))
  BY ElementsOfEmpty DEF Accounted
<1>8. Flowing(0, <<>>, Held(p), <<>>, <<>>, {})
  BY <1>2, <1>4, <1>5, <1>7, ElementsOfEmpty DEF Flowing, Modes
<1>. QED
  BY <1>2, <1>3, <1>6, <1>8 DEF FlowInv, FollowInv

LEMMA ListenFlow ==
    ASSUME TypeInv, Listen, NEW p \in Peers, FlowInv(p)
    PROVE  FlowKept(p)
<1>1. ASSUME NEW m \in Modes PROVE HeldBy(m, p)' = HeldBy(m, p) /\ CopiedBy(m, p)' = {}
  BY StartTypes DEF Listen, HeldBy, CopiedBy, TypeInv, ReceiverStage
<1>2. Held(p)' = Held(p) /\ Copied(p)' = {}
  BY <1>1 DEF Held, Copied, Modes
<1>. QED
  BY <1>2, FlowsByItself DEF Listen

LEMMA SendFlow ==
    ASSUME Running, NEW q \in Peers, Send(q), NEW p \in Peers, FlowInv(p)
    PROVE  FlowKept(p)
<1>1. Held(p)' = Held(p) /\ Copied(p)' = Copied(p)
  BY DEF Send, Held, HeldBy, Copied, CopiedBy
<1>2. net \in NetTypes /\ log' = log
  BY DEF Send, Running, TypeInv
<1>3. net'.buffer[p] = net.buffer[p]
  BY <1>2 DEF Send, NetTypes
<1>4. CASE q = p
  <2>1. net'.sent[p] = net.sent[p] + 1 /\ net'.wire[p] = Append(net.wire[p], net.sent[p] + 1)
    BY <1>2, <1>4 DEF Send, NetTypes, Buffers
  <2>2. FlowTypes(p)
    BY FlowType DEF Running
  <2>3. FlowInv(p)'
    BY <1>1, <1>2, <1>3, <2>1, <2>2, FlowsWhenSent DEF FlowInv, FlowTypes
  <2>4. FollowInv(p) => FollowInv(p)'
    BY <1>1, <1>2, <1>3 DEF FollowInv
  <2>. QED
    BY <2>3, <2>4 DEF FlowKept
<1>5. CASE q # p
  <2>1. net'.sent[p] = net.sent[p] /\ net'.wire[p] = net.wire[p]
    BY <1>2, <1>5 DEF Send, NetTypes, Buffers
  <2>. QED
    BY <1>1, <1>2, <1>3, <2>1, FlowsByItself
<1>. QED
  BY <1>4, <1>5

(* What a step of receiver m does to the frames of p it holds.             *)
LEMMA HeldNow ==
    ASSUME NEW m \in Modes, NEW p \in Peers,
           \A k \in Modes \ {m} : receiver'[k] = receiver[k]
    PROVE  Held(p)' = [Held(p) EXCEPT ![m] = HeldBy(m, p)']
<1>1. \A k \in Modes \ {m} : HeldBy(k, p)' = HeldBy(k, p)
  BY DEF HeldBy
<1>. QED
  BY <1>1 DEF Held

LEMMA HeldAsBefore ==
    ASSUME NEW m \in Modes, NEW p \in Peers,
           \A k \in Modes \ {m} : receiver'[k] = receiver[k],
           HeldBy(m, p)' = HeldBy(m, p)
    PROVE  Held(p)' = Held(p)
<1>1. \A k \in Modes : HeldBy(k, p)' = HeldBy(k, p)
  BY DEF HeldBy
<1>. QED
  BY <1>1 DEF Held

(* A chunk that does not overtake that of the other receiver.              *)
LEMMA NotOvertaken ==
    ASSUME Running, NEW m \in Modes, NEW p \in Peers, FlowInv(p),
           receiver[m].pc = "insert", receiver[m].peer = p, ~Overtakes(m, p),
           NEW k \in Modes \ {m}
    PROVE  Precedes(ToSet(Held(p)[m]), ToSet(Held(p)[k]))
<1>1. CASE receiver[k].pc = "insert" /\ receiver[k].peer = p
  <2>1. Held(p)[m] = receiver[m].chunk /\ Held(p)[k] = receiver[k].chunk
    BY <1>1 DEF Held, HeldBy
  <2>2. /\ receiver[m].chunk \in Seq(Nat) /\ receiver[m].chunk # <<>>
        /\ receiver[k].chunk \in Seq(Nat) /\ receiver[k].chunk # <<>>
    BY <1>1 DEF Running, TypeInv, ReceiverTypes, ReceiverStage
  <2>3. Head(receiver[m].chunk) \in ToSet(receiver[m].chunk) /\ Head(receiver[k].chunk) \in ToSet(receiver[k].chunk)
    BY <2>2, ElementsOfTail
  <2>4. ~(Head(receiver[k].chunk) < Head(receiver[m].chunk))
    BY <1>1 DEF Overtakes, At
  <2>5. \/ Precedes(ToSet(receiver[m].chunk), ToSet(receiver[k].chunk))
        \/ Precedes(ToSet(receiver[k].chunk), ToSet(receiver[m].chunk))
    BY <2>1 DEF FlowInv, Flowing
  <2>. QED
    BY <2>1, <2>3, <2>4, <2>5 DEF Precedes
<1>2. CASE ~(receiver[k].pc = "insert" /\ receiver[k].peer = p)
  <2>1. Held(p)[k] = <<>>
    BY <1>2 DEF Held, HeldBy
  <2>. QED
    BY <2>1, ElementsOfEmpty DEF Precedes
<1>. QED
  BY <1>1, <1>2

(* A step of a receiver: Recv and Insert move frames of one peer.          *)
LEMMA ReceiverFlow ==
    ASSUME Running, NEW m \in Modes, Receiver(m), NEW p \in Peers, FlowInv(p)
    PROVE  FlowKept(p)
<1> USE DEF At
<1>0. /\ receiver \in [Modes -> ReceiverTypes] /\ receiver[m] \in ReceiverTypes
      /\ net \in NetTypes /\ log \in LogTypes
  BY DEF Running, TypeInv
<1>1. reader' = reader /\ Copied(p)' = Copied(p)
  BY DEF Receiver, AcceptNothing, Accept, Count, AddClient, LogConnected, RecvNothing, Recv,
         Insert, RoundDone, Copied, CopiedBy
<1>2. \A k \in Modes \ {m} : receiver'[k] = receiver[k]
  BY <1>0 DEF Receiver, AcceptNothing, Accept, Count, AddClient, LogConnected, RecvNothing, Recv,
         Insert, RoundDone, Loop
<1>3. ASSUME AcceptNothing(m) \/ (\E q \in Peers : Accept(m, q)) \/ Count(m) \/ AddClient(m)
             \/ LogConnected(m) \/ RecvNothing(m) \/ RoundDone(m)
      PROVE  FlowKept(p)
  <2>1. receiver[m].pc # "insert" /\ receiver'[m].pc # "insert"
    BY <1>0, <1>3, StartTypes
       DEF AcceptNothing, Accept, Count, AddClient, LogConnected, RecvNothing, RoundDone, Loop, ReceiverTypes
  <2>2. Held(p)' = Held(p)
    <3>1. HeldBy(m, p)' = HeldBy(m, p)
      BY <2>1 DEF HeldBy
    <3>. QED
      BY <1>2, <3>1, HeldAsBefore
  <2>3. /\ net'.sent = net.sent /\ net'.wire = net.wire /\ net'.buffer = net.buffer
        /\ log' = log
    BY <1>0, <1>3 DEF AcceptNothing, Accept, Count, AddClient, LogConnected, RecvNothing, RoundDone, NetTypes
  <2>. QED
    BY <1>1, <2>2, <2>3, FlowsByItself
<1>4. CASE Recv(m)
  <2>1. PICK id \in Nat, q \in Peers :
            /\ net.wire[q] # <<>>
            /\ receiver' = [receiver EXCEPT ![m] =
                                [pc |-> "insert", peer |-> q, id |-> id, chunk |-> net.wire[q]]]
            /\ net' = [net EXCEPT !.wire[q] = <<>>]
    BY <1>4, NextClient DEF Recv, Running
  <2>2. /\ net'.sent = net.sent /\ net'.buffer = net.buffer /\ log' = log
        /\ net'.wire = [net.wire EXCEPT ![q] = <<>>]
    BY <1>0, <1>4, <2>1 DEF Recv, NetTypes
  <2>3. HeldBy(m, p) = <<>>
    BY <1>4 DEF Recv, HeldBy
  <2>4. HeldBy(m, p)' = IF q = p THEN net.wire[q] ELSE <<>>
    BY <1>0, <2>1 DEF HeldBy
  <2>5. CASE q = p
    <3>1. Held(p)' = [Held(p) EXCEPT ![m] = net.wire[p]]
      BY <1>2, <2>4, <2>5, HeldNow
    <3>2. net'.wire[p] = <<>>
      BY <1>0, <2>2, <2>5 DEF NetTypes, Buffers
    <3>3. FlowTypes(p) /\ Held(p)[m] = <<>>
      BY <2>3, FlowType DEF Running, Held
    <3>4. /\ Flowing(net.sent[p], <<>>, [Held(p) EXCEPT ![m] = net.wire[p]], net.buffer[p], log.taken[p], Copied(p))
          /\ FollowInv(p) => Following([Held(p) EXCEPT ![m] = net.wire[p]], net.buffer[p], log.taken[p], Copied(p))
      BY <3>3, FlowsWhenReceived DEF FlowInv, FollowInv, FlowTypes
    <3>5. FlowInv(p)' /\ (FollowInv(p) => FollowInv(p)')
      BY <1>1, <2>2, <3>1, <3>2, <3>4 DEF FlowInv, FollowInv
    <3>. QED
      BY <3>5 DEF FlowKept
  <2>6. CASE q # p
    <3>1. Held(p)' = Held(p)
      BY <1>2, <2>3, <2>4, <2>6, HeldAsBefore
    <3>2. net'.wire[p] = net.wire[p]
      BY <1>0, <2>2, <2>6 DEF NetTypes, Buffers
    <3>. QED
      BY <1>1, <2>2, <3>1, <3>2, FlowsByItself
  <2>. QED
    BY <2>5, <2>6
<1>5. CASE Insert(m)
  <2>1. PICK q \in Peers : q = receiver[m].peer
    BY <1>0, <1>5 DEF Insert, Running, TypeInv, ReceiverStage
  <2>2. /\ net'.sent = net.sent /\ net'.wire = net.wire /\ log'.taken = log.taken
        /\ net'.buffer = [net.buffer EXCEPT ![q] = receiver[m].chunk \o @]
    BY <1>0, <1>5, <2>1 DEF Insert, NetTypes, LogTypes
  <2>3. receiver'[m].pc = "recv"
    BY <1>0, <1>5 DEF Insert, ReceiverTypes
  <2>4. HeldBy(m, p)' = <<>> /\ HeldBy(m, p) = IF q = p THEN receiver[m].chunk ELSE <<>>
    BY <1>5, <2>1, <2>3 DEF Insert, HeldBy
  <2>5. CASE q = p
    <3>1. Held(p)' = [Held(p) EXCEPT ![m] = <<>>]
      BY <1>2, <2>4, HeldNow
    <3>2. net'.buffer[p] = Held(p)[m] \o net.buffer[p]
      BY <1>0, <2>2, <2>4, <2>5 DEF NetTypes, Buffers, Held
    <3>3. FlowTypes(p)
      BY FlowType DEF Running
    <3>4. FlowInv(p)'
      <4>1. Flowing(net.sent[p], net.wire[p], [Held(p) EXCEPT ![m] = <<>>], Held(p)[m] \o net.buffer[p],
                    log.taken[p], Copied(p))
        BY <3>3, FlowsWhenInserted DEF FlowInv, FlowTypes
      <4>. QED
        BY <1>1, <2>2, <3>1, <3>2, <4>1 DEF FlowInv
    <3>5. ASSUME p \notin log.mixed', FollowInv(p) PROVE FollowInv(p)'
      <4>1. net.buffer[p] = <<>> /\ ~Parsing(p) /\ ~Overtakes(m, p)
        BY <1>0, <1>5, <2>1, <2>5, <3>5 DEF Insert, LogTypes
      <4>2. Copied(p) = {}
        BY <4>1 DEF Parsing, ReaderAt, Copied, CopiedBy, Modes
      <4>3. Held(p)[m] \o net.buffer[p] = Held(p)[m]
        BY <3>3, <4>1 DEF FlowTypes
      <4>4. \A k \in Modes \ {m} : Precedes(ToSet(Held(p)[m]), ToSet(Held(p)[k]))
        BY <1>5, <2>1, <2>4, <2>5, <3>3, <4>1, NotOvertaken DEF Insert
      <4>5. Following(Held(p), <<>>, log.taken[p], {})
        BY <3>5, <4>1, <4>2 DEF FollowInv
      <4>6. Following([Held(p) EXCEPT ![m] = <<>>], Held(p)[m], log.taken[p], {})
        BY <3>3, <4>4, <4>5, FollowsWhenInserted DEF FlowTypes
      <4>. QED
        BY <1>1, <2>2, <3>1, <3>2, <4>2, <4>3, <4>6 DEF FollowInv
    <3>. QED
      BY <3>4, <3>5 DEF FlowKept
  <2>6. CASE q # p
    <3>1. Held(p)' = Held(p)
      BY <1>2, <2>4, <2>6, HeldAsBefore
    <3>2. net'.buffer[p] = net.buffer[p]
      BY <1>0, <2>2, <2>6 DEF NetTypes, Buffers
    <3>. QED
      BY <1>1, <2>2, <3>1, <3>2, FlowsByItself
  <2>. QED
    BY <2>5, <2>6
<1>. QED
  BY <1>3, <1>4, <1>5 DEF Receiver

LEMMA CopiedNow ==
    ASSUME NEW m \in Modes, NEW p \in Peers,
           \A k \in Modes \ {m} : reader'[k] = reader[k],
           NEW S, CopiedBy(m, p)' \subseteq CopiedBy(m, p) \cup S
    PROVE  Copied(p)' \subseteq Copied(p) \cup S
<1>1. \A k \in Modes : CopiedBy(k, p)' \subseteq CopiedBy(k, p) \cup S
  BY DEF CopiedBy
<1>. QED
  BY <1>1 DEF Copied, Modes

LEMMA OtherReader ==
    ASSUME Running, NEW m \in Modes, ReaderStep(m)
    PROVE  \A k \in Modes \ {m} : reader'[k] = reader[k]
<1>1. reader \in [Modes -> ReaderTypes]
  BY DEF Running, TypeInv
<1>. QED
  BY <1>1 DEF ReaderStep, GetClients, CopyNothing, Copy, Erase, Push, LockDirectly, ProcessDirectly,
              AddSadDirectly, UnlockDirectly, DirectReaderThrows, Continue

(* The frames in the peers' connections and buffers, and those taken, are  *)
(* changed by Erase alone.                                                 *)
LEMMA ReaderLeaves ==
    ASSUME Running, NEW m \in Modes, ReaderStep(m)
    PROVE  /\ receiver' = receiver
           /\ Erase(m) \/ (net' = net /\ log'.taken = log.taken /\ log'.mixed = log.mixed)
<1>1. log \in LogTypes
  BY DEF Running, TypeInv
<1>. QED
  BY <1>1 DEF ReaderStep, GetClients, CopyNothing, Copy, Erase, Push, LockDirectly, ProcessDirectly,
              AddSadDirectly, UnlockDirectly, DirectReaderThrows, Handle, LogTypes

LEMMA ReaderCopies ==
    ASSUME Running, NEW m \in Modes, ReaderStep(m), NEW p \in Peers
    PROVE  Copied(p)' \subseteq Copied(p) \cup ToSet(net.buffer[p])
<1> USE DEF ReaderAt
<1>0. reader \in [Modes -> ReaderTypes] /\ reader[m] \in ReaderTypes /\ ReaderStage(m)
  BY DEF Running, TypeInv
<1>1. CopiedBy(m, p)' \subseteq CopiedBy(m, p) \cup ToSet(net.buffer[p])
  <2>1. CASE Copy(m)
    <3>1. /\ reader'[m].pc = "erase" /\ reader'[m].todo = reader[m].todo
          /\ reader'[m].copy = net.buffer[Head(reader[m].todo)]
      BY <1>0, <2>1 DEF Copy, ReaderTypes
    <3>. QED
      BY <3>1 DEF CopiedBy
  <2>2. CASE CopyNothing(m) \/ Push(m) \/ UnlockDirectly(m)
    <3>1. reader'[m].pc \in {"get", "copy"}
      BY <1>0, <2>2 DEF CopyNothing, Push, UnlockDirectly, Continue
    <3>. QED
      BY <3>1 DEF CopiedBy
  <2>3. CASE GetClients(m) \/ Erase(m) \/ LockDirectly(m) \/ ProcessDirectly(m) \/ AddSadDirectly(m)
    <3>1. reader'[m].pc \in {"get", "copy", "lock", "process", "sad"}
      <4>1. CASE GetClients(m)
        BY <1>0, <4>1 DEF GetClients, ReaderTypes
      <4>2. CASE Erase(m) \/ LockDirectly(m) \/ AddSadDirectly(m)
        BY <1>0, <4>2 DEF Erase, LockDirectly, AddSadDirectly, ReaderTypes
      <4>3. CASE ProcessDirectly(m)
        <5>1. PICK pc \in {"sad", "process"} :
                  reader' = [reader EXCEPT ![m].copy = Tail(@), ![m].pc = pc]
          BY <4>3 DEF ProcessDirectly
        <5>. QED
          BY <1>0, <5>1 DEF ReaderTypes
      <4>. QED
        BY <2>3, <4>1, <4>2, <4>3
    <3>. QED
      BY <3>1 DEF CopiedBy
  <2>4. CASE DirectReaderThrows(m)
    <3>1. reader'[m].pc = "none"
      BY <1>0, <2>4, StartTypes DEF DirectReaderThrows
    <3>. QED
      BY <3>1 DEF CopiedBy
  <2>. QED
    BY <2>1, <2>2, <2>3, <2>4 DEF ReaderStep
<1>. QED
  BY <1>1, CopiedNow, OtherReader

(* A step of a reader: Erase takes frames of one peer.                     *)
LEMMA ReaderFlow ==
    ASSUME Running, NEW m \in Modes, ReaderStep(m), NEW p \in Peers, FlowInv(p)
    PROVE  FlowKept(p)
<1>0. reader[m] \in ReaderTypes /\ ReaderStage(m) /\ net \in NetTypes /\ log \in LogTypes
  BY DEF Running, TypeInv
<1>1. Held(p)' = Held(p)
  BY ReaderLeaves DEF Held, HeldBy
<1>2. Copied(p)' \subseteq Copied(p) \cup ToSet(net.buffer[p])
  BY ReaderCopies
<1>3. CASE net' = net /\ log'.taken = log.taken
  BY <1>1, <1>2, <1>3, FlowsByItself
<1>4. CASE Erase(m)
  <2>1. PICK q \in Peers : q = Head(reader[m].todo)
    BY <1>0, <1>4, TailOfClients DEF Erase, ReaderAt, ReaderStage, ReaderTypes
  <2>2. /\ net'.sent = net.sent /\ net'.wire = net.wire
        /\ net'.buffer = [net.buffer EXCEPT ![q] = Erased(@, Len(reader[m].copy))]
        /\ log'.taken = [log.taken EXCEPT ![q] = @ \o reader[m].copy]
    BY <1>0, <1>4, <2>1 DEF Erase, NetTypes, LogTypes
  <2>3. CASE q = p
    <3>1. reader[m].copy \in Seq(Nat) /\ ToSet(reader[m].copy) \subseteq Copied(p)
      BY <1>0, <1>4, <2>1, <2>3 DEF Erase, ReaderAt, ReaderTypes, Copied, CopiedBy, Modes
    <3>2. /\ net'.buffer[p] = Erased(net.buffer[p], Len(reader[m].copy))
          /\ log'.taken[p] = log.taken[p] \o reader[m].copy
      BY <1>0, <2>2, <2>3 DEF NetTypes, LogTypes, Buffers
    <3>3. FlowTypes(p)
      BY FlowType DEF Running
    <3>4. /\ Flowing(net.sent[p], net.wire[p], Held(p), Erased(net.buffer[p], Len(reader[m].copy)),
                     log.taken[p] \o reader[m].copy, Copied(p))
          /\ FollowInv(p) => Following(Held(p), Erased(net.buffer[p], Len(reader[m].copy)),
                                       log.taken[p] \o reader[m].copy, Copied(p))
      BY <3>1, <3>3, FlowsWhenErased DEF FlowInv, FollowInv, FlowTypes
    <3>5. Copied(p)' \subseteq Copied(p)
      <4>1. reader'[m].pc = "lock"
        BY <1>4 DEF Erase, Running, TypeInv, ReaderTypes
      <4>2. CopiedBy(m, p)' \subseteq CopiedBy(m, p) \cup {}
        BY <4>1 DEF CopiedBy
      <4>3. \A k \in Modes \ {m} : reader'[k] = reader[k]
        BY OtherReader
      <4>4. Copied(p)' \subseteq Copied(p) \cup {}
        BY <4>2, <4>3, CopiedNow, Zenon
      <4>. QED
        BY <4>4
    <3>6. /\ Flowing(net.sent[p], net.wire[p], Held(p), Erased(net.buffer[p], Len(reader[m].copy)),
                     log.taken[p] \o reader[m].copy, Copied(p)')
          /\ FollowInv(p) => Following(Held(p), Erased(net.buffer[p], Len(reader[m].copy)),
                                       log.taken[p] \o reader[m].copy, Copied(p)')
      BY <3>4, <3>5, FlowsOn
    <3>7. FlowInv(p)' /\ (FollowInv(p) => FollowInv(p)')
      BY <1>1, <2>2, <3>2, <3>6 DEF FlowInv, FollowInv
    <3>. QED
      BY <3>7 DEF FlowKept
  <2>4. CASE q # p
    <3>1. net'.buffer[p] = net.buffer[p] /\ log'.taken[p] = log.taken[p]
      BY <1>0, <2>2, <2>4 DEF NetTypes, LogTypes, Buffers
    <3>. QED
      BY <1>1, <1>2, <2>2, <3>1, FlowsByItself
  <2>. QED
    BY <2>3, <2>4
<1>. QED
  BY <1>3, <1>4, ReaderLeaves

LEMMA WorkerFlow ==
    ASSUME Running, NEW w \in DOMAIN pool.worker, Worker(w), NEW p \in Peers, FlowInv(p)
    PROVE  FlowKept(p)
<1>1. log \in LogTypes
  BY DEF Running, TypeInv
<1>2. net' = net /\ receiver' = receiver /\ reader' = reader /\ log'.taken = log.taken
  BY <1>1 DEF Worker, Pop, AddSad, Finish, Handle, LogTypes
<1>3. Held(p)' = Held(p) /\ Copied(p)' = Copied(p)
  BY <1>2 DEF Held, HeldBy, Copied, CopiedBy
<1>. QED
  BY <1>2, <1>3, FlowsByItself

(* Every step.                                                             *)
LEMMA NextFlow ==
    ASSUME TypeInv, [Next]_vars, NEW p \in Peers, FlowInv(p)
    PROVE  FlowKept(p)
<1>1. CASE Listen
  BY <1>1, ListenFlow
<1>2. CASE ListenFails \/ Race \/ UNCHANGED vars
  <2>1. UNCHANGED <<net, receiver, reader, log>>
    BY <1>2 DEF ListenFails, Race, vars
  <2>2. Held(p)' = Held(p) /\ Copied(p)' = Copied(p)
    BY <2>1 DEF Held, HeldBy, Copied, CopiedBy
  <2>. QED
    BY <2>1, <2>2, FlowsByItself
<1>3. CASE Threads
  <2>1. Running
    BY <1>3 DEF Threads, Running
  <2>. QED
    BY <1>3, <2>1, SendFlow, ReceiverFlow, ReaderFlow, WorkerFlow DEF Threads
<1>. QED
  BY <1>1, <1>2, <1>3 DEF Next

-----------------------------------------------------------------------------
(***************************************************************************)
(* What is lost: the frames sent that are in none of these places.  They   *)
(* are counted, since no frame is in two of the places but the read        *)
(* buffer and what has been taken.                                         *)
(***************************************************************************)

LEMMA SizeOfSet ==
    ASSUME NEW s \in Seq(Nat), Differing(s)
    PROVE  IsFiniteSet(ToSet(s)) /\ Cardinality(ToSet(s)) = Len(s)
<1>1. DOMAIN s = 1 .. Len(s) /\ Len(s) \in Nat
  OBVIOUS
<1>2. s \in [1 .. Len(s) -> ToSet(s)]
  BY Elements
<1>3. \A i, j \in 1 .. Len(s) : s[i] = s[j] => i = j
  BY <1>1 DEF Differing
<1>4. \A x \in ToSet(s) : \E i \in 1 .. Len(s) : s[i] = x
  BY Elements
<1>5. s \in Bijection(1 .. Len(s), ToSet(s))
  BY <1>2, <1>3, <1>4 DEF Bijection, Injection, Surjection, IsInjective
<1>6. IsFiniteSet(1 .. Len(s)) /\ Cardinality(1 .. Len(s)) = Len(s)
  <2>1. PICK n \in Nat : n = Len(s)
    BY <1>1
  <2>2. IsFiniteSet(1 .. n) /\ Cardinality(1 .. n) = IF 1 > n THEN 0 ELSE n - 1 + 1
    BY ONLY FS_Interval, n \in Nat
  <2>3. (IF 1 > n THEN 0 ELSE n - 1 + 1) = n
    OBVIOUS
  <2>. QED
    BY <2>1, <2>2, <2>3
<1>7. ExistsBijection(1 .. Len(s), ToSet(s))
  BY <1>5 DEF ExistsBijection
<1>. QED
  BY <1>6, <1>7, FS_Bijection

LEMMA IncreasingDiffers ==
    ASSUME NEW s \in Seq(Nat), Increasing(s)
    PROVE  Differing(s)
<1>1. ASSUME NEW i \in DOMAIN s, NEW j \in DOMAIN s, i # j, s[i] = s[j] PROVE FALSE
  <2>1. i \in Nat /\ j \in Nat /\ s[i] \in Nat
    OBVIOUS
  <2>2. i < j \/ j < i
    BY <1>1, <2>1
  <2>. QED
    BY <1>1, <2>1, <2>2 DEF Increasing
<1>. QED
  BY <1>1 DEF Differing

LEMMA SizeOfUnion ==
    ASSUME NEW S, NEW T, IsFiniteSet(S), IsFiniteSet(T), S \cap T = {}
    PROVE  IsFiniteSet(S \cup T) /\ Cardinality(S \cup T) = Cardinality(S) + Cardinality(T)
<1>1. /\ IsFiniteSet(S \cup T)
      /\ Cardinality(S \cup T) = Cardinality(S) + Cardinality(T) - Cardinality(S \cap T)
  BY FS_Union
<1>2. Cardinality(S \cap T) = 0 /\ Cardinality(S) \in Nat /\ Cardinality(T) \in Nat
  BY FS_EmptySet, FS_CardinalityType
<1>. QED
  BY <1>1, <1>2

LEMMA DisjointWhenPrecedes ==
    ASSUME NEW S, NEW T, S \subseteq Nat, Precedes(S, T) \/ Precedes(T, S)
    PROVE  S \cap T = {}
<1>1. ASSUME NEW x \in S, x \in T PROVE FALSE
  BY <1>1 DEF Precedes
<1>. QED
  BY <1>1

LEMMA LostFrames ==
    ASSUME TypeInv, NEW p \in Peers, FlowInv(p)
    PROVE  LET buffered == ToSet(net.buffer[p])
               read == ToSet(log.taken[p])
               inFlight == UNION {ToSet(receiver[m].chunk) :
                                     m \in {n \in Modes : At(n, "insert") /\ receiver[n].peer = p}}
               lost == (1 .. net.sent[p]) \ (ToSet(net.wire[p]) \cup inFlight \cup buffered \cup read)
           IN  Cardinality(lost)
                   <= (Len(log.taken[p]) - Cardinality(read)) + Cardinality(read \cap buffered)
<1> DEFINE n == net.sent[p]
           wire == ToSet(net.wire[p])
           buffered == ToSet(net.buffer[p])
           read == ToSet(log.taken[p])
           inFlight == UNION {ToSet(receiver[m].chunk) :
                                 m \in {k \in Modes : At(k, "insert") /\ receiver[k].peer = p}}
           one == ToSet(Held(p)["Create2Threads"])
           other == ToSet(Held(p)["Multithreaded"])
           lost == (1 .. n) \ (wire \cup inFlight \cup buffered \cup read)
<1>1. FlowTypes(p)
  BY FlowType
<1>2. inFlight = one \cup other
  <2>1. \A m \in Modes : IF At(m, "insert") /\ receiver[m].peer = p
                         THEN Held(p)[m] = receiver[m].chunk
                         ELSE ToSet(Held(p)[m]) = {}
    BY ElementsOfEmpty DEF Held, HeldBy, At
  <2>2. inFlight \subseteq one \cup other
    BY <2>1 DEF Modes
  <2>3. one \subseteq inFlight
    <3>1. "Create2Threads" \in Modes
      BY DEF Modes
    <3>. QED
      BY <2>1, <3>1
  <2>4. other \subseteq inFlight
    <3>1. "Multithreaded" \in Modes
      BY DEF Modes
    <3>. QED
      BY <2>1, <3>1
  <2>. QED
    BY <2>2, <2>3, <2>4
<1>3. /\ wire \subseteq 1 .. n /\ buffered \subseteq 1 .. n /\ read \subseteq 1 .. n
      /\ one \subseteq 1 .. n /\ other \subseteq 1 .. n
  BY DEF FlowInv, Flowing, Inside, Modes
<1>4. /\ IsFiniteSet(wire) /\ Cardinality(wire) = Len(net.wire[p])
      /\ IsFiniteSet(buffered) /\ Cardinality(buffered) = Len(net.buffer[p])
      /\ IsFiniteSet(one) /\ Cardinality(one) = Len(Held(p)["Create2Threads"])
      /\ IsFiniteSet(other) /\ Cardinality(other) = Len(Held(p)["Multithreaded"])
  <2>1. /\ Differing(net.wire[p]) /\ Differing(net.buffer[p])
        /\ Differing(Held(p)["Create2Threads"]) /\ Differing(Held(p)["Multithreaded"])
    BY <1>1, IncreasingDiffers DEF FlowTypes, FlowInv, Flowing, Modes
  <2>. QED
    BY <1>1, <2>1, SizeOfSet DEF FlowTypes, Modes
<1>5. IsFiniteSet(1 .. n) /\ Cardinality(1 .. n) = n
  <2>1. n \in Nat
    BY <1>1 DEF FlowTypes
  <2> HIDE DEF n
  <2>2. IsFiniteSet(1 .. n) /\ Cardinality(1 .. n) = IF 1 > n THEN 0 ELSE n - 1 + 1
    BY <2>1, FS_Interval
  <2>. QED
    BY <2>1, <2>2
<1>6. IsFiniteSet(read)
  BY <1>3, <1>5, FS_Subset
<1> DEFINE inside == buffered \cup read
<1>7. inside \cap wire = {} /\ inside \cap one = {} /\ inside \cap other = {}
  <2>1. inside \subseteq Nat /\ inside \subseteq Inside(net.buffer[p], log.taken[p], Copied(p))
    BY <1>3 DEF Inside
  <2>2. Precedes(inside, wire) /\ inside \cap one = {} /\ inside \cap other = {}
    BY <2>1 DEF FlowInv, Flowing, Modes, Precedes
  <2> HIDE DEF inside
  <2>. QED
    BY <2>1, <2>2, DisjointWhenPrecedes
<1>8. wire \cap one = {} /\ wire \cap other = {} /\ one \cap other = {}
  <2>1. /\ Precedes(one, wire) /\ Precedes(other, wire)
        /\ Precedes(one, other) \/ Precedes(other, one)
    BY DEF FlowInv, Flowing, Modes
  <2>2. one \subseteq Nat /\ other \subseteq Nat
    BY <1>3
  <2> HIDE DEF one, other, wire
  <2>3. one \cap wire = {} /\ other \cap wire = {} /\ one \cap other = {}
    BY <2>1, <2>2, DisjointWhenPrecedes
  <2>. QED
    BY <2>3
<1>a. lost = (1 .. n) \ (((inside \cup wire) \cup one) \cup other)
  BY <1>2
<1>b. Accounted(n, Len(net.wire[p]), Len(Held(p)["Create2Threads"]), Len(Held(p)["Multithreaded"]),
                Len(net.buffer[p]), Len(log.taken[p]))
  BY DEF FlowInv, Flowing
<1>c. Len(log.taken[p]) \in Nat /\ n \in Nat
  BY <1>1 DEF FlowTypes
<1> HIDE DEF n, wire, one, other, inFlight, lost
<1>9. /\ IsFiniteSet(inside)
      /\ Cardinality(inside) = Cardinality(buffered) + Cardinality(read) - Cardinality(read \cap buffered)
  <2>1. read \cap buffered = buffered \cap read
    OBVIOUS
  <2> HIDE DEF buffered, read
  <2>. QED
    BY <1>4, <1>6, <2>1, FS_Union
<1> DEFINE all == ((inside \cup wire) \cup one) \cup other
<1>10. /\ IsFiniteSet(all)
       /\ Cardinality(all) = Cardinality(inside) + Cardinality(wire) + Cardinality(one) + Cardinality(other)
  <2> HIDE DEF inside
  <2>1. IsFiniteSet(inside \cup wire) /\ Cardinality(inside \cup wire) = Cardinality(inside) + Cardinality(wire)
    BY <1>4, <1>7, <1>9, SizeOfUnion
  <2>2. /\ IsFiniteSet((inside \cup wire) \cup one)
        /\ Cardinality((inside \cup wire) \cup one) = Cardinality(inside \cup wire) + Cardinality(one)
    <3>1. (inside \cup wire) \cap one = {}
      BY <1>7, <1>8
    <3>. QED
      BY <1>4, <2>1, <3>1, SizeOfUnion
  <2>3. /\ IsFiniteSet(all)
        /\ Cardinality(all) = Cardinality((inside \cup wire) \cup one) + Cardinality(other)
    <3>1. ((inside \cup wire) \cup one) \cap other = {}
      BY <1>7, <1>8
    <3>. QED
      BY <1>4, <2>2, <3>1, SizeOfUnion
  <2>. QED
    BY <2>1, <2>2, <2>3
<1>11. Cardinality(lost) = n - Cardinality(all)
  <2>1. (1 .. n) \cap all = all
    BY <1>3
  <2>2. lost = (1 .. n) \ all
    BY <1>a
  <2>3. Cardinality((1 .. n) \ all) = Cardinality(1 .. n) - Cardinality((1 .. n) \cap all)
    BY <1>5, FS_Difference, Zenon
  <2> HIDE DEF all
  <2>. QED
    BY <1>5, <2>1, <2>2, <2>3
<1>12. /\ Cardinality(buffered) \in Nat /\ Cardinality(read) \in Nat /\ Cardinality(read \cap buffered) \in Nat
       /\ Cardinality(wire) \in Nat /\ Cardinality(one) \in Nat /\ Cardinality(other) \in Nat
  <2> HIDE DEF buffered, read
  <2>. QED
    BY <1>4, <1>6, FS_CardinalityType, FS_Intersection
<1>13. Accounted(n, Cardinality(wire), Cardinality(one), Cardinality(other), Cardinality(buffered), Len(log.taken[p]))
  BY <1>4, <1>b
<1>14. Cardinality(lost)
           <= (Len(log.taken[p]) - Cardinality(read)) + Cardinality(read \cap buffered)
  <2> DEFINE both == read \cap buffered
  <2> HIDE DEF buffered, read, inside, all, both
  <2>1. PICK w \in Nat, a \in Nat, b \in Nat, f \in Nat, r \in Nat :
            /\ w = Cardinality(wire) /\ a = Cardinality(one) /\ b = Cardinality(other)
            /\ f = Cardinality(buffered) /\ r = Cardinality(read)
    BY <1>12
  <2>2. PICK c \in Nat, t \in Nat : c = Cardinality(both) /\ t = Len(log.taken[p])
    BY <1>12, <1>c DEF both
  <2>3. Accounted(n, w, a, b, f, t)
    BY <1>13, <2>1, <2>2
  <2>4. Cardinality(lost) = n - (f + r - c + w + a + b)
    BY <1>9, <1>10, <1>11, <2>1, <2>2 DEF both
  <2>5. Cardinality(lost) <= (t - r) + c
    BY <1>c, <2>3, <2>4 DEF Accounted
  <2>. QED
    BY <2>1, <2>2, <2>5 DEF both
<1>. QED
  BY <1>14 DEF n, wire, inFlight, lost

-----------------------------------------------------------------------------
(***************************************************************************)
(* The order of the frames that are handled, as long as none of the peer   *)
(* were mixed.                                                             *)
(***************************************************************************)

(* The reader whose frames are handled: the other one's queue is not read. *)
Handling == IF m_settings = 2 THEN "Create2Threads" ELSE "Multithreaded"

(* Where frames of p are in the queue.                                     *)
QueueOf(p) ==
    IF m_settings = 2 THEN {} ELSE {i \in DOMAIN pool.queue : pool.queue[i][1] = p}

Queued(p) == {pool.queue[i][2] : i \in QueueOf(p)}

(* The frames that no reader can get in front of any more.                 *)
Passed(p) == ToSet(log.handled[p]) \cup Queued(p)

(* Handling's reader is at one of pcs with p.                              *)
Dealing(p, pcs) == reader[Handling].pc \in pcs /\ Head(reader[Handling].todo) = p

(* What is handled, and then queued, is in order and was taken;            *)
PassedInv(p) ==
    /\ Passed(p) \subseteq ToSet(log.taken[p])
    /\ Increasing(log.handled[p])
    /\ \A i, j \in QueueOf(p) : i < j => pool.queue[i][2] < pool.queue[j][2]
    /\ Precedes(ToSet(log.handled[p]), Queued(p))

(* the read buffer is in order behind it;                                  *)
BufferInv(p) == Increasing(net.buffer[p]) /\ Precedes(Passed(p), ToSet(net.buffer[p]))

(* and so is the copy, which comes before what is in the buffer, or is     *)
(* about to be erased from there.                                          *)
CopyInv(p) ==
    LET copy == reader[Handling].copy
    IN  /\ Dealing(p, {"erase", "lock", "process", "sad"}) =>
               Increasing(copy) /\ Precedes(Passed(p), ToSet(copy))
        /\ Dealing(p, {"erase"}) => Len(net.buffer[p]) <= Len(copy)
        /\ Dealing(p, {"lock", "process", "sad"}) =>
               /\ ToSet(copy) \subseteq ToSet(log.taken[p])
               /\ Precedes(ToSet(copy), ToSet(net.buffer[p]))

OrderInv(p) == FollowInv(p) /\ PassedInv(p) /\ BufferInv(p) /\ CopyInv(p)

QueueKept(p) ==
    QueueOf(p)' = QueueOf(p) /\ \A i \in QueueOf(p) : pool'.queue[i] = pool.queue[i]

LEMMA NothingPassed ==
    ASSUME NEW p \in Peers,
           m_settings' = m_settings, pool'.queue = pool.queue \/ m_settings = 2 \/ QueueKept(p),
           log'.handled[p] = log.handled[p]
    PROVE  /\ Passed(p)' = Passed(p)
           /\ PassedInv(p) /\ ToSet(log.taken[p]) \subseteq ToSet(log'.taken[p]) => PassedInv(p)'
<1>1. QueueOf(p)' = QueueOf(p) /\ \A i \in QueueOf(p) : pool'.queue[i] = pool.queue[i]
  BY DEF QueueOf, QueueKept
<1>2. Queued(p)' = Queued(p)
  BY <1>1 DEF Queued
<1>3. Passed(p)' = Passed(p)
  BY <1>2 DEF Passed
<1>4. ASSUME PassedInv(p), ToSet(log.taken[p]) \subseteq ToSet(log'.taken[p])
      PROVE  PassedInv(p)'
  <2>1. \A i, j \in QueueOf(p)' : i < j => pool'.queue[i][2] < pool'.queue[j][2]
    BY <1>1, <1>4 DEF PassedInv
  <2>2. Precedes(ToSet(log'.handled[p]), Queued(p)') /\ Increasing(log'.handled[p])
    BY <1>2, <1>4 DEF PassedInv
  <2>3. Passed(p)' \subseteq ToSet(log'.taken[p])
    BY <1>3, <1>4 DEF PassedInv
  <2>. QED
    BY <2>1, <2>2, <2>3 DEF PassedInv
<1>. QED
  BY <1>3, <1>4

(* Steps that leave the buffer alone, and the copy or what it was about.   *)
LEMMA NoReading ==
    ASSUME NEW p \in Peers, OrderInv(p), FollowInv(p)',
           m_settings' = m_settings, pool'.queue = pool.queue \/ m_settings = 2 \/ QueueKept(p),
           log'.handled[p] = log.handled[p],
           log'.taken[p] = log.taken[p], net'.buffer[p] = net.buffer[p],
           \/ reader'[Handling] = reader[Handling]
           \/ ~Dealing(p, {"erase", "lock", "process", "sad"})'
    PROVE  OrderInv(p)'
<1>1. Passed(p)' = Passed(p) /\ PassedInv(p)'
  BY NothingPassed DEF OrderInv
<1>2. BufferInv(p)'
  BY <1>1 DEF OrderInv, BufferInv
<1>3. Handling' = Handling
  BY DEF Handling
<1>4. CopyInv(p)'
  BY <1>1, <1>3 DEF OrderInv, CopyInv, Dealing
<1>. QED
  BY <1>1, <1>2, <1>4 DEF OrderInv

LEMMA InitOrder ==
    ASSUME Init, NEW p \in Peers
    PROVE  OrderInv(p)
<1>1. log.handled[p] = <<>> /\ pool.queue = <<>> /\ net.buffer[p] = <<>>
  BY DEF Init, NoPool, FreshNet
<1>2. QueueOf(p) = {} /\ Passed(p) = {} /\ Queued(p) = {}
  BY <1>1, ElementsOfEmpty DEF QueueOf, Queued, Passed
<1>3. PassedInv(p) /\ BufferInv(p)
  BY <1>1, <1>2, ElementsOfEmpty DEF PassedInv, BufferInv, Precedes
<1>4. reader[Handling].pc = "none"
  BY StartTypes DEF Init, Handling, Modes
<1>5. CopyInv(p)
  BY <1>4 DEF CopyInv, Dealing
<1>. QED
  BY <1>3, <1>5, InitFlow DEF OrderInv

LEMMA HandlingIsMode == Handling \in Modes
  BY DEF Handling, Modes

LEMMA ListenOrder ==
    ASSUME TypeInv, Listen, NEW p \in Peers, OrderInv(p), FollowInv(p)'
    PROVE  OrderInv(p)'
<1>1. log' = log /\ net' = net /\ m_settings' = m_settings /\ pool'.queue = <<>>
  BY DEF Listen, NoPool
<1>2. QueueOf(p)' = {}
  BY <1>1 DEF QueueOf
<1>3. Queued(p)' = {} /\ Passed(p)' = ToSet(log.handled[p])
  BY <1>1, <1>2 DEF Queued, Passed
<1>4. PassedInv(p)' /\ BufferInv(p)'
  BY <1>1, <1>2, <1>3 DEF OrderInv, PassedInv, BufferInv, Precedes, Passed
<1>5. reader'[Handling'].pc \in {"get", "none"}
  BY StartTypes, <1>1 DEF Listen, Handling, Modes
<1>6. CopyInv(p)'
  BY <1>5 DEF CopyInv, Dealing
<1>. QED
  BY <1>4, <1>6 DEF OrderInv

LEMMA SendOrder ==
    ASSUME Running, NEW q \in Peers, Send(q), NEW p \in Peers, OrderInv(p), FollowInv(p)'
    PROVE  OrderInv(p)'
<1>1. net'.buffer = net.buffer
  BY DEF Send, Running, TypeInv, NetTypes
<1>. QED
  BY <1>1, NoReading DEF Send, Running

(* A receiver puts a chunk in front of an empty buffer nobody has copied,  *)
(* or the peer is mixed.                                                   *)
LEMMA ReceiverOrder ==
    ASSUME Running, NEW m \in Modes, Receiver(m), NEW p \in Peers, FlowInv(p), OrderInv(p),
           FollowInv(p)', p \notin log'.mixed
    PROVE  OrderInv(p)'
<1>0. log \in LogTypes /\ net \in NetTypes
  BY DEF Running, TypeInv
<1>1. /\ reader' = reader /\ pool' = pool /\ m_settings' = m_settings
      /\ log'.handled = log.handled /\ log'.taken = log.taken
  BY <1>0 DEF Receiver, AcceptNothing, Accept, Count, AddClient, LogConnected, RecvNothing, Recv,
         Insert, RoundDone, LogTypes, Running
<1>2. CASE net'.buffer[p] = net.buffer[p]
  BY <1>1, <1>2, NoReading
<1>3. CASE Insert(m) /\ receiver[m].peer = p
  <2>1. /\ net.buffer[p] = <<>> /\ ~Parsing(p) /\ receiver[m].pc = "insert"
        /\ net'.buffer[p] = receiver[m].chunk \o net.buffer[p]
    BY <1>0, <1>3 DEF Insert, At, LogTypes, NetTypes, Buffers
  <2>2. PICK chunk \in Seq(Nat) : chunk = receiver[m].chunk
    BY DEF Running, TypeInv, ReceiverTypes
  <2>3. net'.buffer[p] = chunk /\ Held(p)[m] = chunk
    BY <1>3, <2>1, <2>2 DEF Held, HeldBy
  <2>4. Increasing(chunk)
    BY <2>3 DEF FlowInv, Flowing
  <2>5. Precedes(ToSet(log.taken[p]), ToSet(chunk))
    BY <2>3 DEF OrderInv, FollowInv, Following, Inside, Precedes
  <2>6. Passed(p)' = Passed(p) /\ PassedInv(p)'
    BY <1>1, NothingPassed DEF OrderInv
  <2>7. BufferInv(p)'
    BY <2>3, <2>4, <2>5, <2>6 DEF OrderInv, PassedInv, BufferInv, Precedes
  <2>8. Handling' = Handling /\ ~Dealing(p, {"erase"})
    BY <1>1, <2>1, HandlingIsMode DEF Handling, Dealing, Parsing
  <2>9. CopyInv(p)'
    <3>1. Dealing(p, {"lock", "process", "sad"}) =>
              Precedes(ToSet(reader[Handling].copy), ToSet(chunk))
      BY <2>5 DEF OrderInv, CopyInv, Precedes
    <3>. QED
      BY <1>1, <2>3, <2>6, <2>8, <3>1 DEF OrderInv, CopyInv, Dealing
  <2>. QED
    BY <2>6, <2>7, <2>9 DEF OrderInv
<1>4. net'.buffer[p] = net.buffer[p] \/ (Insert(m) /\ receiver[m].peer = p)
  <2>1. CASE Insert(m) /\ receiver[m].peer # p
    <3>1. receiver[m].peer \in Peers
      BY <2>1 DEF Insert, At, Running, TypeInv, ReceiverStage
    <3>. QED
      BY <1>0, <2>1, <3>1 DEF Insert, NetTypes, Buffers
  <2>2. CASE ~Insert(m)
    BY <1>0, <2>2 DEF Receiver, AcceptNothing, Accept, Count, AddClient, LogConnected, RecvNothing, Recv,
         RoundDone, NetTypes
  <2>. QED
    BY <2>1, <2>2
<1>. QED
  BY <1>2, <1>3, <1>4

(* The reader of the other function leaves what Handling's has copied.     *)
LEMMA OtherReaderOrder ==
    ASSUME Running, NEW m \in Modes, ReaderStep(m), m # Handling,
           NEW p \in Peers, OrderInv(p), FollowInv(p)'
    PROVE  OrderInv(p)'
<1> USE DEF ReaderAt
<1>0. /\ reader[m] \in ReaderTypes /\ ReaderStage(m) /\ net \in NetTypes /\ log \in LogTypes
      /\ pool \in PoolTypes(m_settings)
  BY DEF Running, TypeInv
<1>1. reader[m].pc # "none"
  BY DEF ReaderStep, GetClients, CopyNothing, Copy, Erase, Push, LockDirectly, ProcessDirectly,
         AddSadDirectly, UnlockDirectly, DirectReaderThrows
<1>2. m_settings = 2 /\ m = "Multithreaded"
  BY <1>0, <1>1 DEF ReaderStage, Handling, Modes
<1>3. reader'[Handling] = reader[Handling] /\ m_settings' = m_settings /\ Handling' = Handling
  BY OtherReader, HandlingIsMode DEF Running, Handling
<1>4. CASE ~Erase(m)
  <2>1. net' = net /\ log' = log
    BY <1>0, <1>2, <1>4 DEF ReaderStep, GetClients, CopyNothing, Copy, Push, LockDirectly, ProcessDirectly,
         AddSadDirectly, UnlockDirectly, DirectReaderThrows, ReaderStage
  <2>. QED
    BY <1>2, <1>3, <2>1, NoReading
<1>5. CASE Erase(m)
  <2>1. PICK q \in Peers : q = Head(reader[m].todo)
    BY <1>0, <1>5, TailOfClients DEF Erase, ReaderStage, ReaderTypes
  <2>2. /\ net'.buffer = [net.buffer EXCEPT ![q] = Erased(@, Len(reader[m].copy))]
        /\ log'.taken = [log.taken EXCEPT ![q] = @ \o reader[m].copy]
        /\ log'.handled = log.handled
    BY <1>0, <1>5, <2>1 DEF Erase, NetTypes, LogTypes
  <2>3. CASE q # p
    <3>1. net'.buffer[p] = net.buffer[p] /\ log'.taken[p] = log.taken[p]
      BY <1>0, <2>2, <2>3 DEF NetTypes, LogTypes, Buffers
    <3>. QED
      BY <1>2, <1>3, <2>2, <3>1, NoReading
  <2>4. CASE q = p
    <3>1. PICK buffer \in Seq(Nat), taken \in Seq(Nat), copy \in Seq(Nat) :
              /\ net.buffer[p] = buffer /\ log.taken[p] = taken /\ reader[m].copy = copy
              /\ net'.buffer[p] = Erased(buffer, Len(copy)) /\ log'.taken[p] = taken \o copy
      <4>1. net.buffer[p] \in Seq(Nat) /\ log.taken[p] \in Seq(Nat) /\ reader[m].copy \in Seq(Nat)
        BY <1>0 DEF NetTypes, LogTypes, Buffers, ReaderTypes
      <4>2. /\ net'.buffer[p] = Erased(net.buffer[p], Len(reader[m].copy))
            /\ log'.taken[p] = log.taken[p] \o reader[m].copy
        BY <1>0, <2>2, <2>4 DEF NetTypes, LogTypes, Buffers
      <4>. QED
        BY <4>1, <4>2
    <3>2. /\ ToSet(net'.buffer[p]) \subseteq ToSet(net.buffer[p])
          /\ Len(net'.buffer[p]) <= Len(net.buffer[p])
          /\ Len(net'.buffer[p]) \in Nat /\ Len(net.buffer[p]) \in Nat
          /\ Increasing(net.buffer[p]) => Increasing(net'.buffer[p])
      <4>1. Len(copy) \in Nat
        OBVIOUS
      <4>. QED
        BY <3>1, <4>1, ElementsOfErased, Elements
    <3>3. ToSet(log.taken[p]) \subseteq ToSet(log'.taken[p])
      BY <3>1, ElementsOfConcat
    <3>4. Passed(p)' = Passed(p) /\ PassedInv(p)'
      BY <1>2, <1>3, <2>2, <3>3, NothingPassed DEF OrderInv
    <3>5. BufferInv(p)'
      BY <3>2, <3>4 DEF OrderInv, BufferInv, Precedes
    <3>6. CopyInv(p)'
      <4>1. reader[Handling].copy \in Seq(Nat) /\ Len(reader[Handling].copy) \in Nat
        BY HandlingIsMode DEF Running, TypeInv, ReaderTypes
      <4>2. Dealing(p, {"erase"}) => Len(net'.buffer[p]) <= Len(reader[Handling].copy)
        BY <3>2, <4>1 DEF OrderInv, CopyInv
      <4>3. Dealing(p, {"lock", "process", "sad"}) =>
                /\ ToSet(reader[Handling].copy) \subseteq ToSet(log'.taken[p])
                /\ Precedes(ToSet(reader[Handling].copy), ToSet(net'.buffer[p]))
        BY <3>2, <3>3 DEF OrderInv, CopyInv, Precedes
      <4>4. Dealing(p, {"erase", "lock", "process", "sad"}) =>
                Increasing(reader[Handling].copy) /\ Precedes(Passed(p), ToSet(reader[Handling].copy))
        BY DEF OrderInv, CopyInv
      <4>. QED
        BY <1>3, <3>4, <4>2, <4>3, <4>4 DEF CopyInv, Dealing
    <3>. QED
      BY <3>4, <3>5, <3>6 DEF OrderInv
  <2>. QED
    BY <2>3, <2>4
<1>. QED
  BY <1>4, <1>5

(* Steps of Handling's reader that pass nothing on.                        *)
LEMMA ReadingOrder ==
    ASSUME Running, NEW m \in Modes, m = Handling,
           \/ GetClients(m) \/ CopyNothing(m) \/ Copy(m) \/ Erase(m) \/ LockDirectly(m)
           \/ AddSadDirectly(m) \/ UnlockDirectly(m) \/ DirectReaderThrows(m),
           NEW p \in Peers, OrderInv(p), FollowInv(p)'
    PROVE  OrderInv(p)'
<1> USE DEF ReaderAt
<1>0. /\ reader[m] \in ReaderTypes /\ ReaderStage(m) /\ net \in NetTypes /\ log \in LogTypes
      /\ pool \in PoolTypes(m_settings) /\ reader \in [Modes -> ReaderTypes]
  BY DEF Running, TypeInv
<1>1. pool'.queue = pool.queue /\ log'.handled = log.handled /\ m_settings' = m_settings /\ Handling' = m
  BY <1>0 DEF GetClients, CopyNothing, Copy, Erase, LockDirectly, AddSadDirectly, UnlockDirectly,
              DirectReaderThrows, PoolTypes, LogTypes, Running, Handling
<1>2. CASE GetClients(m) \/ CopyNothing(m) \/ UnlockDirectly(m) \/ DirectReaderThrows(m)
  <2>1. net' = net /\ log' = log
    BY <1>2 DEF GetClients, CopyNothing, UnlockDirectly, DirectReaderThrows
  <2>2. reader'[m].pc \in {"get", "copy", "none"}
    BY <1>0, <1>2, StartTypes
       DEF GetClients, CopyNothing, UnlockDirectly, DirectReaderThrows, Continue, ReaderTypes
  <2>3. ~Dealing(p, {"erase", "lock", "process", "sad"})'
    BY <1>1, <2>2 DEF Dealing
  <2>. QED
    BY <1>1, <2>1, <2>3, NoReading
<1>3. CASE LockDirectly(m) \/ AddSadDirectly(m)
  <2>1. net' = net /\ log' = log
    BY <1>3 DEF LockDirectly, AddSadDirectly
  <2>2. /\ reader[m].pc \in {"lock", "sad"} /\ reader'[m].pc = "process"
        /\ reader'[m].todo = reader[m].todo /\ reader'[m].copy = reader[m].copy
    BY <1>0, <1>3 DEF LockDirectly, AddSadDirectly, ReaderTypes
  <2>3. Passed(p)' = Passed(p) /\ PassedInv(p)'
    BY <1>1, <2>1, NothingPassed DEF OrderInv
  <2>4. BufferInv(p)'
    BY <2>1, <2>3 DEF OrderInv, BufferInv
  <2>5. CopyInv(p)'
    BY <1>1, <2>1, <2>2, <2>3 DEF OrderInv, CopyInv, Dealing
  <2>. QED
    BY <2>3, <2>4, <2>5 DEF OrderInv
<1>4. CASE Copy(m)
  <2>1. net' = net /\ log' = log
    BY <1>4 DEF Copy
  <2>2. /\ reader'[m].pc = "erase" /\ reader'[m].todo = reader[m].todo
        /\ reader'[m].copy = net.buffer[Head(reader[m].todo)]
    BY <1>0, <1>4 DEF Copy, ReaderTypes
  <2>3. Passed(p)' = Passed(p) /\ PassedInv(p)'
    BY <1>1, <2>1, NothingPassed DEF OrderInv
  <2>4. BufferInv(p)'
    BY <2>1, <2>3 DEF OrderInv, BufferInv
  <2>5. Len(net.buffer[p]) \in Nat
    BY <1>0 DEF NetTypes, Buffers
  <2>6. CopyInv(p)'
    BY <1>1, <2>1, <2>2, <2>3, <2>5 DEF OrderInv, CopyInv, BufferInv, Dealing
  <2>. QED
    BY <2>3, <2>4, <2>6 DEF OrderInv
<1>5. CASE Erase(m)
  <2>1. PICK q \in Peers : q = Head(reader[m].todo)
    BY <1>0, <1>5, TailOfClients DEF Erase, ReaderStage, ReaderTypes
  <2>2. /\ net'.buffer = [net.buffer EXCEPT ![q] = Erased(@, Len(reader[m].copy))]
        /\ log'.taken = [log.taken EXCEPT ![q] = @ \o reader[m].copy]
        /\ reader[m].pc = "erase" /\ reader'[m].pc = "lock" /\ reader'[m].todo = reader[m].todo
        /\ reader'[m].copy = reader[m].copy
    BY <1>0, <1>5, <2>1 DEF Erase, NetTypes, LogTypes, ReaderTypes
  <2>3. CASE q # p
    <3>1. net'.buffer[p] = net.buffer[p] /\ log'.taken[p] = log.taken[p]
      BY <1>0, <2>2, <2>3 DEF NetTypes, LogTypes, Buffers
    <3>2. ~Dealing(p, {"erase", "lock", "process", "sad"})'
      BY <1>1, <2>1, <2>2, <2>3 DEF Dealing
    <3>. QED
      BY <1>1, <3>1, <3>2, NoReading
  <2>4. CASE q = p
    <3>1. PICK buffer \in Seq(Nat), taken \in Seq(Nat), copy \in Seq(Nat) :
              /\ net.buffer[p] = buffer /\ log.taken[p] = taken /\ reader[m].copy = copy
              /\ net'.buffer[p] = Erased(buffer, Len(copy)) /\ log'.taken[p] = taken \o copy
      <4>1. net.buffer[p] \in Seq(Nat) /\ log.taken[p] \in Seq(Nat) /\ reader[m].copy \in Seq(Nat)
        BY <1>0 DEF NetTypes, LogTypes, Buffers, ReaderTypes
      <4>2. /\ net'.buffer[p] = Erased(net.buffer[p], Len(reader[m].copy))
            /\ log'.taken[p] = log.taken[p] \o reader[m].copy
        BY <1>0, <2>2, <2>4 DEF NetTypes, LogTypes, Buffers
      <4>. QED
        BY <4>1, <4>2
    <3>2. Dealing(p, {"erase"}) /\ Dealing(p, {"erase", "lock", "process", "sad"})
      BY <2>1, <2>2, <2>4 DEF Dealing
    <3>3. net'.buffer[p] = <<>>
      <4>1. Len(copy) \in Nat /\ Len(buffer) <= Len(copy)
        BY <3>1, <3>2 DEF OrderInv, CopyInv
      <4>. QED
        BY <3>1, <4>1, ElementsOfErased
    <3>4. ToSet(log'.taken[p]) = ToSet(log.taken[p]) \cup ToSet(copy)
      BY <3>1, ElementsOfConcat
    <3>5. Passed(p)' = Passed(p) /\ PassedInv(p)'
      BY <1>1, <3>4, NothingPassed DEF OrderInv
    <3>6. BufferInv(p)'
      BY <3>3, ElementsOfEmpty DEF BufferInv, Precedes
    <3>7. Increasing(copy) /\ Precedes(Passed(p), ToSet(copy))
      BY <3>1, <3>2 DEF OrderInv, CopyInv
    <3>8. CopyInv(p)'
      <4>1. reader'[Handling'].copy = copy /\ ~Dealing(p, {"erase"})'
        BY <1>1, <2>2, <3>1 DEF Dealing
      <4>2. ToSet(copy) \subseteq ToSet(log'.taken[p]) /\ Precedes(ToSet(copy), ToSet(net'.buffer[p]))
        BY <3>3, <3>4, ElementsOfEmpty DEF Precedes
      <4>. QED
        BY <3>5, <3>7, <4>1, <4>2 DEF CopyInv
    <3>. QED
      BY <3>5, <3>6, <3>8 DEF OrderInv
  <2>. QED
    BY <2>3, <2>4
<1>. QED
  BY <1>2, <1>3, <1>4, <1>5

LEMMA ConcatParts ==
    ASSUME NEW S, NEW s \in Seq(S), NEW t \in Seq(S)
    PROVE  /\ Len(s) \in Nat /\ Len(t) \in Nat
           /\ DOMAIN (s \o t) = 1 .. Len(s) + Len(t) /\ DOMAIN s = 1 .. Len(s)
           /\ \A i \in 1 .. Len(s) : (s \o t)[i] = s[i]
           /\ \A i \in 1 .. Len(t) : (s \o t)[Len(s) + i] = t[i]
  OBVIOUS

(* More has been passed on, in order.                                      *)
LEMMA PushOrder ==
    ASSUME Running, NEW m \in Modes, m = Handling, Push(m),
           NEW p \in Peers, OrderInv(p), FollowInv(p)'
    PROVE  OrderInv(p)'
<1> USE DEF ReaderAt
<1>0. /\ reader[m] \in ReaderTypes /\ ReaderStage(m) /\ net \in NetTypes /\ log \in LogTypes
      /\ pool \in PoolTypes(m_settings) /\ reader \in [Modes -> ReaderTypes]
  BY DEF Running, TypeInv
<1>1. m_settings # 2 /\ m_settings' = m_settings /\ Handling' = m /\ net' = net /\ log' = log
  BY DEF Push, Handling, Running
<1>2. PICK q \in Peers : q = Head(reader[m].todo)
  BY <1>0, TailOfClients DEF Push, ReaderStage, ReaderTypes
<1>3. PICK copy \in Seq(Nat), queue \in Seq(Peers \X Nat) : copy = reader[m].copy /\ queue = pool.queue
  <2>1. reader[m].copy \in Seq(Nat) /\ pool.queue \in Seq(Peers \X Nat)
    BY <1>0 DEF ReaderTypes, PoolTypes
  <2>. QED
    BY <2>1
<1> DEFINE pushed == [i \in DOMAIN copy |-> <<q, copy[i]>>]
           longer == queue \o pushed
           n == Len(queue)
<1>4. pool'.queue = longer
  BY <1>0, <1>2, <1>3 DEF Push, PoolTypes
<1>5. pushed \in Seq(Peers \X Nat) /\ Len(pushed) = Len(copy)
  <2>1. \A i \in 1 .. Len(copy) : <<q, copy[i]>> \in Peers \X Nat
    OBVIOUS
  <2>2. pushed = [i \in 1 .. Len(copy) |-> <<q, copy[i]>>]
    OBVIOUS
  <2>3. [i \in 1 .. Len(copy) |-> <<q, copy[i]>>] \in Seq(Peers \X Nat)
    BY <2>1
  <2>4. Len([i \in 1 .. Len(copy) |-> <<q, copy[i]>>]) = Len(copy)
    OBVIOUS
  <2> HIDE DEF pushed
  <2>. QED
    BY <2>2, <2>3, <2>4
<1>6. /\ n \in Nat /\ Len(copy) \in Nat
      /\ DOMAIN longer = 1 .. n + Len(copy) /\ DOMAIN queue = 1 .. n
      /\ \A i \in 1 .. n : longer[i] = queue[i]
      /\ \A i \in 1 .. Len(copy) : longer[n + i] = pushed[i]
  <2>1. PICK S : S = Peers \X Nat
    OBVIOUS
  <2> HIDE DEF pushed
  <2>2. queue \in Seq(S) /\ pushed \in Seq(S)
    BY <1>5, <2>1
  <2>3. PICK s \in Seq(S), t \in Seq(S) : s = queue /\ t = pushed
    BY <2>2
  <2>4. /\ Len(s) \in Nat /\ Len(t) \in Nat
        /\ DOMAIN (s \o t) = 1 .. Len(s) + Len(t) /\ DOMAIN s = 1 .. Len(s)
        /\ \A i \in 1 .. Len(s) : (s \o t)[i] = s[i]
        /\ \A i \in 1 .. Len(t) : (s \o t)[Len(s) + i] = t[i]
    BY ConcatParts
  <2>. QED
    BY <1>5, <2>3, <2>4
<1>7. \A i \in 1 .. Len(copy) : pushed[i] = <<q, copy[i]>> /\ copy[i] \in Nat
  OBVIOUS
<1> HIDE DEF pushed, longer, n
<1>8. \A i \in 1 .. n + Len(copy) : i > n =>
          /\ i - n \in 1 .. Len(copy)
          /\ longer[i][1] = q /\ longer[i][2] = copy[i - n] /\ copy[i - n] \in ToSet(copy)
  <2>1. SUFFICES ASSUME NEW i \in 1 .. n + Len(copy), i > n
                 PROVE  /\ i - n \in 1 .. Len(copy)
                        /\ longer[i] = <<q, copy[i - n]>> /\ copy[i - n] \in ToSet(copy)
    OBVIOUS
  <2>2. i - n \in 1 .. Len(copy) /\ n + (i - n) = i
    BY <1>6, <2>1
  <2>3. longer[i] = pushed[i - n]
    BY <1>6, <2>2
  <2>. QED
    BY <1>7, <2>2, <2>3, Elements
<1>9. reader'[m].pc \in {"get", "copy"}
  BY <1>0 DEF Push, Continue
<1>10. ~Dealing(p, {"erase", "lock", "process", "sad"})'
  BY <1>1, <1>9 DEF Dealing
<1>11. QueueOf(p) = {i \in 1 .. n : queue[i][1] = p}
  BY <1>1, <1>3, <1>6 DEF QueueOf
<1>12. QueueOf(p)' = {i \in 1 .. n + Len(copy) : longer[i][1] = p}
  BY <1>1, <1>4, <1>6 DEF QueueOf
<1>13. CASE q # p
  <2>1. QueueOf(p)' = QueueOf(p)
    BY <1>6, <1>8, <1>11, <1>12, <1>13
  <2>2. QueueKept(p)
    BY <1>3, <1>4, <1>6, <1>11, <2>1 DEF QueueKept
  <2>. QED
    BY <1>1, <1>10, <2>2, NoReading
<1>14. CASE q = p
  <2>1. Dealing(p, {"lock", "process", "sad"}) /\ Dealing(p, {"erase", "lock", "process", "sad"})
    BY <1>2, <1>14 DEF Push, Dealing
  <2>2. /\ Increasing(copy) /\ Precedes(Passed(p), ToSet(copy))
        /\ ToSet(copy) \subseteq ToSet(log.taken[p]) /\ Precedes(ToSet(copy), ToSet(net.buffer[p]))
    BY <1>3, <2>1 DEF OrderInv, CopyInv
  <2>3. ASSUME NEW i \in QueueOf(p)'
        PROVE  IF i <= n THEN i \in QueueOf(p) /\ longer[i] = pool.queue[i]
                         ELSE longer[i][2] = copy[i - n] /\ i - n \in DOMAIN copy /\ copy[i - n] \in ToSet(copy)
    <3>1. i \in 1 .. n + Len(copy) /\ longer[i][1] = p
      BY <1>12, <2>3
    <3>2. CASE i <= n
      <4>1. i \in 1 .. n
        BY <1>6, <3>1, <3>2
      <4>. QED
        BY <1>3, <1>6, <1>11, <3>1, <3>2, <4>1
    <3>3. CASE ~(i <= n)
      <4>1. i > n /\ DOMAIN copy = 1 .. Len(copy)
        BY <1>6, <3>1, <3>3
      <4>. QED
        BY <1>8, <3>1, <3>3, <4>1
    <3>. QED
      BY <3>2, <3>3
  <2>4. Queued(p)' \subseteq Queued(p) \cup ToSet(copy)
    <3>1. ASSUME NEW i \in QueueOf(p)' PROVE longer[i][2] \in Queued(p) \cup ToSet(copy)
      BY <2>3, <3>1 DEF Queued
    <3>. QED
      BY <1>4, <3>1 DEF Queued
  <2>5. Passed(p)' \subseteq Passed(p) \cup ToSet(copy)
    BY <1>1, <2>4 DEF Passed
  <2>6. BufferInv(p)'
    BY <1>1, <2>2, <2>5 DEF OrderInv, BufferInv, Precedes
  <2>7. Precedes(ToSet(log'.handled[p]), Queued(p)')
    BY <1>1, <2>2, <2>4 DEF OrderInv, PassedInv, Passed, Precedes
  <2>8. ASSUME NEW i \in QueueOf(p)', NEW j \in QueueOf(p)', i < j
        PROVE  longer[i][2] < longer[j][2]
    <3>0. i \in Nat /\ j \in Nat /\ n \in Nat
      BY <1>6, <1>12
    <3>1. CASE j <= n
      BY <1>3, <2>3, <2>8, <3>0, <3>1 DEF OrderInv, PassedInv
    <3>2. CASE i <= n /\ j > n
      <4>1. longer[i][2] \in Passed(p)
        BY <2>3, <3>2 DEF Passed, Queued
      <4>2. longer[j][2] \in ToSet(copy)
        BY <2>3, <3>0, <3>2
      <4>. QED
        BY <2>2, <4>1, <4>2 DEF Precedes
    <3>3. CASE i > n
      <4>1. /\ longer[i][2] = copy[i - n] /\ i - n \in DOMAIN copy
            /\ longer[j][2] = copy[j - n] /\ j - n \in DOMAIN copy
        BY <2>3, <2>8, <3>0, <3>3
      <4>2. i - n < j - n
        BY <2>8, <3>0
      <4>. QED
        BY <2>2, <4>1, <4>2 DEF Increasing
    <3>. QED
      BY <3>0, <3>1, <3>2, <3>3
  <2>9. PassedInv(p)'
    BY <1>1, <1>4, <2>2, <2>5, <2>7, <2>8 DEF OrderInv, PassedInv
  <2>10. CopyInv(p)'
    BY <1>10 DEF CopyInv, Dealing
  <2>. QED
    BY <2>6, <2>9, <2>10 DEF OrderInv
<1>. QED
  BY <1>13, <1>14

(* The reader of Create2Threads passes its first frame to a handler.       *)
LEMMA ProcessOrder ==
    ASSUME Running, NEW m \in Modes, m = Handling, ProcessDirectly(m),
           NEW p \in Peers, OrderInv(p), FollowInv(p)'
    PROVE  OrderInv(p)'
<1> USE DEF ReaderAt
<1>0. /\ reader[m] \in ReaderTypes /\ ReaderStage(m) /\ log \in LogTypes
      /\ reader \in [Modes -> ReaderTypes]
  BY DEF Running, TypeInv
<1>1. /\ m_settings = 2 /\ m_settings' = m_settings /\ Handling' = m /\ net' = net /\ pool' = pool
      /\ log'.taken = log.taken
  BY <1>0 DEF ProcessDirectly, ReaderStage, Handling, Running, Handle, LogTypes
<1>2. PICK q \in Peers : q = Head(reader[m].todo)
  BY <1>0, TailOfClients DEF ProcessDirectly, ReaderStage, ReaderTypes
<1>3. PICK copy \in Seq(Nat) : copy = reader[m].copy
  BY <1>0 DEF ReaderTypes
<1>4. log'.handled = [log.handled EXCEPT ![q] = Append(@, Head(copy))]
  BY <1>0, <1>2, <1>3 DEF ProcessDirectly, Handle, LogTypes
<1>5. /\ reader[m].pc = "process" /\ reader'[m].pc \in {"process", "sad"}
      /\ reader'[m].todo = reader[m].todo /\ reader'[m].copy = Tail(copy)
  <2>1. PICK pc \in {"sad", "process"} :
            reader' = [reader EXCEPT ![m].copy = Tail(@), ![m].pc = pc]
    BY DEF ProcessDirectly
  <2>. QED
    BY <1>0, <1>3, <2>1 DEF ProcessDirectly, ReaderTypes
<1>6. CASE q # p
  <2>1. log'.handled[p] = log.handled[p]
    BY <1>0, <1>4, <1>6 DEF LogTypes, Buffers
  <2>2. ~Dealing(p, {"erase", "lock", "process", "sad"})'
    BY <1>1, <1>2, <1>5, <1>6 DEF Dealing
  <2>. QED
    BY <1>1, <2>1, <2>2, NoReading
<1>7. CASE q = p
  <2>1. Dealing(p, {"lock", "process", "sad"}) /\ Dealing(p, {"erase", "lock", "process", "sad"})
    BY <1>2, <1>5, <1>7 DEF Dealing
  <2>2. /\ Increasing(copy) /\ Precedes(Passed(p), ToSet(copy))
        /\ ToSet(copy) \subseteq ToSet(log.taken[p]) /\ Precedes(ToSet(copy), ToSet(net.buffer[p]))
    BY <1>3, <2>1 DEF OrderInv, CopyInv
  <2>3. PICK handled \in Seq(Nat) : handled = log.handled[p]
    BY <1>0 DEF LogTypes, Buffers
  <2>4. log'.handled[p] = Append(handled, Head(copy))
    BY <1>0, <1>4, <1>7, <2>3 DEF LogTypes, Buffers
  <2>5. copy # <<>> /\ Head(copy) \in Nat
    BY <1>3 DEF ProcessDirectly
  <2>6. /\ Head(copy) \in ToSet(copy) /\ ToSet(Tail(copy)) \subseteq ToSet(copy)
        /\ Increasing(Tail(copy)) /\ Precedes({Head(copy)}, ToSet(Tail(copy)))
    BY <2>2, <2>5, ElementsOfTail
  <2>7. QueueOf(p) = {} /\ QueueOf(p)' = {}
    BY <1>1 DEF QueueOf
  <2>8. Queued(p) = {} /\ Queued(p)' = {} /\ Passed(p) = ToSet(handled)
    BY <2>3, <2>7 DEF Queued, Passed
  <2>9. ToSet(log'.handled[p]) = ToSet(handled) \cup {Head(copy)} /\ Increasing(log'.handled[p])
    <3>1. Increasing(handled) /\ Precedes(ToSet(handled), {Head(copy)})
      BY <2>2, <2>3, <2>6, <2>8 DEF OrderInv, PassedInv, Precedes
    <3>. QED
      BY <2>4, <2>5, <3>1, ElementsOfAppend
  <2>10. Passed(p)' = Passed(p) \cup {Head(copy)}
    BY <2>8, <2>9 DEF Passed
  <2>11. PassedInv(p)'
    BY <1>1, <2>2, <2>6, <2>7, <2>8, <2>9, <2>10 DEF OrderInv, PassedInv, Precedes
  <2>12. BufferInv(p)'
    BY <1>1, <2>2, <2>6, <2>10 DEF OrderInv, BufferInv, Precedes
  <2>13. CopyInv(p)'
    <3>1. reader'[Handling'].copy = Tail(copy) /\ ~Dealing(p, {"erase"})'
      BY <1>1, <1>5 DEF Dealing
    <3>2. Precedes(Passed(p)', ToSet(Tail(copy)))
      BY <2>2, <2>6, <2>10 DEF Precedes
    <3>3. ToSet(Tail(copy)) \subseteq ToSet(log'.taken[p]) /\ Precedes(ToSet(Tail(copy)), ToSet(net'.buffer[p]))
      BY <1>1, <2>2, <2>6 DEF Precedes
    <3>. QED
      BY <2>6, <3>1, <3>2, <3>3 DEF CopyInv
  <2>. QED
    BY <2>11, <2>12, <2>13 DEF OrderInv
<1>. QED
  BY <1>6, <1>7

(* A worker passes the first frame of the queue to a handler.              *)
LEMMA PopOrder ==
    ASSUME Running, NEW w \in DOMAIN pool.worker, Pop(w),
           NEW p \in Peers, OrderInv(p), FollowInv(p)'
    PROVE  OrderInv(p)'
<1>0. log \in LogTypes /\ pool \in PoolTypes(m_settings)
  BY DEF Running, TypeInv
<1>1. m_settings # 2
  <2>1. Workers(m_settings) # {}
    BY <1>0 DEF PoolTypes, WorkerMaps
  <2>. QED
    BY <2>1 DEF Workers
<1>2. /\ m_settings' = m_settings /\ Handling' = Handling /\ net' = net /\ reader' = reader
      /\ log'.taken = log.taken
  BY <1>0 DEF Pop, Handle, Handling, Running, LogTypes
<1>3. PICK queue \in Seq(Peers \X Nat) : queue = pool.queue
  BY <1>0 DEF PoolTypes
<1>4. queue # <<>> /\ pool'.queue = Tail(queue)
  BY <1>0, <1>3 DEF Pop, PoolTypes
<1> DEFINE n == Len(queue)
           shorter == Tail(queue)
<1>5. /\ n \in Nat \ {0} /\ DOMAIN queue = 1 .. n /\ DOMAIN shorter = 1 .. n - 1
      /\ \A i \in 1 .. n - 1 : shorter[i] = queue[i + 1]
      /\ Head(queue) = queue[1]
  BY <1>4
<1> HIDE DEF n, shorter
<1>6. PICK q \in Peers, f \in Nat : queue[1] = <<q, f>>
  BY <1>5
<1>7. log'.handled = [log.handled EXCEPT ![q] = Append(@, f)]
  <2>1. Head(pool.queue)[1] = q /\ Head(pool.queue)[2] = f
    BY <1>3, <1>5, <1>6
  <2>2. log' = [log EXCEPT !.handled[q] = Append(@, f)]
    BY <2>1 DEF Pop, Handle
  <2>. QED
    BY <1>0, <2>2 DEF LogTypes
<1>8. QueueOf(p) = {i \in 1 .. n : queue[i][1] = p}
  BY <1>1, <1>3, <1>5 DEF QueueOf
<1>9. QueueOf(p)' = {i \in 1 .. n - 1 : queue[i + 1][1] = p}
  BY <1>1, <1>2, <1>4, <1>5 DEF QueueOf, shorter
<1>10. \A i \in QueueOf(p)' : i \in Nat /\ i + 1 \in QueueOf(p) /\ pool'.queue[i] = pool.queue[i + 1]
  BY <1>3, <1>4, <1>5, <1>8, <1>9 DEF shorter
<1>11. Queued(p)' \subseteq Queued(p)
  BY <1>10 DEF Queued
<1>12. \A i, j \in QueueOf(p)' : i < j => pool'.queue[i][2] < pool'.queue[j][2]
  BY <1>10 DEF OrderInv, PassedInv
<1>13. ASSUME PassedInv(p)', Passed(p)' \subseteq Passed(p)
       PROVE  OrderInv(p)'
  <2>1. BufferInv(p)'
    BY <1>2, <1>13 DEF OrderInv, BufferInv, Precedes
  <2>2. CopyInv(p)'
    BY <1>2, <1>13 DEF OrderInv, CopyInv, Dealing, Precedes
  <2>. QED
    BY <1>13, <2>1, <2>2 DEF OrderInv
<1>14. CASE q # p
  <2>1. log'.handled[p] = log.handled[p]
    BY <1>0, <1>7, <1>14 DEF LogTypes, Buffers
  <2>2. Passed(p)' \subseteq Passed(p)
    BY <1>11, <2>1 DEF Passed
  <2>3. PassedInv(p)'
    BY <1>2, <1>11, <1>12, <2>1, <2>2 DEF OrderInv, PassedInv, Precedes
  <2>. QED
    BY <1>13, <2>2, <2>3
<1>15. CASE q = p
  <2>1. PICK handled \in Seq(Nat) : handled = log.handled[p]
    BY <1>0 DEF LogTypes, Buffers
  <2>2. log'.handled[p] = Append(handled, f)
    BY <1>0, <1>7, <1>15, <2>1 DEF LogTypes, Buffers
  <2>3. 1 \in QueueOf(p) /\ pool.queue[1][2] = f
    BY <1>3, <1>5, <1>6, <1>8, <1>15
  <2>4. f \in Queued(p)
    BY <2>3 DEF Queued
  <2>5. Precedes({f}, Queued(p)')
    <3>1. ASSUME NEW i \in QueueOf(p)' PROVE f < pool'.queue[i][2]
      <4>1. 1 < i + 1 /\ i + 1 \in QueueOf(p)
        BY <1>5, <1>9, <1>10, <3>1
      <4>. QED
        BY <1>10, <2>3, <4>1 DEF OrderInv, PassedInv
    <3>. QED
      BY <3>1 DEF Precedes, Queued
  <2>6. ToSet(log'.handled[p]) = ToSet(handled) \cup {f} /\ Increasing(log'.handled[p])
    <3>1. Increasing(handled) /\ Precedes(ToSet(handled), {f})
      BY <2>1, <2>4 DEF OrderInv, PassedInv, Precedes
    <3>. QED
      BY <2>2, <3>1, ElementsOfAppend
  <2>7. Passed(p)' \subseteq Passed(p)
    BY <1>11, <2>1, <2>4, <2>6 DEF Passed
  <2>8. Precedes(ToSet(log'.handled[p]), Queued(p)')
    BY <1>11, <2>1, <2>5, <2>6 DEF OrderInv, PassedInv, Precedes
  <2>9. PassedInv(p)'
    BY <1>2, <1>12, <2>6, <2>7, <2>8 DEF OrderInv, PassedInv
  <2>. QED
    BY <1>13, <2>7, <2>9
<1>. QED
  BY <1>14, <1>15

-----------------------------------------------------------------------------
(* Mixed once, mixed for ever.                                             *)
LEMMA MixedGrows ==
    ASSUME TypeInv, [Next]_vars
    PROVE  log.mixed \subseteq log'.mixed
<1>0. log \in LogTypes
  BY DEF TypeInv
<1>1. CASE Listen \/ ListenFails \/ Race \/ UNCHANGED vars
  BY <1>1 DEF Listen, ListenFails, Race, vars
<1>2. CASE Threads
  <2>0. Running
    BY <1>2 DEF Threads, Running
  <2>1. ASSUME NEW p \in Peers, Send(p) PROVE log.mixed \subseteq log'.mixed
    BY <2>1 DEF Send
  <2>2. ASSUME NEW m \in Modes, Receiver(m) PROVE log.mixed \subseteq log'.mixed
    BY <1>0, <2>2 DEF Receiver, AcceptNothing, Accept, Count, AddClient, LogConnected, RecvNothing, Recv,
         Insert, RoundDone, LogTypes
  <2>3. ASSUME NEW m \in Modes, ReaderStep(m) PROVE log.mixed \subseteq log'.mixed
    <3>1. CASE Erase(m)
      BY <1>0, <3>1 DEF Erase, LogTypes
    <3>. QED
      BY <2>0, <2>3, <3>1, ReaderLeaves
  <2>4. ASSUME NEW w \in DOMAIN pool.worker, Worker(w) PROVE log.mixed \subseteq log'.mixed
    BY <1>0, <2>4 DEF Worker, Pop, AddSad, Finish, Handle, LogTypes
  <2>. QED
    BY <1>2, <2>1, <2>2, <2>3, <2>4 DEF Threads
<1>. QED
  BY <1>1, <1>2 DEF Next

LEMMA NextOrder ==
    ASSUME TypeInv, [Next]_vars, NEW p \in Peers, FlowInv(p), OrderInv(p), p \notin log'.mixed
    PROVE  OrderInv(p)'
<1>0. FollowInv(p)'
  BY NextFlow DEF FlowKept, OrderInv
<1>1. CASE Listen
  BY <1>0, <1>1, ListenOrder
<1>2. CASE ListenFails \/ Race \/ UNCHANGED vars
  <2>1. UNCHANGED <<m_settings, net, reader, pool, log>>
    BY <1>2 DEF ListenFails, Race, vars
  <2>. QED
    BY <1>0, <2>1, NoReading
<1>3. CASE Threads
  <2>0. Running
    BY <1>3 DEF Threads, Running
  <2>1. ASSUME NEW m \in Modes, ReaderStep(m) PROVE OrderInv(p)'
    <3>1. CASE m = Handling
      <4>1. CASE Push(m)
        BY <1>0, <2>0, <3>1, <4>1, PushOrder
      <4>2. CASE ProcessDirectly(m)
        BY <1>0, <2>0, <3>1, <4>2, ProcessOrder
      <4>3. CASE \/ GetClients(m) \/ CopyNothing(m) \/ Copy(m) \/ Erase(m) \/ LockDirectly(m)
                 \/ AddSadDirectly(m) \/ UnlockDirectly(m) \/ DirectReaderThrows(m)
        BY <1>0, <2>0, <3>1, <4>3, ReadingOrder
      <4>. QED
        BY <2>1, <4>1, <4>2, <4>3 DEF ReaderStep
    <3>. QED
      BY <1>0, <2>0, <2>1, <3>1, OtherReaderOrder
  <2>2. ASSUME NEW w \in DOMAIN pool.worker, Worker(w) PROVE OrderInv(p)'
    <3>1. CASE Pop(w)
      BY <1>0, <2>0, <3>1, PopOrder
    <3>2. CASE AddSad(w) \/ \E pc \in {"idle", "dead"} : Finish(w, pc)
      <4>1. /\ UNCHANGED <<net, reader, log>> /\ pool'.queue = pool.queue
            /\ m_settings' = m_settings
        BY <2>0, <3>2 DEF AddSad, Finish, Running, TypeInv, PoolTypes
      <4>. QED
        BY <1>0, <4>1, NoReading
    <3>. QED
      BY <2>2, <3>1, <3>2 DEF Worker
  <2>3. ASSUME NEW q \in Peers, Send(q) PROVE OrderInv(p)'
    BY <1>0, <2>0, <2>3, SendOrder
  <2>4. ASSUME NEW m \in Modes, Receiver(m) PROVE OrderInv(p)'
    BY <1>0, <2>0, <2>4, ReceiverOrder
  <2>. QED
    BY <1>3, <2>1, <2>2, <2>3, <2>4 DEF Threads
<1>. QED
  BY <1>1, <1>2, <1>3 DEF Next
-----------------------------------------------------------------------------
FlowAlways == TypeInv /\ \A p \in Peers : FlowInv(p)

OrderAlways == FlowAlways /\ \A p \in Peers \ log.mixed : OrderInv(p)

(***************************************************************************)
(* The inductive invariant of the frames: whatever the receivers and readers *)
(* do, those of a peer are on their way, held by a receiver, buffered or   *)
(* taken, and no two of these overlap but the last two (server.cpp:73-140, *)
(* 176-245, server_socket.cpp:83-98).                                      *)
(***************************************************************************)
THEOREM FlowInvariant == Spec => []FlowAlways
<1>1. Init => FlowAlways
  BY InitTypeInv, InitFlow DEF FlowAlways
<1>2. FlowAlways /\ [Next]_vars => FlowAlways'
  <2> SUFFICES ASSUME FlowAlways, [Next]_vars PROVE FlowAlways'
    OBVIOUS
  <2>1. TypeInv'
    BY NextTypeInv DEF FlowAlways
  <2>2. ASSUME NEW p \in Peers PROVE FlowInv(p)'
    BY NextFlow DEF FlowAlways, FlowKept
  <2>. QED
    BY <2>1, <2>2 DEF FlowAlways
<1>. QED
  BY <1>1, <1>2, PTL DEF Spec

(***************************************************************************)
(* The inductive invariant of the order: for a peer whose frames were not  *)
(* mixed, what is handled, queued, copied and buffered is one increasing   *)
(* sequence (server.cpp:112-136, 198-222, 233-245).                        *)
(***************************************************************************)
THEOREM OrderInvariant == Spec => []OrderAlways
<1>1. Init => OrderAlways
  BY InitTypeInv, InitFlow, InitOrder DEF FlowAlways, OrderAlways
<1>2. OrderAlways /\ FlowAlways' /\ [Next]_vars => OrderAlways'
  <2> SUFFICES ASSUME OrderAlways, FlowAlways', [Next]_vars PROVE OrderAlways'
    OBVIOUS
  <2>1. ASSUME NEW p \in Peers, p \notin log'.mixed PROVE OrderInv(p)'
    <3>1. p \notin log.mixed
      BY <2>1, MixedGrows DEF FlowAlways, OrderAlways
    <3>. QED
      BY <2>1, <3>1, NextOrder DEF FlowAlways, OrderAlways
  <2>2. \A p \in Peers \ log'.mixed : OrderInv(p)'
    BY <2>1
  <2>. QED
    BY <2>2 DEF OrderAlways
<1>. QED
  BY <1>1, <1>2, FlowInvariant, PTL DEF Spec

(***************************************************************************)
(* For any options, peers and numbers of packets: no packet of a peer whose *)
(* frames were not mixed is passed to a handler twice or before one that was *)
(* sent earlier (server.cpp:73-140, 176-245).                              *)
(***************************************************************************)
THEOREM OrderKept == Spec => []HandledInOrder
<1>1. OrderAlways => HandledInOrder
  BY DEF OrderAlways, OrderInv, PassedInv, Increasing, HandledInOrder
<1>. QED
  BY <1>1, OrderInvariant, PTL

(***************************************************************************)
(* For any options, peers and numbers of packets: there are not more frames *)
(* lost than frames that were read again (server.cpp:112-126, 198-212).    *)
(***************************************************************************)
THEOREM NothingVanishes == Spec => []LossesAreRepeats
<1>1. FlowAlways => LossesAreRepeats
  BY LostFrames DEF FlowAlways, LossesAreRepeats
<1>. QED
  BY <1>1, FlowInvariant, PTL

-----------------------------------------------------------------------------
(***************************************************************************)
(* What is handled, queued or about to be has been taken from the buffer.  *)
(***************************************************************************)

Leaving == {"lock", "process", "sad"}

CopyTaken(m, p) ==
    reader[m].pc \in Leaving /\ Head(reader[m].todo) = p =>
        ToSet(reader[m].copy) \subseteq ToSet(log.taken[p])

QueueTaken(p) ==
    \A i \in DOMAIN pool.queue :
        pool.queue[i][1] = p => pool.queue[i][2] \in ToSet(log.taken[p])

HandledTaken(p) == ToSet(log.handled[p]) \subseteq ToSet(log.taken[p])

(* For every peer, mixed or not.                                           *)
TakenInv(p) == HandledTaken(p) /\ QueueTaken(p) /\ \A m \in Modes : CopyTaken(m, p)

(* What does not change stays, as long as nothing is taken.                *)
LEMMA TakenOnly ==
    ASSUME NEW p \in Peers, TakenInv(p), log'.taken[p] = log.taken[p]
    PROVE  /\ log'.handled[p] = log.handled[p] => HandledTaken(p)'
           /\ pool'.queue = pool.queue => QueueTaken(p)'
           /\ \A m \in Modes : reader'[m] = reader[m] => CopyTaken(m, p)'
  BY DEF TakenInv, HandledTaken, QueueTaken, CopyTaken

LEMMA EraseTaken ==
    ASSUME Running, NEW m \in Modes, Erase(m), NEW p \in Peers, TakenInv(p)
    PROVE  TakenInv(p)'
<1> USE DEF ReaderAt
<1>0. /\ reader[m] \in ReaderTypes /\ ReaderStage(m) /\ log \in LogTypes
      /\ reader \in [Modes -> ReaderTypes]
  BY DEF Running, TypeInv
<1>1. PICK q \in Peers : q = Head(reader[m].todo)
  BY <1>0, TailOfClients DEF Erase, ReaderStage, ReaderTypes
<1>2. /\ log'.taken = [log.taken EXCEPT ![q] = @ \o reader[m].copy]
      /\ log'.handled = log.handled /\ pool' = pool
      /\ reader'[m].todo = reader[m].todo /\ reader'[m].copy = reader[m].copy
      /\ \A k \in Modes \ {m} : reader'[k] = reader[k]
  BY <1>0, <1>1 DEF Erase, LogTypes, ReaderTypes
<1>3. PICK taken \in Seq(Nat), copy \in Seq(Nat) : taken = log.taken[p] /\ copy = reader[m].copy
  BY <1>0 DEF LogTypes, Buffers, ReaderTypes
<1>4. log'.taken[p] = IF q = p THEN taken \o copy ELSE taken
  BY <1>0, <1>2, <1>3 DEF LogTypes, Buffers
<1>5. ToSet(taken \o copy) = ToSet(taken) \cup ToSet(copy)
  BY ElementsOfConcat
<1>6. ToSet(log.taken[p]) \subseteq ToSet(log'.taken[p])
  BY <1>3, <1>4, <1>5
<1>7. HandledTaken(p)' /\ QueueTaken(p)'
  BY <1>2, <1>6 DEF TakenInv, HandledTaken, QueueTaken
<1>8. ASSUME NEW k \in Modes PROVE CopyTaken(k, p)'
  <2>1. CASE k = m
    BY <1>1, <1>2, <1>3, <1>4, <1>5, <2>1 DEF CopyTaken
  <2>2. CASE k # m
    BY <1>2, <1>6, <2>2 DEF TakenInv, CopyTaken
  <2>. QED
    BY <2>1, <2>2
<1>. QED
  BY <1>7, <1>8 DEF TakenInv

LEMMA PushTaken ==
    ASSUME Running, NEW m \in Modes, Push(m), NEW p \in Peers, TakenInv(p)
    PROVE  TakenInv(p)'
<1> USE DEF ReaderAt
<1>0. /\ reader[m] \in ReaderTypes /\ ReaderStage(m) /\ pool \in PoolTypes(m_settings)
      /\ reader \in [Modes -> ReaderTypes]
  BY DEF Running, TypeInv
<1>1. log' = log /\ \A k \in Modes \ {m} : reader'[k] = reader[k]
  BY <1>0 DEF Push, Continue
<1>2. reader'[m].pc \in {"get", "copy"}
  BY <1>0 DEF Push, Continue
<1>3. HandledTaken(p)' /\ \A k \in Modes : CopyTaken(k, p)'
  BY <1>1, <1>2, TakenOnly DEF CopyTaken, Leaving
<1>4. PICK q \in Peers : q = Head(reader[m].todo)
  BY <1>0, TailOfClients DEF Push, ReaderStage, ReaderTypes
<1>5. PICK S : S = Peers \X Nat
  OBVIOUS
<1> DEFINE pushed == [i \in DOMAIN reader[m].copy |-> <<q, reader[m].copy[i]>>]
<1>6. reader[m].copy \in Seq(Nat)
  BY <1>0 DEF ReaderTypes
<1>7. DOMAIN pushed = 1 .. Len(reader[m].copy) /\ \A i \in DOMAIN pushed : pushed[i] \in S
  BY <1>5, <1>6
<1>8. pushed \in Seq(S)
  <2>1. pushed = [i \in 1 .. Len(reader[m].copy) |-> pushed[i]]
    BY <1>7
  <2>2. Len(reader[m].copy) \in Nat
    BY <1>6
  <2> HIDE DEF pushed
  <2>. QED
    BY <1>7, <2>1, <2>2
<1>9. \A i \in DOMAIN pushed : pushed[i][1] = q /\ pushed[i][2] \in ToSet(reader[m].copy)
  BY <1>6, Elements
<1>10. pool'.queue = pool.queue \o pushed
  BY <1>0, <1>4 DEF Push, PoolTypes
<1> HIDE DEF pushed
<1>11. PICK s \in Seq(S), t \in Seq(S) : s = pool.queue /\ t = pushed
  BY <1>0, <1>5, <1>8 DEF PoolTypes
<1>12. \A i \in DOMAIN (s \o t) :
           \/ i \in DOMAIN s /\ (s \o t)[i] = s[i]
           \/ i - Len(s) \in DOMAIN t /\ (s \o t)[i] = t[i - Len(s)]
  OBVIOUS
<1>13. q = p => ToSet(reader[m].copy) \subseteq ToSet(log.taken[p])
  BY <1>4 DEF Push, TakenInv, CopyTaken, Leaving
<1>14. QueueTaken(p)'
  <2>1. ASSUME NEW i \in DOMAIN (s \o t), (s \o t)[i][1] = p
        PROVE  (s \o t)[i][2] \in ToSet(log.taken[p])
    <3>1. CASE i \in DOMAIN s /\ (s \o t)[i] = s[i]
      BY <1>11, <2>1, <3>1 DEF TakenInv, QueueTaken
    <3>2. CASE i - Len(s) \in DOMAIN t /\ (s \o t)[i] = t[i - Len(s)]
      BY <1>9, <1>11, <1>13, <2>1, <3>2
    <3>. QED
      BY <1>12, <3>1, <3>2
  <2>. QED
    BY <1>1, <1>10, <1>11, <2>1 DEF QueueTaken
<1>. QED
  BY <1>3, <1>14 DEF TakenInv

LEMMA HandleTaken ==
    ASSUME Running, NEW p \in Peers, NEW q \in Peers, NEW f \in Nat, Handle(q, f),
           HandledTaken(p), q = p => f \in ToSet(log.taken[p])
    PROVE  log'.taken = log.taken /\ HandledTaken(p)'
<1>0. log \in LogTypes
  BY DEF Running, TypeInv
<1>1. log'.taken = log.taken /\ log'.handled = [log.handled EXCEPT ![q] = Append(@, f)]
  BY <1>0 DEF Handle, LogTypes
<1>2. PICK handled \in Seq(Nat) : handled = log.handled[p]
  BY <1>0 DEF LogTypes, Buffers
<1>3. log'.handled[p] = IF q = p THEN Append(handled, f) ELSE handled
  BY <1>0, <1>1, <1>2 DEF LogTypes, Buffers
<1>4. ToSet(Append(handled, f)) = ToSet(handled) \cup {f}
  BY ElementsOfAppend
<1>. QED
  BY <1>1, <1>2, <1>3, <1>4 DEF HandledTaken

LEMMA ProcessTaken ==
    ASSUME Running, NEW m \in Modes, ProcessDirectly(m), NEW p \in Peers, TakenInv(p)
    PROVE  TakenInv(p)'
<1> USE DEF ReaderAt
<1>0. /\ reader[m] \in ReaderTypes /\ ReaderStage(m) /\ reader \in [Modes -> ReaderTypes]
  BY DEF Running, TypeInv
<1>1. PICK q \in Peers : q = Head(reader[m].todo)
  BY <1>0, TailOfClients DEF ProcessDirectly, ReaderStage, ReaderTypes
<1>2. PICK copy \in Seq(Nat) : copy = reader[m].copy
  BY <1>0 DEF ReaderTypes
<1>3. Head(copy) \in ToSet(copy) /\ Head(copy) \in Nat /\ ToSet(Tail(copy)) \subseteq ToSet(copy)
  <2>1. copy # <<>>
    BY <1>2 DEF ProcessDirectly
  <2>. QED
    BY <2>1, Elements, ElementsOfTail
<1>4. q = p => ToSet(copy) \subseteq ToSet(log.taken[p])
  BY <1>1, <1>2 DEF ProcessDirectly, TakenInv, CopyTaken, Leaving
<1>5. log'.taken = log.taken /\ HandledTaken(p)'
  BY <1>1, <1>2, <1>3, <1>4, HandleTaken DEF ProcessDirectly, TakenInv
<1>6. /\ \A k \in Modes \ {m} : reader'[k] = reader[k]
      /\ reader'[m].todo = reader[m].todo /\ reader'[m].copy = Tail(copy)
  <2>1. PICK pc \in {"sad", "process"} :
            reader' = [reader EXCEPT ![m].copy = Tail(@), ![m].pc = pc]
    BY DEF ProcessDirectly
  <2>. QED
    BY <1>0, <1>2, <2>1 DEF ReaderTypes
<1>7. \A k \in Modes \ {m} : CopyTaken(k, p)'
  BY <1>5, <1>6, TakenOnly
<1>8. CopyTaken(m, p)'
  BY <1>1, <1>3, <1>4, <1>5, <1>6 DEF CopyTaken
<1>9. QueueTaken(p)'
  BY <1>5, TakenOnly DEF ProcessDirectly
<1>. QED
  BY <1>5, <1>7, <1>8, <1>9 DEF TakenInv

LEMMA PopTaken ==
    ASSUME Running, NEW w \in DOMAIN pool.worker, Pop(w), NEW p \in Peers, TakenInv(p)
    PROVE  TakenInv(p)'
<1>0. pool \in PoolTypes(m_settings)
  BY DEF Running, TypeInv
<1>1. PICK S : S = Peers \X Nat
  OBVIOUS
<1>2. PICK s \in Seq(S) : s = pool.queue
  BY <1>0, <1>1 DEF PoolTypes
<1>3. s # <<>> /\ pool'.queue = Tail(s)
  BY <1>0, <1>2 DEF Pop, PoolTypes
<1>4. /\ 1 \in DOMAIN s /\ Head(s) = s[1] /\ s[1] \in S
      /\ \A i \in DOMAIN Tail(s) : i + 1 \in DOMAIN s /\ Tail(s)[i] = s[i + 1]
  BY <1>3
<1>5. PICK q \in Peers, f \in Nat : s[1] = <<q, f>>
  BY <1>1, <1>4
<1>6. Handle(q, f)
  BY <1>2, <1>4, <1>5 DEF Pop
<1>7. q = p => f \in ToSet(log.taken[p])
  BY <1>2, <1>4, <1>5 DEF TakenInv, QueueTaken
<1>8. log'.taken = log.taken /\ HandledTaken(p)'
  BY <1>6, <1>7, HandleTaken DEF TakenInv
<1>9. QueueTaken(p)'
  BY <1>2, <1>3, <1>4, <1>8 DEF TakenInv, QueueTaken
<1>10. \A k \in Modes : CopyTaken(k, p)'
  BY <1>8, TakenOnly DEF Pop
<1>. QED
  BY <1>8, <1>9, <1>10 DEF TakenInv

LEMMA NextTaken ==
    ASSUME TypeInv, [Next]_vars, NEW p \in Peers, TakenInv(p)
    PROVE  TakenInv(p)'
<1>1. CASE Listen
  <2>1. log' = log /\ pool'.queue = <<>>
    BY <1>1 DEF Listen, NoPool
  <2>2. \A m \in Modes : reader'[m].pc \in {"get", "none"}
    BY <1>1, StartTypes DEF Listen
  <2>3. HandledTaken(p)'
    BY <2>1, TakenOnly
  <2>4. QueueTaken(p)' /\ \A m \in Modes : CopyTaken(m, p)'
    BY <2>1, <2>2 DEF QueueTaken, CopyTaken, Leaving
  <2>. QED
    BY <2>3, <2>4 DEF TakenInv
<1>2. CASE ListenFails \/ Race \/ UNCHANGED vars
  <2>1. UNCHANGED <<reader, pool, log>>
    BY <1>2 DEF ListenFails, Race, vars
  <2>. QED
    BY <2>1, TakenOnly DEF TakenInv
<1>3. CASE Threads
  <2>0. Running
    BY <1>3 DEF Threads, Running
  <2>1. ASSUME NEW q \in Peers, Send(q) PROVE TakenInv(p)'
    BY <2>1, TakenOnly DEF Send, TakenInv
  <2>2. ASSUME NEW m \in Modes, Receiver(m) PROVE TakenInv(p)'
    <3>1. /\ reader' = reader /\ pool' = pool
          /\ log'.handled = log.handled /\ log'.taken = log.taken
      BY <2>0, <2>2 DEF Receiver, AcceptNothing, Accept, Count, AddClient, LogConnected, RecvNothing, Recv,
         Insert, RoundDone, LogTypes, Running, TypeInv
    <3>. QED
      BY <3>1, TakenOnly DEF TakenInv
  <2>3. ASSUME NEW m \in Modes, ReaderStep(m) PROVE TakenInv(p)'
    <3>0. /\ reader[m] \in ReaderTypes /\ reader \in [Modes -> ReaderTypes]
          /\ pool \in PoolTypes(m_settings)
      BY <2>0 DEF Running, TypeInv
    <3>1. CASE Erase(m)
      BY <2>0, <3>1, EraseTaken
    <3>2. CASE Push(m)
      BY <2>0, <3>2, PushTaken
    <3>3. CASE ProcessDirectly(m)
      BY <2>0, <3>3, ProcessTaken
    <3>4. CASE \/ GetClients(m) \/ CopyNothing(m) \/ Copy(m)
               \/ UnlockDirectly(m) \/ DirectReaderThrows(m)
      <4>1. log' = log /\ pool'.queue = pool.queue
        BY <3>0, <3>4 DEF GetClients, CopyNothing, Copy, UnlockDirectly, DirectReaderThrows, PoolTypes
      <4>2. \A k \in Modes \ {m} : reader'[k] = reader[k]
        BY <2>0, <2>3, OtherReader
      <4>3. reader'[m].pc \in {"get", "copy", "erase", "none"}
        BY <3>0, <3>4, StartTypes
           DEF GetClients, CopyNothing, Copy, UnlockDirectly, DirectReaderThrows, Continue, ReaderTypes
      <4>4. CopyTaken(m, p)'
        BY <4>3 DEF CopyTaken, Leaving
      <4>. QED
        BY <4>1, <4>2, <4>4, TakenOnly DEF TakenInv
    <3>5. CASE LockDirectly(m) \/ AddSadDirectly(m)
      <4>1. log' = log /\ pool'.queue = pool.queue
        BY <3>0, <3>5 DEF LockDirectly, AddSadDirectly, PoolTypes
      <4>2. \A k \in Modes \ {m} : reader'[k] = reader[k]
        BY <2>0, <2>3, OtherReader
      <4>3. /\ reader[m].pc \in Leaving
            /\ reader'[m].todo = reader[m].todo /\ reader'[m].copy = reader[m].copy
        BY <3>0, <3>5 DEF LockDirectly, AddSadDirectly, ReaderAt, ReaderTypes, Leaving
      <4>4. CopyTaken(m, p)'
        BY <4>1, <4>3 DEF TakenInv, CopyTaken
      <4>. QED
        BY <4>1, <4>2, <4>4, TakenOnly DEF TakenInv
    <3>. QED
      BY <2>3, <3>1, <3>2, <3>3, <3>4, <3>5 DEF ReaderStep
  <2>4. ASSUME NEW w \in DOMAIN pool.worker, Worker(w) PROVE TakenInv(p)'
    <3>1. CASE Pop(w)
      BY <2>0, <3>1, PopTaken
    <3>2. CASE AddSad(w) \/ \E pc \in {"idle", "dead"} : Finish(w, pc)
      <4>1. UNCHANGED <<reader, log>> /\ pool'.queue = pool.queue
        BY <2>0, <3>2 DEF AddSad, Finish, Running, TypeInv, PoolTypes
      <4>. QED
        BY <4>1, TakenOnly DEF TakenInv
    <3>. QED
      BY <2>4, <3>1, <3>2 DEF Worker
  <2>. QED
    BY <1>3, <2>1, <2>2, <2>3, <2>4 DEF Threads
<1>. QED
  BY <1>1, <1>2, <1>3 DEF Next

TakenAlways == FlowAlways /\ \A p \in Peers : TakenInv(p)

(***************************************************************************)
(* The inductive invariant behind it: handlers see nothing that was not taken *)
(* from a read buffer (server.cpp:112-136, 198-222, 233-245).              *)
(***************************************************************************)
THEOREM TakenInvariant == Spec => []TakenAlways
<1>1. ASSUME Init, NEW p \in Peers PROVE TakenInv(p)
  <2>1. log.handled[p] = <<>> /\ pool.queue = <<>> /\ \A m \in Modes : reader[m].pc = "none"
    BY <1>1, StartTypes DEF Init, NoPool
  <2>. QED
    BY <2>1, ElementsOfEmpty DEF TakenInv, HandledTaken, QueueTaken, CopyTaken, Leaving
<1>2. Init => TakenAlways
  BY <1>1, InitTypeInv, InitFlow DEF FlowAlways, TakenAlways
<1>3. TakenAlways /\ FlowAlways' /\ [Next]_vars => TakenAlways'
  BY NextTaken DEF FlowAlways, TakenAlways
<1>. QED
  BY <1>2, <1>3, FlowInvariant, PTL DEF Spec

LEMMA NumbersUpTo ==
    ASSUME NEW n \in Nat, NEW s \in Seq(Nat), ToSet(s) \subseteq 1 .. n
    PROVE  s \in Seq(1 .. n)
<1>1. PICK S : S = 1 .. n
  OBVIOUS
<1>2. \A i \in 1 .. Len(s) : s[i] \in S
  BY <1>1, Elements
<1>3. [i \in 1 .. Len(s) |-> s[i]] \in Seq(S)
  BY <1>2
<1>4. s = [i \in 1 .. Len(s) |-> s[i]]
  OBVIOUS
<1>. QED
  BY <1>1, <1>3, <1>4

(***************************************************************************)
(* Type correctness for any options, peers and numbers of packets; above all *)
(* that no frame turns up anywhere that its peer has not sent, and that a  *)
(* reader has a client where it takes the first one of those left          *)
(* (server.cpp:103-140, 188-230).                                          *)
(***************************************************************************)
THEOREM TypeCorrect == Spec => []TypeOK
<1>1. TakenAlways => TypeOK
  <2> SUFFICES ASSUME TakenAlways PROVE TypeOK
    OBVIOUS
  <2>0. TypeInv
    BY DEF TakenAlways, FlowAlways
  <2>1. ASSUME NEW p \in Peers
        PROVE  /\ net.wire[p] \in Seq(1 .. net.sent[p]) /\ net.buffer[p] \in Seq(1 .. net.sent[p])
               /\ log.taken[p] \in Seq(1 .. net.sent[p]) /\ log.handled[p] \in Seq(1 .. net.sent[p])
    <3>1. /\ net.wire[p] \in Seq(Nat) /\ net.buffer[p] \in Seq(Nat)
          /\ log.taken[p] \in Seq(Nat) /\ log.handled[p] \in Seq(Nat)
      BY <2>0 DEF TypeInv, NetTypes, LogTypes, Buffers
    <3>2. /\ ToSet(net.wire[p]) \subseteq 1 .. net.sent[p] /\ ToSet(net.buffer[p]) \subseteq 1 .. net.sent[p]
          /\ ToSet(log.taken[p]) \subseteq 1 .. net.sent[p] /\ ToSet(log.handled[p]) \subseteq 1 .. net.sent[p]
      BY DEF TakenAlways, FlowAlways, TakenInv, HandledTaken, FlowInv, Flowing, Inside
    <3>3. net.sent[p] \in Nat
      BY <2>0 DEF TypeInv, NetTypes
    <3>. QED
      BY <3>1, <3>2, <3>3, NumbersUpTo
  <2>2. /\ m_settings \in Options /\ main \in {"listen", "wait", "exit"}
        /\ net.sent \in [Peers -> Nat] /\ net.counter \in Nat /\ net.pending \subseteq Peers
        /\ pool.queue \in Seq(Peers \X Nat) /\ pool.mutex \in {"free", "directReader", "worker"}
    BY <2>0 DEF TypeInv, NetTypes, PoolTypes
  <2>3. Range(net.m_clients) \subseteq Peers
    BY <2>0 DEF TypeInv, NetTypes, ClientMaps, Range
  <2>4. \A m \in Modes :
           /\ receiver[m].pc \in {"none", "accept", "count", "add", "log", "recv", "insert"}
           /\ reader[m].pc \in {"none", "get", "copy", "erase", "lock", "process", "sad"}
           /\ reader[m].pc \in {"copy", "erase", "lock", "process", "sad"} => reader[m].todo # <<>>
    BY <2>0 DEF TypeInv, ReceiverTypes, ReaderTypes, ReaderStage
  <2>. QED
    BY <2>1, <2>2, <2>3, <2>4 DEF TypeOK
<1>. QED
  BY <1>1, TakenInvariant, PTL
=============================================================================
