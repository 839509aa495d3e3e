------------------------------- MODULE Launch -------------------------------
(***************************************************************************)
(* Server::Listen: which threads the server runs with --threads=N, and     *)
(* what becomes of the packets when they all work on the same clients.     *)
(* The cases of its switch fall through:                                   *)
(*                                                                         *)
(*   N = 1   SingleThreaded, which does not return (module SingleThreaded) *)
(*   N = 2   Create2Threads: a receiver and a reader that processes what   *)
(*           it reads itself; and Multithreaded, with no worker            *)
(*   others  Multithreaded: a receiver, a reader that queues what it       *)
(*           reads, and N - 2 workers, or none (module Multithreaded)      *)
(*                                                                         *)
(* Frames travel whole here; those of a peer are the numbers 1, 2, ...     *)
(* Accesses that race with each other are separate steps, and Race adds    *)
(* that anything may follow; the module goes no further then.              *)
(***************************************************************************)
EXTENDS Integers, SequencesExt

CONSTANTS Options,    (* the numbers --threads is given                    *)
          Peers,
          MaxSends    (* bound: packets each peer sends                    *)

ASSUME OptionsAssumption == Options \subseteq Int
ASSUME SendsAssumption == MaxSends \in [Peers -> Nat]

VARIABLES
    m_settings, (* the property "threads", the option's value from main    *)
    main,       (* main listens, or waits for the threads                  *)
    net,        (* the peers and m_server: packets sent, frames on their   *)
                (* way, peers not accepted yet, the counter of client ids, *)
                (* m_clients as a function of ids, the read buffers        *)
    receiver,   (* each receiver: pc, peer and id it deals with, chunk     *)
    reader,     (* each reader: pc, clients left, copy of a read buffer    *)
    pool,       (* m_unprocessed_packets, its mutex, the workers' pcs,     *)
                (* the keys of EMOJIS                                      *)
    undefined,  (* a data race has happened                                *)
    log         (* history: the frames taken from each read buffer, those  *)
                (* passed to a handler, clients whose frames were mixed    *)

vars == <<m_settings, main, net, receiver, reader, pool, undefined, log>>

(* The functions that start a receiver and a reader.                       *)
Modes == {"Create2Threads", "Multithreaded"}

(* Mutant: one worker more.                                                *)
WorkersOneMore(threads) == IF threads = 1 THEN {} ELSE 1 .. threads - 1

(* The workers Multithreaded starts.                                       *)
Workers(threads) == IF threads = 1 THEN {} ELSE 1 .. threads - 2

(* The functions that run, SingleThreaded apart.                           *)
Cases(threads) ==
    CASE threads = 1 -> {}
      [] threads = 2 -> {"Create2Threads", "Multithreaded"}
      [] OTHER       -> {"Multithreaded"}

FreshNet ==
    [sent      |-> [p \in Peers |-> 0],
     wire      |-> [p \in Peers |-> <<>>],
     pending   |-> Peers,
     counter   |-> 0,
     m_clients |-> <<>>,
     buffer    |-> [p \in Peers |-> <<>>]]

Receiving == [pc |-> "accept", peer |-> "none", id |-> -1, chunk |-> <<>>]
Reading == [pc |-> "get", todo |-> <<>>, copy |-> <<>>]

NoReceiver == [Receiving EXCEPT !.pc = "none"]
NoReader == [Reading EXCEPT !.pc = "none"]

(* The keys of the table of that name that the server looks up, as far as  *)
(* they are in it.  operator[] adds one that is not: "sad".                *)
EMOJIS == {"card_file_box", "link", "smile"}

NoPool == [queue |-> <<>>, mutex |-> "free", worker |-> <<>>, emojis |-> EMOJIS]

Init ==
    /\ m_settings \in Options
    /\ main = "listen"
    /\ net = FreshNet
    /\ receiver = [m \in Modes |-> NoReceiver]
    /\ reader = [m \in Modes |-> NoReader]
    /\ pool = NoPool
    /\ undefined = FALSE
    /\ log = [taken |-> [p \in Peers |-> <<>>], handled |-> [p \in Peers |-> <<>>], mixed |-> {}]

(* m_server.Bind, m_server.Queue, and the switch.                          *)
Listen ==
    /\ main = "listen"
    /\ main' = "wait"
    /\ receiver' = [m \in Modes |-> IF m \in Cases(m_settings) THEN Receiving ELSE NoReceiver]
    /\ reader' = [m \in Modes |-> IF m \in Cases(m_settings) THEN Reading ELSE NoReader]
    /\ pool' = [NoPool EXCEPT !.worker = [w \in Workers(m_settings) |-> "idle"]]
    /\ UNCHANGED <<m_settings, net, undefined, log>>

(* bind or listen fails: exit(1).                                          *)
ListenFails ==
    /\ main = "listen"
    /\ main' = "exit"
    /\ UNCHANGED <<m_settings, net, receiver, reader, pool, undefined, log>>
-----------------------------------------------------------------------------
Send(p) ==
    /\ net.sent[p] < MaxSends[p]
    /\ net' = [net EXCEPT !.sent[p] = @ + 1,
                          !.wire[p] = Append(@, net.sent[p] + 1)]
    /\ UNCHANGED <<receiver, reader, pool, log>>
-----------------------------------------------------------------------------
(* A receiver.                                                             *)

At(m, pc) == receiver[m].pc = pc

(* "accept" and "log" lead to the loop over m_clients.                     *)
Loop(m) == receiver' = [receiver EXCEPT ![m] = [Receiving EXCEPT !.pc = "recv"]]

(* accept() would block, or failed.  A failure uses up an id, too, which   *)
(* skips one; Accounts (AcceptFails) shows what that does.  It matters     *)
(* neither to the order of the ids nor to which two are the same.          *)
AcceptNothing(m) ==
    /\ At(m, "accept")
    /\ Loop(m)
    /\ UNCHANGED <<net, reader, pool, log>>

(* accept() has returned p; m_clientIdCounter++ reads ...                  *)
Accept(m, p) ==
    /\ At(m, "accept")
    /\ p \in net.pending
    /\ net' = [net EXCEPT !.pending = @ \ {p}]
    /\ receiver' = [receiver EXCEPT ![m] =
                       [pc |-> "count", peer |-> p, id |-> net.counter, chunk |-> <<>>]]
    /\ UNCHANGED <<reader, pool, log>>

(* ... and writes.  From here on m_clients is being changed.               *)
Count(m) ==
    /\ At(m, "count")
    /\ net' = [net EXCEPT !.counter = receiver[m].id + 1]
    /\ receiver' = [receiver EXCEPT ![m].pc = "add"]
    /\ UNCHANGED <<reader, pool, log>>

InsertOrAssign(clients, id, client) ==
    [i \in DOMAIN clients \cup {id} |-> IF i = id THEN client ELSE clients[i]]

AddClient(m) ==
    /\ At(m, "add")
    /\ net' = [net EXCEPT !.m_clients = InsertOrAssign(@, receiver[m].id, receiver[m].peer)]
    /\ receiver' = [receiver EXCEPT ![m].pc = "log"]
    /\ UNCHANGED <<reader, pool, log>>

(* EMOJIS["link"]                                                          *)
LogConnected(m) ==
    /\ At(m, "log")
    /\ Loop(m)
    /\ UNCHANGED <<net, reader, pool, log>>

(* The clients the running ClientsRecv has still to visit.                 *)
Unvisited(m) == {id \in DOMAIN net.m_clients : id > receiver[m].id}

(* Its next client, which has nothing, or the frames there are.            *)
RecvNothing(m) ==
    /\ At(m, "recv")
    /\ Unvisited(m) # {}
    /\ LET id == Min(Unvisited(m))
       IN  /\ net.wire[net.m_clients[id]] = <<>>
           /\ receiver' = [receiver EXCEPT ![m].id = id]
    /\ UNCHANGED <<net, reader, pool, log>>

Recv(m) ==
    /\ At(m, "recv")
    /\ Unvisited(m) # {}
    /\ LET id == Min(Unvisited(m))
           p == net.m_clients[id]
       IN  /\ net.wire[p] # <<>>
           /\ receiver' = [receiver EXCEPT ![m] =
                              [pc |-> "insert", peer |-> p, id |-> id, chunk |-> net.wire[p]]]
           /\ net' = [net EXCEPT !.wire[p] = <<>>]
    /\ UNCHANGED <<reader, pool, log>>

(* A reader has a copy of the read buffer of p it has not erased yet.      *)
Parsing(p) == \E m \in Modes : reader[m].pc = "erase" /\ Head(reader[m].todo) = p

(* The other receiver holds earlier frames of p.                           *)
Overtakes(m, p) ==
    \E n \in Modes \ {m} :
        At(n, "insert") /\ receiver[n].peer = p /\ Head(receiver[n].chunk) < Head(receiver[m].chunk)

Insert(m) ==
    /\ At(m, "insert")
    /\ LET p == receiver[m].peer
       IN  /\ net' = [net EXCEPT !.buffer[p] = receiver[m].chunk \o @]
           /\ log' = IF net.buffer[p] # <<>> \/ Parsing(p) \/ Overtakes(m, p)
                     THEN [log EXCEPT !.mixed = @ \cup {p}]
                     ELSE log
    /\ receiver' = [receiver EXCEPT ![m].pc = "recv", ![m].peer = "none", ![m].chunk = <<>>]
    /\ UNCHANGED <<reader, pool>>

RoundDone(m) ==
    /\ At(m, "recv")
    /\ Unvisited(m) = {}
    /\ receiver' = [receiver EXCEPT ![m] = Receiving]
    /\ UNCHANGED <<net, reader, pool, log>>
-----------------------------------------------------------------------------
(* A reader.                                                               *)

ReaderAt(m, pc) == reader[m].pc = pc

(* The values of a std::map, in the order of its keys.                     *)
InIdOrder(clients) ==
    LET Before(id) == Cardinality({i \in DOMAIN clients : i < id})
    IN  [n \in 1 .. Cardinality(DOMAIN clients) |->
            clients[CHOOSE id \in DOMAIN clients : Before(id) = n - 1]]

(* Mutant: no clients are treated like some.                               *)
GetClientsAny(m) ==
    /\ ReaderAt(m, "get")
    /\ reader' = [reader EXCEPT ![m].todo = InIdOrder(net.m_clients), ![m].pc = "copy"]
    /\ UNCHANGED <<net, receiver, pool, log>>

GetClients(m) ==
    /\ ReaderAt(m, "get")
    /\ reader' = [reader EXCEPT ![m].todo = InIdOrder(net.m_clients),
                                ![m].pc = IF net.m_clients = <<>> THEN "get" ELSE "copy"]
    /\ UNCHANGED <<net, receiver, pool, log>>

Continue(m) ==
    LET left == Tail(reader[m].todo)
    IN  reader' = [reader EXCEPT ![m] =
                      [pc |-> IF left = <<>> THEN "get" ELSE "copy", todo |-> left, copy |-> <<>>]]

CopyNothing(m) ==
    /\ ReaderAt(m, "copy")
    /\ net.buffer[Head(reader[m].todo)] = <<>>
    /\ Continue(m)
    /\ UNCHANGED <<net, receiver, pool, log>>

(* Both readers take the client's mutex, so that their accesses to its     *)
(* read buffer do not overlap.                                             *)
Copy(m) ==
    /\ ReaderAt(m, "copy")
    /\ net.buffer[Head(reader[m].todo)] # <<>>
    /\ reader' = [reader EXCEPT ![m].pc = "erase",
                                ![m].copy = net.buffer[Head(reader[m].todo)]]
    /\ UNCHANGED <<net, receiver, pool, log>>

(* Mutant: everything is erased.                                           *)
ErasedAll(buffer, len) == <<>>

(* Frames are erased from the front, clamped to what is there.             *)
Erased(buffer, len) == SubSeq(buffer, len + 1, Len(buffer))

Erase(m) ==
    /\ ReaderAt(m, "erase")
    /\ LET p == Head(reader[m].todo)
       IN  /\ net' = [net EXCEPT !.buffer[p] = Erased(@, Len(reader[m].copy))]
           /\ log' = [log EXCEPT !.taken[p] = @ \o reader[m].copy]
    /\ reader' = [reader EXCEPT ![m].pc = "lock"]
    /\ UNCHANGED <<receiver, pool>>

(* Mutant: the mutex is not given back.                                    *)
PushLocked(m) ==
    /\ m = "Multithreaded"
    /\ ReaderAt(m, "lock")
    /\ pool.mutex = "free"
    /\ pool' = [pool EXCEPT !.mutex = "worker",
                            !.queue = @ \o [i \in DOMAIN reader[m].copy |->
                                               <<Head(reader[m].todo), reader[m].copy[i]>>]]
    /\ Continue(m)
    /\ UNCHANGED <<net, receiver, log>>

(* The reader of Multithreaded queues its frames ...                       *)
Push(m) ==
    /\ m = "Multithreaded"
    /\ ReaderAt(m, "lock")
    /\ pool.mutex = "free"
    /\ pool' = [pool EXCEPT !.queue = @ \o [i \in DOMAIN reader[m].copy |->
                                               <<Head(reader[m].todo), reader[m].copy[i]>>]]
    /\ Continue(m)
    /\ UNCHANGED <<net, receiver, log>>

(* ... that of Create2Threads runs their handlers under the same mutex.    *)
LockDirectly(m) ==
    /\ m = "Create2Threads"
    /\ ReaderAt(m, "lock")
    /\ pool.mutex = "free"
    /\ pool' = [pool EXCEPT !.mutex = "directReader"]
    /\ reader' = [reader EXCEPT ![m].pc = "process"]
    /\ UNCHANGED <<net, receiver, log>>

Handle(p, frame) == log' = [log EXCEPT !.handled[p] = Append(@, frame)]

(* ProcessPacket.  The first handler that refuses a log-in or a sign-up    *)
(* adds the entry "sad" to EMOJIS, which has none.                         *)
ProcessDirectly(m) ==
    /\ ReaderAt(m, "process")
    /\ reader[m].copy # <<>>
    /\ Handle(Head(reader[m].todo), Head(reader[m].copy))
    /\ \E refuses \in {FALSE, "sad" \notin pool.emojis} :
           reader' = [reader EXCEPT ![m].copy = Tail(@),
                                    ![m].pc = IF refuses THEN "sad" ELSE "process"]
    /\ UNCHANGED <<net, receiver, pool>>

AddSadDirectly(m) ==
    /\ ReaderAt(m, "sad")
    /\ pool' = [pool EXCEPT !.emojis = @ \cup {"sad"}]
    /\ reader' = [reader EXCEPT ![m].pc = "process"]
    /\ UNCHANGED <<net, receiver, log>>

UnlockDirectly(m) ==
    /\ ReaderAt(m, "process")
    /\ reader[m].copy = <<>>
    /\ pool' = [pool EXCEPT !.mutex = "free"]
    /\ Continue(m)
    /\ UNCHANGED <<net, receiver, log>>

(* A handler throws: the frames left are lost, and the thread ends.        *)
DirectReaderThrows(m) ==
    /\ ReaderAt(m, "process")
    /\ pool' = [pool EXCEPT !.mutex = "free"]
    /\ reader' = [reader EXCEPT ![m] = NoReader]
    /\ UNCHANGED <<net, receiver, log>>
-----------------------------------------------------------------------------
(* A worker, its critical section up to and after ProcessPacket.           *)

Pop(w) ==
    /\ pool.worker[w] = "idle"
    /\ pool.mutex = "free"
    /\ pool.queue # <<>>
    /\ Handle(Head(pool.queue)[1], Head(pool.queue)[2])
    /\ \E refuses \in {FALSE, "sad" \notin pool.emojis} :
           pool' = [pool EXCEPT !.queue = Tail(@), !.mutex = "worker",
                                !.worker[w] = IF refuses THEN "sad" ELSE "process"]
    /\ UNCHANGED <<net, receiver, reader>>

AddSad(w) ==
    /\ pool.worker[w] = "sad"
    /\ pool' = [pool EXCEPT !.emojis = @ \cup {"sad"}, !.worker[w] = "process"]
    /\ UNCHANGED <<net, receiver, reader, log>>

Finish(w, pc) ==
    /\ pool.worker[w] = "process"
    /\ pool' = [pool EXCEPT !.mutex = "free", !.worker[w] = pc]
    /\ UNCHANGED <<net, receiver, reader, log>>
-----------------------------------------------------------------------------
AddingSad ==
    \/ \E m \in Modes : ReaderAt(m, "sad")
    \/ \E w \in DOMAIN pool.worker : pool.worker[w] = "sad"

(* Two threads are about to use the same map or read buffer without a      *)
(* common lock, and at least one of them changes it.                       *)
Racing ==
    \/ \E m \in Modes :
           /\ At(m, "add")
           /\ \/ \E n \in Modes \ {m} : At(n, "add") \/ At(n, "recv")
              \/ \E n \in Modes : ReaderAt(n, "get")
    \/ \E m \in Modes :
           /\ At(m, "insert")
           /\ \/ \E n \in Modes \ {m} : At(n, "insert") /\ receiver[n].peer = receiver[m].peer
              \/ \E n \in Modes :
                     /\ reader[n].pc \in {"copy", "erase"}
                     /\ Head(reader[n].todo) = receiver[m].peer
    \/ \E m \in Modes : At(m, "log") /\ AddingSad

Race ==
    /\ Racing
    /\ ~undefined
    /\ undefined' = TRUE
    /\ UNCHANGED <<m_settings, main, net, receiver, reader, pool, log>>

Receiver(m) ==
    \/ AcceptNothing(m)
    \/ \E p \in Peers : Accept(m, p)
    \/ Count(m)
    \/ AddClient(m)
    \/ LogConnected(m)
    \/ RecvNothing(m)
    \/ Recv(m)
    \/ Insert(m)
    \/ RoundDone(m)

ReaderStep(m) ==
    \/ GetClients(m)
    \/ CopyNothing(m)
    \/ Copy(m)
    \/ Erase(m)
    \/ Push(m)
    \/ LockDirectly(m)
    \/ ProcessDirectly(m)
    \/ AddSadDirectly(m)
    \/ UnlockDirectly(m)
    \/ DirectReaderThrows(m)

Worker(w) == Pop(w) \/ AddSad(w) \/ \E pc \in {"idle", "dead"} : Finish(w, pc)

Threads ==
    /\ main = "wait"
    /\ ~undefined
    /\ \/ \E p \in Peers : Send(p)
       \/ \E m \in Modes : Receiver(m)
       \/ \E m \in Modes : ReaderStep(m)
       \/ \E w \in DOMAIN pool.worker : Worker(w)
    /\ UNCHANGED <<m_settings, main, undefined>>

Next == Listen \/ ListenFails \/ Threads \/ Race

Spec == Init /\ [][Next]_vars

(* The readers keep being scheduled.                                       *)
FairSpec ==
    /\ Spec
    /\ \A m \in Modes :
           WF_vars(~undefined /\ ReaderStep(m) /\ UNCHANGED <<m_settings, main, undefined>>)
-----------------------------------------------------------------------------
(* Properties.                                                             *)

TypeOK ==
    /\ m_settings \in Options
    /\ main \in {"listen", "wait", "exit"}
    /\ net.sent \in [Peers -> Nat] /\ net.counter \in Nat
    /\ net.pending \subseteq Peers /\ Range(net.m_clients) \subseteq Peers
    /\ \A p \in Peers : /\ net.wire[p] \in Seq(1 .. net.sent[p])
                        /\ net.buffer[p] \in Seq(1 .. net.sent[p])
                        /\ log.taken[p] \in Seq(1 .. net.sent[p])
                        /\ log.handled[p] \in Seq(1 .. net.sent[p])
    /\ \A m \in Modes :
           /\ receiver[m].pc \in {"none", "accept", "count", "add", "log", "recv", "insert"}
           /\ reader[m].pc \in {"none", "get", "copy", "erase", "lock", "process", "sad"}
           /\ reader[m].pc \in {"copy", "erase", "lock", "process", "sad"} => reader[m].todo # <<>>
    /\ pool.queue \in Seq(Peers \X Nat)
    /\ pool.mutex \in {"free", "directReader", "worker"}

(***************************************************************************)
(* Whatever --threads is, with one reader or two, no packet is passed to a *)
(* handler twice, and a peer's packets are handled in the order it sent    *)
(* them - unless frames of it were mixed: put in front of older ones, in a *)
(* buffer a reader was about to erase from, or by one receiver before the  *)
(* other (server.cpp:73-140, 176-245).                                     *)
(***************************************************************************)
HandledInOrder ==
    \A p \in Peers \ log.mixed :
        \A i, j \in DOMAIN log.handled[p] : i < j => log.handled[p][i] < log.handled[p][j]

(***************************************************************************)
(* Frames that leave a read buffer unread are made up for by frames read   *)
(* more than once: two readers that parse the same bytes both erase them,  *)
(* the second one whatever is there by then (server.cpp:112-126, 198-212). *)
(***************************************************************************)
LossesAreRepeats ==
    \A p \in Peers :
        LET buffered == ToSet(net.buffer[p])
            read == ToSet(log.taken[p])
            inFlight == UNION {ToSet(receiver[m].chunk) :
                                  m \in {n \in Modes : At(n, "insert") /\ receiver[n].peer = p}}
            lost == (1 .. net.sent[p]) \ (ToSet(net.wire[p]) \cup inFlight \cup buffered \cup read)
        IN  Cardinality(lost)
                <= (Len(log.taken[p]) - Cardinality(read)) + Cardinality(read \cap buffered)

(***************************************************************************)
(* All that the reader of Create2Threads has taken from a read buffer is   *)
(* handled, unless it ends by an exception or a data race gets in the way: *)
(* the other reader does not keep the mutex (server.cpp:128-136, 214-222). *)
(***************************************************************************)
DirectlyReadIsHandled ==
    LET direct == reader["Create2Threads"]
    IN  (direct.pc = "lock") ~> \/ direct.pc = "process" /\ direct.copy = <<>>
                                \/ direct.pc = "none"
                                \/ undefined
=============================================================================
