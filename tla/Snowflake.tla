----------------------------- MODULE Snowflake -----------------------------
(***************************************************************************)
(* CreateSnowflake (Snowflakes/src/snowflake.cpp): the ids of users and of *)
(* worker threads, made of the milliseconds of system_clock and of a       *)
(* global counter.  Each access to the counter is atomic; the increment is *)
(* not, and the id takes the counter from a third access.                  *)
(*                                                                         *)
(* Every caller leaves worker_id at 0, so that the parts of an id do not   *)
(* overlap, and an id is modelled as the pair of them.                     *)
(***************************************************************************)
EXTENDS Naturals, Sequences

CONSTANTS Callers,          (* the threads that create ids                 *)
          SequenceModulus,  (* 2^12: sequence_mask + 1                     *)
          TimeModulus,      (* 2^23: shifted left by 41, an int64_t keeps  *)
                            (* the low 23 bits of the milliseconds         *)
          Times,            (* bound: the milliseconds the clock may show  *)
          MaxIds            (* bound: ids created                          *)

ASSUME ModuliAssumption ==
    SequenceModulus \in Nat \ {0} /\ TimeModulus \in Nat \ {0}

ASSUME TimesAssumption == Times \subseteq Nat

VARIABLES
    clock,      (* system_clock, in milliseconds since EPOCH               *)
    sequence,   (* the global counter                                      *)
    call,       (* how far each caller is in CreateSnowflake               *)
    created     (* history: the ids created, and from which milliseconds   *)

snowflakeVars == <<clock, sequence, call, created>>

Idle == [at |-> "idle", ms |-> 0, loaded |-> 0]

Calls == [at : {"idle", "load", "store", "return"}, ms : Times \cup {0},
          loaded : 0 .. SequenceModulus - 1]

Ids == (0 .. TimeModulus - 1) \X (0 .. SequenceModulus - 1)

Created == [ms : Times \cup {0}, id : Ids]

SnowflakeTypeOK ==
    /\ clock \in Times
    /\ sequence \in 0 .. SequenceModulus - 1
    /\ call \in [Callers -> Calls]
    /\ created \in Seq(Created)

SnowflakeInit ==
    /\ clock \in Times
    /\ sequence = 0
    /\ call = [c \in Callers |-> Idle]
    /\ created = <<>>

(* The wall clock shows another time; it may have been set back.           *)
ClockMoves ==
    /\ \E t \in Times : clock' = t
    /\ UNCHANGED <<sequence, call, created>>

(* Mutant: the mask is one bit short.                                      *)
SuccessorMaskShort(n) == (n + 1) % (SequenceModulus \div 2)

Successor(n) == (n + 1) % SequenceModulus

(* Mutant: no bit of the milliseconds is lost.                             *)
IdUntruncated(ms, n) == <<ms, n>>

Id(ms, n) == <<ms % TimeModulus, n>>

ReadClock(c) ==
    /\ call[c].at = "idle"
    /\ Len(created) < MaxIds
    /\ call' = [call EXCEPT ![c].at = "load", ![c].ms = clock]
    /\ UNCHANGED <<clock, sequence, created>>

Load(c) ==
    /\ call[c].at = "load"
    /\ call' = [call EXCEPT ![c].at = "store", ![c].loaded = sequence]
    /\ UNCHANGED <<clock, sequence, created>>

Store(c) ==
    /\ call[c].at = "store"
    /\ sequence' = Successor(call[c].loaded)
    /\ call' = [call EXCEPT ![c].at = "return"]
    /\ UNCHANGED <<clock, created>>

(* The counter is read once more for the id.                               *)
Return(c) ==
    /\ call[c].at = "return"
    /\ created' = Append(created, [ms |-> call[c].ms, id |-> Id(call[c].ms, sequence)])
    /\ call' = [call EXCEPT ![c] = Idle]
    /\ UNCHANGED <<clock, sequence>>

CreateSnowflake(c) == ReadClock(c) \/ Load(c) \/ Store(c) \/ Return(c)

SnowflakeNext == ClockMoves \/ \E c \in Callers : CreateSnowflake(c)

SnowflakeSpec == SnowflakeInit /\ [][SnowflakeNext]_snowflakeVars
-----------------------------------------------------------------------------
(* Callers that exclude each other, as the handlers do.                    *)

Exclusively(c) == \A d \in Callers \ {c} : call[d].at = "idle"

SerialNext ==
    \/ ClockMoves
    \/ \E c \in Callers : Exclusively(c) /\ CreateSnowflake(c)

SerialSpec == SnowflakeInit /\ [][SerialNext]_snowflakeVars
-----------------------------------------------------------------------------
(* Properties.                                                             *)

(***************************************************************************)
(* Callers that exclude each other never get the same id twice within      *)
(* SequenceModulus ids, whatever the clock does meanwhile: it may stand    *)
(* still, be set back or wrap around in the id (snowflake.cpp:16-19).      *)
(***************************************************************************)
RunsAreDistinct ==
    \A i, j \in DOMAIN created :
        i < j /\ j < i + SequenceModulus => created[i].id # created[j].id

(***************************************************************************)
(* "Does not check what happens if more than 2^12 ids are generated in a   *)
(* singe ms" (snowflake.cpp:13): as long as there are not more, the ids of *)
(* one millisecond are distinct.                                           *)
(***************************************************************************)
DistinctWithinAMillisecond ==
    \A i, j \in DOMAIN created :
        i < j /\ j < i + SequenceModulus /\ created[i].ms = created[j].ms =>
            created[i].id # created[j].id
=============================================================================
