-------------------------- MODULE Accounts_proofs --------------------------
(***************************************************************************)
(* No two accounts share a name, and a sign-up does not meet its id in the *)
(* table, for any number of workers, names, connections and restarts.      *)
(***************************************************************************)
EXTENDS Accounts, Base_proofs

(* What holds between the look-up of a sign-up and its INSERT: the mutex   *)
(* is its own, and the name is still free.                                 *)
SigningUp(w) ==
    handler[w].at \in {"create", "insert"} =>
        /\ mutex = w
        /\ UsersNamed(handler[w].username) = {}

CallsBelongToSignups ==
    \A w \in Workers : call[w].at # "idle" => handler[w].at = "create"

AccountsInv ==
    /\ TypeOK
    /\ \A w \in Workers : SigningUp(w)
    /\ CallsBelongToSignups
    /\ UsernamesUnique
-----------------------------------------------------------------------------
(* Types.                                                                  *)

LEMMA InitTypes == Init => TypeOK
<1> SUFFICES ASSUME Init PROVE TypeOK
  OBVIOUS
<1>1. SnowflakeTypeOK
  BY InitCounts DEF Init, CountInv
<1>2. DOMAIN clientId = {} /\ DOMAIN m_socket_to_user = {}
  BY DEF Init, NoEntries
<1>3. handler \in [Workers -> Handler]
  BY DEF Init, Handler
<1> QED
  BY <1>1, <1>2, <1>3 DEF Init, TypeOK

LEMMA MainIsACaller == Main \in Callers /\ Workers \subseteq Callers
  BY MainAssumption DEF Workers

LEMMA NextTypes == TypeOK /\ [Next]_vars => TypeOK'
<1> SUFFICES ASSUME TypeOK, [Next]_vars PROVE TypeOK'
  OBVIOUS
<1> USE MainIsACaller
<1>1. ASSUME NEW c \in Connections, Accept(c) PROVE TypeOK'
  <2>1. /\ DOMAIN clientId' = DOMAIN clientId \cup {c}
        /\ clientId'[c] = m_clientIdCounter
        /\ \A d \in DOMAIN clientId \ {c} : clientId'[d] = clientId[d]
    BY <1>1 DEF Accept, InsertOrAssign
  <2>2. /\ DOMAIN clientId' \subseteq Connections \ pending'
        /\ \A d \in DOMAIN clientId' : clientId'[d] \in Nat
    BY <1>1, <2>1 DEF Accept, TypeOK
  <2>3. /\ UNCHANGED <<snowflakeVars, users, m_socket_to_user, login, threadVars>>
        /\ UNCHANGED <<overlapped, restarts>>
        /\ pending' \subseteq Connections
        /\ m_clientIdCounter' \in Nat
    BY <1>1 DEF Accept, TypeOK
  <2>4. SnowflakeTypeOK'
    BY <2>3 DEF TypeOK, snowflakeVars, SnowflakeTypeOK
  <2> QED
    BY <2>2, <2>3, <2>4 DEF TypeOK, threadVars
<1>2. ASSUME AcceptFails PROVE TypeOK'
  BY <1>2 DEF AcceptFails, TypeOK, snowflakeVars, threadVars, SnowflakeTypeOK
<1>3. ASSUME NEW w \in Workers, NEW c \in Connections, NEW username \in Usernames,
             OnAuthRequest(w, c, username)
      PROVE  TypeOK'
  <2>1. PICK row \in UsersNamed(username) :
            m_socket_to_user' = InsertOrAssign(m_socket_to_user, clientId[c], row)
    BY <1>3 DEF OnAuthRequest
  <2>2. row \in Row /\ clientId[c] \in Nat
    BY <1>3, <2>1 DEF OnAuthRequest, UsersNamed, TypeOK, Open
  <2>3. /\ DOMAIN m_socket_to_user' = DOMAIN m_socket_to_user \cup {clientId[c]}
        /\ m_socket_to_user'[clientId[c]] = row
        /\ \A id \in DOMAIN m_socket_to_user \ {clientId[c]} :
              m_socket_to_user'[id] = m_socket_to_user[id]
    BY <2>1 DEF InsertOrAssign
  <2>4. /\ DOMAIN m_socket_to_user' \subseteq Nat
        /\ \A id \in DOMAIN m_socket_to_user' : m_socket_to_user'[id] \in Row
    BY <2>2, <2>3 DEF TypeOK
  <2>5. /\ UNCHANGED <<snowflakeVars, users, m_clientIdCounter, pending, clientId>>
        /\ UNCHANGED <<threadVars, overlapped, restarts>>
        /\ login' \in [Connections -> Usernames \cup {NoUser}]
    BY <1>3 DEF OnAuthRequest, TypeOK
  <2>6. SnowflakeTypeOK'
    BY <2>5 DEF TypeOK, snowflakeVars, SnowflakeTypeOK
  <2> QED
    BY <2>4, <2>5, <2>6 DEF TypeOK, threadVars
<1>4. ASSUME NEW w \in Workers, NEW c \in Connections, NEW username \in Usernames,
             OnSignupRequest(w, c, username)
      PROVE  TypeOK'
  <2>1. [at |-> "create", username |-> username] \in Handler
    BY DEF Handler
  <2> QED
    BY <1>4, <2>1 DEF OnSignupRequest, TypeOK, snowflakeVars, sessionVars, SnowflakeTypeOK
<1>5. ASSUME NEW w \in Workers, NEW c \in Connections, OnChat(w, c) PROVE TypeOK'
  <2>1. Dead \in Handler
    BY DEF Handler
  <2> QED
    BY <1>5, <2>1 DEF OnChat, TypeOK, snowflakeVars, sessionVars, SnowflakeTypeOK
<1>6. ASSUME NEW w \in Workers, CreateUserId(w) PROVE TypeOK'
  <2>1. SnowflakeTypeOK'
    BY <1>6, StepTypes DEF CreateUserId, TypeOK
  <2>2. handler[w] \in Handler /\ handler[w].at = "create"
    BY <1>6 DEF CreateUserId, TypeOK
  <2>3. handler[w] \in [at : {"create"}, username : Usernames]
    BY <2>2 DEF Handler, Waiting, Dead
  <2>4. handler' \in [Workers -> Handler]
    <3>1. CASE call[w].at = "return"
      <4>1. Return(w)
        BY <1>6, <3>1 DEF CreateUserId, CreateSnowflake, ReadClock, Load, Store
      <4>2. PICK id \in Ids : id = created'[Len(created')].id
        BY <4>1, ReturnedId DEF TypeOK
      <4>3. [at |-> "insert", username |-> handler[w].username, id |-> id] \in Handler
        BY <2>3 DEF Handler
      <4>4. handler' = [handler EXCEPT ![w] =
                           [at |-> "insert", username |-> handler[w].username, id |-> id]]
        BY <1>6, <3>1, <4>2 DEF CreateUserId, TypeOK
      <4> QED
        BY <4>3, <4>4 DEF TypeOK
    <3>2. CASE call[w].at # "return"
      BY <1>6, <3>2 DEF CreateUserId, TypeOK
    <3> QED
      BY <3>1, <3>2
  <2>5. overlapped' \in BOOLEAN
    BY <1>6 DEF CreateUserId
  <2> QED
    BY <1>6, <2>1, <2>4, <2>5 DEF CreateUserId, TypeOK, sessionVars
<1>7. ASSUME NEW w \in Workers, InsertUser(w) PROVE TypeOK'
  <2>1. Waiting \in Handler /\ Dead \in Handler
    BY DEF Handler
  <2>2. handler[w] \in [at : {"insert"}, username : Usernames, id : Ids]
    BY <1>7 DEF InsertUser, TypeOK, Handler, Waiting, Dead
  <2>3. [Id |-> handler[w].id, Username |-> handler[w].username] \in Row
    BY <2>2 DEF Row
  <2>4. users' \subseteq Row /\ handler' \in [Workers -> Handler]
    BY <1>7, <2>1, <2>3 DEF InsertUser, TypeOK
  <2> QED
    BY <1>7, <2>4 DEF InsertUser, TypeOK, snowflakeVars, sessionVars, SnowflakeTypeOK
<1>8. ASSUME LaunchWorker PROVE TypeOK'
  <2>1. SnowflakeTypeOK'
    BY <1>8, StepTypes DEF LaunchWorker, TypeOK
  <2>2. launched' \subseteq Workers
    BY <1>8 DEF LaunchWorker, TypeOK
  <2>3. overlapped' \in BOOLEAN
    BY <1>8 DEF LaunchWorker
  <2> QED
    BY <1>8, <2>1, <2>2, <2>3 DEF LaunchWorker, TypeOK, sessionVars
<1>9. ASSUME Tick PROVE TypeOK'
  BY <1>9 DEF Tick, ClockMoves, TypeOK, sessionVars, threadVars, SnowflakeTypeOK
<1>10. ASSUME Restart PROVE TypeOK'
  <2>1. Idle \in Calls /\ Waiting \in Handler
    BY ModuliAssumption DEF Idle, Calls, Handler
  <2>2. SnowflakeTypeOK'
    BY <1>10, <2>1, ModuliAssumption DEF Restart, ProcessState, SnowflakeTypeOK, TypeOK
  <2>3. DOMAIN clientId' = {} /\ DOMAIN m_socket_to_user' = {}
    BY <1>10 DEF Restart, ProcessState, NoEntries
  <2> QED
    BY <1>10, <2>1, <2>2, <2>3 DEF Restart, ProcessState, TypeOK
<1>11. ASSUME UNCHANGED vars PROVE TypeOK'
  BY <1>11
  DEF vars, snowflakeVars, sessionVars, threadVars, TypeOK, SnowflakeTypeOK
<1> QED
  BY <1>1, <1>2, <1>3, <1>4, <1>5, <1>6, <1>7, <1>8, <1>9, <1>10, <1>11
  DEF Next, HandlerStep
-----------------------------------------------------------------------------
(* Names.                                                                  *)

LEMMA InitAccounts == Init => AccountsInv
<1> SUFFICES ASSUME Init PROVE AccountsInv
  OBVIOUS
<1>1. \A w \in Workers : handler[w].at = "waiting" /\ call[w].at = "idle"
  BY MainIsACaller DEF Init, SnowflakeInit, Idle, Waiting
<1>2. users = {}
  BY DEF Init
<1>3. (\A w \in Workers : SigningUp(w)) /\ CallsBelongToSignups
  BY <1>1 DEF SigningUp, CallsBelongToSignups
<1>4. UsernamesUnique
  BY <1>2 DEF UsernamesUnique
<1> QED
  BY <1>3, <1>4, InitTypes DEF AccountsInv

(* A call of a worker is left alone by the calls of another thread.        *)
LEMMA OthersCallsAreKept ==
    ASSUME SnowflakeTypeOK, NEW c \in Callers, CreateSnowflake(c)
    PROVE  \A d \in Callers \ {c} : call'[d] = call[d]
  BY DEF CreateSnowflake, ReadClock, Load, Store, Return, SnowflakeTypeOK

LEMMA QuietSteps ==
    ASSUME AccountsInv, UNCHANGED <<users, mutex, handler>>,
           \A w \in Workers : call'[w] = call[w]
    PROVE  /\ \A w \in Workers : SigningUp(w)'
           /\ CallsBelongToSignups'
           /\ UsernamesUnique'
<1>1. \A w \in Workers : SigningUp(w)'
  BY DEF AccountsInv, SigningUp, UsersNamed
<1>2. CallsBelongToSignups'
  BY DEF AccountsInv, CallsBelongToSignups
<1>3. UsernamesUnique'
  BY DEF AccountsInv, UsernamesUnique
<1> QED
  BY <1>1, <1>2, <1>3

LEMMA NextAccounts == AccountsInv /\ [Next]_vars => AccountsInv'
<1> SUFFICES ASSUME AccountsInv, [Next]_vars PROVE AccountsInv'
  OBVIOUS
<1> USE MainIsACaller
<1>1. TypeOK /\ TypeOK'
  BY NextTypes DEF AccountsInv
<1>2. handler \in [Workers -> Handler] /\ SnowflakeTypeOK
  BY <1>1 DEF TypeOK
<1>3. Main \notin Workers /\ "free" \notin Workers
  BY MainAssumption DEF Workers
<1>4. ASSUME UNCHANGED <<users, mutex, handler>>, \A w \in Workers : call'[w] = call[w]
      PROVE  AccountsInv'
  BY <1>1, <1>4, QuietSteps DEF AccountsInv
<1>5. ASSUME NEW c \in Connections, Accept(c) PROVE AccountsInv'
  BY <1>4, <1>5 DEF Accept, snowflakeVars, threadVars
<1>6. ASSUME AcceptFails PROVE AccountsInv'
  BY <1>4, <1>6 DEF AcceptFails, snowflakeVars, threadVars
<1>7. ASSUME NEW w \in Workers, NEW c \in Connections, NEW username \in Usernames,
             OnAuthRequest(w, c, username)
      PROVE  AccountsInv'
  BY <1>4, <1>7 DEF OnAuthRequest, snowflakeVars, threadVars
<1>8. ASSUME NEW w \in Workers, NEW c \in Connections, NEW username \in Usernames,
             OnSignupRequest(w, c, username)
      PROVE  AccountsInv'
  <2>1. /\ mutex = "free" /\ mutex' = w /\ UNCHANGED <<users, call>>
        /\ UsersNamed(username) = {}
        /\ handler'[w] = [at |-> "create", username |-> username]
        /\ \A v \in Workers \ {w} : handler'[v] = handler[v]
    BY <1>2, <1>8 DEF OnSignupRequest, CanRun, snowflakeVars
  <2>2. \A v \in Workers : handler[v].at \notin {"create", "insert"}
    BY <1>3, <2>1 DEF AccountsInv, SigningUp
  <2>3. \A v \in Workers : SigningUp(v)'
    BY <2>1, <2>2 DEF SigningUp, UsersNamed
  <2>4. CallsBelongToSignups'
    BY <2>1, <2>2 DEF AccountsInv, CallsBelongToSignups
  <2>5. UsernamesUnique'
    BY <2>1 DEF AccountsInv, UsernamesUnique
  <2> QED
    BY <1>1, <2>3, <2>4, <2>5 DEF AccountsInv
<1>9. ASSUME NEW w \in Workers, NEW c \in Connections, OnChat(w, c) PROVE AccountsInv'
  <2>1. /\ UNCHANGED <<users, mutex, call>>
        /\ handler[w] = Waiting
        /\ handler'[w] = Dead
        /\ \A v \in Workers \ {w} : handler'[v] = handler[v]
    BY <1>2, <1>9 DEF OnChat, CanRun, snowflakeVars
  <2>2. \A v \in Workers : SigningUp(v)'
    BY <2>1 DEF AccountsInv, SigningUp, UsersNamed, Dead
  <2>3. CallsBelongToSignups'
    BY <2>1 DEF AccountsInv, CallsBelongToSignups, Waiting
  <2>4. UsernamesUnique'
    BY <2>1 DEF AccountsInv, UsernamesUnique
  <2> QED
    BY <1>1, <2>2, <2>3, <2>4 DEF AccountsInv
<1>10. ASSUME NEW w \in Workers, CreateUserId(w) PROVE AccountsInv'
  <2>1. /\ UNCHANGED <<users, mutex>>
        /\ handler[w].at = "create"
        /\ \A v \in Workers \ {w} : handler'[v] = handler[v] /\ call'[v] = call[v]
    BY <1>2, <1>10, OthersCallsAreKept DEF CreateUserId
  <2>2. /\ handler'[w].username = handler[w].username
        /\ handler'[w].at \in {"create", "insert"}
        /\ call'[w].at # "idle" => handler'[w].at = "create"
    <3>1. CASE call[w].at = "return"
      <4>1. Return(w)
        BY <1>10, <3>1 DEF CreateUserId, CreateSnowflake, ReadClock, Load, Store
      <4>2. call'[w].at = "idle"
        BY <1>2, <4>1 DEF Return, SnowflakeTypeOK, Idle
      <4> QED
        BY <1>2, <1>10, <3>1, <4>2 DEF CreateUserId
    <3>2. CASE call[w].at # "return"
      BY <1>2, <1>10, <2>1, <3>2 DEF CreateUserId
    <3> QED
      BY <3>1, <3>2
  <2>3. \A v \in Workers : SigningUp(v)'
    BY <2>1, <2>2 DEF AccountsInv, SigningUp, UsersNamed
  <2>4. CallsBelongToSignups'
    BY <2>1, <2>2 DEF AccountsInv, CallsBelongToSignups
  <2>5. UsernamesUnique'
    BY <2>1 DEF AccountsInv, UsernamesUnique
  <2> QED
    BY <1>1, <2>3, <2>4, <2>5 DEF AccountsInv
<1>11. ASSUME NEW w \in Workers, InsertUser(w) PROVE AccountsInv'
  <2>1. /\ UNCHANGED call
        /\ handler[w].at = "insert"
        /\ handler'[w] \in {Waiting, Dead}
        /\ \A v \in Workers \ {w} : handler'[v] = handler[v]
    BY <1>2, <1>11 DEF InsertUser, snowflakeVars
  <2>2. mutex = w /\ UsersNamed(handler[w].username) = {}
    BY <2>1 DEF AccountsInv, SigningUp
  <2>3. \A v \in Workers : handler'[v].at \notin {"create", "insert"}
    BY <2>1, <2>2 DEF AccountsInv, SigningUp, Waiting, Dead
  <2>4. \A v \in Workers : SigningUp(v)'
    BY <2>3 DEF SigningUp
  <2>5. CallsBelongToSignups'
    <3>1. \A v \in Workers : call[v].at = "idle"
      BY <2>1, <2>2 DEF AccountsInv, CallsBelongToSignups, SigningUp
    <3> QED
      BY <2>1, <3>1 DEF CallsBelongToSignups
  <2>6. UsernamesUnique'
    <3>1. CASE users' = users
      BY <3>1 DEF AccountsInv, UsernamesUnique
    <3>2. CASE users' = users \cup {[Id |-> handler[w].id, Username |-> handler[w].username]}
      BY <2>2, <3>2 DEF AccountsInv, UsernamesUnique, UsersNamed
    <3> QED
      BY <1>11, <3>1, <3>2 DEF InsertUser
  <2> QED
    BY <1>1, <2>4, <2>5, <2>6 DEF AccountsInv
<1>12. ASSUME LaunchWorker PROVE AccountsInv'
  <2>1. \A w \in Workers : call'[w] = call[w]
    BY <1>2, <1>3, <1>12, OthersCallsAreKept DEF LaunchWorker
  <2> QED
    BY <1>4, <1>12, <2>1 DEF LaunchWorker
<1>13. ASSUME Tick PROVE AccountsInv'
  BY <1>4, <1>13 DEF Tick, ClockMoves, threadVars
<1>14. ASSUME Restart PROVE AccountsInv'
  <2>1. /\ UNCHANGED users
        /\ \A w \in Workers : handler'[w].at = "waiting" /\ call'[w].at = "idle"
    BY <1>14 DEF Restart, ProcessState, Idle, Waiting
  <2>2. (\A w \in Workers : SigningUp(w)') /\ CallsBelongToSignups'
    BY <2>1 DEF SigningUp, CallsBelongToSignups
  <2>3. UsernamesUnique'
    BY <2>1 DEF AccountsInv, UsernamesUnique
  <2> QED
    BY <1>1, <2>2, <2>3 DEF AccountsInv
<1>15. ASSUME UNCHANGED vars PROVE AccountsInv'
  BY <1>4, <1>15 DEF vars, snowflakeVars, threadVars
<1> QED
  BY <1>5, <1>6, <1>7, <1>8, <1>9, <1>10, <1>11, <1>12, <1>13, <1>14, <1>15
  DEF Next, HandlerStep
-----------------------------------------------------------------------------
(* Ids.  As long as the process runs for the first time and no two calls   *)
(* have overlapped, the calls are those of SerialSpec.                     *)

Undisturbed == restarts = 0 /\ ~overlapped

RowsWereCreated == \A row \in users : \E k \in DOMAIN created : row.Id = created[k].id

InsertsWereCreated ==
    \A w \in Workers :
        handler[w].at = "insert" => \E k \in DOMAIN created : handler[w].id = created[k].id

IdsInv ==
    /\ NewIdIsFree
    /\ Undisturbed => CountInv /\ RowsWereCreated /\ InsertsWereCreated

LEMMA InitIds == Init => IdsInv
<1> SUFFICES ASSUME Init PROVE IdsInv
  OBVIOUS
<1>1. CountInv
  BY InitCounts DEF Init
<1>2. users = {} /\ \A w \in Workers : handler[w].at = "waiting"
  BY DEF Init, Waiting
<1> QED
  BY <1>1, <1>2 DEF IdsInv, NewIdIsFree, RowsWereCreated, InsertsWereCreated

LEMMA UnchangedIds ==
    ASSUME CountInv, UNCHANGED <<sequence, call, created>>, SnowflakeTypeOK'
    PROVE  CountInv'
  BY DEF CountInv, OneCallAtATime, CounterCounts, IdsCount

LEMMA QuietIds ==
    ASSUME IdsInv, UNCHANGED <<users, overlapped, restarts, sequence, call, created>>,
           SnowflakeTypeOK',
           \A w \in Workers :
               handler'[w].at = "insert" => handler'[w] = handler[w]
    PROVE  IdsInv'
<1>1. NewIdIsFree'
  BY DEF IdsInv, NewIdIsFree
<1>2. ASSUME Undisturbed' PROVE CountInv' /\ RowsWereCreated' /\ InsertsWereCreated'
  <2>1. CountInv /\ RowsWereCreated /\ InsertsWereCreated
    BY <1>2 DEF IdsInv, Undisturbed
  <2>2. CountInv'
    BY <2>1, UnchangedIds
  <2> QED
    BY <2>1, <2>2 DEF RowsWereCreated, InsertsWereCreated
<1> QED
  BY <1>1, <1>2 DEF IdsInv

(* The history only grows, by the id that a call returns.                  *)
LEMMA HistoryGrows ==
    ASSUME SnowflakeTypeOK, NEW c \in Callers, CreateSnowflake(c)
    PROVE  /\ Len(created) \in Nat /\ Len(created') \in Nat
           /\ Len(created) <= Len(created')
           /\ DOMAIN created \subseteq DOMAIN created'
           /\ \A k \in DOMAIN created : created'[k] = created[k]
<1>1. created \in Seq(Created) /\ created' \in Seq(Created)
  BY StepTypes DEF SnowflakeTypeOK
<1>2. CASE Return(c)
  BY <1>1, <1>2, ReturnedId
<1>3. CASE UNCHANGED created
  BY <1>1, <1>3
<1> QED
  BY <1>2, <1>3 DEF CreateSnowflake, ReadClock, Load, Store

(* An id returned within the first M of the history is new to it.          *)
LEMMA ReturnedIdIsNew ==
    ASSUME CountInv', SnowflakeTypeOK, NEW c \in Callers, Return(c), Len(created') <= M
    PROVE  \A k \in DOMAIN created : created[k].id # created'[Len(created')].id
<1> SUFFICES ASSUME NEW k \in DOMAIN created
             PROVE  created[k].id # created'[Len(created')].id
  OBVIOUS
<1>1. /\ created \in Seq(Created)
      /\ Len(created') = Len(created) + 1
      /\ DOMAIN created' = 1 .. Len(created) + 1
      /\ created'[k] = created[k]
  BY ReturnedId DEF SnowflakeTypeOK
<1>2. PICK n \in Nat : n = Len(created) /\ DOMAIN created = 1 .. n
  BY <1>1
<1>3. k \in 1 .. n + 1 /\ n + 1 \in 1 .. n + 1 /\ k < n + 1 /\ n + 1 < k + M
  BY <1>1, <1>2, ModuliAssumption DEF M
<1>4. RunsAreDistinct'
  BY CountedIdsAreDistinct, PTL
<1>5. created'[k].id # created'[n + 1].id
  BY <1>1, <1>2, <1>3, <1>4 DEF RunsAreDistinct, M
<1> QED
  BY <1>1, <1>2, <1>5

LEMMA NextIds == AccountsInv /\ IdsInv /\ [Next]_vars => IdsInv'
<1> SUFFICES ASSUME AccountsInv, IdsInv, [Next]_vars PROVE IdsInv'
  OBVIOUS
<1> USE MainIsACaller
<1>1. TypeOK /\ TypeOK' /\ SnowflakeTypeOK /\ SnowflakeTypeOK'
  BY NextTypes DEF AccountsInv, TypeOK
<1>2. handler \in [Workers -> Handler]
  BY <1>1 DEF TypeOK
<1>3. ASSUME UNCHANGED <<users, overlapped, restarts, sequence, call, created>>,
             \A w \in Workers : handler'[w].at = "insert" => handler'[w] = handler[w]
      PROVE  IdsInv'
  BY <1>1, <1>3, QuietIds
<1>4. ASSUME NEW c \in Connections, Accept(c) PROVE IdsInv'
  BY <1>3, <1>4 DEF Accept, snowflakeVars, threadVars
<1>5. ASSUME AcceptFails PROVE IdsInv'
  BY <1>3, <1>5 DEF AcceptFails, snowflakeVars, threadVars
<1>6. ASSUME NEW w \in Workers, NEW c \in Connections, NEW username \in Usernames,
             OnAuthRequest(w, c, username)
      PROVE  IdsInv'
  BY <1>3, <1>6 DEF OnAuthRequest, snowflakeVars, threadVars
<1>7. ASSUME NEW w \in Workers, NEW c \in Connections, NEW username \in Usernames,
             OnSignupRequest(w, c, username)
      PROVE  IdsInv'
  <2>1. \A v \in Workers : handler'[v].at = "insert" => handler'[v] = handler[v]
    BY <1>2, <1>7 DEF OnSignupRequest
  <2> QED
    BY <1>3, <1>7, <2>1 DEF OnSignupRequest, snowflakeVars
<1>8. ASSUME NEW w \in Workers, NEW c \in Connections, OnChat(w, c) PROVE IdsInv'
  <2>1. \A v \in Workers : handler'[v].at = "insert" => handler'[v] = handler[v]
    BY <1>2, <1>8 DEF OnChat, Dead
  <2> QED
    BY <1>3, <1>8, <2>1 DEF OnChat, snowflakeVars
<1>9. ASSUME NEW c \in Callers, CreateSnowflake(c), Undisturbed', Exclusively(c),
             UNCHANGED <<users, restarts>>, overlapped => overlapped'
      PROVE  /\ Undisturbed
             /\ CountInv /\ CountInv' /\ RowsWereCreated /\ RowsWereCreated'
             /\ InsertsWereCreated
  <2>1. Undisturbed
    BY <1>9 DEF Undisturbed
  <2>2. CountInv /\ RowsWereCreated /\ InsertsWereCreated
    BY <2>1 DEF IdsInv
  <2>3. CountInv'
    BY <1>9, <2>2, CallCounts
  <2>4. RowsWereCreated'
    BY <1>1, <1>9, <2>2, HistoryGrows DEF RowsWereCreated
  <2> QED
    BY <2>1, <2>2, <2>3, <2>4
<1>10. ASSUME NEW w \in Workers, CreateUserId(w) PROVE IdsInv'
  <2>1. /\ CreateSnowflake(w)
        /\ handler[w].at = "create"
        /\ UNCHANGED <<users, restarts>>
        /\ overlapped => overlapped'
        /\ ~overlapped' => call[Main].at = "idle"
        /\ \A v \in Workers \ {w} : handler'[v] = handler[v]
    BY <1>2, <1>10 DEF CreateUserId
  <2>2. \A v \in Workers \ {w} : handler[v].at \notin {"create", "insert"} /\ call[v].at = "idle"
    BY <2>1 DEF AccountsInv, SigningUp, CallsBelongToSignups
  <2>3. /\ call[w].at # "return" => handler'[w] = handler[w]
        /\ call[w].at = "return" => /\ Return(w)
                                    /\ handler'[w].at = "insert"
                                    /\ handler'[w].id = created'[Len(created')].id
    BY <1>2, <1>10 DEF CreateUserId, CreateSnowflake, ReadClock, Load, Store
  <2>4. ASSUME Undisturbed' PROVE CountInv' /\ RowsWereCreated' /\ InsertsWereCreated'
    <3>1. Exclusively(w)
      BY <2>1, <2>2, <2>4 DEF Exclusively, Undisturbed, Workers
    <3>2. CountInv /\ CountInv' /\ RowsWereCreated' /\ InsertsWereCreated
      BY <1>9, <2>1, <2>4, <3>1
    <3>3. Len(created') \in DOMAIN created' \/ call[w].at # "return"
      BY <1>1, <2>3, ReturnedId, HistoryGrows, <2>1
    <3>4. InsertsWereCreated'
      BY <2>1, <2>2, <2>3, <3>3 DEF InsertsWereCreated
    <3> QED
      BY <3>2, <3>4
  <2>5. NewIdIsFree'
    <3> SUFFICES ASSUME Undisturbed', Len(created') <= M,
                        NEW v \in Workers, handler'[v].at = "insert",
                        NEW row \in users
                 PROVE  row.Id # handler'[v].id
      BY <2>1 DEF NewIdIsFree, Undisturbed, M
    <3>1. v = w /\ call[w].at = "return"
      BY <2>1, <2>2, <2>3
    <3>2. Exclusively(w)
      BY <2>1, <2>2 DEF Exclusively, Undisturbed, Workers
    <3>3. RowsWereCreated /\ CountInv'
      BY <1>9, <2>1, <3>2
    <3>4. PICK k \in DOMAIN created : row.Id = created[k].id
      BY <3>3 DEF RowsWereCreated
    <3> QED
      BY <1>1, <2>3, <3>1, <3>3, <3>4, ReturnedIdIsNew
  <2> QED
    BY <2>4, <2>5 DEF IdsInv
<1>11. ASSUME NEW w \in Workers, InsertUser(w) PROVE IdsInv'
  <2>1. /\ UNCHANGED <<overlapped, restarts, sequence, call, created>>
        /\ handler[w].at = "insert"
        /\ handler'[w] \in {Waiting, Dead}
        /\ \A v \in Workers \ {w} : handler'[v] = handler[v]
        /\ users' = users \/ users' = users \cup
               {[Id |-> handler[w].id, Username |-> handler[w].username]}
    BY <1>2, <1>11 DEF InsertUser, snowflakeVars
  <2>2. \A v \in Workers : handler'[v].at # "insert"
    BY <2>1 DEF AccountsInv, SigningUp, Waiting, Dead
  <2>3. NewIdIsFree' /\ InsertsWereCreated'
    BY <2>2 DEF NewIdIsFree, InsertsWereCreated
  <2>4. ASSUME Undisturbed' PROVE CountInv' /\ RowsWereCreated'
    <3>1. CountInv /\ RowsWereCreated /\ InsertsWereCreated
      BY <2>1, <2>4 DEF IdsInv, Undisturbed
    <3>2. CountInv'
      BY <1>1, <2>1, <3>1, UnchangedIds
    <3>3. PICK k \in DOMAIN created : handler[w].id = created[k].id
      BY <2>1, <3>1 DEF InsertsWereCreated
    <3>4. RowsWereCreated'
      BY <2>1, <3>1, <3>3 DEF RowsWereCreated
    <3> QED
      BY <3>2, <3>4
  <2> QED
    BY <2>3, <2>4 DEF IdsInv
<1>12. ASSUME LaunchWorker PROVE IdsInv'
  <2>1. /\ CreateSnowflake(Main)
        /\ UNCHANGED <<users, restarts, handler>>
        /\ overlapped => overlapped'
        /\ ~overlapped' => \A w \in Workers : call[w].at = "idle"
    BY <1>12 DEF LaunchWorker
  <2>2. /\ Len(created) \in Nat /\ Len(created') \in Nat
        /\ Len(created) <= Len(created')
        /\ DOMAIN created \subseteq DOMAIN created'
        /\ \A k \in DOMAIN created : created'[k] = created[k]
    BY <1>1, <2>1, HistoryGrows
  <2>3. NewIdIsFree'
    <3>1. ASSUME Len(created') <= SequenceModulus PROVE Len(created) <= SequenceModulus
      BY <2>2, <3>1, ModuliAssumption
    <3> QED
      BY <2>1, <3>1 DEF IdsInv, NewIdIsFree
  <2>4. ASSUME Undisturbed' PROVE CountInv' /\ RowsWereCreated' /\ InsertsWereCreated'
    <3>1. Exclusively(Main)
      BY <2>1, <2>4 DEF Exclusively, Undisturbed, Workers
    <3>2. CountInv' /\ RowsWereCreated' /\ InsertsWereCreated
      BY <1>9, <2>1, <2>4, <3>1
    <3>3. InsertsWereCreated'
      BY <2>1, <2>2, <3>2 DEF InsertsWereCreated
    <3> QED
      BY <3>2, <3>3
  <2> QED
    BY <2>3, <2>4 DEF IdsInv
<1>13. ASSUME Tick PROVE IdsInv'
  BY <1>3, <1>13 DEF Tick, ClockMoves, threadVars
<1>14. ASSUME Restart PROVE IdsInv'
  <2>1. restarts' # 0
    BY <1>1, <1>14 DEF Restart, TypeOK
  <2> QED
    BY <2>1 DEF IdsInv, NewIdIsFree, Undisturbed
<1>15. ASSUME UNCHANGED vars PROVE IdsInv'
  BY <1>3, <1>15 DEF vars, snowflakeVars, threadVars
<1> QED
  BY <1>4, <1>5, <1>6, <1>7, <1>8, <1>10, <1>11, <1>12, <1>13, <1>14, <1>15
  DEF Next, HandlerStep
-----------------------------------------------------------------------------
(* Sessions.                                                               *)

(* Client ids in use are below the counter and belong to one connection    *)
(* each; a connection that has none has not logged in.                     *)
SessionsInv ==
    /\ \A c \in Connections : Open(c) => clientId[c] < m_clientIdCounter
    /\ \A id \in DOMAIN m_socket_to_user : id < m_clientIdCounter
    /\ \A c, d \in Connections : Open(c) /\ Open(d) /\ clientId[c] = clientId[d] => c = d
    /\ \A c \in Connections : ~Open(c) => login[c] = NoUser
    /\ SessionBelongsToConnection

LEMMA InitSessions == Init => SessionsInv
<1> SUFFICES ASSUME Init PROVE SessionsInv
  OBVIOUS
<1>1. DOMAIN clientId = {} /\ DOMAIN m_socket_to_user = {}
  BY DEF Init, NoEntries
<1> QED
  BY <1>1 DEF Init, SessionsInv, SessionBelongsToConnection, Open

LEMMA NextSessions == TypeOK /\ SessionsInv /\ [Next]_vars => SessionsInv'
<1> SUFFICES ASSUME TypeOK, SessionsInv, [Next]_vars PROVE SessionsInv'
  OBVIOUS
<1>1. ASSUME NEW c \in Connections, Accept(c) PROVE SessionsInv'
  <2>1. /\ DOMAIN clientId' = DOMAIN clientId \cup {c}
        /\ clientId'[c] = m_clientIdCounter
        /\ \A d \in DOMAIN clientId \ {c} : clientId'[d] = clientId[d]
    BY <1>1 DEF Accept, InsertOrAssign
  <2>2. /\ ~Open(c)
        /\ m_clientIdCounter \in Nat
        /\ m_clientIdCounter' = m_clientIdCounter + 1
        /\ \A d \in DOMAIN clientId : clientId[d] \in Nat
        /\ DOMAIN m_socket_to_user \subseteq Nat
        /\ UNCHANGED <<users, m_socket_to_user, login>>
    BY <1>1 DEF Accept, TypeOK, Open
  <2>3. m_clientIdCounter \notin DOMAIN m_socket_to_user
    BY <2>2 DEF SessionsInv
  <2>4. \A d \in Connections : Open(d)' <=> Open(d) \/ d = c
    BY <2>1 DEF Open
  <2>5. \A d \in Connections : Open(d) => d # c /\ clientId'[d] = clientId[d]
    BY <2>1, <2>2 DEF Open
  <2>6. \A d \in Connections : Open(d)' => clientId'[d] < m_clientIdCounter'
    BY <2>1, <2>2, <2>4, <2>5 DEF SessionsInv, Open
  <2>7. \A id \in DOMAIN m_socket_to_user' : id < m_clientIdCounter'
    BY <2>2 DEF SessionsInv
  <2>8. \A d, e \in Connections :
            Open(d)' /\ Open(e)' /\ clientId'[d] = clientId'[e] => d = e
    BY <2>1, <2>2, <2>4, <2>5 DEF SessionsInv, Open
  <2>9. \A d \in Connections : ~Open(d)' => login'[d] = NoUser
    BY <2>2, <2>4 DEF SessionsInv
  <2>10. SessionBelongsToConnection'
    BY <2>1, <2>2, <2>3, <2>4, <2>5 DEF SessionsInv, SessionBelongsToConnection, Open
  <2> QED
    BY <2>6, <2>7, <2>8, <2>9, <2>10 DEF SessionsInv
<1>2. ASSUME AcceptFails PROVE SessionsInv'
  BY <1>2 DEF AcceptFails, TypeOK, SessionsInv, SessionBelongsToConnection, Open
<1>3. ASSUME NEW w \in Workers, NEW c \in Connections, NEW username \in Usernames,
             OnAuthRequest(w, c, username)
      PROVE  SessionsInv'
  <2>1. PICK row \in UsersNamed(username) :
            m_socket_to_user' = InsertOrAssign(m_socket_to_user, clientId[c], row)
    BY <1>3 DEF OnAuthRequest
  <2>2. /\ DOMAIN m_socket_to_user' = DOMAIN m_socket_to_user \cup {clientId[c]}
        /\ m_socket_to_user'[clientId[c]] = row
        /\ \A id \in DOMAIN m_socket_to_user \ {clientId[c]} :
              m_socket_to_user'[id] = m_socket_to_user[id]
    BY <2>1 DEF InsertOrAssign
  <2>3. /\ Open(c)
        /\ UNCHANGED <<users, m_clientIdCounter, clientId>>
        /\ login'[c] = username
        /\ \A d \in Connections \ {c} : login'[d] = login[d]
    BY <1>3 DEF OnAuthRequest, TypeOK
  <2>4. row \in users /\ row.Username = username
    BY <2>1 DEF UsersNamed
  <2>5. \A d \in Connections \ {c} : Open(d) => clientId[d] # clientId[c]
    BY <2>3 DEF SessionsInv
  <2>6. SessionBelongsToConnection'
    BY <2>2, <2>3, <2>4, <2>5 DEF SessionsInv, SessionBelongsToConnection, Open
  <2> QED
    BY <2>2, <2>3, <2>6 DEF SessionsInv, Open
<1>4. ASSUME NEW w \in Workers, NEW c \in Connections, NEW username \in Usernames,
             OnSignupRequest(w, c, username)
      PROVE  SessionsInv'
  BY <1>4 DEF OnSignupRequest, sessionVars, SessionsInv, SessionBelongsToConnection, Open
<1>5. ASSUME NEW w \in Workers, NEW c \in Connections, OnChat(w, c) PROVE SessionsInv'
  BY <1>5 DEF OnChat, sessionVars, SessionsInv, SessionBelongsToConnection, Open
<1>6. ASSUME NEW w \in Workers, CreateUserId(w) PROVE SessionsInv'
  BY <1>6 DEF CreateUserId, sessionVars, SessionsInv, SessionBelongsToConnection, Open
<1>7. ASSUME NEW w \in Workers, InsertUser(w) PROVE SessionsInv'
  <2>1. users \subseteq users' /\ UNCHANGED sessionVars
    BY <1>7 DEF InsertUser
  <2> QED
    BY <2>1 DEF sessionVars, SessionsInv, SessionBelongsToConnection, Open
<1>8. ASSUME LaunchWorker PROVE SessionsInv'
  BY <1>8 DEF LaunchWorker, sessionVars, SessionsInv, SessionBelongsToConnection, Open
<1>9. ASSUME Tick PROVE SessionsInv'
  BY <1>9 DEF Tick, sessionVars, SessionsInv, SessionBelongsToConnection, Open
<1>10. ASSUME Restart PROVE SessionsInv'
  <2>1. DOMAIN clientId' = {} /\ DOMAIN m_socket_to_user' = {}
    BY <1>10 DEF Restart, ProcessState, NoEntries
  <2>2. \A c \in Connections : login'[c] = NoUser
    BY <1>10 DEF Restart, ProcessState
  <2> QED
    BY <2>1, <2>2 DEF SessionsInv, SessionBelongsToConnection, Open
<1>11. ASSUME UNCHANGED vars PROVE SessionsInv'
  BY <1>11 DEF vars, sessionVars, SessionsInv, SessionBelongsToConnection, Open
<1> QED
  BY <1>1, <1>2, <1>3, <1>4, <1>5, <1>6, <1>7, <1>8, <1>9, <1>10, <1>11
     DEF Next, HandlerStep
-----------------------------------------------------------------------------
(* The theorems.                                                           *)

(***************************************************************************)
(* The state of the handlers keeps its types; from its look-up to its      *)
(* INSERT a sign-up holds the mutex and its name stays free; names are     *)
(* unique (handlers.hpp:51-77).                                            *)
(***************************************************************************)
THEOREM AccountsInvariant == Spec => []AccountsInv
  BY InitAccounts, NextAccounts, PTL DEF Spec

(***************************************************************************)
(* Whatever the workers, the names and the restarts, no two accounts have  *)
(* the same name (handlers.hpp:57-75, database.cpp:156-168).               *)
(***************************************************************************)
THEOREM NamesAreUnique == Spec => []UsernamesUnique
<1>1. AccountsInv => UsernamesUnique
  BY DEF AccountsInv
<1> QED
  BY <1>1, AccountsInvariant, PTL

(***************************************************************************)
(* No step removes or changes an account (database.cpp:59-93).             *)
(***************************************************************************)
THEOREM AccountsStay == Spec => AccountsAreKept
<1>1. [Next]_vars => [users \subseteq users']_vars
  BY DEF Next, HandlerStep, Accept, AcceptFails, OnAuthRequest, OnSignupRequest, OnChat,
         CreateUserId, InsertUser, LaunchWorker, Tick, Restart
<1> QED
  BY <1>1, PTL DEF Spec, AccountsAreKept

(***************************************************************************)
(* Until the process is restarted, two calls of CreateSnowflake overlap or *)
(* the counter has gone round once, no INSERT of a sign-up meets its id in *)
(* the table, whatever the clock shows (snowflake.cpp:11-20,               *)
(* database.cpp:156-168).                                                  *)
(***************************************************************************)
THEOREM NewIdsAreFree == Spec => []NewIdIsFree
<1>1. Init => AccountsInv /\ IdsInv
  BY InitAccounts, InitIds
<1>2. AccountsInv /\ IdsInv /\ [Next]_vars => (AccountsInv /\ IdsInv)'
  BY NextAccounts, NextIds
<1>3. IdsInv => NewIdIsFree
  BY DEF IdsInv
<1> QED
  BY <1>1, <1>2, <1>3, PTL DEF Spec

(***************************************************************************)
(* The tables, the sessions, the threads and the ids keep their types      *)
(* (server.hpp:63-92, database.cpp:63-67).                                 *)
(***************************************************************************)
THEOREM AccountsTypes == Spec => []TypeOK
  BY InitTypes, NextTypes, PTL DEF Spec

(***************************************************************************)
(* Nobody is logged in by another connection's log-in, an earlier          *)
(* process's or a failed accept's, however many connections and restarts   *)
(* there are (server.cpp:56-66, server_socket.cpp:65-83).                  *)
(***************************************************************************)
THEOREM SessionsAreTheirOwn == Spec => []SessionBelongsToConnection
<1>1. Init => TypeOK /\ SessionsInv
  BY InitTypes, InitSessions
<1>2. TypeOK /\ SessionsInv /\ [Next]_vars => (TypeOK /\ SessionsInv)'
  BY NextTypes, NextSessions
<1>3. SessionsInv => SessionBelongsToConnection
  BY DEF SessionsInv
<1> QED
  BY <1>1, <1>2, <1>3, PTL DEF Spec
=============================================================================
