------------------------------ MODULE Accounts ------------------------------
(***************************************************************************)
(* The handlers of Server/include/handlers.hpp on what they share: the     *)
(* table users of data.db3, which outlives the process, and the users the  *)
(* connections are logged in as, which do not.                             *)
(*                                                                         *)
(* The workers run one handler at a time (Multithreaded shows it); what    *)
(* can still come between two steps of a handler is the main thread, which *)
(* creates an id for every worker it launches, and the end of the process. *)
(* Which packet a handler gets next is left open.                          *)
(***************************************************************************)
EXTENDS Snowflake

CONSTANTS Main,         (* the main thread; the other callers of           *)
                        (* CreateSnowflake are the workers                 *)
          Connections,  (* the connections peers open, over all restarts   *)
          Usernames,
          MaxClientIds, (* bound: client ids given out in one process      *)
          MaxRestarts   (* bound: restarts of the process                  *)

ASSUME MainAssumption == Main \in Callers /\ "free" \notin Callers

Workers == Callers \ {Main}

VARIABLES
    users,              (* the rows of the table                           *)
    m_clientIdCounter,
    pending,            (* connections not accepted yet                    *)
    clientId,           (* the id each open connection was given           *)
    m_socket_to_user,   (* the user each client id is logged in as         *)
    launched,           (* the workers the main thread has launched        *)
    mutex,              (* m_unprocessed_packet_mutex: holder or "free"    *)
    handler,            (* what each worker's handler is doing             *)
    (* history, read by no action's guard but as a bound *)
    login,              (* the user each connection last logged in as      *)
    overlapped,         (* two threads have been in CreateSnowflake at once*)
    restarts

sessionVars == <<m_clientIdCounter, pending, clientId, m_socket_to_user, login>>
threadVars  == <<launched, mutex, handler>>
vars == <<snowflakeVars, users, sessionVars, threadVars, overlapped, restarts>>

NoUser == "noUser"

NoEntries == <<>>

Row == [Id : Ids, Username : Usernames]

Waiting == [at |-> "waiting"]
Dead    == [at |-> "dead"]

Handler ==
    {Waiting, Dead} \cup [at : {"create"}, username : Usernames]
                    \cup [at : {"insert"}, username : Usernames, id : Ids]

TypeOK ==
    /\ SnowflakeTypeOK
    /\ users \subseteq Row
    /\ m_clientIdCounter \in Nat
    /\ pending \subseteq Connections
    /\ DOMAIN clientId \subseteq Connections \ pending
    /\ \A c \in DOMAIN clientId : clientId[c] \in Nat
    /\ DOMAIN m_socket_to_user \subseteq Nat
    /\ \A id \in DOMAIN m_socket_to_user : m_socket_to_user[id] \in Row
    /\ launched \subseteq Workers
    /\ mutex \in Workers \cup {"free"}
    /\ handler \in [Workers -> Handler]
    /\ login \in [Connections -> Usernames \cup {NoUser}]
    /\ overlapped \in BOOLEAN
    /\ restarts \in Nat

Init ==
    /\ SnowflakeInit
    /\ users = {}
    /\ m_clientIdCounter = 0
    /\ pending = Connections
    /\ clientId = NoEntries
    /\ m_socket_to_user = NoEntries
    /\ launched = {}
    /\ mutex = "free"
    /\ handler = [w \in Workers |-> Waiting]
    /\ login = [c \in Connections |-> NoUser]
    /\ overlapped = FALSE
    /\ restarts = 0

(* std::map's insert_or_assign.                                            *)
InsertOrAssign(map, key, value) ==
    [k \in DOMAIN map \cup {key} |-> IF k = key THEN value ELSE map[k]]
-----------------------------------------------------------------------------
(* Connections.                                                            *)

(* Mutant: the id is given out again.                                      *)
AcceptSameId(c) ==
    /\ c \in pending
    /\ m_clientIdCounter < MaxClientIds
    /\ pending' = pending \ {c}
    /\ clientId' = InsertOrAssign(clientId, c, m_clientIdCounter)
    /\ UNCHANGED <<snowflakeVars, users, m_clientIdCounter, m_socket_to_user, login,
                   threadVars, overlapped, restarts>>

Accept(c) ==
    /\ c \in pending
    /\ m_clientIdCounter < MaxClientIds
    /\ pending' = pending \ {c}
    /\ clientId' = InsertOrAssign(clientId, c, m_clientIdCounter)
    /\ m_clientIdCounter' = m_clientIdCounter + 1
    /\ UNCHANGED <<snowflakeVars, users, m_socket_to_user, login, threadVars,
                   overlapped, restarts>>

(* accept() or fcntl() has failed: the id is used up all the same.         *)
AcceptFails ==
    /\ m_clientIdCounter < MaxClientIds
    /\ m_clientIdCounter' = m_clientIdCounter + 1
    /\ UNCHANGED <<snowflakeVars, users, pending, clientId, m_socket_to_user, login,
                   threadVars, overlapped, restarts>>

Open(c) == c \in DOMAIN clientId
-----------------------------------------------------------------------------
(* The handlers.                                                           *)

UsersNamed(username) == {row \in users : row.Username = username}

(* Mutant: a worker does not wait for the others.                          *)
CanRunUnlocked(w) == w \in launched /\ handler[w] = Waiting

CanRun(w) == w \in launched /\ handler[w] = Waiting /\ mutex = "free"

(* An unknown name is answered with error 10001; nothing else happens.     *)
OnAuthRequest(w, c, username) ==
    /\ CanRun(w) /\ Open(c)
    /\ \E row \in UsersNamed(username) :
           m_socket_to_user' = InsertOrAssign(m_socket_to_user, clientId[c], row)
    /\ login' = [login EXCEPT ![c] = username]
    /\ UNCHANGED <<snowflakeVars, users, m_clientIdCounter, pending, clientId, threadVars,
                   overlapped, restarts>>

(* A name that is taken is answered with error 10002; nothing else happens.*)
OnSignupRequest(w, c, username) ==
    /\ CanRun(w) /\ Open(c)
    /\ UsersNamed(username) = {}
    /\ mutex' = w
    /\ handler' = [handler EXCEPT ![w] = [at |-> "create", username |-> username]]
    /\ UNCHANGED <<snowflakeVars, users, sessionVars, launched, overlapped, restarts>>

(* A command nobody cancels throws out of the map of executors, which is   *)
(* empty; any other chat changes nothing here, and so does a command of a  *)
(* connection that is not logged in.                                       *)
OnChat(w, c) ==
    /\ CanRun(w) /\ Open(c)
    /\ clientId[c] \in DOMAIN m_socket_to_user
    /\ handler' = [handler EXCEPT ![w] = Dead]
    /\ UNCHANGED <<snowflakeVars, users, sessionVars, launched, mutex, overlapped,
                   restarts>>

(* CreateUser: a new id, ...                                               *)
CreateUserId(w) ==
    /\ handler[w].at = "create"
    /\ CreateSnowflake(w)
    /\ handler' = [handler EXCEPT ![w] =
           IF call[w].at = "return"
           THEN [at |-> "insert", username |-> @.username,
                 id |-> created'[Len(created')].id]
           ELSE @]
    /\ overlapped' = (overlapped \/ call[Main].at # "idle")
    /\ UNCHANGED <<users, sessionVars, launched, mutex, restarts>>

(* ... and the INSERT, which throws if the primary key is taken.           *)
InsertUser(w) ==
    /\ handler[w].at = "insert"
    /\ mutex' = "free"
    /\ IF \E row \in users : row.Id = handler[w].id
       THEN /\ handler' = [handler EXCEPT ![w] = Dead]
            /\ UNCHANGED users
       ELSE /\ handler' = [handler EXCEPT ![w] = Waiting]
            /\ users' = users \cup {[Id |-> handler[w].id, Username |-> handler[w].username]}
    /\ UNCHANGED <<snowflakeVars, sessionVars, launched, overlapped, restarts>>

HandlerStep(w) ==
    \/ \E c \in Connections : \/ \E username \in Usernames : \/ OnAuthRequest(w, c, username)
                                                             \/ OnSignupRequest(w, c, username)
                              \/ OnChat(w, c)
    \/ CreateUserId(w)
    \/ InsertUser(w)
-----------------------------------------------------------------------------
(* The main thread and the process.                                        *)

(* The loop of Server::Multithreaded: an id for the worker, then its start.*)
LaunchWorker ==
    /\ launched # Workers
    /\ CreateSnowflake(Main)
    /\ IF call[Main].at = "return"
       THEN \E w \in Workers \ launched : launched' = launched \cup {w}
       ELSE UNCHANGED launched
    /\ overlapped' = (overlapped \/ \E w \in Workers : call[w].at # "idle")
    /\ UNCHANGED <<users, sessionVars, mutex, handler, restarts>>

Tick ==
    /\ ClockMoves
    /\ UNCHANGED <<users, sessionVars, threadVars, overlapped, restarts>>

(* All but the table is gone.                                              *)
ProcessState ==
    /\ sequence' = 0
    /\ call' = [c \in Callers |-> Idle]
    /\ created' = <<>>
    /\ m_clientIdCounter' = 0
    /\ clientId' = NoEntries
    /\ login' = [c \in Connections |-> NoUser]
    /\ launched' = {}
    /\ mutex' = "free"
    /\ handler' = [w \in Workers |-> Waiting]

(* Mutant: the tables are created anew at every start.                     *)
RestartEmpty ==
    /\ restarts < MaxRestarts
    /\ restarts' = restarts + 1
    /\ ProcessState
    /\ m_socket_to_user' = NoEntries
    /\ users' = {}
    /\ UNCHANGED <<clock, pending, overlapped>>

(* The process ends, at any point, and is started again on its data.db3.   *)
Restart ==
    /\ restarts < MaxRestarts
    /\ restarts' = restarts + 1
    /\ ProcessState
    /\ m_socket_to_user' = NoEntries
    /\ UNCHANGED <<clock, users, pending, overlapped>>

Next ==
    \/ \E c \in Connections : Accept(c)
    \/ AcceptFails
    \/ \E w \in Workers : HandlerStep(w)
    \/ LaunchWorker
    \/ Tick
    \/ Restart

Spec == Init /\ [][Next]_vars
-----------------------------------------------------------------------------
(* Properties.                                                             *)

(***************************************************************************)
(* No two accounts have the same name, although the table does not demand  *)
(* it: the look-up and the INSERT of a sign-up are many steps apart, and   *)
(* only the mutex around the handlers and the fact that a restart drops    *)
(* the sign-ups under way make the check last (handlers.hpp:57-75,         *)
(* database.cpp:156-168).                                                  *)
(***************************************************************************)
UsernamesUnique ==
    \A row1, row2 \in users : row1.Username = row2.Username => row1 = row2

(***************************************************************************)
(* A connection is logged in as the user it last asked to be, by a row     *)
(* that is still in the table, or not at all; it never inherits the login  *)
(* of another connection, one of an earlier process or one whose accept    *)
(* failed included (server.cpp:56-66, server_socket.cpp:65-83).            *)
(***************************************************************************)
SessionBelongsToConnection ==
    \A c \in Connections :
        Open(c) =>
            IF clientId[c] \in DOMAIN m_socket_to_user
            THEN /\ m_socket_to_user[clientId[c]] \in users
                 /\ m_socket_to_user[clientId[c]].Username = login[c]
            ELSE login[c] = NoUser

(***************************************************************************)
(* An account, once in the table, stays there unchanged, whatever handlers *)
(* and restarts follow (database.cpp:59-93, 156-168).                      *)
(***************************************************************************)
AccountsAreKept == [][users \subseteq users']_vars

(***************************************************************************)
(* The id a sign-up is about to insert is free as long as the process has  *)
(* created no more than SequenceModulus ids since the table was empty, none*)
(* of them while another thread created one: the worker does not die of    *)
(* its INSERT (snowflake.cpp:11-20, database.cpp:158-168).                 *)
(***************************************************************************)
NewIdIsFree ==
    restarts = 0 /\ ~overlapped /\ Len(created) <= SequenceModulus =>
        \A w \in Workers :
            handler[w].at = "insert" => \A row \in users : row.Id # handler[w].id
=============================================================================
