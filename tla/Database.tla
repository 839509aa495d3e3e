------------------------------ MODULE Database ------------------------------
(***************************************************************************)
(* The Database class (Database/src/database.cpp) with the ids it takes    *)
(* from CreateSnowflake: users and channels, created by callers that       *)
(* exclude each other and read back in this process or a later one, on     *)
(* the file data.db3.                                                      *)
(*                                                                         *)
(* A table is the sequence of its rows in the order in which SELECT gives  *)
(* them, that of their insertion.  Passwords are only written.             *)
(* GetChannelsByType, GetChannelById, GetChannelsByName, GetMessages and   *)
(* GetMessage have empty bodies: calling one is undefined, and nothing     *)
(* does.                                                                   *)
(***************************************************************************)
EXTENDS Snowflake, SequencesExt

CONSTANTS Names,     (* of users and channels                              *)
          Parents,   (* of channels                                        *)
          MaxRows    (* bound: rows of both tables                         *)

VARIABLES
    users, channels,    (* the tables                                      *)
    creating,           (* the row each caller is creating, without its id *)
    (* history *)
    inserted            (* the rows stored, as CreateUser and              *)
                        (* CreateChannel return them                       *)

databaseVars == <<users, channels, creating, inserted>>

(* protocol::BasicChannel::ChannelCase                                     *)
ChannelCases == {"CHANNEL_NOT_SET", "kCategoryChannel", "kDmChannel", "kTextChannel"}

Nothing == [table |-> "none"]

Request == [table : {"users"}, name : Names]
               \cup [table : {"channels"}, name : Names, parent : Parents, case : ChannelCases]

UserRow == [id : Ids, name : Names]
ChannelRow == [id : Ids, name : Names, parent : Parents, case : ChannelCases]

DatabaseTypeOK ==
    /\ users \in Seq(UserRow) /\ channels \in Seq(ChannelRow)
    /\ creating \in [Callers -> Request \cup {Nothing}]
    /\ inserted \in [users : Seq(UserRow), channels : Seq(ChannelRow)]

DatabaseInit ==
    /\ users = <<>> /\ channels = <<>>
    /\ creating = [c \in Callers |-> Nothing]
    /\ inserted = [users |-> <<>>, channels |-> <<>>]
-----------------------------------------------------------------------------
BeginsCreating(c, row) ==
    /\ creating[c] = Nothing
    /\ Len(users) + Len(channels) < MaxRows
    /\ creating' = [creating EXCEPT ![c] = row]
    /\ ReadClock(c)
    /\ UNCHANGED <<users, channels, inserted>>

CreateUser(c, name) == BeginsCreating(c, [table |-> "users", name |-> name])

(* Mutant: a channel of any kind is stored.                                *)
CreateChannelAny(c, case, name, parent) ==
    BeginsCreating(c, [table |-> "channels", name |-> name, parent |-> parent, case |-> case])

(* Only text channels are created; for any other nullptr is returned at    *)
(* once.                                                                   *)
CreateChannel(c, case, name, parent) ==
    /\ case = "kTextChannel"
    /\ BeginsCreating(c, [table |-> "channels", name |-> name, parent |-> parent, case |-> case])

CreatingId(c) ==
    /\ call[c].at # "idle"
    /\ CreateSnowflake(c)
    /\ UNCHANGED databaseVars

NewId == Last(created).id

IdsIn(table) == {table[i].id : i \in DOMAIN table}

(* The INSERT.  What is left of the call changes nothing but the caller's  *)
(* own values: a process that ends before it returns leaves what one that  *)
(* ends after it does, and the row must be read back all the same.         *)
InsertIntoUsers(row) ==
    /\ NewId \notin IdsIn(users)
    /\ users' = Append(users, row)
    /\ inserted' = [inserted EXCEPT !.users = Append(@, row)]
    /\ UNCHANGED channels

InsertIntoChannels(row) ==
    /\ NewId \notin IdsIn(channels)
    /\ channels' = Append(channels, row)
    /\ inserted' = [inserted EXCEPT !.channels = Append(@, row)]
    /\ UNCHANGED users

Insert(c) ==
    /\ creating[c] # Nothing
    /\ call[c].at = "idle"
    /\ \/ /\ creating[c].table = "users"
          /\ InsertIntoUsers([id |-> NewId, name |-> creating[c].name])
       \/ /\ creating[c].table = "channels"
          /\ InsertIntoChannels([id |-> NewId, name |-> creating[c].name,
                                 parent |-> creating[c].parent, case |-> creating[c].case])
    /\ creating' = [creating EXCEPT ![c] = Nothing]
    /\ UNCHANGED snowflakeVars

(* PRIMARY KEY (Id): exec throws.                                          *)
InsertFails(c) ==
    /\ creating[c] # Nothing
    /\ call[c].at = "idle"
    /\ NewId \in IdsIn(IF creating[c].table = "users" THEN users ELSE channels)
    /\ creating' = [creating EXCEPT ![c] = Nothing]
    /\ UNCHANGED <<snowflakeVars, users, channels, inserted>>

(* The callers exclude each other, as the handlers do.                     *)
Alone(c) == Exclusively(c) /\ \A d \in Callers \ {c} : creating[d] = Nothing

DatabaseStep ==
    \/ ClockMoves /\ UNCHANGED databaseVars
    \/ \E c \in Callers :
           /\ Alone(c)
           /\ \/ \E name \in Names : CreateUser(c, name)
              \/ \E case \in ChannelCases, name \in Names, parent \in Parents :
                     CreateChannel(c, case, name, parent)
              \/ CreatingId(c)
              \/ Insert(c)
              \/ InsertFails(c)

(* A new process: the counter starts at 0, CREATE TABLE IF NOT EXISTS      *)
(* keeps the tables.                                                       *)
Reopen ==
    /\ sequence' = 0
    /\ call' = [c \in Callers |-> Idle]
    /\ created' = <<>>
    /\ creating' = [c \in Callers |-> Nothing]
    /\ UNCHANGED <<clock, users, channels, inserted>>
-----------------------------------------------------------------------------
(* What is read back.                                                      *)

UserOf(row) == [id |-> row.id, username |-> row.name]

GetUsers == [i \in DOMAIN users |-> UserOf(users[i])]

(* The first row of those with the id.                                     *)
GetUserById(id) ==
    LET found == {i \in DOMAIN users : users[i].id = id}
    IN  IF found = {} THEN "nullptr" ELSE UserOf(users[Min(found)])

(* Rows of other types are skipped.  One of a DMChannel would throw: the   *)
(* table has no column Recipient_1.                                        *)
GetChannelsThrows == \E i \in DOMAIN channels : channels[i].case = "kDmChannel"

ChannelOf(row) == [id |-> row.id, name |-> row.name, parent |-> row.parent]

GetChannels ==
    FlattenSeq([i \in DOMAIN channels |->
        IF channels[i].case = "kTextChannel" THEN <<ChannelOf(channels[i])>> ELSE <<>>])
-----------------------------------------------------------------------------
(***************************************************************************)
(* Everything that was stored, whether its caller was told or the process  *)
(* ended first, is read back as it was created, in this process and in     *)
(* every later one, in order, each user under its own id, and reading      *)
(* throws nothing (database.cpp:34-57, 95-134, 181-279).                   *)
(***************************************************************************)
CreatedIsReadBack ==
    /\ GetUsers = [i \in DOMAIN inserted.users |-> UserOf(inserted.users[i])]
    /\ \A i \in DOMAIN users : GetUserById(users[i].id) = UserOf(users[i])
    /\ ~GetChannelsThrows
    /\ GetChannels = [i \in DOMAIN inserted.channels |-> ChannelOf(inserted.channels[i])]
=============================================================================
