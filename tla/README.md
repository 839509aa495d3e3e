# Chattere in TLA+

Chattere is a chat server with a small client, in C++. This directory holds TLA+ modules that model
both, TLC configurations that model-check them on small instances, and theorems about them
that TLAPS proves for every instance. `PROJECT.json` maps every definition to the lines it models
and lists the runs, the mutants, the hazards and the theorems.

    tlc -config Accounts.cfg Accounts.tla        # a run
    tlapm Accounts_proofs.tla                    # the proofs of a module

## 1. The system

### Components

| component | state | operations |
|---|---|---|
| **framing** (`Protocol/src/packet.cpp`) | none | `packet_to_buffer`, `packet_from_buffer`, `packets_from_buffer`: a header of four bytes, least significant first, and the serialised packet |
| **sockets** (`Net/src/socket.cpp`, `server_socket.cpp`, `client_socket.hpp`) | `m_clients`, `m_clientIdCounter`; per client `m_read_buffer` and a mutex | `Bind`, `Queue`, `Accept`, `ClientsRecv` (one `Recv` per client, inserted at the *beginning* of the read buffer), `GetClients`, `Connect`, `Send` |
| **server loops** (`Server/src/server.cpp`) | `m_unprocessed_packets` and its mutex, the threads | `Listen` chooses among `SingleThreaded`, `Create2Threads` and `Multithreaded`; `ProcessPacket` |
| **handlers** (`Server/include/handlers.hpp`, `Actions/`) | `m_socket_to_user` | `OnAuthRequest`, `OnSignupRequest`, `OnChat`, found by the packet's type |
| **ids** (`Snowflakes/src/snowflake.cpp`) | a global atomic counter | `CreateSnowflake` |
| **database** (`Database/src/database.cpp`) | `data.db3` | tables on construction, `CreateUser`, `CreateChannel`, `GetUsers`, `GetUserById`, `GetUserByUsername`, `GetChannels` |
| **events** (`Server/src/events/`) | one native listener; per event a flag and its texts | `EmitUserChatEvent`, `EmitCommandEvent`, the setters of both events |
| **plugins** (`Plugins/src/plugins.cpp`) | `m_plugins`, the Lua state, plugins' data files | `LoadLibs`, `LoadPlugins`, `on`, `register`, `EmitFunctions`, `file`, `read_json`, `save_file`, `append_file` |
| **start-up** (`server.cpp:23-41`, `main.cpp`) | `settings.yaml`, `m_config`, `m_settings` | the constructor, loading, `SetProperty`, `Listen` |
| **client** (`Client/src/main.cpp`) | a receive buffer | logs in, sends a line after the other; a thread receives and logs |
| unused or constant | | `Events/`, `PluginManager/`, `UserCommandSender`, `Permissible`, `Channel`, `lua_yaml.cpp`, `ColorFormat`, `emojize`, `json.lua` (third-party) |

### How they interact

A process starts up on one thread: it reads or creates `settings.yaml`, runs libraries and plugin
scripts, which register listeners and may save files, and then listens. With `--threads=1`, the
default, one thread accepts, receives, parses and handles in turn. Otherwise a **receiver** accepts
peers and moves the bytes of their connections into read buffers; a **reader** copies a read buffer,
cuts packets off the copy, erases as much from the buffer and queues the packets; **workers** take
them off and call `ProcessPacket`, which runs the handlers. The switch of `Listen` has no `break`:
`--threads=2` starts `Create2Threads`, whose receiver and reader handle packets themselves, and then
`Multithreaded` on the same clients, with a second receiver and reader and no worker; 0, a negative
number or something that is no number starts a receiver and a reader, and no worker either.
`--db` and `--ethreads` are parsed and not used.

Handlers read and write the database, the map of sessions and the id counter, and emit events, which
call Lua listeners synchronously, in the same thread. The **client** is a process of its own; what
it is sent goes through the same framing and a buffer filled from the front like the server's.

What is shared, and under which lock:

- `m_read_buffer`: written by a receiver without a lock, read and written by a reader under the
  client's mutex - which therefore keeps readers apart, and nobody else;
- `m_clients`, `m_clientIdCounter`: written by a receiver, the map copied by a reader, no lock;
- `m_unprocessed_packets`: under `m_unprocessed_packet_mutex`, and so is the *whole* handler, since
  the guard of a worker, or of the reader of `Create2Threads`, lives until its block ends. Sessions,
  database, events and Lua state have no lock of their own and rely on that one;
- `EMOJIS`: a global map read with `operator[]`, which inserts a name it lacks; handlers do so
  under the mutex, a receiver looks names up without it;
- `sequence`: an atomic, incremented in three accesses by the handlers and by the main thread;
- `settings.yaml`, data files and `data.db3`: shared by processes one after the other.

### What is hard here

Interleavings of receivers and readers, of one kind or of two; streams cut anywhere by TCP; sizes that
wrap, sizes of zero and lengths that are negative as an int; exceptions that end a thread in the middle of its critical section; look-ups
and inserts that are not one transaction; a process that ends anywhere, between opening and writing a
file too, and the next one on what it left; an id made of a clock and a racing counter; a cancelled
event, listeners registered while one is emitted, texts and commands set by listeners in any order;
a client that looks neither at the answer to its log-in nor at the end of its input.
`PROJECT.json` lists each at the line where it bites.

### What makes the parts correct

- framing: parsing returns what was written, reports as read what it returned, and does not depend
  on how the stream was cut;
- loops: the handlers see each peer's packets in the order they were sent, each once; no byte is lost;
  handlers exclude each other; what is queued is processed even when workers die;
- handlers: one account per name, accounts that stay, sessions that belong to their connection;
- ids: distinct; rows: read back as they were created, in this process and in later ones;
- files: whole unless a process was killed while writing; settings that are the operator's;
- events: all listeners of the event and no others, nothing after a cancellation, the line and the
  command that the texts and arguments in the end say;
- client: what is typed is handled, what is answered is logged, in order and each once.

## 2. The modules

```
Codec --> Peers --> ReadBuffer --> SingleThreaded --> MC_SingleThreaded
  |                     |              :  implements
  |                     |          PacketStream
  |                     |              :  implements
  |                     +--------> Multithreaded --> MC_Multithreaded
  +--> CodecLaws --> Base_proofs
  +--> Client --> MC_Client
Launch --> MC_Launch
Snowflake --> Accounts
    +-------> Base_proofs
    +-------> Database --+
Startup -----------------+--> Persistence
Plugins --> Events --> MC_Events
Base_proofs --> SingleThreaded_proofs, Multithreaded_proofs, Launch_proofs,
                Accounts_proofs, Persistence_proofs, Events_proofs, Client_proofs
```

**Codec.** `packet.cpp` as operators over sequences of bytes. A byte has `ByteBase` values (256 in the
program), a size is counted modulo `ByteBase^4` (2^32), and `ToInt` is what an `int` holds of it: the length of a frame
of 2^31 bytes or more is negative, and so may be `readLength + result.first`. Where `size + 4` wraps
(`SizeWraps`) the code takes any buffer for a whole frame, allocates almost 2^32 bytes and copies from beyond the
buffer's end. `packet_from_buffer` gives what it returns if it gets through that, the wrapped length and an empty
packet; `overruns` in the result of `packets_from_buffer` says that it had to, and the modules that call it add
the other outcomes: the exception and the end of the process. The loop is a recursive *function*, not an operator.

**CodecLaws.** The three laws of the framing, stated of a buffer that grows a byte at a time and so becomes every buffer
(by a stretch of zeros, too, so that TLC gets beyond what an `int` holds).
`InIntRange` is a buffer of fewer than 2^31 bytes, `Serialisable` a packet protobuf can write, `Fits` one whose frame
has a length that is positive as an int.

**Peers.** The environment: peers write frames, a connection delivers the bytes in order, a `Recv`
returns any number of them that `ChunkSizes` allows. `sent` and `stream` are history.

**ReadBuffer.** The two vector operations on `m_read_buffer`: `Inserted` (at the beginning,
`server_socket.cpp:96`) and `Erased` (clamped, `server.cpp:165, 211`).

**SingleThreaded.** `Server::SingleThreaded`; `pc` is where the thread is: `accept` (`AcceptNothing`,
`Accept`), `recv` (`RecvNothing`, `Recv`, `ClientsRecvDone`), `read` (`ReadNothing`, `Read`,
`ReadFails`, `RoundDone`), `process` (`Process`, `Throw`, `ProcessDone`). An exception leaves `main`.
`ReadFails` is a size that wraps and does not let the process go on; `Read` and `ReadNothing` are the outcomes where it does.
`mixed` remembers the peers whose chunk met older bytes.

**Multithreaded.** `Server::Multithreaded`. The receiver's insertion takes two steps (`Recv`,
`Insert`), and the reader's copy or erasure between them is a data race: `CopyTorn` takes every copy
that consists of old bytes up to some point and new ones from there, of either length; `EraseTorn`
loses the erasure, the insertion or neither; `Crash` ends the process. The reader's steps are
`GetClients`, `Copy`, `ParseFrame` (one turn of the parsing loop), `ParsedSome` or `ParsedNothing`,
`Erase`, `Push`; `ReaderThrows` or `Crash` where a size wraps. A worker's are `Lock`, `FindEmpty` or `Pop`, `Process` or `Throw`; its guard releases
the mutex in every case. The client's mutex is taken by the reader only and is no variable.
`integrity` records, per client, whether a chunk has met older bytes (`mixed`) or an overlap has
happened (`raced`).

**PacketStream.** What the loops owe the handlers, without buffers or threads: each peer's packets
in order, each once, as long as its stream is intact; a broken stream does not affect the others.
Both loops are checked and proved to implement it, with `delivered` read off `pushed` or `processed`.

**Launch.** `Server::Listen` for any value of `--threads`: which of `Create2Threads` and `Multithreaded` run
(`Cases`), with how many `Workers`, and all their threads on the same clients. Frames travel whole
here, since how they are cut is the business of the two modules above; what is new is what two receivers do to
`m_clientIdCounter` (`Accept`, `Count`), `m_clients` and the order of a peer's chunks (`Recv`, `Insert`), and
what two readers do to a buffer both have copied (`Copy`, `Erase`). `net`, `receiver`, `reader` and `pool` are records, one per kind of
thread. Accesses that race (`Racing`) are separate steps, and `Race` adds that anything may follow:
the module then goes no further. A failed accept, which uses up an id, is
`AcceptNothing` here, since skipping ids changes neither their order nor which of them are equal. `InIdOrder` is the order in which a `std::map` is traversed, given by each id's rank,
and `InsertOrAssign` the map's operation of that name.

**Snowflake.** `CreateSnowflake` in four steps per caller: the clock, the load, the store, and the load
for the result. `TimeModulus` stands for the 2^23 times the shift keeps - the comment speaks of 41
bits -, `SequenceModulus` for 2^12. The clock may be set to any of `Times` at any point. `SerialSpec`
is the same for callers that exclude each other.

**Accounts.** The handlers on the table `users`, `m_socket_to_user` and the ids. A sign-up is a
look-up, the steps of `CreateSnowflake` and the INSERT, under the mutex; the main thread launches
workers (and creates an id for each) at the same time; `Restart` may come at any point and keeps
the table only. Accepting gives out the next client id, and may fail (`AcceptFails`) after using one
up. A command throws out of the empty map of executors and ends its worker.
That handlers hold the mutex from beginning to end is what `Multithreaded` proves of
them (`MutexHeldByWorkerInside`). Which packet comes next is left open, so that every sequence the
loops can deliver is covered.

**Startup.** A process from `main` to `Listen`. A file is opened, which empties it
(`CreateSettings`, `SaveFile`) or makes an absent one (`AppendFile`), and written in a second step, when the stream is
destroyed (`WriteSettings`, `WriteFile`, `WriteAppended`); `End` may come
in between, and `torn` remembers which files that left empty (`LeftEmpty`). `LoadLib` and `RunPlugin` go through the directories in any order;
the operator edits the settings while no process runs (`Edit`).

**Database.** The tables `users` and `channels` as sequences in the order SELECT gives them. `CreateUser` and
`CreateChannel` begin with the steps of `CreateSnowflake` and end with `Insert`, or with `InsertFails` when the
id is taken; `Reopen` is the constructor in the next process. `inserted` is what was stored. The return from
the call changes nothing and is no step of its own: a process that ends before it leaves the same table, and
`CreatedIsReadBack` demands the row in either case.

**Persistence.** `Startup` and `Database` together: a process serves after it has started up, ends anywhere,
and the next one starts on its files.

**Plugins.** Plugin objects, their registered copies, and one event at a time through its Lua listeners
(`CallListener`), cancellation (`SetCanceled`, `ReturnCanceled`), errors (`ListenerThrows`) and the
native part (`LogMessage`, `GetCommandExecutor`). While a listener runs it may call `on` and
`register`. An error in a script at start-up ends the process (`ScriptThrows`).

**Events.** `Plugins` with the texts: names, messages and formats of chat events, the command and the
arguments of command events, and every setter a running listener may call. A text is a
sequence of tokens, so that `boost::split` and the replacement of `$0` and `$1` are what they do. The native
listener sets the format last, so that a plugin's `set_format` never shows. `set_command_args({})` reads
the first element of an empty vector and ends the process (`SetNoCommandArgs`). `Split` is a recursive function over the
text's positions.

**Client.** Both threads of the client, the packets of one connection, and what the server does with
them. Towards the client bytes travel: the server's sockets do not block and `Send` looks at no
result, so that an answer may be cut short (`Answer`). What follows a part of an answer may read as any size, and one
that wraps may end the thread or the process (`ParseFails`). Nothing in the server calls `User::SendMessage`
(Lua's `send_message` is that of `CommandSender` and only logs); it is modelled as something a server could do
(`SendMessage`), since the client has the code for what it sends.

A definition whose name begins with another's and whose comment begins with `Mutant` is a
plausible bug in that definition; no specification uses it. For every property of a run that passes,
one of them, put in the place of the original, makes TLC find the property violated.

## 3. The runs

| run | instance | shows |
|---|---|---|
| `codec` | every buffer of up to 10 bytes of {0,1,2}, or up to 9 and 36 or 37 zeros | the three laws of the framing: two frames, a frame among parts of others, frames with negative lengths, a sum of lengths that overflows, and the four of the 81 sizes that wrap |
| `mt_races` | 1 client, 2 packets cut at any byte, no worker | what a stream keeps while receiver and reader race; the step-wise parsing loop equals `packets_from_buffer` |
| `mt_queue` | 2 clients, 1 packet each, 2 workers that may die, fair | mutual exclusion, order, refinement of `PacketStream`, `QueueDrains` |
| `st_streams` | 2 clients, 2 packets each, empty ones included, fair | the default loop: streams, refinement, `EveryPacketProcessed` |
| `server` | `--threads` 0 to 4, 2 peers, 2 packets, fair readers | `HandledInOrder`, `LossesAreRepeats` and `DirectlyReadIsHandled` with one receiver and reader or two of each |
| `accounts` | 2 workers, 2 names, 2 connections, 4 ids, 1 restart | `UsernamesUnique`, `AccountsAreKept`, `SessionBelongsToConnection`, `NewIdIsFree` |
| `persistence` | 2 processes ended anywhere, 1 library, 1 plugin, 2 writes, 5 rows | `WholeUnlessKilled`, `SettingsAreTheOperators`, `CreatedIsReadBack`, and `RunsAreDistinct` through the turn of the counter |
| `plugins` | 2 plugins, 2 listeners, 2 events, 3 `on`, 2 `register`, 2 setters | `LoggedAfterAllListeners`, `CanceledIsFinal`, `LineIsNameAndMessage`, `CommandIsFirstArgument` |
| `client` | 3 lines, 2 chats, 2 messages, chunks of 2, 5, 8 and 10 bytes, fair | `LoggedIsWhatWasSent`, `HandledIsWhatWasTyped`, `EverythingArrives` |
| `st_buffer` | 1 client, 1 packet in two parts | *violated*: "Contains all the data from Recv" |
| `sf_concurrent` | 2 callers at once | *violated*: the one case `snowflake.cpp:13` names is not the only one |
| `plugins_example` | 1 plugin with a listener for each event | *violated*: listeners are called for the event they were added for |

**Why the bounds are enough.** Two clients are needed for a packet to be credited to the wrong
one, and for the loops' lists to have a rest; two packets of one client for order and for
chunks that join frames; every cut of two frames for the races, where one client suffices since
buffers do not interact. One surviving and one dead worker need two. The single-threaded run
takes chunks of half a header, a frame, and a frame with a header: the first makes a header in two parts and the last
one a frame that ends inside the chunk; its payload of the largest bytes makes a header read out of place name a size that wraps.
In the laws of the framing bytes of three values make an `int` that ends at 40, so that ten bytes
are the ordinary case; the stretch of zeros behind up to nine bytes is a packet of the largest size that still has a
positive length, or the next ones, alone or behind another frame. In `server` two packets of one peer are what two receivers can put in the wrong order and two readers
can read twice, and the second peer is what may get the first one's id; 0, 1, 2, 3 and 4 threads are all the
cases of the switch and zero, one and two workers. In `accounts` two workers and two names give every order of two sign-ups, two connections a
stolen session, one restart a table older than the process; the counter has three values and
there are four ids, so that it turns over; `Times` holds a time that does not fit into
`TimeModulus`. In `persistence` the second process finds whatever the first left, two writes are a save and an
append or an edit, and five ids make a counter of four values turn over. In `plugins` three calls of `on` give a plugin two events or two listeners, and two
calls of `register` a second plugin or a second copy of one; the texts hold `$0` in a message,
`$1` in a name, and spaces at the ends of a command and inside an argument; plugins and listeners are
interchangeable, and the run has no liveness property, so that they may be declared symmetric.
In `client` the three lines are the one that is not sent, one sent before or after the log-in fails, and one
behind it; chunks of 2, 5, 8 and 10 bytes are a part of a header, the frame of a message, that of the error, and two messages. A run stops at its bounds
(`CHECK_DEADLOCK FALSE`): the peers have sent everything, or the ids are used up; the program itself
would go on.

**Fairness.** The temporal properties assume weak fairness of each thread's next step, no more:
the operating system keeps scheduling every thread, and none of the loops waits for anything but a
mutex. `std::mutex` promises no fairness and the workers lock and unlock it in a busy loop, so
that a reader may never get in; hence `QueueDrains` speaks of what has been queued, and no
property says that the reader of `Multithreaded` reaches the queue. `DirectlyReadIsHandled` needs the readers to be
scheduled only: with two threads there are no workers, and the one other thread that takes the mutex,
the second reader, takes it no more than a few times, as peers send no more than a few packets. `EverythingArrives`
assumes both threads of the client and a server that keeps serving or ends.

**What the properties do not promise.** In a buffer of 2^31 bytes or more, or behind a size that wraps, the length and the packets
`packets_from_buffer` returns need not belong together: `ReadIsWhatWasParsed` says how far they do,
`ChunkingDoesNotMatter` speaks of shorter buffers, and `RoundTrip` of which packets have a positive length. `StreamKept` and the refinement hold for a stream as long as
it is `clean` (`Multithreaded`) or not in `mixed` (`SingleThreaded`), `HandledInOrder` for peers not in `log.mixed`,
and `LoggedIsWhatWasSent` until `broken`. Leaving it takes no unusual event -
a packet in two parts is enough, as `st_buffer` shows, and with two receivers two packets in a row. The properties say exactly how far the code
carries, and that one broken stream affects no other. `LossesAreRepeats` bounds what two readers may lose by what they read
twice.

## 4. The proofs

TLAPS proves for all values of the constants - any number of clients, workers, peers, connections, names, processes,
plugins and restarts, any payloads, texts, chunk sizes and `--threads`, any moduli - every invariant, action property
and refinement that a passing run checks. `PROJECT.json` lists the theorems. Assumed are the named assumptions in the
modules and no others: bounds are natural numbers, moduli positive, payloads sequences of bytes, "free" is not the name
of a thread, the log-in is not a line and the error not a chat (they have different packet types), the tokens include
those the code writes itself. `PayloadsFitAssumption` and `AnswersFitAssumption` say that the length of a frame that is
sent is an `int`: protobuf serialises nothing of 2^31 bytes or more, and the last four sizes below are excluded.

- **Base_proofs** holds what several components rest on: the framing and the ids. `PacketRoundTrip`: four digits base
  `ByteBase` make up the size again (`FourDigits`, from the uniqueness of division), and the frame's bytes are found
  behind its header; the length read is that of the frame as an `int`. `ParsesNothing` and `ParsesFirst` unfold the loop of
  `packets_from_buffer`, a recursive function of `readLength` (`Cut`): a table that satisfies its equation exists and is
  unique, by induction over the set of the values in `ReadLengths` for which it does. The laws then follow by induction
  on the bytes left: `ReadIsWhatWasParsedAlways`, `ChunkingDoesNotMatterAlways`, `RoundTripAlways`. `ParsesStream` is what
  the loops need: a buffer that, with what is still to come, is a stream of frames that were written, is parsed `Cleanly` - no size
  wraps, and what was read is the encoding of the packets. `CounterInvariant`: at most one call of `CreateSnowflake` is under way, the counter is the number
  of increments modulo `SequenceModulus`, and so is the last part of the i-th id; hence `SerialRunsAreDistinct`, since
  two numbers less than a modulus apart have different remainders.
- **Multithreaded_proofs.** `TypeOK` alone is not inductive: `Head(toReceive)` has a type only if the list is not empty
  while the receiver inserts, and likewise for the reader; `TypeInv` adds that as `LoopsOK`. `HandlersExcludeEachOther`
  and `QueueIsFifo` follow from `QueueInv`, which ties the holder of the mutex to the workers' counters and the queue to
  what was pushed. `BytesAreConserved` and `CleanStreamsAreKept` do not speak of the reader's copy, but an erasure is
  right only if the copy still is a prefix of the buffer, or, for counting, not longer than it: `StreamsInv` says so for
  as long as the reader is between copy and erasure. Three predicates on plain sequences (`Kept`, `Balanced`, `Joined`)
  keep the arithmetic out of the state. `CopiesAreParsed`: `LoopInv` says that the frames parsed so far, and what the
  whole function makes of the rest, are what it makes of the copy. `QueueSeesPacketStream` is the refinement:
  `DeliveryInv` says that what was queued for a clean client, with what the reader holds, is encoded in what was taken,
  so that a `Push` delivers the next packets of that stream; every other step stutters, sends, or breaks a stream. Only of a
  clean client: behind shuffled bytes a size may wrap, and what is parsed then is the encoding of nothing.
- **SingleThreaded_proofs.** The same argument with one program counter: `StreamsInv` gives `BytesAreConserved` and
  `UnmixedStreamsAreKept`; `DeliveryInv` says, of the peers not in `mixed`, that what was taken is the encoding of the packets processed and in hand,
  which gives `HandlersSeePacketStream`.
- **Launch_proofs.** `FlowInvariant`: every frame sent is on its way, held by a receiver, buffered or taken, and in no
  two of these but "buffered" and "taken", where the copies of two readers overlap; frames are counted by the lengths of
  these sequences (`Accounted`), and counting the sets gives `NothingVanishes`, for any mixture. `OrderInvariant` is
  about peers none of whose chunks met older frames: what was handled, queued, copied and buffered of such a peer is one
  increasing sequence, which the frames held by receivers and those on their way continue. `OrderKept` follows. With two
  threads the reader of `Create2Threads` handles packets itself and the queue of `Multithreaded` is never emptied:
  `Handling` names the reader whose packets are handled. `TakenInvariant` - handlers see only what was taken - completes
  `TypeCorrect`.
- **Accounts_proofs** `AccountsTypes`, and `NamesAreUnique`: the inductive invariant says that a worker between look-up
  and INSERT holds the mutex - so that there is only one - and that its name is not in the table. `AccountsStay` needs
  the types only. `NewIdsAreFree`: in the first process every row's id is one of `created`, and as long as calls have
  not overlapped the counter counts (`IdsInv`). `SessionsAreTheirOwn`: client ids in use lie below the counter, whether
  or not an accept failed, so that no two open connections share one (`SessionsInv`).
- **Persistence_proofs** `FilesAreWhole`, `SettingsStay`. `FilesInv` names the texts a settings file can hold and says
  that it is empty only while it is being written or after a process was ended there, and that a data file is what was
  written but for a save that has begun, or a first append whose file has been made and not yet written. `RunsStayDistinct`: the counter again, which a new process re-establishes
  because it forgets its ids when it sets the counter to 0. `RowsInvariant`: the tables are, row for row, what was
  inserted, their ids are unique and channels are text channels; that an INSERT has an id to use needs that one was
  created in the same process (`IdsFirst`). `CreatedIsAlwaysReadBack` adds what the SELECTs filter: a table filtered by
  an id that one row has is that row, and one filtered by the type all rows have is the table. `PersistenceTypes`
  follows from both invariants.
- **Events_proofs** `CanceledStaysCanceled`: an event in its listeners has come to nothing yet (`UndecidedInLua`), and
  the setters leave the emission where it is or end the process (`Setters`). `AllListenersAreAsked`: a listener may call
  `on` and `register` while an event goes through the listeners, so that what is to be called was fixed when its
  plugin's turn came; `ListenersInv` says that the listeners expected lie, in order, `Among` those called and those to
  come. `LineShowsNameAndMessage`: `LineInv` ties the line to the native format and the texts as they are in the end;
  the replacement of `$0` and `$1` in that format is worked out token by token. `CommandAlwaysFirst`: `Split` is
  unfolded like the parsing loop, a first argument without spaces is what it returns first, and `CommandInv` says that
  the command in hand has arguments.
- **Client_proofs** `TypeCorrect`. `HandledAsTyped`: `ReadingInv` says that what the main thread has sent, and holds, is
  what was typed; `SessionInv` distinguishes what the connection holds before, during and after the log-in, and that
  nothing is handled unless it succeeded. `LoggedAsSent`: `Kept` again, for the answers, between the server's `Send` and
  the receiving thread's buffer, until the stream is `broken`.

In the models, folds and recursive functions stand where a filter or a sort of the library might: the provers cannot
expand those (`EmitFunctions` and `GetChannels` flatten, `InIdOrder` ranks).

**Only model-checked:** `QueueDrains`, `EveryPacketProcessed`, `DirectlyReadIsHandled` and `EverythingArrives`. They are
liveness under fairness, which TLAPS cannot establish without reasoning about ENABLED.

## 5. Not modelled

- `Events/`, `PluginManager/`, `UserCommandSender`, `Permissible` and `Channel`: nothing uses them. `LuaYaml` is compiled in, but not offered to
  Lua. `ColorFormat` and `emojize` have no caller. `GetChannelsByType`, `GetChannelById`, `GetChannelsByName`, `GetMessages` and `GetMessage` have empty bodies.
- The address classes, protobuf's encoding, socket options, logging and the wording of texts: conversions without state.
- `RegisterCommand` and the executors: no caller is left, so that `m_commands` is empty and `GetCommandExecutor` throws, which is modelled.
- Passwords: a sign-up writes one, and nothing reads it; a log-in needs no more than a name.
- Files that a listener saves while the server serves: the same two steps as from a script, and no other thread reads them.
- A second server process at the same time on the same files: nothing in the code expects it.

## 6. Plan

1. Done: framing, both loops and their refinement, the choice of the threading mode with the threads of `Create2Threads`,
   ids, handlers with restarts, start-up, files and database across processes, plugins, events and their texts, the client;
   and a proof of every invariant, action property and refinement that a passing run checks.
2. Review: bounds and mutants, with longer instances where the time of a run allows it; the longest proofs (`Launch_proofs`,
   `Base_proofs`) for lemmas they could share.
