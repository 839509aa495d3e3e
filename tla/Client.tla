------------------------------- MODULE Client -------------------------------
(***************************************************************************)
(* The client (Client/src/main.cpp) and what a server does with one        *)
(* connection of it: the client logs in as "kozy" whatever the answer,     *)
(* sends a line of its input after the other as a chat, and, on another    *)
(* thread, takes packets out of a buffer of its own and logs them.         *)
(*                                                                         *)
(* To the server packets travel whole and in order: the client's socket    *)
(* blocks, so that a write is complete, and SingleThreaded shows how the   *)
(* server takes them apart.  To the client they travel as bytes: the       *)
(* server's sockets do not block, Send looks at no result, and a write to  *)
(* a connection that is behind may be cut short.                           *)
(***************************************************************************)
EXTENDS Codec, SequencesExt

CONSTANTS Lines,        (* what the user may type                          *)
          ErrorPacket,  (* the serialised error 10001, and ...             *)
          ChatEvents,   (* ... messages to a user (User::SendMessage)      *)
          ChunkSizes,   (* bound: the sizes a Recv may return              *)
          MaxLines,     (* bound: lines typed                              *)
          MaxChats,     (* bound: chats sent                               *)
          MaxMessages   (* bound: messages to the user                     *)

LogIn == "log in"

(* What getline leaves in line at the end of the input.                    *)
NoLine == ""

ASSUME ClientAssumption ==
    /\ {ErrorPacket} \cup ChatEvents \subseteq Seq(Byte) \ {<<>>}
    /\ ChunkSizes \subseteq Nat \ {0}
(* A chat is not a log-in and an error no message: packets have types.     *)
ASSUME TypesAssumption == LogIn \notin Lines /\ ErrorPacket \notin ChatEvents
(* Answers have no 2^31 bytes, frame included (Codec).                     *)
ASSUME AnswersFitAssumption ==
    \A packet \in {ErrorPacket} \cup ChatEvents : 2 * (Len(packet) + HeaderLen) < SizeModulus

VARIABLES
    typed,      (* the lines the user has typed                            *)
    eof,        (* there will be no more                                   *)
    read,       (* how many getline has returned                           *)
    main,       (* the client's main thread                                *)
    thread,     (* the client's other thread                               *)
    connected,
    toServer,   (* packets on their way, the log-in or a chat's content    *)
    toClient,   (* bytes on their way                                      *)
    buffer,     (* the client's buffer                                     *)
    kozyExists, (* the server's table of users has the name                *)
    loggedIn,   (* m_socket_to_user has the connection                     *)
    (* history *)
    chats,      (* what the client has sent                                *)
    handled,    (* what the chat handler has passed on                     *)
    answers,    (* what the server has sent                                *)
    logged,     (* what the client has logged                              *)
    broken      (* an answer was cut short or lost with the connection, or *)
                (* a chunk met older bytes in the buffer                   *)

inputVars  == <<typed, eof, read>>
clientVars == <<main, thread, buffer, chats, logged, broken>>
serverVars == <<kozyExists, loggedIn, handled, answers>>
vars == <<inputVars, clientVars, serverVars, connected, toServer, toClient>>

TypeOK ==
    /\ typed \in Seq(Lines) /\ eof \in BOOLEAN /\ read \in 0 .. Len(typed)
    /\ main \in {"connect", "logIn", "firstLine", "chat", "killed"}
    /\ thread \in {"none", "recv", "parse", "ended"}
    /\ connected \in BOOLEAN
    /\ toServer \in Seq(Lines \cup {LogIn, NoLine})
    /\ toClient \in Seq(Byte) /\ buffer \in Seq(Byte)
    /\ kozyExists \in BOOLEAN /\ loggedIn \in BOOLEAN /\ broken \in BOOLEAN
    /\ chats \in Seq(Lines \cup {NoLine}) /\ handled \in Seq(Lines \cup {NoLine})
    /\ answers \in Seq({ErrorPacket} \cup ChatEvents)
    /\ logged \in Seq(Seq(Byte))

Init ==
    /\ typed = <<>> /\ eof = FALSE /\ read = 0
    /\ main = "connect" /\ thread = "none"
    /\ connected = FALSE
    /\ toServer = <<>> /\ toClient = <<>> /\ buffer = <<>>
    /\ kozyExists \in BOOLEAN /\ loggedIn = FALSE
    /\ chats = <<>> /\ handled = <<>>
    /\ answers = <<>> /\ logged = <<>> /\ broken = FALSE
-----------------------------------------------------------------------------
(* The user.                                                               *)

Type(line) ==
    /\ ~eof
    /\ Len(typed) < MaxLines
    /\ typed' = Append(typed, line)
    /\ UNCHANGED <<eof, read, clientVars, serverVars, connected, toServer, toClient>>

CloseInput ==
    /\ ~eof
    /\ eof' = TRUE
    /\ UNCHANGED <<typed, read, clientVars, serverVars, connected, toServer, toClient>>
-----------------------------------------------------------------------------
(* The client's main thread.                                               *)

(* A failure is logged, nothing else.                                      *)
Connect ==
    /\ main = "connect"
    /\ connected' \in BOOLEAN
    /\ main' = "logIn"
    /\ UNCHANGED <<inputVars, thread, buffer, chats, logged, broken, serverVars,
                   toServer, toClient>>

(* Socket::Send.  A write to a socket without a connection raises SIGPIPE. *)
Send(packet) ==
    toServer' = IF connected THEN Append(toServer, packet) ELSE toServer

SendLogIn ==
    /\ main = "logIn"
    /\ Send(LogIn)
    /\ main' = IF connected THEN "firstLine" ELSE "killed"
    /\ UNCHANGED <<inputVars, thread, buffer, chats, logged, broken, serverVars,
                   connected, toClient>>

(* std::getline: the next line, or nothing and at once after the last one. *)
HasLine == read < Len(typed) \/ eof

(* Mutant: the end of the input counts as a line.                          *)
GetlinePastEnd ==
    /\ HasLine
    /\ read' = read + 1
    /\ UNCHANGED <<typed, eof>>

Getline ==
    /\ HasLine
    /\ read' = IF read < Len(typed) THEN read + 1 ELSE read
    /\ UNCHANGED <<typed, eof>>

Line == IF read < Len(typed) THEN typed[read + 1] ELSE NoLine

(* The first line is not sent; the other thread starts behind it.          *)
FirstLine ==
    /\ main = "firstLine"
    /\ Getline
    /\ main' = "chat"
    /\ thread' = "recv"
    /\ UNCHANGED <<buffer, chats, logged, broken, serverVars, connected, toServer, toClient>>

(* Mutant: a line is read ahead of the one that is sent.                   *)
SendChatAhead ==
    /\ main = "chat"
    /\ Len(chats) < MaxChats
    /\ Getline
    /\ Send(IF read > 0 THEN typed[read] ELSE Line)
    /\ chats' = Append(chats, Line)
    /\ main' = IF connected THEN "chat" ELSE "killed"
    /\ UNCHANGED <<thread, buffer, logged, broken, serverVars, connected, toClient>>

SendChat ==
    /\ main = "chat"
    /\ Len(chats) < MaxChats
    /\ Getline
    /\ Send(Line)
    /\ chats' = Append(chats, Line)
    /\ main' = IF connected THEN "chat" ELSE "killed"
    /\ UNCHANGED <<thread, buffer, logged, broken, serverVars, connected, toClient>>
-----------------------------------------------------------------------------
(* Its other thread.                                                       *)

Running == main # "killed"

(* Recv, and the callback that puts the bytes in FRONT of the buffer.      *)
Recv(size) ==
    /\ Running
    /\ thread = "recv"
    /\ size <= Len(toClient)
    /\ toClient' = Rest(toClient, size)
    /\ buffer' = SubSeq(toClient, 1, size) \o buffer
    /\ broken' = (broken \/ buffer # <<>>)
    /\ thread' = "parse"
    /\ UNCHANGED <<inputVars, main, chats, logged, serverVars, connected, toServer>>

(* Mutant: of several packets the last one is logged.                      *)
ParseLast ==
    /\ Running
    /\ thread = "parse"
    /\ LET result == packets_from_buffer(buffer)
       IN  IF result.len > 0
           THEN /\ buffer' = Rest(buffer, result.len)
                /\ logged' = Append(logged, Last(result.packets))
           ELSE UNCHANGED <<buffer, logged>>
    /\ thread' = "recv"
    /\ UNCHANGED <<inputVars, main, chats, broken, serverVars, connected, toServer, toClient>>

Parse ==
    /\ Running
    /\ thread = "parse"
    /\ LET result == packets_from_buffer(buffer)
       IN  IF result.len > 0
           THEN /\ buffer' = Rest(buffer, result.len)
                /\ logged' = logged \o result.packets
           ELSE UNCHANGED <<buffer, logged>>
    /\ thread' = "recv"
    /\ UNCHANGED <<inputVars, main, chats, broken, serverVars, connected, toServer, toClient>>

(***************************************************************************)
(* A size that wraps: the copy past the end of the buffer may end the      *)
(* process; bad_alloc ends the thread, its future is waited for by nobody. *)
(* Parse is the outcome where neither happens.                             *)
(***************************************************************************)
ParseFails ==
    /\ Running
    /\ thread = "parse"
    /\ packets_from_buffer(buffer).overruns
    /\ \/ main' = "killed" /\ UNCHANGED thread
       \/ thread' = "ended" /\ UNCHANGED main
    /\ UNCHANGED <<inputVars, buffer, chats, logged, broken, serverVars, connected,
                   toServer, toClient>>
-----------------------------------------------------------------------------
(* The server.                                                             *)

(* Socket::Send on a socket that does not block: the whole frame, or what  *)
(* of it there is room for.                                                *)
Answer(packet, written) ==
    LET frame == packet_to_buffer(packet)
    IN  /\ written \in 0 .. Len(frame)
        /\ toClient' = toClient \o SubSeq(frame, 1, written)
        /\ answers' = Append(answers, packet)
        /\ broken' = (broken \/ written < Len(frame))

Sizes == {0, 2} \cup {HeaderLen + Len(packet) : packet \in {ErrorPacket} \cup ChatEvents}

Takes == connected /\ toServer # <<>> /\ toServer' = Tail(toServer)

(* OnAuthRequest                                                           *)
LogsIn ==
    /\ Takes
    /\ Head(toServer) = LogIn
    /\ kozyExists
    /\ loggedIn' = TRUE
    /\ UNCHANGED <<inputVars, clientVars, kozyExists, handled, answers, connected, toClient>>

LogInFails(written) ==
    /\ Takes
    /\ Head(toServer) = LogIn
    /\ ~kozyExists
    /\ Answer(ErrorPacket, written)
    /\ UNCHANGED <<inputVars, main, thread, buffer, chats, logged, kozyExists, loggedIn,
                   handled, connected>>

(* Mutant: whoever has not logged in is heard as well.                     *)
OnChatFromAnybody ==
    /\ Takes
    /\ Head(toServer) # LogIn
    /\ handled' = Append(handled, Head(toServer))
    /\ UNCHANGED <<inputVars, clientVars, kozyExists, loggedIn, answers, connected, toClient>>

(* OnChat: without a user the chat is dropped.                             *)
OnChat ==
    /\ Takes
    /\ Head(toServer) # LogIn
    /\ handled' = IF loggedIn THEN Append(handled, Head(toServer)) ELSE handled
    /\ UNCHANGED <<inputVars, clientVars, kozyExists, loggedIn, answers, connected, toClient>>

(* User::SendMessage, which nothing calls: Lua's send_message is that of   *)
(* CommandSender, which is const, is not overridden, and only logs.        *)
SendMessage(message, written) ==
    /\ connected
    /\ loggedIn
    /\ Len(answers) < MaxMessages
    /\ Answer(message, written)
    /\ UNCHANGED <<inputVars, main, thread, buffer, chats, logged, kozyExists, loggedIn,
                   handled, connected, toServer>>

(* Somebody else signs up.                                                 *)
SignUp ==
    /\ ~kozyExists
    /\ kozyExists' = TRUE
    /\ UNCHANGED <<inputVars, clientVars, loggedIn, handled, answers, connected,
                   toServer, toClient>>

(* The server's process ends; what it has sent may be lost or not.         *)
ServerEnds ==
    /\ connected
    /\ connected' = FALSE
    /\ toServer' = <<>>
    /\ toClient' \in {toClient, <<>>}
    /\ broken' = (broken \/ toClient' # toClient)
    /\ UNCHANGED <<inputVars, main, thread, buffer, chats, logged, serverVars>>

Server == LogsIn \/ (\E written \in Sizes : LogInFails(written)) \/ OnChat

MainThread == Connect \/ SendLogIn \/ FirstLine \/ SendChat

OtherThread == Parse \/ ParseFails \/ \E size \in ChunkSizes : Recv(size)

Next ==
    \/ \E line \in Lines : Type(line)
    \/ CloseInput
    \/ MainThread
    \/ OtherThread
    \/ Server
    \/ \E message \in ChatEvents, written \in Sizes : SendMessage(message, written)
    \/ SignUp
    \/ ServerEnds

Spec == Init /\ [][Next]_vars

(* Both threads of the client and the server keep being scheduled.         *)
FairSpec == Spec /\ WF_vars(MainThread) /\ WF_vars(OtherThread) /\ WF_vars(Server)
-----------------------------------------------------------------------------
(* Properties.                                                             *)

(***************************************************************************)
(* What the client logs are the packets the server has sent, in order and  *)
(* each once, until an answer is cut short or lost, or arrives in front of *)
(* a part of an earlier one (Client main.cpp:52-74, socket.cpp:74-77).     *)
(***************************************************************************)
LoggedIsWhatWasSent == broken \/ IsPrefix(logged, answers)

(***************************************************************************)
(* The chats the server passes on are the lines typed, in order, from the  *)
(* second one on - then, at the end of the input, empty ones.  A log-in    *)
(* that has failed is never made up for: nothing is passed on, although    *)
(* the client goes on sending (Client main.cpp:57-87, handlers.hpp:79-88). *)
(***************************************************************************)
HandledIsWhatWasTyped ==
    /\ \A i \in DOMAIN handled :
           IF i < Len(typed) THEN handled[i] = typed[i + 1] ELSE eof /\ handled[i] = NoLine
    /\ handled # <<>> => ErrorPacket \notin ToSet(answers)

(***************************************************************************)
(* Each line the user types, but the first, is passed on eventually, and   *)
(* each answer is logged - unless the log-in fails, the connection does,   *)
(* the stream of answers is broken, a size that wraps has ended the client *)
(* or no first line is typed (Client main.cpp:57-87).                      *)
(***************************************************************************)
EverythingArrives ==
    /\ \A n \in 2 .. MaxLines :
           Len(typed) >= n ~> \/ Len(handled) >= n - 1
                              \/ ErrorPacket \in ToSet(answers)
                              \/ main # "connect" /\ ~connected
                              \/ ~Running
    /\ \A n \in 1 .. MaxMessages :
           (Len(answers) >= n /\ thread # "none") ~> Len(logged) >= n \/ broken \/ ~Running
=============================================================================
