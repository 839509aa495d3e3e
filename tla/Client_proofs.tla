---------------------------- MODULE Client_proofs ----------------------------
(***************************************************************************)
(* What holds of the client and of the connection it has with a server,    *)
(* whatever is typed and sent, and in whatever chunks it arrives.          *)
(***************************************************************************)
EXTENDS Client, Base_proofs

Packets == {ErrorPacket} \cup ChatEvents

Contents == Lines \cup {NoLine}

LEMMA PacketsReadable == Packets \subseteq Readable
BY ClientAssumption, AnswersFitAssumption DEF Packets, Readable, NonEmpty, Fits

LEMMA InitTypeOK == Init => TypeOK
<1> SUFFICES ASSUME Init PROVE TypeOK
  OBVIOUS
<1>1. /\ <<>> \in Seq(Lines) /\ <<>> \in Seq(Lines \cup {LogIn, NoLine}) /\ <<>> \in Seq(Byte)
      /\ <<>> \in Seq(Lines \cup {NoLine}) /\ <<>> \in Seq(Packets) /\ <<>> \in Seq(Seq(Byte))
      /\ Len(<<>>) = 0
  OBVIOUS
<1>2. read \in 0 .. Len(typed) /\ typed \in Seq(Lines) /\ toServer \in Seq(Lines \cup {LogIn, NoLine})
  BY <1>1 DEF Init
<1>3. /\ toClient \in Seq(Byte) /\ buffer \in Seq(Byte) /\ chats \in Seq(Lines \cup {NoLine})
      /\ handled \in Seq(Lines \cup {NoLine}) /\ answers \in Seq(Packets)
      /\ logged \in Seq(Seq(Byte))
  BY <1>1 DEF Init
<1>4. /\ eof \in BOOLEAN /\ connected \in BOOLEAN /\ kozyExists \in BOOLEAN
      /\ loggedIn \in BOOLEAN /\ broken \in BOOLEAN
  BY DEF Init
<1>5. main \in {"connect", "logIn", "firstLine", "chat", "killed"}
      /\ thread \in {"none", "recv", "parse", "ended"}
  BY DEF Init
<1>. QED
  BY <1>2, <1>3, <1>4, <1>5 DEF TypeOK, Packets

(* The line getline returns, and how far it has got.                       *)
LEMMA LineType ==
    ASSUME TypeOK, Getline
    PROVE  /\ Line \in Contents
           /\ read' \in 0 .. Len(typed)
           /\ typed' = typed /\ eof' = eof
BY DEF TypeOK, Getline, HasLine, Line, Contents

LEMMA MainThreadTypeOK ==
    ASSUME TypeOK, MainThread
    PROVE  TypeOK'
<1>1. CASE Connect
  BY <1>1 DEF Connect, TypeOK, inputVars, serverVars
<1>2. CASE SendLogIn
  <2>1. toServer' \in Seq(Lines \cup {LogIn, NoLine})
    BY <1>2 DEF SendLogIn, Send, TypeOK
  <2>. QED
    BY <1>2, <2>1 DEF SendLogIn, TypeOK, inputVars, serverVars
<1>3. CASE FirstLine
  BY <1>3, LineType DEF FirstLine, TypeOK, serverVars
<1>4. CASE SendChat
  <2>1. Line \in Contents /\ read' \in 0 .. Len(typed) /\ typed' = typed /\ eof' = eof
    BY <1>4, LineType DEF SendChat
  <2>2. toServer' \in Seq(Lines \cup {LogIn, NoLine})
    BY <1>4, <2>1 DEF SendChat, Send, TypeOK, Contents
  <2>3. chats' \in Seq(Lines \cup {NoLine})
    BY <1>4, <2>1 DEF SendChat, TypeOK, Contents
  <2>. QED
    BY <1>4, <2>1, <2>2, <2>3 DEF SendChat, TypeOK, serverVars
<1>. QED
  BY <1>1, <1>2, <1>3, <1>4 DEF MainThread

LEMMA OtherThreadTypeOK ==
    ASSUME TypeOK, OtherThread
    PROVE  TypeOK'
<1>1. ASSUME NEW size \in ChunkSizes, Recv(size) PROVE TypeOK'
  <2>1. size \in 0 .. Len(toClient) /\ toClient \in Seq(Byte) /\ buffer \in Seq(Byte)
    <3>1. size \in Nat /\ size <= Len(toClient)
      BY <1>1, ClientAssumption DEF Recv
    <3>. QED
      BY <3>1 DEF TypeOK
  <2>2. Rest(toClient, size) \in Seq(Byte)
    BY <2>1, RestElements
  <2>3. SubSeq(toClient, 1, size) \in Seq(Byte)
    BY <2>1, PrefixType
  <2>4. toClient' \in Seq(Byte) /\ buffer' \in Seq(Byte)
    BY <1>1, <2>1, <2>2, <2>3, ConcatOfBytes DEF Recv
  <2>. QED
    BY <1>1, <2>4 DEF Recv, TypeOK, inputVars, serverVars
<1>2. CASE Parse
  <2>1. PICK b \in Seq(Byte) : b = buffer
    BY DEF TypeOK
  <2>2. PICK n \in Int, p \in Seq(Seq(Byte)) :
            n = packets_from_buffer(b).len /\ p = packets_from_buffer(b).packets /\ n <= Len(b)
    BY ParseFields
  <2>3. CASE n > 0
    <3>1. buffer' = Rest(b, n) /\ logged' = logged \o p
      BY <1>2, <2>1, <2>2, <2>3 DEF Parse
    <3>2. n \in 0 .. Len(b)
      BY <2>2, <2>3
    <3>3. buffer' \in Seq(Byte)
      BY <3>1, <3>2, RestElements
    <3>4. logged' \in Seq(Seq(Byte))
      BY <3>1, ConcatOfPackets DEF TypeOK
    <3>. QED
      BY <1>2, <3>3, <3>4 DEF Parse, TypeOK, inputVars, serverVars
  <2>4. CASE ~(n > 0)
    <3>1. UNCHANGED <<buffer, logged>>
      BY <1>2, <2>1, <2>2, <2>4 DEF Parse
    <3>. QED
      BY <1>2, <3>1 DEF Parse, TypeOK, inputVars, serverVars
  <2>. QED
    BY <2>3, <2>4
<1>3. CASE ParseFails
  BY <1>3 DEF ParseFails, TypeOK, inputVars, serverVars
<1>. QED
  BY <1>1, <1>2, <1>3 DEF OtherThread

LEMMA AnswerType ==
    ASSUME TypeOK, NEW packet \in Packets, NEW written, Answer(packet, written)
    PROVE  /\ toClient' \in Seq(Byte) /\ answers' \in Seq(Packets) /\ broken' \in BOOLEAN
<1>1. PICK frame \in Seq(Byte) : frame = packet_to_buffer(packet)
  BY ClientAssumption, PacketToBufferType DEF Packets
<1>2. written \in 0 .. Len(frame)
  BY <1>1 DEF Answer
<1>3. SubSeq(frame, 1, written) \in Seq(Byte)
  BY <1>2, PrefixType
<1>4. toClient' = toClient \o SubSeq(frame, 1, written) /\ answers' = Append(answers, packet)
      /\ broken' = (broken \/ written < Len(frame))
  BY <1>1 DEF Answer
<1>5. toClient' \in Seq(Byte)
  BY <1>3, <1>4, ConcatOfBytes DEF TypeOK
<1>6. answers \in Seq(Packets)
  BY DEF TypeOK, Packets
<1>7. Append(answers, packet) \in Seq(Packets)
  BY <1>6, AppendProperties
<1>. QED
  BY <1>4, <1>5, <1>7

LEMMA TakesType ==
    ASSUME TypeOK, Takes
    PROVE  /\ toServer # <<>> /\ toServer' = Tail(toServer)
           /\ toServer' \in Seq(Lines \cup {LogIn, NoLine})
           /\ Head(toServer) \in Lines \cup {LogIn, NoLine}
BY HeadTailProperties DEF Takes, TypeOK

LEMMA ServerTypeOK ==
    ASSUME TypeOK, Server
    PROVE  TypeOK'
<1>1. CASE LogsIn
  BY <1>1, TakesType DEF LogsIn, TypeOK, inputVars, clientVars
<1>2. ASSUME NEW written \in Sizes, LogInFails(written) PROVE TypeOK'
  <2>1. toClient' \in Seq(Byte) /\ answers' \in Seq(Packets) /\ broken' \in BOOLEAN
    BY <1>2, AnswerType DEF LogInFails, Packets
  <2>2. toServer' \in Seq(Lines \cup {LogIn, NoLine})
    BY <1>2, TakesType DEF LogInFails
  <2>. QED
    BY <1>2, <2>1, <2>2 DEF LogInFails, TypeOK, inputVars, Packets
<1>3. CASE OnChat
  <2>1. /\ toServer' \in Seq(Lines \cup {LogIn, NoLine})
        /\ Head(toServer) \in Lines \cup {NoLine}
    BY <1>3, TakesType DEF OnChat
  <2>2. Append(handled, Head(toServer)) \in Seq(Lines \cup {NoLine})
    BY <2>1, AppendProperties DEF TypeOK
  <2>. QED
    BY <1>3, <2>1, <2>2 DEF OnChat, TypeOK, inputVars, clientVars
<1>. QED
  BY <1>1, <1>2, <1>3 DEF Server

LEMMA UserTypeOK ==
    ASSUME TypeOK,
           (\E line \in Lines : Type(line)) \/ CloseInput \/ SignUp \/ ServerEnds
    PROVE  TypeOK'
<1>1. ASSUME NEW line \in Lines, Type(line) PROVE TypeOK'
  <2>1. typed' \in Seq(Lines) /\ read \in 0 .. Len(typed')
    BY <1>1 DEF Type, TypeOK
  <2>. QED
    BY <1>1, <2>1 DEF Type, TypeOK, clientVars, serverVars
<1>2. CASE CloseInput
  BY <1>2 DEF CloseInput, TypeOK, clientVars, serverVars
<1>3. CASE SignUp
  BY <1>3 DEF SignUp, TypeOK, inputVars, clientVars
<1>4. CASE ServerEnds
  <2>1. toClient' \in Seq(Byte) /\ toServer' \in Seq(Lines \cup {LogIn, NoLine})
        /\ broken' \in BOOLEAN /\ connected' \in BOOLEAN
    BY <1>4, EmptySeq DEF ServerEnds, TypeOK
  <2>. QED
    BY <1>4, <2>1 DEF ServerEnds, TypeOK, inputVars, serverVars
<1>. QED
  BY <1>1, <1>2, <1>3, <1>4

LEMMA SendMessageTypeOK ==
    ASSUME TypeOK, NEW message \in ChatEvents, NEW written \in Sizes,
           SendMessage(message, written)
    PROVE  TypeOK'
<1>1. toClient' \in Seq(Byte) /\ answers' \in Seq(Packets) /\ broken' \in BOOLEAN
  BY AnswerType DEF SendMessage, Packets
<1>. QED
  BY <1>1 DEF SendMessage, TypeOK, inputVars, Packets

(***************************************************************************)
(* Type correctness, for every value of the constants: what the client     *)
(* logs are packets, and what the server passes on are lines               *)
(* (Client main.cpp:42-91).                                                *)
(***************************************************************************)
THEOREM TypeCorrect == Spec => []TypeOK
<1>1. TypeOK /\ [Next]_vars => TypeOK'
  <2> SUFFICES ASSUME TypeOK, [Next]_vars PROVE TypeOK'
    OBVIOUS
  <2>1. CASE UNCHANGED vars
    BY <2>1 DEF vars, TypeOK, inputVars, clientVars, serverVars
  <2>. QED
    BY <2>1, UserTypeOK, MainThreadTypeOK, OtherThreadTypeOK, ServerTypeOK,
       SendMessageTypeOK DEF Next
<1>. QED
  BY InitTypeOK, <1>1, PTL DEF Spec
-----------------------------------------------------------------------------
(***************************************************************************)
(* The lines: how far getline has got against the chats sent, and where    *)
(* the chats are that have been sent.                                      *)
(***************************************************************************)
AsTyped(s, lines, ended) ==
    \A i \in DOMAIN s :
        IF i < Len(lines) THEN s[i] = lines[i + 1] ELSE ended /\ s[i] = NoLine

ReadingInv ==
    /\ main \in {"connect", "logIn", "firstLine"} => read = 0 /\ chats = <<>>
    /\ main = "chat" => \/ read = Len(chats) + 1
                        \/ eof /\ read = Len(typed) /\ read <= Len(chats) + 1
    /\ AsTyped(chats, typed, eof)

LEMMA InitReadingInv == Init => ReadingInv
BY DEF Init, ReadingInv, AsTyped

LEMMA GetlineReadsOn ==
    ASSUME TypeOK, ReadingInv, Getline
    PROVE  /\ main = "firstLine" =>
                  \/ read' = 1
                  \/ eof' /\ read' = Len(typed') /\ read' <= 1
           /\ main = "chat" =>
                  /\ \/ read' = Len(chats) + 2
                     \/ eof' /\ read' = Len(typed') /\ read' <= Len(chats) + 2
                  /\ IF Len(chats) + 1 < Len(typed) THEN Line = typed[Len(chats) + 2]
                                                    ELSE eof /\ Line = NoLine
<1>1. PICK n \in Nat, k \in Nat : n = Len(typed) /\ k = Len(chats) /\ read \in 0 .. n
  BY DEF TypeOK
<1>2. /\ read' = IF read < n THEN read + 1 ELSE read
      /\ typed' = typed /\ eof' = eof /\ (read < n \/ eof)
  BY <1>1 DEF Getline, HasLine
<1>3. Line = IF read < n THEN typed[read + 1] ELSE NoLine
  BY <1>1 DEF Line
<1>4. ASSUME main = "firstLine" PROVE read = 0
  BY <1>4 DEF ReadingInv
<1>5. ASSUME main = "chat"
      PROVE  read = k + 1 \/ (eof /\ read = n /\ read <= k + 1)
  BY <1>1, <1>5 DEF ReadingInv
<1>6. ASSUME main = "chat"
      PROVE  IF k + 1 < n THEN Line = typed[k + 2] ELSE eof /\ Line = NoLine
  <2>1. CASE read = k + 1 /\ read < n
    BY <1>3, <2>1
  <2>2. CASE read = n
    BY <1>1, <1>2, <1>3, <1>5, <1>6, <2>2
  <2>. QED
    BY <1>1, <1>5, <1>6, <2>1, <2>2
<1>. QED
  BY <1>1, <1>2, <1>4, <1>5, <1>6

LEMMA MainThreadReadingInv ==
    ASSUME TypeOK, ReadingInv, MainThread
    PROVE  ReadingInv'
<1>1. CASE Connect \/ SendLogIn
  BY <1>1 DEF Connect, SendLogIn, ReadingInv, inputVars
<1>2. CASE FirstLine
  <2>1. Getline /\ main = "firstLine" /\ main' = "chat" /\ chats' = chats
    BY <1>2 DEF FirstLine
  <2>2. chats = <<>> /\ Len(<<>>) = 0
    BY <2>1 DEF ReadingInv
  <2>3. typed' = typed /\ eof' = eof
    BY <2>1 DEF Getline
  <2>. QED
    BY <2>1, <2>2, <2>3, GetlineReadsOn DEF ReadingInv
<1>3. CASE SendChat
  <2>1. /\ Getline /\ main = "chat" /\ main' \in {"chat", "killed"}
        /\ chats' = Append(chats, Line)
    BY <1>3 DEF SendChat
  <2>2. typed' = typed /\ eof' = eof
    BY <2>1 DEF Getline
  <2>3. PICK k \in Nat : k = Len(chats)
    BY DEF TypeOK
  <2>4. chats \in Seq(Contents) /\ Line \in Contents
    BY <2>1, LineType DEF TypeOK, Contents
  <2>5. Len(chats') = k + 1 /\ chats'[k + 1] = Line /\ \A i \in 1 .. k : chats'[i] = chats[i]
    BY <2>1, <2>3, <2>4
  <2>6. /\ \/ read' = k + 2
           \/ eof' /\ read' = Len(typed') /\ read' <= k + 2
        /\ IF k + 1 < Len(typed) THEN Line = typed[k + 2] ELSE eof /\ Line = NoLine
    BY <2>1, <2>3, GetlineReadsOn
  <2>7. AsTyped(chats', typed', eof')
    <3>1. SUFFICES ASSUME NEW i \in DOMAIN chats'
                   PROVE  IF i < Len(typed) THEN chats'[i] = typed[i + 1]
                                            ELSE eof /\ chats'[i] = NoLine
      BY <2>2 DEF AsTyped
    <3>2. i \in 1 .. k + 1
      BY <2>1, <2>3, <2>4, <2>5
    <3>3. CASE i \in 1 .. k
      <4>1. i \in DOMAIN chats
        BY <2>3, <2>4, <3>3
      <4>. QED
        BY <2>5, <3>3, <4>1 DEF ReadingInv, AsTyped
    <3>4. CASE i = k + 1
      <4>1. i + 1 = k + 2
        BY <3>4
      <4>. QED
        BY <2>5, <2>6, <3>4, <4>1
    <3>. QED
      BY <3>2, <3>3, <3>4
  <2>8. k + 2 = Len(chats') + 1
    BY <2>5
  <2>. QED
    BY <2>1, <2>6, <2>7, <2>8 DEF ReadingInv
<1>. QED
  BY <1>1, <1>2, <1>3 DEF MainThread

LEMMA TypeReadingInv ==
    ASSUME TypeOK, ReadingInv, NEW line \in Lines, Type(line)
    PROVE  ReadingInv'
<1>1. /\ ~eof /\ eof' = eof /\ read' = read /\ main' = main /\ chats' = chats
      /\ typed' = Append(typed, line)
  BY DEF Type, clientVars
<1>2. PICK n \in Nat : n = Len(typed)
  BY DEF TypeOK
<1>3. typed \in Seq(Lines) /\ chats \in Seq(Contents)
  BY DEF TypeOK, Contents
<1>4. Len(typed') = n + 1 /\ \A i \in 1 .. n : typed'[i] = typed[i]
  BY <1>1, <1>2, <1>3
<1>5. AsTyped(chats', typed', eof')
  <2>1. SUFFICES ASSUME NEW i \in DOMAIN chats
                 PROVE  i < n + 1 /\ chats[i] = typed'[i + 1]
    BY <1>1, <1>4 DEF AsTyped
  <2>2. i \in Nat \ {0}
    BY <1>3
  <2>3. i < n /\ chats[i] = typed[i + 1]
    BY <1>1, <1>2 DEF ReadingInv, AsTyped
  <2>. QED
    BY <1>4, <2>2, <2>3
<1>. QED
  BY <1>1, <1>5 DEF ReadingInv

(* A client that ends while it parses reads no line any more.              *)
LEMMA OtherThreadReadingInv ==
    ASSUME ReadingInv, OtherThread
    PROVE  ReadingInv'
<1>1. UNCHANGED <<typed, eof, read, chats>> /\ main' \in {main, "killed"}
  BY DEF OtherThread, Parse, ParseFails, Recv, inputVars
<1>. QED
  BY <1>1 DEF ReadingInv

LEMMA ReadingInvariant == Spec => []ReadingInv
<1>1. TypeOK /\ ReadingInv /\ [Next]_vars => ReadingInv'
  <2> SUFFICES ASSUME TypeOK, ReadingInv, [Next]_vars PROVE ReadingInv'
    OBVIOUS
  <2>1. CASE CloseInput
    BY <2>1 DEF CloseInput, clientVars, ReadingInv, AsTyped
  <2>2. ASSUME UNCHANGED <<typed, eof, read, main, chats>> PROVE ReadingInv'
    BY <2>2 DEF ReadingInv
  <2>3. CASE OtherThread
    BY <2>3, OtherThreadReadingInv
  <2>4. CASE Server
    BY <2>2, <2>4 DEF Server, LogsIn, LogInFails, OnChat, inputVars, clientVars
  <2>5. ASSUME NEW message \in ChatEvents, NEW written \in Sizes,
               SendMessage(message, written)
        PROVE  ReadingInv'
    BY <2>2, <2>5 DEF SendMessage, inputVars
  <2>6. CASE SignUp \/ ServerEnds \/ UNCHANGED vars
    BY <2>2, <2>6 DEF SignUp, ServerEnds, vars, inputVars, clientVars
  <2>. QED
    BY <2>1, <2>3, <2>4, <2>5, <2>6, TypeReadingInv, MainThreadReadingInv DEF Next
<1>. QED
  BY InitReadingInv, <1>1, TypeCorrect, PTL DEF Spec
-----------------------------------------------------------------------------
(***************************************************************************)
(* The session as the server sees it.  A log-in that is on its way is      *)
(* followed by all chats; once it has succeeded, those that have not been  *)
(* passed on are still to come; while there is no log-in nothing is passed *)
(* on, and after an answer that is an error there will be none.            *)
(***************************************************************************)
NoError(s) == \A i \in DOMAIN s : s[i] # ErrorPacket

Followed(s, t) == \E more \in Seq(Contents) : t = s \o more

LoggingIn ==
    /\ toServer = <<LogIn>> \o chats
    /\ ~loggedIn /\ handled = <<>> /\ answers = <<>>

LoggedIn ==
    /\ loggedIn /\ NoError(answers)
    /\ toServer \in Seq(Contents)
    /\ Followed(handled, chats)
    /\ connected => chats = handled \o toServer

LoggedOut ==
    /\ ~loggedIn /\ handled = <<>>
    /\ toServer \in Seq(Contents)

SessionInv ==
    /\ ~connected => toServer = <<>>
    /\ main = "connect" => ~connected
    /\ main \in {"connect", "logIn"} =>
           LoggedOut /\ toServer = <<>> /\ chats = <<>> /\ answers = <<>>
    /\ LoggingIn \/ LoggedIn \/ LoggedOut

LEMMA LogInIsNoContent == LogIn \notin Contents
<1>1. LogIn # NoLine
  BY Zenon DEF LogIn, NoLine
<1>. QED
  BY <1>1, TypesAssumption DEF Contents

LEMMA ContentTypes ==
    ASSUME TypeOK
    PROVE  /\ chats \in Seq(Contents) /\ handled \in Seq(Contents)
           /\ <<>> \in Seq(Contents) /\ answers \in Seq(Packets)
BY EmptySeq DEF TypeOK, Contents, Packets

(* What is in front of the connection's queue.                             *)
LEMMA QueueHead ==
    ASSUME TypeOK, toServer # <<>>
    PROVE  /\ LoggingIn => Head(toServer) = LogIn /\ Tail(toServer) = chats
           /\ toServer \in Seq(Contents) =>
                  /\ Head(toServer) \in Contents /\ Head(toServer) # LogIn
                  /\ Tail(toServer) \in Seq(Contents)
                  /\ toServer = <<Head(toServer)>> \o Tail(toServer)
<1>1. ASSUME LoggingIn PROVE Head(toServer) = LogIn /\ Tail(toServer) = chats
  <2>1. PICK s \in Seq(Contents) : s = chats
    BY ContentTypes
  <2>2. Head(<<LogIn>> \o s) = LogIn /\ Tail(<<LogIn>> \o s) = s
    OBVIOUS
  <2>. QED
    BY <1>1, <2>1, <2>2 DEF LoggingIn
<1>2. ASSUME toServer \in Seq(Contents)
      PROVE  /\ Head(toServer) \in Contents /\ Tail(toServer) \in Seq(Contents)
             /\ toServer = <<Head(toServer)>> \o Tail(toServer)
  BY <1>2, HeadTailProperties
<1>. QED
  BY <1>1, <1>2, LogInIsNoContent

LEMMA InitSessionInv == Init => SessionInv
BY EmptySeq DEF Init, SessionInv, LoggedOut

LEMMA OneInFront ==
    ASSUME NEW S, NEW s \in Seq(S), NEW x \in S, NEW a
    PROVE  Append(<<a>> \o s, x) = <<a>> \o Append(s, x)
<1> DEFINE T == S \cup {a}
<1>1. PICK p \in Seq(T) : p = <<a>>
  <2>1. <<a>> \in Seq(T)
    OBVIOUS
  <2>. QED
    BY <2>1, Zenon
<1>2. s \in Seq(T) /\ x \in T
  OBVIOUS
<1> HIDE DEF T
<1>3. Append(p \o s, x) = p \o Append(s, x)
  BY <1>2
<1>. QED
  BY <1>1, <1>3

(* One more chat is sent, over a connection that still stands or not.      *)
LEMMA SendChatSessionInv ==
    ASSUME TypeOK, SessionInv, SendChat
    PROVE  SessionInv'
<1>1. PICK line \in Contents : line = Line
  BY LineType DEF SendChat
<1>2. PICK s \in Seq(Contents), h \in Seq(Contents) : s = chats /\ h = handled
  BY ContentTypes
<1>3. /\ chats' = Append(s, line) /\ main' \in {"chat", "killed"}
      /\ toServer' = IF connected THEN Append(toServer, line) ELSE toServer
      /\ UNCHANGED <<connected, loggedIn, handled, answers>>
  BY <1>1, <1>2 DEF SendChat, Send, serverVars
<1>4. \A q \in Seq(Contents) : /\ Append(q, line) \in Seq(Contents)
                               /\ Append(h \o q, line) = h \o Append(q, line)
                               /\ Append(<<LogIn>> \o q, line) = <<LogIn>> \o Append(q, line)
  <2> TAKE q \in Seq(Contents)
  <2>1. Append(h \o q, line) = h \o Append(q, line)
    OBVIOUS
  <2>2. Append(<<LogIn>> \o q, line) = <<LogIn>> \o Append(q, line)
    BY OneInFront
  <2>3. Append(q, line) \in Seq(Contents)
    OBVIOUS
  <2>. QED
    BY <2>1, <2>2, <2>3, Zenon
<1>5. ASSUME LoggingIn PROVE LoggingIn'
  <2>1. toServer # <<>>
    <3>1. Len(<<LogIn>> \o s) = 1 + Len(s) /\ Len(s) \in Nat /\ Len(<<>>) = 0
      OBVIOUS
    <3>. QED
      BY <1>2, <1>5, <3>1 DEF LoggingIn
  <2>2. connected
    BY <2>1 DEF SessionInv
  <2>. QED
    BY <1>2, <1>3, <1>4, <1>5, <2>2 DEF LoggingIn
<1>6. ASSUME LoggedIn PROVE LoggedIn'
  <2>1. toServer' \in Seq(Contents)
    BY <1>3, <1>4, <1>6 DEF LoggedIn
  <2>2. Followed(handled, chats)'
    <3>1. PICK more \in Seq(Contents) : s = h \o more
      BY <1>2, <1>6 DEF LoggedIn, Followed
    <3>2. Append(s, line) = h \o Append(more, line)
      BY <1>4, <3>1
    <3>. QED
      BY <1>2, <1>3, <1>4, <3>2 DEF Followed
  <2>3. ASSUME connected PROVE chats' = handled \o toServer'
    <3>1. PICK q \in Seq(Contents) : q = toServer
      BY <1>6 DEF LoggedIn
    <3>2. s = h \o q
      BY <1>2, <1>6, <2>3, <3>1 DEF LoggedIn
    <3>. QED
      BY <1>2, <1>3, <1>4, <2>3, <3>1, <3>2
  <2>. QED
    BY <1>3, <1>6, <2>1, <2>2, <2>3 DEF LoggedIn
<1>7. ASSUME LoggedOut PROVE LoggedOut'
  BY <1>3, <1>4, <1>7 DEF LoggedOut
<1>8. ~connected' => toServer' = <<>>
  BY <1>3 DEF SessionInv
<1>. QED
  BY <1>3, <1>5, <1>6, <1>7, <1>8 DEF SessionInv

LEMMA MainThreadSessionInv ==
    ASSUME TypeOK, SessionInv, MainThread
    PROVE  SessionInv'
<1>1. CASE Connect
  <2>1. LoggedOut /\ toServer = <<>> /\ chats = <<>> /\ answers = <<>> /\ main' = "logIn"
        /\ UNCHANGED <<toServer, chats, answers, loggedIn, handled>>
    BY <1>1 DEF Connect, SessionInv, serverVars
  <2>2. LoggedOut'
    BY <2>1 DEF LoggedOut
  <2>. QED
    BY <2>1, <2>2 DEF SessionInv
<1>2. CASE SendLogIn
  <2>1. LoggedOut /\ toServer = <<>> /\ chats = <<>> /\ answers = <<>>
        /\ UNCHANGED <<connected, chats, answers, loggedIn, handled>>
        /\ main' \in {"firstLine", "killed"}
        /\ toServer' = IF connected THEN Append(toServer, LogIn) ELSE toServer
    BY <1>2 DEF SendLogIn, Send, SessionInv, serverVars
  <2>2. Append(<<>>, LogIn) = <<LogIn>> \o <<>>
    OBVIOUS
  <2>3. connected => LoggingIn'
    BY <2>1, <2>2 DEF LoggedOut, LoggingIn
  <2>4. ~connected => LoggedOut'
    BY <2>1 DEF LoggedOut
  <2>. QED
    BY <2>1, <2>3, <2>4 DEF SessionInv
<1>3. CASE FirstLine
  BY <1>3 DEF FirstLine, serverVars, SessionInv, LoggingIn, LoggedIn, LoggedOut
<1>4. CASE SendChat
  BY <1>4, SendChatSessionInv
<1>. QED
  BY <1>1, <1>2, <1>3, <1>4 DEF MainThread

LEMMA ServerSessionInv ==
    ASSUME TypeOK, SessionInv, Server
    PROVE  SessionInv'
<1>1. PICK s \in Seq(Contents), h \in Seq(Contents) : s = chats /\ h = handled
  BY ContentTypes
<1>2. Takes => toServer # <<>> /\ connected /\ toServer' = Tail(toServer)
  BY DEF Takes
<1>3. CASE LogsIn
  <2>1. LoggingIn
    BY <1>2, <1>3, QueueHead DEF LogsIn, SessionInv, LoggedIn, LoggedOut
  <2>2. /\ toServer' = s /\ loggedIn' /\ UNCHANGED <<connected, main, chats, handled, answers>>
        /\ main \notin {"connect", "logIn"} /\ connected
    BY <1>1, <1>2, <1>3, <2>1, QueueHead DEF LogsIn, clientVars, SessionInv
  <2>3. <<>> \o s = s
    OBVIOUS
  <2>4. LoggedIn'
    BY <1>1, <2>1, <2>2, <2>3 DEF LoggingIn, LoggedIn, NoError, Followed
  <2>. QED
    BY <2>2, <2>4 DEF SessionInv
<1>4. ASSUME NEW written \in Sizes, LogInFails(written) PROVE SessionInv'
  <2>1. LoggingIn
    BY <1>2, <1>4, QueueHead DEF LogInFails, SessionInv, LoggedIn, LoggedOut
  <2>2. /\ toServer' = s /\ UNCHANGED <<connected, main, loggedIn, handled>>
        /\ main \notin {"connect", "logIn"} /\ connected
    BY <1>1, <1>2, <1>4, <2>1, QueueHead DEF LogInFails, SessionInv
  <2>3. LoggedOut'
    BY <2>1, <2>2 DEF LoggingIn, LoggedOut
  <2>. QED
    BY <2>2, <2>3 DEF SessionInv
<1>5. CASE OnChat
  <2>1. /\ UNCHANGED <<connected, main, chats, loggedIn, answers>>
        /\ main \notin {"connect", "logIn"} /\ connected
        /\ handled' = IF loggedIn THEN Append(h, Head(toServer)) ELSE h
        /\ toServer # <<>> /\ toServer' = Tail(toServer) /\ Head(toServer) # LogIn
    BY <1>1, <1>2, <1>5 DEF OnChat, clientVars, SessionInv
  <2>2. LoggedIn \/ LoggedOut
    BY <2>1, QueueHead DEF SessionInv
  <2>3. PICK x \in Contents, q \in Seq(Contents) :
            x = Head(toServer) /\ q = Tail(toServer) /\ toServer = <<x>> \o q
    BY <2>1, <2>2, QueueHead DEF LoggedIn, LoggedOut
  <2>4. CASE LoggedIn
    <3>1. s = h \o (<<x>> \o q)
      BY <1>1, <2>1, <2>3, <2>4 DEF LoggedIn
    <3>2. Append(h, x) = h \o <<x>> /\ <<x>> \in Seq(Contents)
      OBVIOUS
    <3>3. (h \o <<x>>) \o q = h \o (<<x>> \o q)
      BY <3>2, ConcatAssociative
    <3>4. chats' = handled' \o toServer'
      BY <1>1, <2>1, <2>3, <2>4, <3>1, <3>2, <3>3 DEF LoggedIn
    <3>5. LoggedIn'
      BY <2>1, <2>3, <2>4, <3>4 DEF LoggedIn, Followed
    <3>. QED
      BY <2>1, <3>5 DEF SessionInv
  <2>5. CASE LoggedOut
    <3>1. LoggedOut'
      BY <1>1, <2>1, <2>3, <2>5 DEF LoggedOut
    <3>. QED
      BY <2>1, <3>1 DEF SessionInv
  <2>. QED
    BY <2>2, <2>4, <2>5
<1>. QED
  BY <1>3, <1>4, <1>5 DEF Server

LEMMA SendMessageSessionInv ==
    ASSUME TypeOK, SessionInv, NEW message \in ChatEvents, NEW written \in Sizes,
           SendMessage(message, written)
    PROVE  SessionInv'
<1>1. /\ loggedIn /\ answers' = Append(answers, message)
      /\ UNCHANGED <<connected, main, chats, loggedIn, handled, toServer>>
  BY DEF SendMessage, Answer
<1>2. LoggedIn /\ main \notin {"connect", "logIn"}
  BY <1>1 DEF SessionInv, LoggingIn, LoggedOut
<1>3. message \in Packets /\ message # ErrorPacket
  BY TypesAssumption DEF Packets
<1>4. NoError(answers')
  <2>1. \A i \in DOMAIN answers' : answers'[i] = message \/ (i \in DOMAIN answers /\ answers'[i] = answers[i])
    BY <1>1, <1>3, ContentTypes
  <2>. QED
    BY <1>2, <1>3, <2>1 DEF NoError, LoggedIn
<1>5. LoggedIn'
  BY <1>1, <1>2, <1>4 DEF LoggedIn
<1>. QED
  BY <1>1, <1>2, <1>5 DEF SessionInv

LEMMA ServerEndsSessionInv ==
    ASSUME TypeOK, SessionInv, ServerEnds
    PROVE  SessionInv'
<1>1. /\ toServer' = <<>> /\ ~connected' /\ connected
      /\ UNCHANGED <<main, chats, loggedIn, handled, answers>>
  BY DEF ServerEnds, serverVars
<1>2. toServer' \in Seq(Contents)
  BY <1>1, EmptySeq
<1>3. LoggingIn \/ LoggedOut => LoggedOut'
  BY <1>1, <1>2 DEF LoggingIn, LoggedOut
<1>4. LoggedIn => LoggedIn'
  BY <1>1, <1>2 DEF LoggedIn
<1>. QED
  BY <1>1, <1>3, <1>4 DEF SessionInv

(***************************************************************************)
(* A chat is passed on only after a log-in that succeeded, and those that  *)
(* are passed on begin those that were sent (Client main.cpp:49-87,        *)
(* handlers.hpp:19-33, 79-88).                                             *)
(***************************************************************************)
THEOREM SessionInvariant == Spec => []SessionInv
<1>1. TypeOK /\ SessionInv /\ [Next]_vars => SessionInv'
  <2> SUFFICES ASSUME TypeOK, SessionInv, [Next]_vars PROVE SessionInv'
    OBVIOUS
  <2>1. ASSUME UNCHANGED <<main, connected, chats, toServer, loggedIn, handled, answers>>
        PROVE  SessionInv'
    BY <2>1 DEF SessionInv, LoggingIn, LoggedIn, LoggedOut
  <2>2. CASE (\E line \in Lines : Type(line)) \/ CloseInput \/ SignUp \/ UNCHANGED vars
    BY <2>1, <2>2 DEF Type, CloseInput, SignUp, vars, clientVars, serverVars
  <2>3. CASE OtherThread
    <3>1. UNCHANGED <<connected, chats, toServer, loggedIn, handled, answers>>
          /\ main' \in {main, "killed"}
      BY <2>3 DEF OtherThread, Parse, ParseFails, Recv, serverVars
    <3>. QED
      BY <3>1 DEF SessionInv, LoggingIn, LoggedIn, LoggedOut
  <2>4. ASSUME NEW message \in ChatEvents, NEW written \in Sizes, SendMessage(message, written)
        PROVE  SessionInv'
    BY <2>4, SendMessageSessionInv
  <2>. QED
    BY <2>2, <2>3, <2>4, MainThreadSessionInv, ServerSessionInv, ServerEndsSessionInv DEF Next
<1>. QED
  BY InitSessionInv, <1>1, TypeCorrect, PTL DEF Spec

(***************************************************************************)
(* Whatever is typed, and whenever the connection goes: what the server    *)
(* passes on are the lines typed from the second on, in order, and nothing *)
(* once the log-in has failed (Client main.cpp:57-87, handlers.hpp:79-88). *)
(***************************************************************************)
THEOREM HandledAsTyped == Spec => []HandledIsWhatWasTyped
<1>1. TypeOK /\ ReadingInv /\ SessionInv => HandledIsWhatWasTyped
  <2> SUFFICES ASSUME TypeOK, ReadingInv, SessionInv PROVE HandledIsWhatWasTyped
    OBVIOUS
  <2>1. CASE handled = <<>>
    BY <2>1 DEF HandledIsWhatWasTyped
  <2>2. CASE handled # <<>>
    <3>1. LoggedIn
      BY <2>2 DEF SessionInv, LoggingIn, LoggedOut
    <3>2. PICK h \in Seq(Contents), more \in Seq(Contents) : h = handled /\ chats = h \o more
      BY <3>1, ContentTypes DEF LoggedIn, Followed
    <3>3. \A i \in DOMAIN h : i \in DOMAIN (h \o more) /\ (h \o more)[i] = h[i]
      OBVIOUS
    <3>4. \A i \in DOMAIN handled : IF i < Len(typed) THEN handled[i] = typed[i + 1]
                                                     ELSE eof /\ handled[i] = NoLine
      BY <3>2, <3>3 DEF ReadingInv, AsTyped
    <3>5. ErrorPacket \notin ToSet(answers)
      BY <3>1 DEF LoggedIn, NoError, ToSet
    <3>. QED
      BY <3>4, <3>5 DEF HandledIsWhatWasTyped
  <2>. QED
    BY <2>1, <2>2
<1>. QED
  BY <1>1, TypeCorrect, ReadingInvariant, SessionInvariant, PTL
-----------------------------------------------------------------------------
(***************************************************************************)
(* The answers.  While the stream is not broken, the encoding of all that  *)
(* was sent is the encoding of what was logged, then the client's buffer,  *)
(* then the bytes that are on their way.                                   *)
(***************************************************************************)
AnswersKept == Kept(Encoded(answers), Encoded(logged), buffer, <<>>, toClient)

LoggedInv == broken \/ (logged \in Seq(Readable) /\ AnswersKept)

LEMMA AnswerTypes ==
    ASSUME TypeOK
    PROVE  /\ Encoded(answers) \in Seq(Byte) /\ Encoded(logged) \in Seq(Byte)
           /\ buffer \in Seq(Byte) /\ toClient \in Seq(Byte) /\ <<>> \in Seq(Byte)
           /\ answers \in Seq(Writable) /\ answers \in Seq(Seq(Byte))
           /\ logged \in Seq(Seq(Byte)) /\ broken \in BOOLEAN
<1>1. answers \in Seq(Writable)
  <2>1. answers \in Seq(Packets)
    BY ContentTypes
  <2>2. Packets \subseteq Writable
    BY PacketsReadable, ReadableWritable
  <2>. QED
    BY <2>1, <2>2, SeqMonotonic
<1>2. answers \in Seq(Seq(Byte)) /\ logged \in Seq(Seq(Byte))
  BY <1>1, ReadableWritable DEF TypeOK
<1>3. <<>> \in Seq(Byte)
  BY EmptySeq
<1>. QED
  BY <1>1, <1>2, <1>3, EncodedType DEF TypeOK

LEMMA InitLoggedInv == Init => LoggedInv
<1> SUFFICES ASSUME Init PROVE LoggedInv
  OBVIOUS
<1>1. <<>> = <<>> \o <<>> \o <<>> \o <<>> /\ <<>> \in Seq(Readable)
  OBVIOUS
<1>. QED
  BY <1>1, EncodedEmpty DEF Init, LoggedInv, AnswersKept, Kept

(* A frame that is written in full is added at the end.                    *)
LEMMA AnswerLoggedInv ==
    ASSUME TypeOK, LoggedInv, NEW packet \in Packets, NEW written, Answer(packet, written),
           UNCHANGED <<buffer, logged>>
    PROVE  LoggedInv'
<1> SUFFICES ASSUME ~broken' PROVE AnswersKept' /\ logged \in Seq(Readable)
  BY DEF LoggedInv
<1>1. PICK frame \in Seq(Byte) : frame = packet_to_buffer(packet)
  BY ClientAssumption, PacketToBufferType DEF Packets
<1>2. /\ toClient' = toClient \o SubSeq(frame, 1, written)
      /\ answers' = Append(answers, packet)
      /\ written \in 0 .. Len(frame) /\ ~(written < Len(frame)) /\ ~broken
  BY <1>1, AnswerTypes DEF Answer
<1>3. SubSeq(frame, 1, written) = frame
  <2>1. written = Len(frame)
    BY <1>2
  <2>. QED
    BY <2>1, SubSeqFull
<1>4. PICK s \in Seq(Byte), t \in Seq(Byte), b \in Seq(Byte), e \in Seq(Byte), w \in Seq(Byte) :
          /\ s = Encoded(answers) /\ t = Encoded(logged) /\ b = buffer /\ e = <<>>
          /\ w = toClient
  BY AnswerTypes
<1>5. PICK s2 \in Seq(Byte), w2 \in Seq(Byte) : s2 = s \o frame /\ w2 = w \o frame
  BY ConcatOfBytes
<1>6. Encoded(answers') = s2
  <2>1. PICK a \in Seq(Seq(Byte)) : a = answers
    BY AnswerTypes
  <2>2. packet \in Seq(Byte)
    BY ClientAssumption DEF Packets
  <2>3. Encoded(Append(a, packet)) = Encoded(a) \o frame
    BY <1>1, <2>2, EncodedAppend
  <2>. QED
    BY <1>2, <1>4, <1>5, <2>1, <2>3
<1>7. toClient' = w2
  BY <1>2, <1>3, <1>4, <1>5
<1>8. Kept(s, t, b, e, w)
  BY <1>2, <1>4 DEF LoggedInv, AnswersKept
<1>9. Joined(s, frame, s2) /\ Joined(w, frame, w2)
  BY <1>5 DEF Joined
<1>10. Kept(s2, t, b, e, w2)
  BY <1>8, <1>9, KeptWhenGrown
<1>. QED
  BY <1>2, <1>4, <1>6, <1>7, <1>10 DEF LoggedInv, AnswersKept

(* A chunk leaves the wire for an empty buffer, or the stream is broken.   *)
LEMMA RecvLoggedInv ==
    ASSUME TypeOK, LoggedInv, NEW size \in ChunkSizes, Recv(size)
    PROVE  LoggedInv'
<1>1. UNCHANGED <<answers, logged>>
  BY DEF Recv, serverVars
<1> SUFFICES ASSUME ~broken' PROVE AnswersKept' /\ logged \in Seq(Readable)
  BY <1>1 DEF LoggedInv
<1>2. ~broken /\ buffer = <<>>
  BY AnswerTypes DEF Recv
<1>3. PICK s \in Seq(Byte), t \in Seq(Byte), e \in Seq(Byte), w \in Seq(Byte) :
          s = Encoded(answers) /\ t = Encoded(logged) /\ e = <<>> /\ w = toClient
  BY AnswerTypes
<1>4. size \in 0 .. Len(w)
  <2>1. size \in Nat /\ size <= Len(w)
    BY <1>3, ClientAssumption DEF Recv
  <2>. QED
    BY <2>1
<1>5. PICK f \in Seq(Byte), w2 \in Seq(Byte) :
          f = SubSeq(w, 1, size) /\ w2 = Rest(w, size) /\ Joined(f, w2, w)
  <2>1. SubSeq(w, 1, size) \in Seq(Byte) /\ Rest(w, size) \in Seq(Byte)
    BY <1>4, PrefixType, RestElements
  <2>2. w = SubSeq(w, 1, size) \o Rest(w, size)
    BY <1>4, SplitAt
  <2>. QED
    BY <2>1, <2>2 DEF Joined
<1>6. PICK b2 \in Seq(Byte) : b2 = f \o e
  BY ConcatOfBytes
<1>7. toClient' = w2 /\ buffer' = b2
  BY <1>2, <1>3, <1>5, <1>6 DEF Recv
<1>8. Kept(s, t, e, e, w)
  BY <1>2, <1>3 DEF LoggedInv, AnswersKept
<1>9. Kept(s, t, e, f, w2)
  BY <1>3, <1>5, <1>8, KeptWhenReceived
<1>10. Kept(s, t, b2, e, w2)
  <2>1. Joined(f, e, b2)
    BY <1>6 DEF Joined
  <2>. QED
    BY <1>3, <1>9, <2>1, KeptWhenInserted
<1>. QED
  BY <1>1, <1>2, <1>3, <1>7, <1>10 DEF LoggedInv, AnswersKept

(* What the buffer of a stream that is not broken begins with is the       *)
(* encoding of packets the server has sent.                                *)
LEMMA UnbrokenIsParsed ==
    ASSUME TypeOK, LoggedInv, ~broken, packets_from_buffer(buffer).len > 0
    PROVE  /\ packets_from_buffer(buffer).packets \in Seq(Readable)
           /\ Encoded(packets_from_buffer(buffer).packets)
                  = SubSeq(buffer, 1, packets_from_buffer(buffer).len)
<1>1. PICK a \in Seq(Writable), l \in Seq(Readable) : a = answers /\ l = logged
  BY AnswerTypes DEF LoggedInv
<1>2. PICK t \in Seq(Byte), b \in Seq(Byte), w \in Seq(Byte) :
          t = Encoded(l) /\ b = buffer /\ w = toClient
  BY <1>1, AnswerTypes
<1>3. Encoded(a) = t \o b \o <<>> \o w
  BY <1>1, <1>2 DEF LoggedInv, AnswersKept, Kept
<1>4. t \o b \o <<>> \o w = t \o (b \o w)
  <2>1. PICK tb \in Seq(Byte) : tb = t \o b
    BY ConcatOfBytes
  <2>2. tb \o <<>> = tb
    BY ConcatEmpty
  <2>3. (t \o b) \o w = t \o (b \o w)
    BY ConcatIsAssociative
  <2>. QED
    BY <2>1, <2>2, <2>3
<1>5. Encoded(a) = Encoded(l) \o (b \o w)
  BY <1>2, <1>3, <1>4
<1>6. Cleanly(b, 0, packets_from_buffer(b))
  BY <1>5, StreamGoesOn, ParsesStream
<1>7. packets_from_buffer(b).len >= 0
  <2>1. packets_from_buffer(b).len > 0 /\ packets_from_buffer(b).len \in Int
    BY <1>2, ParseFields
  <2>. QED
    BY <2>1
<1>. QED
  BY <1>2, <1>6, <1>7 DEF Cleanly

(* What is parsed leaves the front of the buffer for the log.              *)
LEMMA ParseLoggedInv ==
    ASSUME TypeOK, LoggedInv, Parse
    PROVE  LoggedInv'
<1>0. UNCHANGED <<answers, toClient, broken>>
  BY DEF Parse, serverVars
<1> SUFFICES ASSUME ~broken, packets_from_buffer(buffer).len > 0
             PROVE  AnswersKept' /\ logged' \in Seq(Readable)
  <2>1. CASE ~(packets_from_buffer(buffer).len > 0)
    BY <1>0, <2>1 DEF Parse, LoggedInv, AnswersKept
  <2>2. CASE broken
    BY <1>0, <2>2 DEF LoggedInv
  <2>. QED
    BY <1>0, <2>1, <2>2 DEF LoggedInv
<1>1. PICK b \in Seq(Byte) : b = buffer
  BY DEF TypeOK
<1>2. PICK n \in 0 .. Len(b), p \in Seq(Readable) :
          /\ n = packets_from_buffer(b).len /\ p = packets_from_buffer(b).packets
          /\ Encoded(p) = SubSeq(b, 1, n)
  <2>1. packets_from_buffer(b).len \in 0 .. Len(b)
    <3>1. /\ packets_from_buffer(b).len \in Int /\ packets_from_buffer(b).len <= Len(b)
          /\ packets_from_buffer(b).len > 0
      BY <1>1, ParseFields
    <3>. QED
      BY <3>1, LenIsNat
  <2>. QED
    BY <1>1, <2>1, UnbrokenIsParsed
<1>3. buffer' = Rest(b, n) /\ logged' = logged \o p
  BY <1>1, <1>2 DEF Parse
<1>4. PICK l \in Seq(Readable) : l = logged
  BY DEF LoggedInv
<1>5. logged' \in Seq(Readable)
  BY <1>3, <1>4, ConcatOfReadable
<1>6. PICK s \in Seq(Byte), t \in Seq(Byte), e \in Seq(Byte), w \in Seq(Byte) :
          s = Encoded(answers) /\ t = Encoded(l) /\ e = <<>> /\ w = toClient
  BY <1>4, AnswerTypes
<1>7. PICK x \in Seq(Byte), b2 \in Seq(Byte) :
          x = SubSeq(b, 1, n) /\ b2 = Rest(b, n) /\ Joined(x, b2, b)
  <2>1. SubSeq(b, 1, n) \in Seq(Byte) /\ Rest(b, n) \in Seq(Byte)
    BY PrefixType, RestElements
  <2>2. b = SubSeq(b, 1, n) \o Rest(b, n)
    BY SplitAt
  <2>. QED
    BY <2>1, <2>2 DEF Joined
<1>8. PICK t2 \in Seq(Byte) : t2 = t \o x
  BY ConcatOfBytes
<1>9. Encoded(logged') = t2
  <2>1. l \in Seq(Seq(Byte)) /\ p \in Seq(Seq(Byte))
    BY ReadableWritable
  <2>2. Encoded(l \o p) = Encoded(l) \o Encoded(p)
    BY <2>1, EncodedConcat
  <2>3. Encoded(p) = x
    BY <1>2, <1>7
  <2>. QED
    BY <1>3, <1>4, <1>6, <1>8, <2>2, <2>3
<1>10. Kept(s, t, b, e, w)
  BY <1>1, <1>4, <1>6 DEF LoggedInv, AnswersKept
<1>11. Joined(t, x, t2)
  BY <1>8 DEF Joined
<1>12. Kept(s, t2, b2, e, w)
  <2>1. /\ Joined(x, b2, b) /\ Kept(s, t, b, e, w) => Kept(s, t2, b2, e, w)
        /\ /\ Len(b) = Len(x) + Len(b2)
           /\ Balanced(s, t, b, e, w)
           => Balanced(s, t2, b2, e, w)
    BY <1>11, KeptWhenErased
  <2>. QED
    BY <1>7, <1>10, <2>1
<1>. QED
  BY <1>0, <1>3, <1>5, <1>6, <1>7, <1>9, <1>12 DEF AnswersKept

(***************************************************************************)
(* The invariant of the answers: whatever the server sends and however the *)
(* network cuts it up, no byte of an answer is lost, added or moved before *)
(* it is logged, unless the stream was broken (Client main.cpp:52-74,      *)
(* socket.cpp:74-77).                                                      *)
(***************************************************************************)
THEOREM LoggedInvariant == Spec => []LoggedInv
<1>1. TypeOK /\ LoggedInv /\ [Next]_vars => LoggedInv'
  <2> SUFFICES ASSUME TypeOK, LoggedInv, [Next]_vars PROVE LoggedInv'
    OBVIOUS
  <2>1. ASSUME UNCHANGED <<answers, logged, buffer, toClient, broken>> PROVE LoggedInv'
    BY <2>1 DEF LoggedInv, AnswersKept
  <2>2. CASE (\E line \in Lines : Type(line)) \/ CloseInput \/ SignUp \/ UNCHANGED vars
    BY <2>1, <2>2 DEF Type, CloseInput, SignUp, vars, clientVars, serverVars
  <2>3. CASE MainThread
    BY <2>1, <2>3 DEF MainThread, Connect, SendLogIn, FirstLine, SendChat, serverVars
  <2>4. CASE OtherThread
    <3>1. CASE ParseFails
      BY <2>1, <3>1 DEF ParseFails, serverVars
    <3>. QED
      BY <2>4, <3>1, RecvLoggedInv, ParseLoggedInv DEF OtherThread
  <2>5. CASE LogsIn \/ OnChat
    BY <2>1, <2>5 DEF LogsIn, OnChat, clientVars
  <2>6. ASSUME NEW written \in Sizes, LogInFails(written) PROVE LoggedInv'
    BY <2>6, AnswerLoggedInv DEF LogInFails, Packets
  <2>7. ASSUME NEW message \in ChatEvents, NEW written \in Sizes, SendMessage(message, written)
        PROVE  LoggedInv'
    BY <2>7, AnswerLoggedInv DEF SendMessage, Packets
  <2>8. CASE ServerEnds
    <3>1. UNCHANGED <<answers, logged, buffer>> /\ broken' = (broken \/ toClient' # toClient)
      BY <2>8 DEF ServerEnds, serverVars
    <3>. QED
      BY <3>1, AnswerTypes DEF LoggedInv, AnswersKept
  <2>. QED
    BY <2>2, <2>3, <2>4, <2>5, <2>6, <2>7, <2>8 DEF Next, Server
<1>. QED
  BY InitLoggedInv, <1>1, TypeCorrect, PTL DEF Spec

(***************************************************************************)
(* Whatever the answers are and however the network cuts them up, the      *)
(* client logs the packets the server sent, in order and each once, until  *)
(* an answer is cut short or lost or meets a part of an earlier one        *)
(* (Client main.cpp:52-74, socket.cpp:74-77).                              *)
(***************************************************************************)
THEOREM LoggedAsSent == Spec => []LoggedIsWhatWasSent
<1>1. TypeOK /\ LoggedInv => LoggedIsWhatWasSent
  <2> SUFFICES ASSUME TypeOK, LoggedInv, ~broken PROVE IsPrefix(logged, answers)
    BY DEF LoggedIsWhatWasSent
  <2>1. PICK a \in Seq(Writable), l \in Seq(Readable), q \in Seq(Readable) :
            a = answers /\ l = logged /\ q = <<>>
    BY AnswerTypes, EmptySeq DEF LoggedInv
  <2>2. PICK s \in Seq(Byte), t \in Seq(Byte), b \in Seq(Byte), e \in Seq(Byte), w \in Seq(Byte) :
            /\ s = Encoded(a) /\ t = Encoded(l) /\ b = buffer /\ e = <<>> /\ w = toClient
    BY <2>1, AnswerTypes
  <2>3. Kept(s, t, b, e, w)
    BY <2>1, <2>2 DEF LoggedInv, AnswersKept
  <2>4. t = Encoded(l \o q)
    <3>1. l \o q = l
      BY <2>1
    <3>. QED
      BY <2>2, <3>1
  <2>5. Len(l) <= Len(a) /\ SubSeq(a, 1, Len(l)) = l
    BY <2>2, <2>3, <2>4, TakenIsWritten
  <2>6. SubSeq(l, 1, Len(l)) = l
    BY SubSeqFull
  <2>. QED
    BY <2>1, <2>5, <2>6 DEF IsPrefix
<1>. QED
  BY <1>1, TypeCorrect, LoggedInvariant, PTL
=============================================================================
