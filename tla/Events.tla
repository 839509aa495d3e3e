------------------------------- MODULE Events -------------------------------
(***************************************************************************)
(* What the listeners of module Plugins can do to the event they get: the  *)
(* setters of UserChatEvent and CommandEvent (Server/src/events/           *)
(* events.cpp), and the line that is logged for a chat message             *)
(* (server_events.cpp).                                                    *)
(*                                                                         *)
(* A text is the sequence of its tokens: "$0", "$1", " ", and words.       *)
(***************************************************************************)
EXTENDS Plugins

CONSTANTS Tokens,       (* what texts are made of                          *)
          Names,        (* of users                                        *)
          Messages,     (* what users send and listeners set               *)
          Commands,     (* what users send with a "/" in front, and        *)
                        (* listeners set                                   *)
          Formats,      (* what listeners set                              *)
          Arguments,    (* the lists of arguments listeners set            *)
          MaxSets       (* bound: calls of setters                         *)

ASSUME TokensAssumption ==
    {" ", "/", "$0", "$1", "<", ">", ":", "speech_balloon"} \subseteq Tokens

ASSUME TextsAssumption ==
    /\ Names \cup Messages \cup Commands \cup Formats \subseteq Seq(Tokens)
    /\ Arguments \subseteq Seq(Seq(Tokens))

VARIABLES
    name,       (* of the user whose event it is                           *)
    m_message, m_format,    (* of a UserChatEvent                          *)
    m_command, m_args,      (* of a CommandEvent                           *)
    line,       (* what was logged for the event                           *)
    sets

chatVars    == <<name, m_message, m_format>>
commandVars == <<m_command, m_args>>
textVars    == <<chatVars, commandVars, line, sets>>

EventsInit ==
    /\ Init
    /\ name = <<>> /\ m_message = <<>> /\ m_format = <<>>
    /\ m_command = <<>> /\ m_args = <<>>
    /\ line = <<>> /\ sets = 0
-----------------------------------------------------------------------------
(* Texts.                                                                  *)

(* boost::split at the spaces, runs of them compressed: a space at either  *)
(* end makes an empty argument there.  "space": the last token was one.    *)
Token(done, token) ==
    CASE token # " " -> [args |-> Append(Front(done.args), Append(Last(done.args), token)),
                         space |-> FALSE]
      [] token = " " /\ done.space -> done
      [] token = " " /\ ~done.space -> [args |-> Append(done.args, <<>>), space |-> TRUE]

Split(text) ==
    LET split[i \in 0 .. Len(text)] ==
            IF i = 0 THEN [args |-> << <<>> >>, space |-> FALSE]
                     ELSE Token(split[i - 1], text[i])
    IN  split[Len(text)].args

GetFullCommand(args) == Front(FlattenSeq([i \in DOMAIN args |-> Append(args[i], " ")]))

(* find and replace: the first occurrence, if there is one.                *)
Replaced(text, token, by) == ReplaceFirstSubSeq(by, <<token>>, text)

DefaultFormat == <<"<", "$0", ">", " ", "$1">>
NativeFormat == <<"speech_balloon", " ", "$0", ":", " ", "$1">>

Line(format) == Replaced(Replaced(format, "$0", name), "$1", m_message)
-----------------------------------------------------------------------------
(* Emission, with the constructors of the events.  An event has the fields *)
(* of its class; the others are empty.                                     *)

EmitUserChatEvent(user, message) ==
    /\ Emit("message")
    /\ name' = user
    /\ m_message' = message
    /\ m_format' = DefaultFormat
    /\ m_args' = <<>> /\ m_command' = <<>> /\ line' = <<>>
    /\ UNCHANGED sets

EmitCommandEvent(command) ==
    /\ Emit("command")
    /\ m_args' = Split(command)
    /\ m_command' = Head(Split(command))
    /\ name' = <<>> /\ m_message' = <<>> /\ m_format' = <<>> /\ line' = <<>>
    /\ UNCHANGED sets

(* Mutant: the format is read before the native listener sets it.          *)
LogLineEarlyFormat ==
    /\ LogMessage
    /\ m_format' = NativeFormat
    /\ line' = Line(m_format)
    /\ UNCHANGED <<name, m_message, commandVars, sets>>

(* BasicServerEventListener::OnUserChatEvent sets the format, whatever a   *)
(* listener has set; then the line is made.                                *)
LogLine ==
    /\ LogMessage
    /\ m_format' = NativeFormat
    /\ line' = Line(NativeFormat)
    /\ UNCHANGED <<name, m_message, commandVars, sets>>
-----------------------------------------------------------------------------
(* The setters, called by the running listener.                            *)

Sets(event) ==
    /\ pc = "lua"
    /\ called # <<>>
    /\ kind = event
    /\ sets < MaxSets
    /\ sets' = sets + 1
    /\ UNCHANGED <<registryVars, eventVars, line>>

SetMessage(message) ==
    /\ Sets("message")
    /\ m_message' = message
    /\ UNCHANGED <<pc, name, m_format, commandVars>>

SetFormat(format) ==
    /\ Sets("message")
    /\ m_format' = format
    /\ UNCHANGED <<pc, name, m_message, commandVars>>

SetCommandMessage(message) ==
    /\ Sets("command")
    /\ m_args' = Split(message)
    /\ m_command' = Head(Split(message))
    /\ UNCHANGED <<pc, chatVars>>

(* Mutant: the arguments stay.                                             *)
SetCommandOnly(command) ==
    /\ Sets("command")
    /\ m_command' = command
    /\ UNCHANGED <<pc, chatVars, m_args>>

SetCommand(command) ==
    /\ Sets("command")
    /\ m_command' = command
    /\ m_args' = [m_args EXCEPT ![1] = command]
    /\ UNCHANGED <<pc, chatVars>>

SetCommandArgs(args) ==
    /\ Sets("command")
    /\ args # <<>>
    /\ m_args' = args
    /\ m_command' = Head(args)
    /\ UNCHANGED <<pc, chatVars>>

(* args[0] of an empty vector is no string: the process ends.              *)
SetNoCommandArgs ==
    /\ Sets("command")
    /\ m_args' = <<>>
    /\ pc' = "terminated"
    /\ UNCHANGED <<chatVars, m_command>>

EventsNext ==
    \/ PluginStep /\ UNCHANGED textVars
    \/ \E user \in Names, message \in Messages : EmitUserChatEvent(user, message)
    \/ \E command \in Commands : EmitCommandEvent(<<"/">> \o command)
    \/ LogLine
    \/ \E message \in Messages : SetMessage(message)
    \/ \E format \in Formats : SetFormat(format)
    \/ \E message \in Commands : SetCommandMessage(message)
    \/ \E command \in Commands : SetCommand(command)
    \/ \E args \in Arguments : SetCommandArgs(args)
    \/ SetNoCommandArgs

EventsSpec == EventsInit /\ [][EventsNext]_<<vars, textVars>>
-----------------------------------------------------------------------------
(* Properties.                                                             *)

(***************************************************************************)
(* Whatever formats and messages the listeners have set, the line shows    *)
(* the user's name and the message as it is in the end, the message's own  *)
(* "$0" and "$1" included - unless the name has a "$1" in it, which the    *)
(* message then replaces (server_events.cpp:31-51, 97-103).                *)
(***************************************************************************)
LineIsNameAndMessage ==
    outcome = "logged" /\ "$1" \notin ToSet(name) =>
        line = <<"speech_balloon", " ">> \o name \o <<":", " ">> \o m_message

(***************************************************************************)
(* However the listeners set a command, its message and its arguments, in  *)
(* whatever order, the command that is looked up is the first of the       *)
(* arguments it will be given, and the first word of the full command a    *)
(* listener reads, unless a listener has put a space into it               *)
(* (events.cpp:94-113, 140-151).                                           *)
(***************************************************************************)
CommandIsFirstArgument ==
    pc \in {"lua", "native"} /\ kind = "command" =>
        /\ m_command = Head(m_args)
        /\ " " \notin ToSet(m_command) => Head(Split(GetFullCommand(m_args))) = m_command
=============================================================================
