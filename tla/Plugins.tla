------------------------------ MODULE Plugins ------------------------------
(***************************************************************************)
(* The Lua plugins (Plugins/src/plugins.cpp) and the emission of events to *)
(* their listeners (Server/src/events/server_events.cpp).                  *)
(*                                                                         *)
(* A plugin object lives in Lua: "on" adds a listener to it, "register"    *)
(* puts a COPY of it into m_plugins, which is all that an emission looks   *)
(* at.  The scripts run before the server listens; afterwards listeners    *)
(* run, under the mutex around the handlers, one event at a time, and may  *)
(* call "on" and "register" themselves.                                    *)
(***************************************************************************)
EXTENDS Naturals, SequencesExt

CONSTANTS Objects,      (* the plugin objects the scripts create           *)
          Listeners,    (* the Lua functions                               *)
          MaxOns,       (* bound: calls of "on"                            *)
          MaxRegisters, (* bound: calls of "register"                      *)
          MaxEvents     (* bound: events emitted                           *)

(* The events the server emits, in the order of a std::map's keys.         *)
EventNames == <<"command", "message">>

Events == ToSet(EventNames)

VARIABLES
    m_event_listeners,  (* the listeners of each plugin object, per event  *)
    m_plugins,          (* the registered copies of those                  *)
    pc,                 (* where the thread that has the Lua state is      *)
    kind,               (* the event that is being emitted ...             *)
    m_is_canceled,
    functions,          (* ... and the listeners it has not called yet     *)
    (* history *)
    called,             (* the listeners called for it so far              *)
    expected,           (* the listeners registered for it                 *)
    outcome,            (* what became of the last event                   *)
    ons, emitted

registryVars == <<m_event_listeners, m_plugins, ons>>
eventVars    == <<kind, m_is_canceled, functions, called, expected, outcome, emitted>>
vars == <<registryVars, pc, eventVars>>

Registry == [Events -> Seq(Listeners)]

TypeOK ==
    /\ m_event_listeners \in [Objects -> Registry]
    /\ m_plugins \in Seq(Registry)
    /\ pc \in {"loading", "serving", "lua", "native", "terminated"}
    /\ kind \in Events
    /\ m_is_canceled \in BOOLEAN
    /\ functions \in Seq(Listeners)
    /\ called \in Seq(Listeners)
    /\ expected \in Seq(Listeners)
    /\ outcome \in {"none", "canceled", "logged", "threw"}
    /\ ons \in Nat /\ emitted \in Nat

Init ==
    /\ m_event_listeners = [p \in Objects |-> [e \in Events |-> <<>>]]
    /\ m_plugins = <<>>
    /\ pc = "loading"
    /\ kind = "message"
    /\ m_is_canceled = FALSE
    /\ functions = <<>>
    /\ called = <<>>
    /\ expected = <<>>
    /\ outcome = "none"
    /\ ons = 0 /\ emitted = 0
-----------------------------------------------------------------------------
(* What Lua code may do.                                                   *)

RunsLua == pc \in {"loading", "lua"}

(* plugin:on(event, listener)                                              *)
RegisterEventListener(plugin, event, listener) ==
    /\ RunsLua
    /\ ons < MaxOns
    /\ ons' = ons + 1
    /\ m_event_listeners' = [m_event_listeners EXCEPT ![plugin][event] = Append(@, listener)]
    /\ UNCHANGED <<m_plugins, pc, eventVars>>

(* Mutant: the object itself instead of a copy.                            *)
RegisterPluginObject(plugin) ==
    /\ RunsLua
    /\ Len(m_plugins) < MaxRegisters
    /\ m_plugins' = Append(m_plugins, plugin)
    /\ UNCHANGED <<m_event_listeners, ons, pc, eventVars>>

(* plugin:register(): a copy, and another one if called again.             *)
RegisterPlugin(plugin) ==
    /\ RunsLua
    /\ Len(m_plugins) < MaxRegisters
    /\ m_plugins' = Append(m_plugins, m_event_listeners[plugin])
    /\ UNCHANGED <<m_event_listeners, ons, pc, eventVars>>
-----------------------------------------------------------------------------
(* Loading.                                                                *)

Loaded ==
    /\ pc = "loading"
    /\ pc' = "serving"
    /\ UNCHANGED <<registryVars, eventVars>>

(* An error in a script leaves main: nothing catches it.                   *)
ScriptThrows ==
    /\ pc = "loading"
    /\ pc' = "terminated"
    /\ UNCHANGED <<registryVars, eventVars>>
-----------------------------------------------------------------------------
(* Emission.                                                               *)

ListenersFor(event) == FlattenSeq([i \in DOMAIN m_plugins |-> m_plugins[i][event]])

AllListeners(registry) == FlattenSeq([i \in DOMAIN EventNames |-> registry[EventNames[i]]])

(* Mutant: only the first plugin that has the event is asked.              *)
EmitFunctionsOfFirst(event) ==
    LET having == SelectSeq(m_plugins, LAMBDA registry : registry[event] # <<>>)
    IN  IF having = <<>> THEN <<>> ELSE AllListeners(Head(having))

(* The listeners of every plugin that has some for the event - and of      *)
(* these plugins the listeners for all events: the inner loop's variable   *)
(* hides the argument.                                                     *)
EmitFunctions(event) ==
    FlattenSeq([i \in DOMAIN m_plugins |->
                   IF m_plugins[i][event] = <<>> THEN <<>> ELSE AllListeners(m_plugins[i])])

(* EmitUserChatEvent, EmitCommandEvent: up to their first loop.            *)
Emit(event) ==
    /\ pc = "serving"
    /\ emitted < MaxEvents
    /\ emitted' = emitted + 1
    /\ kind' = event
    /\ m_is_canceled' = FALSE
    /\ functions' = EmitFunctions(event)
    /\ called' = <<>>
    /\ expected' = ListenersFor(event)
    /\ outcome' = "none"
    /\ pc' = "lua"
    /\ UNCHANGED registryVars

(* The next listener, running.  It is the last thing called until it       *)
(* returns.                                                                *)
CallListener ==
    /\ pc = "lua"
    /\ ~m_is_canceled
    /\ functions # <<>>
    /\ called' = Append(called, Head(functions))
    /\ functions' = Tail(functions)
    /\ UNCHANGED <<registryVars, pc, kind, m_is_canceled, expected, outcome, emitted>>

(* event:set_canceled(cancel), by the running listener; the argument is    *)
(* not looked at.                                                          *)
SetCanceled(cancel) ==
    /\ pc = "lua"
    /\ called # <<>>
    /\ m_is_canceled' = TRUE
    /\ UNCHANGED <<registryVars, pc, kind, functions, called, expected, outcome, emitted>>

EventEnds(result) ==
    /\ outcome' = result
    /\ functions' = <<>>
    /\ pc' = "serving"
    /\ UNCHANGED <<registryVars, kind, m_is_canceled, called, expected, emitted>>

(* A listener has canceled the event.                                      *)
ReturnCanceled ==
    /\ pc = "lua"
    /\ m_is_canceled
    /\ EventEnds("canceled")

(* An error in a listener leaves the handler; Multithreaded says what that *)
(* does to the threads.                                                    *)
ListenerThrows ==
    /\ pc = "lua"
    /\ called # <<>>
    /\ EventEnds("threw")

(* Mutant: the flag is not looked at after the last listener.              *)
LuaDoneUnchecked ==
    /\ pc = "lua"
    /\ functions = <<>>
    /\ pc' = "native"
    /\ UNCHANGED <<registryVars, eventVars>>

(* On to m_listeners.  BasicServerEventListener is the only one, and it    *)
(* does not cancel.                                                        *)
LuaDone ==
    /\ pc = "lua"
    /\ ~m_is_canceled
    /\ functions = <<>>
    /\ pc' = "native"
    /\ UNCHANGED <<registryVars, eventVars>>

LogMessage ==
    /\ pc = "native"
    /\ kind = "message"
    /\ EventEnds("logged")

(* No caller of RegisterCommand is left, so that m_commands is empty and   *)
(* its at() throws.                                                        *)
GetCommandExecutor ==
    /\ pc = "native"
    /\ kind = "command"
    /\ EventEnds("threw")

(* What does not concern the text of an event (module Events).             *)
PluginStep ==
    \/ \E plugin \in Objects, event \in Events, listener \in Listeners :
           RegisterEventListener(plugin, event, listener)
    \/ \E plugin \in Objects : RegisterPlugin(plugin)
    \/ Loaded
    \/ ScriptThrows
    \/ CallListener
    \/ \E cancel \in BOOLEAN : SetCanceled(cancel)
    \/ ReturnCanceled
    \/ ListenerThrows
    \/ LuaDone
    \/ GetCommandExecutor

Next ==
    \/ PluginStep
    \/ \E event \in Events : Emit(event)
    \/ LogMessage

Spec == Init /\ [][Next]_vars
-----------------------------------------------------------------------------
(* Properties.                                                             *)

(* The elements of seq are among those of the other, in the same order.    *)
Among(seq, longer) ==
    \E place \in [DOMAIN seq -> DOMAIN longer] :
        /\ \A i, j \in DOMAIN seq : i < j => place[i] < place[j]
        /\ \A i \in DOMAIN seq : seq[i] = longer[place[i]]

(***************************************************************************)
(* A chat message that is logged has been through every listener that was  *)
(* registered for it when it was emitted, in the order of registration,    *)
(* whatever these listeners registered meanwhile (server_events.cpp:24-51, *)
(* plugins.cpp:191-200).                                                   *)
(***************************************************************************)
LoggedAfterAllListeners == outcome = "logged" => Among(expected, called)

(***************************************************************************)
(* Once a listener has canceled an event, no other listener is called for  *)
(* it and it is neither logged nor executed; it can only end as canceled,  *)
(* by an error of the listener that canceled it, or with the process       *)
(* (server_events.cpp:24-36, 60-72).                                       *)
(***************************************************************************)
CanceledIsFinal ==
    [][pc = "lua" /\ m_is_canceled =>
           /\ called' = called
           /\ pc' \in {"lua", "serving", "terminated"}
           /\ outcome' \in {"none", "canceled", "threw"}]_vars

(***************************************************************************)
(* A listener is called only for the event it was added for: the listeners *)
(* of the example plugin call get_user on a "message" and get_command on a *)
(* "command", which the other kind of event does not have (plugin.lua:5-13)*)
(***************************************************************************)
CalledForTheirEvent ==
    \A i \in DOMAIN called : \E p \in Objects :
        called[i] \in ToSet(m_event_listeners[p][kind])
=============================================================================
