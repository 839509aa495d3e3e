--------------------------- MODULE Events_proofs ----------------------------
(***************************************************************************)
(* What happens to an event: a canceled one goes no further, no listener   *)
(* that registered for it is passed over, the line of a chat message shows *)
(* its name and its text, and a command is the first of its arguments.     *)
(*                                                                         *)
(* Base_proofs is here for its lemmas about FlattenSeq and induction.      *)
(***************************************************************************)
EXTENDS Events, Base_proofs

(* An event whose listeners are being called has come to nothing yet.      *)
UndecidedInLua == pc = "lua" => outcome = "none"

LEMMA InitUndecided == EventsInit => UndecidedInLua
  BY DEF EventsInit, Init, UndecidedInLua

(* The setters leave the emission where it is, or end the process.         *)
Setter ==
    /\ UNCHANGED <<registryVars, eventVars>>
    /\ pc' = pc \/ pc' = "terminated"

LEMMA Setters ==
    /\ \A message : SetMessage(message) \/ SetCommandMessage(message) => Setter
    /\ \A format : SetFormat(format) => Setter
    /\ \A command : SetCommand(command) => Setter
    /\ \A args : SetCommandArgs(args) => Setter
    /\ SetNoCommandArgs => Setter
  BY DEF Setter, Sets, SetMessage, SetFormat, SetCommandMessage, SetCommand, SetCommandArgs,
         SetNoCommandArgs

LEMMA NextUndecided ==
    UndecidedInLua /\ [EventsNext]_<<vars, textVars>> => UndecidedInLua'
<1> SUFFICES ASSUME UndecidedInLua, [EventsNext]_<<vars, textVars>> PROVE UndecidedInLua'
  OBVIOUS
<1> USE DEF UndecidedInLua, vars, registryVars, eventVars
<1>1. CASE PluginStep
  BY <1>1
  DEF PluginStep, RegisterEventListener, RegisterPlugin, Loaded, ScriptThrows, CallListener,
      SetCanceled, ReturnCanceled, ListenerThrows, LuaDone, GetCommandExecutor, EventEnds
<1>2. ASSUME NEW user, NEW message, EmitUserChatEvent(user, message) PROVE UndecidedInLua'
  BY <1>2 DEF EmitUserChatEvent, Emit
<1>3. ASSUME NEW command, EmitCommandEvent(command) PROVE UndecidedInLua'
  BY <1>3 DEF EmitCommandEvent, Emit
<1>4. CASE LogLine
  BY <1>4 DEF LogLine, LogMessage, EventEnds
<1>5. CASE Setter
  BY <1>5 DEF Setter
<1>6. CASE UNCHANGED <<vars, textVars>>
  BY <1>6
<1> QED
  BY <1>1, <1>2, <1>3, <1>4, <1>5, <1>6, Setters DEF EventsNext

(***************************************************************************)
(* An event that has not gone through its listeners is neither logged nor  *)
(* executed (server_events.cpp:20-75).                                     *)
(***************************************************************************)
THEOREM Undecided == EventsSpec => []UndecidedInLua
  BY InitUndecided, NextUndecided, PTL DEF EventsSpec

LEMMA CanceledStep ==
    ASSUME UndecidedInLua, [EventsNext]_<<vars, textVars>>, pc = "lua", m_is_canceled
    PROVE  /\ called' = called
           /\ pc' \in {"lua", "serving", "terminated"}
           /\ outcome' \in {"none", "canceled", "threw"}
<1> USE DEF UndecidedInLua, vars, registryVars, eventVars
<1> DEFINE Final == /\ called' = called
                    /\ pc' \in {"lua", "serving", "terminated"}
                    /\ outcome' \in {"none", "canceled", "threw"}
<1>1. CASE PluginStep
  BY <1>1
  DEF PluginStep, RegisterEventListener, RegisterPlugin, Loaded, ScriptThrows, CallListener,
      SetCanceled, ReturnCanceled, ListenerThrows, LuaDone, GetCommandExecutor, EventEnds
<1>2. \A user, message, command :
          ~EmitUserChatEvent(user, message) /\ ~EmitCommandEvent(command) /\ ~LogLine
  BY DEF EmitUserChatEvent, EmitCommandEvent, Emit, LogLine, LogMessage
<1>3. Setter => Final
  BY DEF Setter
<1>4. UNCHANGED <<vars, textVars>> => Final
  OBVIOUS
<1> QED
  BY <1>1, <1>2, <1>3, <1>4, Setters DEF EventsNext

(***************************************************************************)
(* Whatever the listeners do and set, a canceled event calls no other      *)
(* listener and is neither logged nor executed, for any plugins, listeners *)
(* and texts (server_events.cpp:24-36, 60-72).                             *)
(***************************************************************************)
THEOREM CanceledStaysCanceled == EventsSpec => CanceledIsFinal
<1>1. UndecidedInLua /\ [EventsNext]_<<vars, textVars>> =>
          [pc = "lua" /\ m_is_canceled =>
               /\ called' = called
               /\ pc' \in {"lua", "serving", "terminated"}
               /\ outcome' \in {"none", "canceled", "threw"}]_vars
  BY CanceledStep
<1> QED
  BY <1>1, Undecided, PTL DEF EventsSpec, CanceledIsFinal
-----------------------------------------------------------------------------
(***************************************************************************)
(* Sequences among others.                                                 *)
(***************************************************************************)
Placed(a, b, f) ==
    /\ f \in [1 .. Len(a) -> 1 .. Len(b)]
    /\ \A i, j \in 1 .. Len(a) : i < j => f[i] < f[j]
    /\ \A i \in 1 .. Len(a) : a[i] = b[f[i]]

LEMMA AmongIsPlaced ==
    ASSUME NEW S, NEW a \in Seq(S), NEW b \in Seq(S)
    PROVE  Among(a, b) <=> \E f : Placed(a, b, f)
<1>1. DOMAIN a = 1 .. Len(a) /\ DOMAIN b = 1 .. Len(b)
  OBVIOUS
<1>. QED
  BY <1>1 DEF Among, Placed

LEMMA AmongSame ==
    ASSUME NEW S, NEW a \in Seq(S)
    PROVE  Among(a, a)
<1> DEFINE f == [i \in 1 .. Len(a) |-> i]
<1>1. Placed(a, a, f)
  BY DEF Placed
<1>. QED
  BY <1>1, AmongIsPlaced

LEMMA NothingAmong ==
    ASSUME NEW S, NEW b \in Seq(S)
    PROVE  Among(<<>>, b)
<1> DEFINE f == [i \in 1 .. 0 |-> i]
<1>1. <<>> \in Seq(S) /\ Len(<<>>) = 0
  OBVIOUS
<1>2. Placed(<<>>, b, f)
  BY <1>1 DEF Placed
<1>. QED
  BY <1>1, <1>2, AmongIsPlaced

LEMMA AmongConcat ==
    ASSUME NEW S, NEW a \in Seq(S), NEW b \in Seq(S), NEW c \in Seq(S), NEW d \in Seq(S),
           Among(a, b), Among(c, d)
    PROVE  Among(a \o c, b \o d)
<1>1. PICK f : Placed(a, b, f)
  BY AmongIsPlaced
<1>2. PICK g : Placed(c, d, g)
  BY AmongIsPlaced
<1>3. PICK n \in Nat, m \in Nat, p \in Nat, q \in Nat :
          n = Len(a) /\ m = Len(b) /\ p = Len(c) /\ q = Len(d)
  BY LenProperties
<1> DEFINE h == [i \in 1 .. n + p |-> IF i <= n THEN f[i] ELSE m + g[i - n]]
<1>4. /\ Len(a \o c) = n + p /\ Len(b \o d) = m + q
      /\ a \o c \in Seq(S) /\ b \o d \in Seq(S)
  BY <1>3, ConcatProperties
<1>5. ASSUME NEW i \in 1 .. n + p, i <= n
      PROVE  /\ i \in 1 .. n /\ h[i] = f[i] /\ f[i] \in 1 .. m
             /\ (a \o c)[i] = b[f[i]] /\ b[f[i]] = (b \o d)[f[i]]
  <2>1. i \in 1 .. n /\ h[i] = f[i]
    BY <1>3, <1>5
  <2>2. f[i] \in 1 .. m /\ a[i] = b[f[i]]
    BY <1>1, <1>3, <2>1 DEF Placed
  <2>3. (a \o c)[i] = a[i] /\ (b \o d)[f[i]] = b[f[i]]
    <3> HIDE DEF h
    <3>1. (a \o c)[i] = a[i]
      BY <1>3, <2>1
    <3>2. (b \o d)[f[i]] = b[f[i]]
      BY <1>3, <2>2
    <3>. QED
      BY <3>1, <3>2
  <2>. QED
    BY <2>1, <2>2, <2>3
<1>6. ASSUME NEW i \in 1 .. n + p, ~(i <= n)
      PROVE  /\ i - n \in 1 .. p /\ h[i] = m + g[i - n] /\ g[i - n] \in 1 .. q
             /\ (a \o c)[i] = d[g[i - n]] /\ d[g[i - n]] = (b \o d)[m + g[i - n]]
  <2>1. i - n \in 1 .. p /\ h[i] = m + g[i - n]
    BY <1>3, <1>6
  <2>2. g[i - n] \in 1 .. q /\ c[i - n] = d[g[i - n]]
    BY <1>2, <1>3, <2>1 DEF Placed
  <2> HIDE DEF h
  <2>3. (a \o c)[i] = c[i - n]
    BY <1>3, <2>1
  <2>4. PICK k \in 1 .. q : k = g[i - n]
    BY <2>2
  <2>5. (b \o d)[m + k] = d[k]
    BY <1>3, <2>4
  <2>. QED
    BY <2>1, <2>2, <2>3, <2>4, <2>5
<1>7. h \in [1 .. n + p -> 1 .. m + q]
  <2>1. ASSUME NEW i \in 1 .. n + p PROVE h[i] \in 1 .. m + q
    <3> HIDE DEF h
    <3>1. CASE i <= n
      <4>1. h[i] \in 1 .. m
        BY <1>5, <3>1
      <4>. QED
        BY <1>3, <4>1
    <3>2. CASE ~(i <= n)
      <4>1. h[i] = m + g[i - n] /\ g[i - n] \in 1 .. q
        BY <1>6, <3>2
      <4>. QED
        BY <1>3, <4>1
    <3>. QED
      BY <3>1, <3>2
  <2>. QED
    BY <2>1
<1> HIDE DEF h
<1>8. \A i, j \in 1 .. n + p : i < j => h[i] < h[j]
  <2> SUFFICES ASSUME NEW i \in 1 .. n + p, NEW j \in 1 .. n + p, i < j
               PROVE  h[i] < h[j]
    OBVIOUS
  <2>1. CASE j <= n
    <3>1. i \in 1 .. n /\ j \in 1 .. n /\ h[i] = f[i] /\ h[j] = f[j]
      BY <1>3, <1>5, <2>1
    <3>. QED
      BY <1>1, <1>3, <3>1 DEF Placed
  <2>2. CASE ~(i <= n)
    <3>1. /\ i - n \in 1 .. p /\ j - n \in 1 .. p /\ i - n < j - n
          /\ h[i] = m + g[i - n] /\ h[j] = m + g[j - n]
          /\ g[i - n] \in 1 .. q /\ g[j - n] \in 1 .. q
      BY <1>3, <1>6, <2>2
    <3>2. g[i - n] < g[j - n]
      BY <1>2, <1>3, <3>1 DEF Placed
    <3>. QED
      BY <1>3, <3>1, <3>2
  <2>3. CASE i <= n /\ ~(j <= n)
    <3>1. h[i] \in 1 .. m /\ h[j] = m + g[j - n] /\ g[j - n] \in 1 .. q
      BY <1>5, <1>6, <2>3
    <3>. QED
      BY <1>3, <3>1
  <2>. QED
    BY <1>3, <2>1, <2>2, <2>3
<1>9. \A i \in 1 .. n + p : (a \o c)[i] = (b \o d)[h[i]]
  BY <1>5, <1>6
<1>10. Placed(a \o c, b \o d, h)
  BY <1>4, <1>7, <1>8, <1>9 DEF Placed
<1>. QED
  BY <1>4, <1>10, AmongIsPlaced

LEMMA AmongFront ==
    ASSUME NEW S, NEW a \in Seq(S), NEW b \in Seq(S)
    PROVE  Among(a, a \o b) /\ Among(b, a \o b)
<1>1. <<>> \in Seq(S) /\ a \o <<>> = a /\ <<>> \o b = b
  OBVIOUS
<1>2. Among(a, a) /\ Among(b, b) /\ Among(<<>>, a) /\ Among(<<>>, b)
  BY AmongSame, NothingAmong
<1>3. Among(a \o <<>>, a \o b)
  BY <1>1, <1>2, AmongConcat
<1>4. Among(<<>> \o b, a \o b)
  BY <1>1, <1>2, AmongConcat
<1>. QED
  BY <1>1, <1>3, <1>4

(* Flattening keeps it.                                                    *)
LEMMA AmongFlattened ==
    ASSUME NEW S, NEW s \in Seq(Seq(S)), NEW t \in Seq(Seq(S)),
           Len(s) = Len(t), \A i \in 1 .. Len(s) : Among(s[i], t[i])
    PROVE  Among(FlattenSeq(s), FlattenSeq(t))
<1> DEFINE Good == {k \in Nat : \A u, v \in Seq(Seq(S)) :
                        Len(u) = k /\ Len(v) = k /\ (\A i \in 1 .. k : Among(u[i], v[i]))
                            => Among(FlattenSeq(u), FlattenSeq(v))}
<1>1. 0 \in Good
  <2>1. ASSUME NEW u \in Seq(Seq(S)), NEW v \in Seq(Seq(S)), Len(u) = 0, Len(v) = 0
        PROVE  Among(FlattenSeq(u), FlattenSeq(v))
    <3>1. u = <<>> /\ v = <<>> /\ <<>> \in Seq(S)
      BY <2>1, EmptySeq
    <3>. QED
      BY <3>1, FlattenEmpty, NothingAmong
  <2>. QED
    BY <2>1
<1>2. ASSUME NEW k \in Nat, k \in Good PROVE k + 1 \in Good
  <2>1. ASSUME NEW u \in Seq(Seq(S)), NEW v \in Seq(Seq(S)), Len(u) = k + 1, Len(v) = k + 1,
               \A i \in 1 .. k + 1 : Among(u[i], v[i])
        PROVE  Among(FlattenSeq(u), FlattenSeq(v))
    <3>1. u # <<>> /\ v # <<>>
      BY <2>1, EmptySeq
    <3>2. PICK w \in Seq(Seq(S)), x \in Seq(S) : u = Append(w, x)
      BY <3>1, SequenceEmptyOrAppend
    <3>3. PICK z \in Seq(Seq(S)), y \in Seq(S) : v = Append(z, y)
      BY <3>1, SequenceEmptyOrAppend
    <3>4. Len(w) = k /\ Len(z) = k /\ u[k + 1] = x /\ v[k + 1] = y
      BY <2>1, <3>2, <3>3
    <3>5. \A i \in 1 .. k : w[i] = u[i] /\ z[i] = v[i]
      BY <3>2, <3>3, <3>4
    <3>6. \A i \in 1 .. k : Among(w[i], z[i])
      BY <2>1, <3>5
    <3>7. Among(FlattenSeq(w), FlattenSeq(z))
      BY <1>2, <3>4, <3>6
    <3>8. Among(x, y)
      BY <2>1, <3>4
    <3>9. FlattenSeq(w) \in Seq(S) /\ FlattenSeq(z) \in Seq(S)
      BY FlattenType
    <3>10. FlattenSeq(u) = FlattenSeq(w) \o x /\ FlattenSeq(v) = FlattenSeq(z) \o y
      BY <3>2, <3>3, FlattenAppend
    <3>. QED
      BY <3>7, <3>8, <3>9, <3>10, AmongConcat
  <2>. QED
    BY <2>1
<1> HIDE DEF Good
<1>3. \A k \in Nat : k \in Good
  BY <1>1, <1>2, SetInduction
<1>4. Len(s) \in Nat
  BY LenProperties
<1>. QED
  BY <1>3, <1>4 DEF Good
-----------------------------------------------------------------------------
(***************************************************************************)
(* The listeners of an event are among those that are called for it.       *)
(***************************************************************************)
LEMMA EventSet == Events = {"command", "message"}
<1>1. /\ DOMAIN EventNames = {1, 2}
      /\ EventNames[1] = "command" /\ EventNames[2] = "message"
  BY DEF EventNames
<1>. QED
  BY <1>1 DEF Events, ToSet

LEMMA AllListenersAre ==
    ASSUME NEW r \in Registry
    PROVE  AllListeners(r) = r["command"] \o r["message"]
<1>1. r["command"] \in Seq(Listeners) /\ r["message"] \in Seq(Listeners)
  BY EventSet DEF Registry
<1>2. PICK c \in Seq(Listeners), m \in Seq(Listeners) : c = r["command"] /\ m = r["message"]
  BY <1>1
<1> DEFINE both == [i \in DOMAIN EventNames |-> r[EventNames[i]]]
<1>3. both = <<c, m>>
  <2>1. /\ DOMAIN EventNames = 1 .. 2
        /\ EventNames[1] = "command" /\ EventNames[2] = "message"
    BY DEF EventNames
  <2>. QED
    BY <1>2, <2>1
<1>4. AllListeners(r) = FlattenSeq(<<c, m>>)
  BY <1>3 DEF AllListeners
<1>5. <<c>> \in Seq(Seq(Listeners)) /\ <<c, m>> = Append(<<c>>, m)
  OBVIOUS
<1>6. FlattenSeq(<<c, m>>) = FlattenSeq(<<c>>) \o m
  BY <1>5, FlattenAppend
<1>7. FlattenSeq(<<c>>) = c
  BY FlattenOne
<1>. QED
  BY <1>2, <1>4, <1>6, <1>7

(* What a plugin's part of an emission is, and what it should be.          *)
Own(plugins, event) == [i \in DOMAIN plugins |-> plugins[i][event]]
Asked(plugins, event) ==
    [i \in DOMAIN plugins |->
        IF plugins[i][event] = <<>> THEN <<>> ELSE AllListeners(plugins[i])]

LEMMA OwnAmongAsked ==
    ASSUME NEW m \in Seq(Registry), NEW e \in Events
    PROVE  /\ Own(m, e) \in Seq(Seq(Listeners)) /\ Asked(m, e) \in Seq(Seq(Listeners))
           /\ FlattenSeq(Own(m, e)) \in Seq(Listeners)
           /\ FlattenSeq(Asked(m, e)) \in Seq(Listeners)
           /\ Among(FlattenSeq(Own(m, e)), FlattenSeq(Asked(m, e)))
<1> DEFINE s == Own(m, e)
           t == Asked(m, e)
<1>1. PICK n \in Nat : n = Len(m) /\ DOMAIN m = 1 .. n
  BY LenProperties
<1>2. ASSUME NEW i \in 1 .. n
      PROVE  s[i] \in Seq(Listeners) /\ t[i] \in Seq(Listeners) /\ Among(s[i], t[i])
  <2>1. PICK r \in Registry : r = m[i]
    BY <1>1, ElementOfSeq
  <2>2. PICK c \in Seq(Listeners), h \in Seq(Listeners) : c = r["command"] /\ h = r["message"]
    BY EventSet DEF Registry
  <2>3. s[i] = r[e] /\ t[i] = IF r[e] = <<>> THEN <<>> ELSE AllListeners(r)
    BY <1>1, <2>1 DEF Own, Asked
  <2>4. AllListeners(r) = c \o h /\ c \o h \in Seq(Listeners) /\ <<>> \in Seq(Listeners)
    BY <2>2, AllListenersAre, ConcatProperties, EmptySeq
  <2>5. (e = "command" /\ r[e] = c) \/ (e = "message" /\ r[e] = h)
    BY <2>2, EventSet
  <2>6. Among(c, c \o h) /\ Among(h, c \o h) /\ Among(<<>>, <<>>)
    BY <2>4, AmongFront, NothingAmong
  <2>. QED
    BY <2>3, <2>4, <2>5, <2>6
<1>3. Len(s) = n /\ Len(t) = n /\ DOMAIN s = 1 .. n /\ DOMAIN t = 1 .. n
  BY <1>1 DEF Own, Asked
<1>4. s \in Seq(Seq(Listeners)) /\ t \in Seq(Seq(Listeners))
  <2>1. s = [i \in 1 .. n |-> s[i]] /\ t = [i \in 1 .. n |-> t[i]]
    BY <1>1 DEF Own, Asked
  <2> HIDE DEF s, t
  <2>. QED
    BY <1>1, <1>2, <2>1, IsASeq
<1>5. FlattenSeq(s) \in Seq(Listeners) /\ FlattenSeq(t) \in Seq(Listeners)
  BY <1>4, FlattenType
<1>6. Among(FlattenSeq(s), FlattenSeq(t))
  <2> HIDE DEF s, t
  <2>. QED
    BY <1>2, <1>3, <1>4, AmongFlattened
<1>. QED
  BY <1>4, <1>5, <1>6

LEMMA EmissionType ==
    ASSUME TypeOK, NEW e \in Events
    PROVE  /\ ListenersFor(e) \in Seq(Listeners) /\ EmitFunctions(e) \in Seq(Listeners)
           /\ Among(ListenersFor(e), EmitFunctions(e))
<1>1. m_plugins \in Seq(Registry)
  BY DEF TypeOK
<1>2. ListenersFor(e) = FlattenSeq(Own(m_plugins, e))
  BY DEF ListenersFor, Own
<1>3. EmitFunctions(e) = FlattenSeq(Asked(m_plugins, e))
  BY DEF EmitFunctions, Asked
<1>. QED
  BY <1>1, <1>2, <1>3, OwnAmongAsked
-----------------------------------------------------------------------------
(* What has been called and what is still to be called.                    *)
ListenersInv ==
    /\ pc = "native" => functions = <<>>
    /\ pc \in {"lua", "native"} => Among(expected, called \o functions)
    /\ outcome = "logged" => Among(expected, called)

PluginsInv == TypeOK /\ UndecidedInLua /\ ListenersInv

LEMMA InitPluginsInv == Init => PluginsInv
<1> SUFFICES ASSUME Init PROVE PluginsInv
  OBVIOUS
<1>1. <<>> \in Seq(Listeners) /\ <<>> \in Seq(Registry)
  BY EmptySeq
<1>2. "message" \in Events /\ 0 \in Nat
  BY EventSet
<1>3. m_event_listeners \in [Objects -> Registry]
  BY <1>1 DEF Init, Registry
<1>4. TypeOK
  BY <1>1, <1>2, <1>3 DEF Init, TypeOK
<1>. QED
  BY <1>4 DEF Init, PluginsInv, UndecidedInLua, ListenersInv

LEMMA SameEvent ==
    ASSUME PluginsInv, UNCHANGED eventVars, pc' \in {pc, "terminated"},
           m_event_listeners' \in [Objects -> Registry], m_plugins' \in Seq(Registry), ons' \in Nat
    PROVE  PluginsInv'
BY DEF PluginsInv, TypeOK, UndecidedInLua, ListenersInv, eventVars

LEMMA StepPluginsInv == PluginsInv /\ PluginStep => PluginsInv'
<1> SUFFICES ASSUME PluginsInv, PluginStep PROVE PluginsInv'
  OBVIOUS
<1>1. ASSUME NEW plugin \in Objects, NEW event \in Events, NEW listener \in Listeners,
             RegisterEventListener(plugin, event, listener)
      PROVE  PluginsInv'
  <2>1. PICK r \in Registry : r = m_event_listeners[plugin]
    BY DEF PluginsInv, TypeOK
  <2>2. PICK s \in Seq(Listeners) : s = r[event]
    BY DEF Registry
  <2>3. Append(s, listener) \in Seq(Listeners)
    BY AppendProperties
  <2>4. [r EXCEPT ![event] = Append(s, listener)] \in Registry
    BY <2>3 DEF Registry
  <2>5. m_event_listeners' =
            [m_event_listeners EXCEPT ![plugin] = [r EXCEPT ![event] = Append(s, listener)]]
    BY <1>1, <2>1, <2>2 DEF RegisterEventListener, PluginsInv, TypeOK
  <2>6. /\ m_event_listeners' \in [Objects -> Registry] /\ ons' \in Nat
        /\ UNCHANGED <<m_plugins, pc, eventVars>>
    <3>1. PICK q \in Registry : q = [r EXCEPT ![event] = Append(s, listener)]
      BY <2>4
    <3>2. m_event_listeners' = [m_event_listeners EXCEPT ![plugin] = q]
      BY <2>5, <3>1
    <3>3. m_event_listeners' \in [Objects -> Registry]
      BY <3>1, <3>2 DEF PluginsInv, TypeOK
    <3>4. ons' \in Nat /\ UNCHANGED <<m_plugins, pc, eventVars>>
      BY <1>1 DEF RegisterEventListener, PluginsInv, TypeOK
    <3>. QED
      BY <3>3, <3>4
  <2>. QED
    BY <2>6, SameEvent DEF PluginsInv, TypeOK
<1>2. ASSUME NEW plugin \in Objects, RegisterPlugin(plugin) PROVE PluginsInv'
  <2>1. m_event_listeners[plugin] \in Registry
    BY DEF PluginsInv, TypeOK
  <2>2. m_plugins' \in Seq(Registry) /\ UNCHANGED <<m_event_listeners, ons, pc, eventVars>>
    BY <1>2, <2>1, AppendProperties DEF RegisterPlugin, PluginsInv, TypeOK
  <2>. QED
    BY <2>2, SameEvent DEF PluginsInv, TypeOK
<1>3. CASE Loaded \/ ScriptThrows
  BY <1>3
  DEF Loaded, ScriptThrows, registryVars, eventVars, PluginsInv, TypeOK, UndecidedInLua, ListenersInv
<1>4. CASE CallListener
  <2>1. PICK f \in Listeners, rest \in Seq(Listeners), c \in Seq(Listeners) :
            /\ f = Head(functions) /\ rest = Tail(functions) /\ c = called
            /\ functions = <<f>> \o rest
    <3>1. functions \in Seq(Listeners) /\ functions # <<>> /\ called \in Seq(Listeners)
      BY <1>4 DEF CallListener, PluginsInv, TypeOK
    <3>2. PICK q \in Seq(Listeners) : q = functions /\ q # <<>>
      BY <3>1
    <3>3. Head(q) \in Listeners /\ Tail(q) \in Seq(Listeners) /\ q = <<Head(q)>> \o Tail(q)
      BY <3>2
    <3>. QED
      BY <3>1, <3>2, <3>3
  <2>2. /\ Append(c, f) \in Seq(Listeners)
        /\ Append(c, f) \o rest = c \o (<<f>> \o rest)
    OBVIOUS
  <2>3. /\ called' = Append(c, f) /\ functions' = rest /\ pc = "lua"
        /\ UNCHANGED <<registryVars, pc, kind, m_is_canceled, expected, outcome, emitted>>
    BY <1>4, <2>1 DEF CallListener
  <2>4. Among(expected, called' \o functions')
    BY <2>1, <2>2, <2>3 DEF PluginsInv, ListenersInv
  <2>. QED
    BY <2>1, <2>2, <2>3, <2>4
    DEF PluginsInv, TypeOK, UndecidedInLua, ListenersInv, registryVars
<1>5. ASSUME NEW cancel \in BOOLEAN, SetCanceled(cancel) PROVE PluginsInv'
  BY <1>5 DEF SetCanceled, registryVars, PluginsInv, TypeOK, UndecidedInLua, ListenersInv
<1>6. CASE ReturnCanceled \/ ListenerThrows \/ GetCommandExecutor
  <2>1. <<>> \in Seq(Listeners)
    BY EmptySeq
  <2>. QED
    BY <1>6, <2>1
    DEF ReturnCanceled, ListenerThrows, GetCommandExecutor, EventEnds, registryVars,
        PluginsInv, TypeOK, UndecidedInLua, ListenersInv
<1>7. CASE LuaDone
  BY <1>7
  DEF LuaDone, registryVars, eventVars, PluginsInv, TypeOK, UndecidedInLua, ListenersInv
<1>. QED
  BY <1>1, <1>2, <1>3, <1>4, <1>5, <1>6, <1>7 DEF PluginStep

LEMMA EmitPluginsInv ==
    ASSUME PluginsInv, NEW event \in Events, Emit(event)
    PROVE  PluginsInv'
<1>1. PICK a \in Seq(Listeners), f \in Seq(Listeners) :
          a = ListenersFor(event) /\ f = EmitFunctions(event) /\ Among(a, f)
  BY EmissionType DEF PluginsInv
<1>2. <<>> \in Seq(Listeners) /\ <<>> \o f = f
  OBVIOUS
<1>3. /\ called' = <<>> /\ functions' = f /\ expected' = a /\ pc' = "lua" /\ outcome' = "none"
      /\ kind' = event /\ m_is_canceled' = FALSE /\ emitted' = emitted + 1
      /\ UNCHANGED registryVars
  BY <1>1 DEF Emit
<1>4. Among(expected', called' \o functions')
  BY <1>1, <1>2, <1>3
<1>5. TypeOK'
  <2>1. /\ m_event_listeners' \in [Objects -> Registry] /\ m_plugins' \in Seq(Registry)
        /\ ons' \in Nat
    BY <1>3 DEF registryVars, PluginsInv, TypeOK
  <2>2. emitted' \in Nat
    BY <1>3 DEF PluginsInv, TypeOK
  <2>3. m_is_canceled' \in BOOLEAN
    BY <1>3
  <2>4. /\ functions' \in Seq(Listeners) /\ called' \in Seq(Listeners)
        /\ expected' \in Seq(Listeners) /\ kind' \in Events
    BY <1>1, <1>2, <1>3
  <2>. QED
    BY <1>3, <2>1, <2>2, <2>3, <2>4 DEF TypeOK
<1>. QED
  BY <1>3, <1>4, <1>5 DEF PluginsInv, UndecidedInLua, ListenersInv

LEMMA LogPluginsInv ==
    ASSUME PluginsInv, LogMessage
    PROVE  PluginsInv'
<1>1. <<>> \in Seq(Listeners) /\ called \o <<>> = called
  BY ConcatEmptySeq, EmptySeq DEF PluginsInv, TypeOK
<1>. QED
  BY <1>1 DEF LogMessage, EventEnds, registryVars, PluginsInv, TypeOK, UndecidedInLua, ListenersInv

LEMMA NextPluginsInv ==
    PluginsInv /\ [EventsNext]_<<vars, textVars>> => PluginsInv'
<1> SUFFICES ASSUME PluginsInv, [EventsNext]_<<vars, textVars>> PROVE PluginsInv'
  OBVIOUS
<1>1. CASE PluginStep
  BY <1>1, StepPluginsInv
<1>2. ASSUME NEW user, NEW message, EmitUserChatEvent(user, message) PROVE PluginsInv'
  BY <1>2, EmitPluginsInv, EventSet DEF EmitUserChatEvent
<1>3. ASSUME NEW command, EmitCommandEvent(command) PROVE PluginsInv'
  BY <1>3, EmitPluginsInv, EventSet DEF EmitCommandEvent
<1>4. CASE LogLine
  BY <1>4, LogPluginsInv DEF LogLine
<1>5. CASE Setter
  BY <1>5, SameEvent DEF Setter, registryVars, PluginsInv, TypeOK
<1>6. CASE UNCHANGED <<vars, textVars>>
  BY <1>6, SameEvent DEF vars, registryVars, PluginsInv, TypeOK
<1>. QED
  BY <1>1, <1>2, <1>3, <1>4, <1>5, <1>6, Setters DEF EventsNext

(***************************************************************************)
(* The invariant of an emission: the listeners registered for an event     *)
(* when it was emitted are, in order, among those called so far and those  *)
(* still to be called (server_events.cpp:24-75, plugins.cpp:191-200).      *)
(***************************************************************************)
THEOREM ListenersInvariant == EventsSpec => []PluginsInv
  BY InitPluginsInv, NextPluginsInv, PTL DEF EventsSpec, EventsInit

(***************************************************************************)
(* Type correctness, for every plugins, listeners and texts                *)
(* (server_events.cpp:20-75, plugins.cpp:160-200).                         *)
(***************************************************************************)
THEOREM TypeCorrect == EventsSpec => []TypeOK
  BY ListenersInvariant, PTL DEF PluginsInv

(***************************************************************************)
(* Whatever was registered, and whatever listeners register or set while   *)
(* they run, a message that is logged has been through all its listeners   *)
(* (server_events.cpp:24-51, plugins.cpp:191-200).                         *)
(***************************************************************************)
THEOREM AllListenersAreAsked == EventsSpec => []LoggedAfterAllListeners
  BY ListenersInvariant, PTL DEF PluginsInv, ListenersInv, LoggedAfterAllListeners
-----------------------------------------------------------------------------
(***************************************************************************)
(* find and replace.                                                       *)
(***************************************************************************)
LEMMA OneToken ==
    ASSUME NEW S, NEW u \in Seq(S), NEW k \in 1 .. Len(u)
    PROVE  SubSeq(u, k, k) = <<u[k]>> /\ u[k] \in S
<1>1. k \in k .. Len(u) /\ Len(u) \in Nat
  BY LenProperties
<1>2. SubSeq(u, k, k) = <<u[k]>> \o SubSeq(u, k + 1, k)
  BY <1>1, SubSeqRecursiveFirst
<1>3. SubSeq(u, k + 1, k) = <<>>
  BY SubSeqEmpty
<1>4. u[k] \in S
  BY ElementOfSeq
<1>5. <<u[k]>> \in Seq(S)
  BY <1>4
<1>6. <<u[k]>> \o <<>> = <<u[k]>>
  BY <1>5, ConcatEmptySeq
<1>. QED
  BY <1>2, <1>3, <1>4, <1>6

LEMMA SubSeqsAre ==
    ASSUME NEW u, NEW v, v \in SubSeqs(u)
    PROVE  \E i, j \in 0 .. Len(u) : v = SubSeq(u, i + 1, j)
BY DEF SubSeqs

LEMMA SubSeqsHave ==
    ASSUME NEW u, NEW i \in 0 .. Len(u), NEW j \in 0 .. Len(u)
    PROVE  SubSeq(u, i + 1, j) \in SubSeqs(u)
BY DEF SubSeqs

LEMMA TokenAmongSubSeqs ==
    ASSUME NEW S, NEW u \in Seq(S), NEW token \in S
    PROVE  <<token>> \in SubSeqs(u) <=> \E k \in 1 .. Len(u) : u[k] = token
<1>1. Len(u) \in Nat
  BY LenProperties
<1>2. ASSUME NEW k \in 1 .. Len(u), u[k] = token PROVE <<token>> \in SubSeqs(u)
  <2>1. SubSeq(u, k, k) = <<u[k]>>
    BY OneToken
  <2>2. k - 1 \in 0 .. Len(u) /\ k \in 0 .. Len(u) /\ (k - 1) + 1 = k
    BY <1>1
  <2>3. <<token>> = SubSeq(u, (k - 1) + 1, k)
    BY <1>2, <2>1, <2>2
  <2>. QED
    BY <2>2, <2>3, SubSeqsHave
<1>3. ASSUME <<token>> \in SubSeqs(u) PROVE \E k \in 1 .. Len(u) : u[k] = token
  <2>1. PICK i \in 0 .. Len(u), j \in 0 .. Len(u) : <<token>> = SubSeq(u, i + 1, j)
    <3>1. PICK v : v = <<token>>
      OBVIOUS
    <3>2. v \in SubSeqs(u)
      BY <1>3, <3>1
    <3>. QED
      BY <3>1, <3>2, SubSeqsAre
  <2>2. Len(SubSeq(u, i + 1, j)) = IF i + 1 <= j THEN j - (i + 1) + 1 ELSE 0
    BY <1>1, <2>1, SubSeqProperties
  <2>3. Len(<<token>>) = 1 /\ <<token>>[1] = token
    OBVIOUS
  <2>4. j = i + 1
    BY <1>1, <2>1, <2>2, <2>3
  <2>5. i + 1 \in 1 .. Len(u)
    BY <1>1, <2>4
  <2>6. SubSeq(u, i + 1, i + 1) = <<u[i + 1]>>
    BY <2>5, OneToken
  <2>7. <<token>> = <<u[i + 1]>>
    BY <2>1, <2>4, <2>6
  <2>8. token = u[i + 1]
    BY <2>7
  <2>. QED
    BY <2>5, <2>8
<1>. QED
  BY <1>2, <1>3

(* The first occurrence, behind a text without one.                        *)
LEMMA ReplacedFirst ==
    ASSUME NEW S, NEW pre \in Seq(S), NEW post \in Seq(S), NEW by \in Seq(S), NEW token \in S,
           token \notin ToSet(pre)
    PROVE  Replaced((pre \o <<token>>) \o post, token, by) = (pre \o by) \o post
<1> DEFINE t == (pre \o <<token>>) \o post
<1>1. PICK n \in Nat, m \in Nat : n = Len(pre) /\ m = Len(post)
  BY LenProperties
<1>2. t \in Seq(S) /\ Len(t) = n + 1 + m /\ t[n + 1] = token
  <2>1. <<token>> \in Seq(S) /\ Len(<<token>>) = 1 /\ <<token>>[1] = token
    OBVIOUS
  <2>2. PICK o \in Seq(S) : o = <<token>> /\ Len(o) = 1 /\ o[1] = token
    BY <2>1, Zenon
  <2>3. pre \o o \in Seq(S) /\ Len(pre \o o) = n + 1 /\ (pre \o o)[n + 1] = token
    BY <1>1, <2>2
  <2>4. PICK q \in Seq(S) : q = pre \o o /\ Len(q) = n + 1 /\ q[n + 1] = token
    BY <2>3, Zenon
  <2>5. q \o post \in Seq(S) /\ Len(q \o post) = n + 1 + m /\ (q \o post)[n + 1] = token
    <3>1. Len(q \o post) = Len(q) + Len(post) /\ q \o post \in Seq(S)
      BY ConcatProperties
    <3>2. n + 1 \in 1 .. Len(q) + Len(post) /\ n + 1 <= Len(q)
      BY <1>1, <2>4
    <3>3. (q \o post)[n + 1] = q[n + 1]
      BY <3>2, ConcatProperties
    <3>. QED
      BY <1>1, <2>4, <3>1, <3>3
  <2>. QED
    BY <2>2, <2>4, <2>5
<1>3. \A k \in 1 .. n : t[k] # token
  <2>1. ASSUME NEW k \in 1 .. n PROVE t[k] = pre[k]
    BY <1>1
  <2>2. ASSUME NEW k \in 1 .. n PROVE pre[k] \in ToSet(pre)
    BY <1>1 DEF ToSet
  <2> HIDE DEF t
  <2>. QED
    BY <2>1, <2>2
<1>4. t[n + 1] = token
  BY <1>2
<1>5. SubSeq(t, 1, n) = pre
  BY <1>1
<1>6. SubSeq(t, n + 2, n + 1 + m) = post
  <2>1. <<token>> \in Seq(S) /\ Len(<<token>>) = 1
    OBVIOUS
  <2>2. PICK q \in Seq(S) : q = pre \o <<token>> /\ Len(q) = n + 1
    <3>1. PICK o \in Seq(S) : o = <<token>> /\ Len(o) = 1
      BY <2>1, Zenon
    <3>2. pre \o o \in Seq(S) /\ Len(pre \o o) = n + 1
      BY <1>1, <3>1, ConcatProperties
    <3>. QED
      BY <3>1, <3>2, Zenon
  <2>3. SubSeq(q \o post, n + 2, n + 1 + m) = post
    <3>1. SubSeq(q \o post, Len(q) + 1, Len(q) + Len(post)) = post
      BY SuffixOfConcat
    <3>2. Len(q) + 1 = n + 2 /\ Len(q) + Len(post) = n + 1 + m
      BY <1>1, <2>2
    <3>. QED
      BY <3>1, <3>2
  <2>. QED
    BY <2>2, <2>3
<1> HIDE DEF t
<1>7. ASSUME NEW i \in 0 .. n + 1 + m
      PROVE  <<token>> \in SubSeqs(SubSeq(t, 1, i)) <=> \E k \in 1 .. i : t[k] = token
  <2>1. /\ SubSeq(t, 1, i) \in Seq(S) /\ Len(SubSeq(t, 1, i)) = i
        /\ \A k \in 1 .. i : SubSeq(t, 1, i)[k] = t[k]
    BY <1>1, <1>2
  <2>2. <<token>> \in SubSeqs(SubSeq(t, 1, i)) <=> \E k \in 1 .. i : SubSeq(t, 1, i)[k] = token
    BY <2>1, TokenAmongSubSeqs
  <2>. QED
    BY <2>1, <2>2
<1> DEFINE IsLast(i) == /\ <<token>> \in SubSeqs(SubSeq(t, 1, i))
                        /\ \A j \in 0 .. i - 1 : <<token>> \notin SubSeqs(SubSeq(t, 1, j))
           last == CHOOSE i \in 0 .. Len(t) : IsLast(i)
<1>8. \A i \in 0 .. n + 1 + m : IsLast(i) <=> i = n + 1
  <2>1. ASSUME NEW i \in 0 .. n + 1 + m, IsLast(i) PROVE i = n + 1
    <3>1. PICK k \in 1 .. i : t[k] = token
      BY <1>7, <2>1
    <3>2. ~(i < n + 1)
      <4>1. ASSUME i < n + 1 PROVE k \in 1 .. n
        BY <4>1
      <4>. QED
        BY <1>3, <3>1, <4>1
    <3>3. CASE i > n + 1
      <4>1. n + 1 \in 0 .. i - 1 /\ n + 1 \in 0 .. n + 1 + m /\ n + 1 \in 1 .. n + 1
        BY <3>3
      <4>2. <<token>> \in SubSeqs(SubSeq(t, 1, n + 1))
        BY <1>4, <1>7, <4>1
      <4>. QED
        BY <2>1, <4>1, <4>2
    <3>. QED
      BY <3>2, <3>3
  <2>2. IsLast(n + 1)
    <3>1. n + 1 \in 0 .. n + 1 + m /\ n + 1 \in 1 .. n + 1
      OBVIOUS
    <3>2. <<token>> \in SubSeqs(SubSeq(t, 1, n + 1))
      BY <1>4, <1>7, <3>1
    <3>3. ASSUME NEW j \in 0 .. (n + 1) - 1 PROVE <<token>> \notin SubSeqs(SubSeq(t, 1, j))
      <4>1. j \in 0 .. n + 1 + m /\ \A k \in 1 .. j : k \in 1 .. n
        OBVIOUS
      <4>. QED
        BY <1>3, <1>7, <4>1
    <3>. QED
      BY <3>2, <3>3
  <2> HIDE DEF IsLast
  <2>. QED
    BY <2>1, <2>2
<1> HIDE DEF IsLast
<1>9. last = n + 1
  <2>1. n + 1 \in 0 .. Len(t) /\ IsLast(n + 1) /\ \A i \in 0 .. Len(t) : IsLast(i) => i = n + 1
    BY <1>2, <1>8
  <2>. QED
    BY <2>1
<1>10. IndexFirstSubSeq(<<token>>, t) = n + 1
  <2>1. IndexFirstSubSeq(<<token>>, t) = last - (Len(<<token>>) - 1)
    BY DEF IndexFirstSubSeq, IsLast
  <2>2. Len(<<token>>) = 1
    OBVIOUS
  <2> HIDE DEF last
  <2>. QED
    BY <1>9, <2>1, <2>2
<1>11. <<token>> \in SubSeqs(t)
  <2>1. n + 1 \in 1 .. Len(t)
    BY <1>2
  <2>. QED
    BY <1>2, <1>4, <2>1, TokenAmongSubSeqs
<1>12. Replaced(t, token, by) = SubSeq(t, 1, (n + 1) - 1) \o by \o SubSeq(t, (n + 1) + Len(<<token>>), Len(t))
  BY <1>10, <1>11 DEF Replaced, ReplaceFirstSubSeq, ReplaceSubSeqAt
<1>13. (n + 1) - 1 = n /\ (n + 1) + Len(<<token>>) = n + 2
  OBVIOUS
<1>. QED
  BY <1>2, <1>5, <1>6, <1>12, <1>13 DEF t

(***************************************************************************)
(* The line of a chat message.                                             *)
(***************************************************************************)
Text == Seq(Tokens)

LEMMA ConcatIndex ==
    ASSUME NEW S, NEW s \in Seq(S), NEW t \in Seq(S)
    PROVE  /\ s \o t \in Seq(S)
           /\ Len(s \o t) = Len(s) + Len(t)
           /\ \A i \in 1 .. Len(s) : (s \o t)[i] = s[i]
           /\ \A i \in 1 .. Len(t) : (s \o t)[Len(s) + i] = t[i]
<1>1. s \o t \in Seq(S) /\ Len(s \o t) = Len(s) + Len(t) /\ Len(s) \in Nat /\ Len(t) \in Nat
  BY ConcatProperties, LenProperties
<1>2. \A i \in 1 .. Len(s) + Len(t) :
          (s \o t)[i] = IF i <= Len(s) THEN s[i] ELSE t[i - Len(s)]
  BY ConcatProperties
<1>. QED
  BY <1>1, <1>2

Six(a, b, c, d, e, f) ==
    <<a, b, c, d, e, f>> = (<<a, b>> \o <<c>>) \o <<d, e, f>>

LEMMA SixTokens ==
    ASSUME NEW S, NEW a \in S, NEW b \in S, NEW c \in S, NEW d \in S, NEW e \in S, NEW f \in S
    PROVE  Six(a, b, c, d, e, f)
<1>1. /\ <<a, b>> \in Seq(S) /\ <<c>> \in Seq(S) /\ <<d, e, f>> \in Seq(S)
      /\ <<a, b, c, d, e, f>> \in Seq(S)
  OBVIOUS
<1>2. PICK s \in Seq(S), t \in Seq(S), u \in Seq(S), v \in Seq(S) :
          s = <<a, b>> /\ t = <<c>> /\ u = <<d, e, f>> /\ v = <<a, b, c, d, e, f>>
  BY <1>1, Zenon
<1>3. /\ Len(s) = 2 /\ s[1] = a /\ s[2] = b
      /\ Len(t) = 1 /\ t[1] = c
      /\ Len(u) = 3 /\ u[1] = d /\ u[2] = e /\ u[3] = f
      /\ Len(v) = 6 /\ v[1] = a /\ v[2] = b /\ v[3] = c /\ v[4] = d /\ v[5] = e /\ v[6] = f
  BY <1>2
<1>4. /\ s \o t \in Seq(S) /\ Len(s \o t) = 3
      /\ (s \o t)[1] = a /\ (s \o t)[2] = b /\ (s \o t)[3] = c
  <2>1. /\ s \o t \in Seq(S) /\ Len(s \o t) = Len(s) + Len(t)
        /\ \A i \in 1 .. Len(s) : (s \o t)[i] = s[i]
        /\ \A i \in 1 .. Len(t) : (s \o t)[Len(s) + i] = t[i]
    BY ConcatIndex
  <2>. QED
    BY <1>3, <2>1
<1>5. PICK q \in Seq(S) : q = s \o t /\ Len(q) = 3 /\ q[1] = a /\ q[2] = b /\ q[3] = c
  BY <1>4, Zenon
<1>6. /\ q \o u \in Seq(S) /\ Len(q \o u) = 6
      /\ (q \o u)[1] = a /\ (q \o u)[2] = b /\ (q \o u)[3] = c
      /\ (q \o u)[4] = d /\ (q \o u)[5] = e /\ (q \o u)[6] = f
  <2>1. /\ q \o u \in Seq(S) /\ Len(q \o u) = Len(q) + Len(u)
        /\ \A i \in 1 .. Len(q) : (q \o u)[i] = q[i]
        /\ \A i \in 1 .. Len(u) : (q \o u)[Len(q) + i] = u[i]
    BY ConcatIndex
  <2>. QED
    BY <1>3, <1>5, <2>1
<1>7. \A i \in 1 .. 6 : i \in {1, 2, 3, 4, 5, 6}
  OBVIOUS
<1>8. q \o u = v
  <2>1. PICK x \in Seq(S) : x = q \o u
    BY <1>6
  <2>2. \A i \in 1 .. 6 : x[i] = v[i]
    BY <1>3, <1>6, <1>7, <2>1
  <2>3. Len(x) = Len(v) /\ Len(x) = 6
    BY <1>3, <1>6, <2>1
  <2>4. x = v
    BY <2>2, <2>3, SeqEqual
  <2>. QED
    BY <2>1, <2>4
<1>. QED
  BY <1>2, <1>5, <1>8 DEF Six

LEMMA NativeLine ==
    ASSUME NEW user \in Text, NEW message \in Text, "$1" \notin ToSet(user)
    PROVE  Replaced(Replaced(NativeFormat, "$0", user), "$1", message)
               = <<"speech_balloon", " ">> \o user \o <<":", " ">> \o message
<1>1. PICK S : S = Tokens
  OBVIOUS
<1>2. PICK balloon \in S, space \in S, zero \in S, colon \in S, one \in S :
          /\ balloon = "speech_balloon" /\ space = " " /\ zero = "$0" /\ colon = ":" /\ one = "$1"
  <2>1. /\ "speech_balloon" \in Tokens /\ " " \in Tokens /\ "$0" \in Tokens
        /\ ":" \in Tokens /\ "$1" \in Tokens
    BY TokensAssumption
  <2>. QED
    BY <1>1, <2>1, Zenon
<1>3. balloon # zero /\ space # zero /\ balloon # one /\ space # one /\ colon # one
  BY <1>2
<1>4. PICK u \in Seq(S), t \in Seq(S) : u = user /\ t = message
  BY <1>1 DEF Text
<1>5. NativeFormat = (<<balloon, space>> \o <<zero>>) \o <<colon, space, one>>
  <2>1. NativeFormat = <<balloon, space, zero, colon, space, one>>
    BY <1>2 DEF NativeFormat
  <2>2. Six(balloon, space, zero, colon, space, one)
    BY SixTokens
  <2>. QED
    BY <2>1, <2>2, Zenon DEF Six
<1>6. PICK pre \in Seq(S), post \in Seq(S), mid \in Seq(S) :
          /\ pre = <<balloon, space>> /\ post = <<colon, space, one>> /\ mid = <<colon, space>>
  <2>1. <<balloon, space>> \in Seq(S) /\ <<colon, space, one>> \in Seq(S)
        /\ <<colon, space>> \in Seq(S)
    OBVIOUS
  <2>. QED
    BY <2>1, Zenon
<1>7. ToSet(pre) = {balloon, space} /\ ToSet(mid) = {colon, space}
  <2>1. /\ DOMAIN pre = {1, 2} /\ pre[1] = balloon /\ pre[2] = space
        /\ DOMAIN mid = {1, 2} /\ mid[1] = colon /\ mid[2] = space
    BY <1>6
  <2>. QED
    BY <2>1 DEF ToSet
<1>8. Replaced((pre \o <<zero>>) \o post, zero, u) = (pre \o u) \o post
  BY <1>3, <1>7, ReplacedFirst
<1>9. post = mid \o <<one>>
  BY <1>6
<1>10. PICK front \in Seq(S), o \in Seq(S), none \in Seq(S) :
           front = (pre \o u) \o mid /\ o = <<one>> /\ none = <<>>
  <2>1. (pre \o u) \o mid \in Seq(S) /\ <<one>> \in Seq(S) /\ <<>> \in Seq(S)
    OBVIOUS
  <2>. QED
    BY <2>1, Zenon
<1>11. (pre \o u) \o post = (front \o <<one>>) \o none
  <2>1. (pre \o u) \o (mid \o o) = ((pre \o u) \o mid) \o o
    <3>1. PICK v \in Seq(S) : v = pre \o u
      BY ConcatProperties
    <3>2. (v \o mid) \o o = v \o (mid \o o)
      BY <1>6, <1>10, ConcatAssociative
    <3>. QED
      BY <3>1, <3>2
  <2>2. front \o o \in Seq(S) /\ (front \o o) \o none = front \o o
    BY <1>10, ConcatProperties, ConcatEmptySeq
  <2>. QED
    BY <1>9, <1>10, <2>1, <2>2
<1>12. one \notin ToSet(front)
  <2>1. ASSUME NEW i \in DOMAIN front PROVE front[i] \in ToSet(pre) \cup ToSet(u) \cup ToSet(mid)
    <3>1. PICK v \in Seq(S) : v = pre \o u
      BY ConcatProperties
    <3>2. front = v \o mid
      BY <1>10, <3>1
    <3>3. \A j \in DOMAIN v : v[j] \in ToSet(pre) \cup ToSet(u)
      BY <3>1 DEF ToSet
    <3>4. (i \in DOMAIN v /\ front[i] = v[i]) \/ (i - Len(v) \in DOMAIN mid /\ front[i] = mid[i - Len(v)])
      BY <3>2
    <3>. QED
      BY <3>3, <3>4 DEF ToSet
  <2>. QED
    BY <1>2, <1>3, <1>4, <1>7, <2>1 DEF ToSet
<1>13. Replaced((front \o <<one>>) \o none, one, t) = (front \o t) \o none
  BY <1>12, ReplacedFirst
<1>14. (front \o t) \o none = front \o t
  BY <1>10, ConcatProperties, ConcatEmptySeq
<1>. QED
  BY <1>2, <1>4, <1>5, <1>6, <1>8, <1>10, <1>11, <1>13, <1>14

(* The texts of a chat event, while it is under way and when it is logged. *)
LineInv ==
    /\ name \in Text /\ m_message \in Text
    /\ outcome = "logged" => line = Replaced(Replaced(NativeFormat, "$0", name), "$1", m_message)

LEMMA EmptyText == <<>> \in Text
  BY EmptySeq DEF Text

LEMMA InitLineInv == EventsInit => LineInv
  BY EmptyText DEF EventsInit, Init, LineInv

LEMMA SetMessageLineInv ==
    ASSUME UndecidedInLua, LineInv, NEW message \in Messages, SetMessage(message)
    PROVE  LineInv'
<1>1. message \in Text
  BY TextsAssumption DEF Text
<1>2. m_message' = message /\ name' = name /\ outcome' = "none"
  BY DEF SetMessage, Sets, UndecidedInLua, eventVars
<1>. QED
  BY <1>1, <1>2 DEF LineInv

LEMMA NextLineInv ==
    UndecidedInLua /\ LineInv /\ [EventsNext]_<<vars, textVars>> => LineInv'
<1> SUFFICES ASSUME UndecidedInLua, LineInv, [EventsNext]_<<vars, textVars>> PROVE LineInv'
  OBVIOUS
<1>1. ASSUME outcome' \in {outcome, "none", "canceled", "threw"},
             UNCHANGED <<name, m_message, line>>
      PROVE  LineInv'
  BY <1>1 DEF LineInv
<1>2. CASE PluginStep /\ UNCHANGED textVars
  <2>1. outcome' \in {outcome, "none", "canceled", "threw"}
    BY <1>2
    DEF PluginStep, RegisterEventListener, RegisterPlugin, Loaded, ScriptThrows, CallListener,
        SetCanceled, ReturnCanceled, ListenerThrows, LuaDone, GetCommandExecutor, EventEnds, eventVars
  <2>. QED
    BY <1>1, <1>2, <2>1 DEF textVars, chatVars
<1>3. ASSUME NEW user \in Names, NEW message \in Messages, EmitUserChatEvent(user, message)
      PROVE  LineInv'
  <2>1. user \in Text /\ message \in Text
    BY TextsAssumption DEF Text
  <2>2. name' = user /\ m_message' = message /\ outcome' = "none"
    BY <1>3 DEF EmitUserChatEvent, Emit
  <2>. QED
    BY <2>1, <2>2 DEF LineInv
<1>4. ASSUME NEW command, EmitCommandEvent(command) PROVE LineInv'
  <2>1. name' = <<>> /\ m_message' = <<>> /\ outcome' = "none"
    BY <1>4 DEF EmitCommandEvent, Emit
  <2>. QED
    BY <2>1, EmptyText DEF LineInv
<1>5. CASE LogLine
  BY <1>5 DEF LogLine, LineInv, Line
<1>6. ASSUME NEW message \in Messages, SetMessage(message) PROVE LineInv'
  BY <1>6, SetMessageLineInv
<1>7. ASSUME NEW format, SetFormat(format) PROVE LineInv'
  BY <1>1, <1>7 DEF SetFormat, Sets, eventVars
<1>8. ASSUME NEW message, SetCommandMessage(message) PROVE LineInv'
  BY <1>1, <1>8 DEF SetCommandMessage, Sets, eventVars, chatVars
<1>9. ASSUME NEW command, SetCommand(command) PROVE LineInv'
  BY <1>1, <1>9 DEF SetCommand, Sets, eventVars, chatVars
<1>10. ASSUME NEW args, SetCommandArgs(args) PROVE LineInv'
  BY <1>1, <1>10 DEF SetCommandArgs, Sets, eventVars, chatVars
<1>11. CASE SetNoCommandArgs
  BY <1>1, <1>11 DEF SetNoCommandArgs, Sets, eventVars, chatVars
<1>12. CASE UNCHANGED <<vars, textVars>>
  BY <1>1, <1>12 DEF vars, eventVars, textVars, chatVars
<1>. QED
  BY <1>2, <1>3, <1>4, <1>5, <1>6, <1>7, <1>8, <1>9, <1>10, <1>11, <1>12 DEF EventsNext

(***************************************************************************)
(* What is logged is made from the native format, the name and the message *)
(* as it is in the end (server_events.cpp:31-51).                          *)
(***************************************************************************)
THEOREM LineInvariant == EventsSpec => []LineInv
  BY InitLineInv, NextLineInv, Undecided, PTL DEF EventsSpec

(***************************************************************************)
(* For any texts, and whatever formats and messages listeners have set,    *)
(* the line shows the name and the message, unless the name has a "$1" in  *)
(* it (server_events.cpp:31-51, 97-103).                                   *)
(***************************************************************************)
THEOREM LineShowsNameAndMessage == EventsSpec => []LineIsNameAndMessage
<1>1. LineInv => LineIsNameAndMessage
  BY NativeLine DEF LineInv, LineIsNameAndMessage
<1>. QED
  BY <1>1, LineInvariant, PTL
-----------------------------------------------------------------------------
(***************************************************************************)
(* Splitting a command (boost::split).                                     *)
(***************************************************************************)
NoToken == [args |-> << <<>> >>, space |-> FALSE]

SplitTable(text, f, last) ==
    f = [i \in 0 .. last |-> IF i = 0 THEN NoToken ELSE Token(f[i - 1], text[i])]

LEMMA SplitTableExists ==
    ASSUME NEW text, NEW n \in Nat
    PROVE  \E f : SplitTable(text, f, n)
<1> DEFINE S == {k \in Nat : \E f : SplitTable(text, f, k)}
           Entry(f, i) == IF i = 0 THEN NoToken ELSE Token(f[i - 1], text[i])
<1>1. 0 \in S
  <2> DEFINE f == [i \in 0 .. 0 |-> NoToken]
  <2>1. f = [i \in 0 .. 0 |-> Entry(f, i)]
    BY \A i \in 0 .. 0 : i = 0
  <2>. QED
    BY <2>1 DEF SplitTable
<1>2. ASSUME NEW k \in Nat, k \in S PROVE k + 1 \in S
  <2>1. PICK f : SplitTable(text, f, k)
    BY <1>2
  <2>2. \A i \in 0 .. k : f[i] = Entry(f, i)
    BY <2>1 DEF SplitTable
  <2> DEFINE g == [i \in 0 .. k + 1 |-> IF i = k + 1 THEN Entry(f, i) ELSE f[i]]
  <2>3. ASSUME NEW i \in 0 .. k + 1 PROVE g[i] = Entry(g, i)
    <3>1. i # 0 => i - 1 \in 0 .. k /\ g[i - 1] = f[i - 1]
      OBVIOUS
    <3>2. Entry(g, i) = Entry(f, i)
      <4> HIDE DEF g
      <4>. QED BY <3>1
    <3>3. g[i] = Entry(f, i)
      <4> HIDE DEF Entry
      <4>. QED BY <2>2
    <3>. QED
      BY <3>2, <3>3
  <2>4. DOMAIN g = 0 .. k + 1 /\ g = [i \in DOMAIN g |-> g[i]]
    OBVIOUS
  <2> HIDE DEF g
  <2>5. g = [i \in 0 .. k + 1 |-> Entry(g, i)]
    BY <2>3, <2>4
  <2>6. SplitTable(text, g, k + 1)
    BY <2>5 DEF SplitTable
  <2>. QED
    BY <2>6
<1> HIDE DEF S
<1>3. n \in S
  BY <1>1, <1>2, SetInduction
<1>. QED
  BY <1>3 DEF S

LEMMA SplitIsTable ==
    ASSUME NEW text, Len(text) \in Nat
    PROVE  \E f : SplitTable(text, f, Len(text)) /\ Split(text) = f[Len(text)].args
<1> DEFINE split == CHOOSE f : f = [i \in 0 .. Len(text) |->
                        IF i = 0 THEN [args |-> << <<>> >>, space |-> FALSE]
                                 ELSE Token(f[i - 1], text[i])]
<1>1. split = [i \in 0 .. Len(text) |->
                  IF i = 0 THEN [args |-> << <<>> >>, space |-> FALSE]
                           ELSE Token(split[i - 1], text[i])]
  BY SplitTableExists DEF SplitTable, NoToken
<1>2. Split(text) = split[Len(text)].args
  BY DEF Split
<1> HIDE DEF split
<1>. QED
  BY <1>1, <1>2 DEF SplitTable, NoToken

(* What a token does to the arguments, and to the first of them.           *)
Texts == Seq(Text) \ {<<>>}

OneArgument(done, text) == done.args = <<text>> /\ ~done.space

FirstArgument(done, text) == Len(done.args) > 1 /\ done.args[1] = text

LEMMA ReplacedLast ==
    ASSUME NEW a \in Texts, NEW x \in Text
    PROVE  /\ Append(Front(a), x) \in Texts
           /\ Len(a) = 1 => Append(Front(a), x) = <<x>>
           /\ Len(a) > 1 => Len(Append(Front(a), x)) > 1 /\ Append(Front(a), x)[1] = a[1]
           /\ Append(a, x) \in Texts /\ Len(Append(a, x)) > 1 /\ Append(a, x)[1] = a[1]
<1>1. a \in Seq(Text) /\ Len(a) \in Nat \ {0}
  BY EmptySeq DEF Texts
<1>2. PICK n \in Nat : n = Len(a) - 1
  BY <1>1
<1>3. PICK b \in Seq(Text) : /\ b = Front(a) /\ Len(b) = n
                             /\ \A i \in 1 .. n : b[i] = a[i]
  <2>1. \A i \in 1 .. n : a[i] \in Text
    BY <1>1, <1>2
  <2>2. /\ SubSeq(a, 1, n) \in Seq(Text) /\ Len(SubSeq(a, 1, n)) = n
        /\ \A i \in 1 .. n : SubSeq(a, 1, n)[i] = a[i]
    BY <1>1, <1>2, <2>1, SubSeqProperties
  <2>. QED
    BY <1>2, <2>2 DEF Front
<1>4. /\ Append(b, x) \in Seq(Text) /\ Append(b, x) # <<>> /\ Len(Append(b, x)) = n + 1
      /\ \A i \in 1 .. n : Append(b, x)[i] = b[i]
  BY <1>3, AppendProperties
<1>5. n = 0 => Append(b, x) = <<x>>
  <2>1. n = 0 => b = <<>>
    BY <1>3, EmptySeq
  <2>2. Append(<<>>, x) = <<x>>
    OBVIOUS
  <2>. QED
    BY <2>1, <2>2
<1>6. /\ Append(a, x) \in Seq(Text) /\ Append(a, x) # <<>> /\ Len(Append(a, x)) = n + 2
      /\ Append(a, x)[1] = a[1]
  BY <1>1, <1>2, AppendProperties
<1>. QED
  BY <1>1, <1>2, <1>3, <1>4, <1>5, <1>6 DEF Texts

LEMMA TokenStep ==
    ASSUME NEW done, done.args \in Texts, NEW token \in Tokens
    PROVE  /\ Token(done, token).args \in Texts
           /\ \A text \in Text : OneArgument(done, text) /\ token # " " =>
                                     OneArgument(Token(done, token), Append(text, token))
           /\ \A text \in Text : OneArgument(done, text) /\ token = " " =>
                                     FirstArgument(Token(done, token), text)
           /\ \A text : FirstArgument(done, text) => FirstArgument(Token(done, token), text)
<1>1. PICK a \in Texts : a = done.args
  OBVIOUS
<1>2. a \in Seq(Text) /\ Len(a) \in Nat \ {0} /\ <<>> \in Text
  BY EmptySeq DEF Texts, Text
<1>3. PICK x \in Text : x = Last(a)
  BY <1>2, ElementOfSeq DEF Last
<1>4. Append(x, token) \in Text
  BY AppendProperties DEF Text
<1>5. CASE token # " "
  <2>1. /\ Token(done, token).args = Append(Front(a), Append(x, token))
        /\ ~Token(done, token).space
    BY <1>1, <1>3, <1>5 DEF Token
  <2>2. \A text \in Text : OneArgument(done, text) =>
            OneArgument(Token(done, token), Append(text, token))
    <3> SUFFICES ASSUME NEW text \in Text, OneArgument(done, text)
                 PROVE  OneArgument(Token(done, token), Append(text, token))
      OBVIOUS
    <3>1. a = <<text>>
      BY <1>1 DEF OneArgument
    <3>2. Len(a) = 1 /\ Last(a) = text
      BY <3>1 DEF Last
    <3>. QED
      BY <1>3, <1>4, <2>1, <3>2, ReplacedLast DEF OneArgument
  <2>3. PICK b : b = Append(Front(a), Append(x, token))
    OBVIOUS
  <2>4. b \in Texts /\ (Len(a) > 1 => Len(b) > 1 /\ b[1] = a[1])
    BY <1>4, <2>3, ReplacedLast
  <2>5. Token(done, token).args = b
    BY <2>1, <2>3
  <2>6. ASSUME NEW text, FirstArgument(done, text) PROVE FirstArgument(Token(done, token), text)
    BY <1>1, <2>4, <2>5, <2>6 DEF FirstArgument
  <2>7. Token(done, token).args \in Texts
    BY <2>4, <2>5
  <2>. QED
    BY <1>5, <2>2, <2>6, <2>7
<1>6. CASE token = " " /\ done.space
  <2>1. Token(done, token) = done
    BY <1>6 DEF Token
  <2>. QED
    <3>1. token = " " /\ \A text \in Text : ~OneArgument(done, text)
      BY <1>6 DEF OneArgument
    <3>. QED
      BY <1>1, <2>1, <3>1
<1>7. CASE token = " " /\ ~done.space
  <2>1. Token(done, token).args = Append(a, <<>>)
    BY <1>1, <1>7 DEF Token
  <2>2. /\ Append(a, <<>>) \in Texts /\ Len(Append(a, <<>>)) > 1
        /\ Append(a, <<>>)[1] = a[1]
    BY <1>2, ReplacedLast
  <2>3. \A text \in Text : OneArgument(done, text) => a[1] = text
    BY <1>1 DEF OneArgument
  <2>4. ASSUME NEW text, a[1] = text PROVE FirstArgument(Token(done, token), text)
    BY <2>1, <2>2, <2>4 DEF FirstArgument
  <2>5. \A text : FirstArgument(done, text) => a[1] = text
    BY <1>1 DEF FirstArgument
  <2>. QED
    <3>1. token = " "
      BY <1>7
    <3>2. Token(done, token).args \in Texts
      BY <2>1, <2>2
    <3>3. \A text \in Text : OneArgument(done, text) => FirstArgument(Token(done, token), text)
      BY <2>3, <2>4
    <3>4. \A text : FirstArgument(done, text) => FirstArgument(Token(done, token), text)
      BY <2>4, <2>5
    <3>. QED
      BY <3>1, <3>2, <3>3, <3>4
<1>. QED
  BY <1>5, <1>6, <1>7
-----------------------------------------------------------------------------
LEMMA TableEntries ==
    ASSUME NEW text, NEW m \in Nat, NEW f, SplitTable(text, f, m)
    PROVE  /\ f[0] = NoToken
           /\ \A i \in Nat : i + 1 <= m => f[i + 1] = Token(f[i], text[i + 1])
<1>1. \A i \in 0 .. m : f[i] = IF i = 0 THEN NoToken ELSE Token(f[i - 1], text[i])
  BY DEF SplitTable
<1>2. ASSUME NEW i \in Nat, i + 1 <= m PROVE f[i + 1] = Token(f[i], text[i + 1])
  <2>1. i + 1 \in 0 .. m /\ i + 1 # 0 /\ (i + 1) - 1 = i
    BY <1>2
  <2>. QED
    BY <1>1, <2>1
<1>3. 0 \in 0 .. m
  OBVIOUS
<1>. QED
  BY <1>1, <1>2, <1>3

LEMMA NoTokenType == NoToken.args \in Texts /\ OneArgument(NoToken, <<>>) /\ <<>> \in Text
<1>1. <<>> \in Text
  BY EmptySeq DEF Text
<1>2. << <<>> >> \in Seq(Text) /\ << <<>> >> # <<>>
  BY <1>1
<1>. QED
  BY <1>1, <1>2 DEF NoToken, Texts, OneArgument

LEMMA TableType ==
    ASSUME NEW text \in Text, NEW m \in Nat, m = Len(text), NEW f, SplitTable(text, f, m)
    PROVE  \A i \in 0 .. m : f[i].args \in Texts
<1> DEFINE S == {k \in Nat : k <= m => f[k].args \in Texts}
<1>1. 0 \in S
  BY TableEntries, NoTokenType
<1>2. ASSUME NEW k \in Nat, k \in S PROVE k + 1 \in S
  <2>1. ASSUME k + 1 <= m PROVE f[k + 1].args \in Texts
    <3>1. f[k].args \in Texts
      BY <1>2, <2>1
    <3>2. text[k + 1] \in Tokens
      BY <2>1 DEF Text
    <3>3. f[k + 1] = Token(f[k], text[k + 1])
      BY <2>1, TableEntries
    <3>. QED
      BY <3>1, <3>2, <3>3, TokenStep
  <2>. QED
    BY <2>1
<1> HIDE DEF S
<1>3. \A k \in Nat : k \in S
  BY <1>1, <1>2, SetInduction
<1>. QED
  BY <1>3 DEF S

(* The arguments a text is split into are texts, and there is one.         *)
LEMMA SplitType ==
    ASSUME NEW text \in Text
    PROVE  Split(text) \in Texts
<1>1. PICK m \in Nat : m = Len(text)
  BY LenProperties DEF Text
<1>2. PICK f : SplitTable(text, f, m) /\ Split(text) = f[m].args
  BY <1>1, SplitIsTable
<1>3. m \in 0 .. m
  OBVIOUS
<1>. QED
  BY <1>1, <1>2, <1>3, TableType

(* The first argument is what is in front of the first space.              *)
Space == " "

FirstSpace(text, n) ==
    /\ n <= Len(text)
    /\ \A i \in 1 .. n : text[i] # Space
    /\ n < Len(text) => text[n + 1] = Space

FirstSoFar(done, text, n, k) ==
    /\ k <= n => OneArgument(done, SubSeq(text, 1, k))
    /\ k > n => FirstArgument(done, SubSeq(text, 1, n))

LEMMA FirstStep ==
    ASSUME NEW text \in Text, NEW n \in Nat, FirstSpace(text, n),
           NEW k \in Nat, k + 1 <= Len(text),
           NEW done, done.args \in Texts, FirstSoFar(done, text, n, k)
    PROVE  FirstSoFar(Token(done, text[k + 1]), text, n, k + 1)
<1>1. PICK m \in Nat : m = Len(text) /\ k + 1 <= m /\ n <= m /\ text \in Seq(Tokens)
  BY LenProperties DEF Text, FirstSpace
<1>2. PICK x \in Tokens : x = text[k + 1]
  BY <1>1
<1>3. CASE k + 1 <= n
  <2>1. OneArgument(done, SubSeq(text, 1, k))
    BY <1>3 DEF FirstSoFar
  <2>2. x # Space
    BY <1>2, <1>3 DEF FirstSpace
  <2>3. SubSeq(text, 1, k + 1) = Append(SubSeq(text, 1, k), x)
    BY <1>1, <1>2
  <2>4. SubSeq(text, 1, k) \in Text
    BY <1>1, PrefixType DEF Text
  <2>5. OneArgument(Token(done, x), Append(SubSeq(text, 1, k), x))
    BY <2>1, <2>2, <2>4, TokenStep, Zenon DEF Space
  <2>. QED
    <3>1. OneArgument(Token(done, x), SubSeq(text, 1, k + 1))
      BY <2>3, <2>5
    <3>. QED
      BY <1>2, <1>3, <3>1 DEF FirstSoFar
<1>4. CASE k = n
  <2>1. OneArgument(done, SubSeq(text, 1, n))
    BY <1>4 DEF FirstSoFar
  <2>2. x = Space
    BY <1>1, <1>2, <1>4 DEF FirstSpace
  <2>3. SubSeq(text, 1, n) \in Text
    BY <1>1, PrefixType DEF Text
  <2>4. FirstArgument(Token(done, x), SubSeq(text, 1, n))
    BY <2>1, <2>2, <2>3, TokenStep, Zenon DEF Space
  <2>. QED
    BY <1>2, <1>4, <2>4 DEF FirstSoFar
<1>5. CASE k > n
  <2>1. FirstArgument(done, SubSeq(text, 1, n))
    BY <1>5 DEF FirstSoFar
  <2>2. FirstArgument(Token(done, x), SubSeq(text, 1, n))
    BY <2>1, TokenStep
  <2>. QED
    BY <1>2, <1>5, <2>2 DEF FirstSoFar
<1>. QED
  BY <1>3, <1>4, <1>5

LEMMA SplitFirst ==
    ASSUME NEW text \in Text, NEW n \in Nat, FirstSpace(text, n)
    PROVE  Head(Split(text)) = SubSeq(text, 1, n)
<1>1. PICK m \in Nat : m = Len(text) /\ text \in Seq(Tokens)
  BY LenProperties DEF Text
<1>2. PICK f : SplitTable(text, f, m) /\ Split(text) = f[m].args
  BY <1>1, SplitIsTable
<1> DEFINE S == {k \in Nat : k <= m => FirstSoFar(f[k], text, n, k)}
<1>3. 0 \in S
  <2>1. SubSeq(text, 1, 0) = <<>> /\ f[0] = NoToken
    BY <1>1, <1>2, SubSeqEmpty, TableEntries
  <2>2. FirstSoFar(NoToken, text, n, 0)
    <3>1. OneArgument(NoToken, SubSeq(text, 1, 0))
      BY <2>1, NoTokenType, Zenon
    <3>2. ~(0 > n)
      OBVIOUS
    <3>. QED
      BY <3>1, <3>2, Zenon DEF FirstSoFar
  <2>. QED
    BY <2>1, <2>2
<1>4. ASSUME NEW k \in Nat, k \in S PROVE k + 1 \in S
  <2>1. ASSUME k + 1 <= m PROVE FirstSoFar(f[k + 1], text, n, k + 1)
    <3>1. f[k].args \in Texts
      BY <1>1, <1>2, <2>1, TableType
    <3>2. f[k + 1] = Token(f[k], text[k + 1])
      BY <1>2, <2>1, TableEntries
    <3>3. FirstSoFar(f[k], text, n, k)
      BY <1>4, <2>1
    <3>. QED
      BY <1>1, <2>1, <3>1, <3>2, <3>3, FirstStep
  <2>. QED
    BY <2>1
<1> HIDE DEF S
<1>5. FirstSoFar(f[m], text, n, m)
  <2>1. m \in S
    BY <1>3, <1>4, SetInduction
  <2>. QED
    BY <2>1 DEF S
<1>6. n <= m
  BY <1>1 DEF FirstSpace
<1>7. CASE n = m
  <2>1. f[m].args = << SubSeq(text, 1, n) >>
    BY <1>5, <1>7 DEF FirstSoFar, OneArgument
  <2>. QED
    BY <1>2, <2>1
<1>8. CASE n < m
  <2>1. f[m].args[1] = SubSeq(text, 1, n)
    BY <1>5, <1>8 DEF FirstSoFar, FirstArgument
  <2>. QED
    BY <1>2, <2>1
<1>. QED
  BY <1>6, <1>7, <1>8

(* The full command starts with the first argument, and a space ends it.   *)
LEMMA FullCommand ==
    ASSUME NEW args \in Texts
    PROVE  \E r \in Text : /\ GetFullCommand(args) = Head(args) \o r
                           /\ r = <<>> \/ r[1] = Space
<1>1. PICK n \in Nat : n = Len(args) - 1 /\ args \in Seq(Text) /\ n + 1 = Len(args)
  BY EmptySeq DEF Texts
<1>2. PICK space \in Tokens : space = Space
  BY TokensAssumption, Zenon DEF Space
<1>3. PICK s \in Seq(Text) : /\ s = [i \in DOMAIN args |-> Append(args[i], Space)]
                             /\ Len(s) = n + 1
                             /\ \A i \in 1 .. n + 1 : s[i] = Append(args[i], space)
  <2> DEFINE s == [i \in 1 .. n + 1 |-> Append(args[i], Space)]
  <2>1. DOMAIN args = 1 .. n + 1
    BY <1>1
  <2>2. ASSUME NEW i \in 1 .. n + 1 PROVE Append(args[i], Space) \in Text
    <3>1. PICK x \in Seq(Tokens) : x = args[i]
      BY <1>1 DEF Text
    <3>. QED
      BY <1>2, <3>1, AppendProperties DEF Text
  <2>3. s \in Seq(Text)
    BY <1>1, <2>2, IsASeq
  <2>4. Len(s) = n + 1
    <3>1. DOMAIN s = 1 .. n + 1
      OBVIOUS
    <3> HIDE DEF s
    <3>. QED
      BY <1>1, <2>3, <3>1, LenProperties
  <2>. QED
    BY <1>1, <1>2, <2>1, <2>3, <2>4
<1>4. PICK h \in Text : h = Head(args)
  BY <1>1
<1>5. s = <<Append(h, space)>> \o Tail(s) /\ Tail(s) \in Seq(Text)
  <2>1. s # <<>> /\ s[1] = Append(args[1], space) /\ args[1] = h
    <3>1. 1 \in 1 .. n + 1
      OBVIOUS
    <3>2. s[1] = Append(args[1], space)
      BY <1>3, <3>1
    <3>3. s # <<>>
      <4>1. Len(<<>>) = 0 /\ Len(s) # 0
        BY <1>3
      <4>. QED
        BY <4>1
    <3>. QED
      BY <1>4, <3>2, <3>3
  <2>2. Head(s) = Append(h, space)
    BY <2>1
  <2>3. s = <<Head(s)>> \o Tail(s) /\ Tail(s) \in Seq(Text)
    BY <2>1
  <2>. QED
    BY <2>2, <2>3
<1>6. PICK t \in Seq(Text) : t = Tail(s)
  BY <1>5
<1>7. FlattenSeq(s) = Append(h, space) \o FlattenSeq(t) /\ FlattenSeq(t) \in Text
  <2>1. PICK x \in Seq(Tokens) : x = Append(h, space)
    BY AppendProperties DEF Text
  <2>2. <<x>> \in Seq(Seq(Tokens)) /\ t \in Seq(Seq(Tokens))
    BY DEF Text
  <2>3. FlattenSeq(<<x>> \o t) = FlattenSeq(<<x>>) \o FlattenSeq(t)
    BY <2>2, FlattenConcat
  <2>4. FlattenSeq(<<x>>) = x /\ FlattenSeq(t) \in Seq(Tokens)
    BY <2>2, FlattenOne, FlattenType
  <2>. QED
    BY <1>5, <1>6, <2>1, <2>3, <2>4 DEF Text
<1>8. PICK u \in Seq(Tokens) : u = FlattenSeq(t)
  BY <1>7 DEF Text
<1>9. PICK o \in Seq(Tokens) : o = <<space>> /\ Len(o) = 1 /\ o[1] = space
  <2>1. <<space>> \in Seq(Tokens) /\ Len(<<space>>) = 1 /\ <<space>>[1] = space
    OBVIOUS
  <2>. QED
    BY <2>1, Zenon
<1>10. FlattenSeq(s) = h \o (o \o u)
  <2>1. Append(h, space) = h \o o /\ h \in Seq(Tokens)
    BY <1>9 DEF Text
  <2>2. (h \o o) \o u = h \o (o \o u)
    BY <2>1, ConcatAssociative
  <2>. QED
    BY <1>7, <1>8, <2>1, <2>2
<1>11. /\ o \o u \in Seq(Tokens) /\ Len(o \o u) \in Nat \ {0} /\ (o \o u)[1] = space
  <2>1. /\ o \o u \in Seq(Tokens) /\ Len(o \o u) = Len(o) + Len(u)
        /\ \A i \in 1 .. Len(o) : (o \o u)[i] = o[i]
    BY ConcatIndex
  <2>2. Len(u) \in Nat
    BY LenProperties
  <2>. QED
    BY <1>9, <2>1, <2>2
<1>12. PICK v \in Seq(Tokens), k \in Nat \ {0} : v = o \o u /\ Len(v) = k /\ v[1] = space
  BY <1>11, Zenon
<1> DEFINE r == SubSeq(v, 1, k - 1)
<1>13. r \in Seq(Tokens) /\ (r = <<>> \/ r[1] = space)
  <2>1. /\ r \in Seq(Tokens) /\ Len(r) = k - 1
        /\ \A i \in 1 .. k - 1 : r[i] = v[i]
    BY <1>12, SubSeqProperties
  <2>2. k = 1 => r = <<>>
    BY <2>1, EmptySeq
  <2>3. k # 1 => r[1] = space
    BY <1>12, <2>1
  <2>. QED
    BY <2>1, <2>2, <2>3
<1>14. Front(h \o v) = h \o r
  <2>1. h \in Seq(Tokens) /\ v \in Seq(Tokens) /\ Len(v) = k
    BY <1>12 DEF Text
  <2>2. Len(h \o v) = Len(h) + k /\ Len(h) \in Nat
    BY <2>1, ConcatProperties, LenProperties
  <2>3. SubSeq(h \o v, 1, (Len(h) + k) - 1) = h \o SubSeq(v, 1, k - 1)
    BY <2>1, <2>2
  <2>. QED
    BY <2>2, <2>3 DEF Front
<1>15. GetFullCommand(args) = h \o r
  <2>1. GetFullCommand(args) = Front(FlattenSeq(s))
    BY <1>3, Zenon DEF GetFullCommand, Space
  <2>. QED
    BY <1>10, <1>12, <1>14, <2>1
<1>. QED
  BY <1>2, <1>4, <1>13, <1>15 DEF Text
-----------------------------------------------------------------------------
(***************************************************************************)
(* The command of an event that is being handled is its first argument.    *)
(***************************************************************************)
CommandInv ==
    /\ m_args \in Seq(Text) /\ m_command \in Text
    /\ pc \in {"lua", "native"} /\ kind = "command" => m_args # <<>> /\ m_command = Head(m_args)

LEMMA InitCommandInv == EventsInit => CommandInv
<1>1. <<>> \in Seq(Text)
  BY EmptySeq
<1>. QED
  BY <1>1, EmptyText DEF EventsInit, Init, CommandInv

LEMMA FirstOfTexts ==
    ASSUME NEW args \in Texts
    PROVE  args \in Seq(Text) /\ args # <<>> /\ Head(args) \in Text
BY DEF Texts

LEMMA SplitCommandInv ==
    ASSUME NEW text \in Text, m_args' = Split(text), m_command' = Head(Split(text))
    PROVE  CommandInv'
<1>1. PICK args \in Texts : args = Split(text)
  BY SplitType
<1>2. m_args' = args /\ m_command' = Head(args)
  BY <1>1
<1>. QED
  BY <1>2, FirstOfTexts DEF CommandInv

LEMMA SetCommandInv ==
    ASSUME CommandInv, NEW command \in Commands, SetCommand(command)
    PROVE  CommandInv'
<1>1. /\ pc = "lua" /\ kind = "command" /\ pc' = pc /\ kind' = kind
      /\ m_command' = command /\ m_args' = [m_args EXCEPT ![1] = command]
  BY DEF SetCommand, Sets, eventVars
<1>2. command \in Text
  BY TextsAssumption DEF Text
<1>3. PICK args \in Texts : args = m_args
  BY <1>1 DEF CommandInv, Texts
<1>4. /\ [args EXCEPT ![1] = command] \in Seq(Text) /\ Len([args EXCEPT ![1] = command]) # 0
      /\ [args EXCEPT ![1] = command][1] = command
  <2>1. args \in Seq(Text) /\ Len(args) \in Nat \ {0}
    BY FirstOfTexts, EmptySeq
  <2>. QED
    BY <1>2, <2>1
<1>5. PICK set \in Seq(Text) : /\ set = [args EXCEPT ![1] = command]
                               /\ Len(set) # 0 /\ set[1] = command
  BY <1>4
<1>6. set # <<>> /\ Head(set) = command
  BY <1>5
<1>. QED
  BY <1>1, <1>2, <1>3, <1>5, <1>6 DEF CommandInv

LEMMA NextCommandInv ==
    CommandInv /\ [EventsNext]_<<vars, textVars>> => CommandInv'
<1> SUFFICES ASSUME CommandInv, [EventsNext]_<<vars, textVars>> PROVE CommandInv'
  OBVIOUS
<1>1. ASSUME pc' \in {"lua", "native"} /\ kind' = "command" =>
                 pc \in {"lua", "native"} /\ kind = "command",
             UNCHANGED commandVars
      PROVE  CommandInv'
  BY <1>1 DEF CommandInv, commandVars
<1>2. CASE PluginStep /\ UNCHANGED textVars
  <2>1. pc' \in {"lua", "native"} => pc \in {"lua", "native"} /\ kind' = kind
    BY <1>2
    DEF PluginStep, RegisterEventListener, RegisterPlugin, Loaded, ScriptThrows, CallListener,
        SetCanceled, ReturnCanceled, ListenerThrows, LuaDone, GetCommandExecutor, EventEnds, eventVars
  <2>. QED
    BY <1>1, <1>2, <2>1 DEF textVars
<1>3. ASSUME NEW user, NEW message, EmitUserChatEvent(user, message) PROVE CommandInv'
  <2>1. m_args' = <<>> /\ m_command' = <<>> /\ kind' = "message"
    BY <1>3 DEF EmitUserChatEvent, Emit
  <2>2. <<>> \in Seq(Text)
    BY EmptySeq
  <2>. QED
    BY <2>1, <2>2, EmptyText DEF CommandInv
<1>4. ASSUME NEW command \in Commands, EmitCommandEvent(<<"/">> \o command) PROVE CommandInv'
  <2>1. PICK slash \in Tokens : slash = "/"
    BY TokensAssumption, Zenon
  <2>2. <<slash>> \o command \in Text
    <3>1. command \in Seq(Tokens) /\ <<slash>> \in Seq(Tokens)
      BY TextsAssumption
    <3>. QED
      BY <3>1, ConcatProperties DEF Text
  <2>3. PICK text \in Text : text = <<"/">> \o command
    BY <2>1, <2>2, Zenon
  <2>4. m_args' = Split(text) /\ m_command' = Head(Split(text))
    BY <1>4, <2>3 DEF EmitCommandEvent
  <2>. QED
    BY <2>4, SplitCommandInv
<1>5. CASE LogLine
  BY <1>1, <1>5 DEF LogLine, LogMessage, EventEnds
<1>6. ASSUME NEW message, SetMessage(message) PROVE CommandInv'
  BY <1>1, <1>6 DEF SetMessage, Sets, eventVars
<1>7. ASSUME NEW format, SetFormat(format) PROVE CommandInv'
  BY <1>1, <1>7 DEF SetFormat, Sets, eventVars
<1>8. ASSUME NEW message \in Commands, SetCommandMessage(message) PROVE CommandInv'
  <2>1. message \in Text
    BY TextsAssumption DEF Text
  <2>2. m_args' = Split(message) /\ m_command' = Head(Split(message))
    BY <1>8 DEF SetCommandMessage
  <2>. QED
    BY <2>1, <2>2, SplitCommandInv
<1>9. ASSUME NEW command \in Commands, SetCommand(command) PROVE CommandInv'
  BY <1>9, SetCommandInv
<1>10. ASSUME NEW args \in Arguments, SetCommandArgs(args) PROVE CommandInv'
  <2>1. args \in Seq(Text) /\ args # <<>>
    BY <1>10, TextsAssumption DEF Text, SetCommandArgs
  <2>2. args \in Texts
    BY <2>1 DEF Texts
  <2>3. m_args' = args /\ m_command' = Head(args)
    BY <1>10 DEF SetCommandArgs
  <2>. QED
    BY <2>2, <2>3, FirstOfTexts DEF CommandInv
<1>11. CASE SetNoCommandArgs
  <2>1. m_args' = <<>> /\ m_command' = m_command /\ pc' = "terminated"
    BY <1>11 DEF SetNoCommandArgs
  <2>2. <<>> \in Seq(Text)
    BY EmptySeq
  <2>. QED
    BY <2>1, <2>2 DEF CommandInv
<1>12. CASE UNCHANGED <<vars, textVars>>
  BY <1>1, <1>12 DEF vars, eventVars, textVars
<1>. QED
  BY <1>2, <1>3, <1>4, <1>5, <1>6, <1>7, <1>8, <1>9, <1>10, <1>11, <1>12 DEF EventsNext

(***************************************************************************)
(* An event that is being handled has arguments, and its command is the    *)
(* first of them, whoever set them (events.cpp:94-151).                    *)
(***************************************************************************)
THEOREM CommandInvariant == EventsSpec => []CommandInv
  BY InitCommandInv, NextCommandInv, PTL DEF EventsSpec

LEMMA CommandReadBack ==
    ASSUME NEW args \in Texts, Space \notin ToSet(Head(args))
    PROVE  Head(Split(GetFullCommand(args))) = Head(args)
<1>1. PICK h \in Text, n \in Nat : h = Head(args) /\ n = Len(h) /\ Space \notin ToSet(h)
  <2>1. Head(args) \in Text
    BY FirstOfTexts
  <2>2. PICK h \in Text : h = Head(args)
    BY <2>1
  <2>3. Len(h) \in Nat
    BY DEF Text
  <2>4. Space \notin ToSet(h)
    BY <2>2
  <2>. QED
    BY <2>2, <2>3, <2>4
<1>2. PICK r \in Text : GetFullCommand(args) = h \o r /\ (r = <<>> \/ r[1] = Space)
  BY <1>1, FullCommand
<1>3. h \in Seq(Tokens) /\ r \in Seq(Tokens)
  BY DEF Text
<1>4. /\ h \o r \in Text
      /\ Len(h \o r) = n + Len(r) /\ Len(r) \in Nat
      /\ \A i \in 1 .. n : (h \o r)[i] = h[i]
      /\ r # <<>> => (h \o r)[n + 1] = r[1]
  <2>1. /\ h \o r \in Seq(Tokens)
        /\ Len(h \o r) = Len(h) + Len(r)
        /\ \A i \in 1 .. Len(h) : (h \o r)[i] = h[i]
        /\ \A i \in 1 .. Len(r) : (h \o r)[Len(h) + i] = r[i]
    BY <1>3, ConcatIndex
  <2>2. Len(r) \in Nat /\ (r # <<>> => Len(r) # 0)
    BY <1>3, LenProperties, EmptySeq
  <2>3. r # <<>> => 1 \in 1 .. Len(r)
    BY <2>2
  <2>. QED
    BY <1>1, <2>1, <2>2, <2>3 DEF Text
<1>5. FirstSpace(h \o r, n)
  <2>1. \A i \in 1 .. n : h[i] # Space
    BY <1>1, <1>3 DEF ToSet
  <2>2. \A i \in 1 .. n : (h \o r)[i] # Space
    BY <1>4, <2>1
  <2>3. n < Len(h \o r) => (h \o r)[n + 1] = Space
    <3>1. r = <<>> => Len(r) = 0
      OBVIOUS
    <3>. QED
      BY <1>2, <1>4, <3>1
  <2>. QED
    BY <1>4, <2>2, <2>3 DEF FirstSpace
<1>6. Head(Split(h \o r)) = SubSeq(h \o r, 1, n)
  BY <1>4, <1>5, SplitFirst
<1>7. SubSeq(h \o r, 1, n) = h
  BY <1>1, <1>3
<1>. QED
  BY <1>1, <1>2, <1>6, <1>7

(***************************************************************************)
(* For any commands and arguments, the command that is looked up is the    *)
(* first of the arguments it is given, and splitting the full command      *)
(* gives it back when no listener has put a space into it                  *)
(* (events.cpp:94-113, 140-151).                                           *)
(***************************************************************************)
THEOREM CommandAlwaysFirst == EventsSpec => []CommandIsFirstArgument
<1>1. CommandInv => CommandIsFirstArgument
  <2> SUFFICES ASSUME CommandInv, pc \in {"lua", "native"}, kind = "command"
               PROVE  /\ m_command = Head(m_args)
                      /\ " " \notin ToSet(m_command) =>
                             Head(Split(GetFullCommand(m_args))) = m_command
    BY DEF CommandIsFirstArgument
  <2>1. m_args \in Texts /\ m_command = Head(m_args)
    BY DEF CommandInv, Texts
  <2>2. " " \notin ToSet(m_command) => Head(Split(GetFullCommand(m_args))) = Head(m_args)
    BY <2>1, CommandReadBack, Zenon DEF Space
  <2>. QED
    BY <2>1, <2>2, Zenon
<1>. QED
  BY <1>1, CommandInvariant, PTL
=============================================================================
