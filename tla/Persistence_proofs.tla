------------------------- MODULE Persistence_proofs -------------------------
(***************************************************************************)
(* What one server process may rely on of those before it: files that are  *)
(* whole unless a process was ended while it wrote them, settings that     *)
(* nobody but the operator changes, and rows that are what was stored      *)
(* and what is read back.                                                  *)
(***************************************************************************)
EXTENDS Persistence, Base_proofs

settings == "settings.yaml"
-----------------------------------------------------------------------------
(* Files.                                                                  *)

LEMMA OneText ==
    ASSUME NEW S, NEW s \in S
    PROVE  <<s>> \in Seq(S) /\ <<s>> # <<>>
  OBVIOUS

LEMMA OtherText ==
    ASSUME NEW S, NEW s \in S, NEW r \in S, s # r
    PROVE  <<s>> # <<r>>
<1>1. <<s>>[1] = s /\ <<r>>[1] = r
  OBVIOUS
<1> QED
  BY <1>1

LEMMA SavedTexts ==
    /\ <<"saved">> \in Seq(Texts) /\ <<"appended">> \in Seq(Texts)
<1>1. "saved" \in Texts /\ "appended" \in Texts
  BY DEF Texts
<1> QED
  BY <1>1, OneText, Zenon

LEMMA TextsDiffer ==
    /\ <<>> \in Seq(Texts) /\ Absent \in Seq(Texts)
    /\ Default \in Seq(Texts) /\ Edited \in Seq(Texts)
    /\ Absent # <<>> /\ Default # <<>> /\ Edited # <<>> /\ Absent # Default
    /\ Absent # <<"saved">>
    /\ \A content \in Seq(Texts) : content \o <<"appended">> # Absent
<1>1. <<>> \in Seq(Texts)
  OBVIOUS
<1>2. "absent" \in Texts /\ "default" \in Texts /\ "edited" \in Texts
  BY DEF Texts
<1>3. "absent" # "default"
  OBVIOUS
<1>4. <<"absent">> # <<"default">>
  BY <1>2, <1>3, OtherText, Zenon
<1>5. /\ <<"absent">> \in Seq(Texts) /\ <<"absent">> # <<>>
      /\ <<"default">> \in Seq(Texts) /\ <<"default">> # <<>>
      /\ <<"edited">> \in Seq(Texts) /\ <<"edited">> # <<>>
  BY <1>2, OneText, Zenon
<1>6. "saved" \in Texts /\ "absent" # "saved"
  BY DEF Texts
<1>7. <<"absent">> # <<"saved">>
  BY <1>2, <1>6, OtherText, Zenon
<1>8. ASSUME NEW content \in Seq(Texts) PROVE content \o <<"appended">> # <<"absent">>
  <2> DEFINE t == content \o <<"appended">>
  <2>1. Len(t) = Len(content) + 1 /\ t[Len(content) + 1] = "appended"
    OBVIOUS
  <2>2. Len(<<"absent">>) = 1 /\ <<"absent">>[1] = "absent"
    OBVIOUS
  <2>3. "appended" # "absent" /\ Len(content) \in Nat
    OBVIOUS
  <2> HIDE DEF t
  <2>4. t # <<"absent">>
    BY <2>1, <2>2, <2>3
  <2> QED
    BY <2>4 DEF t
<1> QED
  BY <1>1, <1>4, <1>5, <1>7, <1>8 DEF Absent, Default, Edited

(* Where the texts of the settings come from.                              *)
SettingsInv ==
    /\ disk[settings] \in {Absent, <<>>, Default, Edited}
    /\ main = "writeSettings" => m_config = Default /\ disk[settings] = <<>>
    /\ disk[settings] = <<>> => settings \in torn \/ main = "writeSettings"
    /\ main \notin {"down", "construct"} /\ m_config = <<>> => settings \in torn

(* A plugin's file holds what was written, but for a save that has begun,  *)
(* or the first text appended.                                             *)
DataInv ==
    LET new == written["data"] = Absent
    IN  /\ main # "writeData" /\ "data" \notin torn /\ ~(main = "appendData" /\ new) =>
               disk["data"] = written["data"]
        /\ new => disk["data"] \in {Absent, <<>>}
        /\ main = "appendData" => disk["data"] # Absent

FilesInv == StartupTypeOK /\ SettingsInv /\ DataInv

LEMMA InitFiles == StartupInit => FilesInv
<1> SUFFICES ASSUME StartupInit PROVE FilesInv
  OBVIOUS
<1> USE DEF StartupInit
<1>1. disk = [f \in Files |-> Absent] /\ written = [f \in Files |-> Absent]
  OBVIOUS
<1>2. disk \in [Files -> Seq(Texts)] /\ written \in [Files -> Seq(Texts)]
  BY <1>1, TextsDiffer
<1>3. 0 \in 0 .. MaxProcesses /\ 0 \in 0 .. MaxWrites
  BY BoundsAssumption
<1>4. StartupTypeOK
  BY <1>2, <1>3 DEF StartupTypeOK
<1>5. SettingsInv /\ DataInv
  BY <1>1, TextsDiffer DEF SettingsInv, DataInv, Files, settings
<1> QED
  BY <1>4, <1>5 DEF FilesInv

(* Every step of a process that starts up, and its end.                    *)

LEMMA Components ==
    ASSUME FilesInv
    PROVE  /\ disk \in [Files -> Seq(Texts)] /\ written \in [Files -> Seq(Texts)]
           /\ settings \in Files /\ "data" \in Files /\ settings # "data"
           /\ torn \subseteq Files
  BY DEF FilesInv, StartupTypeOK, Files, settings

LEMMA FilesOpened ==
    ASSUME FilesInv, NEW f \in Files, OpenTruncated(f)
    PROVE  /\ disk' \in [Files -> Seq(Texts)]
           /\ disk'[f] = <<>>
           /\ \A g \in Files : g # f => disk'[g] = disk[g]
  BY Components, TextsDiffer DEF OpenTruncated

LEMMA FilesWritten ==
    ASSUME FilesInv, NEW f \in Files, NEW text \in Seq(Texts), Write(f, text)
    PROVE  /\ disk' \in [Files -> Seq(Texts)] /\ written' \in [Files -> Seq(Texts)]
           /\ disk'[f] = text /\ written'[f] = text
           /\ \A g \in Files : g # f => disk'[g] = disk[g] /\ written'[g] = written[g]
           /\ torn' = torn \ {f}
  BY Components DEF Write

LEMMA FilesOpenedToAppend ==
    ASSUME FilesInv, NEW f \in Files, OpenToAppend(f)
    PROVE  /\ disk' \in [Files -> Seq(Texts)]
           /\ disk'[f] = (IF disk[f] = Absent THEN <<>> ELSE disk[f])
           /\ \A g \in Files : g # f => disk'[g] = disk[g]
  BY Components, TextsDiffer DEF OpenToAppend

LEMMA FilesAppended ==
    ASSUME FilesInv, NEW f \in Files, AppendTo(f, <<"appended">>)
    PROVE  /\ disk' \in [Files -> Seq(Texts)] /\ written' \in [Files -> Seq(Texts)]
           /\ disk[f] = written[f] /\ written[f] # Absent => disk'[f] = written'[f]
           /\ disk[f] = <<>> /\ written[f] = Absent => disk'[f] = written'[f]
           /\ written'[f] # Absent /\ written'[f] # <<>>
           /\ \A g \in Files : g # f => disk'[g] = disk[g] /\ written'[g] = written[g]
           /\ torn' \in {torn, torn \ {f}}
           /\ written[f] # Absent => torn' = torn
<1> DEFINE Extended(content) == content \o <<"appended">>
           old == IF written[f] = Absent THEN <<>> ELSE written[f]
<1>1. ASSUME NEW content \in Seq(Texts)
      PROVE  Extended(content) \in Seq(Texts) /\ Extended(content) # Absent
  BY SavedTexts, TextsDiffer
<1>2. ASSUME NEW content \in Seq(Texts) PROVE Extended(content) # <<>>
  <2>1. Len(Extended(content)) = Len(content) + 1 /\ Len(content) \in Nat
    OBVIOUS
  <2>2. Len(<<>>) = 0
    OBVIOUS
  <2> HIDE DEF Extended
  <2> QED
    BY <2>1, <2>2
<1>3. /\ disk' = [disk EXCEPT ![f] = Extended(disk[f])]
      /\ written' = [written EXCEPT ![f] = Extended(old)]
      /\ torn' = IF written[f] = Absent THEN torn \ {f} ELSE torn
  BY DEF AppendTo, MeantToAppend
<1>4. old \in Seq(Texts) /\ disk[f] \in Seq(Texts)
  BY Components, TextsDiffer
<1> HIDE DEF Extended
<1>5. disk'[f] = Extended(disk[f]) /\ written'[f] = Extended(old)
  BY <1>3, Components
<1>6. disk' \in [Files -> Seq(Texts)] /\ written' \in [Files -> Seq(Texts)]
  BY <1>1, <1>3, <1>4, Components
<1>7. \A g \in Files : g # f => disk'[g] = disk[g] /\ written'[g] = written[g]
  BY <1>3, Components
<1> QED
  BY <1>1, <1>2, <1>3, <1>4, <1>5, <1>6, <1>7

LEMMA StepFiles == FilesInv /\ StartupStep => FilesInv'
<1> SUFFICES ASSUME FilesInv, StartupStep PROVE FilesInv'
  OBVIOUS
<1>0. StartupTypeOK /\ SettingsInv /\ DataInv
  BY DEF FilesInv
<1> USE Components, TextsDiffer
<1>1. CASE Start
  <2>1. processes + 1 \in 0 .. MaxProcesses
    BY <1>0, <1>1, BoundsAssumption DEF Start, StartupTypeOK
  <2>2. StartupTypeOK'
    BY <1>0, <1>1, <2>1 DEF Start, StartupTypeOK
  <2> QED
    BY <1>0, <1>1, <2>2 DEF Start, SettingsInv, DataInv, FilesInv
<1>2. CASE CreateSettings
  <2>1. OpenTruncated(settings)
    BY <1>2 DEF CreateSettings, settings
  <2>2. StartupTypeOK'
    BY <1>0, <1>2, <2>1, FilesOpened DEF CreateSettings, StartupTypeOK
  <2>3. SettingsInv' /\ DataInv'
    BY <1>0, <1>2, <2>1, FilesOpened DEF CreateSettings, SettingsInv, DataInv
  <2> QED
    BY <2>2, <2>3 DEF FilesInv
<1>3. CASE WriteSettings
  <2>1. m_config = Default /\ Write(settings, m_config)
    BY <1>0, <1>3 DEF WriteSettings, SettingsInv, settings
  <2>2. StartupTypeOK'
    BY <1>0, <1>3, <2>1, FilesWritten DEF WriteSettings, StartupTypeOK
  <2>3. SettingsInv' /\ DataInv'
    BY <1>0, <1>3, <2>1, FilesWritten DEF WriteSettings, SettingsInv, DataInv
  <2> QED
    BY <2>2, <2>3 DEF FilesInv
<1>4. CASE LoadSettings
  <2>1. m_config' = disk[settings] /\ disk[settings] # Absent
    BY <1>4 DEF LoadSettings, settings
  <2>2. StartupTypeOK'
    BY <1>0, <1>4, <2>1 DEF LoadSettings, StartupTypeOK, SettingsInv
  <2>3. SettingsInv' /\ DataInv'
    BY <1>0, <1>4, <2>1 DEF LoadSettings, SettingsInv, DataInv
  <2> QED
    BY <2>2, <2>3 DEF FilesInv
<1>5. ASSUME NEW lib \in Libs, LoadLib(lib) PROVE FilesInv'
  <2>1. StartupTypeOK'
    BY <1>0, <1>5 DEF LoadLib, StartupTypeOK
  <2> QED
    BY <1>0, <1>5, <2>1 DEF LoadLib, SettingsInv, DataInv, FilesInv
<1>6. ASSUME NEW plugin \in PluginDirs, RunPlugin(plugin) PROVE FilesInv'
  <2>1. StartupTypeOK'
    BY <1>0, <1>6 DEF RunPlugin, StartupTypeOK
  <2> QED
    BY <1>0, <1>6, <2>1 DEF RunPlugin, SettingsInv, DataInv, FilesInv
<1>7. CASE SaveFile
  <2>1. OpenTruncated("data") /\ writes + 1 \in 0 .. MaxWrites
    BY <1>0, <1>7, BoundsAssumption DEF SaveFile, StartupTypeOK
  <2>2. StartupTypeOK'
    BY <1>0, <1>7, <2>1, FilesOpened DEF SaveFile, StartupTypeOK
  <2>3. SettingsInv' /\ DataInv'
    BY <1>0, <1>7, <2>1, FilesOpened DEF SaveFile, SettingsInv, DataInv
  <2> QED
    BY <2>2, <2>3 DEF FilesInv
<1>8. CASE WriteFile
  <2>1. PICK text \in Seq(Texts) : text = <<"saved">> /\ Write("data", text)
    BY <1>8, SavedTexts DEF WriteFile
  <2>2. StartupTypeOK'
    BY <1>0, <1>8, <2>1, FilesWritten DEF WriteFile, StartupTypeOK
  <2>3. SettingsInv' /\ DataInv'
    BY <1>0, <1>8, <2>1, FilesWritten DEF WriteFile, SettingsInv, DataInv
  <2> QED
    BY <2>2, <2>3 DEF FilesInv
<1>9. CASE AppendFile
  <2>1. OpenToAppend("data") /\ writes + 1 \in 0 .. MaxWrites
    BY <1>0, <1>9, BoundsAssumption DEF AppendFile, StartupTypeOK
  <2>2. StartupTypeOK'
    BY <1>0, <1>9, <2>1, FilesOpenedToAppend DEF AppendFile, StartupTypeOK
  <2>3. SettingsInv' /\ DataInv'
    BY <1>0, <1>9, <2>1, FilesOpenedToAppend DEF AppendFile, SettingsInv, DataInv
  <2> QED
    BY <2>2, <2>3 DEF FilesInv
<1>10. CASE WriteAppended
  <2>1. AppendTo("data", <<"appended">>)
    BY <1>10 DEF WriteAppended
  <2>2. StartupTypeOK'
    BY <1>0, <1>10, <2>1, FilesAppended DEF WriteAppended, StartupTypeOK
  <2>3. SettingsInv'
    BY <1>0, <1>10, <2>1, FilesAppended DEF WriteAppended, SettingsInv
  <2>4. DataInv'
    BY <1>0, <1>10, <2>1, FilesAppended DEF WriteAppended, DataInv
  <2> QED
    BY <2>2, <2>3, <2>4 DEF FilesInv
<1>11. CASE ScriptEnds
  <2>1. StartupTypeOK'
    BY <1>0, <1>11 DEF ScriptEnds, StartupTypeOK
  <2> QED
    BY <1>0, <1>11, <2>1 DEF ScriptEnds, SettingsInv, DataInv, FilesInv
<1>12. ASSUME NEW threads \in Options, SetProperty(threads) PROVE FilesInv'
  <2>1. StartupTypeOK'
    BY <1>0, <1>12 DEF SetProperty, StartupTypeOK
  <2> QED
    BY <1>0, <1>12, <2>1 DEF SetProperty, SettingsInv, DataInv, FilesInv
<1>13. CASE Edit
  <2>1. Write(settings, Edited) /\ writes + 1 \in 0 .. MaxWrites
    BY <1>0, <1>13, BoundsAssumption DEF Edit, StartupTypeOK, settings
  <2>2. StartupTypeOK'
    BY <1>0, <1>13, <2>1, FilesWritten DEF Edit, StartupTypeOK
  <2>3. SettingsInv' /\ DataInv'
    BY <1>0, <1>13, <2>1, FilesWritten DEF Edit, SettingsInv, DataInv
  <2> QED
    BY <2>2, <2>3 DEF FilesInv
<1> QED
  BY <1>1, <1>2, <1>3, <1>4, <1>5, <1>6, <1>7, <1>8, <1>9, <1>10, <1>11, <1>12, <1>13
  DEF StartupStep

LEMMA EndFiles == FilesInv /\ End => FilesInv'
<1> SUFFICES ASSUME FilesInv, End PROVE FilesInv'
  OBVIOUS
<1>1. StartupTypeOK /\ SettingsInv /\ DataInv
  BY DEF FilesInv
<1>2. /\ torn \subseteq torn' /\ torn' \subseteq torn \cup {settings, "data"}
      /\ main = "writeSettings" => settings \in torn'
      /\ main = "writeData" => "data" \in torn'
      /\ main = "appendData" /\ written["data"] = Absent => "data" \in torn'
  BY DEF End, LeftEmpty, settings
<1>3. main' = "down" /\ UNCHANGED <<m_settings, m_config, disk, toLoad, written, processes, writes>>
  BY DEF End
<1>4. StartupTypeOK'
  BY <1>1, <1>2, <1>3, Components DEF StartupTypeOK
<1>5. SettingsInv' /\ DataInv'
  BY <1>1, <1>2, <1>3, Components DEF SettingsInv, DataInv
<1> QED
  BY <1>4, <1>5 DEF FilesInv

LEMMA ListenFiles == FilesInv /\ Listen => FilesInv'
<1> SUFFICES ASSUME FilesInv, Listen PROVE FilesInv'
  OBVIOUS
<1>1. StartupTypeOK'
  BY DEF FilesInv, StartupTypeOK, Listen
<1> QED
  BY <1>1 DEF FilesInv, SettingsInv, DataInv, Listen

LEMMA NextFiles == FilesInv /\ [Next]_vars => FilesInv'
<1> SUFFICES ASSUME FilesInv, [Next]_vars PROVE FilesInv'
  OBVIOUS
<1>1. ASSUME UNCHANGED startupVars PROVE FilesInv'
  BY <1>1 DEF startupVars, FilesInv, StartupTypeOK, SettingsInv, DataInv
<1> QED
  BY <1>1, StepFiles, EndFiles, ListenFiles DEF Next, vars

LEMMA FilesWhole == FilesInv => WholeUnlessKilled
  BY TextsDiffer
  DEF FilesInv, SettingsInv, DataInv, WholeUnlessKilled, ReadFile, ReadJson, settings

(***************************************************************************)
(* Where the texts of the files come from, for any number of processes,    *)
(* plugins and writes (server.cpp:27-41, plugins.cpp:58-105).              *)
(***************************************************************************)
THEOREM FilesInvariant == Spec => []FilesInv
<1>1. Init => FilesInv
  BY InitFiles DEF Init
<1> QED
  BY <1>1, NextFiles, PTL DEF Spec

(***************************************************************************)
(* The configuration is empty, and a plugin reads something else than was  *)
(* written, only after a process was ended between opening a file and      *)
(* writing it (server.cpp:27-41, plugins.cpp:58-105).                      *)
(***************************************************************************)
THEOREM FilesAreWhole == Spec => []WholeUnlessKilled
  BY FilesInvariant, FilesWhole, PTL

LEMMA StepSettings ==
    ASSUME FilesInv, [Next]_vars,
           disk[settings] \notin {Absent, <<>>}, main # "down"
    PROVE  disk'[settings] = disk[settings]
<1> USE Components, TextsDiffer
<1>0. main # "writeSettings"
  BY DEF FilesInv, SettingsInv
<1>1. ASSUME StartupStep PROVE disk'[settings] = disk[settings]
  <2>1. CASE SaveFile
    BY <2>1, FilesOpened DEF SaveFile
  <2>2. CASE WriteFile
    <3>1. PICK text \in Seq(Texts) : text = <<"saved">> /\ Write("data", text)
      BY <2>2, SavedTexts DEF WriteFile
    <3> QED
      BY <3>1, FilesWritten
  <2>3. CASE AppendFile
    BY <2>3, FilesOpenedToAppend DEF AppendFile
  <2>4. CASE WriteAppended
    BY <2>4, FilesAppended DEF WriteAppended
  <2>5. ~CreateSettings /\ ~WriteSettings /\ ~Edit
    BY <1>0 DEF CreateSettings, WriteSettings, Edit, settings
  <2> QED
    BY <1>1, <2>1, <2>2, <2>3, <2>4, <2>5
    DEF StartupStep, Start, LoadSettings, LoadLib, RunPlugin, ScriptEnds, SetProperty
<1>2. ASSUME UNCHANGED disk PROVE disk'[settings] = disk[settings]
  BY <1>2
<1> QED
  BY <1>1, <1>2 DEF Next, vars, startupVars, Listen, End

(***************************************************************************)
(* Settings that are there stay as they are while a server runs, wherever  *)
(* it is ended and however often it is started (server.cpp:27-41).         *)
(***************************************************************************)
THEOREM SettingsStay == Spec => SettingsAreTheOperators
<1>1. FilesInv /\ [Next]_vars =>
          [disk["settings.yaml"] \notin {Absent, <<>>} /\ main # "down" =>
               disk'["settings.yaml"] = disk["settings.yaml"]]_startupVars
  BY StepSettings DEF settings
<1> QED
  BY <1>1, FilesInvariant, PTL DEF Spec, SettingsAreTheOperators
-----------------------------------------------------------------------------
(* Ids and rows.                                                           *)

(* The row a caller inserts has the id that was created last; it has been  *)
(* created in this process.                                                *)
IdsFirst ==
    \A c \in Callers : creating[c] # Nothing /\ call[c].at = "idle" => created # <<>>

TextChannelsOnly ==
    /\ \A c \in Callers : creating[c].table = "channels" => creating[c].case = "kTextChannel"
    /\ \A i \in DOMAIN channels : channels[i].case = "kTextChannel"

RowsInserted == users = inserted.users /\ channels = inserted.channels

IdsUnique ==
    /\ \A i, j \in DOMAIN users : users[i].id = users[j].id => i = j
    /\ \A i, j \in DOMAIN channels : channels[i].id = channels[j].id => i = j

RowsInv ==
    /\ CountInv /\ DatabaseTypeOK
    /\ IdsFirst /\ TextChannelsOnly /\ RowsInserted /\ IdsUnique

LEMMA InitRows == SnowflakeInit /\ DatabaseInit => RowsInv
<1> SUFFICES ASSUME SnowflakeInit, DatabaseInit PROVE RowsInv
  OBVIOUS
<1>1. CountInv
  BY InitCounts
<1>2. DatabaseTypeOK
  BY DEF DatabaseInit, DatabaseTypeOK
<1>3. IdsFirst /\ TextChannelsOnly /\ RowsInserted /\ IdsUnique
  BY DEF DatabaseInit, IdsFirst, TextChannelsOnly, RowsInserted, IdsUnique, Nothing
<1> QED
  BY <1>1, <1>2, <1>3 DEF RowsInv

LEMMA RequestFields ==
    ASSUME NEW row \in Request
    PROVE  /\ row # Nothing
           /\ row.name \in Names
           /\ row.table \in {"users", "channels"}
           /\ row.table = "channels" => row.parent \in Parents /\ row.case \in ChannelCases
  BY DEF Request, Nothing

LEMMA BeginKeepsRows ==
    ASSUME RowsInv, NEW c \in Callers, Alone(c), NEW row \in Request,
           row.table = "channels" => row.case = "kTextChannel", BeginsCreating(c, row)
    PROVE  RowsInv'
<1>1. CountInv'
  BY CallCounts DEF RowsInv, Alone, BeginsCreating, CreateSnowflake
<1>2. DatabaseTypeOK'
  BY DEF RowsInv, DatabaseTypeOK, BeginsCreating
<1>3. \A d \in Callers : d # c => creating'[d] = creating[d] /\ call'[d] = call[d]
  BY DEF RowsInv, CountInv, SnowflakeTypeOK, DatabaseTypeOK, BeginsCreating, ReadClock
<1>4. call'[c].at = "load" /\ creating'[c] = row
  BY DEF RowsInv, CountInv, SnowflakeTypeOK, Calls, DatabaseTypeOK, BeginsCreating, ReadClock
<1>5. UNCHANGED <<created, users, channels, inserted>>
  BY DEF BeginsCreating, ReadClock
<1>6. IdsFirst'
  BY <1>3, <1>4, <1>5 DEF RowsInv, IdsFirst
<1>7. TextChannelsOnly'
  BY <1>3, <1>4, <1>5 DEF RowsInv, TextChannelsOnly
<1>8. RowsInserted' /\ IdsUnique'
  BY <1>5 DEF RowsInv, RowsInserted, IdsUnique
<1> QED
  BY <1>1, <1>2, <1>6, <1>7, <1>8 DEF RowsInv

LEMMA CreatingIdKeepsRows ==
    ASSUME RowsInv, NEW c \in Callers, Alone(c), CreatingId(c)
    PROVE  RowsInv'
<1>1. CountInv'
  BY CallCounts DEF RowsInv, Alone, CreatingId
<1>2. DatabaseTypeOK'
  BY DEF RowsInv, DatabaseTypeOK, CreatingId, databaseVars
<1>3. \A d \in Callers \ {c} : creating'[d] = Nothing
  BY DEF Alone, CreatingId, databaseVars
<1>4. call'[c].at = "idle" => created' # <<>>
  <2>1. SnowflakeTypeOK /\ call[c].at # "idle" /\ CreateSnowflake(c)
    BY DEF RowsInv, CountInv, CreatingId
  <2>2. CASE Return(c)
    BY <2>1, <2>2, ReturnedId
  <2>3. CASE ~Return(c)
    BY <2>1, <2>3 DEF CreateSnowflake, ReadClock, Load, Store, SnowflakeTypeOK, Calls
  <2> QED
    BY <2>2, <2>3
<1>5. IdsFirst'
  BY <1>3, <1>4 DEF IdsFirst
<1>6. TextChannelsOnly' /\ RowsInserted' /\ IdsUnique'
  BY DEF RowsInv, TextChannelsOnly, RowsInserted, IdsUnique, CreatingId, databaseVars
<1> QED
  BY <1>1, <1>2, <1>5, <1>6 DEF RowsInv

LEMMA NewIdType ==
    ASSUME RowsInv, NEW c \in Callers, creating[c] # Nothing, call[c].at = "idle"
    PROVE  NewId \in Ids
<1>1. created \in Seq(Created) /\ created # <<>>
  BY DEF RowsInv, CountInv, SnowflakeTypeOK, IdsFirst
<1>2. created[Len(created)] \in Created
  BY <1>1
<1> QED
  BY <1>2 DEF NewId, Last, Created

(* A new row at the end of a table.                                        *)
LEMMA RowAppended ==
    ASSUME NEW S, NEW table \in Seq(S), NEW row \in S, row.id \notin IdsIn(table),
           \A i, j \in DOMAIN table : table[i].id = table[j].id => i = j
    PROVE  LET new == Append(table, row) IN
           /\ new \in Seq(S)
           /\ \A i, j \in DOMAIN new : new[i].id = new[j].id => i = j
           /\ \A i \in DOMAIN new : new[i] = row \/ \E k \in DOMAIN table : new[i] = table[k]
<1> DEFINE new == Append(table, row)
<1>1. /\ new \in Seq(S) /\ DOMAIN new = 1 .. Len(table) + 1
      /\ \A i \in 1 .. Len(table) : new[i] = table[i] /\ table[i].id \in IdsIn(table)
      /\ new[Len(table) + 1] = row
      /\ DOMAIN table = 1 .. Len(table) /\ Len(table) \in Nat
  BY DEF IdsIn
<1> HIDE DEF new
<1>2. \A i \in DOMAIN new : i \in 1 .. Len(table) \/ i = Len(table) + 1
  BY <1>1
<1>3. \A i, j \in DOMAIN new : new[i].id = new[j].id => i = j
  BY <1>1, <1>2
<1>4. \A i \in DOMAIN new : new[i] = row \/ \E k \in DOMAIN table : new[i] = table[k]
  BY <1>1, <1>2
<1> QED
  BY <1>1, <1>3, <1>4 DEF new

LEMMA InsertKeepsRows ==
    ASSUME RowsInv, NEW c \in Callers, Alone(c), Insert(c)
    PROVE  RowsInv'
<1>1. creating[c] \in Request /\ creating[c] # Nothing /\ call[c].at = "idle"
  BY DEF RowsInv, DatabaseTypeOK, Insert
<1>2. NewId \in Ids
  BY <1>1, NewIdType
<1>3. UNCHANGED snowflakeVars /\ creating' = [creating EXCEPT ![c] = Nothing]
  BY DEF Insert
<1>4. CountInv'
  BY <1>3, NextCounts DEF RowsInv
<1>5. /\ creating' \in [Callers -> Request \cup {Nothing}]
      /\ \A d \in Callers : creating'[d] = Nothing
  BY <1>1, <1>3 DEF RowsInv, DatabaseTypeOK, Alone
<1>6. IdsFirst'
  BY <1>5 DEF IdsFirst
<1>7. CASE creating[c].table = "users"
  <2>1. PICK row : row = [id |-> NewId, name |-> creating[c].name]
    OBVIOUS
  <2>2. row \in UserRow /\ row.id = NewId
    BY <1>1, <1>2, <2>1, RequestFields DEF UserRow
  <2>3. InsertIntoUsers(row)
    BY <1>7, <2>1 DEF Insert
  <2>4. users \in Seq(UserRow) /\ inserted \in [users : Seq(UserRow), channels : Seq(ChannelRow)]
    BY DEF RowsInv, DatabaseTypeOK
  <2>5. /\ users' \in Seq(UserRow)
        /\ \A i, j \in DOMAIN users' : users'[i].id = users'[j].id => i = j
    BY <2>2, <2>3, <2>4, RowAppended DEF InsertIntoUsers, RowsInv, IdsUnique
  <2>6. UNCHANGED channels
    BY <2>3 DEF InsertIntoUsers
  <2>7. inserted'.users = users' /\ inserted'.channels = channels'
        /\ inserted' \in [users : Seq(UserRow), channels : Seq(ChannelRow)]
    BY <2>2, <2>3, <2>4, <2>5, <2>6 DEF InsertIntoUsers, RowsInv, RowsInserted
  <2>8. DatabaseTypeOK'
    BY <1>5, <2>5, <2>6, <2>7 DEF RowsInv, DatabaseTypeOK
  <2>9. TextChannelsOnly' /\ RowsInserted' /\ IdsUnique'
    BY <1>5, <2>5, <2>6, <2>7 DEF RowsInv, TextChannelsOnly, RowsInserted, IdsUnique, Nothing
  <2> QED
    BY <1>4, <1>6, <2>8, <2>9 DEF RowsInv
<1>8. CASE creating[c].table = "channels"
  <2>1. PICK row : row = [id |-> NewId, name |-> creating[c].name,
                          parent |-> creating[c].parent, case |-> creating[c].case]
    OBVIOUS
  <2>2. row \in ChannelRow /\ row.id = NewId /\ row.case = "kTextChannel"
    BY <1>1, <1>2, <1>8, <2>1, RequestFields DEF ChannelRow, RowsInv, TextChannelsOnly
  <2>3. InsertIntoChannels(row)
    BY <1>8, <2>1 DEF Insert
  <2>4. /\ channels \in Seq(ChannelRow)
        /\ inserted \in [users : Seq(UserRow), channels : Seq(ChannelRow)]
    BY DEF RowsInv, DatabaseTypeOK
  <2>5. /\ channels' \in Seq(ChannelRow)
        /\ \A i, j \in DOMAIN channels' : channels'[i].id = channels'[j].id => i = j
        /\ \A i \in DOMAIN channels' :
               channels'[i] = row \/ \E k \in DOMAIN channels : channels'[i] = channels[k]
    BY <2>2, <2>3, <2>4, RowAppended DEF InsertIntoChannels, RowsInv, IdsUnique
  <2>6. UNCHANGED users
    BY <2>3 DEF InsertIntoChannels
  <2>7. inserted'.users = users' /\ inserted'.channels = channels'
        /\ inserted' \in [users : Seq(UserRow), channels : Seq(ChannelRow)]
    BY <2>2, <2>3, <2>4, <2>5, <2>6 DEF InsertIntoChannels, RowsInv, RowsInserted
  <2>8. DatabaseTypeOK'
    BY <1>5, <2>5, <2>6, <2>7 DEF RowsInv, DatabaseTypeOK
  <2>9. \A i \in DOMAIN channels' : channels'[i].case = "kTextChannel"
    BY <2>2, <2>5 DEF RowsInv, TextChannelsOnly
  <2>10. TextChannelsOnly' /\ RowsInserted' /\ IdsUnique'
    BY <1>5, <2>5, <2>6, <2>7, <2>9
    DEF RowsInv, TextChannelsOnly, RowsInserted, IdsUnique, Nothing
  <2> QED
    BY <1>4, <1>6, <2>8, <2>10 DEF RowsInv
<1> QED
  BY <1>1, <1>7, <1>8, RequestFields

LEMMA InsertFailsKeepsRows ==
    ASSUME RowsInv, NEW c \in Callers, Alone(c), InsertFails(c)
    PROVE  RowsInv'
<1>1. /\ UNCHANGED <<snowflakeVars, users, channels, inserted>>
      /\ creating' = [creating EXCEPT ![c] = Nothing]
  BY DEF InsertFails
<1>2. CountInv'
  BY <1>1, NextCounts DEF RowsInv
<1>3. /\ creating' \in [Callers -> Request \cup {Nothing}]
      /\ \A d \in Callers : creating'[d] = Nothing
  BY <1>1 DEF RowsInv, DatabaseTypeOK, Alone
<1>4. DatabaseTypeOK'
  BY <1>1, <1>3 DEF RowsInv, DatabaseTypeOK
<1>5. IdsFirst' /\ TextChannelsOnly' /\ RowsInserted' /\ IdsUnique'
  BY <1>1, <1>3
  DEF RowsInv, IdsFirst, TextChannelsOnly, RowsInserted, IdsUnique, Nothing
<1> QED
  BY <1>2, <1>4, <1>5 DEF RowsInv

LEMMA StepRows == RowsInv /\ DatabaseStep => RowsInv'
<1> SUFFICES ASSUME RowsInv, DatabaseStep PROVE RowsInv'
  OBVIOUS
<1>1. CASE ClockMoves /\ UNCHANGED databaseVars
  <2>1. CountInv'
    BY <1>1, NextCounts DEF RowsInv, SerialNext
  <2> QED
    BY <1>1, <2>1
    DEF RowsInv, ClockMoves, databaseVars, DatabaseTypeOK, IdsFirst, TextChannelsOnly,
        RowsInserted, IdsUnique
<1>2. ASSUME NEW c \in Callers, Alone(c), NEW name \in Names, CreateUser(c, name)
      PROVE  RowsInv'
  <2>1. PICK row \in Request : row = [table |-> "users", name |-> name]
    BY <1>2 DEF Request
  <2> QED
    BY <1>2, <2>1, BeginKeepsRows DEF CreateUser
<1>3. ASSUME NEW c \in Callers, Alone(c),
             NEW case \in ChannelCases, NEW name \in Names, NEW parent \in Parents,
             CreateChannel(c, case, name, parent)
      PROVE  RowsInv'
  <2>1. PICK row \in Request :
            row = [table |-> "channels", name |-> name, parent |-> parent, case |-> case]
    BY <1>3 DEF Request
  <2> QED
    BY <1>3, <2>1, BeginKeepsRows DEF CreateChannel
<1> QED
  BY <1>1, <1>2, <1>3, CreatingIdKeepsRows, InsertKeepsRows, InsertFailsKeepsRows
  DEF DatabaseStep

(* A new process counts from 0 again, and starts with the tables.          *)
LEMMA ReopenKeepsRows == RowsInv /\ Reopen => RowsInv'
<1> SUFFICES ASSUME RowsInv, Reopen PROVE RowsInv'
  OBVIOUS
<1>1. CountInv'
  <2>1. Idle \in Calls
    BY ModuliAssumption DEF Idle, Calls
  <2>2. SnowflakeTypeOK'
    BY <2>1, ModuliAssumption DEF RowsInv, CountInv, SnowflakeTypeOK, Reopen
  <2>3. (\A c \in Callers : call'[c].at = "idle") /\ sequence' = 0 /\ created' = <<>>
    BY DEF Reopen, Idle
  <2>4. M \in Nat \ {0} /\ 0 \in 0 .. M - 1
    BY ModuliAssumption DEF M
  <2>5. Len(created') % M = 0
    BY <2>3, <2>4
  <2> QED
    BY <2>2, <2>3, <2>5 DEF CountInv, OneCallAtATime, CounterCounts, IdsCount
<1>2. DatabaseTypeOK'
  BY DEF RowsInv, DatabaseTypeOK, Reopen
<1>3. \A c \in Callers : creating'[c] = Nothing
  BY DEF Reopen
<1>4. IdsFirst' /\ TextChannelsOnly' /\ RowsInserted' /\ IdsUnique'
  BY <1>3 DEF RowsInv, IdsFirst, TextChannelsOnly, RowsInserted, IdsUnique, Reopen, Nothing
<1> QED
  BY <1>1, <1>2, <1>4 DEF RowsInv

LEMMA NextRows == RowsInv /\ [Next]_vars => RowsInv'
<1> SUFFICES ASSUME RowsInv, [Next]_vars PROVE RowsInv'
  OBVIOUS
<1>1. ASSUME UNCHANGED <<snowflakeVars, databaseVars>> PROVE RowsInv'
  <2>1. CountInv'
    BY <1>1, NextCounts DEF RowsInv
  <2> QED
    BY <1>1, <2>1
    DEF snowflakeVars, databaseVars, RowsInv, DatabaseTypeOK, IdsFirst, TextChannelsOnly,
        RowsInserted, IdsUnique
<1> QED
  BY <1>1, StepRows, ReopenKeepsRows DEF Next, vars

(***************************************************************************)
(* Ids and rows through any number of processes: the counter counts the    *)
(* ids of this process, no two rows of a table have the same id, only text *)
(* channels are stored, and the tables are, row for row and in order, what *)
(* the INSERTs of CreateUser and CreateChannel have stored                 *)
(* (database.cpp:34-57, 181-231).                                          *)
(***************************************************************************)
THEOREM RowsInvariant == Spec => []RowsInv
<1>1. Init => RowsInv
  BY InitRows DEF Init
<1> QED
  BY <1>1, NextRows, PTL DEF Spec

(***************************************************************************)
(* The ids of one process are distinct in every run of SequenceModulus,    *)
(* with the database's callers too (snowflake.cpp:7-20).                   *)
(***************************************************************************)
THEOREM RunsStayDistinct == Spec => []RunsAreDistinct
<1>1. RowsInv => RunsAreDistinct
  BY CountedIdsAreDistinct DEF RowsInv
<1> QED
  BY <1>1, RowsInvariant, PTL

(***************************************************************************)
(* The state of a process and of its files keeps its types.                *)
(***************************************************************************)
THEOREM PersistenceTypes == Spec => []TypeOK
<1>1. FilesInv /\ RowsInv => TypeOK
  BY DEF FilesInv, RowsInv, CountInv, TypeOK
<1> QED
  BY <1>1, FilesInvariant, RowsInvariant, PTL
-----------------------------------------------------------------------------
(***************************************************************************)
(* What is read back.                                                      *)
(***************************************************************************)
Ones(s) == [i \in DOMAIN s |-> <<s[i]>>]

LEMMA OnesType ==
    ASSUME NEW S, NEW s \in Seq(S)
    PROVE  Ones(s) \in Seq(Seq(S)) /\ Len(Ones(s)) = Len(s)
<1>1. PICK n \in Nat : n = Len(s) /\ DOMAIN s = 1 .. n
  BY LenProperties
<1>2. \A i \in 1 .. n : <<s[i]>> \in Seq(S)
  BY <1>1
<1>3. Ones(s) = [i \in 1 .. n |-> <<s[i]>>]
  BY <1>1 DEF Ones
<1>4. Ones(s) \in Seq(Seq(S))
  BY <1>1, <1>2, <1>3, IsASeq
<1>5. DOMAIN Ones(s) = 1 .. n
  BY <1>3
<1>. QED
  BY <1>1, <1>4, <1>5, LenProperties

LEMMA OnesAppend ==
    ASSUME NEW S, NEW s \in Seq(S), NEW x \in S
    PROVE  Ones(Append(s, x)) = Append(Ones(s), <<x>>)
<1>1. PICK n \in Nat : n = Len(s) /\ DOMAIN s = 1 .. n
  BY LenProperties
<1>2. PICK t \in Seq(S) : /\ t = Append(s, x) /\ DOMAIN t = 1 .. n + 1 /\ Len(t) = n + 1
                          /\ t[n + 1] = x /\ \A i \in 1 .. n : t[i] = s[i]
  <2>1. /\ Append(s, x) \in Seq(S) /\ Len(Append(s, x)) = n + 1
        /\ DOMAIN Append(s, x) = 1 .. n + 1
        /\ Append(s, x)[n + 1] = x /\ \A i \in 1 .. n : Append(s, x)[i] = s[i]
    BY <1>1, AppendProperties
  <2>. QED
    BY <2>1, Zenon
<1>3. PICK o \in Seq(Seq(S)) : o = Ones(s) /\ Len(o) = n /\ \A i \in 1 .. n : o[i] = <<s[i]>>
  <2>1. Ones(s) \in Seq(Seq(S)) /\ Len(Ones(s)) = n
    BY <1>1, OnesType
  <2>2. \A i \in 1 .. n : Ones(s)[i] = <<s[i]>>
    BY <1>1 DEF Ones
  <2>. QED
    BY <2>1, <2>2
<1>4. PICK p \in Seq(Seq(S)) : /\ p = Ones(t) /\ Len(p) = n + 1
                               /\ \A i \in 1 .. n + 1 : p[i] = <<t[i]>>
  <2>1. Ones(t) \in Seq(Seq(S)) /\ Len(Ones(t)) = n + 1
    BY <1>2, OnesType
  <2>2. \A i \in 1 .. n + 1 : Ones(t)[i] = <<t[i]>>
    BY <1>2 DEF Ones
  <2>. QED
    BY <2>1, <2>2
<1>5. PICK one \in Seq(S) : one = <<x>>
  <2>1. <<x>> \in Seq(S)
    OBVIOUS
  <2>. QED
    BY <2>1, Zenon
<1>6. PICK q \in Seq(Seq(S)) : /\ q = Append(o, one) /\ Len(q) = n + 1 /\ q[n + 1] = one
                               /\ \A i \in 1 .. n : q[i] = o[i]
  <2>1. /\ Append(o, one) \in Seq(Seq(S)) /\ Len(Append(o, one)) = n + 1
        /\ Append(o, one)[n + 1] = one /\ \A i \in 1 .. n : Append(o, one)[i] = o[i]
    BY <1>3, AppendProperties
  <2>. QED
    BY <2>1, Zenon
<1>7. \A i \in 1 .. n + 1 : p[i] = q[i]
  <2>1. ASSUME NEW i \in 1 .. n PROVE p[i] = q[i]
    <3>1. t[i] = s[i] /\ p[i] = <<t[i]>> /\ q[i] = o[i] /\ o[i] = <<s[i]>>
      BY <1>2, <1>3, <1>4, <1>6
    <3>. QED
      BY <3>1, Zenon
  <2>2. p[n + 1] = q[n + 1]
    <3>1. t[n + 1] = x /\ p[n + 1] = <<t[n + 1]>> /\ q[n + 1] = one
      BY <1>2, <1>4, <1>6
    <3>. QED
      BY <1>5, <3>1, Zenon
  <2>. QED
    BY <2>1, <2>2
<1>8. p = q
  BY <1>4, <1>6, <1>7, SeqEqual
<1>. QED
  BY <1>2, <1>3, <1>4, <1>5, <1>6, <1>8

(* Nothing is skipped when each row gives one element.                     *)
LEMMA FlattenOnes ==
    ASSUME NEW S, NEW s \in Seq(S)
    PROVE  FlattenSeq(Ones(s)) = s
<1> DEFINE Good == {k \in Nat : \A t \in Seq(S) : Len(t) = k => FlattenSeq(Ones(t)) = t}
<1>1. 0 \in Good
  <2>1. ASSUME NEW t \in Seq(S), Len(t) = 0 PROVE FlattenSeq(Ones(t)) = t
    <3>1. t = <<>> /\ Ones(t) \in Seq(Seq(S)) /\ Len(Ones(t)) = 0
      BY <2>1, EmptySeq, OnesType
    <3>2. Ones(t) = <<>>
      BY <3>1, EmptySeq
    <3>. QED
      BY <3>1, <3>2, FlattenEmpty
  <2>. QED
    BY <2>1
<1>2. ASSUME NEW k \in Nat, k \in Good PROVE k + 1 \in Good
  <2>1. ASSUME NEW t \in Seq(S), Len(t) = k + 1 PROVE FlattenSeq(Ones(t)) = t
    <3>1. t # <<>>
      BY <2>1, EmptySeq
    <3>2. PICK u \in Seq(S), x \in S : t = Append(u, x)
      BY <3>1, SequenceEmptyOrAppend
    <3>3. Len(u) = k
      BY <2>1, <3>2
    <3>4. FlattenSeq(Ones(u)) = u
      BY <1>2, <3>3
    <3>5. PICK o \in Seq(Seq(S)), one \in Seq(S) : o = Ones(u) /\ one = <<x>>
      <4>1. Ones(u) \in Seq(Seq(S)) /\ <<x>> \in Seq(S)
        BY OnesType
      <4>. QED
        BY <4>1, Zenon
    <3>6. FlattenSeq(Append(o, one)) = FlattenSeq(o) \o one
      BY FlattenAppend
    <3>7. Ones(t) = Append(o, one)
      BY <3>2, <3>5, OnesAppend
    <3>8. u \o one = Append(u, x)
      BY <3>5
    <3>. QED
      BY <3>2, <3>4, <3>5, <3>6, <3>7, <3>8
  <2>. QED
    BY <2>1
<1> HIDE DEF Good
<1>3. \A k \in Nat : k \in Good
  BY <1>1, <1>2, SetInduction
<1>4. Len(s) \in Nat
  BY LenProperties
<1>. QED
  BY <1>3, <1>4 DEF Good

LEMMA AllChannels ==
    ASSUME RowsInv
    PROVE  GetChannels = [i \in DOMAIN channels |-> ChannelOf(channels[i])]
<1>1. channels \in Seq(ChannelRow) /\ \A i \in DOMAIN channels : channels[i].case = "kTextChannel"
  BY DEF RowsInv, DatabaseTypeOK, TextChannelsOnly
<1>2. PICK n \in Nat : n = Len(channels) /\ DOMAIN channels = 1 .. n
  BY <1>1, LenProperties
<1> DEFINE s == [i \in DOMAIN channels |-> ChannelOf(channels[i])]
           S == {ChannelOf(channels[i]) : i \in DOMAIN channels}
<1>3. s \in Seq(S)
  <2>1. \A i \in 1 .. n : ChannelOf(channels[i]) \in S
    BY <1>2
  <2>2. s = [i \in 1 .. n |-> ChannelOf(channels[i])]
    BY <1>2
  <2> HIDE DEF S, s
  <2>. QED
    BY <2>1, <2>2, IsASeq
<1>4. [i \in DOMAIN channels |->
          IF channels[i].case = "kTextChannel" THEN <<ChannelOf(channels[i])>> ELSE <<>>]
          = Ones(s)
  <2>1. DOMAIN s = DOMAIN channels /\ \A i \in DOMAIN channels : s[i] = ChannelOf(channels[i])
    OBVIOUS
  <2> HIDE DEF s
  <2>. QED
    BY <1>1, <2>1 DEF Ones
<1> HIDE DEF S
<1>5. FlattenSeq(Ones(s)) = s
  <2> HIDE DEF s
  <2>. QED
    BY <1>3, FlattenOnes
<1>. QED
  BY <1>4, <1>5 DEF GetChannels

LEMMA UserUnderItsId ==
    ASSUME RowsInv, NEW i \in DOMAIN users
    PROVE  GetUserById(users[i].id) = UserOf(users[i])
<1> DEFINE found == {j \in DOMAIN users : users[j].id = users[i].id}
<1>1. found = {i}
  BY DEF RowsInv, IdsUnique
<1>2. i \in Nat
  <2>1. users \in Seq(UserRow)
    BY DEF RowsInv, DatabaseTypeOK
  <2>2. DOMAIN users = 1 .. Len(users) /\ Len(users) \in Nat
    BY <2>1
  <2>. QED
    BY <2>2
<1>3. Min({i}) = i
  BY <1>2 DEF Min
<1>. QED
  BY <1>1, <1>3 DEF GetUserById

(***************************************************************************)
(* For any names, parents, moduli and number of rows and processes, all    *)
(* that was stored is read back as it was created, in order, each user     *)
(* under its own id, and reading throws nothing (database.cpp:34-57,       *)
(* 95-134, 181-279).                                                       *)
(***************************************************************************)
THEOREM CreatedIsAlwaysReadBack == Spec => []CreatedIsReadBack
<1>1. RowsInv => CreatedIsReadBack
  <2> SUFFICES ASSUME RowsInv PROVE CreatedIsReadBack
    OBVIOUS
  <2>1. users = inserted.users /\ channels = inserted.channels
    BY DEF RowsInv, RowsInserted
  <2>2. GetUsers = [i \in DOMAIN inserted.users |-> UserOf(inserted.users[i])]
    BY <2>1 DEF GetUsers
  <2>3. \A i \in DOMAIN users : GetUserById(users[i].id) = UserOf(users[i])
    BY UserUnderItsId
  <2>4. ~GetChannelsThrows
    BY DEF RowsInv, TextChannelsOnly, GetChannelsThrows
  <2>5. GetChannels = [i \in DOMAIN inserted.channels |-> ChannelOf(inserted.channels[i])]
    BY <2>1, AllChannels
  <2>. QED
    BY <2>2, <2>3, <2>4, <2>5 DEF CreatedIsReadBack
<1>. QED
  BY <1>1, RowsInvariant, PTL
=============================================================================
