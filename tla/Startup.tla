------------------------------ MODULE Startup -------------------------------
(***************************************************************************)
(* A server process from main to Server::Listen (Server/src/main.cpp, the  *)
(* constructor of Server, PluginManager::LoadLibs and LoadPlugins), and    *)
(* the files it shares with the processes before and after it:             *)
(* settings.yaml, and the data files that plugins save.                    *)
(*                                                                         *)
(* A file is opened, which empties it, or makes an empty one where there   *)
(* is none, and written in a second step, when the stream is destroyed: a  *)
(* process that ends in between leaves an empty file.  What a file holds   *)
(* is the sequence of the texts written to it.                             *)
(***************************************************************************)
EXTENDS Integers, Sequences

CONSTANTS Options,       (* the numbers --threads is given                 *)
          Libs,          (* the files in the directory of --libs           *)
          PluginDirs,    (* the directories in that of --plugins           *)
          MaxProcesses,  (* bound: server processes, one after the other   *)
          MaxWrites      (* bound: edits by the operator, and files        *)
                         (* written by plugins                             *)

ASSUME OptionsAssumption == Options \subseteq Int

ASSUME BoundsAssumption == MaxProcesses \in Nat /\ MaxWrites \in Nat

VARIABLES
    main,       (* where the main thread is                                *)
    m_settings, (* the value of the property "threads"                     *)
    m_config,   (* the configuration the process works with                *)
    disk,       (* what each file holds                                    *)
    toLoad,     (* libraries and plugins that are not loaded yet           *)
    (* history *)
    written,    (* what was meant to be in each file                       *)
    torn,       (* files a process left between opening and writing them   *)
    processes, writes

startupVars == <<main, m_settings, m_config, disk, toLoad, written, torn, processes, writes>>

Files == {"settings.yaml", "data"}

Absent == <<"absent">>
Default == <<"default">>        (* the text of CreateDefaultConfig         *)
Edited == <<"edited">>          (* the operator's own settings             *)

Texts == {"absent", "default", "edited", "saved", "appended"}

StartupTypeOK ==
    /\ main \in {"down", "construct", "writeSettings", "load", "script", "writeData",
                 "appendData", "listen", "serving"}
    /\ m_settings \in Options \cup {1}
    /\ m_config \in {<<>>, Default, Edited}
    /\ disk \in [Files -> Seq(Texts)] /\ written \in [Files -> Seq(Texts)]
    /\ toLoad \in [libs : SUBSET Libs, plugins : SUBSET PluginDirs]
    /\ torn \subseteq Files
    /\ processes \in 0 .. MaxProcesses /\ writes \in 0 .. MaxWrites

StartupInit ==
    /\ main = "down"
    /\ m_settings = 1
    /\ m_config = <<>>
    /\ disk = [f \in Files |-> Absent]
    /\ toLoad = [libs |-> {}, plugins |-> {}]
    /\ written = disk
    /\ torn = {}
    /\ processes = 0 /\ writes = 0
-----------------------------------------------------------------------------
(* Files.                                                                  *)

(* std::ofstream, with or without std::ios::trunc: the file is emptied.    *)
OpenTruncated(f) == disk' = [disk EXCEPT ![f] = <<>>]

Write(f, text) ==
    /\ disk' = [disk EXCEPT ![f] = text]
    /\ written' = [written EXCEPT ![f] = text]
    /\ torn' = torn \ {f}

(* std::ios::app: what is there stays.                                     *)
OpenToAppend(f) == disk' = [disk EXCEPT ![f] = IF @ = Absent THEN <<>> ELSE @]

(* Appended to nothing, the text is all that the file should hold.         *)
MeantToAppend(f, text) ==
    /\ written' = [written EXCEPT ![f] = (IF @ = Absent THEN <<>> ELSE @) \o text]
    /\ torn' = IF written[f] = Absent THEN torn \ {f} ELSE torn

(* Mutant: the file is emptied as well.                                    *)
AppendToNew(f, text) ==
    /\ disk' = [disk EXCEPT ![f] = text]
    /\ MeantToAppend(f, text)

AppendTo(f, text) ==
    /\ disk' = [disk EXCEPT ![f] = @ \o text]
    /\ MeantToAppend(f, text)
-----------------------------------------------------------------------------
(* main, up to Listen.                                                     *)

(* The constructor of Server begins.                                       *)
Start ==
    /\ main = "down"
    /\ processes < MaxProcesses
    /\ processes' = processes + 1
    /\ main' = "construct"
    /\ m_settings' = 1
    /\ m_config' = <<>>
    /\ toLoad' = [libs |-> Libs, plugins |-> PluginDirs]
    /\ UNCHANGED <<disk, written, torn, writes>>

CreateSettings ==
    /\ main = "construct"
    /\ disk["settings.yaml"] = Absent
    /\ m_config' = Default
    /\ OpenTruncated("settings.yaml")
    /\ main' = "writeSettings"
    /\ UNCHANGED <<m_settings, toLoad, written, torn, processes, writes>>

WriteSettings ==
    /\ main = "writeSettings"
    /\ Write("settings.yaml", m_config)
    /\ main' = "load"
    /\ UNCHANGED <<m_settings, m_config, toLoad, processes, writes>>

(* Mutant: the file is opened for writing too, as a new one.               *)
LoadSettingsTruncated ==
    /\ main = "construct"
    /\ disk["settings.yaml"] # Absent
    /\ m_config' = disk["settings.yaml"]
    /\ OpenTruncated("settings.yaml")
    /\ main' = "load"
    /\ UNCHANGED <<m_settings, toLoad, written, torn, processes, writes>>

(* std::fstream opens for reading and writing and keeps what is there.     *)
LoadSettings ==
    /\ main = "construct"
    /\ disk["settings.yaml"] # Absent
    /\ m_config' = disk["settings.yaml"]
    /\ main' = "load"
    /\ UNCHANGED <<m_settings, disk, toLoad, written, torn, processes, writes>>

(* The files of a directory come in no particular order.                   *)
LoadLib(lib) ==
    /\ main = "load"
    /\ lib \in toLoad.libs
    /\ toLoad' = [toLoad EXCEPT !.libs = @ \ {lib}]
    /\ UNCHANGED <<main, m_settings, m_config, disk, written, torn, processes, writes>>

RunPlugin(plugin) ==
    /\ main = "load"
    /\ toLoad.libs = {}
    /\ plugin \in toLoad.plugins
    /\ toLoad' = [toLoad EXCEPT !.plugins = @ \ {plugin}]
    /\ main' = "script"
    /\ UNCHANGED <<m_settings, m_config, disk, written, torn, processes, writes>>

(* plugin:save_file(path, content), by the running script.                 *)
SaveFile ==
    /\ main = "script"
    /\ writes < MaxWrites
    /\ writes' = writes + 1
    /\ OpenTruncated("data")
    /\ main' = "writeData"
    /\ UNCHANGED <<m_settings, m_config, toLoad, written, torn, processes>>

WriteFile ==
    /\ main = "writeData"
    /\ Write("data", <<"saved">>)
    /\ main' = "script"
    /\ UNCHANGED <<m_settings, m_config, toLoad, processes, writes>>

(* plugin:append_file(path, content)                                       *)
AppendFile ==
    /\ main = "script"
    /\ writes < MaxWrites
    /\ writes' = writes + 1
    /\ OpenToAppend("data")
    /\ main' = "appendData"
    /\ UNCHANGED <<m_settings, m_config, toLoad, written, torn, processes>>

WriteAppended ==
    /\ main = "appendData"
    /\ AppendTo("data", <<"appended">>)
    /\ main' = "script"
    /\ UNCHANGED <<m_settings, m_config, toLoad, processes, writes>>

(* What plugin:file and plugin:read_json return.                           *)
ReadFile == IF disk["data"] = Absent THEN <<>> ELSE disk["data"]
ReadJson == IF disk["data"] = Absent THEN <<"{}">> ELSE disk["data"]

ScriptEnds ==
    /\ main = "script"
    /\ main' = "load"
    /\ UNCHANGED <<m_settings, m_config, disk, toLoad, written, torn, processes, writes>>

(* The command line is obeyed last.  std::atoi makes 0 of what is not a    *)
(* number.                                                                 *)
SetProperty(threads) ==
    /\ main = "load"
    /\ toLoad = [libs |-> {}, plugins |-> {}]
    /\ m_settings' = threads
    /\ main' = "listen"
    /\ UNCHANGED <<m_config, disk, toLoad, written, torn, processes, writes>>
-----------------------------------------------------------------------------
(* The end of the process: a signal at any moment; an error in a library   *)
(* or a script, which nothing catches; bind or listen failing, which       *)
(* exits.  A file that was opened for appending is as whole as before,     *)
(* unless the opening made it.                                             *)
LeftEmpty ==
    CASE main = "writeSettings" -> {"settings.yaml"}
      [] main = "writeData"     -> {"data"}
      [] main = "appendData"    -> {f \in {"data"} : written[f] = Absent}
      [] OTHER                  -> {}

End ==
    /\ main # "down"
    /\ main' = "down"
    /\ torn' = torn \cup LeftEmpty
    /\ UNCHANGED <<m_settings, m_config, disk, toLoad, written, processes, writes>>

(* Between two processes the operator edits the settings.                  *)
Edit ==
    /\ main = "down"
    /\ writes < MaxWrites
    /\ writes' = writes + 1
    /\ disk["settings.yaml"] # Absent
    /\ Write("settings.yaml", Edited)
    /\ UNCHANGED <<main, m_settings, m_config, toLoad, processes>>

StartupStep ==
    \/ Start
    \/ CreateSettings
    \/ WriteSettings
    \/ LoadSettings
    \/ \E lib \in Libs : LoadLib(lib)
    \/ \E plugin \in PluginDirs : RunPlugin(plugin)
    \/ SaveFile
    \/ WriteFile
    \/ AppendFile
    \/ WriteAppended
    \/ ScriptEnds
    \/ \E threads \in Options : SetProperty(threads)
    \/ Edit
-----------------------------------------------------------------------------
(* Properties.                                                             *)

(***************************************************************************)
(* A process works with an empty configuration, and a plugin reads         *)
(* something else than was last saved and appended, only after an earlier  *)
(* process was ended between opening a file and writing it                 *)
(* (server.cpp:27-41, plugins.cpp:58-105).                                 *)
(***************************************************************************)
WholeUnlessKilled ==
    /\ main \notin {"down", "construct"} /\ m_config = <<>> => "settings.yaml" \in torn
    /\ main = "script" /\ "data" \notin torn =>
           IF written["data"] = Absent
           THEN ReadFile = <<>> /\ ReadJson = <<"{}">>
           ELSE ReadFile = written["data"] /\ ReadJson = written["data"]

(***************************************************************************)
(* The server never changes settings that are there, its own or the        *)
(* operator's, however often it is started and wherever it is ended: only  *)
(* the operator does, while no server runs (server.cpp:27-41).             *)
(***************************************************************************)
SettingsAreTheOperators ==
    [][disk["settings.yaml"] \notin {Absent, <<>>} /\ main # "down" =>
           disk'["settings.yaml"] = disk["settings.yaml"]]_startupVars
=============================================================================
