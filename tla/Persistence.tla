---------------------------- MODULE Persistence -----------------------------
(***************************************************************************)
(* What server processes leave to each other: settings.yaml and the data   *)
(* of plugins (module Startup), and data.db3 (module Database), which a    *)
(* process uses while it serves.  It may end at any moment.                *)
(***************************************************************************)
EXTENDS Startup, Database

vars == <<startupVars, snowflakeVars, databaseVars>>

TypeOK == StartupTypeOK /\ SnowflakeTypeOK /\ DatabaseTypeOK

Init == StartupInit /\ SnowflakeInit /\ DatabaseInit

(* Listen, up to the first thread that may call a handler.                 *)
Listen ==
    /\ main = "listen"
    /\ main' = "serving"
    /\ UNCHANGED <<m_settings, m_config, disk, toLoad, written, torn, processes, writes>>

Next ==
    \/ StartupStep /\ UNCHANGED <<snowflakeVars, databaseVars>>
    \/ Listen /\ UNCHANGED <<snowflakeVars, databaseVars>>
    \/ End /\ Reopen
    \/ main = "serving" /\ DatabaseStep /\ UNCHANGED startupVars

Spec == Init /\ [][Next]_vars
=============================================================================
