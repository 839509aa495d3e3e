\* Two processes, one library and one plugin, two edits or saved files, five rows.
SPECIFICATION Spec
CONSTANTS
    Options = {1}
    Libs = {lib}
    PluginDirs = {plugin}
    MaxProcesses = 2
    MaxWrites = 2
    Callers = {handler1, handler2}
    SequenceModulus = 4
    TimeModulus = 2
    Times = {0, 2}
    MaxIds = 5
    Names = {general}
    Parents = {none}
    MaxRows = 5
INVARIANTS
    TypeOK
    RunsAreDistinct
    WholeUnlessKilled
    CreatedIsReadBack
PROPERTIES
    SettingsAreTheOperators
CHECK_DEADLOCK FALSE
