\* The main thread naming its workers while a handler creates users.
SPECIFICATION SnowflakeSpec
CONSTANTS
    Callers = {main, handler}
    SequenceModulus = 4
    TimeModulus = 8
    Times = {0, 1}
    MaxIds = 3
INVARIANTS
    DistinctWithinAMillisecond
CHECK_DEADLOCK FALSE
