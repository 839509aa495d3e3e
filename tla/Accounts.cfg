\* Two workers, two names, two connections, a restart at any point.
SPECIFICATION Spec
CONSTANTS
    Main = main
    Callers = {main, w1, w2}
    Connections = {c1, c2}
    Usernames = {alice, bob}
    SequenceModulus = 3
    TimeModulus = 2
    Times = {0, 2}
    MaxIds = 4
    MaxClientIds = 2
    MaxRestarts = 1
INVARIANTS
    TypeOK
    UsernamesUnique
    SessionBelongsToConnection
    NewIdIsFree
PROPERTIES
    AccountsAreKept
CHECK_DEADLOCK FALSE
