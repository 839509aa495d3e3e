\* Two plugins, two listeners, three calls of "on", two of "register", two of setters.
SPECIFICATION EventsSpec
CONSTANTS
    Objects = {p1, p2}
    Listeners = {f, g}
    MaxOns = 3
    MaxRegisters = 2
    MaxEvents = 2
    Tokens <- MCTokens
    Names <- MCNames
    Messages <- MCMessages
    Commands <- MCCommands
    Formats <- MCFormats
    Arguments <- MCArguments
    MaxSets = 2
SYMMETRY MCSymmetry
INVARIANTS
    TypeOK
    LoggedAfterAllListeners
    LineIsNameAndMessage
    CommandIsFirstArgument
PROPERTIES
    CanceledIsFinal
CHECK_DEADLOCK FALSE
