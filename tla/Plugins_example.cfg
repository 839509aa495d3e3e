\* One plugin with a listener for each event, as the example plugin has.
SPECIFICATION Spec
CONSTANTS
    Objects = {example}
    Listeners = {onMessage, onCommand}
    MaxOns = 2
    MaxRegisters = 1
    MaxEvents = 1
INVARIANTS
    CalledForTheirEvent
CHECK_DEADLOCK FALSE
