SPECIFICATION MCSpec
CONSTANTS
    MaxClients = 3
    MaxChanges = 2
    NPorts = 2
CHECK_DEADLOCK FALSE
INVARIANTS
    ChildCurrent
    OneReceiver
PROPERTIES
    PushArrives
    ChildEnds
    DeadAreReaped
