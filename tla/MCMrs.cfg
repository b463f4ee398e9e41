CONSTANTS
    Addresses = {1, 2, 3}
    First = 1
    None = None
    Stack = Stack
    Requests <- MCRequests
    MaxFailures = 1
SPECIFICATION FairSpec
CHECK_DEADLOCK FALSE
INVARIANTS
    SendsOnSocket
    ServesWhileListening
PROPERTIES
    ImplementsBox
    StaysVisible
    Answered
    ChangeDone
