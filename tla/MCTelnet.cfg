SPECIFICATION Spec
CONSTANTS
    Messages <- SomeMessages
    DevBytes = {"a", "IAC"}
    BufSize = 4
    MaxCmd = 4
    MaxXmit = 10
    MaxUnits = 3
CHECK_DEADLOCK FALSE
INVARIANTS
    TypeOK
    UpExact
    CrashOnlyUnhandled
    ClientReads
