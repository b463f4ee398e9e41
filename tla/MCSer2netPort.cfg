SPECIFICATION FairSpec
CONSTANTS
    Configs <- AllConfigs
    Timeouts = {0, 1}
    BufSize = 2
    CmdSize = 2
    MaxBytes = 2
CHECK_DEADLOCK FALSE
INVARIANTS
    TypeOK
    Lossless
    NeverDuplicated
    SessionResources
    StatHonest
    CrashOnlyInStrings
PROPERTIES
    ImplementsRelay
    Delivered
    IdleSessionEnds
    ShutdownCompletes
