SPECIFICATION Spec
CONSTANTS
    Configs <- RawStrings
    Timeouts = {0}
    BufSize = 2
    CmdSize = 1
    MaxBytes = 3
CHECK_DEADLOCK FALSE
INVARIANT
    AllDataTransferred
