CONSTANTS
    Ports = {3000, 4002}
    Settings = {"baud", "stopsize"}
    Configured <- MCConfigured
    Allowed = {3000}
    ModemLines = {"CTS"}
    Requests <- MCRequests
    MaxXmit = 2
    MaxRequests = 3
    MaxSessions = 2
    MaxChanges = 1
SPECIFICATION FairSpec
CHECK_DEADLOCK FALSE
INVARIANTS
    SettingsAgree
    LastReport
PROPERTY
    ModemFollows
