CONSTANTS
    Sessions = {1, 2}
    Options = {"ECHO", "COM_PORT"}
    Allowed = {1}
    MaxSessions = 3
    MaxRequests = 2
SPECIFICATION FairSpec
CHECK_DEADLOCK FALSE
INVARIANT
    Answered
PROPERTY
    NegotiationEnds
