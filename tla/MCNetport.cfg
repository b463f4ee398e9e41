CONSTANTS
    Addresses = {10, 77}
    First = 10
    None = None
    Stack = 99
    Requests <- MCRequests
    Default = 77
    Unknown = 0
    NumPorts = 2
    MaxTries = 1
    MaxStarts = 2
    MaxAsked = 2
    MaxFailures = 1
SPECIFICATION FairSpec
INVARIANTS
    ConnectionsFollow
PROPERTY
    Follows
