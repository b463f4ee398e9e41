SPECIFICATION KeypadFairSpec
CONSTANT
    Keys = {k1, k2}
INVARIANT
    KeyFollowsLine
PROPERTY
    RestSeen
