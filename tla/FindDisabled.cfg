SPECIFICATION Spec
CONSTANTS
    p1 = p1
    p2 = p2
    d1 = d1
    d2 = d2
    Names = {p1, p2}
    Devices = {d1, d2}
    States = {"off", "raw"}
    Lines <- TwoPorts
    Fds = {3, 4, 5, 6, 7, 8}
    Slots = {1, 2}
    Slot <- OwnSlot
    MaxStrays = 1
CHECK_DEADLOCK FALSE
INVARIANT
    DisabledNotAccepting
