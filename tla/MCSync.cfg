SPECIFICATION Spec
CONSTANTS
    Node = {m, n}
    Event = {e1, e2, e3}
    NoEvent = NoEvent
    Session = {s1}
    Ranges <- MCRanges
    Window = 3
    Limit = 2
    ChanCap = 1
    MaxFaults = 1
SYMMETRY Symmetry
INVARIANTS
    RoundsArriveInOrder
    CompleteBelowLast
CHECK_DEADLOCK FALSE
