SPECIFICATION Spec
CONSTANTS
    p1 = p1 p2 = p2 v1 = v1 v2 = v2
    Parks = {p1, p2}
    Wakers = {v1, v2}
    Target <- TwoTargets
    IgnoreCancel = {p2}
    Shield = FALSE
    OtherUnwinds = TRUE
    Timeouts = {FALSE, TRUE}
    MaxCalls = 2
    MaxCancels = 1
    NoPark = NoPark
    Co = Co
INVARIANTS ParkSafe NoLostUnpark
