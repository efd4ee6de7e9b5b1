SPECIFICATION FairSpec
CONSTANTS
    p1 = p1 p2 = p2 v1 = v1 v2 = v2
    Parks = {p1}
    Wakers = {v1}
    Target <- OneTarget
    IgnoreCancel = {}
    Shield = FALSE
    OtherUnwinds = FALSE
    Timeouts = {FALSE}
    MaxCalls = 1
    MaxCancels = 1
    NoPark = NoPark
    Co = Co
PROPERTIES DropEnds
