SPECIFICATION SyncSpec
CONSTANTS
    c1 = c1 c2 = c2 c3 = c3 c4 = c4 c5 = c5 None = None
    Waits = {c1, c2, c3}
    Posts = {c4, c5}
    Leavers = {c2, c3}
    Stoppable = {c3}
    Permits = 1
    NoCall = NoCall
INVARIANTS
    PermitsExact RwSafe WaitsJustified
PROPERTIES
    WaitEnds ImplementsSemaphore SignalReaches FiredStays RwCompletes
    AllWake
