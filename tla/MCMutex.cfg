SPECIFICATION BlockSpec
CONSTANTS
    c1 = c1 c2 = c2 c3 = c3 p1 = p1 v1 = v1 v2 = v2 NoPark = NoPark Co = Co
    Calls = {c1, c2, c3}
    Coroutines = {c2, c3}
    Shielded = {c3}
    NoCall = NoCall
INVARIANTS
    IInv MutualExclusion FifoHandOff
PROPERTIES
    LockCompletes CancelCompletes ImplementsLock UnparkResumes
    CancelResumes DropEndsUncanceled
