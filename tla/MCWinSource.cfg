SPECIFICATION Spec
CONSTANTS
    Calls <- AllCalls
    MaxOps = 1
INVARIANTS SourceIntact
