SPECIFICATION Spec
CONSTANTS
    Users = {1}
    Calls <- AllCalls
    Cancelable = {}
    MaxYields = 2
    MaxEvents = 1
INVARIANTS OwnTimeout
