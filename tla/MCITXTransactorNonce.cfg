SPECIFICATION Spec
CONSTANTS
    Calls <- FewCalls
    None = None
    Nil = Nil
    NotFound = NotFound
    MaxFaults = 1
INVARIANT NonceValid
CHECK_DEADLOCK FALSE
