SPECIFICATION Spec
CONSTANTS
    Calls <- FewCalls
    None = None
    Nil = Nil
    NotFound = NotFound
    MaxFaults = 1
INVARIANT NonceSetOnUnlock
CHECK_DEADLOCK FALSE
