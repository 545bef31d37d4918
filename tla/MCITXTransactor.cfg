SPECIFICATION FairSpec
CONSTANTS
    Calls <- MCCalls
    None = None
    Nil = Nil
    NotFound = NotFound
    MaxFaults = 3
INVARIANT TypeOK
INVARIANT GapFree
INVARIANT NonceUnique
PROPERTY EventuallySettled
CHECK_DEADLOCK FALSE
