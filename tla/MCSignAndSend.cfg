SPECIFICATION FairSpec
CONSTANTS
    Calls <- MCCalls
    None = None
    Nil = Nil
    MaxNonceRetries = 1
    MaxFaults = 3
INVARIANT TypeOK
INVARIANT NoReplacement
INVARIANT NoHole
PROPERTY TransactReturns
CHECK_DEADLOCK FALSE
