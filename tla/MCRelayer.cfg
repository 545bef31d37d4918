SPECIFICATION FairSpec
CONSTANTS
    NotFound = NotFound
    Nil = Nil
    Domains <- MCDomains
    Deposits <- MCDeposits
    DestOf <- MCDestOf
    SourceOf <- MCSourceOf
    BlockOf <- MCBlockOf
    Undecodable <- MCUndecodable
    StartBlock <- MCStartBlock
    BlockDelay = 1
    MaxRange = 0
    Latest = FALSE
    Fresh = FALSE
    MaxHead = 3
    MaxCrashes = 1
INVARIANT Accounted
INVARIANT ResolvedIfConfigured
INVARIANT OncePerRun
PROPERTY EventuallyDecided
CHECK_DEADLOCK FALSE
