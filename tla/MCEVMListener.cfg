SPECIFICATION FairListenerSpec
CONSTANTS
    NotFound = NotFound
    Nil = Nil
    Domains <- MCDomains
    Deposits <- MCDeposits
    SourceOf <- MCSourceOf
    BlockOf <- MCBlockOf
    Undecodable <- MCUndecodable
    StartBlock <- MCStartBlock
    BlockDelay = 1
    MaxRange = 1
    Latest = FALSE
    Fresh = FALSE
    MaxHead = 6
    MaxCrashes = 2
INVARIANT ListenerTypeOK
INVARIANT CursorCovered
INVARIANT DurableCovered
INVARIANT Confirmed
PROPERTY InLogOrder
PROPERTY EventuallySettled
PROPERTY ImplementsStream
CHECK_DEADLOCK FALSE
