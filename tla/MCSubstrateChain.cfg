SPECIFICATION FairSpec
CONSTANTS
    NotFound = NotFound
    Nil = Nil
    NoType = NoType
    Deposits <- MCDeposits
    BlockOf <- MCBlockOf
    KindOf <- MCKindOf
    Registered <- MCRegistered
    Handled <- MCHandled
    Upgrades = {1}
    Opaque = {3}
    StartBlock = 0
    Latest = FALSE
    Fresh = FALSE
    Messages <- MCMessages
    TypeOf <- MCTypeOf
    BlockRetryLimit = 2
    MaxHead = 3
    MaxCrashes = 1
    MaxFaults = 2
INVARIANT TypeOK
INVARIANT LostOnlyAtUpgrade
INVARIANT MetadataFollows
INVARIANT SettledIfReturned
PROPERTY ImplementsStream
PROPERTY EventuallyRead
PROPERTY EventuallyVoted
CHECK_DEADLOCK FALSE
