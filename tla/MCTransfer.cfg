SPECIFICATION Spec
CONSTANTS
    Base = 4
    Word = 2
    Addr = 1
    Ten = 3
    Values = {0, 1, 5, 9, 15}
    Recipients <- MCRecipients
    Metadata <- MCMetadata
    Calldata <- MCCalldata
    Tails <- MCTails
    Decimals <- MCDecimals
    LowestTip = 2
    Prices = {0, 1, 3, 6, 7, 13}
    Factors <- MCFactors
    Precision = 6
    MinBits = 3
    Digits = {0, 1, 7, 11, 23, 99, 105}
    Places = {0, 1, 2}
    Ids = {1}
    NoId = NoId
    Blocks <- MCBlocks
    DefaultConfirmations = 5
    DefaultGas = 3
    Keys = {k1, k2}
    Passwords = {pw1, pw2}
    Processes = {p1, p2, p3}
    NoKey = NoKey
INVARIANT AmountArrives
INVARIANT DataArrives
INVARIANT PanicsOnlyOn
INVARIANT FeeUsable
INVARIANT AmountClose
INVARIANT UsableIfAccepted
INVARIANT ImportedLoads
CHECK_DEADLOCK FALSE
