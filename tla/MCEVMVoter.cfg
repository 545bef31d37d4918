SPECIFICATION FairSpec
CONSTANTS
    r1 = r1
    r2 = r2
    Relayers = {r1, r2}
    Subscribed = {r1}
    Proposals <- OneProposal
    Threshold = 1
    MaxShouldVoteChecks = 1
    MaxSimulateVoteChecks = 1
    MaxFaults = 1
    MaxRestarts = 1
INVARIANT TypeOK
INVARIANT SkipsOnlyFinal
PROPERTY VoteReturns
PROPERTY EventuallyPassed
CHECK_DEADLOCK FALSE
