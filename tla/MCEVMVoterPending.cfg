SPECIFICATION Spec
CONSTANTS
    r1 = r1
    r2 = r2
    Relayers = {r1, r2}
    Subscribed = {r1, r2}
    Proposals <- OneProposal
    Threshold = 2
    MaxShouldVoteChecks = 1
    MaxSimulateVoteChecks = 1
    MaxFaults = 0
    MaxRestarts = 0
PROPERTY DecreasesWhenMined
CHECK_DEADLOCK FALSE
