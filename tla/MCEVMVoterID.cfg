SPECIFICATION Spec
CONSTANTS
    r1 = r1
    r2 = r2
    Relayers = {r1, r2}
    Subscribed = {r1, r2}
    Proposals <- TwoProposals
    Threshold = 2
    MaxShouldVoteChecks = 1
    MaxSimulateVoteChecks = 1
    MaxFaults = 0
    MaxRestarts = 0
INVARIANT CountsOwnVotes
CHECK_DEADLOCK FALSE
