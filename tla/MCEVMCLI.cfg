SPECIFICATION Spec
CONSTANTS
    Sender = Sender
    Relayers = {Sender, r1}
    Zero = Zero
    Bad = Bad
    Unset = Unset
    Worked = {1}
    Requests <- MCRequests
    Units = 2
    Width = 4
    Destinations = {2, 5}
    MaxCommands = 2
    MaxLater = 2
    MaxFaults = 1
INVARIANT SetupBridges
INVARIANT DeployBinds
INVARIANT Reported
CHECK_DEADLOCK FALSE
