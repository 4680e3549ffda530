SPECIFICATION PresenceSpec
CONSTANTS
    Client = {a, b}
    MaxLinks = 3
    MaxRenewals = 2
    MaxFaults = 1
    Waiting = 2
SYMMETRY Sym
INVARIANTS
    ClocksStayClose
    TwoStatesAreEnough
    NoGhosts
CHECK_DEADLOCK FALSE
