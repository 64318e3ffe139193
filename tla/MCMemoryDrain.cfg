SPECIFICATION SpaceSpec
CONSTANTS
    h1 = h1  h2 = h2
    Thread = {t1, t2}
    Pages = 4
    MapRequest <- MCMapRequest
    CallRange <- EveryRange
    InitialRegions <- MCInitialRegions
    Public = public
    Connection = connection
    PublicPermits = 3
    MaxRegions = 3
    MaxTransactions = 2
    MaxChanges = 2
SYMMETRY Moving
CHECK_DEADLOCK FALSE
INVARIANT
    DrainLeavesNoView
