SPECIFICATION SumSpec
CONSTANTS
    h1 = h1  h2 = h2  t1 = t1  t2 = t2  big = big  WORK = WORK  NoThread = NoThread
    Hart = {h1, h2}
    Thread = {t1, t2}
    Domain = {big}
    DomainOf <- OneDomain
    WorkHart = h1
    MaxTime = 1
    Until = {1, 2}
    CanStop = FALSE
    CanMiss = TRUE
SYMMETRY Alike
INVARIANTS
    DomainAwake
    SafePointsShare
    TimeKept
    TableExact
    
    PoolsExact
    SupplyExact
PROPERTIES
    JobsEnd
