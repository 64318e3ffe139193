SPECIFICATION SumSpec
CONSTANTS
    h1 = h1  h2 = h2
    Thread = {t1, t2}
    Pages = 4
    MapRequest <- MCMapRequest
    CallRange <- MCCallRange
    InitialRegions <- MCInitialRegions
    Public = public
    Connection = connection
    PublicPermits = 3
    MaxRegions = 3
    MaxTransactions = 2
    MaxChanges = 3
SYMMETRY Moving
INVARIANTS
    
    SealsHold
    PagesOwned
    TranslationsCurrent
PROPERTIES
    BuildsSettle
