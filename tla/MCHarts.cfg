SPECIFICATION SumSpec
CONSTANTS
    Owners = {"h1", "h2"}
    SLOTS = 2
    MaxGen = 2
    Partitions <- MCPartitions
INVARIANTS
    TokensMatch
    QueuesExact
    HartsAwake
PROPERTIES
    HartsProgress
