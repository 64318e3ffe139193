SPECIFICATION Spec
CONSTANTS
    Job = {1, 2, 3}
    Proc = {1, 2}
    Maker = {m1}
    MaxDepth = 3
    Target = 2
    PageSize = 1
    Stalls = 2
    Renewals = 1
INVARIANTS
    SealedEmptyIsDead
CHECK_DEADLOCK FALSE
