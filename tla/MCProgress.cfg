SPECIFICATION SumSpec
CONSTANTS
    Offerers = {"t1", "t2"}
    Installer = "installer"
    MaxEpoch = 2
INVARIANTS
    OneCompletionOwner
    NoneLostWhenVisible
    DrainIsOne
    RuntimeIsExact
PROPERTIES
    ImplementsWaitOnce
    BootIsWhole
    RunnelIsStream
    WorkEnds
