SPECIFICATION Spec
CONSTANTS
    Offerers = {t1, t2}
    Installer = installer
    MaxEpoch = 1
INVARIANTS
    NoLostCompletion
