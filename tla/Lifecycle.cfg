\* A process with three threads over its life, two at a time, one Building lease, fair.
SPECIFICATION Spec
CONSTANTS
  Lease = {l1}
  MaxTid = 3
  MaxThreads = 2
  ShellMembers = 1
  EarlyUse = FALSE
INVARIANTS
    AssertionsHold
    LevelKept
    ReadyIsQueued
PROPERTIES
    Reaped
