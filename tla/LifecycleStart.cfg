SPECIFICATION Spec
CONSTANTS
  Lease = {l1}
  MaxTid = 3
  MaxThreads = 3
  ShellMembers = 1
  EarlyUse = TRUE
INVARIANT ReadyIsQueued
