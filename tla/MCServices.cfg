SPECIFICATION SumSpec
INVARIANTS
    TreesSound
    WatchesTold
    ThreadsReaped
PROPERTIES
    SessionsEnd
CHECK_DEADLOCK FALSE
