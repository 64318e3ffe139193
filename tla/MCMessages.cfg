SPECIFICATION SumSpec
CONSTANTS
    t1 = t1  t2 = t2  Actor = Actor  NoThread = NoThread
    Thread = {t1, t2}
    Cycle = {1, 2}
    Sink <- Sinks
    Persistent = {1, 2}
    Interest <- Readable
    Programs <- SmallPrograms
    MaxSerial = 2
    MaxEpoch = 2
    OBJECT_WAIT_LIMIT = 2
INVARIANTS
    SignalsArrive
    SetsExact
    TransfersExact
    TunnelsClose
    
PROPERTIES
    CallsSettle
    RegistrySound
CHECK_DEADLOCK FALSE
