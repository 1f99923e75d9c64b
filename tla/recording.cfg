SPECIFICATION RecordingSpec
CONSTANTS
    Output = Output
    Sources = {Output, window, region}
    Windows = {window}
    MaxStarts = 3
    KillMayFail = TRUE
    MaxLocks = 2
    Peers = {hook, other}
    Hook = hook
    QueueLimit = 1
    MaxPackets = 5
    MaxInFlight = 2
    MaxPts = 1
    Pool = 2
    Backlog = 1
    InPipeline = 2
    FillLimit = 1
    MaxClock = 2
    MaxOrders = 2
    MaxMishaps = 1
INVARIANTS
    RecInv
    LockedMeansStopped
    RecordingSound
PROPERTIES
    DeathNoticed
    StopEnds
    EndsWithItsHook
CHECK_DEADLOCK FALSE
