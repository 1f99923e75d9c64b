SPECIFICATION CapFairSpec
CONSTANTS
    Output = Output
    Sources = {Output, window}
    Windows = {window}
    Others = {client}
    MaxStarts = 2
    KillMayFail = FALSE
    MaxLocks = 1
    MaxSessions = 3
    MaxPending = 2
INVARIANTS
    CaptureSound
    HiddenCapturesNothing
    NoRepeats
PROPERTIES
    StaticScreenRecorded
CHECK_DEADLOCK FALSE
