SPECIFICATION CapSpec
CONSTANTS
    Output = Output
    Sources = {Output, window}
    Windows = {window}
    Others = {client}
    MaxStarts = 1
    KillMayFail = FALSE
    MaxLocks = 0
    MaxSessions = 2
    MaxPending = 2
INVARIANTS
    EngineShowsSource
CHECK_DEADLOCK FALSE
