SPECIFICATION RecSpec
CONSTANTS
    Output = Output
    Sources = {Output, window, region}
    Windows = {window}
    MaxStarts = 1
    KillMayFail = FALSE
    MaxLocks = 0
INVARIANTS
    ActiveStateHasProcess
CHECK_DEADLOCK FALSE
