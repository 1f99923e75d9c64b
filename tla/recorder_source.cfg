SPECIFICATION RecSpec
CONSTANTS
    Output = Output
    Sources = {Output, window, region}
    Windows = {window}
    MaxStarts = 1
    KillMayFail = FALSE
    MaxLocks = 0
PROPERTIES
    SourceStays
CHECK_DEADLOCK FALSE
