SPECIFICATION SocketSpec
CONSTANTS
    Compositors = {k1, k2}
    Overlap = TRUE
    MaxBinds = 4
INVARIANTS
    OwnsSocket
CHECK_DEADLOCK FALSE
