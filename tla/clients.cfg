SPECIFICATION ClientsSpec
CONSTANTS
    Outputs = {o1, o2}
    Clients = {c1}
    NoClient = NoClient
    Gone = Gone
    MaxGeneration = 1
    MaxHotplug = 1
    MaxSwitch = 0
    Callers = {a, b}
    Subs = {s1}
    Nobody = Nobody
    MaxLive = 2
    QueueCap = 1
    MaxVersion = 4
INVARIANTS
    ClientsSound
PROPERTIES
    LockConfirmed
    DesktopReturns
    SubscriberCatchesUp
    HangUpReleases
CHECK_DEADLOCK FALSE
