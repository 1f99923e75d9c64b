SPECIFICATION ProgressSpec
CONSTANTS
    Services = {bar, wallpaper}
    MaxApps = 2
    MaxServiceStarts = 3
    SceneWindows = {w1, w2}
    Places = {p, q}
    Duration = 2
    MaxImages = 2
    MaxStirs = 4
    MaxCommits = 3
    MaxFaults = 2
    MaxSwitches = 2
    Connectors = {d1, d2, h}
    Headsets = {h}
    ModeLists <- MCModeLists
    Requests <- MCRequests
    Unplugged = Unplugged
    NoSurface = NoSurface
    MaxCables = 1
    MaxReloads = 1
    MaxAway = 2
    Gadgets = {x}
    MaxPairings = 2
    MaxRestarts = 2
INVARIANTS
    DesktopSound
    PairingSound
PROPERTIES
    ServiceComesBack
    BecomesIdle
    ScreenSettles
    PairingEnds
CHECK_DEADLOCK FALSE
