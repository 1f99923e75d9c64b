SPECIFICATION ShellSpec
CONSTANTS
    RowLimit = 2
    MaxNotices = 2
    MaxInbox = 2
    MaxSignals = 2
    Apps = {a}
    Nobody = Nobody
    MaxLives = 2
    MaxRegistrations = 2
    MaxTrayQueue = 3
    TrayItems = {i, j}
    Outputs = {p, q}
    Root = r
    Submenus = {s, t}
    MaxDepth = 3
    MaxFetches = 3
    NoMenu = NoMenu
    MaxWindow = 2
    X11 = {1, 2}
    MaxProcess = 2
    MaxBatches = 2
    Objects = {a}
    Main = Main
    MaxReadings = 2
    Videos = {p, q}
    NoVideo = NoVideo
    Broken = Broken
    MaxGeneration = 3
    Programs <- MCPrograms
    Found = {"b", "quit"}
    OpenWindows = {"w"}
    MaxResults = 3
    RowsShown = 2
    MaxQuery = 2
    Owners = {a, b}
    MaxEntries = 1
    MaxAsked = 2
    MaxMail = 2
    MaxTakeovers = 2
    MaxJumps = 4
    Sinks = {s, t}
    Levels = {1, 2}
    NoSink = NoSink
    MaxEvents = 3
    MaxLines = 1
    Networks = {n, u}
    Unsupported = {u}
    Adapters = {x, y}
    NoArgument = NoArgument
    MaxService = 2
    MaxPaths = 2
    MaxActs = 3
INVARIANTS
    NotificationsSound
    TrayShown
    PanelsSound
    LabelsSettle
    SurfacesSound
CHECK_DEADLOCK FALSE
