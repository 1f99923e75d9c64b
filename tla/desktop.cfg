SPECIFICATION DesktopSpec
CONSTANTS
    Outputs = {dp, hdmi}
    NoOutput = NoOutput
    WindowIds = {1, 2}
    Layer = Layer
    NoFocus = NoFocus
    NumSpaces = 2
    AllSpaces = 2
    RuleWs <- MCRuleWs
    RuleOut <- MCRuleOut
    CopyClients = {a}
    MaxFrames = 3
    MaxWaiting = 1
    MaxHides = 2
    Values = {v1, v2}
    Defaults = v1
    Rests = {r1, r2}
    NoFile = NoFile
    Bad = Bad
    Torn = Torn
    MaxEdits = 3
    MaxSets = 2
    MaxRestarts = 1
    MaxConfigLocks = 1
    Widths = {0, 2, 5, 30}
    Heights = {0, 1, 4, 9, 40}
    Gaps = {0, 3}
    Ratios = {10, 55, 90}
    MaxTiles = 4
    FloatRects <- MCFloatRects
    Compositors = {k1, k2, k3}
    Overlap = FALSE
    MaxBinds = 8
    Letters = {"d", "e"}
    Chords <- MCChords
    Windows = {"a", "b"}
    Layers = {"bar", "wall"}
    LayerOf <- MCLayerOf
    TakesKeys = {"bar"}
    Asks <- MCAsks
    Spots = {"p", "q"}
    Covers <- MCCovers
    NoTarget = NoTarget
    LockScreen = LockScreen
    MaxShuffles = 2
    Dragged = {"a"}
    NoWindow = NoWindow
    MaxConfigures = 2
    MaxTurns = 3
SYMMETRY OutputSymmetry
INVARIANTS
    WorkspacesSound
    LayoutRight
    ServicesSound
    OwnsSocket
    GrabsSound
PROPERTIES
    WorkspacesExchanged
    HiddenNeverCopied
    TapOpensLauncher
    ClickAgrees
CHECK_DEADLOCK FALSE
