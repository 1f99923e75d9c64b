SPECIFICATION DesktopSpec
CONSTANTS
    Outputs = {dp, hdmi}
    NoOutput = NoOutput
    WindowIds = {1, 2}
    Layer = Layer
    NoFocus = NoFocus
    NumSpaces = 2
    AllSpaces = 2
    RuleWs <- MCRuleWs
    RuleOut <- MCRuleOut
    CopyClients = {a}
    MaxFrames = 0
    MaxWaiting = 0
    MaxHides = 0
    Values = {v1}
    Defaults = v1
    Rests = {r1}
    NoFile = NoFile
    Bad = Bad
    Torn = Torn
    MaxEdits = 0
    MaxSets = 0
    MaxRestarts = 0
    MaxConfigLocks = 0
    Widths = {2}
    Heights = {4}
    Gaps = {0}
    Ratios = {55}
    MaxTiles = 1
    FloatRects <- MCFloatRects
    Compositors = {k1}
    Overlap = FALSE
    MaxBinds = 1
    Letters = {"d", "e"}
    Chords <- MCChords
    Windows = {"a", "b"}
    Layers = {"bar", "wall"}
    LayerOf <- MCLayerOf
    TakesKeys = {"bar"}
    Asks <- MCAsks
    Spots = {"p", "q"}
    Covers <- MCCovers
    NoTarget = NoTarget
    LockScreen = LockScreen
    MaxShuffles = 0
    Dragged = {"a"}
    NoWindow = NoWindow
    MaxConfigures = 1
    MaxTurns = 0
SYMMETRY OutputSymmetry
INVARIANTS
    FullscreenFindsWindow
CHECK_DEADLOCK FALSE
