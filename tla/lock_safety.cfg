SPECIFICATION Spec
CONSTANTS
    Outputs = {o1, o2}
    Clients = {c1, c2}
    NoClient = NoClient
    Gone = Gone
    MaxGeneration = 2
    MaxHotplug = 1
    MaxSwitch = 1
SYMMETRY AllSymmetry
INVARIANTS
    LockCoversOutputs
    CountedFramesAreOnScreen
    ConfirmedMeansHidden
    LockInv
PROPERTIES
    ImplementsPromise
CHECK_DEADLOCK FALSE
