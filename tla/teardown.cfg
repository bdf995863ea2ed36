SPECIFICATION Spec
CONSTANTS
    ClientEnabled = TRUE
    ConfigMaps = {"infra"}
    KeyedGens = {}
    Foreign = {"ClusterClient"}
    InitialRefs = {}
    MayDropRefs = FALSE
    Foreground = {FALSE}
    Blockable = {}
    Drifting = {}
    Obstacles = {}
    MaxGen = 1
    MaxFaults = 0
    Lagging = {"Cluster"}
    Pauses = 0
    Crashes = 1
    Drifts = 0
    Blocks = 0
    Touches = 0
    Budget <- MCBudget
ACTION_CONSTRAINT
    Prompt
INVARIANTS
    NoAwaitedOrphan
PROPERTIES
    TeardownOrder
    CcmKeepsClient
CHECK_DEADLOCK FALSE
