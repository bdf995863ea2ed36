SPECIFICATION Spec
CONSTANTS
    ClientEnabled = FALSE
    ConfigMaps = {"infra"}
    KeyedGens = {}
    Foreign = {}
    InitialRefs = {}
    MayDropRefs = FALSE
    Foreground = {}
    Blockable = {}
    Drifting = {}
    Obstacles = {}
    MaxGen = 2
    MaxFaults = 0
    Lagging = {"ClusterClaim"}
    Pauses = 1
    Crashes = 0
    Drifts = 0
    Blocks = 0
    Touches = 0
    Budget <- MCBudget
ACTION_CONSTRAINT
    Prompt
INVARIANTS
    FinalizerBeforeResources
    ReadyMeansApplied
    PauseHoldsEditsBack
CHECK_DEADLOCK FALSE
