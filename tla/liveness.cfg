SPECIFICATION FairSpec
CONSTANTS
    ClientEnabled = FALSE
    ConfigMaps = {"infra"}
    KeyedGens = {}
    Foreign = {"ClusterInfra"}
    InitialRefs = {}
    MayDropRefs = FALSE
    Foreground = {FALSE}
    Blockable = {}
    Drifting = {}
    Obstacles = {}
    MaxGen = 1
    MaxFaults = 1
    Lagging = {}
    Pauses = 0
    Crashes = 0
    Drifts = 0
    Blocks = 0
    Touches = 0
    Budget <- MCBudget
ACTION_CONSTRAINT
    Prompt
PROPERTIES
    ImplementsLifecycle
    EventuallyReady
    DeletionCompletes
CHECK_DEADLOCK FALSE
