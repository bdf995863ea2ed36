SPECIFICATION Spec
CONSTANTS
    ClientEnabled = FALSE
    ConfigMaps = {"infra", "system"}
    KeyedGens = {}
    Foreign = {"ClusterInfra"}
    InitialRefs = {"RemoteConfig"}
    MayDropRefs = TRUE
    Foreground = {TRUE, FALSE}
    Blockable = {"RemoteConfig", "CcmCsrc"}
    Drifting = {}
    Obstacles = {"template", "rejected"}
    MaxGen = 2
    MaxFaults = 1
    Lagging = {}
    Pauses = 0
    Crashes = 0
    Drifts = 0
    Blocks = 1
    Touches = 1
    Budget <- MCBudget
ACTION_CONSTRAINT
    Prompt
    Apart
INVARIANTS
    QuiescenceIsReported
    ReadyMeansApplied
    ReadyHasNoFalseCondition
PROPERTIES
    TeardownOrder
    RemoteMapsGoFirst
CHECK_DEADLOCK FALSE
