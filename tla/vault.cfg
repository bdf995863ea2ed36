SPECIFICATION Spec
CONSTANTS
    ClientEnabled = TRUE
    ConfigMaps = {"infra"}
    KeyedGens = {1}
    Foreign = {}
    InitialRefs = {"VaultClaim"}
    MayDropRefs = FALSE
    Foreground = {}
    Blockable = {}
    Drifting = {"VaultClaim"}
    Obstacles = {}
    MaxGen = 2
    MaxFaults = 0
    Lagging = {"VaultClaim"}
    Pauses = 0
    Crashes = 0
    Drifts = 1
    Blocks = 0
    Touches = 0
    Budget <- MCBudget
ACTION_CONSTRAINT
    Prompt
    Apart
INVARIANTS
    TypeOK
    ReadyMeansApplied
    ReadyHasNoFalseCondition
PROPERTIES
    ClientClusterStartsLast
CHECK_DEADLOCK FALSE
