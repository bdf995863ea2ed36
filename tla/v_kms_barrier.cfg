SPECIFICATION Spec
CONSTANTS
    ClientEnabled = TRUE
    ConfigMaps = {"infra"}
    KeyedGens = {2}
    Foreign = {"VaultClaim"}
    InitialRefs = {"VaultClaim"}
    MayDropRefs = FALSE
    Foreground = {}
    Blockable = {}
    Drifting = {"VaultClaim"}
    Obstacles = {}
    MaxGen = 2
    MaxFaults = 0
    Lagging = {"VaultClaim"}
    Pauses = 0
    Crashes = 0
    Drifts = 0
    Blocks = 0
    Touches = 0
    Budget <- MCBudget
ACTION_CONSTRAINT
    Prompt
PROPERTIES
    ClientClusterStartsLast
CHECK_DEADLOCK FALSE
