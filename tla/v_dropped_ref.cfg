SPECIFICATION Spec
CONSTANTS
    ClientEnabled = FALSE
    ConfigMaps = {"infra"}
    KeyedGens = {}
    Foreign = {}
    InitialRefs = {"S3BucketClaim"}
    MayDropRefs = TRUE
    Foreground = {FALSE}
    Blockable = {}
    Drifting = {}
    Obstacles = {}
    MaxGen = 2
    MaxFaults = 0
    Lagging = {}
    Pauses = 0
    Crashes = 0
    Drifts = 0
    Blocks = 0
    Touches = 0
    Budget <- MCBudget
ACTION_CONSTRAINT
    Prompt
INVARIANTS
    NoAwaitedOrphan
CHECK_DEADLOCK FALSE
