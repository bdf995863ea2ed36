SPECIFICATION Spec
CONSTANTS
    ClientEnabled = FALSE
    ConfigMaps = {"infra"}
    KeyedGens = {}
    Foreign = {}
    InitialRefs = {}
    MayDropRefs = FALSE
    Foreground = {FALSE}
    Blockable = {}
    Drifting = {}
    Obstacles = {}
    MaxGen = 1
    MaxFaults = 0
    Lagging = {"CertificateSet"}
    Pauses = 0
    Crashes = 0
    Drifts = 0
    Blocks = 0
    Touches = 0
    Budget <- MCBudget
ACTION_CONSTRAINT
    Prompt
INVARIANTS
    NoOrphan
CHECK_DEADLOCK FALSE
