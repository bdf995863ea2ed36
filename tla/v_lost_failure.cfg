SPECIFICATION Spec
CONSTANTS
    ClientEnabled = FALSE
    ConfigMaps = {"infra"}
    KeyedGens = {}
    Foreign = {}
    InitialRefs = {}
    MayDropRefs = FALSE
    Foreground = {}
    Blockable = {"CcmCsrc"}
    Drifting = {}
    Obstacles = {"template"}
    MaxGen = 1
    MaxFaults = 0
    Lagging = {}
    Pauses = 0
    Crashes = 0
    Drifts = 0
    Blocks = 1
    Touches = 1
    Budget <- MCBudget
ACTION_CONSTRAINT
    Prompt
INVARIANTS
    TerminalErrorIsReported
CHECK_DEADLOCK FALSE
