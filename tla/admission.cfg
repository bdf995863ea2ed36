SPECIFICATION FairSpec
CONSTANTS
    Modes = {"cluster-pool", "multi-pool"}
    Unset = "unset"
    NoNetwork = "none"
INVARIANTS
    ModeOnceSetStays
    BackfillIsAdmitted
PROPERTIES
    OperatorKeepsEdits
    DeletionIsAdmitted
CHECK_DEADLOCK FALSE
