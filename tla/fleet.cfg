SPECIFICATION Spec
CONSTANTS
    Width = 4
    Versions = {v1}
    NoVersion = noversion
    NoCluster = nocluster
    NoTemplate = notemplate
    NoObject = noobject
    NoPass = nopass
    Nobody = nobody
    Claims <- MCClaims
    Clients <- MCClients
    Systems <- MCSystems
    Templates <- MCTemplates
    InitialRefs <- MCRefs
    InitialKinds <- MCKinds
    Edits <- MCEdits
    Mutable = {"vault"}
    Recreated = {"Application"}
    Reports <- MCReports
    TemplateLabels <- MCLabels
    MaxConcurrentReconciles = 1
    Provisioned <- MCProvisioned
    Budgets <- MCBudgets
    MaxLosses = 1
INVARIANTS
    RolledOut
    FailureHasACause
    ReadyHasItsObjects
    MirrorFollows
PROPERTIES
    OwnObjectsOnly
CHECK_DEADLOCK FALSE
