SPECIFICATION FairSpec
CONSTANTS
    k1 = k1
    k2 = k2
    k3 = k3
    bad = bad
    Workers = {w1, w2}
    Nobody = nobody
    Idle = idle
    Empty = empty
    NoSecret = nosecret
    NoEntry = noentry
    NoClient = noclient
    NoCall = nocall
    Unusable = {bad}
    TTL = 0
    Deletable <- MCDeletable
    Holdable <- MCHoldable
    MaxWrites = 1
    Initial <- MCInitial
    Keys <- MCKeys
    Kubeconfig <- MCKubeconfig
    Hash <- MCHash
    Claims <- MCClaims
    Contents <- MCContents
INVARIANTS
    RightClient
PROPERTIES
    RecentlyUsedIsKept
    EveryCallReturns
    RotationIsFollowed
    GoneClientsAreDropped
CHECK_DEADLOCK FALSE
