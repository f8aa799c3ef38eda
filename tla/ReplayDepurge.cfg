CONSTANTS
    k1 = k1
    k2 = k2
    p1 = p1
    NTx = 3
    Keys <- TwoKeys
    NBlocks = 2
    Contexts <- UnevenBlocks
    ClaimSets <- SomeClaims
    RealSets <- SomeReals
    PoolSize = 2
    PreExecFailed <- OneFailed
SPECIFICATION FairDriverSpec
INVARIANTS
    EveryTxOnce
    SerialReplayAlone
    AcquireNeverWaits
    DeltaComplete
    NoConflictInFlight
    DriverInv
PROPERTIES
    DriverObeysProtocol
    EventuallyDone
CHECK_DEADLOCK FALSE
