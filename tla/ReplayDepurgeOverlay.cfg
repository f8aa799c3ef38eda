CONSTANTS
    k1 = k1
    k2 = k2
    p1 = p1
    NTx = 2
    Keys <- TwoKeys
    NBlocks = 1
    Contexts <- OneBlock
    ClaimSets <- AnyClaim
    RealSets <- AnyReal
    PoolSize = 2
    PreExecFailed <- OneFailed
SYMMETRY KeySymmetry
SPECIFICATION DriverSpec
INVARIANTS
    OverlayCurrent
CHECK_DEADLOCK FALSE
