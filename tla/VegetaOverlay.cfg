SPECIFICATION FairSpec
CONSTANTS
    k1 = k1
    k2 = k2
    TxOrder <- ThreeTxs
    BlockSizes <- MCBlockSizes
    PoolSize = 2
    Keys <- MCKeys
    SpecSets <- MCSpecSets
    RealSets <- MCRealSets
INVARIANTS OverlayInv SerialEquivalence DeltaIsSerialState EveryTxDecided
PROPERTIES EventuallyDone
