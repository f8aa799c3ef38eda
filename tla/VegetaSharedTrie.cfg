SPECIFICATION FairSpec
CONSTANTS
    k1 = k1
    k2 = k2
    k3 = k3
    TxOrder <- ThreeTxs
    BlockSizes <- MCBlockSizes
    NWorkers = 2
    Keys <- MCKeys
    SpecSets <- MCSpecSets
    RealSets <- MCRealSets
    AccountOf <- TwoAccounts
INVARIANTS    FlushedOrReplayed
PROPERTIES EventuallyEnds
