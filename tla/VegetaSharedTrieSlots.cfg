SPECIFICATION Spec
CONSTANTS
    k1 = k1
    k2 = k2
    k3 = k3
    TxOrder <- TwoTxs
    BlockSizes <- MCBlockSizes
    NWorkers = 2
    Keys <- MCKeys
    SpecSets <- SlotSets
    RealSets <- SlotSets
    AccountOf <- TwoAccounts
INVARIANTS TrieCarriesEveryWrite
