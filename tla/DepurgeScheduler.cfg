CONSTANTS
    NTx = 4
    k1 = k1
    k2 = k2
    k3 = k3
    Keys <- TwoKeys
SPECIFICATION FairSchedSpec
INVARIANTS
    KeyExclusion
    NoStall
    NothingLeftBehind
    SchedInv
PROPERTIES
    ImplementsOrderedLocks
    AllFinish
CHECK_DEADLOCK FALSE
