CONSTANTS
    NTx = 2
    Keys = {k1}
    PoolSize = 2
SPECIFICATION Spec
INVARIANT NothingDropped
CHECK_DEADLOCK FALSE
