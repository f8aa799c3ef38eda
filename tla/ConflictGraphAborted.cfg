CONSTANTS
    NKeys = 5
    SlotOf <- MCSlotOf
    Workloads <- PathOnly
    Schemes = {"cg"}
SPECIFICATION Spec
INVARIANT AbortedNotCommitted
