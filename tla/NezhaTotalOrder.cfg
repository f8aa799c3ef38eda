CONSTANTS
    NKeys = 2
    SlotOf <- MCSlotOf
    Workloads <- BlindWriters
    Schemes = {"nezha"}
SPECIFICATION Spec
INVARIANT TotalOrder
