CONSTANTS
    NKeys = 9
    SlotOf <- MCSlotOf
    Workloads <- MCLists
    Schemes = {"nezha", "variable", "cg"}
SPECIFICATION Spec
INVARIANTS
    TypeOK
    QueueInv
    EveryQueueOnce
    ReadersFirst
    NoLostUpdate
    LastWriterStored
    CyclesBroken
    CommitOrderSerializable
PROPERTIES
    QueueSorted
    CyclesFound
    SchemesEnd
