SPECIFICATION FairSpec
CONSTANTS
    Absent = Absent
    Torn = Torn
    NBlocks = 3
    Slots = 2
    Interval = 2
    MaxRetries = 1
    MaxRuns = 2
INVARIANTS ExporterInv CompleteRunHasNoGap
PROPERTIES RunsEnd
CHECK_DEADLOCK FALSE
