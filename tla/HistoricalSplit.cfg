SPECIFICATION Spec
CONSTANTS
    Event = {"u", "v"}
    SourceOf <- MCSourceOf
    Catalogs <- MCAll
    Malformations <- MCNoMalformation
    Tick = 2
    PageLimit = 1
    Width = 4
    StartTime = 0
    EndTime = 4
    MaxRuns = 1
INVARIANTS NoGap
CHECK_DEADLOCK FALSE
