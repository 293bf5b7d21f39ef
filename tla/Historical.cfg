SPECIFICATION Spec
CONSTANTS
    Event = {"a", "b", "c", "u", "v"}
    SourceOf <- MCSourceOf
    Catalogs <- MCOrdered
    Malformations <- MCMalformations
    Tick = 2
    PageLimit = 1
    Width = 4
    StartTime = 0
    EndTime = 10
    MaxRuns = 2
INVARIANTS StoredUpToCursor CheckpointIsCovered
PROPERTIES RunEnds
CHECK_DEADLOCK FALSE
