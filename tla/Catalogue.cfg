SPECIFICATION Spec
CONSTANTS
    Partition = {1, 2}
    PartitionOf <- MCPartitionOf
    NetworkOf <- MCNetworkOf
    Report <- MCReport
    Distance <- MCDistance
    GKTime <- MCGKTime
    GKSpace <- MCGKSpace
    MaxTime = 86400
    MaxSpace = 100
    MatchTime = 1
    MatchSpace = 55
    None = None
    MaxLog = 2
    MaxRestarts = 1
    MaxFaults = 1
INVARIANTS ConsistentAtTheEnd MainshockIsReal PredecessorIsFound
CHECK_DEADLOCK FALSE
