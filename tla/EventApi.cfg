SPECIFICATION Spec
CONSTANTS
    Id = {1, 2}
    Solution <- MCSolution
    Query <- MCQuery
    PageSize = 1
    NoRow = NoRow
    NoWalk = NoWalk
    MaxRequests = 2
    MaxFaults = 1
INVARIANTS WalkIsFaithful CountedOnce
PROPERTIES FreshInTheEnd
CHECK_DEADLOCK FALSE
