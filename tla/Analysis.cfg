SPECIFICATION Spec
CONSTANTS
    Partition = {1}
    PartitionOf <- MCPartitionOf
    Message <- MCMessage
    MaxLog = 2
    MaxRestarts = 1
    MaxFaults = 2
    Magnitude <- MCMagnitude
    Depth <- MCDepth
    Unset = Unset
    Threshold = 500
INVARIANTS AlertIsEnriched AlertsRise
PROPERTIES ImplementsAtLeastOnce EnrichedInOrder EventuallySettled
CHECK_DEADLOCK FALSE
