SPECIFICATION Spec
CONSTANTS
    Partition = {1}
    PartitionOf <- MCOnePartition
    Network = {"USGS", "EMSC"}
    NetworkOf <- MCNetworkOf
    Message <- MCFailing
    Close <- MCClose
    Window = 1
    NoRow = NoRow
    AnalysisWrites = {}
    MaxLog = 2
    MaxRestarts = 0
    MaxFaults = 1
    Feature <- MCFeature
    Absent = Absent
    NaN = NaN
    Garbage = Garbage
    PrefixLength = 5
    MaxText = 600
INVARIANTS UnroutedIsRedelivered
CHECK_DEADLOCK FALSE
