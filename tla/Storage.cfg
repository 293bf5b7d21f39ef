SPECIFICATION Spec
CONSTANTS
    Partition = {1}
    PartitionOf <- MCOnePartition
    Network = {"USGS", "EMSC"}
    NetworkOf <- MCNetworkOf
    Message <- MCMessage
    Close <- MCClose
    Window = 1
    NoRow = NoRow
    AnalysisWrites <- MCEmscOnly
    MaxLog = 3
    MaxRestarts = 1
    MaxFaults = 1
    Feature <- MCFeature
    Absent = Absent
    NaN = NaN
    Garbage = Garbage
    PrefixLength = 5
    MaxText = 600
INVARIANTS CommittedIsSettled SkippedIsOnRecord RecordsAreStorable RecordPathsAgree
PROPERTIES RowsOnlyAdvance ImplementsAtLeastOnce EventuallySettled
CHECK_DEADLOCK FALSE
