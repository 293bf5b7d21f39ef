SPECIFICATION Spec
CONSTANTS
    Client = {c1, c2}
    Filter <- MCFilter
    Unusable = {2}
    Capacity = 1
    MaxLog = 3
    MaxStops = 1
    MaxRejoins = 1
    MaxSubscriptions = 1
    Setting <- MCSetting
    Located <- MCLocated
    UpperOf <- MCUpperOf
    TrimOf <- MCTrimOf
    SplitOf <- MCSplitOf
    Empty <- MCEmpty
    Unset = Unset
    NoNumber = NoNumber
    Default = 0
INVARIANTS ClientGetsItsStream NoClientAfterJoin QueryAndMessageAgree
PROPERTIES ImplementsAtLeastOnce ShutdownCompletes EventuallyFannedOut
CHECK_DEADLOCK FALSE
