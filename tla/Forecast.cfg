SPECIFICATION Spec
CONSTANTS
    Event = {11, 12, 13}
    Mainshock = {11, 12}
    NoDepth = {13}
    Undivided = {}
    Cell = {0}
    Unmapped = {0}
    Version = {"v1", "v2"}
    FirstVersion = "v1"
    Interval <- MCInterval
    RowLimit <- MCRowLimit
    BatchLimit = 1
    MaxRestarts = 1
    MaxFaults = 1
INVARIANTS AtMostOneActive ResultsStayShown
PROPERTIES EventuallyClassified EveryTaskRuns RegistryRecovers
