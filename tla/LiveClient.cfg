SPECIFICATION LiveSpec
CONSTANTS
    Event <- MCEvent
    FirstPage = 2
    MaxEvents = 2
    MaxAlerts = 1
    Capacity = 2
    Nothing = Nothing
    MaxSent = 4
    MaxFailures = 1
INVARIANTS RowsAreUnique MissingHasAReason
PROPERTIES Reconnects
CHECK_DEADLOCK FALSE
