SPECIFICATION ReadSpec
CONSTANTS
    server = server
    shell = shell
    Proc = {server, shell}
    Shell = {shell}
    StreamId = {1, 2}
    EventId = {1, 2, 3}
    Version = {1, 2, 3}
    Type = {order, user}
    Data = {d}
    MaxOpens = 2
    Exclusive = TRUE
INVARIANTS
    CursorTypeOK
    RowsAreStable
PROPERTIES
    HistoryIsCurrent
    HistoriesArePrefixes
CHECK_DEADLOCK FALSE
