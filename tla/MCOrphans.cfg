SPECIFICATION Spec
CONSTANTS
    Proc = {server, shell}
    Shell = {shell}
    StreamId = {1, 2}
    EventId = {1, 2, 3}
    Version = {0, 1, 2, 3}
    Type = {T}
    Data = {d}
    MaxOpens = 3
    Exclusive = TRUE
    server = server
    shell = shell
INVARIANTS
    NoOrphans
CHECK_DEADLOCK FALSE
