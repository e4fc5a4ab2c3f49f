SPECIFICATION Spec
CONSTANTS
    Proc = {server, shell}
    Shell = {shell}
    StreamId = {0, 1, 2}
    EventId = {1, 2, 3}
    Version = {0, 1, 2, 3}
    Type = {T}
    Data = {d, e}
    MaxOpens = 3
    Exclusive = TRUE
    server = server
    shell = shell
INVARIANTS
    TriggerSeesAll
PROPERTIES
    ImplementsLog
CHECK_DEADLOCK FALSE
