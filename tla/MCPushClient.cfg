SPECIFICATION PushSpec
CONSTANTS
    server = server
    shell = shell
    ann = ann
    bob = bob
    Proc = {server, shell}
    Shell = {shell}
    StreamId = {1}
    EventId = {1, 2, 3}
    Version = {1, 2}
    Type = {T}
    Data = {ann, bob}
    Client = {ann, bob}
    MaxTries = 2
    MaxOpens = 3
    Exclusive = TRUE
INVARIANTS
    PushTypeOK
    StoredOnce
    AckedIsOnTop
PROPERTIES
    CompareAndAppend
CHECK_DEADLOCK FALSE
SYMMETRY ClientSymmetry
