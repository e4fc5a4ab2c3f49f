SPECIFICATION ServeSpec
CONSTANTS
    t1 = t1
    js1 = js1
    js2 = js2
    T = T
    empty = empty
    K = K
    e = e
    bad = bad
    Thread = {t1}
    Script = {js1, js2}
    Type = {T}
    Empty = empty
    ProjId = {1}
    Defining = {js1, js2}
    Broken = {}
    Failing = {}
    StreamId = {1, 2}
    Kind = {K}
    Event = {e, bad}
    BadPayload = {bad}
    MaxLog <- MCMaxLog
    StackLimit = 8
    MaxPlays = 2
INVARIANTS
    UntypedComesBack
    TypedListsRight
    ServeTypeOK
    RightSource
    AbortHasReason
    FirstPlayWorks
PROPERTIES
    RightEvents
CHECK_DEADLOCK FALSE
SYMMETRY Symmetry
