SPECIFICATION Spec
CONSTANTS
    Thread = {t1, t2}
    Script = {good, other}
    Defining = {good, other}
    Broken = {}
    Failing = {}
    Event = {e1, e2}
    BadPayload = {}
    MaxEvents = 2
    StackLimit = 10
    t1 = t1
    t2 = t2
    good = good
    other = other
    e1 = e1
    e2 = e2
INVARIANTS
    ResultIsFold
CHECK_DEADLOCK FALSE
