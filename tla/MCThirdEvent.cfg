SPECIFICATION Spec
CONSTANTS
    Thread = {t1}
    Script = {good}
    Defining = {good}
    Broken = {}
    Failing = {}
    Event = {e1}
    BadPayload = {}
    MaxEvents = 3
    StackLimit = 10
    t1 = t1
    good = good
    e1 = e1
INVARIANTS
    WholeStreamIsPlayed
CHECK_DEADLOCK FALSE
