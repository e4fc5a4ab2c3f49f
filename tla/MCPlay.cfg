SPECIFICATION Spec
CONSTANTS
    Thread = {t1}
    Script = {good, failing, silent, invalid}
    Defining = {good, failing, invalid}
    Broken = {invalid}
    Failing = {failing}
    Event = {e1, e2, bad}
    BadPayload = {bad}
    MaxEvents = 3
    StackLimit = 8
    t1 = t1
    good = good
    failing = failing
    silent = silent
    invalid = invalid
    e1 = e1
    e2 = e2
    bad = bad
INVARIANTS
    TypeOK
    ResultIsFold
    BaseUntouched
    ResidueOfPlay
PROPERTIES
    SoundShortPlayWorks
CHECK_DEADLOCK FALSE
