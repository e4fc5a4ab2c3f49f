SPECIFICATION Spec
CONSTANTS
    Script = {js1, js2}
    Type = {t1, t2}
    Empty = empty
    ProjId = {1, 2, 3}
    js1 = js1
    js2 = js2
    t1 = t1
    t2 = t2
    empty = empty
INVARIANTS
    EveryProjectionIsPlayable
