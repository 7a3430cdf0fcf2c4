SPECIFICATION Spec
CONSTANTS
    c1 = c1  c2 = c2  v1 = v1
    Clients = {c1, c2}
    Restorers = {}
    Tables = 2
    Contents = {EMPTY, v1}
    EMPTY = EMPTY
    HOLE = HOLE
    NULL = NULL
    Flaky = {}
INVARIANT SavedIsWhole
