SPECIFICATION FairSpec
CONSTANTS
    c1 = c1  c2 = c2  r1 = r1  r2 = r2  s1 = s1  a1 = a1
    Clients = {c1, c2}
    Account <- SameAccount
    Rooms = {r1}
    Slots = {s1}
    Users = {a1}
    Stranger = Stranger
    NULL = NULL
    SqlErrors = TRUE
    ForeignKey = TRUE
    MaxUse = 1
INVARIANT TypeOK
PROPERTIES HandlersReturn HandlersAdvance OnlyErrorsBreakRooms
