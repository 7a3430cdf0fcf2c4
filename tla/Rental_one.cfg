SPECIFICATION Spec
CONSTANTS
    c1 = c1  c2 = c2  r1 = r1  r2 = r2  m1 = m1  m2 = m2  m3 = m3  u1 = u1  u2 = u2
    Clients = {c1, c2}
    Rooms = {r1, r2}
    Machines = {m1, m2}
    RoomOf <- MCRoomOf
    Users = {u1}
    Stranger = Stranger
    NULL = NULL
    Manages <- FirstManages
    Super = {c1}
    SqlErrors = FALSE
    ForeignKey = FALSE
    MaxTime = 1
    MaxTouches = 1
INVARIANTS OneMachinePerUser NoCrash
PROPERTIES NoTakeover NeverRentDisabled EndsShownRental RentReportsTrue RentalsEndBilled DeskSpec
