SPECIFICATION Spec
CONSTANTS
    c1 = c1  c2 = c2  boss = boss  admin = admin  novice = novice  v1 = v1
    Clients = {c1}
    Ids = {boss, admin, novice}
    Values = {v1}
    NULL = NULL
    First = First
    Start <- StartAll
    SqlErrors = FALSE
PROPERTY EditGivesAnOffer
