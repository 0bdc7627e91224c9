SPECIFICATION Spec
ACTION_CONSTRAINT CalmStep
CONSTANTS
    Groups = {g1}
    Users = {u1, u2}
    Invites = {i1}
    Rows = {m1, m2, m3}
    Requests = {p1, p2}
    Sweepers = {}
    Cap = 1
    MaxFailures = 1
    Null = Null
SYMMETRY Symmetry
CHECK_DEADLOCK FALSE
INVARIANTS
    TypeOK
PROPERTIES
    RedeemedByOne
    NotUsedInVain
