SPECIFICATION Spec
CONSTANTS
    Groups = {g1, g2}
    Users = {u1, u2}
    Invites = {}
    Rows = {m1, m2, m3, m4}
    Requests = {p1, p2}
    Sweepers = {}
    Cap = 1
    MaxFailures = 1
    Null = Null
SYMMETRY Symmetry
CHECK_DEADLOCK FALSE
INVARIANTS
    WithinCap
PROPERTIES
    KeepsAnOwner
