SPECIFICATION LiveSpec
CONSTANTS
    Groups = {g1}
    Users = {u1, u2}
    Invites = {i1}
    Rows = {m1, m2, m3}
    Requests = {p1}
    Sweepers = {w1}
    Cap = 1
    MaxFailures = 1
    Null = Null
CHECK_DEADLOCK FALSE
PROPERTIES
    PurgeEnds
