SPECIFICATION Spec
CONSTANTS
    Jobs = {1, 2}  Files = {f1, f2}  Users = {u1, u2}  Requests = {p1}  Goroutines = {g1, g2}
    Cap = 2  MaxAttempts = 2  MaxStops = 0  Null = Null
PROPERTIES RefusedAtCap
CHECK_DEADLOCK FALSE
