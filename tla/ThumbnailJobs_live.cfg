SPECIFICATION LiveSpec
CONSTANTS
    Jobs = {1, 2}  Files = {f1}  Users = {u1}  Requests = {p1}  Goroutines = {g1, g2}
    Cap = 2  MaxAttempts = 2  MaxStops = 1  Null = Null
INVARIANTS TypeOK OneGeneration
PROPERTIES JobsEnd SlotsComeBack
CHECK_DEADLOCK FALSE
