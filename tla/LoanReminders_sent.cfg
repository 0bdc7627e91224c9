SPECIFICATION LiveSpec
CONSTANTS
    Loans = {l1}  Editors = {e1}   Null = Null
    Processes = {p1, p2}  MaxFaults = 2
INVARIANTS TypeOK NoSilentLoss FlaggedOnceMailed
PROPERTIES RemindersGoOut
CHECK_DEADLOCK FALSE
