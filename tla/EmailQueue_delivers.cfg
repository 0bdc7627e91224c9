SPECIFICATION FairSpec
CONSTANTS
    Mails = {m1, m2, m3}  Broken = {m3}  Processes = {p1, p2}
    Workers = 1  Capacity = 1  MaxRetries = 2  MaxFaults = 2
INVARIANTS TypeOK OnePlace
PROPERTIES Delivered
CHECK_DEADLOCK FALSE
