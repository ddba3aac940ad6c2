\* Orders of one account, accepted one after the other and sent by two threads.
SPECIFICATION Spec
CONSTANTS
    b1 = b1  s1 = s1  s2 = s2  e1 = e1  e2 = e2
    Orders = {s1, s2}
    Sells = {s1, s2}
    Quantity <- MCQuantity
    OpeningPosition = 1
    Executors = {e1, e2}
    NoOne = NoOne
    Garbage = Garbage
    MaxAttempts = 2
    MaxPollRecords = 2
    MaxFaults = 2
SYMMETRY ExecutorSymmetry
PROPERTY ExecutedAsAccepted
CHECK_DEADLOCK FALSE
