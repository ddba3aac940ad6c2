\* A BUY and a SELL, two executors, one reassignment and one crash.
SPECIFICATION FairSpec
CONSTANTS
    b1 = b1  s1 = s1  s2 = s2  e1 = e1  e2 = e2
    Orders = {b1,s1}
    Sells = {s1}
    Quantity <- MCQuantity
    OpeningPosition = 1
    Executors = {e1, e2}
    NoOne = NoOne
    Garbage = Garbage
    MaxAttempts = 2
    MaxPollRecords = 2
    MaxFaults = 1
PROPERTY EveryAnnouncedOrderEnds
CHECK_DEADLOCK FALSE
