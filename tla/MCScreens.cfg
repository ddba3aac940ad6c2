SPECIFICATION FairSpec
CONSTANTS
    TradeOrigin = TradeOrigin
    AuthOrigin = AuthOrigin
    AuthIssuer = AuthIssuer
    ExpectedIssuer = AuthIssuer
    None = None
    Questions = {q1, q2}
    MaxReads = 2
    MaxRereads = 1
    MaxVersion = 1
    MaxClicks = 2
    MaxFaults = 1
INVARIANTS TypeOK ShownIsAsked
PROPERTIES CatchesUp FallsSilent
CHECK_DEADLOCK FALSE
