\* One customer verified twice, one relay, two attempts, two registrations at once, two faults.
SPECIFICATION FairSpec
CONSTANTS
    a1 = a1
    Accounts = {a1}
    NoAccount = NoAccount
    OthersAccount = OthersAccount
    Backlog <- MCBacklog
    Relays = {r1}
    Attempts = 2
    Names = {n1, n2}
    Taken = {n2}
    MaxMints = 2
    MaxVisitors = 2
    MaxFaults = 2
INVARIANTS TypeOK OneLiveLink UsedTokenIsLogin OneMail LatestLinkLives
PROPERTIES VerifiedIsMailed RegistrationAnswered
CHECK_DEADLOCK FALSE
