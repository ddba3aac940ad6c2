\* One user, two tabs, two requests in the service at once, three refresh tokens, one fault.
SPECIFICATION FairSpec
CONSTANTS
    Users = {u1}
    NoUser = NoUser
    Tabs = {t1, t2}
    Nobody = Nobody
    MaxCalls = 2
    MaxTokens = 3
    MaxFaults = 1
INVARIANTS TypeOK OneSuccessor RevokedIsDead SignedOutForCause RenewalUnderWay
PROPERTY GuardDecides
CHECK_DEADLOCK FALSE
