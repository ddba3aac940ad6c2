\* One tab, two users, two requests in the service at once, three refresh tokens, no fault.
SPECIFICATION Spec
CONSTANTS
    Users = {u1, u2}
    NoUser = NoUser
    Tabs = {t1}
    Nobody = Nobody
    MaxCalls = 2
    MaxTokens = 3
    MaxFaults = 0
INVARIANT SignOutStopsRenewal
CHECK_DEADLOCK FALSE
