\* Two instances, five attempts, windows of two ticks, three logins at once, two failing commands.
SPECIFICATION ThrottleFairSpec
CONSTANTS
    Instances = {i1, i2}
    MaxAttempts = 5
    Window = 2
    Parallel = 3
    MaxCommandFaults = 2
INVARIANT FailuresBounded
PROPERTY Forgotten
