\* A strategy stopped at its limits, and the late rejection of an earlier order.
SPECIFICATION Spec
CONSTANTS
    Quotes = {q1, q2}
    Instances = {i1, i2}
    Nobody = Nobody
    MaxFailures = 3
    MaxCrashes = 0
SYMMETRY Symmetry
PROPERTY StoppedUntilEnabled
CHECK_DEADLOCK FALSE
