\* Three quotes meet the rule, two instances of the service, the second failure stops, one crash.
SPECIFICATION Spec
CONSTANTS
    Quotes = {q1, q2, q3}
    Instances = {i1, i2}
    Nobody = Nobody
    MaxFailures = 2
    MaxCrashes = 1
SYMMETRY Symmetry
INVARIANTS TypeOK LastFailureStops FiringsBounded FailuresHaveRuns FiredHasOrder
PROPERTY CallsOnlyWhileArmed
CHECK_DEADLOCK FALSE
