SPECIFICATION Spec
CONSTANTS
    Null = Null
    Quotes <- MCQuotes
    Forms <- MCForms
    Cash = 30
    Holding = 2
    MaxIntents = 4
    MaxAttempts = 3
INVARIANTS TypeOK OncePerIntent KeyMeansOrder
CHECK_DEADLOCK FALSE
