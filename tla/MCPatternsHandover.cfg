SPECIFICATION Spec
CONSTANTS
    Scenarios <- Handover
    IdSpan = 8
INVARIANT PatternAssertions
CHECK_DEADLOCK FALSE
