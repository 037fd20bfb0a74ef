CONSTANTS
    App = {s1}
    Helper = {h1, h2}
    MaxSockets = 2
    MaxSignals = 0
    MaxOwed = 2
    Concurrent = TRUE
    None = None
SPECIFICATION Spec
PROPERTY TermReturns
\* the hang leaves nothing to do
CHECK_DEADLOCK FALSE
