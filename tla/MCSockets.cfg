\* Two pipes to send to, three to receive from; the usual combinations of types.
SPECIFICATION Spec
CONSTANTS
    Pipes = {p1, p2}
    MaxMsgs = 3
    MaxParts = 3
    NonBlocking = FALSE
    InPipes = {q1, q2, q3}
    MaxInParts = 2
    MaxWaiting = 1
    MidMessage = FALSE
    Scenarios <- Usage
    IdSpan = 8
INVARIANTS ListsRight PatternAssertions DeliveredRight
PROPERTIES NobodyStarves EveryRequestAnswered
CHECK_DEADLOCK FALSE
