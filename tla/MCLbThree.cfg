\* Three pipes: one closes while another one holds the first part of a message.
SPECIFICATION Spec
CONSTANTS
    Pipes = {p1, p2, p3}
    MaxMsgs = 3
    MaxParts = 2
    NonBlocking = FALSE
INVARIANTS WholeMessages
CHECK_DEADLOCK FALSE
