SPECIFICATION Spec
CONSTANTS
    Kinds = {"epoll"}
    Fds = {1, 2}
    MaxReg = 3
    TimerIds = {1, 2}
    Timeouts = {1}
    MaxNow = 2
    MaxOps = 4
    Rearmed = TRUE
INVARIANT CancelledIsQuiet
CHECK_DEADLOCK FALSE
