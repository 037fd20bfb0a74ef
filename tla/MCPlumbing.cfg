SPECIFICATION MCSpec
CONSTANTS
    Senders = {s1, s2, s3}
    MaxSends = 2
    Receivers = {r1, r2}
    Pollers = {p1}
    MaxMsgs = 3
    Kinds = {"epoll", "poll", "select", "kqueue", "devpoll", "pollset"}
    Fds = {1, 2}
    MaxReg = 3
    TimerIds = {1, 2}
    Timeouts = {1}
    MaxNow = 2
    MaxOps = 4
    Rearmed = FALSE
    Sockets = {2}
    SafeSockets = {5}
    RawFds = {4}
    SignalerFd = 3
    Bases = {"poll", "select"}
    Muted = FALSE
    MaxItems = 3
    Builds <- AllBuilds
    ProxyMsgs = 2
    Hwm = 1
    MaxGone = 2
INVARIANTS IInv MailboxSafe PollerRight WaitersRight ProxyRight
PROPERTIES EveryCommandReceived EveryMessageTaken EveryTimerFires ProxyGoesOn
CHECK_DEADLOCK FALSE
