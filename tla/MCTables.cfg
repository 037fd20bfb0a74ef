SPECIFICATION AllSpec
CONSTANTS
    Pipes = {p1, p2}
    Third = p3
    Topics <- MCTopics
    MsgTopics <- MCMsgTopics
    Options = {}
    Type = "XPUB"
    Peers = {"all", "user", "data"}
    MaxMsgs = 2
    MaxParts = 2
    MaxRequests = 1
    UCHAR_MAX = 4
    LONG = 2
    BUF = 7
    max_vsm_size = 2
    Buffers = {1, 2, 3}
    Traffics <- AllTraffics
    Cases <- AllCases
    MaxName = 1
    Addresses = {a1, a2}
    MaxFds = 2
    MaxFails = 1
    MaxCalls = 1
    Intervals = {1, 2}
    MaxTimers = 3
    MaxNow = 3
INVARIANTS DistributionRight SubscriptionsRight CodecRight EndpointsRight TimersRight
SYMMETRY Symmetry
CHECK_DEADLOCK FALSE
