\* Peers send messages of their own.
SPECIFICATION Spec
CONSTANTS
    Pipes = {p1, p2}
    Topics <- MCTopics
    MsgTopics <- MCMsgTopics
    Options = {}
    Type = "XPUB"
    Peers = {"data"}
    MaxMsgs = 0
    MaxParts = 1
    MaxRequests = 3
PROPERTIES DataIsHarmless
CHECK_DEADLOCK FALSE
