SPECIFICATION AllSpec
CONSTANTS
    Object <- MCObject
    Root = "socket"
    Parent <- MCParent
    Thread <- MCThread
    Waiting = {"accepted"}
    Peer = "peer"
    Accepted = {"accepted"}
    MaxSeq <- MCSeq
    MaxAsks <- MCAsks
    App = {s1, s2}
    Helper = {h1, h2}
    MaxSockets = 4
    MaxSignals = 1
    MaxOwed = 2
    Concurrent = TRUE
    None = None
INVARIANTS TreeInv EndInOrder
PROPERTIES TreeGoes QuietTermReturns
\* a closed socket does nothing any more; zmq_ctx_term() of a context that is in
\* use may hang, see MCCtxRace.cfg
CHECK_DEADLOCK FALSE
