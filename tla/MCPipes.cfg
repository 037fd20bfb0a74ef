SPECIFICATION MCSpec
CONSTANTS
    Values = {a, b}
    Incomplete = {b}
    MaxItems = 4
    PollingReader = FALSE
    N = 2
    Chunks = {1, 2, 3, 4}
    MaxWrites = 3
    MaxMsgs <- MCMsgs
    MaxTerms <- MCTerms
    MaxHiccups <- MCNone
    MaxHwmChanges <- MCNone
    Hwm <- MCHwm
    NewHwms = {}
    Boost <- NoBoost
    Connecters = {c1}
    Binders = {b1}
    Nobody = nobody
    MaxConns = 2
    MaxBinds = 2
INVARIANTS IInv ChunksAccounted ConflatedInOrder HandshakeRight FlowRight DeliveryRight InprocRight
PROPERTIES FlushedIsRead ImplementsFifo ImplementsYPipe PipeGoesOn ClosedGoes
CHECK_DEADLOCK FALSE
