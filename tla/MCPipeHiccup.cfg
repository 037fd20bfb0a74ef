\* A socket closes while its session reconnects.
SPECIFICATION FairSpec
CONSTANTS
    MaxMsgs <- A1B0
    MaxTerms <- A1B0
    MaxHiccups <- A0B1
    MaxHwmChanges <- A0B0
    Hwm <- A2B2
    NewHwms = {}
    Boost <- NoBoost
PROPERTIES TerminationCompletes
CHECK_DEADLOCK FALSE
