SPECIFICATION AllSpec
CONSTANTS
    Handles = {h1, h2, h3}
    Contents = {c1, c2}
    Metas = {m1}
    Nil = Nil
    MaxPipes = 2
    EngineScenarios <- AllScenarios
    SNDBUF = 2
    INCAP = 2
    BATCH = 2
    SessionScenarios <- Usage
    MaxFds = 2
    MaxSessionPipes = 2
    MaxOut = 1
INVARIANTS MsgInv EngineRight 
PROPERTIES EngineGoesOn 
CHECK_DEADLOCK FALSE
