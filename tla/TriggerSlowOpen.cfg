SPECIFICATION EngineSpec
CONSTANTS
    w1 = w1
    w2 = w2
    Threads = {w1, w2}
    Workers = {w1, w2}
    ReqModes <- AllModes
    ReqLevels <- AllLevels
    SettleMs = 400
    Faulty = FALSE
    Stems = {"game"}
    RuleLists <- GameOnly
    PromptWorkers = FALSE
    MaxFlips = 2
    MaxSaves = 0
INVARIANT LastEdgeInForce
CHECK_DEADLOCK FALSE
