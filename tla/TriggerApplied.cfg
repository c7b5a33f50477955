SPECIFICATION EngineSpec
CONSTANTS
    w1 = w1
    w2 = w2
    Threads = {w1, w2}
    Workers = {w1, w2}
    ReqModes <- AllModes
    ReqLevels <- AllLevels
    SettleMs = 400
    Faulty = FALSE
    Stems = {"game"}
    RuleLists <- SingleRules
    PromptWorkers = TRUE
    MaxFlips = 5
    MaxSaves = 0
SYMMETRY Symmetric
INVARIANTS LastEdgeInForce TouchpadFollows FixedOnExit OffsetsOfRunning
CHECK_DEADLOCK FALSE
