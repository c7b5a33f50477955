SPECIFICATION FairEngineSpec
CONSTANTS
    w1 = w1
    w2 = w2
    Threads = {w1, w2}
    Workers = {w1, w2}
    ReqModes <- AllModes
    ReqLevels <- AllLevels
    SettleMs = 400
    Faulty = TRUE
    Stems = {"game"}
    RuleLists <- SomeLists
    PromptWorkers = FALSE
    MaxFlips = 2
    MaxSaves = 1
INVARIANTS TriggerTypeOK ChangesAnnounced
PROPERTIES CoreSpec EngineCatchesUp
CHECK_DEADLOCK FALSE
