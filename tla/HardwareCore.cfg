SPECIFICATION Spec
CONSTANTS
    t1 = t1
    t2 = t2
    Threads = {t1, t2}
    ReqModes <- SomeModes
    ReqLevels <- SomeLevels
    SettleMs = 300
    Faulty = TRUE
SYMMETRY Symmetric
INVARIANTS TypeOK MirrorExplained ReplyHonest
PROPERTY TargetIsKept
CHECK_DEADLOCK FALSE
