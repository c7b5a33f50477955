SPECIFICATION Spec
CONSTANTS
    t1 = t1
    t2 = t2
    Threads = {t1, t2}
    ReqModes <- SomeModes
    ReqLevels <- TwoLevels
    SettleMs = 300
    Faulty = FALSE
SYMMETRY Symmetric
INVARIANT PlainAtomicSuffices
CHECK_DEADLOCK FALSE
