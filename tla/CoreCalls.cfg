SPECIFICATION FairCoreSpec
CONSTANTS
    Threads = {t1, t2}
    NoOne = NoOne
    MaxEpoch = 2
    MaxNames = 2
    Faulty = TRUE
    Mixes <- BothMixes
INVARIANTS CoreTypeOK PathBelongsToConnection LibraryBalanced FixAnswerIsOwn OcAnswersAgree
PROPERTIES RecoversInOneCall CpuFailsOnlyWhenStale ChannelSpec LockComesBack
