\* MCLifecycle_once.cfg
SPECIFICATION FairSpec
CONSTANTS
    ThreadCounts <- OneToThree
    MaxListens = 1
    MaxShutdowns = 1
    BindMayFail = TRUE
CHECK_DEADLOCK FALSE
INVARIANTS TypeOK IteratesLiveLoops
PROPERTIES ReadyMeansAllUp ShutdownEndsListen
