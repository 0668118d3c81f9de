\* MCEpoll_answers.cfg
SPECIFICATION FairSpec
CONSTANTS
    Clients <- TwoClients
    Stream <- ShortStreams
    RecvCap = 2
    RespLen = 2
    SendBuffer = 1
    MaxConnections = 1
    IdleTimeouts = FALSE
    IdlePeersGone = FALSE
    Resets = TRUE
CHECK_DEADLOCK FALSE
PROPERTIES EveryRequestAnswered EveryConnectionEnds
