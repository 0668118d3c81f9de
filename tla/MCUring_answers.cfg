\* MCUring_answers.cfg
SPECIFICATION FairSpec
CONSTANTS
    Clients <- TwoClients
    Stream <- ShortStreams
    RecvCap = 2
    RespLen = 1
    MaxConnections = 1
    IdleTimeouts = FALSE
    IdlePeersGone = FALSE
    Resets = FALSE
    SqPolls = {FALSE}
    SqCap = 4
CHECK_DEADLOCK FALSE
PROPERTIES EveryRequestAnswered EveryConnectionEnds
