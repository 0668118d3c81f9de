\* MCUring_sweep.cfg
SPECIFICATION Spec
CONSTANTS
    Clients <- TwoClients
    Stream <- ShortStreams
    RecvCap = 2
    RespLen = 2
    MaxConnections = 1
    IdleTimeouts = TRUE
    IdlePeersGone = FALSE
    Resets = FALSE
    SqPolls = {FALSE}
    SqCap = 4
CHECK_DEADLOCK FALSE
PROPERTIES CompletionIsOwn
