\* MCEpoll_resets.cfg
SPECIFICATION Spec
CONSTANTS
    Clients <- TwoClients
    Stream <- TwoStreams
    RecvCap = 2
    RespLen = 2
    SendBuffer = 1
    MaxConnections = 2
    IdleTimeouts = TRUE
    IdlePeersGone = TRUE
    Resets = TRUE
CHECK_DEADLOCK FALSE
INVARIANTS TypeOK SlotsConserved NoLostWakeup
PROPERTIES ServesEachClient
