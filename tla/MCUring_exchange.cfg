\* MCUring_exchange.cfg
SPECIFICATION Spec
CONSTANTS
    Clients <- TwoClients
    Stream <- MixedStreams
    RecvCap = 2
    RespLen = 2
    MaxConnections = 2
    IdleTimeouts = TRUE
    IdlePeersGone = TRUE
    Resets = TRUE
    SqPolls = {TRUE, FALSE}
    SqCap = 1
CHECK_DEADLOCK FALSE
INVARIANTS TypeOK SlotsConserved OneOperationEach AlwaysAccepting
PROPERTIES ServesEachClient
