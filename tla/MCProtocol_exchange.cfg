\* MCProtocol_exchange.cfg
SPECIFICATION Spec
CONSTANTS
    Clients <- MCClients
    Stream <- MCStream
    Me = "bloated"
    RecvCap = 3
    RespLen = 2
    IdleTimeouts = TRUE
CHECK_DEADLOCK FALSE
INVARIANTS TypeOK BufferIsUnread RoomToReceive StateMatchesOp Situation
PROPERTIES KeepsPromise
