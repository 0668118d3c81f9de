\* MCDescriptors_multishot.cfg
SPECIFICATION Spec
CONSTANTS
    c1 = c1
    c2 = c2
    c3 = c3
    c4 = c4
    w1 = w1
    Connections <- MCConnections
    Workers <- OneWorker
    Fds <- MCFds
    MaxConnections = 2
    QueueMayFill = FALSE
    Backends = {"io_uring"}
CHECK_DEADLOCK FALSE
INVARIANTS KeepsDescriptor
