\* MCDescriptors_alone.cfg
SPECIFICATION MemorySpec
CONSTANTS
    c1 = c1
    c2 = c2
    c3 = c3
    w1 = w1
    Connections <- MCConnections
    Workers <- OneWorker
    Fds <- MCFds
    MaxConnections = 2
    QueueMayFill = TRUE
    Backends = {"epoll", "io_uring"}
    BlockSize = 4
    HeaderSize = 1
    PoolSize = 1
    Places <- MCPlaces
    Sizes = {2, 5}
    Alignments = {1, 4}
CHECK_DEADLOCK FALSE
INVARIANTS NoDescriptorLeaks EpollKeepsDescriptor
           MemoryTypeOK AllocationsSound OneOwner
