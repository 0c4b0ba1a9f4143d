\* One client, on UDP or on TCP, two epoll threads and the tick; the timers of two
\* threads of either server; five packets in frames on TCP; two threads and the locks.
SPECIFICATION MCSpec
CONSTANTS
    u1 = u1  t1 = t1  w1 = w1  w2 = w2
    None = None
    Parts = {"sockets", "framing", "timers", "locks"}
    Udp = {u1}
    Tcp = {t1}
    Threads = {w1, w2}
    Fds = {1, 2, 3}
    Lifetime = 2
    ClosedTicks = 1
    Timeout = 2
    CheckTicks = 0
    InactiveTtl = 1
    Scenes <- OneClient
    Moves = FALSE
    Base = 2
    MaxLength = 3
    Sizes = {0, 1, 2, 3, 4}
    Capacity = 7
    MaxPackets = 5
    Sleepers = {w1, w2}
    Horizon = 4
    PollTimeout = 2
    MaxEvents = 1
    MaxTasks = 2
    Workers = {1, 2}
INVARIANTS SocketsAreConsistent PacketsArriveWhole TimersFireOnTime NoDeadlock
PROPERTIES ClosedUntilFreed 
CHECK_DEADLOCK FALSE
