CONSTANTS
    t1 = t1
    t2 = t2
    t3 = t3
    s1 = s1
    s2 = s2
    a1 = a1
    a2 = a2
    v1 = v1
    v2 = v2
    NoThread = NoThread
    Threads = {t1, t2}
    Streams = {s1, s2}
    Addrs = {a1, a2}
    Values = {v1, v2}
    Ops <- ContendingOps
    Budgets <- OneEach
    StagingSize = 1
    DeviceCanBeLost = FALSE
SPECIFICATION BusyGpuSpec
PROPERTIES
    QueryIsNonBlocking
