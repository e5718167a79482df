\* Three processes on one machine, two of them with the same process id.
SPECIFICATION FairSpec
CONSTANTS
    p1 = p1  p2 = p2  p3 = p3
    t1 = t1  t2 = t2  t3 = t3
    hostA = hostA
    NoStart = NoStart
    NoIno = NoIno
    Nobody = Nobody
    Process <- MCProcess
    Task <- MCTask
    ProcessOf <- MCProcessOf
    HostOf <- OneHost
    PidOf <- MCPidOf
    StartOf <- ReadableStart
    Ino = {i1, i2, i3}
INVARIANTS TypeOK MutualExclusion OwnFileInPlace OnlyDeadQuarantined
PROPERTIES ImplementsLockService StaleLockRecovered
CHECK_DEADLOCK FALSE
