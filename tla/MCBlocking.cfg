SPECIFICATION FairSpec
CONSTANTS
    Procs <- MCProcs
    idleproc = idleproc
    MaxTimeSlice = 1
    Sems <- MCSems
    ClientSems = {mutex, next}
    InitialValue <- MCInitialValue
    NULL = NULL
    MaxValue = 2
    N = 4
    TIMES = 2
    mutex = mutex
    next = next
INVARIANTS
    QueuesOK
    PhilosophersOK
PROPERTIES
    CountingSemaphore
    AllLeave
