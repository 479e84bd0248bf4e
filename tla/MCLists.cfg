SPECIFICATION ListsSpec
CONSTANTS
    MAX_PID = 6
    MAX_PROCESS = 5
    TimerProcs = {p1, p2, p3, p4}
    Times = {1, 2, 3}
    Procs = {1, 2, 3, idleproc}
    idleproc = idleproc
    NULL = NULL
    MaxTimeSlice = 1
    STDIN_BUFSIZE = 2
    Lens = {2}
    MaxKeys = 3
INVARIANTS
    SearchOK
    PidsUnique
    StdinOK
PROPERTIES
    SearchEnds
    KilledReaderExits
    TimersPromise
