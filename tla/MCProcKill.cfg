SPECIFICATION FairSpec
CONSTANTS
    p1 = p1
    p2 = p2
    p3 = p3
    idleproc = idleproc
    initproc = initproc
    NULL = NULL
    Slots <- MCSlots2
    Procs <- MCProcs2
    MaxTimeSlice = 1
    SleepTimes = {1}
    MAX_PROCESS = 4
PROPERTY
    KilledExits
