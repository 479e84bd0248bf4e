SPECIFICATION Spec
CONSTANTS
    p1 = p1
    p2 = p2
    p3 = p3
    idleproc = idleproc
    initproc = initproc
    NULL = NULL
    Slots <- MCSlots
    Procs <- MCProcs
    MaxTimeSlice = 1
    SleepTimes = {1, 2}
    MAX_PROCESS = 5
SYMMETRY SlotSymmetry
INVARIANTS
    TypeOK
    RunQueueOK
    WaitingOK
    NoLostChildWakeup
    TreeOK
    NoUseAfterFree
    CountOK
    HaltClean
PROPERTY
    ZombieReapedByParent
