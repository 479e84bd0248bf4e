SPECIFICATION AllSpec
CONSTANTS
    CONSBUFSIZE = 3
    Keys <- MCKeys
    Bytes <- MCBytes
    MaxEvents = 4
    CRT_ROWS = 3
    CRT_COLS = 2
    Glyphs = {"x", "y"}
    MaxPuts = 6
    Chars = {"a", "c", " ", "Q", ";", ">", "|", "&", "BS"}
    BUFSIZE = 6
    EXEC_MAX_ARG_NUM = 2
    Pids = {0, 1, 2}
    MaxFiles = 2
    MaxFuns = 2
    Base = 3
    Step = 2
    Procs = {p1, p2, p3}
    NULL = NULL
    w = 3
    Priorities = {2}
    MaxWakeups = 3
INVARIANTS
    InputOK
    ScreenOK
    CommandsOK
    DebugInfoOK
    StrideOK
CHECK_DEADLOCK FALSE
