SPECIFICATION AllSpec
CONSTANTS
    Procs = {p1, p2}
    MemSizes = {12, 15, 16, 17, 20, 21, 22, 24}
    PGSIZE = 2
    PTPAGES = 2
    USERTOP = 12
    USTACKPAGE = 2
    StackNow = 1
    Elf <- MCElf
    Touched = {4, 8}
    MaxCalls = 3
    npage = 7
    Regions <- MCRegions
    heap_pages = 4
    SLOB_UNIT = 2
    PAGE_SIZE = 16
    BIGBLOCK = 3
    Sizes = {1, 7, 16, 32}
    MaxBlocks = 3
    VPages = {1, 2, 3, 4, 5}
    nframe = 4
    AnyPages = {1, 2, 3}
    nany = 2
    Values = {7, 8}
    MaxFailures = 2
INVARIANTS
    AddressSpacesOK
    PoolOK
    HeapOK
    SwapOK
PROPERTIES
    MemoryPromise
    SwapPromise
CHECK_DEADLOCK FALSE
