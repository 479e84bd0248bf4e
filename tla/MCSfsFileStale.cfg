SPECIFICATION Spec
CONSTANTS
    Files = {f1}
    Handles = {h1, h2}
    NULL = NULL
    Blocks = {1, 2, 3, 4, 5}
    SFS_NDIRECT = 1
    SFS_BLK_NENTRY = 2
    SFS_BLKSIZE = 2
    SFS_MAX_FILE_SIZE = 6
    Lens = {1, 2}
    Seeks = {0, 3, 5}
INVARIANT
    LoadInRange
