SPECIFICATION Spec
CONSTANTS
    Files = {f1, f2}
    Handles = {h1, h2}
    NULL = NULL
    Blocks = {1, 2, 3, 4}
    SFS_NDIRECT = 1
    SFS_BLK_NENTRY = 2
    SFS_BLKSIZE = 2
    SFS_MAX_FILE_SIZE = 7
    Lens = {3}
    Seeks = {3, 4, 5, 6}
SYMMETRY MCSymmetry
INVARIANTS
    BlocksOK
PROPERTY
    CloseKeepsFile
