CONSTANTS
  init = init
  p1 = p1
  p2 = p2
  Procs = {init, p1, p2}
  InitProc = init
  NENTRY = 3
  Root = "root"
  Inodes <- MCInodes
  Type <- MCType
  Entry <- MCEntry
  Opens <- MCOpens
  Execs <- MCExecs
  MaxLost = 4
  MAX_INODE_COUNT = 10
SYMMETRY Symm
SPECIFICATION Spec
INVARIANT FilesOK
PROPERTY StdioOK
CHECK_DEADLOCK FALSE
