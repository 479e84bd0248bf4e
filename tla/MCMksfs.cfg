CONSTANTS
  Hosts <- MCHosts
  Sizes = {4, 9, 16, 17, 18, 19, 20, 21, 22, 23, 24, 25, 26, 28, 30, 31, 36}
  Hidden = {".x"}
  Cut <- MCCut
  BLKBITS = 6
  NDIRECT = 3
  NENTRY = 3
  MaxOps = 3
  MaxBoots = 2
  LN_NBLKS = 10
SPECIFICATION Spec
INVARIANTS ImageOKAtFirst ShutdownOK
CHECK_DEADLOCK FALSE
