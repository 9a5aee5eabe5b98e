CONSTANTS
  Inodes = {1, 2}
  Procs = {1, 2}
  Files = {1, 2, 3}
  NDIRECT = 1
  NINDIRECT = 3
  NBLOCKS = 19
  BPB = 3
  MAXOPBLOCKS = 10
  NOFILE = 3
  UMod = 64
  Programs <- MCPrograms
  None = None
SPECIFICATION Spec
INVARIANTS FilesNoPanic FitsUnlessSpread BlocksInv RefsExact ReadExact
PROPERTY FlatSpec
CHECK_DEADLOCK FALSE
