SPECIFICATION Spec
CONSTANTS
  NPROC = 2
  NFRAMES = 21
  KPAGES = 2
  PGSIZE = 2
  REGION = 3
  SZMAX = 8
  MAXARG = 1
  Images <- ImagesDef
  Words = {0}
INVARIANT
  VmInv
  GuardKept
PROPERTY
  ForkCopies
