SPECIFICATION Spec
CONSTANTS
  n1 = n1
  n2 = n2
  n3 = n3
  NBUF = 2
  Blocks = {n1, n2, n3}
  Data = {d1, d2}
  Procs = {p1, p2}
  MAXHELD = 2
  Rank <- Ranks
  LOGSIZE = 1
  None = None
SYMMETRY Symmetry
INVARIANT
  CacheInv
  ContentsCurrent
  SleepJustified
