SPECIFICATION Spec
CONSTANTS
  p1 = p1
  p2 = p2
  f1 = f1
  f2 = f2
  i1 = i1
  i2 = i2
  i3 = i3
  i4 = i4
  Procs = {p1, p2}
  InitProc = p1
  NINODE = 3
  Inums = {i1, i2, i3, i4}
  ROOTINO = i1
  Names = {"a", "b"}
  Files = {f1, f2}
  Loads <- Workloads
  MAXDEPTH = 2
  None = None
SYMMETRY Symmetry
INVARIANT
  TableInv
  LinksInv
  FsNoPanic
