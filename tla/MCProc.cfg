SPECIFICATION Spec
CONSTANTS
  NPROC = 3
  Cpus = {c1, c2}
  NoCpu = NoCpu
SYMMETRY Symmetry
INVARIANT
  TreeInv
  ProcNoPanic
  SwitchInv
  NoLostWakeup
