SPECIFICATION Spec
CONSTANTS
  Blocks = {b1, b2, b3}
  Data = {d1, d2}
  Ops = {o1, o2, o3}
  NoData = NoData
  MAXOPBLOCKS = 1
  LOGSIZE = 3
  nlog = 4
SYMMETRY Symmetry
INVARIANT
  LogInv
  SleepJustified
PROPERTY
  TxnSpec
