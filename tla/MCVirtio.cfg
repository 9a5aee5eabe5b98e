SPECIFICATION FairSpec
CONSTANTS
  p1 = p1
  p2 = p2
  p3 = p3
  NUM = 8
  WRAP = 8
  Procs = {p1, p2, p3}
  Intr = Intr
  None = None
INVARIANT
  DriverInv
  DoneAsAsked
PROPERTY
  RequestEnds
