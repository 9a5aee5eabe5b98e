SPECIFICATION PagesSpec
CONSTANTS
  Pages = {p1, p2, p3}
  Threads = {t1, t2, t3}
  NoPage = NoPage
  FillWord = FillWord
  PIPESIZE = 2
  WRAP = 4
  Bytes = {x, y}
  Writers = {w1, w2}
  Readers = {r1, r2}
  MaxN = 3
  None = None
SYMMETRY Symmetry
INVARIANTS PageExclusive PagesConserved NoPanic PipeInv SleepersJustified
PROPERTY FifoSpec
