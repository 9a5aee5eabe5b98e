SPECIFICATION FairSpec
CONSTANTS
  INPUT_BUF = 3
  UART_TX_BUF_SIZE = 2
  FifoDepth = 3
  TtyReaders = {r1}
  TtyWriters = {w1, w2}
  Printers = {k1, k2}
  MaxRead = 2
  MaxWrite = 3
  Loads <- SmallLoads
  Nobody = Nobody
INVARIANT
  NoOverrun
  SleepJustified
PROPERTY
  LineSpec
  WriteEnds
