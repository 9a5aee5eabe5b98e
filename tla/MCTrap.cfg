SPECIFICATION Spec
CONSTANTS
  NHART = 2
  NP = 2
  TickMod = 3
  Programs <- SmallPrograms
INVARIANT
  HartInv
  KernelResumes
  UserResumes
  SleepExact
