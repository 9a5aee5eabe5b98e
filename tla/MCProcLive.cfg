SPECIFICATION FairSpec
CONSTANTS
  NPROC = 3
  Cpus = {c1}
  NoCpu = NoCpu
PROPERTY OrphanReaped
