SPECIFICATION Spec
CONSTANTS
  NHART = 1
  NP = 1
  TickMod = 3
  Programs <- AlarmPrograms
INVARIANT
  AlarmTransparent
