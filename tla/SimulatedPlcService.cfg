SPECIFICATION FairSpec
CONSTANTS
  Callers = {t1, t2}
  None = None
  TempLo = 150
  TempHi = 152
  TempStep = 1
  TempStart = 151
  PressLo = 80
  PressHi = 81
  PressStep = 1
  PressStart = 80
INVARIANT TypeOK
PROPERTY IsAtomicMemory
PROPERTY CallsReturn
