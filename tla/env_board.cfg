SPECIFICATION BoardSpec
CONSTANTS
  d = d
  a = a
  b = b
  Envs <- MCEnvs
  DefaultEnv = d
  Off = Off
  Blank = Blank
  NoCrc = NoCrc
  SerialMod = 6
  FirstSerials = {4, 5}
  MaxReadFaults = 1
  MaxWriteFaults = 2
SYMMETRY MCSymmetry
INVARIANTS BoardTypeOK AlwaysLoadable SaveIsKept
PROPERTIES InUseKept FlashIsStore
