SPECIFICATION SerialSpec
CONSTANTS
  Envs = {d, a, b}
  DefaultEnv = d
  Off = Off
  Blank = Blank
  NoCrc = NoCrc
  SerialMod = 256
  FirstSerials = {0, 1, 2, 128, 253, 254, 255}
  MaxReadFaults = 0
  MaxWriteFaults = 0
INVARIANT CrashSafe
PROPERTY ImplementsStore
