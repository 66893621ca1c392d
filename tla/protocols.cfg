SPECIFICATION ProtocolSpec
CONSTANTS
  SequenceSize = 3
  TIMEOUT_COUNT = 1
  GetLens = {2, 5}
  PutLens = {0, 3}
  MaxTids = 2
  MaxTries = 2
  Servers = {s1, s2}
  GatewayServers = {s1}
  None = none
  IdCacheSize = 2
  FirstTimeout = 1
  MaxTimeout = 2
  RequestTimeout = 2
  TimeoutTime = 4
  MaxCommands = 2
  MaxAnswers = 3
INVARIANTS  PutIsStored PutSendsFile NoStaleAnswer LeasedToUs
PROPERTIES TransferEnds DhcpEnds
CHECK_DEADLOCK FALSE
