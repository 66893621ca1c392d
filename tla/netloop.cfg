CONSTANTS
  Envs <- MCEnvs
  NDevs = 2
  Server = Server
  Peer = Peer
  Gateway = Gateway
  NoHost = NoHost
  Bcast = Bcast
  Remote = {Peer}
  ARP_TIMEOUT_COUNT = 2
  TIMEOUT_COUNT = 1
  MaxBlocks = 1
SPECIFICATION Spec
INVARIANTS NetTypeOK SentToNextHop TimerIsArmed OneDeviceUp
PROPERTIES CommandEnds
CHECK_DEADLOCK FALSE
