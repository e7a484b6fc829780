CONSTANTS
  d1 = d1
  k1 = k1
  k2 = k2
  Device <- MCDevice
  Conn <- MCConn
  RemoteId <- MCRemoteId
  Free = Free
  Tick = Tick
SPECIFICATION Spec
INVARIANT NoGhost
