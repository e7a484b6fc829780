CONSTANTS
  d1 = d1
  k1 = k1
  k2 = k2
  Device <- MCDevice
  Conn <- OneConn
  RemoteId <- OneRemoteId
  Free = Free
  Tick = Tick
SPECIFICATION FairSpec
PROPERTIES AuthIsHandled StaleStreamGoes
