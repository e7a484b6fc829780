CONSTANTS
  d1 = d1
  k1 = k1
  k2 = k2
  Device <- MCDevice
  Conn <- MCConn
  RemoteId <- MCRemoteId
  Free = Free
  Tick = Tick
  MaxRequests = 4
  MaxWindows = 1
  MaxTyped = 1
  MaxBreaks = 1
  Attempts = 1
SPECIFICATION PhonesSpec
INVARIANTS NoOrphanStream OneLateLine SessionsMatch NothingIsWasted DeviceGivesUp
