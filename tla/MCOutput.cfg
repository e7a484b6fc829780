CONSTANTS
  Transport = {"ble", "network", "lan"}
  Content = {"a", "b"}
  Throttle = 1
  Repeat = 2
  MaxTick = 3
  MaxSessions = 2
  MaxLink = 2
  SwitchOrder <- BleAndLan
  MaxCommands = 2
  Choice <- TwoChoices
  MaxStarts = 3
  MaxFaults = 1
  AckWait = 3
  ResendWait = 2
  Resend = 1
  MaxLabel = 3
  MaxPubs = 2
  MaxMoment = 8
  Ping = 3
  Idle = 9
  AuthTime = 15
  CodeTime = 12
  MaxInstant = 27
SPECIFICATION OutputSpec
INVARIANTS NoNonceReuse OwnFramesOpen ShownInTime RestartFindsAll AdvertIsWithdrawn TimersAreFair
CHECK_DEADLOCK FALSE
