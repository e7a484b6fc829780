CONSTANTS
  Conn = {c1}
  MaxGen = 3
  MaxSlots = 1
  EventQueue = 1
  SinkQueue = 1
  MaxOut = 1
SPECIFICATION QuietSpec
PROPERTIES StrangersLeave UnpairedLeave LinkEndsSession SwitchSettles
CHECK_DEADLOCK FALSE
