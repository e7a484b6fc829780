CONSTANTS
  c1 = c1
  c2 = c2
  Central = {c1}
  NoQueue = NoQueue
  Chunks = 2
  MaxFrames = 2
  MaxEvents = 2
  MaxPosts = 2
SPECIFICATION Spec
INVARIANTS FramesAreWhole QueueIsAuthorized GhostOnlyFromSwitch WaitingIsOwed
CHECK_DEADLOCK FALSE
