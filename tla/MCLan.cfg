CONSTANTS
  Conn = {c1, c2}
  MaxGen = 2
  MaxSlots = 1
  EventQueue = 2
  SinkQueue = 1
  MaxOut = 1
SPECIFICATION BoundedSpec
SYMMETRY Symmetry
INVARIANTS TypeOK ListenerIsCurrent GhostOnlyFromUnpair AuthorizedIsMarked
CHECK_DEADLOCK FALSE
