CONSTANTS
  t1 = t1
  t2 = t2
  Saver = {s1, s2}
  Token <- MCToken
  Legacy <- MCLegacy
  NoFile = NoFile
  MaxInode = 3
  MaxFaults = 1
  MaxCrashes = 2
  Unreadable = FALSE
SPECIFICATION Spec
SYMMETRY Symmetry
CHECK_DEADLOCK FALSE
INVARIANTS SavesAreSafe ToldIsStored
