CONSTANTS
  t1 = t1
  t2 = t2
  Saver = {s1, s2}
  Token <- MCToken
  Legacy <- MCLegacy
  NoFile = NoFile
  MaxInode = 3
  MaxFaults = 0
  MaxCrashes = 0
  Unreadable = FALSE
SPECIFICATION Spec
CHECK_DEADLOCK FALSE
INVARIANT RevocationLasts
