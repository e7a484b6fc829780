\* Two centrals, a clock that only advances.
CONSTANTS
  Central = {c1, c2}
  Token = {t1, t2}
  NoToken = NoToken
  None = None
  MaxAttempts = 2
  CodeTTL = 1
  NonceTTL = 0
  Monotonic = TRUE
  MaxTime = 2
  MaxSerial = 2
  MaxOpened = 2
SPECIFICATION Spec
SYMMETRY Symmetry
INVARIANTS SessionSound WindowBudget RevokedStaysOut UsedOnce HandshakeOutlivesWindow IInv
PROPERTY ImplementsAccess
