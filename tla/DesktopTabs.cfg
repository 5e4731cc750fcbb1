CONSTANTS
  Keys = {k1, k2}
  Slots = {c1}
  NONE = NONE
  MAX_SESSION_RECONNECTS = 1
  MaxTimers = 1
  Orderly = TRUE
SPECIFICATION Spec
SYMMETRY Interchangeable
INVARIANTS
  ScreenFollowsTabs
  TabsOwnSessions
PROPERTY
  UsesSessionTable
