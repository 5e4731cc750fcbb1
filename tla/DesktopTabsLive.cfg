CONSTANTS
  Keys = {k1}
  Slots = {c1}
  NONE = NONE
  MAX_SESSION_RECONNECTS = 2
  MaxTimers = 1
  Orderly = FALSE
SPECIFICATION FairSpec
INVARIANTS
  LaunchingIsBacked
PROPERTIES
  TabSettles
  EndIsNoticed
