CONSTANTS
  Keys = {k1, k2}
  Sess = {s1, s2}
  Threads = {t1, t2}
  NONE = NONE
  FocusedKeys = {k1, k2}
  MainPolls = TRUE
SPECIFICATION Spec
SYMMETRY Interchangeable
INVARIANTS
  FocusNamesASession
  OnlyFocusedHoldsResources
  FreedSessionUnreachable
  SettledScreen
PROPERTY
  ImplementsSessionTable
CHECK_DEADLOCK FALSE
