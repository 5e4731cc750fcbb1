\* Two sessions and three attempts: a replaced attempt's events can arrive
\* after its successor's, and a third can follow both.
SPECIFICATION Spec
SYMMETRY Interchangeable
CONSTANTS
  Sids = {s1, s2}
  MaxAttempts = 3
  NONE = NONE
INVARIANT ManagerInv
PROPERTY ImplementsTable
CHECK_DEADLOCK FALSE
