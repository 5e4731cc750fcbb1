CONSTANTS
  CAP = 3
  MaxMade = 5
SPECIFICATION FairSpec
INVARIANTS
  InOrder
  DragSurvives
  OnlyMovesYield
PROPERTIES
  EverythingIsSent
  DisconnectEnds
CHECK_DEADLOCK FALSE
