CONSTANTS
  d1 = d1
  a1 = a1
  i1 = i1
  k1 = k1
  k2 = k2
  Devices = {d1}
  Ids = {a1, i1}
  Keys = {k1, k2}
  Commands = {c1, c2}
  Flashed = {d1}
  At <- MCAt
  Files <- MCFiles
  NONE = NONE
SPECIFICATION Spec
PROPERTIES
  OnlyApproved
  AskedOnce
  DecisionIsEnough
