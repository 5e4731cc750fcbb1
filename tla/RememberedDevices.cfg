CONSTANTS
  u1 = u1
  d1 = d1
  d2 = d2
  h1 = h1
  h2 = h2
  h3 = h3
  a1 = a1
  a2 = a2
  b1 = b1
  Devices = {d1, d2}
  Nameless = {d2}
  Users = {u1}
  Hosts = {h1, h2, h3}
  Passwords = {a1, a2, b1}
  At <- MCAt
  Owner <- MCOwner
  Reports <- MCReports
  OldFiles <- MCOldFiles
  NONE = NONE
SPECIFICATION Spec
INVARIANTS
  MemoryInv
PROPERTIES
  RememberedConnects
  ForgottenIsGone
