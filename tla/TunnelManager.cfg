CONSTANTS
  d1 = d1
  d2 = d2
  h1 = h1
  h2 = h2
  Devices = {d1, d2}
  Hosts = {h1, h2}
  Threads = {c1, c2}
  Pool = {t1, t2}
  Ports = {p1, p2}
  Preferred = p1
  MAX_RETRIES = 1
  Routes <- MCRoutes
  Serves <- MCServes
  NONE = NONE
SPECIFICATION FairSpec
INVARIANTS
  NoStrayTunnel
  OwnDevice
PROPERTIES
  OthersUntouched
  QuitEnds
  RetryHeals
