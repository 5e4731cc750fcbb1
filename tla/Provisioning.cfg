CONSTANTS
  Runs = {r1, r2}
  Jetsons <- MCJetsons
  Breakable = {"service", "xsession"}
SPECIFICATION PrepareFairSpec
INVARIANTS
  PrepareInv
PROPERTIES
  ReadyStaysReady
  PrepareHeals
