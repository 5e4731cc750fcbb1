CONSTANTS
  Keys = {k1}
  Sess = {s1, s2}
  Threads = {t1, t2}
  NONE = NONE
  FocusedKeys = {k1}
  MainPolls = FALSE
SPECIFICATION FairSpec
PROPERTIES
  CommandsFinish
  EndedDesktopLeavesScreen
