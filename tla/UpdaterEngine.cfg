CONSTANTS
  Versions = {v1, v2, v3}
  Absent = Absent
  Partial = Partial
  Missing = Missing
  Torn = Torn
  NoPath = NoPath
  Faults = {"download.before", "download.mid", "download.after", "extract.before",
            "extract.mid", "extract.after", "backup.before", "backup.mid",
            "backup.after", "swap.before"}
  RetryFirst = FALSE
SPECIFICATION FairSpec
INVARIANTS
  NeverStranded
  OutcomeIsInstalled
PROPERTIES
  RecordedBeforeTouched
  InterruptedIsSettled
CHECK_DEADLOCK FALSE
