SPECIFICATION Spec
CONSTANTS
  Readers = {}
  Raft = Raft
  Formats = {"current"}
  Current = "current"
  Threshold = 1
  CrashMidWrite = TRUE
  MaxIndex = 3
  Torn = Torn
  Absent = Absent
INVARIANT Restarts
