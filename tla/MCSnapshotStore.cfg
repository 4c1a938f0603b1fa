SPECIFICATION Spec
CONSTANTS
  Readers = {r1}
  Raft = Raft
  Formats = {"current", "older"}
  Current = "current"
  Threshold = 1
  CrashMidWrite = TRUE
  MaxIndex = 3
  Torn = Torn
  Absent = Absent
INVARIANTS
  TypeOK
  PurgedIsCovered
  ActiveReadable
  
PROPERTIES
  ActiveAdvances
  KeepsLog
