SPECIFICATION FairSpec
CONSTANTS
  PaneCount = 2
  MaxBytes = 2
  ReadBytes = 1
  ChunkBytes = 1
  MaxOutput = 2
  MaxRefresh = 1
  MaxFailures = 1
  Absent = Absent
  Torn = Torn
CHECK_DEADLOCK FALSE
INVARIANTS
  TypeOK
  Contiguous
  NothingUnread
PROPERTIES
  NeverBack
  Shows
