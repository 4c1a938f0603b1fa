SPECIFICATION FairSpec
CONSTANTS
  PaneCount = 2
  MaxBytes = 2
  ReadBytes = 1
  ChunkBytes = 1
  MaxOutput = 2
  MaxRefresh = 0
  MaxFailures = 0
  Absent = Absent
  Torn = Torn
CHECK_DEADLOCK FALSE
PROPERTIES
  AlwaysShows
