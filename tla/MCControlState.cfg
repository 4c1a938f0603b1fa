SPECIFICATION StartSpec
CONSTANTS
  Principals = {p1}
  CommandIds = {c1, c2, c3}
  Fingerprints = {f1, f2}
  Times = {0, 1}
  WorkspaceIds = {w1, w2}
  TabIds = {t1}
  PaneIds = {q1}
  Names = {n1}
  Nodes = {d1}
  ExecutionIds = {e1}
  Availabilities = {"pending", "ready"}
  MaxGeneration = 2
  MaxRevision = 6
  Absent = Absent
SYMMETRY Symmetry
INVARIANTS
  TypeOK
  ReferencesExist
  WorkspaceCoversTabs
PROPERTIES
  RevisionsAreFresh
  AnswersAgree
  PendingNeverEvicted
