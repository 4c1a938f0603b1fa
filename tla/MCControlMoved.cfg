SPECIFICATION Spec
CONSTANTS
  Principals = {p1}
  CommandIds = {c1, c2, c3, c4, c5}
  Fingerprints = {f1}
  Times = {0}
  WorkspaceIds = {w1, w2}
  TabIds = {t1}
  PaneIds = {q1}
  Names = {n1}
  Nodes = {d1}
  ExecutionIds = {e1}
  Availabilities = {"pending", "ready"}
  MaxGeneration = 1
  MaxRevision = 5
  Absent = Absent
SYMMETRY Symmetry
INVARIANT Decodable
