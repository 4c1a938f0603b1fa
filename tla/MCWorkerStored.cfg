SPECIFICATION Spec
CONSTANTS
  e1 = e1
  e2 = e2
  c1 = c1
  c2 = c2
  c3 = c3
  c4 = c4
  p1 = p1
  Absent = Absent
  Threads = {t1, t2}
  Reconcilers = {}
  CommandIds = {c1, c2, c3, c4}
  ExecutionIds = {e1, e2}
  LocalPanes = {p1}
  Generations = {1}
  Terms = {1, 2}
  Issues = {0}
  LeaseSequence <- Sequences
  LeaseDuration = 1
  Requests <- LaunchRequests
  MaxTime = 0
INVARIANT AckedSurvives
