SPECIFICATION FairLaunchSpec
CONSTANTS
  p1 = p1
  d1 = d1
  d2 = d2
  e1 = e1
  e2 = e2
  q1 = q1
  q2 = q2
  Principals = {p1}
  CommandIds <- MCCommandIds
  Fingerprints <- MCFingerprints
  Times = {0}
  WorkspaceIds = {w1}
  TabIds = {t1}
  PaneIds = {q1}
  Names = {n1}
  Nodes = {d1}
  ExecutionIds = {e1, e2}
  Availabilities = {"pending", "ready", "unavailable", "failed"}
  MaxGeneration = 2
  MaxRevision = 11
  Absent = Absent
  Voters = {v1, v2}
  FirstLeader = v1
  Plan <- PlanOneNode
  Rank <- MCRank
  ReportId <- MCReportId
  CompleteId <- MCCompleteId
  Closable = {e1}
  AnyRequest = AnyRequest
  Created <- CreatedOnePane
  StartRevision = 4
  MaxFaults = 2
CHECK_DEADLOCK FALSE
INVARIANTS
  LaunchTypeOK
  CompletedIsShown
PROPERTIES
  StartedOnce
  KeepsContract
  Completes
