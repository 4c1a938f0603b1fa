-------------------------- MODULE MCLaunchWorkflow --------------------------
(***************************************************************************)
(* Instances of LaunchWorkflow for TLC: two workflows of one principal.    *)
(***************************************************************************)
EXTENDS LaunchWorkflow, TLC

CONSTANTS p1, d1, d2, e1, e2, q1, q2

\* Command identities are numbers: 1 and 2 the originals, 3 and 4 their
\* completions, the reports from 6 on.
Original(name) == <<p1, name>>

MCCompleteId(k) == k[2] + 2

Code(availability) == CASE availability = "ready" -> 0
                        [] availability = "unavailable" -> 1
                        [] availability = "failed" -> 2

MCReportId(k, r, a) == 6 * (r - StartRevision) + 3 * (k[2] - 1) + Code(a)

MCCommandIds == 1 .. (6 * (MaxRevision - StartRevision) + 5)

MCFingerprints == WorkerExecution \cup {AnyRequest}

MCRank == (Original(1) :> 1) @@ (Original(2) :> 2)

\* The second workflow replaces the first one's execution.
PlanOneNode ==
  (Original(1) :> [pane |-> q1, assignment |->
      [node |-> d1, execution |-> e1, generation |-> 1]])
  @@
  (Original(2) :> [pane |-> q1, assignment |->
      [node |-> d1, execution |-> e2, generation |-> 2]])

CreatedOnePane == (q1 :> 3)

\* Two panes, on two workers.
PlanTwoPanes ==
  (Original(1) :> [pane |-> q1, assignment |->
      [node |-> d1, execution |-> e1, generation |-> 1]])
  @@
  (Original(2) :> [pane |-> q2, assignment |->
      [node |-> d2, execution |-> e2, generation |-> 1]])

CreatedTwoPanes == (q1 :> 3) @@ (q2 :> 4)
=============================================================================
