--------------------------- MODULE MCControlState ---------------------------
(***************************************************************************)
(* Instances of ControlState for TLC.                                      *)
(***************************************************************************)
EXTENDS ControlState, TLC

\* Command identities and fingerprints are only compared for equality.
Symmetry == Permutations(CommandIds) \cup Permutations(Fingerprints)

(***************************************************************************)
(* A second start, with a pane in place so that workflows are near: three  *)
(* commands issued at time 0 created a workspace, a tab and a pane, and a  *)
(* fourth pruned their outcomes.                                           *)
(***************************************************************************)
Pruned == [revision |-> 4, status |-> "complete", result |-> "accepted"]

InitWithPane ==
  \E w \in WorkspaceIds, t \in TabIds, p \in PaneIds, c \in Command, name \in Names :
    /\ c.issued = 1
    /\ revision = 4
    /\ workspaces = [x \in WorkspaceIds |->
                       IF x = w THEN [name |-> name, revision |-> 3] ELSE Absent]
    /\ tabs = [x \in TabIds |->
                 IF x = t THEN [workspace |-> w, revision |-> 2] ELSE Absent]
    /\ panes = [x \in PaneIds |->
                  IF x = p THEN [workspace |-> w, tab |-> t, execution |-> Absent,
                                 availability |-> "pending", revision |-> 3]
                  ELSE Absent]
    /\ dedup = [k \in Keys |->
                  IF k = c.key THEN [fingerprint |-> c.fingerprint, issued |-> 1,
                                     launch |-> Absent, response |-> Pruned]
                  ELSE Absent]
    /\ acked = [k \in Keys |-> IF k = c.key THEN Pruned ELSE Absent]

StartSpec == (Init \/ InitWithPane) /\ [][Next]_vars
=============================================================================
