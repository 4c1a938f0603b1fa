-------------------------- MODULE MCWorkerRegistry --------------------------
(***************************************************************************)
(* Instances of WorkerRegistry for TLC: the requests in the network, and a *)
(* lease numbering that does not follow the order of issue.                *)
(***************************************************************************)
EXTENDS WorkerRegistry, TLC

\* Calls in flight differ only in what they are doing.
Symmetry == Permutations(Threads)

CONSTANTS e1, e2, c1, c2, c3, c4, p1

Ask(op, execution, term, command, issued, pane) ==
  [op |-> op, pane |-> pane,
   authority |-> [execution |-> execution, generation |-> 1, term |-> term,
                  command |-> command, issued |-> issued]]

Sequences == (c1 :> 2) @@ (c2 :> 1) @@ (c3 :> 3) @@ (c4 :> 1)

LaunchE1 == Ask("launch", e1, 1, c1, 0, Absent)
LaunchE2 == Ask("launch", e2, 1, c2, 0, Absent)
\* The same workflow driven by the leader of the next term.
RelaunchE1 == Ask("launch", e1, 2, c1, 0, Absent)
RestartE1 == Ask("restart", e1, 1, c4, 0, Absent)
AdoptE1 == Ask("adopt", e1, 2, c2, 0, p1)
AdoptE2 == Ask("adopt", e2, 1, c2, 0, p1)
InputE1 == Ask("input", e1, 1, c3, 0, Absent)
\* The same input, signed again for a retry.
ResignedInputE1 == Ask("input", e1, 1, c3, 1, Absent)
CloseE1 == Ask("close", e1, 2, c4, 0, Absent)

\* One call at a time: every operation, with its retries.
SequentialRequests ==
  {LaunchE1, AdoptE2, InputE1, ResignedInputE1, CloseE1}

\* Calls that race for one execution.
RacingRequests == {LaunchE1, RelaunchE1, RestartE1, AdoptE1, InputE1}

\* An input and its retry.
RetriedRequests == {LaunchE1, InputE1, ResignedInputE1}

\* Two executions registered at the same time.
LaunchRequests == {LaunchE1, LaunchE2}
=============================================================================
