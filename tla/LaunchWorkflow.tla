--------------------------- MODULE LaunchWorkflow ---------------------------
(***************************************************************************)
(* How an accepted AssignExecution becomes a running execution: the        *)
(* reconciliation loop of every voter                                      *)
(* (plugins/cluster-plugin/src/worker_reconciler.rs), composed with the    *)
(* control state it reads and writes (ControlState, whose actions are used *)
(* as they are) and with what it can see of the workers: the registered    *)
(* executions, the launch fence and the launch calls in progress.          *)
(*                                                                         *)
(* A voter that leads reads a view, walks the pending workflows in the     *)
(* order of the deduplication table and works on each with calls that take *)
(* time: a query and a launch at the worker, then two commands to the      *)
(* replicated log.  Meanwhile leadership moves, answers are lost, workers  *)
(* restart and later commands supersede the assignment.  A deposed voter   *)
(* goes on with the pass it is in.                                         *)
(*                                                                         *)
(* An execution belongs to one workflow (deterministic_execution_id hashes *)
(* the command's identity), so what a worker has under its identity is of  *)
(* the workflow's generation.  The delays between passes are left out.     *)
(***************************************************************************)
EXTENDS ControlState

CONSTANTS
  Voters,          \* nodes that take part in consensus and run the loop
  FirstLeader,
  Plan,            \* the launch each workflow asks for, by its key
  Rank,            \* the order of the deduplication table's keys
  ReportId(_,_,_), \* derived_command_id: key, pane revision, availability
  CompleteId(_),   \* derived_command_id: key
  Closable,        \* bound: executions a client may close
  AnyRequest,      \* a fingerprint: the identity determines the request
  Created,         \* the control revision each pane was created at
  StartRevision,   \* the control revision when the first workflow is asked for
  MaxFaults        \* bound: elections, failures, timeouts and restarts

Workflows == DOMAIN Plan

Terms == 1 .. (MaxFaults + 1)

Execution(k) == Plan[k].assignment.execution
Worker(k) == Plan[k].assignment.node
Pane(k) == Plan[k].pane

\* The keys of the commands a pass sends for workflow k, under the principal
\* of the original.
ReportKey(k, r, a) == <<k[1], ReportId(k, r, a)>>
CompleteKey(k) == <<k[1], CompleteId(k)>>

\* What a report can say, and the revisions an assigned pane can have.
Reported == {"ready", "unavailable", "failed"}
AssignedRevisions == (StartRevision + 1) .. MaxRevision

\* Executions of node w.
ExecutionsOf(w) == {Execution(k) : k \in {j \in Workflows : Worker(j) = w}}

\* What a worker says of an execution; term and by are what differs between
\* two authorities for it.
WorkerStates == {"ready", "unavailable", "closed"}
WorkerExecution == [term: Terms, by: Voters, state: WorkerStates]

\* A launch call: on its way, past the fence, registered but not yet stored.
LaunchCall == [by: Voters, term: Terms, workflow: Workflows, awaited: BOOLEAN,
               pc: {"sent", "admitted", "registered"}]

\* A pass of the loop; it works on the first of todo.
Pass == [view: [PaneIds -> PaneRecord \cup {Absent}], term: Terms,
         todo: (SUBSET Workflows) \ {{}},
         pc: {"query", "launching", "report", "complete"},
         found: WorkerExecution \cup {Absent}]

ASSUME PlanAssumption ==
  /\ Workflows \subseteq Keys
  /\ \A k \in Workflows : Plan[k] \in Launch
  /\ \A j, k \in Workflows : Execution(j) = Execution(k) => j = k
  /\ Rank \in [Workflows -> Nat]
  /\ FirstLeader \in Voters
  /\ MaxFaults \in Nat
  /\ Closable \subseteq ExecutionIds
  /\ 0 \in Times
  /\ StartRevision \in 3 .. MaxRevision
  /\ Created \in [PaneIds -> 3 .. StartRevision]
  /\ Reported \subseteq Availabilities

\* Whatever is pending, one workflow is the first of it.
ASSUME RankAssumption ==
  \A todo \in (SUBSET Workflows) \ {{}} :
    \E k \in todo : \A j \in todo : Rank[k] <= Rank[j]

\* SHA-256 of the original identity and a purpose: no two meet.
ASSUME DerivedAssumption ==
  /\ AnyRequest \in Fingerprints
  /\ WorkerExecution \subseteq Fingerprints
  /\ \A k \in Workflows : CompleteKey(k) \in Keys \ Workflows
  /\ \A k \in Workflows, r \in AssignedRevisions, a \in Reported :
       /\ ReportKey(k, r, a) \in Keys \ Workflows
       /\ \A j \in Workflows : ReportKey(k, r, a) # CompleteKey(j)
       /\ \A j \in Workflows, s \in AssignedRevisions, b \in Reported :
            ReportKey(k, r, a) = ReportKey(j, s, b) => j = k

ASSUME LaunchAbsentAssumption ==
  /\ Absent \notin WorkerExecution
  /\ Absent \notin Pass
  /\ Absent \notin Terms

VARIABLES
  leader,    \* external: the voter that can commit
  term,      \* external: its term
  pass,      \* the pass each voter is in
  up,        \* nodes that are active workers and answer calls
  registry,  \* per execution, what its worker has registered
  durable,   \* executions in the stored inventory of their worker
  fence,     \* per execution, the term of the accepted launch lease
  expired,   \* executions whose accepted launch lease is past its deadline
  launches,  \* launch calls the network or a worker still has
  faults,    \* failures so far
  launched   \* history: workflows whose execution has been registered

workerVars == <<registry, durable, fence, expired, launches, launched>>
clusterVars == <<leader, term, up, faults>>
launchVars == <<vars, pass, clusterVars, workerVars>>

\* A federation with its panes in place and nothing assigned yet.  What the
\* commands that created them left in the deduplication table is pruned.
LaunchInit ==
  /\ revision = StartRevision
  /\ \E w \in WorkspaceIds, t \in TabIds, name \in Names :
       /\ workspaces = [x \in WorkspaceIds |->
                          IF x = w THEN [name |-> name, revision |-> StartRevision] ELSE Absent]
       /\ tabs = [x \in TabIds |->
                    IF x = t THEN [workspace |-> w, revision |-> 2] ELSE Absent]
       /\ panes = [p \in PaneIds |-> [workspace |-> w, tab |-> t, execution |-> Absent,
                                      availability |-> "pending", revision |-> Created[p]]]
  /\ dedup = [k \in Keys |-> Absent]
  /\ acked = [k \in Keys |-> Absent]
  /\ leader = FirstLeader
  /\ term = 1
  /\ pass = [n \in Voters |-> Absent]
  /\ up = Nodes
  /\ registry = [e \in ExecutionIds |-> Absent]
  /\ durable = {}
  /\ fence = [e \in ExecutionIds |-> Absent]
  /\ expired = {}
  /\ launches = {}
  /\ faults = 0
  /\ launched = {}

-----------------------------------------------------------------------------
(* Clients. *)

\* A placement plan that is still current when its command is committed; a
\* stale one is rejected and leaves nothing to reconcile.
Submit(k) ==
  LET p == Pane(k)
  IN /\ HasPane(p)
     /\ Plan[k].assignment.generation = PaneGeneration(panes[p]) + 1
     /\ AssignExecution([key |-> k, fingerprint |-> AnyRequest, issued |-> 0],
                        p, panes[p].revision, PaneGeneration(panes[p]),
                        Plan[k].assignment)
     /\ UNCHANGED <<pass, clusterVars, workerVars>>

-----------------------------------------------------------------------------
(* A pass: reconcile_once, reconcile_pending, reconcile_launch. *)

Pending(k) == dedup[k] # Absent /\ dedup[k].response.status = "pending"
Settled(k) == dedup[k] # Absent /\ dedup[k].response.status = "complete"

\* The pane is there and has not been given another execution.
AssignedIn(k, view) ==
  /\ view[Pane(k)] # Absent
  /\ view[Pane(k)].execution = Plan[k].assignment

At(n, pc) == pass[n] # Absent /\ pass[n].pc = pc

First(todo) == CHOOSE k \in todo : \A j \in todo : Rank[k] <= Rank[j]

Current(n) == First(pass[n].todo)

\* A quorum read: only the leader gets a view, everyone else an empty pass.
StartPass(n) ==
  LET todo == {k \in Workflows : Pending(k)}
  IN /\ pass[n] = Absent
     /\ leader = n
     /\ todo # {}
     /\ pass' = [pass EXCEPT ![n] = [view |-> panes, term |-> term,
                                     todo |-> todo, pc |-> "query", found |-> Absent]]
     /\ UNCHANGED <<vars, clusterVars, workerVars>>

\* Mutation of Finished: the pass goes on with nothing left to do.
FinishedAlways(n) ==
  [pass[n] EXCEPT !.todo = pass[n].todo \ {Current(n)}, !.pc = "query", !.found = Absent]

\* The current workflow is left for the next one.
Finished(n) ==
  LET rest == pass[n].todo \ {Current(n)}
  IN IF rest = {} THEN Absent
     ELSE [pass[n] EXCEPT !.todo = rest, !.pc = "query", !.found = Absent]

\* Any error ends the whole pass; the loop starts another one.
Abort(n) == pass' = [pass EXCEPT ![n] = Absent]

Skip(n) ==
  /\ At(n, "query")
  /\ ~AssignedIn(Current(n), pass[n].view)
  /\ pass' = [pass EXCEPT ![n] = Finished(n)]
  /\ UNCHANGED <<vars, clusterVars, workerVars>>

\* active_worker refuses the node, or the query gets no answer.
Unusable(n) ==
  /\ At(n, "query")
  /\ AssignedIn(Current(n), pass[n].view)
  /\ Worker(Current(n)) \notin up
  /\ Abort(n)
  /\ UNCHANGED <<vars, clusterVars, workerVars>>

CanQuery(n) ==
  /\ At(n, "query")
  /\ AssignedIn(Current(n), pass[n].view)
  /\ Worker(Current(n)) \in up

\* The pane availability an execution state stands for.  No worker leaves an
\* execution launching, exited or quarantined.
AvailabilityOf(execution) ==
  CASE execution.state = "ready" -> "ready"
    [] execution.state = "unavailable" -> "unavailable"
    [] execution.state = "closed" -> "failed"

\* Mutation of Learned: the workflow is completed without a report.
LearnedUnreported(n, execution) ==
  [pass[n] EXCEPT !.found = execution, !.pc = "complete"]

\* Mutation of Learned: a pane that shows the right thing is passed over.
LearnedShown(n, execution) ==
  IF pass[n].view[Pane(Current(n))].availability = AvailabilityOf(execution) THEN Absent
  ELSE [pass[n] EXCEPT !.found = execution, !.pc = "report"]

\* A report is needed when the view shows something else.
Learned(n, execution) ==
  [pass[n] EXCEPT !.found = execution,
                  !.pc = IF pass[n].view[Pane(Current(n))].availability
                              = AvailabilityOf(execution)
                         THEN "complete" ELSE "report"]

QueryFound(n) ==
  LET e == Execution(Current(n))
  IN /\ CanQuery(n)
     /\ registry[e] # Absent
     /\ pass' = [pass EXCEPT ![n] = Learned(n, registry[e])]
     /\ UNCHANGED <<vars, clusterVars, workerVars>>

\* The worker does not know the execution: launch_execution, with the term
\* this voter's metrics show, which is never behind the view's.
QueryMissing(n, t) ==
  LET k == Current(n)
  IN /\ CanQuery(n)
     /\ registry[Execution(k)] = Absent
     /\ pass[n].term <= t
     /\ t <= term
     /\ leader = n => t = term
     /\ pass' = [pass EXCEPT ![n].pc = "launching", ![n].term = t]
     /\ launches' = launches \cup
          {[by |-> n, term |-> t, workflow |-> k, awaited |-> TRUE, pc |-> "sent"]}
     /\ UNCHANGED <<vars, clusterVars, registry, durable, fence, expired, launched>>

-----------------------------------------------------------------------------
(* The commands of a pass, at the point where the log commits them. *)

ReportCommand(n) ==
  LET k == Current(n)
  IN [key |-> ReportKey(k, pass[n].view[Pane(k)].revision,
                        AvailabilityOf(pass[n].found)),
      fingerprint |-> AnyRequest, issued |-> 0]

CompleteCommand(n) ==
  LET k == Current(n)
  IN [key |-> CompleteKey(k), fingerprint |-> pass[n].found, issued |-> 0]

\* SetPaneAvailability against the revision of the view.
ApplyReport(n) ==
  LET c == ReportCommand(n)
      k == Current(n)
      p == Pane(k)
      expected == pass[n].view[p].revision
      known == HasPane(p) /\ panes[p].revision = expected
                 /\ panes[p].execution = Plan[k].assignment
  IN \/ Duplicate(c)
     \/ SetPaneAvailability(c, p, expected, Plan[k].assignment,
                            AvailabilityOf(pass[n].found))
     \/ ~known /\ Reject(c)

ReportAccepted(n) == dedup'[ReportCommand(n).key].response.result = "accepted"

Report(n) ==
  /\ At(n, "report")
  /\ leader = n
  /\ ApplyReport(n)
  /\ pass' = [pass EXCEPT ![n] = IF ReportAccepted(n)
                                 THEN [@ EXCEPT !.pc = "complete"] ELSE Absent]
  /\ UNCHANGED <<clusterVars, workerVars>>

\* The payload is the execution found: another one under the same identity
\* is a conflict.  The original is pending or complete, never pruned.
ApplyComplete(n) ==
  LET c == CompleteCommand(n)
  IN \/ Duplicate(c)
     \/ Conflict(c)
     \/ CompleteWorkflow(c, Current(n)[2])

CompleteConflicts(n) ==
  LET c == CompleteCommand(n)
  IN dedup[c.key] # Absent /\ dedup[c.key].fingerprint # c.fingerprint

Complete(n) ==
  /\ At(n, "complete")
  /\ leader = n
  /\ ApplyComplete(n)
  /\ pass' = [pass EXCEPT ![n] = IF CompleteConflicts(n) THEN Absent ELSE Finished(n)]
  /\ UNCHANGED <<clusterVars, workerVars>>

\* The command is committed, the voter gets an error: it was deposed.
CommitUnanswered(n) ==
  /\ faults < MaxFaults
  /\ leader = n
  /\ \/ At(n, "report") /\ ApplyReport(n)
     \/ At(n, "complete") /\ ApplyComplete(n)
  /\ Abort(n)
  /\ faults' = faults + 1
  /\ UNCHANGED <<leader, term, up, workerVars>>

NotLeader(n) ==
  /\ At(n, "report") \/ At(n, "complete")
  /\ leader # n
  /\ Abort(n)
  /\ UNCHANGED <<vars, clusterVars, workerVars>>

-----------------------------------------------------------------------------
(* The worker's launch. *)

\* worker_execution; also what a recorded outcome answers later on.
Launched(call) == [term |-> call.term, by |-> call.by, state |-> "ready"]

\* Mutation of Answered: a failed launch is taken for a launched one.
AnsweredAnyway(call, execution) ==
  pass' = IF ~call.awaited THEN pass
          ELSE [pass EXCEPT ![call.by] = Learned(call.by, Launched(call))]

\* The call ends: with the execution, or with an error (Absent).
Answered(call, execution) ==
  pass' = IF ~call.awaited THEN pass
          ELSE [pass EXCEPT ![call.by] = IF execution = Absent THEN Absent
                                         ELSE Learned(call.by, execution)]

End(call) == launches' = launches \ {call}

Moved(call, pc) == launches' = (launches \ {call}) \cup {[call EXCEPT !.pc = pc]}

Launching(call) == Execution(call.workflow)

\* An arriving call is answered if its authority is the registered one; one
\* that has created its pane must find exactly what it would register.
Matches(call) ==
  LET entry == registry[Launching(call)]
  IN IF call.pc = "sent" THEN entry.term = call.term /\ entry.by = call.by
     ELSE entry = Launched(call)

\* validate_mutation; the sequence and the identity of the lease are the
\* command's, the same for every call of the workflow.
FenceAccepts(call) ==
  LET e == Launching(call)
  IN fence[e] # Absent =>
       \/ call.term > fence[e]
       \/ call.term = fence[e] /\ e \notin expired

Admit(call) ==
  LET e == Launching(call)
  IN /\ call.pc = "sent"
     /\ Worker(call.workflow) \in up
     /\ registry[e] = Absent
     /\ FenceAccepts(call)
     /\ fence' = [fence EXCEPT ![e] = call.term]
     /\ expired' = IF fence[e] = call.term THEN expired ELSE expired \ {e}
     /\ Moved(call, "admitted")
     /\ UNCHANGED <<vars, pass, clusterVars, registry, durable, launched>>

\* StaleTerm or LeaseExpired.
Refuse(call) ==
  /\ call.pc = "sent"
  /\ Worker(call.workflow) \in up
  /\ registry[Launching(call)] = Absent
  /\ ~FenceAccepts(call)
  /\ Answered(call, Absent)
  /\ End(call)
  /\ UNCHANGED <<vars, clusterVars, registry, durable, fence, expired, launched>>

\* Registered before the call arrived, or while its pane was created; what
\* does not match is a CommandConflict.
FindRegistered(call) ==
  /\ \/ call.pc = "sent" /\ Worker(call.workflow) \in up
     \/ call.pc = "admitted"
  /\ registry[Launching(call)] # Absent
  /\ \/ /\ Matches(call)
        /\ Moved(call, "registered")
        /\ UNCHANGED pass
     \/ /\ ~Matches(call)
        /\ Answered(call, Absent)
        /\ End(call)
  /\ UNCHANGED <<vars, clusterVars, registry, durable, fence, expired, launched>>

\* Mutation of Register: it replaces what was registered meanwhile.
RegisterAnyway(call) ==
  LET e == Launching(call)
  IN /\ call.pc = "admitted"
     /\ registry' = [registry EXCEPT ![e] = Launched(call)]
     /\ launched' = launched \cup {call.workflow}
     /\ Moved(call, "registered")
     /\ UNCHANGED <<vars, pass, clusterVars, durable, fence, expired>>

\* The pane is there: the second critical section.
Register(call) ==
  LET e == Launching(call)
  IN /\ call.pc = "admitted"
     /\ registry[e] = Absent
     /\ registry' = [registry EXCEPT ![e] = Launched(call)]
     /\ launched' = launched \cup {call.workflow}
     /\ Moved(call, "registered")
     /\ UNCHANGED <<vars, pass, clusterVars, durable, fence, expired>>

\* persist_after writes the whole inventory of the worker.
Store(call) ==
  /\ call.pc = "registered"
  /\ durable' = durable \cup {e \in ExecutionsOf(Worker(call.workflow)) : registry[e] # Absent}
  /\ Answered(call, Launched(call))
  /\ End(call)
  /\ UNCHANGED <<vars, clusterVars, registry, fence, expired, launched>>

\* The lease verifier, the pane runtime or the storage fails, or the call is
\* lost on the way.
LaunchFails(call) ==
  /\ faults < MaxFaults
  /\ Answered(call, Absent)
  /\ End(call)
  /\ faults' = faults + 1
  /\ UNCHANGED <<vars, leader, term, up, registry, durable, fence, expired, launched>>

-----------------------------------------------------------------------------
(* What can go wrong around them. *)

\* Calls of the passes in S have nobody to answer any more.
Orphaned(S) ==
  {IF call.by \in S THEN [call EXCEPT !.awaited = FALSE] ELSE call : call \in launches}

\* A timeout, a lost answer, a failed read, a restart of the voter.
PassFails(n) ==
  /\ faults < MaxFaults
  /\ pass[n] # Absent
  /\ Abort(n)
  /\ launches' = Orphaned({n})
  /\ faults' = faults + 1
  /\ UNCHANGED <<vars, leader, term, up, registry, durable, fence, expired, launched>>

\* Another voter takes over.
Elect(n) ==
  /\ faults < MaxFaults
  /\ n # leader
  /\ term' = term + 1
  /\ leader' = n
  /\ faults' = faults + 1
  /\ UNCHANGED <<vars, pass, up, workerVars>>

\* The node stops answering, and no answer of a call it has gets through.
GoesDown(w) ==
  LET cut == {n \in Voters : \E call \in launches :
                call.awaited /\ call.by = n /\ Worker(call.workflow) = w}
  IN /\ faults < MaxFaults
     /\ w \in up
     /\ up' = up \ {w}
     /\ pass' = [n \in Voters |-> IF n \in cut THEN Absent ELSE pass[n]]
     /\ launches' = Orphaned(cut)
     /\ faults' = faults + 1
     /\ UNCHANGED <<vars, leader, term, registry, durable, fence, expired, launched>>

ComesUp(w) ==
  /\ w \notin up
  /\ up' = up \cup {w}
  /\ UNCHANGED <<vars, pass, leader, term, faults, workerVars>>

\* The worker's process restarts while it is down: calls and fence are gone,
\* the stored inventory is matched with the panes that are left.
Restart(w) ==
  /\ w \notin up
  /\ \E kept \in SUBSET ExecutionsOf(w) :
       registry' = [e \in ExecutionIds |->
                      IF e \notin ExecutionsOf(w) THEN registry[e]
                      ELSE IF e \notin durable THEN Absent
                      ELSE [registry[e] EXCEPT !.state = IF e \in kept THEN "ready"
                                                         ELSE "unavailable"]]
  /\ fence' = [e \in ExecutionIds |-> IF e \in ExecutionsOf(w) THEN Absent ELSE fence[e]]
  /\ expired' = expired \ ExecutionsOf(w)
  /\ launches' = {call \in launches : Worker(call.workflow) # w}
  /\ UNCHANGED <<vars, pass, clusterVars, durable, launched>>

\* An attached client closes the execution.
Close(e) ==
  /\ registry[e] # Absent
  /\ registry[e].state = "ready"
  /\ registry' = [registry EXCEPT ![e].state = "closed"]
  /\ UNCHANGED <<vars, pass, clusterVars, durable, fence, expired, launches, launched>>

\* Five seconds pass.  Once the execution is registered its launch lease is
\* not looked at again.
LeaseExpires(e) ==
  /\ faults < MaxFaults
  /\ fence[e] # Absent
  /\ registry[e] = Absent
  /\ e \notin expired
  /\ expired' = expired \cup {e}
  /\ faults' = faults + 1
  /\ UNCHANGED <<vars, pass, leader, term, up, registry, durable, fence, launches, launched>>

-----------------------------------------------------------------------------

Client ==
  \/ \E k \in Workflows : Submit(k)
  \/ \E e \in Closable : Close(e)

Reconcile(n) ==
  \/ StartPass(n)
  \/ Skip(n)
  \/ Unusable(n)
  \/ QueryFound(n)
  \/ \E t \in Terms : QueryMissing(n, t)
  \/ Report(n)
  \/ Complete(n)
  \/ NotLeader(n)

Serve(call) ==
  \/ Admit(call)
  \/ Refuse(call)
  \/ FindRegistered(call)
  \/ Register(call)
  \/ Store(call)

Trouble ==
  \/ \E n \in Voters : CommitUnanswered(n) \/ PassFails(n) \/ Elect(n)
  \/ \E call \in launches : LaunchFails(call)
  \/ \E w \in Nodes : GoesDown(w) \/ Restart(w)
  \/ \E e \in ExecutionIds : LeaseExpires(e)

Recovery == \E w \in Nodes : ComesUp(w)

LaunchNext ==
  \/ Client
  \/ \E n \in Voters : Reconcile(n)
  \/ \E call \in launches : Serve(call)
  \/ Trouble
  \/ Recovery

\* Every voter's loop keeps running and the workers handle what reaches
\* them; nothing is assumed of elections, failures or recoveries.
Fairness ==
  /\ \A n \in Voters : WF_launchVars(Reconcile(n))
  /\ WF_launchVars(\E call \in launches : Serve(call))

LaunchSpec == LaunchInit /\ [][LaunchNext]_launchVars

FairLaunchSpec == LaunchSpec /\ Fairness

-----------------------------------------------------------------------------
(* Properties. *)

\* The passes, the workers' registries, fences and launch calls have their
\* shapes, and so has the control state.
LaunchTypeOK ==
  /\ TypeOK
  /\ leader \in Voters
  /\ term \in Terms
  /\ pass \in [Voters -> Pass \cup {Absent}]
  /\ up \subseteq Nodes
  /\ registry \in [ExecutionIds -> WorkerExecution \cup {Absent}]
  /\ durable \subseteq ExecutionIds
  /\ fence \in [ExecutionIds -> Terms \cup {Absent}]
  /\ expired \subseteq ExecutionIds
  /\ launches \subseteq LaunchCall
  /\ faults \in 0 .. MaxFaults
  /\ launched \subseteq Workflows

\* A workflow that is answered as complete leaves no pane pending: whatever
\* happened to the voters on the way, the pane that still has the workflow's
\* assignment shows what a worker reported of it (reconcile_launch reports
\* before it completes and gives up when the report is not accepted).
CompletedIsShown ==
  \A k \in Workflows : Settled(k) /\ AssignedIn(k, panes) =>
    panes[Pane(k)].availability # "pending"

\* However many leaders launch it at once, an execution is started for one of
\* them: the registration stays with the launch that made it, and only a
\* restart of the worker forgets one, which the inventory did not have yet
\* (WorkerRegistry::launch looks again after the pane was created).
SameLaunch(old, new) == new # Absent /\ new.term = old.term /\ new.by = old.by

StartedOnce ==
  [][\A e \in ExecutionIds : registry[e] # Absent =>
       \/ SameLaunch(registry[e], registry'[e])
       \/ registry'[e] = Absent /\ e \notin durable]_launchVars

\* Reports accepted for k.
Shown(k) ==
  \E r \in AssignedRevisions, a \in Reported :
    LET record == dedup[ReportKey(k, r, a)]
    IN record # Absent /\ record.response.result = "accepted"

Contract == INSTANCE LaunchContract WITH
  asked <- {k \in Workflows : dedup[k] # Absent},
  started <- launched,
  shown <- {k \in Workflows : Shown(k)},
  settled <- {k \in Workflows : Settled(k)}

\* The voters, the log and the workers together keep the launch contract: an
\* execution is started only for an accepted workflow, its pane shows an
\* outcome only after that, and the workflow settles last and once
\* (INVARIANTS.md: "Reconcilers execute idempotent effects from durable
\* intent and resume that work across leadership changes").
KeepsContract == Contract!Spec

\* Every workflow whose pane still wants it completes, if from some time on
\* the workers are members and answer, and no launch lease ran out before
\* its execution was registered.
Wanted(k) == Pending(k) /\ AssignedIn(k, panes)

WorkersReturn == <>[](Nodes \subseteq up)
LeasesLast == [](expired = {})

Completes ==
  WorkersReturn /\ LeasesLast => \A k \in Workflows : Wanted(k) ~> ~Wanted(k)

-----------------------------------------------------------------------------
(* What the documents state and the code does not keep. *)

\* A workflow completes if its own worker is a member and answers from some
\* time on, whatever the other workers do.
OwnWorkerReturns(k) == <>[](Worker(k) \in up)

CompletesByItself ==
  LeasesLast => \A k \in Workflows : OwnWorkerReturns(k) => (Wanted(k) ~> ~Wanted(k))
=============================================================================
