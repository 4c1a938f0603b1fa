---------------------------- MODULE ControlState ----------------------------
(***************************************************************************)
(* The replicated control state of a federation: workspaces, logical tabs, *)
(* logical panes and the deduplication table, as changed by the committed  *)
(* log entries that ControlState::apply consumes                           *)
(* (plugins/cluster-plugin/src/control_state.rs).                          *)
(*                                                                         *)
(* Every voter applies the same commands in the same order, so one copy of *)
(* the state stands for all of them and every action is one apply call.    *)
(* Membership records and feature activation are left out.                 *)
(*                                                                         *)
(* Names, layouts, placement intents and other payloads no property looks  *)
(* at are dropped.  A fingerprint stands for the canonical request bytes:  *)
(* two commands have the same fingerprint iff they make the same request.  *)
(***************************************************************************)
EXTENDS Naturals

CONSTANTS
  Principals,     \* originating principals
  CommandIds,     \* caller-generated command identities
  Fingerprints,   \* digests of request bytes
  Times,          \* leader-assigned issue times and prune cutoffs
  WorkspaceIds,
  TabIds,
  PaneIds,
  Names,          \* workspace display names
  Nodes,          \* worker nodes an execution can be assigned to
  ExecutionIds,
  Availabilities, \* values of PaneAvailability used by the instance
  MaxGeneration,  \* bound: largest execution generation a command carries
  MaxRevision,    \* bound: largest control revision reached
  Absent          \* "no record under this key"

\* A key of the deduplication table: command identities are per principal.
Keys == Principals \X CommandIds

\* An execution tuple.  Generation zero can be submitted, never stored.
SubmittedAssignment ==
  [node: Nodes, execution: ExecutionIds, generation: 0 .. MaxGeneration]
Assignment ==
  [node: Nodes, execution: ExecutionIds, generation: 1 .. MaxGeneration]

WorkspaceRecord == [name: Names, revision: Nat]
TabRecord == [workspace: WorkspaceIds, revision: Nat]
PaneRecord == [workspace: WorkspaceIds, tab: TabIds,
               execution: Assignment \cup {Absent},
               availability: Availabilities, revision: Nat]

Response == [revision: Nat,
             status: {"pending", "complete"},
             result: {"accepted", "rejected"}]

\* What AssignExecution asks a worker to do; kept with its outcome so that a
\* leader can drive it to completion.
Launch == [pane: PaneIds, assignment: Assignment]

DedupRecord == [fingerprint: Fingerprints, issued: Times,
                launch: Launch \cup {Absent}, response: Response]

\* The envelope of a command, without its request.
Command == [key: Keys, fingerprint: Fingerprints, issued: Times]

ASSUME BoundsAssumption ==
  /\ MaxGeneration \in Nat
  /\ MaxRevision \in Nat
  /\ Times \subseteq Nat

ASSUME AvailabilityAssumption == "pending" \in Availabilities

ASSUME AbsentAssumption ==
  /\ Absent \notin WorkspaceRecord
  /\ Absent \notin TabRecord
  /\ Absent \notin PaneRecord
  /\ Absent \notin SubmittedAssignment
  /\ Absent \notin Launch
  /\ Absent \notin Response
  /\ Absent \notin DedupRecord

VARIABLES
  revision,   \* the control revision
  workspaces,
  tabs,
  panes,
  dedup,      \* outcomes by key
  acked       \* history: the last response given for a key while its
              \* outcome is retained

vars == <<revision, workspaces, tabs, panes, dedup, acked>>

Init ==
  /\ revision = 0
  /\ workspaces = [w \in WorkspaceIds |-> Absent]
  /\ tabs = [t \in TabIds |-> Absent]
  /\ panes = [p \in PaneIds |-> Absent]
  /\ dedup = [k \in Keys |-> Absent]
  /\ acked = [k \in Keys |-> Absent]

-----------------------------------------------------------------------------
(* The envelope: deduplication, revision counting, recording the outcome. *)

NewCommand(c) == dedup[c.key] = Absent

\* The outcome of c goes into `table` (the dedup table as the request left
\* it) and is returned to the caller.
RecordOutcome(c, table, status, result, launch) ==
  LET response == [revision |-> revision', status |-> status, result |-> result]
  IN /\ dedup' = [table EXCEPT ![c.key] =
                    [fingerprint |-> c.fingerprint, issued |-> c.issued,
                     launch |-> launch, response |-> response]]
     /\ acked' = [k \in Keys |-> IF k = c.key THEN response
                                 ELSE IF table[k] = Absent THEN Absent
                                 ELSE acked[k]]

\* An accepted request that changed something: one new control revision,
\* which the records it wrote get too.
NewRevision == revision + 1

Changed == revision < MaxRevision /\ revision' = NewRevision

CompleteChanged(c) ==
  /\ Changed
  /\ RecordOutcome(c, dedup, "complete", "accepted", Absent)

\* An accepted request that found nothing to change.
CompleteUnchanged(c) ==
  /\ UNCHANGED <<revision, workspaces, tabs, panes>>
  /\ RecordOutcome(c, dedup, "complete", "accepted", Absent)

\* Every error path of a new command - an unsupported schema version or any
\* precondition that an action below states as a guard - has this effect:
\* the rejection is recorded and nothing else changes.  A command of the
\* wrong schema version makes it possible in every state.
Reject(c) ==
  /\ NewCommand(c)
  /\ UNCHANGED <<revision, workspaces, tabs, panes>>
  /\ RecordOutcome(c, dedup, "complete", "rejected", Absent)

\* Mutation of Duplicate: the answer carries the current control revision.
DuplicateAtRevision(c) ==
  /\ dedup[c.key] # Absent
  /\ dedup[c.key].fingerprint = c.fingerprint
  /\ acked' = [acked EXCEPT ![c.key] =
                 [dedup[c.key].response EXCEPT !.revision = revision]]
  /\ UNCHANGED <<revision, workspaces, tabs, panes, dedup>>

\* The same command again: the recorded response, nothing applied.
Duplicate(c) ==
  /\ dedup[c.key] # Absent
  /\ dedup[c.key].fingerprint = c.fingerprint
  /\ acked' = [acked EXCEPT ![c.key] = dedup[c.key].response]
  /\ UNCHANGED <<revision, workspaces, tabs, panes, dedup>>

\* Another request under a used key: CommandIdConflict, nothing recorded.
Conflict(c) ==
  /\ dedup[c.key] # Absent
  /\ dedup[c.key].fingerprint # c.fingerprint
  /\ UNCHANGED vars

-----------------------------------------------------------------------------
(* The requests. *)

HasWorkspace(w) == workspaces[w] # Absent
HasTab(t) == tabs[t] # Absent
HasPane(p) == panes[p] # Absent

PaneGeneration(pane) ==
  IF pane.execution = Absent THEN 0 ELSE pane.execution.generation

CreateWorkspace(c, w, name) ==
  /\ NewCommand(c)
  /\ ~HasWorkspace(w)
  /\ CompleteChanged(c)
  /\ workspaces' = [workspaces EXCEPT ![w] =
                      [name |-> name, revision |-> NewRevision]]
  /\ UNCHANGED <<tabs, panes>>

RenameWorkspace(c, w, expected, name) ==
  /\ NewCommand(c)
  /\ HasWorkspace(w)
  /\ workspaces[w].revision = expected
  /\ \/ /\ workspaces[w].name # name
        /\ CompleteChanged(c)
        /\ workspaces' = [workspaces EXCEPT ![w] =
                            [name |-> name, revision |-> NewRevision]]
        /\ UNCHANGED <<tabs, panes>>
     \/ /\ workspaces[w].name = name
        /\ CompleteUnchanged(c)

\* Mutation of PutTab: the workspace keeps its revision.
PutTabAlone(c, t, tab, expected) ==
  /\ NewCommand(c)
  /\ HasWorkspace(tab.workspace)
  /\ workspaces[tab.workspace].revision = expected
  /\ tabs[t] # tab
  /\ CompleteChanged(c)
  /\ tabs' = [tabs EXCEPT ![t] = [tab EXCEPT !.revision = NewRevision]]
  /\ UNCHANGED <<workspaces, panes>>

\* `tab` is the submitted record.  The whole record is compared with the
\* stored one, the revision the caller happened to carry included; that
\* revision is then replaced, with the one of the tab's (new) workspace.
PutTab(c, t, tab, expected) ==
  /\ NewCommand(c)
  /\ HasWorkspace(tab.workspace)
  /\ workspaces[tab.workspace].revision = expected
  /\ \/ /\ tabs[t] # tab
        /\ CompleteChanged(c)
        /\ tabs' = [tabs EXCEPT ![t] = [tab EXCEPT !.revision = NewRevision]]
        /\ workspaces' = [workspaces EXCEPT ![tab.workspace].revision = NewRevision]
        /\ UNCHANGED panes
     \/ /\ tabs[t] = tab
        /\ CompleteUnchanged(c)

\* Mutation of TabEmpty: a tab is removed with its panes left behind.
TabEmptyUnchecked(t) == TRUE

TabEmpty(t) == \A p \in PaneIds : HasPane(p) => panes[p].tab # t

RemoveTab(c, t, expected) ==
  /\ NewCommand(c)
  /\ HasTab(t)
  /\ workspaces[tabs[t].workspace].revision = expected
  /\ TabEmpty(t)
  /\ CompleteChanged(c)
  /\ tabs' = [tabs EXCEPT ![t] = Absent]
  /\ UNCHANGED <<workspaces, panes>>

RequirePaneReferences(pane) ==
  /\ HasWorkspace(pane.workspace)
  /\ HasTab(pane.tab)
  /\ tabs[pane.tab].workspace = pane.workspace

\* Mutation of ValidateExecution: generation zero is stored.
ValidateExecutionUnchecked(pane) == TRUE

ValidateExecution(pane) ==
  pane.execution # Absent => pane.execution.generation # 0

\* The checks decode_snapshot makes on a state it has read.
ValidateReferences ==
  /\ \A t \in TabIds : HasTab(t) => HasWorkspace(tabs[t].workspace)
  /\ \A p \in PaneIds : HasPane(p) =>
       RequirePaneReferences(panes[p]) /\ ValidateExecution(panes[p])

PutPane(c, p, pane, expected) ==
  /\ NewCommand(c)
  /\ RequirePaneReferences(pane)
  /\ workspaces[pane.workspace].revision = expected
  /\ ValidateExecution(pane)
  /\ \/ /\ panes[p] # pane
        /\ CompleteChanged(c)
        /\ panes' = [panes EXCEPT ![p] = [pane EXCEPT !.revision = NewRevision]]
        /\ workspaces' = [workspaces EXCEPT ![pane.workspace].revision = NewRevision]
        /\ UNCHANGED tabs
     \/ /\ panes[p] = pane
        /\ CompleteUnchanged(c)

\* generation is Absent when the caller does not pin the execution.
RemovePane(c, p, expected, generation) ==
  /\ NewCommand(c)
  /\ HasPane(p)
  /\ panes[p].revision = expected
  /\ generation # Absent => generation = PaneGeneration(panes[p])
  /\ CompleteChanged(c)
  /\ panes' = [panes EXCEPT ![p] = Absent]
  /\ UNCHANGED <<workspaces, tabs>>

AssignExecution(c, p, expected, generation, assignment) ==
  /\ NewCommand(c)
  /\ HasPane(p)
  /\ panes[p].revision = expected
  /\ generation = PaneGeneration(panes[p])
  /\ assignment.generation > generation
  /\ Changed
  /\ RecordOutcome(c, dedup, "pending", "accepted",
                   [pane |-> p, assignment |-> assignment])
  /\ panes' = [panes EXCEPT ![p].execution = assignment,
                            ![p].availability = "pending",
                            ![p].revision = NewRevision]
  /\ UNCHANGED <<workspaces, tabs>>

\* Mutation of SetPaneAvailability: the pane keeps its revision.
SetPaneAvailabilityInPlace(c, p, expected, assignment, availability) ==
  /\ NewCommand(c)
  /\ HasPane(p)
  /\ panes[p].revision = expected
  /\ panes[p].execution = assignment
  /\ CompleteChanged(c)
  /\ panes' = [panes EXCEPT ![p].availability = availability]
  /\ UNCHANGED <<workspaces, tabs>>

\* The reason text is dropped: a change of the reason alone is a change, so
\* an equal availability may or may not count as one.
SetPaneAvailability(c, p, expected, assignment, availability) ==
  /\ NewCommand(c)
  /\ HasPane(p)
  /\ panes[p].revision = expected
  /\ panes[p].execution = assignment
  /\ \/ /\ CompleteChanged(c)
        /\ panes' = [panes EXCEPT ![p].availability = availability,
                                  ![p].revision = NewRevision]
        /\ UNCHANGED <<workspaces, tabs>>
     \/ /\ panes[p].availability = availability
        /\ CompleteUnchanged(c)

\* The original is looked up under the completing command's principal.
CompleteWorkflow(c, id) ==
  LET original == <<c.key[1], id>>
  IN /\ NewCommand(c)
     /\ dedup[original] # Absent
     /\ \/ /\ dedup[original].response.status = "pending"
           /\ Changed
           /\ RecordOutcome(c, [dedup EXCEPT ![original].response.status = "complete",
                                             ![original].response.result = "accepted"],
                            "complete", "accepted", Absent)
           /\ UNCHANGED <<workspaces, tabs, panes>>
        \/ /\ dedup[original].response.status = "complete"
           /\ CompleteUnchanged(c)

\* Mutation of Retained: the age decides alone.
RetainedByAge(record, cutoff) == record.issued >= cutoff

\* The retention rule of PruneDedup.
Retained(record, cutoff) ==
  \/ record.response.status = "pending"
  \/ record.issued >= cutoff

\* The same rule prunes the outcomes of feature activations, of which there
\* are none here.
PruneDedup(c, cutoff) ==
  LET kept == [k \in Keys |->
                 IF dedup[k] # Absent /\ Retained(dedup[k], cutoff)
                 THEN dedup[k] ELSE Absent]
  IN /\ NewCommand(c)
     /\ \/ /\ kept # dedup
           /\ Changed
           /\ RecordOutcome(c, kept, "complete", "accepted", Absent)
           /\ UNCHANGED <<workspaces, tabs, panes>>
        \/ /\ kept = dedup
           /\ CompleteUnchanged(c)

-----------------------------------------------------------------------------
(* Inputs: expected revisions up to the current one; a submitted record    *)
(* carries revision 0 (built afresh, or differing from the stored one in a *)
(* field the model drops) or the one stored under its identity.            *)

Carried(table, id) == {0} \cup (IF table[id] = Absent THEN {} ELSE {table[id].revision})

SubmittedTab(t) == [workspace: WorkspaceIds, revision: Carried(tabs, t)]

SubmittedPane(p) ==
  [workspace: WorkspaceIds, tab: TabIds,
   execution: SubmittedAssignment \cup {Absent},
   availability: Availabilities, revision: Carried(panes, p)]

WorkspaceCommand(c) ==
  \E w \in WorkspaceIds, name \in Names :
    \/ CreateWorkspace(c, w, name)
    \/ \E expected \in 0 .. revision : RenameWorkspace(c, w, expected, name)

TabCommand(c) ==
  \E t \in TabIds, expected \in 0 .. revision :
    \/ \E tab \in SubmittedTab(t) : PutTab(c, t, tab, expected)
    \/ RemoveTab(c, t, expected)

PaneCommand(c) ==
  \E p \in PaneIds, expected \in 0 .. revision :
    \/ \E pane \in SubmittedPane(p) : PutPane(c, p, pane, expected)
    \/ \E generation \in (0 .. MaxGeneration) \cup {Absent} :
         RemovePane(c, p, expected, generation)

ExecutionCommand(c) ==
  \E p \in PaneIds, expected \in 0 .. revision :
    \/ \E generation \in 0 .. MaxGeneration, assignment \in Assignment :
         AssignExecution(c, p, expected, generation, assignment)
    \/ \E assignment \in Assignment, availability \in Availabilities :
         SetPaneAvailability(c, p, expected, assignment, availability)

OutcomeCommand(c) ==
  \/ Reject(c)
  \/ Duplicate(c)
  \/ Conflict(c)
  \/ \E id \in CommandIds : CompleteWorkflow(c, id)
  \/ \E cutoff \in Times : PruneDedup(c, cutoff)

Next ==
  \E c \in Command :
    \/ WorkspaceCommand(c)
    \/ TabCommand(c)
    \/ PaneCommand(c)
    \/ ExecutionCommand(c)
    \/ OutcomeCommand(c)

Spec == Init /\ [][Next]_vars

-----------------------------------------------------------------------------
(* Properties. *)

\* Every part of the control state has its shape; in particular no stored
\* execution has generation zero (validate_execution, AssignExecution).
TypeOK ==
  /\ revision \in Nat
  /\ workspaces \in [WorkspaceIds -> WorkspaceRecord \cup {Absent}]
  /\ tabs \in [TabIds -> TabRecord \cup {Absent}]
  /\ panes \in [PaneIds -> PaneRecord \cup {Absent}]
  /\ dedup \in [Keys -> DedupRecord \cup {Absent}]
  /\ acked \in [Keys -> Response \cup {Absent}]

\* Whatever commands are applied in whatever order, a tab's workspace, a
\* pane's tab and a pane's workspace exist (require_pane_references, the
\* emptiness check of RemoveTab): the part of validate_references that the
\* code keeps true.
ReferencesExist ==
  /\ \A t \in TabIds : HasTab(t) => HasWorkspace(tabs[t].workspace)
  /\ \A p \in PaneIds : HasPane(p) =>
       HasTab(panes[p].tab) /\ HasWorkspace(panes[p].workspace)

\* A workspace's revision covers its tabs: no tab of a workspace is newer
\* than the workspace, so the expected_workspace_revision of PutTab and
\* RemoveTab detects every later write of a tab into the workspace
\* (set_changed_record_revisions).  A tab that is removed or moved away
\* leaves the revision of the workspace it was in as it was.
WorkspaceCoversTabs ==
  \A t \in TabIds : HasTab(t) =>
    tabs[t].revision <= workspaces[tabs[t].workspace].revision

\* A caller that was told an outcome was told the recorded one, except that
\* a workflow it was told is pending may have completed since.
Agrees(told, recorded) ==
  \/ told = recorded
  \/ /\ told.status = "pending"
     /\ recorded = [told EXCEPT !.status = "complete"]

AckedIsRecorded ==
  \A k \in Keys :
    IF dedup[k] = Absent THEN acked[k] = Absent
    ELSE acked[k] # Absent /\ Agrees(acked[k], dedup[k].response)

\* Only an accepted AssignExecution leaves a workflow pending.
PendingIsLaunch ==
  \A k \in Keys : dedup[k] # Absent /\ dedup[k].response.status = "pending" =>
    dedup[k].launch # Absent /\ dedup[k].response.result = "accepted"

\* Every write of a record gives it a revision no record ever had before, so
\* an expected revision read earlier never matches a record that has been
\* rewritten, or removed and created again, in the meantime.
FreshRevision(old, new) ==
  new # old /\ new # Absent => new.revision > revision /\ new.revision = revision'

RevisionsAreFresh ==
  [][/\ \A w \in WorkspaceIds : FreshRevision(workspaces[w], workspaces'[w])
     /\ \A t \in TabIds : FreshRevision(tabs[t], tabs'[t])
     /\ \A p \in PaneIds : FreshRevision(panes[p], panes'[p])]_vars

\* While the outcome of a command is retained, every answer to it agrees
\* with the earlier ones: the same result at the same revision, and only a
\* pending workflow may turn into a complete one (INVARIANTS.md: "duplicate
\* mutation identities return the same logical outcome").
AnswersAgree ==
  [][\A k \in Keys : acked[k] # Absent /\ acked'[k] # Absent =>
       Agrees(acked[k], acked'[k])]_vars

\* A pending workflow is neither pruned nor altered except by completing it
\* (ADR-0003: "Active/incomplete workflows are never evicted").
PendingNeverEvicted ==
  [][\A k \in Keys : dedup[k] # Absent /\ dedup[k].response.status = "pending" =>
       /\ dedup'[k] # Absent
       /\ dedup'[k].launch = dedup[k].launch
       /\ Agrees(dedup[k].response, dedup'[k].response)]_vars

-----------------------------------------------------------------------------
(* What the documents state and the code does not keep. *)

\* A restarting node and a receiver of a snapshot can decode the state:
\* no sequence of accepted commands leads to one that the checks of
\* decode_snapshot refuse.
Decodable == ValidateReferences
=============================================================================
