------------------------- MODULE ControlStateProofs -------------------------
(***************************************************************************)
(* Proofs about ControlState for every value of its constants.             *)
(*                                                                         *)
(* The inductive invariant has two halves that do not refer to each other: *)
(* RecordsInv about workspaces, tabs and panes, OutcomesInv about the      *)
(* dedup table and what callers were told.  One lemma covers the recording *)
(* of an outcome, which every new command ends with; one lemma per request *)
(* covers what it does to the records.                                     *)
(***************************************************************************)
EXTENDS ControlState, TLAPS

USE DEF NewRevision

RecordsTypeOK ==
  /\ revision \in Nat
  /\ workspaces \in [WorkspaceIds -> WorkspaceRecord \cup {Absent}]
  /\ tabs \in [TabIds -> TabRecord \cup {Absent}]
  /\ panes \in [PaneIds -> PaneRecord \cup {Absent}]

RecordsInv ==
  /\ RecordsTypeOK
  /\ ReferencesExist
  /\ WorkspaceCoversTabs
  /\ \A w \in WorkspaceIds : HasWorkspace(w) => workspaces[w].revision <= revision
  /\ \A t \in TabIds : HasTab(t) => tabs[t].revision <= revision

OutcomesInv ==
  /\ dedup \in [Keys -> DedupRecord \cup {Absent}]
  /\ acked \in [Keys -> Response \cup {Absent}]
  /\ AckedIsRecorded
  /\ PendingIsLaunch

\* The step formulas of the three action properties.
FreshStep ==
  /\ \A w \in WorkspaceIds : FreshRevision(workspaces[w], workspaces'[w])
  /\ \A t \in TabIds : FreshRevision(tabs[t], tabs'[t])
  /\ \A p \in PaneIds : FreshRevision(panes[p], panes'[p])

AgreeStep ==
  \A k \in Keys : acked[k] # Absent /\ acked'[k] # Absent =>
    Agrees(acked[k], acked'[k])

EvictStep ==
  \A k \in Keys : dedup[k] # Absent /\ dedup[k].response.status = "pending" =>
    /\ dedup'[k] # Absent
    /\ dedup'[k].launch = dedup[k].launch
    /\ Agrees(dedup[k].response, dedup'[k].response)

RecordsStep == RecordsInv' /\ FreshStep
OutcomesStep == OutcomesInv' /\ AgreeStep /\ EvictStep

\* What a request may do to another command's outcome before its own is
\* recorded: keep it, drop a complete one, complete a pending one.
Completed(record) ==
  [record EXCEPT !.response = [record.response EXCEPT !.status = "complete"]]

KeptOrSettled(table) ==
  \A k \in Keys :
    \/ table[k] = dedup[k]
    \/ /\ table[k] = Absent
       /\ dedup[k] # Absent
       /\ dedup[k].response.status # "pending"
    \/ /\ dedup[k] # Absent
       /\ dedup[k].response.status = "pending"
       /\ table[k] = Completed(dedup[k])

LEMMA CompletedType ==
  ASSUME NEW record \in DedupRecord
  PROVE  /\ Completed(record) \in DedupRecord
         /\ Completed(record).launch = record.launch
         /\ Completed(record).response =
              [record.response EXCEPT !.status = "complete"]
         /\ Completed(record).response.status = "complete"
         /\ Completed(record) # Absent
<1> DEFINE answer == [record.response EXCEPT !.status = "complete"]
<1>1. record.response \in Response
  BY DEF DedupRecord
<1>2. answer \in Response /\ answer.status = "complete"
  BY <1>1 DEF Response
<1> HIDE DEF answer
<1>3. [record EXCEPT !.response = answer] \in DedupRecord
  BY <1>2 DEF DedupRecord
<1>4. /\ [record EXCEPT !.response = answer].launch = record.launch
      /\ [record EXCEPT !.response = answer].response = answer
  BY DEF DedupRecord
<1> QED BY <1>2, <1>3, <1>4, AbsentAssumption DEF Completed, answer

\* Agreement is transitive: what a caller was told may lag behind the
\* record, and the record may complete meanwhile.
LEMMA AgreesTransitive ==
  ASSUME NEW a \in Response, NEW b \in Response, NEW d \in Response,
         Agrees(a, b), Agrees(b, d)
  PROVE  Agrees(a, d)
  BY DEF Agrees, Response

\* Recording the outcome of a new command preserves OutcomesInv and never
\* contradicts or evicts an outcome that has to be kept.
LEMMA RecordOutcomeStep ==
  ASSUME NEW c \in Command, NEW table \in [Keys -> DedupRecord \cup {Absent}],
         NEW status \in {"pending", "complete"},
         NEW result \in {"accepted", "rejected"},
         NEW launch \in Launch \cup {Absent},
         status = "pending" => launch # Absent /\ result = "accepted",
         OutcomesInv, revision' \in Nat,
         NewCommand(c), KeptOrSettled(table), table[c.key] = Absent,
         RecordOutcome(c, table, status, result, launch)
  PROVE  OutcomesStep
<1> DEFINE response == [revision |-> revision', status |-> status, result |-> result]
<1> DEFINE record == [fingerprint |-> c.fingerprint, issued |-> c.issued,
                      launch |-> launch, response |-> response]
<1>1. /\ c.key \in Keys
      /\ response \in Response
      /\ record \in DedupRecord
      /\ record # Absent
      /\ response # Absent
  BY AbsentAssumption DEF Command, Response, DedupRecord
<1>2. /\ dedup' = [table EXCEPT ![c.key] = record]
      /\ acked' = [k \in Keys |-> IF k = c.key THEN response
                                  ELSE IF table[k] = Absent THEN Absent
                                  ELSE acked[k]]
  BY DEF RecordOutcome
<1>3. /\ dedup' \in [Keys -> DedupRecord \cup {Absent}]
      /\ acked' \in [Keys -> Response \cup {Absent}]
  BY <1>1, <1>2 DEF OutcomesInv
<1>4. ASSUME NEW k \in Keys, k # c.key
      PROVE  /\ dedup'[k] = table[k]
             /\ acked'[k] = IF table[k] = Absent THEN Absent ELSE acked[k]
  BY <1>2, <1>4
<1>5. /\ dedup'[c.key] = record
      /\ acked'[c.key] = response
      /\ dedup[c.key] = Absent
      /\ acked[c.key] = Absent
  <2>1. dedup[c.key] = Absent
    BY DEF NewCommand
  <2>2. acked[c.key] = Absent
    BY <1>1, <2>1 DEF OutcomesInv, AckedIsRecorded
  <2> QED BY <1>1, <1>2, <2>1, <2>2
<1>6. ASSUME NEW k \in Keys, k # c.key, table[k] # Absent
      PROVE  /\ dedup[k] # Absent
             /\ dedup[k] \in DedupRecord
             /\ table[k] \in DedupRecord
             /\ acked[k] \in Response
             /\ acked[k] # Absent
             /\ Agrees(acked[k], dedup[k].response)
             /\ Agrees(dedup[k].response, table[k].response)
             /\ table[k].launch = dedup[k].launch
             /\ table[k].response.status = "pending" => table[k] = dedup[k]
  <2>1. dedup[k] # Absent /\ dedup[k] \in DedupRecord /\ table[k] \in DedupRecord
    BY <1>6 DEF KeptOrSettled, OutcomesInv
  <2>2. /\ acked[k] # Absent
        /\ acked[k] \in Response
        /\ Agrees(acked[k], dedup[k].response)
    BY <2>1 DEF OutcomesInv, AckedIsRecorded
  <2>3. CASE table[k] = dedup[k]
    BY <2>1, <2>2, <2>3 DEF Agrees
  <2>4. CASE dedup[k].response.status = "pending" /\ table[k] = Completed(dedup[k])
    <3>1. /\ table[k].launch = dedup[k].launch
          /\ table[k].response = [dedup[k].response EXCEPT !.status = "complete"]
          /\ table[k].response.status = "complete"
      BY <2>1, <2>4, CompletedType
    <3> QED BY <2>1, <2>2, <2>4, <3>1 DEF Agrees
  <2> QED BY <1>6, <2>3, <2>4 DEF KeptOrSettled
<1>7. AckedIsRecorded'
  <2> SUFFICES ASSUME NEW k \in Keys
               PROVE IF dedup'[k] = Absent THEN acked'[k] = Absent
                     ELSE acked'[k] # Absent /\ Agrees(acked'[k], dedup'[k].response)
    BY DEF AckedIsRecorded
  <2>1. CASE k = c.key
    BY <1>1, <1>5, <2>1 DEF Agrees
  <2>2. CASE k # c.key /\ table[k] = Absent
    BY <1>4, <2>2
  <2>3. CASE k # c.key /\ table[k] # Absent
    <3>1. table[k].response \in Response /\ dedup[k].response \in Response
      BY <1>6, <2>3 DEF DedupRecord
    <3>2. Agrees(acked[k], table[k].response)
      BY <1>6, <2>3, <3>1, AgreesTransitive
    <3> QED BY <1>4, <1>6, <2>3, <3>2
  <2> QED BY <2>1, <2>2, <2>3
<1>8. PendingIsLaunch'
  <2> SUFFICES ASSUME NEW k \in Keys, dedup'[k] # Absent,
                      dedup'[k].response.status = "pending"
               PROVE  dedup'[k].launch # Absent /\ dedup'[k].response.result = "accepted"
    BY DEF PendingIsLaunch
  <2>1. CASE k = c.key
    BY <1>5, <2>1
  <2>2. CASE k # c.key
    <3>1. table[k] # Absent /\ dedup'[k] = table[k]
      BY <1>4, <2>2
    <3>2. table[k] = dedup[k] /\ dedup[k] # Absent
      BY <1>6, <2>2, <3>1
    <3> QED BY <3>1, <3>2 DEF OutcomesInv, PendingIsLaunch
  <2> QED BY <2>1, <2>2
<1>9. AgreeStep
  <2> SUFFICES ASSUME NEW k \in Keys, acked[k] # Absent, acked'[k] # Absent
               PROVE  Agrees(acked[k], acked'[k])
    BY DEF AgreeStep
  <2>1. k # c.key
    BY <1>5
  <2> QED BY <1>4, <2>1 DEF Agrees
<1>10. EvictStep
  <2> SUFFICES ASSUME NEW k \in Keys, dedup[k] # Absent,
                      dedup[k].response.status = "pending"
               PROVE  /\ dedup'[k] # Absent
                      /\ dedup'[k].launch = dedup[k].launch
                      /\ Agrees(dedup[k].response, dedup'[k].response)
    BY DEF EvictStep
  <2>1. k # c.key
    BY <1>5
  <2>2. table[k] # Absent
    <3>1. dedup[k] \in DedupRecord
      BY DEF OutcomesInv
    <3>2. Completed(dedup[k]) # Absent
      BY <3>1, CompletedType
    <3> QED BY <3>2 DEF KeptOrSettled
  <2> QED BY <1>4, <1>6, <2>1, <2>2
<1> QED BY <1>3, <1>7, <1>8, <1>9, <1>10 DEF OutcomesStep, OutcomesInv

\* A request that leaves the other outcomes alone.
LEMMA KeptTable == KeptOrSettled(dedup)
  BY DEF KeptOrSettled

LEMMA CompleteChangedStep ==
  ASSUME NEW c \in Command, OutcomesInv, revision \in Nat,
         NewCommand(c), CompleteChanged(c)
  PROVE  OutcomesStep /\ revision' = revision + 1
<1>1. revision' = revision + 1 /\ revision' \in Nat
  BY DEF CompleteChanged, Changed
<1>2. RecordOutcome(c, dedup, "complete", "accepted", Absent)
  BY DEF CompleteChanged
<1>3. dedup \in [Keys -> DedupRecord \cup {Absent}] /\ dedup[c.key] = Absent
  BY DEF OutcomesInv, NewCommand
<1> QED BY <1>1, <1>2, <1>3, KeptTable, RecordOutcomeStep

LEMMA UnchangedRecords ==
  ASSUME RecordsInv, UNCHANGED <<revision, workspaces, tabs, panes>>
  PROVE  RecordsStep
<1>1. RecordsInv'
  BY DEF RecordsInv, RecordsTypeOK, ReferencesExist, WorkspaceCoversTabs,
         HasWorkspace, HasTab, HasPane
<1>2. FreshStep
  BY DEF FreshStep, FreshRevision
<1> QED BY <1>1, <1>2 DEF RecordsStep

\* Accepted without effect, or rejected: only the outcome is new.
LEMMA OutcomeOnlyStep ==
  ASSUME NEW c \in Command, RecordsInv, OutcomesInv, NewCommand(c),
         CompleteUnchanged(c) \/ Reject(c)
  PROVE  RecordsStep /\ OutcomesStep
<1>1. UNCHANGED <<revision, workspaces, tabs, panes>>
  BY DEF CompleteUnchanged, Reject
<1>2. revision' \in Nat
  BY <1>1 DEF RecordsInv, RecordsTypeOK
<1>3. KeptOrSettled(dedup)
  BY KeptTable
<1>4. PICK result \in {"accepted", "rejected"} :
        RecordOutcome(c, dedup, "complete", result, Absent)
  BY DEF CompleteUnchanged, Reject
<1>5. dedup \in [Keys -> DedupRecord \cup {Absent}] /\ dedup[c.key] = Absent
  BY DEF OutcomesInv, NewCommand
<1>6. OutcomesStep
  BY <1>2, <1>3, <1>4, <1>5, RecordOutcomeStep
<1> QED BY <1>1, <1>6, UnchangedRecords

-----------------------------------------------------------------------------
(* One lemma per request. *)

LEMMA CreateWorkspaceStep ==
  ASSUME NEW c \in Command, NEW w \in WorkspaceIds, NEW name \in Names,
         RecordsInv, OutcomesInv, CreateWorkspace(c, w, name)
  PROVE  RecordsStep /\ OutcomesStep
<1>1. OutcomesStep /\ revision' = revision + 1 /\ revision \in Nat
  BY CompleteChangedStep DEF CreateWorkspace, RecordsInv, RecordsTypeOK
<1> DEFINE new == [name |-> name, revision |-> revision + 1]
<1>2. /\ workspaces' = [workspaces EXCEPT ![w] = new]
      /\ UNCHANGED <<tabs, panes>>
      /\ new \in WorkspaceRecord
      /\ new # Absent
      /\ new.revision = revision + 1
  BY <1>1, AbsentAssumption DEF CreateWorkspace, WorkspaceRecord
<1>3. RecordsTypeOK'
  BY <1>1, <1>2 DEF RecordsInv, RecordsTypeOK
<1>4. RecordsInv'
  BY <1>1, <1>2, <1>3 DEF RecordsInv, RecordsTypeOK, ReferencesExist,
     WorkspaceCoversTabs, HasWorkspace, HasTab, HasPane, WorkspaceRecord,
     TabRecord, PaneRecord, CreateWorkspace
<1>5. FreshStep
  BY <1>1, <1>2 DEF FreshStep, FreshRevision, RecordsInv, RecordsTypeOK
<1> QED BY <1>1, <1>4, <1>5 DEF RecordsStep

\* A workspace record rewritten at the next revision.
LEMMA WorkspaceRewritten ==
  ASSUME NEW w \in WorkspaceIds, RecordsInv, HasWorkspace(w)
  PROVE  LET new == [workspaces[w] EXCEPT !.revision = revision + 1]
         IN /\ new \in WorkspaceRecord
            /\ new # Absent
            /\ new.revision = revision + 1
<1>1. workspaces[w] \in WorkspaceRecord /\ revision + 1 \in Nat
  BY DEF RecordsInv, RecordsTypeOK, HasWorkspace
<1> QED BY <1>1, AbsentAssumption DEF WorkspaceRecord

LEMMA RenameWorkspaceStep ==
  ASSUME NEW c \in Command, NEW w \in WorkspaceIds, NEW name \in Names,
         NEW expected \in Nat,
         RecordsInv, OutcomesInv, RenameWorkspace(c, w, expected, name)
  PROVE  RecordsStep /\ OutcomesStep
<1>1. CASE CompleteUnchanged(c)
  BY <1>1, OutcomeOnlyStep DEF RenameWorkspace
<1>2. CASE /\ CompleteChanged(c)
           /\ workspaces' = [workspaces EXCEPT ![w] =
                               [name |-> name, revision |-> revision + 1]]
           /\ UNCHANGED <<tabs, panes>>
  <2>1. OutcomesStep /\ revision' = revision + 1 /\ revision \in Nat
    BY <1>2, CompleteChangedStep DEF RenameWorkspace, RecordsInv, RecordsTypeOK
  <2> DEFINE new == [name |-> name, revision |-> revision + 1]
  <2>2. /\ workspaces' = [workspaces EXCEPT ![w] = new]
        /\ new \in WorkspaceRecord
        /\ new # Absent
        /\ new.revision = revision + 1
    BY <1>2, <2>1, AbsentAssumption DEF WorkspaceRecord
  <2>3. RecordsTypeOK'
    BY <1>2, <2>1, <2>2 DEF RecordsInv, RecordsTypeOK
  <2>4. RecordsInv'
    BY <1>2, <2>1, <2>2, <2>3 DEF RecordsInv, RecordsTypeOK, ReferencesExist,
       WorkspaceCoversTabs, HasWorkspace, HasTab, HasPane, WorkspaceRecord,
       TabRecord, PaneRecord
  <2>5. FreshStep
    BY <1>2, <2>1, <2>2 DEF FreshStep, FreshRevision, RecordsInv, RecordsTypeOK
  <2> QED BY <2>1, <2>4, <2>5 DEF RecordsStep
<1> QED BY <1>1, <1>2 DEF RenameWorkspace

LEMMA PutTabStep ==
  ASSUME NEW c \in Command, NEW t \in TabIds, NEW tab \in TabRecord,
         NEW expected \in Nat,
         RecordsInv, OutcomesInv, PutTab(c, t, tab, expected)
  PROVE  RecordsStep /\ OutcomesStep
<1>1. CASE CompleteUnchanged(c)
  BY <1>1, OutcomeOnlyStep DEF PutTab
<1> DEFINE w == tab.workspace
<1>2. CASE /\ CompleteChanged(c)
           /\ tabs' = [tabs EXCEPT ![t] = [tab EXCEPT !.revision = revision + 1]]
           /\ workspaces' = [workspaces EXCEPT ![w].revision = revision + 1]
           /\ UNCHANGED panes
  <2>1. OutcomesStep /\ revision' = revision + 1 /\ revision \in Nat
    BY <1>2, CompleteChangedStep DEF PutTab, RecordsInv, RecordsTypeOK
  <2> DEFINE newTab == [tab EXCEPT !.revision = revision + 1]
  <2> DEFINE newWorkspace == [workspaces[w] EXCEPT !.revision = revision + 1]
  <2>2. w \in WorkspaceIds /\ HasWorkspace(w)
    BY DEF PutTab, TabRecord
  <2>3. /\ newTab \in TabRecord
        /\ newTab # Absent
        /\ newTab.revision = revision + 1
        /\ newTab.workspace = w
    BY <2>1, AbsentAssumption DEF TabRecord
  <2>4. /\ newWorkspace \in WorkspaceRecord
        /\ newWorkspace # Absent
        /\ newWorkspace.revision = revision + 1
    BY <2>2, WorkspaceRewritten
  <2>5. /\ tabs' = [tabs EXCEPT ![t] = newTab]
        /\ workspaces' = [workspaces EXCEPT ![w] = newWorkspace]
        /\ panes' = panes
    BY <1>2
  <2> HIDE DEF newTab, newWorkspace, w
  <2>6. RecordsTypeOK'
    BY <2>1, <2>2, <2>3, <2>4, <2>5 DEF RecordsInv, RecordsTypeOK
  <2>7. /\ \A x \in WorkspaceIds : HasWorkspace(x) => HasWorkspace(x)'
        /\ \A x \in TabIds : HasTab(x) => HasTab(x)'
        /\ \A x \in WorkspaceIds : HasWorkspace(x) /\ x # w => workspaces'[x] = workspaces[x]
        /\ workspaces'[w] = newWorkspace
        /\ tabs'[t] = newTab
        /\ \A x \in TabIds : x # t => tabs'[x] = tabs[x]
    BY <2>2, <2>3, <2>4, <2>5 DEF RecordsInv, RecordsTypeOK, HasWorkspace, HasTab
  <2>8. ReferencesExist'
    BY <2>2, <2>3, <2>5, <2>7 DEF RecordsInv, RecordsTypeOK, ReferencesExist, HasWorkspace,
       HasTab, HasPane, TabRecord, PaneRecord
  <2>9. WorkspaceCoversTabs'
    <3> SUFFICES ASSUME NEW x \in TabIds, HasTab(x)'
                 PROVE  tabs'[x].revision <= workspaces'[tabs'[x].workspace].revision
      BY DEF WorkspaceCoversTabs
    <3>1. CASE x = t
      BY <2>1, <2>3, <2>4, <2>7, <3>1
    <3>2. CASE x # t
      <4>1. tabs'[x] = tabs[x] /\ HasTab(x) /\ tabs[x] \in TabRecord
        BY <2>7, <3>2 DEF HasTab, RecordsInv, RecordsTypeOK
      <4>2. /\ HasWorkspace(tabs[x].workspace)
            /\ tabs[x].workspace \in WorkspaceIds
            /\ tabs[x].revision <= workspaces[tabs[x].workspace].revision
            /\ tabs[x].revision <= revision
            /\ tabs[x].revision \in Nat
        BY <4>1 DEF RecordsInv, ReferencesExist, WorkspaceCoversTabs, TabRecord
      <4>3. CASE tabs[x].workspace = w
        BY <2>1, <2>4, <2>7, <4>1, <4>2, <4>3
      <4>4. CASE tabs[x].workspace # w
        BY <2>7, <4>1, <4>2, <4>4
      <4> QED BY <4>3, <4>4
    <3> QED BY <3>1, <3>2
  <2>10. /\ \A x \in WorkspaceIds : HasWorkspace(x)' => workspaces'[x].revision <= revision'
         /\ \A x \in TabIds : HasTab(x)' => tabs'[x].revision <= revision'
    BY <2>1, <2>3, <2>4, <2>5 DEF RecordsInv, RecordsTypeOK, HasWorkspace, HasTab,
       WorkspaceRecord, TabRecord
  <2>11. FreshStep
    BY <2>1, <2>2, <2>3, <2>4, <2>5 DEF FreshStep, FreshRevision, RecordsInv, RecordsTypeOK
  <2> QED BY <2>1, <2>6, <2>8, <2>9, <2>10, <2>11 DEF RecordsStep, RecordsInv
<1> QED BY <1>1, <1>2 DEF PutTab

LEMMA RemoveTabStep ==
  ASSUME NEW c \in Command, NEW t \in TabIds, NEW expected \in Nat,
         RecordsInv, OutcomesInv, RemoveTab(c, t, expected)
  PROVE  RecordsStep /\ OutcomesStep
<1>1. OutcomesStep /\ revision' = revision + 1 /\ revision \in Nat
  BY CompleteChangedStep DEF RemoveTab, RecordsInv, RecordsTypeOK
<1>2. tabs' = [tabs EXCEPT ![t] = Absent] /\ UNCHANGED <<workspaces, panes>>
  BY DEF RemoveTab
<1>3. RecordsTypeOK'
  BY <1>1, <1>2 DEF RecordsInv, RecordsTypeOK
<1>4. ReferencesExist'
  BY <1>2 DEF RecordsInv, RecordsTypeOK, ReferencesExist, RemoveTab, TabEmpty,
     HasWorkspace, HasTab, HasPane, TabRecord, PaneRecord
<1>5. RecordsInv'
  BY <1>1, <1>2, <1>3, <1>4 DEF RecordsInv, RecordsTypeOK, WorkspaceCoversTabs,
     HasWorkspace, HasTab, WorkspaceRecord, TabRecord
<1>6. FreshStep
  BY <1>1, <1>2 DEF FreshStep, FreshRevision, RecordsInv, RecordsTypeOK
<1> QED BY <1>1, <1>5, <1>6 DEF RecordsStep

\* A step that writes one pane record at the next revision, or removes it,
\* and at most raises the revision of one existing workspace.
LEMMA PaneWritten ==
  ASSUME NEW p \in PaneIds, NEW new \in PaneRecord \cup {Absent},
         RecordsInv, revision' = revision + 1,
         panes' = [panes EXCEPT ![p] = new],
         new # Absent => /\ new.revision = revision + 1
                         /\ HasTab(new.tab)
                         /\ HasWorkspace(new.workspace),
         UNCHANGED <<workspaces, tabs>>
  PROVE  RecordsStep
<1>1. revision \in Nat
  BY DEF RecordsInv, RecordsTypeOK
<1>2. RecordsTypeOK'
  BY <1>1 DEF RecordsInv, RecordsTypeOK
<1>3. ReferencesExist'
  BY DEF RecordsInv, RecordsTypeOK, ReferencesExist, HasWorkspace, HasTab, HasPane,
     TabRecord, PaneRecord
<1>4. RecordsInv'
  BY <1>1, <1>2, <1>3 DEF RecordsInv, RecordsTypeOK, WorkspaceCoversTabs,
     HasWorkspace, HasTab, WorkspaceRecord, TabRecord
<1>5. FreshStep
  BY <1>1 DEF FreshStep, FreshRevision, RecordsInv, RecordsTypeOK
<1> QED BY <1>4, <1>5 DEF RecordsStep

LEMMA PutPaneStep ==
  ASSUME NEW c \in Command, NEW p \in PaneIds, NEW pane,
         pane \in [workspace: WorkspaceIds, tab: TabIds,
                   execution: SubmittedAssignment \cup {Absent},
                   availability: Availabilities, revision: Nat],
         NEW expected \in Nat,
         RecordsInv, OutcomesInv, PutPane(c, p, pane, expected)
  PROVE  RecordsStep /\ OutcomesStep
<1>1. CASE CompleteUnchanged(c)
  BY <1>1, OutcomeOnlyStep DEF PutPane
<1> DEFINE w == pane.workspace
<1>2. CASE /\ CompleteChanged(c)
           /\ panes' = [panes EXCEPT ![p] = [pane EXCEPT !.revision = revision + 1]]
           /\ workspaces' = [workspaces EXCEPT ![w].revision = revision + 1]
           /\ UNCHANGED tabs
  <2>1. OutcomesStep /\ revision' = revision + 1 /\ revision \in Nat
    BY <1>2, CompleteChangedStep DEF PutPane, RecordsInv, RecordsTypeOK
  <2> DEFINE newPane == [pane EXCEPT !.revision = revision + 1]
  <2> DEFINE newWorkspace == [workspaces[w] EXCEPT !.revision = revision + 1]
  <2>2. /\ w \in WorkspaceIds /\ HasWorkspace(w)
        /\ pane.tab \in TabIds /\ HasTab(pane.tab)
        /\ tabs[pane.tab].workspace = w
    BY DEF PutPane, RequirePaneReferences
  <2>3. pane.execution \in Assignment \cup {Absent}
    <3>1. pane.execution # Absent => pane.execution.generation # 0
      BY DEF PutPane, ValidateExecution
    <3> QED BY <3>1, BoundsAssumption DEF SubmittedAssignment, Assignment
  <2>4. /\ newPane \in PaneRecord
        /\ newPane # Absent
        /\ newPane.revision = revision + 1
        /\ newPane.workspace = w
        /\ newPane.tab = pane.tab
    BY <2>1, <2>3, AbsentAssumption DEF PaneRecord
  <2>5. /\ newWorkspace \in WorkspaceRecord
        /\ newWorkspace # Absent
        /\ newWorkspace.revision = revision + 1
    BY <2>2, WorkspaceRewritten
  <2>6. /\ panes' = [panes EXCEPT ![p] = newPane]
        /\ workspaces' = [workspaces EXCEPT ![w] = newWorkspace]
        /\ tabs' = tabs
    BY <1>2
  <2> HIDE DEF newPane, newWorkspace, w
  <2>7. RecordsTypeOK'
    BY <2>1, <2>2, <2>4, <2>5, <2>6 DEF RecordsInv, RecordsTypeOK
  <2>8. /\ \A x \in WorkspaceIds : HasWorkspace(x) => HasWorkspace(x)'
        /\ \A x \in WorkspaceIds : x # w => workspaces'[x] = workspaces[x]
        /\ workspaces'[w] = newWorkspace
    BY <2>2, <2>5, <2>6 DEF RecordsInv, RecordsTypeOK, HasWorkspace
  <2>9. ReferencesExist'
    BY <2>2, <2>4, <2>6, <2>8 DEF RecordsInv, RecordsTypeOK, ReferencesExist,
       HasWorkspace, HasTab, HasPane, TabRecord, PaneRecord
  <2>10. /\ WorkspaceCoversTabs'
         /\ \A x \in WorkspaceIds : HasWorkspace(x)' => workspaces'[x].revision <= revision'
         /\ \A x \in TabIds : HasTab(x)' => tabs'[x].revision <= revision'
    BY <2>1, <2>5, <2>6, <2>8 DEF RecordsInv, RecordsTypeOK, ReferencesExist,
       WorkspaceCoversTabs, HasWorkspace, HasTab, WorkspaceRecord, TabRecord
  <2>11. FreshStep
    BY <2>1, <2>2, <2>4, <2>5, <2>6 DEF FreshStep, FreshRevision, RecordsInv, RecordsTypeOK
  <2> QED BY <2>1, <2>7, <2>9, <2>10, <2>11 DEF RecordsStep, RecordsInv
<1> QED BY <1>1, <1>2 DEF PutPane

LEMMA RemovePaneStep ==
  ASSUME NEW c \in Command, NEW p \in PaneIds, NEW expected \in Nat, NEW generation,
         RecordsInv, OutcomesInv, RemovePane(c, p, expected, generation)
  PROVE  RecordsStep /\ OutcomesStep
<1>1. OutcomesStep /\ revision' = revision + 1
  BY CompleteChangedStep DEF RemovePane, RecordsInv, RecordsTypeOK
<1>2. panes' = [panes EXCEPT ![p] = Absent] /\ UNCHANGED <<workspaces, tabs>>
  BY DEF RemovePane
<1> QED BY <1>1, <1>2, PaneWritten

LEMMA AssignExecutionStep ==
  ASSUME NEW c \in Command, NEW p \in PaneIds, NEW expected \in Nat,
         NEW generation \in Nat, NEW assignment \in Assignment,
         RecordsInv, OutcomesInv,
         AssignExecution(c, p, expected, generation, assignment)
  PROVE  RecordsStep /\ OutcomesStep
<1>1. revision' = revision + 1 /\ revision \in Nat /\ revision' \in Nat
  BY DEF AssignExecution, Changed, RecordsInv, RecordsTypeOK
<1> DEFINE launch == [pane |-> p, assignment |-> assignment]
<1>2. launch \in Launch /\ launch # Absent
  BY AbsentAssumption DEF Launch
<1>3. OutcomesStep
  <2>2. KeptOrSettled(dedup)
    BY KeptTable
  <2>3. /\ RecordOutcome(c, dedup, "pending", "accepted", launch)
        /\ NewCommand(c)
    BY DEF AssignExecution
  <2>4. dedup \in [Keys -> DedupRecord \cup {Absent}] /\ dedup[c.key] = Absent
    BY <2>3 DEF OutcomesInv, NewCommand
  <2> HIDE DEF launch
  <2> QED BY <1>1, <1>2, <2>2, <2>3, <2>4, RecordOutcomeStep
<1>4. panes[p] \in PaneRecord /\ HasPane(p)
  BY DEF AssignExecution, HasPane, RecordsInv, RecordsTypeOK
<1> DEFINE new == [panes[p] EXCEPT !.execution = assignment,
                                   !.availability = "pending",
                                   !.revision = revision + 1]
<1>5. /\ new \in PaneRecord
      /\ new.revision = revision + 1
      /\ new.tab = panes[p].tab
      /\ new.workspace = panes[p].workspace
  BY <1>1, <1>4, AvailabilityAssumption DEF PaneRecord
<1>6. panes' = [panes EXCEPT ![p] = new] /\ UNCHANGED <<workspaces, tabs>>
  BY DEF AssignExecution, RecordsInv, RecordsTypeOK
<1>7. HasTab(panes[p].tab) /\ HasWorkspace(panes[p].workspace)
  BY <1>4 DEF RecordsInv, ReferencesExist
<1> HIDE DEF new
<1> QED BY <1>1, <1>3, <1>5, <1>6, <1>7, PaneWritten

LEMMA SetPaneAvailabilityStep ==
  ASSUME NEW c \in Command, NEW p \in PaneIds, NEW expected \in Nat,
         NEW assignment \in Assignment, NEW availability \in Availabilities,
         RecordsInv, OutcomesInv,
         SetPaneAvailability(c, p, expected, assignment, availability)
  PROVE  RecordsStep /\ OutcomesStep
<1>1. CASE CompleteUnchanged(c)
  BY <1>1, OutcomeOnlyStep DEF SetPaneAvailability
<1>2. CASE /\ CompleteChanged(c)
           /\ panes' = [panes EXCEPT ![p].availability = availability,
                                     ![p].revision = revision + 1]
           /\ UNCHANGED <<workspaces, tabs>>
  <2>1. OutcomesStep /\ revision' = revision + 1 /\ revision \in Nat
    BY <1>2, CompleteChangedStep DEF SetPaneAvailability, RecordsInv, RecordsTypeOK
  <2>2. panes[p] \in PaneRecord /\ HasPane(p)
    BY DEF SetPaneAvailability, HasPane, RecordsInv, RecordsTypeOK
  <2> DEFINE mid == [panes[p] EXCEPT !.availability = availability]
             new == [mid EXCEPT !.revision = revision + 1]
  <2>3. /\ new \in PaneRecord
        /\ new.revision = revision + 1
        /\ new.tab = panes[p].tab
        /\ new.workspace = panes[p].workspace
    <3>1. /\ mid \in PaneRecord
          /\ mid.tab = panes[p].tab
          /\ mid.workspace = panes[p].workspace
      BY <2>2 DEF PaneRecord
    <3> HIDE DEF mid
    <3> QED BY <2>1, <3>1 DEF PaneRecord
  <2>4. panes' = [panes EXCEPT ![p] = new] /\ UNCHANGED <<workspaces, tabs>>
    BY <1>2 DEF RecordsInv, RecordsTypeOK
  <2>5. HasTab(panes[p].tab) /\ HasWorkspace(panes[p].workspace)
    BY <2>2 DEF RecordsInv, ReferencesExist
  <2> HIDE DEF new
  <2> QED BY <2>1, <2>3, <2>4, <2>5, PaneWritten
<1> QED BY <1>1, <1>2 DEF SetPaneAvailability

LEMMA CompleteWorkflowStep ==
  ASSUME NEW c \in Command, NEW id \in CommandIds,
         RecordsInv, OutcomesInv, CompleteWorkflow(c, id)
  PROVE  RecordsStep /\ OutcomesStep
<1> DEFINE original == <<c.key[1], id>>
<1>1. NewCommand(c) /\ dedup[original] # Absent
  BY DEF CompleteWorkflow
<1>2. CASE CompleteUnchanged(c)
  BY <1>1, <1>2, OutcomeOnlyStep
<1> DEFINE table == [dedup EXCEPT ![original].response.status = "complete",
                                  ![original].response.result = "accepted"]
<1>3. CASE /\ dedup[original].response.status = "pending"
           /\ Changed
           /\ RecordOutcome(c, table, "complete", "accepted", Absent)
           /\ UNCHANGED <<workspaces, tabs, panes>>
  <2>1. revision' = revision + 1 /\ revision \in Nat /\ revision' \in Nat
    BY <1>3 DEF Changed, RecordsInv, RecordsTypeOK
  <2>2. c.key \in Keys /\ original \in Keys
    BY DEF Command, Keys
  <2>3. dedup[original] \in DedupRecord /\ dedup[original].response.result = "accepted"
    BY <1>1, <1>3, <2>2 DEF OutcomesInv, PendingIsLaunch
  <2> HIDE DEF original
  <2>4. table = [dedup EXCEPT ![original] = Completed(dedup[original])]
    <3> DEFINE old == dedup[original]
    <3>1. /\ old.response \in Response
          /\ old = [fingerprint |-> old.fingerprint, issued |-> old.issued,
                    launch |-> old.launch, response |-> old.response]
      BY <2>3 DEF DedupRecord
    <3>2. [[old.response EXCEPT !.status = "complete"] EXCEPT !.result = "accepted"]
            = [old.response EXCEPT !.status = "complete"]
      BY <2>3, <3>1 DEF Response
    <3> QED BY <2>2, <2>3, <3>1, <3>2 DEF Completed, OutcomesInv, DedupRecord
  <2> HIDE DEF table
  <2>5. Completed(dedup[original]) \in DedupRecord
    BY <2>2, <2>3, CompletedType
  <2>6. table \in [Keys -> DedupRecord \cup {Absent}]
    BY <2>2, <2>4, <2>5 DEF OutcomesInv
  <2>7. KeptOrSettled(table)
    BY <1>1, <1>3, <2>2, <2>4 DEF KeptOrSettled, OutcomesInv
  <2>8. table[c.key] = Absent
    BY <1>1, <2>2, <2>4 DEF NewCommand, OutcomesInv
  <2>9. OutcomesStep
    BY <1>1, <1>3, <2>1, <2>6, <2>7, <2>8, RecordOutcomeStep
  <2>10. RecordsInv'
    BY <1>3, <2>1 DEF RecordsInv, RecordsTypeOK, ReferencesExist, WorkspaceCoversTabs,
       HasWorkspace, HasTab, HasPane, WorkspaceRecord, TabRecord
  <2>11. FreshStep
    BY <1>3 DEF FreshStep, FreshRevision
  <2> QED BY <2>9, <2>10, <2>11 DEF RecordsStep
<1> QED BY <1>2, <1>3 DEF CompleteWorkflow

LEMMA PruneDedupStep ==
  ASSUME NEW c \in Command, NEW cutoff \in Times,
         RecordsInv, OutcomesInv, PruneDedup(c, cutoff)
  PROVE  RecordsStep /\ OutcomesStep
<1> DEFINE kept == [k \in Keys |->
                      IF dedup[k] # Absent /\ Retained(dedup[k], cutoff)
                      THEN dedup[k] ELSE Absent]
<1>1. NewCommand(c)
  BY DEF PruneDedup
<1>2. CASE CompleteUnchanged(c)
  BY <1>1, <1>2, OutcomeOnlyStep
<1>3. CASE /\ Changed
           /\ RecordOutcome(c, kept, "complete", "accepted", Absent)
           /\ UNCHANGED <<workspaces, tabs, panes>>
  <2>1. revision' = revision + 1 /\ revision \in Nat /\ revision' \in Nat
    BY <1>3 DEF Changed, RecordsInv, RecordsTypeOK
  <2>2. c.key \in Keys
    BY DEF Command
  <2>3. kept \in [Keys -> DedupRecord \cup {Absent}]
    BY DEF OutcomesInv
  <2>4. KeptOrSettled(kept)
    BY DEF KeptOrSettled, Retained
  <2>5. kept[c.key] = Absent
    BY <1>1, <2>2 DEF NewCommand
  <2> HIDE DEF kept
  <2>6. OutcomesStep
    BY <1>1, <1>3, <2>1, <2>3, <2>4, <2>5, RecordOutcomeStep
  <2>7. RecordsInv'
    BY <1>3, <2>1 DEF RecordsInv, RecordsTypeOK, ReferencesExist, WorkspaceCoversTabs,
       HasWorkspace, HasTab, HasPane, WorkspaceRecord, TabRecord
  <2>8. FreshStep
    BY <1>3 DEF FreshStep, FreshRevision
  <2> QED BY <2>6, <2>7, <2>8 DEF RecordsStep
<1> QED BY <1>2, <1>3 DEF PruneDedup

LEMMA DuplicateStep ==
  ASSUME NEW c \in Command, RecordsInv, OutcomesInv, Duplicate(c)
  PROVE  RecordsStep /\ OutcomesStep
<1>1. RecordsStep
  BY UnchangedRecords DEF Duplicate
<1>2. /\ c.key \in Keys
      /\ dedup[c.key] \in DedupRecord
      /\ dedup[c.key].response \in Response
      /\ dedup[c.key].response # Absent
  BY AbsentAssumption DEF Command, Duplicate, OutcomesInv, DedupRecord
<1>3. /\ acked' = [acked EXCEPT ![c.key] = dedup[c.key].response]
      /\ dedup' = dedup
      /\ dedup[c.key] # Absent
  BY DEF Duplicate
<1>4. OutcomesInv'
  <2>1. acked' \in [Keys -> Response \cup {Absent}]
    BY <1>2, <1>3 DEF OutcomesInv
  <2>2. AckedIsRecorded'
    BY <1>2, <1>3 DEF OutcomesInv, AckedIsRecorded, Agrees
  <2> QED BY <1>3, <2>1, <2>2 DEF OutcomesInv, PendingIsLaunch
<1>5. AgreeStep
  BY <1>2, <1>3 DEF AgreeStep, OutcomesInv, AckedIsRecorded, Agrees
<1>6. EvictStep
  BY <1>3 DEF EvictStep, Agrees
<1> QED BY <1>1, <1>4, <1>5, <1>6 DEF OutcomesStep

LEMMA StutterStep ==
  ASSUME RecordsInv, OutcomesInv, UNCHANGED vars
  PROVE  RecordsStep /\ OutcomesStep
<1>1. UNCHANGED <<revision, workspaces, tabs, panes>> /\ UNCHANGED <<dedup, acked>>
  BY DEF vars
<1>2. RecordsStep
  BY <1>1, UnchangedRecords
<1>3. OutcomesInv'
  BY <1>1 DEF OutcomesInv, AckedIsRecorded, PendingIsLaunch
<1>4. AgreeStep /\ EvictStep
  BY <1>1 DEF AgreeStep, EvictStep, Agrees
<1> QED BY <1>2, <1>3, <1>4 DEF OutcomesStep

-----------------------------------------------------------------------------
(* The theorems. *)

LEMMA InitInv == Init => RecordsInv /\ OutcomesInv
<1> SUFFICES ASSUME Init PROVE RecordsInv /\ OutcomesInv
  OBVIOUS
<1>1. RecordsInv
  BY DEF Init, RecordsInv, RecordsTypeOK, ReferencesExist, WorkspaceCoversTabs,
     HasWorkspace, HasTab, HasPane
<1>2. OutcomesInv
  BY DEF Init, OutcomesInv, AckedIsRecorded, PendingIsLaunch
<1> QED BY <1>1, <1>2

\* Every apply call preserves both halves of the invariant and satisfies
\* the three step formulas.
LEMMA NextStep ==
  ASSUME RecordsInv, OutcomesInv, [Next]_vars
  PROVE  RecordsStep /\ OutcomesStep
<1>1. CASE UNCHANGED vars
  BY <1>1, StutterStep
<1>2. ASSUME NEW c \in Command, WorkspaceCommand(c)
      PROVE  RecordsStep /\ OutcomesStep
  <2>1. 0 .. revision \subseteq Nat
    BY DEF RecordsInv, RecordsTypeOK
  <2> QED BY <1>2, <2>1, CreateWorkspaceStep, RenameWorkspaceStep DEF WorkspaceCommand
<1>3. ASSUME NEW c \in Command, TabCommand(c)
      PROVE  RecordsStep /\ OutcomesStep
  <2>1. PICK t \in TabIds, expected \in 0 .. revision :
          \/ \E tab \in SubmittedTab(t) : PutTab(c, t, tab, expected)
          \/ RemoveTab(c, t, expected)
    BY <1>3 DEF TabCommand
  <2>2. expected \in Nat
    BY DEF RecordsInv, RecordsTypeOK
  <2>3. SubmittedTab(t) \subseteq TabRecord
    BY DEF SubmittedTab, Carried, TabRecord, RecordsInv, RecordsTypeOK
  <2> QED BY <2>1, <2>2, <2>3, PutTabStep, RemoveTabStep
<1>4. ASSUME NEW c \in Command, PaneCommand(c)
      PROVE  RecordsStep /\ OutcomesStep
  <2>1. PICK p \in PaneIds, expected \in 0 .. revision :
          \/ \E pane \in SubmittedPane(p) : PutPane(c, p, pane, expected)
          \/ \E generation \in (0 .. MaxGeneration) \cup {Absent} :
               RemovePane(c, p, expected, generation)
    BY <1>4 DEF PaneCommand
  <2>2. expected \in Nat
    BY DEF RecordsInv, RecordsTypeOK
  <2>3. SubmittedPane(p) \subseteq
          [workspace: WorkspaceIds, tab: TabIds,
           execution: SubmittedAssignment \cup {Absent},
           availability: Availabilities, revision: Nat]
    BY DEF SubmittedPane, Carried, PaneRecord, RecordsInv, RecordsTypeOK
  <2> QED BY <2>1, <2>2, <2>3, PutPaneStep, RemovePaneStep
<1>5. ASSUME NEW c \in Command, ExecutionCommand(c)
      PROVE  RecordsStep /\ OutcomesStep
  <2>1. 0 .. revision \subseteq Nat /\ 0 .. MaxGeneration \subseteq Nat
    BY BoundsAssumption DEF RecordsInv, RecordsTypeOK
  <2> QED BY <1>5, <2>1, AssignExecutionStep, SetPaneAvailabilityStep DEF ExecutionCommand
<1>6. ASSUME NEW c \in Command, OutcomeCommand(c)
      PROVE  RecordsStep /\ OutcomesStep
  <2>1. CASE Reject(c)
    BY <2>1, OutcomeOnlyStep DEF Reject
  <2>2. CASE Duplicate(c)
    BY <2>2, DuplicateStep
  <2>3. CASE Conflict(c)
    BY <2>3, StutterStep DEF Conflict
  <2>4. CASE \E id \in CommandIds : CompleteWorkflow(c, id)
    BY <2>4, CompleteWorkflowStep
  <2>5. CASE \E cutoff \in Times : PruneDedup(c, cutoff)
    BY <2>5, PruneDedupStep
  <2> QED BY <1>6, <2>1, <2>2, <2>3, <2>4, <2>5 DEF OutcomeCommand
<1> QED BY <1>1, <1>2, <1>3, <1>4, <1>5, <1>6 DEF Next

LEMMA Invariance == Spec => [](RecordsInv /\ OutcomesInv)
<1>1. RecordsInv /\ OutcomesInv /\ [Next]_vars => (RecordsInv /\ OutcomesInv)'
  BY NextStep DEF RecordsStep, OutcomesStep
<1> QED BY <1>1, InitInv, PTL DEF Spec

\* Whatever commands are applied, every part of the control state keeps its
\* shape; no stored execution has generation zero.
THEOREM TypeCorrect == Spec => []TypeOK
<1>1. RecordsInv /\ OutcomesInv => TypeOK
  BY DEF RecordsInv, RecordsTypeOK, OutcomesInv, TypeOK
<1> QED BY <1>1, Invariance, PTL

\* No sequence of commands leaves a tab without its workspace or a pane
\* without its tab or workspace.
THEOREM ReferencesCorrect == Spec => []ReferencesExist
<1>1. RecordsInv => ReferencesExist
  BY DEF RecordsInv
<1> QED BY <1>1, Invariance, PTL

\* A workspace's revision is at least that of each of its tabs, so the
\* expected workspace revision detects every later tab write.
THEOREM WorkspaceRevisionCorrect == Spec => []WorkspaceCoversTabs
<1>1. RecordsInv => WorkspaceCoversTabs
  BY DEF RecordsInv
<1> QED BY <1>1, Invariance, PTL

\* Every write of a record takes a revision that no record had before.
THEOREM FreshRevisionsCorrect == Spec => RevisionsAreFresh
<1>1. RecordsInv /\ OutcomesInv /\ [Next]_vars => [FreshStep]_vars
  BY NextStep DEF RecordsStep
<1> QED BY <1>1, Invariance, PTL DEF Spec, RevisionsAreFresh, FreshStep

\* While an outcome is retained, the answers given for its command agree.
THEOREM AnswersCorrect == Spec => AnswersAgree
<1>1. RecordsInv /\ OutcomesInv /\ [Next]_vars => [AgreeStep]_vars
  BY NextStep DEF OutcomesStep
<1> QED BY <1>1, Invariance, PTL DEF Spec, AnswersAgree, AgreeStep

\* A pending workflow is never evicted or altered, only completed.
THEOREM PendingCorrect == Spec => PendingNeverEvicted
<1>1. RecordsInv /\ OutcomesInv /\ [Next]_vars => [EvictStep]_vars
  BY NextStep DEF OutcomesStep
<1> QED BY <1>1, Invariance, PTL DEF Spec, PendingNeverEvicted, EvictStep

-----------------------------------------------------------------------------
(* Decoding.  The checks of decode_snapshot hold as long as no tab with a  *)
(* pane in it is moved.                                                    *)

\* The action formula of TabsStay.
TabStep ==
  \A t \in TabIds : HasTab(t) /\ ~TabEmpty(t) /\ HasTab(t)' =>
    tabs'[t].workspace = tabs[t].workspace

\* A tab that has panes is not given another workspace.
TabsStay == [][TabStep]_vars

\* A pane names the workspace of its tab.
PanesPlaced ==
  \A p \in PaneIds : HasPane(p) => tabs[panes[p].tab].workspace = panes[p].workspace

\* A step leaves a pane where it is, or puts it into a tab of its workspace.
PlacementStep ==
  \A p \in PaneIds : panes'[p] # Absent =>
    \/ /\ HasPane(p)
       /\ panes'[p].tab = panes[p].tab
       /\ panes'[p].workspace = panes[p].workspace
    \/ /\ UNCHANGED tabs
       /\ tabs[panes'[p].tab].workspace = panes'[p].workspace

LEMMA PanesUntouched ==
  ASSUME UNCHANGED panes
  PROVE  PlacementStep
BY DEF PlacementStep, HasPane

LEMMA PutPanePlaces ==
  ASSUME NEW c \in Command, NEW p \in PaneIds, NEW pane, NEW expected,
         pane \in [workspace: WorkspaceIds, tab: TabIds,
                   execution: SubmittedAssignment \cup {Absent},
                   availability: Availabilities, revision: Nat],
         RecordsInv, PutPane(c, p, pane, expected)
  PROVE  PlacementStep
<1>1. CASE CompleteUnchanged(c)
  BY <1>1, PanesUntouched DEF CompleteUnchanged
<1>2. CASE /\ panes' = [panes EXCEPT ![p] = [pane EXCEPT !.revision = revision + 1]]
           /\ UNCHANGED tabs
  <2> DEFINE new == [pane EXCEPT !.revision = revision + 1]
  <2>1. new.tab = pane.tab /\ new.workspace = pane.workspace
    OBVIOUS
  <2>2. tabs[pane.tab].workspace = pane.workspace
    BY DEF PutPane, RequirePaneReferences
  <2>3. panes' = [panes EXCEPT ![p] = new]
    BY <1>2
  <2> HIDE DEF new
  <2> QED  BY <1>2, <2>1, <2>2, <2>3 DEF PlacementStep, HasPane, RecordsInv, RecordsTypeOK
<1> QED  BY <1>1, <1>2 DEF PutPane

LEMMA ExecutionPlaces ==
  ASSUME NEW c \in Command, ExecutionCommand(c), RecordsInv
  PROVE  PlacementStep
<1>1. PICK p \in PaneIds : HasPane(p) /\
        \/ UNCHANGED panes
        \/ \E assignment \in Assignment :
             panes' = [panes EXCEPT ![p].execution = assignment,
                                    ![p].availability = "pending",
                                    ![p].revision = revision + 1]
        \/ \E availability \in Availabilities :
             panes' = [panes EXCEPT ![p].availability = availability,
                                    ![p].revision = revision + 1]
  BY DEF ExecutionCommand, AssignExecution, SetPaneAvailability, CompleteUnchanged
<1>2. panes[p] \in PaneRecord
  BY <1>1 DEF HasPane, RecordsInv, RecordsTypeOK
<1>3. CASE UNCHANGED panes
  BY <1>3, PanesUntouched
<1>4. ASSUME NEW new, panes' = [panes EXCEPT ![p] = new],
             new.tab = panes[p].tab, new.workspace = panes[p].workspace
      PROVE  PlacementStep
  BY <1>1, <1>4 DEF PlacementStep, HasPane, RecordsInv, RecordsTypeOK
<1>5. ASSUME NEW assignment,
             panes' = [panes EXCEPT ![p].execution = assignment,
                                    ![p].availability = "pending",
                                    ![p].revision = revision + 1]
      PROVE  PlacementStep
  <2> DEFINE new == [panes[p] EXCEPT !.execution = assignment,
                                     !.availability = "pending",
                                     !.revision = revision + 1]
  <2>1. new.tab = panes[p].tab /\ new.workspace = panes[p].workspace
    BY <1>2 DEF PaneRecord
  <2>2. panes' = [panes EXCEPT ![p] = new]
    BY <1>5 DEF RecordsInv, RecordsTypeOK
  <2> HIDE DEF new
  <2> QED  BY <1>4, <2>1, <2>2
<1>6. ASSUME NEW availability,
             panes' = [panes EXCEPT ![p].availability = availability,
                                    ![p].revision = revision + 1]
      PROVE  PlacementStep
  <2> DEFINE mid == [panes[p] EXCEPT !.availability = availability]
             new == [mid EXCEPT !.revision = revision + 1]
  <2>1. new.tab = panes[p].tab /\ new.workspace = panes[p].workspace
    BY <1>2 DEF PaneRecord
  <2>2. panes' = [panes EXCEPT ![p] = new]
    BY <1>6 DEF RecordsInv, RecordsTypeOK
  <2> HIDE DEF new, mid
  <2> QED  BY <1>4, <2>1, <2>2
<1> QED  BY <1>1, <1>3, <1>5, <1>6

LEMMA NextPlaces ==
  ASSUME RecordsInv, [Next]_vars
  PROVE  PlacementStep
<1>1. ASSUME NEW c \in Command, WorkspaceCommand(c) \/ TabCommand(c) \/ OutcomeCommand(c)
      PROVE  UNCHANGED panes
  BY <1>1 DEF WorkspaceCommand, CreateWorkspace, RenameWorkspace, TabCommand, PutTab,
     RemoveTab, OutcomeCommand, Reject, Duplicate, Conflict, CompleteWorkflow, PruneDedup,
     CompleteUnchanged, vars
<1>2. ASSUME NEW c \in Command, PaneCommand(c)
      PROVE  PlacementStep
  <2>1. PICK p \in PaneIds, expected \in 0 .. revision :
          \/ \E pane \in SubmittedPane(p) : PutPane(c, p, pane, expected)
          \/ \E generation \in (0 .. MaxGeneration) \cup {Absent} :
               RemovePane(c, p, expected, generation)
    BY <1>2 DEF PaneCommand
  <2>2. SubmittedPane(p) \subseteq
          [workspace: WorkspaceIds, tab: TabIds,
           execution: SubmittedAssignment \cup {Absent},
           availability: Availabilities, revision: Nat]
    BY DEF SubmittedPane, Carried, PaneRecord, RecordsInv, RecordsTypeOK
  <2>3. CASE panes' = [panes EXCEPT ![p] = Absent]
    BY <2>3 DEF PlacementStep, HasPane, RecordsInv, RecordsTypeOK
  <2> QED  BY <2>1, <2>2, <2>3, PutPanePlaces DEF RemovePane
<1>3. CASE UNCHANGED vars
  BY <1>3, PanesUntouched DEF vars
<1> QED  BY <1>1, <1>2, <1>3, PanesUntouched, ExecutionPlaces DEF Next

LEMMA PlacedStep ==
  ASSUME RecordsInv, RecordsInv', PanesPlaced, PlacementStep, TabStep \/ UNCHANGED tabs
  PROVE  PanesPlaced'
<1> SUFFICES ASSUME NEW p \in PaneIds, panes'[p] # Absent
             PROVE  tabs'[panes'[p].tab].workspace = panes'[p].workspace
  BY DEF PanesPlaced, HasPane
<1>1. CASE UNCHANGED tabs /\ tabs[panes'[p].tab].workspace = panes'[p].workspace
  BY <1>1
<1>2. CASE /\ HasPane(p)
           /\ panes'[p].tab = panes[p].tab
           /\ panes'[p].workspace = panes[p].workspace
  <2> DEFINE t == panes[p].tab
  <2>1. t \in TabIds /\ HasTab(t) /\ ~TabEmpty(t)
    BY <1>2 DEF RecordsInv, RecordsTypeOK, ReferencesExist, HasPane, PaneRecord, TabEmpty
  <2>2. tabs'[t] # Absent
    BY <1>2 DEF RecordsInv, ReferencesExist, HasPane, HasTab
  <2>3. tabs'[t].workspace = tabs[t].workspace
    BY <2>1, <2>2 DEF TabStep, HasTab
  <2> QED  BY <1>2, <2>3 DEF PanesPlaced
<1> QED  BY <1>1, <1>2 DEF PlacementStep

LEMMA PlacedDecodes ==
  ASSUME RecordsInv, PanesPlaced
  PROVE  Decodable
<1>1. ASSUME NEW p \in PaneIds, HasPane(p)
      PROVE  RequirePaneReferences(panes[p]) /\ ValidateExecution(panes[p])
  <2>1. RequirePaneReferences(panes[p])
    BY <1>1 DEF RequirePaneReferences, RecordsInv, ReferencesExist, PanesPlaced
  <2>2. panes[p].execution \in Assignment \cup {Absent}
    BY <1>1 DEF RecordsInv, RecordsTypeOK, HasPane, PaneRecord
  <2>3. ValidateExecution(panes[p])
    BY <2>2, BoundsAssumption DEF ValidateExecution, Assignment
  <2> QED  BY <2>1, <2>3
<1> QED  BY <1>1 DEF Decodable, ValidateReferences, RecordsInv, ReferencesExist

\* Every state the commands lead to can be decoded again by a restarting
\* node or a receiver of a snapshot, as long as no PutTab moves a tab that
\* has panes: that move is the only way into a state validate_references
\* refuses.
THEOREM DecodableUnmoved == Spec /\ TabsStay => []Decodable
<1>1. Init => PanesPlaced
  BY DEF Init, PanesPlaced, HasPane
<1>2. /\ RecordsInv /\ OutcomesInv /\ (RecordsInv /\ OutcomesInv)'
      /\ PanesPlaced /\ [Next]_vars /\ [TabStep]_vars
      => PanesPlaced'
  <2> SUFFICES ASSUME RecordsInv, RecordsInv', PanesPlaced, [Next]_vars, [TabStep]_vars
               PROVE  PanesPlaced'
    OBVIOUS
  <2>1. TabStep \/ UNCHANGED tabs
    BY DEF vars
  <2> QED  BY <2>1, NextPlaces, PlacedStep
<1>3. RecordsInv /\ PanesPlaced => Decodable
  BY PlacedDecodes
<1> QED  BY <1>1, <1>2, <1>3, Invariance, PTL DEF Spec, TabsStay
=============================================================================
