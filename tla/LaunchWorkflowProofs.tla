------------------------ MODULE LaunchWorkflowProofs ------------------------
(***************************************************************************)
(* Proofs about LaunchWorkflow for every value of its constants: the       *)
(* control state is only ever changed by the actions of ControlState, a    *)
(* completed workflow leaves no pane pending, and the whole keeps the      *)
(* launch contract.                                                        *)
(*                                                                         *)
(* The argument is one chain, asked - launched - shown - settled, and what *)
(* each holder of a copy (a worker, a launch call, a voter's pass) may     *)
(* know of it: ChainInv for the state, PassInv and CallInv for the copies. *)
(***************************************************************************)
EXTENDS LaunchWorkflow, ControlStateProofs

USE DEF NewRevision

\* The stages of the chain, as functions of a deduplication table.
AskedIn(table) == {k \in Workflows : table[k] # Absent}

ShownIn(table) ==
  {k \in Workflows : \E r \in AssignedRevisions, a \in Reported :
     /\ table[ReportKey(k, r, a)] # Absent
     /\ table[ReportKey(k, r, a)].response.result = "accepted"}

SettledIn(table) ==
  {k \in Workflows : table[k] # Absent /\ table[k].response.status = "complete"}

AskedNow == AskedIn(dedup)
ShownNow == ShownIn(dedup)
SettledNow == SettledIn(dedup)

ControlInv == RecordsInv /\ OutcomesInv

\* Revisions stay within the bound, so derived command identities exist.
RevisionInv ==
  /\ revision \in StartRevision .. MaxRevision
  /\ \A p \in PaneIds : HasPane(p) =>
       /\ panes[p].revision <= revision
       /\ panes[p].execution # Absent => panes[p].revision > StartRevision

\* A view that shows an outcome of a workflow has it from a report.
ShowsIn(view, shown) ==
  \A k \in Workflows :
    AssignedIn(k, view) /\ view[Pane(k)].availability # "pending" => k \in shown

\* The panes themselves show all reports of what they are assigned to.
PanesShow(view, shown) ==
  \A k \in shown : AssignedIn(k, view) => view[Pane(k)].availability # "pending"

ChainInv ==
  /\ launched \subseteq AskedNow
  /\ ShownNow \subseteq launched
  /\ SettledNow \subseteq ShownNow
  /\ \A k \in Workflows : registry[Execution(k)] # Absent => k \in launched
  /\ ShowsIn(panes, ShownNow)
  /\ PanesShow(panes, ShownNow)

\* What a pass knows.
KnownTo(p, asked, started, shown) ==
  LET k == First(p.todo)
  IN /\ ShowsIn(p.view, shown)
     /\ \A q \in PaneIds : p.view[q] # Absent /\ p.view[q].execution # Absent =>
          p.view[q].revision \in AssignedRevisions
     /\ p.todo \subseteq asked
     /\ p.pc # "query" => AssignedIn(k, p.view)
     /\ p.pc \in {"report", "complete"} => p.found # Absent /\ k \in started
     /\ p.pc = "complete" => k \in shown

PassInv ==
  \A n \in Voters : pass[n] # Absent =>
    KnownTo(pass[n], AskedNow, launched, ShownNow)

\* A call that is awaited is what its voter waits for, and the only one.
AwaitedBy(ps, call) ==
  /\ ps[call.by] # Absent
  /\ ps[call.by].pc = "launching"
  /\ First(ps[call.by].todo) = call.workflow

CallsInv(calls, ps, asked, started) ==
  /\ \A call \in calls :
       /\ call.workflow \in asked
       /\ call.pc = "registered" => call.workflow \in started
       /\ call.awaited => AwaitedBy(ps, call)
  /\ \A c, d \in calls : c.awaited /\ d.awaited /\ c.by = d.by => c = d

CallInv == CallsInv(launches, pass, AskedNow, launched)

WorkerInv ==
  /\ up \subseteq Nodes
  /\ registry \in [ExecutionIds -> WorkerExecution \cup {Absent}]
  /\ durable \subseteq ExecutionIds
  /\ \A e \in durable : registry[e] # Absent
  /\ fence \in [ExecutionIds -> Terms \cup {Absent}]
  /\ expired \subseteq ExecutionIds
  /\ launched \subseteq Workflows

VoterInv ==
  /\ leader \in Voters
  /\ term \in 1 .. (faults + 1)
  /\ faults \in 0 .. MaxFaults
  /\ pass \in [Voters -> Pass \cup {Absent}]
  /\ launches \subseteq LaunchCall

LaunchInv ==
  /\ ControlInv
  /\ RevisionInv
  /\ WorkerInv
  /\ VoterInv
  /\ ChainInv
  /\ PassInv
  /\ CallInv

-----------------------------------------------------------------------------
(* The first workflow of a pass. *)

LEMMA FirstIn ==
  ASSUME NEW todo \in SUBSET Workflows, todo # {}
  PROVE  First(todo) \in todo
BY RankAssumption DEF First

LEMMA PlanFacts ==
  ASSUME NEW k \in Workflows
  PROVE  /\ k \in Keys
         /\ k = <<k[1], k[2]>>
         /\ k[1] \in Principals /\ k[2] \in CommandIds
         /\ Plan[k].assignment \in Assignment
         /\ Pane(k) \in PaneIds
         /\ Execution(k) \in ExecutionIds
         /\ Worker(k) \in Nodes
BY PlanAssumption DEF Keys, Launch, Assignment, Pane, Execution, Worker

LEMMA AvailabilityReported ==
  ASSUME NEW x \in WorkerExecution
  PROVE  /\ AvailabilityOf(x) \in Reported
         /\ AvailabilityOf(x) \in Availabilities
         /\ AvailabilityOf(x) # "pending"
BY PlanAssumption DEF WorkerExecution, WorkerStates, AvailabilityOf, Reported

-----------------------------------------------------------------------------
(* What the commands of a workflow do to the stages. *)

LEMMA KeyFacts ==
  ASSUME NEW k \in Workflows, NEW r \in AssignedRevisions, NEW a \in Reported
  PROVE  /\ ReportKey(k, r, a) \in Keys
         /\ ReportKey(k, r, a) \notin Workflows
         /\ CompleteKey(k) \in Keys
         /\ CompleteKey(k) \notin Workflows
         /\ \A j \in Workflows : ReportKey(k, r, a) # CompleteKey(j)
         /\ \A j \in Workflows, s \in AssignedRevisions, b \in Reported :
              ReportKey(k, r, a) = ReportKey(j, s, b) => j = k
BY DerivedAssumption

\* A report is recorded under a new key.
LEMMA ReportRecorded ==
  ASSUME NEW table \in [Keys -> DedupRecord \cup {Absent}], NEW record \in DedupRecord,
         NEW k \in Workflows, NEW r \in AssignedRevisions, NEW a \in Reported,
         NEW key, key = ReportKey(k, r, a), table[key] = Absent,
         NEW next, \A x \in Keys : next[x] = IF x = key THEN record ELSE table[x]
  PROVE  /\ AskedIn(next) = AskedIn(table)
         /\ SettledIn(next) = SettledIn(table)
         /\ record.response.result = "accepted" =>
              ShownIn(next) = ShownIn(table) \cup {k}
         /\ record.response.result # "accepted" => ShownIn(next) = ShownIn(table)
<1>1. /\ key \in Keys
      /\ key \notin Workflows
      /\ \A j \in Workflows, s \in AssignedRevisions, b \in Reported :
           key = ReportKey(j, s, b) => j = k
  BY KeyFacts
<1>2. \A x \in Keys : next[x] = IF x = key THEN record ELSE table[x]
  OBVIOUS
<1>3. record # Absent
  BY AbsentAssumption
<1>4. Workflows \subseteq Keys
  BY PlanAssumption
<1>5. \A j \in Workflows, s \in AssignedRevisions, b \in Reported :
        ReportKey(j, s, b) \in Keys
  BY KeyFacts
<1>6. table[key] = Absent
  OBVIOUS
<1>7. \A x \in Workflows : next[x] = table[x]
  BY <1>1, <1>2, <1>4
<1>8. AskedIn(next) = AskedIn(table) /\ SettledIn(next) = SettledIn(table)
  BY <1>7 DEF AskedIn, SettledIn
<1>9. ASSUME NEW j \in ShownIn(next)
      PROVE  j \in ShownIn(table) \/ (record.response.result = "accepted" /\ j = k)
  BY <1>1, <1>2, <1>5, <1>9 DEF ShownIn
<1>10. ASSUME NEW j \in ShownIn(table)
       PROVE  j \in ShownIn(next)
  BY <1>1, <1>2, <1>5, <1>6, <1>10 DEF ShownIn
<1>11. ASSUME record.response.result = "accepted"
       PROVE  k \in ShownIn(next)
  BY <1>1, <1>2, <1>3, <1>5, <1>11 DEF ShownIn
<1> QED BY <1>8, <1>9, <1>10, <1>11

\* A workflow is accepted, or answered as complete, and the outcome of the
\* completing command recorded: no report is touched.
LEMMA ShownKept ==
  ASSUME NEW table \in [Keys -> DedupRecord \cup {Absent}],
         NEW next \in [Keys -> DedupRecord \cup {Absent}],
         \A x \in Keys : next[x] # table[x] =>
           x \in Workflows \/ \E k \in Workflows : x = CompleteKey(k)
  PROVE  ShownIn(next) = ShownIn(table)
<1>1. \A j \in Workflows, s \in AssignedRevisions, b \in Reported :
        next[ReportKey(j, s, b)] = table[ReportKey(j, s, b)]
  BY KeyFacts
<1> QED BY <1>1 DEF ShownIn

-----------------------------------------------------------------------------
(* Accepting a workflow. *)

LEMMA SubmitEffect ==
  ASSUME LaunchInv, NEW k \in Workflows, Submit(k)
  PROVE  /\ Next
         /\ ControlInv'
         /\ RevisionInv'
         /\ k \notin AskedNow
         /\ AskedNow' = AskedNow \cup {k}
         /\ ShownNow' = ShownNow
         /\ SettledNow' = SettledNow
         /\ \A p \in PaneIds \ {Pane(k)} : panes'[p] = panes[p]
         /\ panes'[Pane(k)].execution = Plan[k].assignment
         /\ panes'[Pane(k)].availability = "pending"
<1> DEFINE c == [key |-> k, fingerprint |-> AnyRequest, issued |-> 0]
           p == Pane(k)
           g == PaneGeneration(panes[p])
           as == Plan[k].assignment
           launch == [pane |-> p, assignment |-> as]
           record == [fingerprint |-> AnyRequest, issued |-> 0, launch |-> launch,
                      response |-> [revision |-> revision', status |-> "pending",
                                    result |-> "accepted"]]
<1>1. /\ c \in Command /\ c.key = k /\ c.fingerprint = AnyRequest /\ c.issued = 0
      /\ p \in PaneIds /\ as \in Assignment /\ k \in Keys
  BY PlanFacts, PlanAssumption, DerivedAssumption DEF Command
<1>2. RecordsInv /\ OutcomesInv /\ RevisionInv /\ revision \in Nat
  BY DEF LaunchInv, ControlInv, RecordsInv, RecordsTypeOK
<1>3. /\ HasPane(p)
      /\ AssignExecution(c, p, panes[p].revision, g, as)
  BY DEF Submit
<1>4. /\ panes[p] \in PaneRecord
      /\ panes[p].revision \in 0 .. revision
      /\ g \in 0 .. MaxGeneration
  <2>1. panes[p] \in PaneRecord
    BY <1>1, <1>2, <1>3 DEF RecordsInv, RecordsTypeOK, HasPane
  <2>2. panes[p].revision \in Nat /\ panes[p].execution \in Assignment \cup {Absent}
    BY <2>1 DEF PaneRecord
  <2>3. panes[p].revision <= revision
    BY <1>1, <1>2, <1>3 DEF RevisionInv
  <2>4. g \in 0 .. MaxGeneration
    BY <2>2, BoundsAssumption DEF PaneGeneration, Assignment
  <2> QED BY <1>2, <2>1, <2>2, <2>3, <2>4
<1> HIDE DEF c, p, g, as
<1>5. g \in Nat /\ panes[p].revision \in Nat
  BY <1>2, <1>4, BoundsAssumption
<1>6. Next
  BY <1>1, <1>3, <1>4 DEF Next, ExecutionCommand
<1>7. ControlInv'
  BY <1>1, <1>2, <1>3, <1>5, AssignExecutionStep DEF ControlInv, RecordsStep, OutcomesStep
<1>8. /\ dedup[k] = Absent
      /\ revision < MaxRevision
      /\ revision' = revision + 1
      /\ dedup' = [dedup EXCEPT ![k] = record]
      /\ panes' = [panes EXCEPT ![p].execution = as, ![p].availability = "pending",
                                ![p].revision = revision + 1]
  BY <1>1, <1>3 DEF AssignExecution, NewCommand, RecordOutcome, Changed
<1>9. /\ panes'[p].execution = as
      /\ panes'[p].availability = "pending"
      /\ panes'[p].revision = revision + 1
      /\ \A q \in PaneIds \ {p} : panes'[q] = panes[q]
  BY <1>1, <1>2, <1>4, <1>8 DEF RecordsInv, RecordsTypeOK, PaneRecord
<1>10. RevisionInv'
  <2>1. revision' \in StartRevision .. MaxRevision
    BY <1>2, <1>8, BoundsAssumption, PlanAssumption DEF RevisionInv
  <2>2. StartRevision \in Nat /\ StartRevision <= revision
    BY <1>2, PlanAssumption, BoundsAssumption DEF RevisionInv
  <2>3. ASSUME NEW q \in PaneIds \ {p}, HasPane(q)
        PROVE  panes[q].revision \in Nat /\ panes[q].revision <= revision
    BY <1>2, <2>3 DEF RevisionInv, HasPane, RecordsInv, RecordsTypeOK, PaneRecord
  <2>4. ASSUME NEW q \in PaneIds, HasPane(q)'
        PROVE  /\ panes'[q].revision <= revision'
               /\ panes'[q].execution # Absent => panes'[q].revision > StartRevision
    <3>1. CASE q = p
      <4>1. panes'[q].revision = revision + 1
        BY <1>9, <3>1
      <4>2. revision' = revision + 1
        BY <1>8
      <4> QED BY <1>2, <2>2, <4>1, <4>2
    <3>2. CASE q # p
      <4>1. panes'[q] = panes[q] /\ HasPane(q)
        BY <1>9, <2>4, <3>2 DEF HasPane
      <4>2. panes[q].execution # Absent => panes[q].revision > StartRevision
        BY <1>2, <4>1 DEF RevisionInv
      <4> QED BY <1>2, <1>8, <2>3, <3>2, <4>1, <4>2
    <3> QED BY <3>1, <3>2
  <2> QED BY <2>1, <2>4 DEF RevisionInv
<1>11. dedup \in [Keys -> DedupRecord \cup {Absent}]
       /\ dedup' \in [Keys -> DedupRecord \cup {Absent}]
  BY <1>2, <1>7 DEF OutcomesInv, ControlInv
<1>12. \A x \in Keys : dedup'[x] = IF x = k THEN record ELSE dedup[x]
  BY <1>1, <1>8, <1>11
<1>13. dedup'[k] # Absent /\ dedup'[k].response.status = "pending"
  <2>1. record \in DedupRecord \cup {Absent}
    BY <1>1, <1>11, <1>12
  <2>2. record.response.status = "pending"
    OBVIOUS
  <2>3. record \in DedupRecord
    BY <1>1, <1>7, <1>2, <1>8, PlanFacts, PlanAssumption, DerivedAssumption DEF DedupRecord, Response, Launch, as, p
  <2> QED BY <1>1, <1>12, <2>2, <2>3, AbsentAssumption
<1> HIDE DEF record
<1>14. Workflows \subseteq Keys
  BY PlanAssumption
<1>15. AskedNow' = AskedNow \cup {k} /\ k \notin AskedNow /\ SettledNow' = SettledNow
  BY <1>8, <1>12, <1>13, <1>14 DEF AskedNow, SettledNow, AskedIn, SettledIn
<1>16. ShownNow' = ShownNow
  <2>1. ShownIn(dedup') = ShownIn(dedup)
    BY <1>11, <1>12, ShownKept
  <2> QED BY <2>1 DEF ShownNow
<1> QED BY <1>6, <1>7, <1>9, <1>10, <1>15, <1>16 DEF p, as

-----------------------------------------------------------------------------
(* Reporting and completing. *)

LEMMA PassFacts ==
  ASSUME LaunchInv, NEW n \in Voters, pass[n] # Absent
  PROVE  /\ pass[n] \in Pass
         /\ pass[n].todo \in (SUBSET Workflows) \ {{}}
         /\ pass[n].view \in [PaneIds -> PaneRecord \cup {Absent}]
         /\ Current(n) \in pass[n].todo
         /\ Current(n) \in Workflows
         /\ Current(n) \in AskedNow
         /\ KnownTo(pass[n], AskedNow, launched, ShownNow)
<1>1. pass[n] \in Pass
  BY DEF LaunchInv, VoterInv
<1>2. pass[n].todo \in (SUBSET Workflows) \ {{}}
      /\ pass[n].view \in [PaneIds -> PaneRecord \cup {Absent}]
  BY <1>1 DEF Pass
<1>3. Current(n) \in pass[n].todo
  BY <1>2, FirstIn DEF Current
<1>4. KnownTo(pass[n], AskedNow, launched, ShownNow)
  BY DEF LaunchInv, PassInv
<1>5. Current(n) \in AskedNow
  BY <1>3, <1>4 DEF KnownTo
<1> QED BY <1>1, <1>2, <1>3, <1>4, <1>5

\* What a pass sends is a command, under a key of its workflow.
LEMMA CommandFacts ==
  ASSUME LaunchInv, NEW n \in Voters, At(n, "report") \/ At(n, "complete")
  PROVE  /\ pass[n] # Absent
         /\ pass[n].found \in WorkerExecution
         /\ AssignedIn(Current(n), pass[n].view)
         /\ pass[n].view[Pane(Current(n))].revision \in AssignedRevisions
         /\ AvailabilityOf(pass[n].found) \in Reported
         /\ AvailabilityOf(pass[n].found) \in Availabilities
         /\ AvailabilityOf(pass[n].found) # "pending"
         /\ ReportCommand(n) \in Command
         /\ ReportCommand(n).key =
              ReportKey(Current(n), pass[n].view[Pane(Current(n))].revision,
                        AvailabilityOf(pass[n].found))
         /\ CompleteCommand(n) \in Command
         /\ CompleteCommand(n).key = CompleteKey(Current(n))
<1> DEFINE k == Current(n)
           r == pass[n].view[Pane(k)].revision
           a == AvailabilityOf(pass[n].found)
<1>1. pass[n] # Absent /\ pass[n].pc \in {"report", "complete"}
  BY DEF At
<1>2. /\ pass[n] \in Pass
      /\ k \in Workflows
      /\ KnownTo(pass[n], AskedNow, launched, ShownNow)
  BY <1>1, PassFacts
<1>3. AssignedIn(k, pass[n].view) /\ pass[n].found # Absent
  BY <1>1, <1>2 DEF KnownTo, Current
<1>4. pass[n].found \in WorkerExecution
  BY <1>2, <1>3 DEF Pass
<1>5. a \in Reported /\ a \in Availabilities /\ a # "pending"
  BY <1>4, AvailabilityReported
<1>6. r \in AssignedRevisions
  <2>1. Pane(k) \in PaneIds /\ Plan[k].assignment \in Assignment
    BY <1>2, PlanFacts
  <2>2. Plan[k].assignment # Absent
    <3>1. Plan[k].assignment \in SubmittedAssignment
      BY <2>1 DEF Assignment, SubmittedAssignment
    <3> QED BY <3>1, AbsentAssumption
  <2>3. pass[n].view[Pane(k)] # Absent /\ pass[n].view[Pane(k)].execution # Absent
    BY <1>3, <2>2 DEF AssignedIn
  <2> QED BY <1>2, <2>1, <2>3 DEF KnownTo
<1>7. ReportKey(k, r, a) \in Keys /\ CompleteKey(k) \in Keys
  BY <1>2, <1>5, <1>6, KeyFacts
<1>8. pass[n].found \in Fingerprints /\ AnyRequest \in Fingerprints /\ 0 \in Times
  BY <1>4, DerivedAssumption, PlanAssumption
<1>9. /\ ReportCommand(n) \in Command
      /\ ReportCommand(n).key = ReportKey(k, r, a)
  BY <1>7, <1>8 DEF ReportCommand, Command
<1>10. /\ CompleteCommand(n) \in Command
       /\ CompleteCommand(n).key = CompleteKey(k)
  BY <1>7, <1>8 DEF CompleteCommand, Command
<1> QED BY <1>1, <1>3, <1>4, <1>5, <1>6, <1>9, <1>10

\* Panes and stages left alone.
LEMMA RevisionKept ==
  ASSUME RevisionInv, RecordsInv, RecordsInv', UNCHANGED panes,
         revision' = revision \/ (revision < MaxRevision /\ revision' = revision + 1)
  PROVE  RevisionInv'
<1>1. revision \in Nat /\ MaxRevision \in Nat /\ StartRevision \in Nat
  BY BoundsAssumption, PlanAssumption DEF RecordsInv, RecordsTypeOK
<1>2. revision' \in StartRevision .. MaxRevision
  BY <1>1 DEF RevisionInv
<1>3. ASSUME NEW p \in PaneIds, HasPane(p)'
      PROVE  /\ panes'[p].revision <= revision'
             /\ panes'[p].execution # Absent => panes'[p].revision > StartRevision
  <2>1. HasPane(p) /\ panes'[p] = panes[p]
    BY <1>3 DEF HasPane
  <2>2. panes[p].revision \in Nat
    BY <2>1 DEF HasPane, RecordsInv, RecordsTypeOK, PaneRecord
  <2>3. /\ panes[p].revision <= revision
        /\ panes[p].execution # Absent => panes[p].revision > StartRevision
    BY <2>1 DEF RevisionInv
  <2> QED BY <1>1, <2>1, <2>2, <2>3
<1> QED BY <1>2, <1>3 DEF RevisionInv

\* A report adds its workflow to the shown ones exactly when it is accepted,
\* and the pane then shows it.
LEMMA ReportEffect ==
  ASSUME LaunchInv, NEW n \in Voters, At(n, "report"), ApplyReport(n)
  PROVE  /\ Next
         /\ ControlInv'
         /\ RevisionInv'
         /\ AskedNow' = AskedNow
         /\ SettledNow' = SettledNow
         /\ ShownNow' = ShownNow \/ ShownNow' = ShownNow \cup {Current(n)}
         /\ ReportAccepted(n) => Current(n) \in ShownNow'
         /\ ShowsIn(panes', ShownNow')
         /\ PanesShow(panes', ShownNow')
<1> DEFINE c == ReportCommand(n)
           k == Current(n)
           p == Pane(k)
           r == pass[n].view[p].revision
           a == AvailabilityOf(pass[n].found)
           as == Plan[k].assignment
<1>1. /\ c \in Command
      /\ c.key = ReportKey(k, r, a)
      /\ r \in AssignedRevisions
      /\ a \in Reported /\ a \in Availabilities /\ a # "pending"
      /\ pass[n] # Absent
  BY CommandFacts
<1>2. k \in Workflows
  BY <1>1, PassFacts
<1>3. p \in PaneIds /\ as \in Assignment
  BY <1>2, PlanFacts
<1>4. /\ RecordsInv /\ OutcomesInv /\ RevisionInv
      /\ dedup \in [Keys -> DedupRecord \cup {Absent}]
      /\ panes \in [PaneIds -> PaneRecord \cup {Absent}]
      /\ revision \in Nat /\ r \in Nat /\ StartRevision \in Nat /\ MaxRevision \in Nat
  BY <1>1, PlanAssumption, BoundsAssumption
     DEF LaunchInv, ControlInv, RecordsInv, RecordsTypeOK, OutcomesInv, AssignedRevisions
<1>5. c.key \in Keys
  BY <1>1, <1>2, KeyFacts
<1>6. ReportAccepted(n) <=> dedup'[c.key].response.result = "accepted"
  BY DEF ReportAccepted
<1>7. ShowsIn(panes, ShownNow) /\ PanesShow(panes, ShownNow)
  BY DEF LaunchInv, ChainInv
<1>8. \/ Duplicate(c)
      \/ SetPaneAvailability(c, p, r, as, a)
      \/ Reject(c)
  BY DEF ApplyReport
<1> HIDE DEF c, k, p, r, a, as
<1>9. CASE Duplicate(c)
  <2>1. UNCHANGED <<revision, panes, dedup>> /\ dedup[c.key] # Absent
    BY <1>9 DEF Duplicate
  <2>2. ControlInv'
    BY <1>1, <1>4, <1>9, DuplicateStep DEF ControlInv, RecordsStep, OutcomesStep
  <2>3. RevisionInv'
    BY <1>4, <2>1, <2>2, RevisionKept DEF ControlInv
  <2>4. /\ AskedNow' = AskedNow
        /\ SettledNow' = SettledNow
        /\ ShownNow' = ShownNow
    BY <2>1 DEF AskedNow, SettledNow, ShownNow
  <2>5. ReportAccepted(n) => k \in ShownNow
    BY <1>1, <1>2, <1>6, <2>1 DEF ShownNow, ShownIn
  <2>6. Next
    BY <1>1, <1>9 DEF Next, OutcomeCommand
  <2> QED BY <1>7, <2>1, <2>2, <2>3, <2>4, <2>5, <2>6 DEF k
<1>10. ASSUME NEW record \in DedupRecord, NewCommand(c),
              dedup' = [dedup EXCEPT ![c.key] = record]
       PROVE  /\ AskedNow' = AskedNow
              /\ SettledNow' = SettledNow
              /\ ReportAccepted(n) <=> record.response.result = "accepted"
              /\ record.response.result = "accepted" => ShownNow' = ShownNow \cup {k}
              /\ record.response.result # "accepted" => ShownNow' = ShownNow
  <2>1. c.key = ReportKey(k, r, a) /\ dedup[c.key] = Absent
    BY <1>1, <1>10 DEF NewCommand
  <2>2. \A x \in Keys : dedup'[x] = IF x = c.key THEN record ELSE dedup[x]
    BY <1>4, <1>5, <1>10
  <2>3. /\ AskedIn(dedup') = AskedIn(dedup)
        /\ SettledIn(dedup') = SettledIn(dedup)
        /\ record.response.result = "accepted" =>
             ShownIn(dedup') = ShownIn(dedup) \cup {k}
        /\ record.response.result # "accepted" => ShownIn(dedup') = ShownIn(dedup)
    <3>1. dedup \in [Keys -> DedupRecord \cup {Absent}]
      BY <1>4
    <3>2. r \in AssignedRevisions /\ a \in Reported
      BY <1>1
    <3> QED BY <1>2, <2>1, <2>2, <3>1, <3>2, ReportRecorded
  <2>4. dedup'[c.key] = record
    BY <1>4, <1>5, <1>10
  <2> QED BY <1>6, <2>3, <2>4 DEF AskedNow, SettledNow, ShownNow
<1>11. ASSUME NEW result \in {"accepted", "rejected"}, revision' \in Nat
       PROVE  [fingerprint |-> c.fingerprint, issued |-> c.issued, launch |-> Absent,
               response |-> [revision |-> revision', status |-> "complete",
                             result |-> result]] \in DedupRecord
  BY <1>1, <1>11 DEF DedupRecord, Response, Command
<1>12. CASE Reject(c)
  <2>1. NewCommand(c) /\ UNCHANGED <<revision, workspaces, tabs, panes>>
    BY <1>12 DEF Reject
  <2> DEFINE record == [fingerprint |-> c.fingerprint, issued |-> c.issued, launch |-> Absent,
                        response |-> [revision |-> revision', status |-> "complete",
                                      result |-> "rejected"]]
  <2>2. dedup' = [dedup EXCEPT ![c.key] = record]
    BY <1>12 DEF Reject, RecordOutcome
  <2>3. record \in DedupRecord
    BY <1>4, <1>11, <2>1
  <2>4. record.response.result # "accepted"
    OBVIOUS
  <2> HIDE DEF record
  <2>5. /\ AskedNow' = AskedNow
        /\ SettledNow' = SettledNow
        /\ ~ReportAccepted(n)
        /\ ShownNow' = ShownNow
    BY <1>10, <2>1, <2>2, <2>3, <2>4
  <2>6. ControlInv'
    BY <1>1, <1>4, <1>12, OutcomeOnlyStep DEF Reject, ControlInv, RecordsStep, OutcomesStep
  <2>7. RevisionInv'
    BY <1>4, <2>1, <2>6, RevisionKept DEF ControlInv
  <2>8. Next
    BY <1>1, <1>12 DEF Next, OutcomeCommand
  <2> QED BY <1>7, <2>1, <2>5, <2>6, <2>7, <2>8
<1>13. CASE SetPaneAvailability(c, p, r, as, a)
  <2>1. /\ NewCommand(c)
        /\ HasPane(p)
        /\ panes[p].revision = r
        /\ panes[p].execution = as
    BY <1>13 DEF SetPaneAvailability
  <2>2. ControlInv'
    BY <1>1, <1>3, <1>4, <1>13, SetPaneAvailabilityStep
       DEF ControlInv, RecordsStep, OutcomesStep
  <2>3. r \in 0 .. revision
    BY <1>3, <1>4, <2>1 DEF RevisionInv
  <2>4. Next
    BY <1>1, <1>3, <1>13, <2>3 DEF Next, ExecutionCommand
  <2> DEFINE record == [fingerprint |-> c.fingerprint, issued |-> c.issued, launch |-> Absent,
                        response |-> [revision |-> revision', status |-> "complete",
                                      result |-> "accepted"]]
  <2>5. dedup' = [dedup EXCEPT ![c.key] = record]
    BY <1>13 DEF SetPaneAvailability, CompleteChanged, CompleteUnchanged, RecordOutcome
  <2>6. record \in DedupRecord
    BY <1>11, <2>2 DEF ControlInv, RecordsInv, RecordsTypeOK
  <2>7. record.response.result = "accepted"
    OBVIOUS
  <2> HIDE DEF record
  <2>8. /\ AskedNow' = AskedNow
        /\ SettledNow' = SettledNow
        /\ ShownNow' = ShownNow \cup {k}
    BY <1>10, <2>1, <2>5, <2>6, <2>7
  \* In both branches the pane has the availability, and nothing else changes.
  <2>9. /\ panes'[p].execution = as
        /\ panes'[p].availability = a
        /\ panes'[p].revision = r \/ panes'[p].revision = revision'
        /\ \A q \in PaneIds \ {p} : panes'[q] = panes[q]
        /\ panes'[p] # Absent
        /\ revision' = revision \/ (revision < MaxRevision /\ revision' = revision + 1)
    <3>1. panes[p] \in PaneRecord
      BY <1>3, <1>4, <2>1 DEF HasPane
    <3>2. panes' \in [PaneIds -> PaneRecord \cup {Absent}]
      BY <2>2 DEF ControlInv, RecordsInv, RecordsTypeOK
    <3>3. CASE CompleteUnchanged(c) /\ panes[p].availability = a
      BY <2>1, <3>3 DEF CompleteUnchanged, HasPane
    <3>4. CASE /\ CompleteChanged(c)
               /\ panes' = [panes EXCEPT ![p].availability = a,
                                         ![p].revision = revision + 1]
      <4>1. revision < MaxRevision /\ revision' = revision + 1
        BY <3>4 DEF CompleteChanged, Changed
      <4> DEFINE mid == [panes[p] EXCEPT !.availability = a]
                 new == [mid EXCEPT !.revision = revision + 1]
      <4>2. mid \in PaneRecord /\ mid.availability = a /\ mid.execution = as
        BY <1>1, <2>1, <3>1 DEF PaneRecord
      <4>3. panes' = [panes EXCEPT ![p] = new]
        BY <1>3, <1>4, <3>4
      <4> HIDE DEF mid
      <4>4. /\ new \in PaneRecord /\ new.availability = a /\ new.execution = as
            /\ new.revision = revision + 1
        <5>1. revision + 1 \in Nat
          BY <1>4
        <5>2. new \in PaneRecord
          BY <4>2, <5>1 DEF PaneRecord
        <5>3. /\ new.availability = mid.availability
              /\ new.execution = mid.execution
              /\ new.revision = revision + 1
          BY <4>2 DEF PaneRecord
        <5> QED BY <4>2, <5>2, <5>3
      <4> HIDE DEF new
      <4>5. panes'[p] = new /\ \A q \in PaneIds \ {p} : panes'[q] = panes[q]
        BY <1>3, <1>4, <4>3
      <4> QED BY <4>1, <4>4, <4>5, AbsentAssumption
    <3> QED BY <1>13, <3>3, <3>4 DEF SetPaneAvailability
  <2>10. RevisionInv'
    <3>1. revision' \in StartRevision .. MaxRevision
      BY <1>4, <2>9 DEF RevisionInv
    <3>2. ASSUME NEW q \in PaneIds, HasPane(q)'
          PROVE  /\ panes'[q].revision <= revision'
                 /\ panes'[q].execution # Absent => panes'[q].revision > StartRevision
      <4>1. CASE q = p
        <5>1. r > StartRevision /\ r <= revision
          BY <1>1, <1>4, <2>3 DEF AssignedRevisions
        <5>2. panes'[q].revision = r \/ panes'[q].revision = revision'
          BY <2>9, <4>1
        <5> QED BY <1>4, <2>9, <5>1, <5>2
      <4>2. CASE q # p
        <5>1. panes'[q] = panes[q] /\ HasPane(q)
          BY <2>9, <3>2, <4>2 DEF HasPane
        <5>2. panes[q].revision \in Nat
          BY <1>4, <5>1 DEF HasPane, PaneRecord
        <5>3. /\ panes[q].revision <= revision
              /\ panes[q].execution # Absent => panes[q].revision > StartRevision
          BY <1>4, <5>1 DEF RevisionInv
        <5> QED BY <1>4, <2>9, <5>1, <5>2, <5>3
      <4> QED BY <4>1, <4>2
    <3> QED BY <3>1, <3>2 DEF RevisionInv
  \* Two workflows never have the same assignment.
  <2>11. ASSUME NEW j \in Workflows, AssignedIn(j, panes'), j # k
         PROVE  /\ AssignedIn(j, panes)
                /\ panes'[Pane(j)].availability # "pending" <=>
                     panes[Pane(j)].availability # "pending"
    <3>1. Pane(j) # p
      <4>1. ASSUME Pane(j) = p PROVE FALSE
        <5>1. Plan[j].assignment = Plan[k].assignment
          BY <2>9, <2>11, <4>1 DEF AssignedIn, as
        <5> QED BY <1>2, <2>11, <5>1, PlanAssumption DEF Execution
      <4> QED BY <4>1
    <3>2. Pane(j) \in PaneIds
      BY PlanFacts
    <3> QED BY <2>9, <2>11, <3>1, <3>2 DEF AssignedIn
  <2>12. ShowsIn(panes', ShownNow')
    BY <1>2, <1>7, <2>8, <2>11 DEF ShowsIn
  <2>13. PanesShow(panes', ShownNow')
    <3>1. ShownNow' \subseteq Workflows
      BY DEF ShownNow, ShownIn
    <3>2. panes'[Pane(k)].availability # "pending"
      BY <1>1, <2>9 DEF p
    <3> QED BY <1>7, <2>8, <2>11, <3>1, <3>2 DEF PanesShow
  <2> QED BY <2>2, <2>4, <2>8, <2>10, <2>12, <2>13 DEF k
<1> QED BY <1>8, <1>9, <1>12, <1>13 DEF k

\* A completion leaves the panes and the reports alone and settles at most
\* its own workflow.
LEMMA CompleteEffect ==
  ASSUME LaunchInv, NEW n \in Voters, At(n, "complete"), ApplyComplete(n)
  PROVE  /\ Next
         /\ ControlInv'
         /\ RevisionInv'
         /\ UNCHANGED panes
         /\ AskedNow' = AskedNow
         /\ ShownNow' = ShownNow
         /\ SettledNow' = SettledNow \/ SettledNow' = SettledNow \cup {Current(n)}
<1> DEFINE c == CompleteCommand(n)
           k == Current(n)
<1>1. c \in Command /\ c.key = CompleteKey(k) /\ pass[n] # Absent
  BY CommandFacts
<1>2. k \in Workflows /\ k \in AskedNow
  BY <1>1, PassFacts
<1>3. /\ RecordsInv /\ OutcomesInv /\ RevisionInv
      /\ dedup \in [Keys -> DedupRecord \cup {Absent}]
      /\ revision \in Nat
  BY DEF LaunchInv, ControlInv, RecordsInv, RecordsTypeOK, OutcomesInv
<1>4. c.key \in Keys /\ c.key \notin Workflows
  BY <1>1, <1>2, DerivedAssumption
<1>5. /\ k \in Keys /\ k[2] \in CommandIds /\ <<c.key[1], k[2]>> = k
  BY <1>1, <1>2, PlanFacts DEF CompleteKey
<1>6. Duplicate(c) \/ Conflict(c) \/ CompleteWorkflow(c, k[2])
  BY DEF ApplyComplete
<1> HIDE DEF c, k
<1>7. Next
  BY <1>1, <1>5, <1>6 DEF Next, OutcomeCommand
<1>8. ControlInv'
  <2>1. CASE Duplicate(c)
    BY <1>1, <1>3, <2>1, DuplicateStep DEF ControlInv, RecordsStep, OutcomesStep
  <2>2. CASE Conflict(c)
    BY <1>3, <2>2, StutterStep DEF Conflict, ControlInv, RecordsStep, OutcomesStep
  <2>3. CASE CompleteWorkflow(c, k[2])
    BY <1>1, <1>3, <1>5, <2>3, CompleteWorkflowStep DEF ControlInv, RecordsStep, OutcomesStep
  <2> QED BY <1>6, <2>1, <2>2, <2>3
<1>9. /\ UNCHANGED panes
      /\ revision' = revision \/ (revision < MaxRevision /\ revision' = revision + 1)
  BY <1>6 DEF Duplicate, Conflict, vars, CompleteWorkflow, CompleteUnchanged, Changed
<1>10. RevisionInv'
  BY <1>3, <1>8, <1>9, RevisionKept DEF ControlInv
<1>11. CASE UNCHANGED dedup
  BY <1>7, <1>8, <1>9, <1>10, <1>11 DEF AskedNow, ShownNow, SettledNow
<1>12. CASE CompleteWorkflow(c, k[2])
  <2> DEFINE own == [fingerprint |-> c.fingerprint, issued |-> c.issued, launch |-> Absent,
                     response |-> [revision |-> revision', status |-> "complete",
                                   result |-> "accepted"]]
  <2>1. /\ dedup[k] # Absent
        /\ \/ /\ dedup[k].response.status = "pending"
              /\ dedup' = [[dedup EXCEPT ![k].response.status = "complete",
                                         ![k].response.result = "accepted"]
                             EXCEPT ![c.key] = own]
           \/ /\ dedup[k].response.status = "complete"
              /\ dedup' = [dedup EXCEPT ![c.key] = own]
    BY <1>5, <1>12 DEF CompleteWorkflow, CompleteUnchanged, RecordOutcome
  <2>2. k # c.key
    BY <1>2, <1>4
  <2> HIDE DEF own
  <2>3. \A x \in Keys : x # k /\ x # c.key => dedup'[x] = dedup[x]
    BY <1>3, <1>4, <1>5, <2>1
  <2>4. dedup' \in [Keys -> DedupRecord \cup {Absent}]
    BY <1>8 DEF ControlInv, OutcomesInv
  <2>5. ShownIn(dedup') = ShownIn(dedup)
    BY <1>1, <1>2, <1>3, <2>3, <2>4, ShownKept
  <2>6. dedup'[k] # Absent
    <3>1. EvictStep
      BY <1>1, <1>3, <1>5, <1>12, CompleteWorkflowStep DEF OutcomesStep
    <3>2. CASE dedup[k].response.status = "pending"
      BY <1>5, <2>1, <3>1, <3>2 DEF EvictStep
    <3>3. CASE dedup[k].response.status = "complete"
      BY <1>3, <1>4, <1>5, <2>1, <2>2, <3>3
    <3> QED BY <2>1, <3>2, <3>3
  <2>7. \A x \in Workflows : x # k => dedup'[x] = dedup[x]
    BY <1>4, <2>3, PlanAssumption
  <2>8. AskedIn(dedup') = AskedIn(dedup)
    BY <1>2, <2>6, <2>7 DEF AskedIn, AskedNow
  <2>9. SettledIn(dedup') = SettledIn(dedup) \/ SettledIn(dedup') = SettledIn(dedup) \cup {k}
    <3>1. CASE dedup[k].response.status = "pending"
      <4>1. k \notin SettledIn(dedup)
        BY <3>1 DEF SettledIn
      <4>2. \A x \in Workflows \ {k} : x \in SettledIn(dedup') <=> x \in SettledIn(dedup)
        BY <2>7 DEF SettledIn
      <4>3. SettledIn(dedup) \subseteq Workflows /\ SettledIn(dedup') \subseteq Workflows
        BY DEF SettledIn
      <4> QED BY <1>2, <4>1, <4>2, <4>3
    <3>2. CASE dedup[k].response.status = "complete"
      <4>1. dedup'[k] = dedup[k]
        BY <1>3, <1>4, <1>5, <2>1, <2>2, <3>2
      <4> QED BY <2>7, <4>1 DEF SettledIn
    <3> QED BY <2>1, <3>1, <3>2
  <2> QED BY <1>7, <1>8, <1>9, <1>10, <2>5, <2>8, <2>9 DEF AskedNow, ShownNow, SettledNow, k
<1> QED BY <1>6, <1>11, <1>12 DEF Duplicate, Conflict, vars

-----------------------------------------------------------------------------
(* What passes and calls know survives the growth of the stages. *)

LEMMA KnownGrows ==
  ASSUME NEW p, NEW asked, NEW started, NEW shown,
         NEW asked2, NEW started2, NEW shown2,
         KnownTo(p, asked, started, shown),
         asked \subseteq asked2, started \subseteq started2, shown \subseteq shown2
  PROVE  KnownTo(p, asked2, started2, shown2)
BY DEF KnownTo, ShowsIn

LEMMA CallsKept ==
  ASSUME NEW calls, NEW ps, NEW asked, NEW started,
         CallsInv(calls, ps, asked, started),
         NEW calls2, NEW ps2, NEW asked2, NEW started2,
         calls2 \subseteq calls,
         \A call \in calls2 : call.awaited => ps2[call.by] = ps[call.by],
         asked \subseteq asked2, started \subseteq started2
  PROVE  CallsInv(calls2, ps2, asked2, started2)
BY DEF CallsInv, AwaitedBy

\* A call moves on.
LEMMA CallMoved ==
  ASSUME NEW calls \in SUBSET LaunchCall, NEW ps, NEW asked, NEW started,
         CallsInv(calls, ps, asked, started),
         NEW call \in calls, NEW pc \in {"sent", "admitted", "registered"},
         NEW started2, started \subseteq started2,
         pc = "registered" => call.workflow \in started2,
         NEW new \in LaunchCall, new.pc = pc, new.by = call.by,
         new.workflow = call.workflow, new.awaited = call.awaited
  PROVE  LET calls2 == (calls \ {call}) \cup {new}
         IN CallsInv(calls2, ps, asked, started2) /\ calls2 \subseteq LaunchCall
<1> DEFINE calls2 == (calls \ {call}) \cup {new}
<1>1. calls2 \subseteq LaunchCall
  OBVIOUS
<1>2. \A d \in calls2 :
        /\ d.workflow \in asked
        /\ d.pc = "registered" => d.workflow \in started2
        /\ d.awaited => AwaitedBy(ps, d)
  BY DEF CallsInv, AwaitedBy
<1>3. \A d, e \in calls2 : d.awaited /\ e.awaited /\ d.by = e.by => d = e
  BY DEF CallsInv
<1> QED BY <1>1, <1>2, <1>3 DEF CallsInv

LEMMA MovedFields ==
  ASSUME NEW call \in LaunchCall, NEW pc \in {"sent", "admitted", "registered"}
  PROVE  LET new == [call EXCEPT !.pc = pc]
         IN /\ new \in LaunchCall
            /\ new.pc = pc
            /\ new.by = call.by
            /\ new.workflow = call.workflow
            /\ new.awaited = call.awaited
BY DEF LaunchCall

\* Nobody waits for the calls of the voters in S any more.
LEMMA CallsOrphaned ==
  ASSUME LaunchInv, NEW S \in SUBSET Voters, launches' = Orphaned(S),
         \A n \in Voters \ S : pass'[n] = pass[n],
         UNCHANGED <<vars, launched>>
  PROVE  launches' \subseteq LaunchCall /\ CallInv'
<1>1. launches \subseteq LaunchCall /\ CallsInv(launches, pass, AskedNow, launched)
  BY DEF LaunchInv, VoterInv, CallInv
<1>2. ASSUME NEW d \in launches'
      PROVE  /\ d \in LaunchCall
             /\ d.awaited => d \in launches /\ d.by \notin S
             /\ \E call \in launches : d.workflow = call.workflow /\ d.pc = call.pc
  <2>1. PICK call \in launches :
          d = IF call.by \in S THEN [call EXCEPT !.awaited = FALSE] ELSE call
    BY <1>2 DEF Orphaned
  <2>2. call \in LaunchCall
    BY <1>1
  <2>3. CASE call.by \in S
    BY <2>1, <2>2, <2>3 DEF LaunchCall
  <2>4. CASE call.by \notin S
    BY <2>1, <2>2, <2>4
  <2> QED BY <2>3, <2>4
<1>3. AskedNow' = AskedNow /\ launched' = launched
  BY DEF AskedNow, vars
<1>4. \A d \in launches' :
        /\ d.workflow \in AskedNow
        /\ d.pc = "registered" => d.workflow \in launched
  BY <1>1, <1>2 DEF CallsInv
<1>5. \A d \in launches' : d.awaited => AwaitedBy(pass', d)
  <2> SUFFICES ASSUME NEW d \in launches', d.awaited PROVE AwaitedBy(pass', d)
    OBVIOUS
  <2>1. d \in launches /\ d.by \in Voters \ S
    BY <1>2 DEF LaunchCall
  <2>2. AwaitedBy(pass, d) /\ pass'[d.by] = pass[d.by]
    BY <1>1, <2>1 DEF CallsInv
  <2> QED BY <2>2 DEF AwaitedBy
<1>6. \A d, e \in launches' : d.awaited /\ e.awaited /\ d.by = e.by => d = e
  BY <1>1, <1>2 DEF CallsInv
<1> QED BY <1>2, <1>3, <1>4, <1>5, <1>6 DEF CallInv, CallsInv

-----------------------------------------------------------------------------
(* Steps that leave the control state alone. *)

LEMMA ControlKept ==
  ASSUME LaunchInv, UNCHANGED vars
  PROVE  /\ ControlInv'
         /\ RevisionInv'
         /\ panes' = panes
         /\ AskedNow' = AskedNow
         /\ ShownNow' = ShownNow
         /\ SettledNow' = SettledNow
<1>1. panes' = panes /\ dedup' = dedup /\ revision' = revision
  BY DEF vars
<1>2. ControlInv'
  BY StutterStep DEF LaunchInv, ControlInv, RecordsStep, OutcomesStep
<1>3. RevisionInv'
  BY <1>1, <1>2, RevisionKept DEF LaunchInv, ControlInv
<1> QED BY <1>1, <1>2, <1>3 DEF AskedNow, ShownNow, SettledNow

LEMMA ChainKept ==
  ASSUME LaunchInv, UNCHANGED vars, launched \subseteq launched', launched' \subseteq AskedNow,
         \A k \in Workflows : registry'[Execution(k)] # Absent => k \in launched'
  PROVE  ChainInv'
BY ControlKept DEF LaunchInv, ChainInv

LEMMA PassKept ==
  ASSUME LaunchInv, UNCHANGED vars, launched \subseteq launched',
         \A n \in Voters : pass'[n] = pass[n] \/ pass'[n] = Absent
  PROVE  PassInv'
<1>1. ASSUME NEW n \in Voters, pass'[n] # Absent
      PROVE  KnownTo(pass'[n], AskedNow', launched', ShownNow')
  <2>1. pass'[n] = pass[n] /\ KnownTo(pass[n], AskedNow, launched, ShownNow)
    BY <1>1 DEF LaunchInv, PassInv
  <2>2. AskedNow' = AskedNow /\ ShownNow' = ShownNow
    BY ControlKept
  <2> QED BY <2>1, <2>2, KnownGrows
<1> QED BY <1>1 DEF PassInv

\* A voter goes on with its pass: nothing else changes.
LEMMA VoterStep ==
  ASSUME LaunchInv, NEW n \in Voters, NEW new \in Pass \cup {Absent},
         ~At(n, "launching"), pass' = [pass EXCEPT ![n] = new],
         new # Absent => KnownTo(new, AskedNow, launched, ShownNow),
         UNCHANGED <<vars, clusterVars, workerVars>>
  PROVE  LaunchInv'
<1>1. /\ UNCHANGED vars
      /\ UNCHANGED <<leader, term, up, faults>>
      /\ UNCHANGED <<registry, durable, fence, expired, launches, launched>>
  BY DEF clusterVars, workerVars
<1>2. /\ ControlInv' /\ RevisionInv'
      /\ AskedNow' = AskedNow /\ ShownNow' = ShownNow
  BY <1>1, ControlKept
<1>3. WorkerInv'
  BY <1>1 DEF LaunchInv, WorkerInv
<1>4. pass \in [Voters -> Pass \cup {Absent}]
  BY DEF LaunchInv, VoterInv
<1>5. pass' \in [Voters -> Pass \cup {Absent}] /\ pass'[n] = new
      /\ \A m \in Voters \ {n} : pass'[m] = pass[m]
  BY <1>4
<1>6. VoterInv'
  BY <1>1, <1>5 DEF LaunchInv, VoterInv
<1>7. ChainInv'
  BY <1>1, ChainKept DEF LaunchInv, ChainInv
<1>8. PassInv'
  BY <1>1, <1>2, <1>5 DEF LaunchInv, PassInv
<1>9. CallInv'
  <2>1. CallsInv(launches, pass, AskedNow, launched) /\ launches \subseteq LaunchCall
    BY DEF LaunchInv, CallInv, VoterInv
  <2>2. \A call \in launches : call.awaited => pass'[call.by] = pass[call.by]
    <3> SUFFICES ASSUME NEW call \in launches, call.awaited
                 PROVE  pass'[call.by] = pass[call.by]
      OBVIOUS
    <3>1. call.by \in Voters /\ call.by # n
      BY <2>1 DEF LaunchCall, CallsInv, AwaitedBy, At
    <3> QED BY <1>5, <3>1
  <2>3. CallsInv(launches, pass', AskedNow, launched)
    BY <2>1, <2>2, CallsKept
  <2> QED BY <1>1, <1>2, <2>3 DEF CallInv
<1> QED BY <1>2, <1>3, <1>6, <1>7, <1>8, <1>9 DEF LaunchInv

LEMMA FinishedKnown ==
  ASSUME LaunchInv, NEW n \in Voters, pass[n] # Absent
  PROVE  /\ Finished(n) \in Pass \cup {Absent}
         /\ Finished(n) # Absent => KnownTo(Finished(n), AskedNow, launched, ShownNow)
<1> DEFINE rest == pass[n].todo \ {Current(n)}
           new == [pass[n] EXCEPT !.todo = rest, !.pc = "query", !.found = Absent]
<1>1. /\ pass[n] \in Pass
      /\ pass[n].todo \in (SUBSET Workflows) \ {{}}
      /\ KnownTo(pass[n], AskedNow, launched, ShownNow)
  BY PassFacts
<1>2. CASE rest = {}
  BY <1>2 DEF Finished
<1>3. CASE rest # {}
  <2>1. Finished(n) = new
    BY <1>3 DEF Finished
  <2>2. rest \in (SUBSET Workflows) \ {{}} /\ rest \subseteq pass[n].todo
    BY <1>1, <1>3
  <2> HIDE DEF rest
  <2>3. new \in Pass
    BY <1>1, <2>2 DEF Pass
  <2>4. new.view = pass[n].view /\ new.todo = rest /\ new.pc = "query"
    BY <1>1 DEF Pass
  <2> HIDE DEF new
  <2>5. KnownTo(new, AskedNow, launched, ShownNow)
    BY <1>1, <2>2, <2>4 DEF KnownTo
  <2> QED BY <2>1, <2>3, <2>5
<1> QED BY <1>2, <1>3

LEMMA LearnedKnown ==
  ASSUME LaunchInv, NEW n \in Voters, pass[n] # Absent,
         AssignedIn(Current(n), pass[n].view), NEW x \in WorkerExecution,
         Current(n) \in launched
  PROVE  /\ Learned(n, x) \in Pass
         /\ Learned(n, x) # Absent
         /\ Learned(n, x).pc \in {"report", "complete"}
         /\ KnownTo(Learned(n, x), AskedNow, launched, ShownNow)
<1> DEFINE k == Current(n)
           next == IF pass[n].view[Pane(k)].availability = AvailabilityOf(x)
                   THEN "complete" ELSE "report"
           new == [pass[n] EXCEPT !.found = x, !.pc = next]
<1>1. /\ pass[n] \in Pass
      /\ k \in Workflows
      /\ KnownTo(pass[n], AskedNow, launched, ShownNow)
  BY PassFacts
<1>2. next \in {"report", "complete"}
  OBVIOUS
<1>3. next = "complete" => k \in ShownNow
  <2>1. next = "complete" => pass[n].view[Pane(k)].availability # "pending"
    BY AvailabilityReported
  <2> QED BY <1>1, <2>1 DEF KnownTo, ShowsIn
<1>4. Learned(n, x) = new
  BY DEF Learned
<1> HIDE DEF next
<1>5. /\ new \in Pass
      /\ new.view = pass[n].view /\ new.todo = pass[n].todo
      /\ new.found = x /\ new.pc = next
  BY <1>1, <1>2 DEF Pass
<1> HIDE DEF new
<1>6. x # Absent /\ new # Absent
  BY <1>5, LaunchAbsentAssumption
<1>7. KnownTo(new, AskedNow, launched, ShownNow)
  BY <1>1, <1>2, <1>3, <1>5, <1>6 DEF KnownTo, Current
<1> QED BY <1>2, <1>4, <1>5, <1>6, <1>7

-----------------------------------------------------------------------------
(* One lemma per action. *)

LEMMA InitLaunch == LaunchInit => LaunchInv
<1> SUFFICES ASSUME LaunchInit PROVE LaunchInv
  OBVIOUS
<1>1. PICK w \in WorkspaceIds, t \in TabIds, name \in Names :
        /\ workspaces = [x \in WorkspaceIds |->
                           IF x = w THEN [name |-> name, revision |-> StartRevision] ELSE Absent]
        /\ tabs = [x \in TabIds |->
                     IF x = t THEN [workspace |-> w, revision |-> 2] ELSE Absent]
        /\ panes = [p \in PaneIds |-> [workspace |-> w, tab |-> t, execution |-> Absent,
                                       availability |-> "pending", revision |-> Created[p]]]
  BY DEF LaunchInit
<1>2. /\ StartRevision \in Nat /\ 2 <= StartRevision
      /\ \A p \in PaneIds : Created[p] \in Nat /\ Created[p] <= StartRevision
      /\ MaxRevision \in Nat /\ StartRevision <= MaxRevision
  BY PlanAssumption, BoundsAssumption
<1>3. revision = StartRevision
  BY DEF LaunchInit
<1>4. /\ [name |-> name, revision |-> StartRevision] \in WorkspaceRecord
      /\ [workspace |-> w, revision |-> 2] \in TabRecord
      /\ \A p \in PaneIds : [workspace |-> w, tab |-> t, execution |-> Absent,
           availability |-> "pending", revision |-> Created[p]] \in PaneRecord
  BY <1>2, AvailabilityAssumption DEF WorkspaceRecord, TabRecord, PaneRecord
<1>5. RecordsTypeOK
  BY <1>1, <1>2, <1>3, <1>4 DEF RecordsTypeOK
<1>6. /\ HasWorkspace(w) /\ workspaces[w].revision = StartRevision
      /\ HasTab(t) /\ tabs[t].workspace = w /\ tabs[t].revision = 2
      /\ \A x \in WorkspaceIds : HasWorkspace(x) => x = w
      /\ \A x \in TabIds : HasTab(x) => x = t
      /\ \A p \in PaneIds : panes[p].tab = t /\ panes[p].workspace = w
  BY <1>1, <1>4, AbsentAssumption DEF HasWorkspace, HasTab
<1>7. RecordsInv
  BY <1>2, <1>3, <1>5, <1>6 DEF RecordsInv, ReferencesExist, WorkspaceCoversTabs
<1>8. dedup = [k \in Keys |-> Absent] /\ acked = [k \in Keys |-> Absent]
  BY DEF LaunchInit
<1>9. OutcomesInv
  BY <1>8 DEF OutcomesInv, AckedIsRecorded, PendingIsLaunch
<1>10. RevisionInv
  BY <1>1, <1>2, <1>3 DEF RevisionInv, HasPane
<1>11. WorkerInv
  BY DEF LaunchInit, WorkerInv
<1>12. VoterInv
  BY PlanAssumption DEF LaunchInit, VoterInv
<1>13. AskedNow = {} /\ SettledNow = {}
  BY <1>8, PlanAssumption DEF AskedNow, SettledNow, AskedIn, SettledIn
<1>14. ShownNow = {}
  BY <1>8, KeyFacts DEF ShownNow, ShownIn
<1>15. ChainInv
  <2>1. \A k \in Workflows : registry[Execution(k)] = Absent
    BY PlanFacts DEF LaunchInit
  <2>2. \A k \in Workflows : panes[Pane(k)].availability = "pending"
    BY <1>1, PlanFacts
  <2>3. launched = {}
    BY DEF LaunchInit
  <2> QED BY <1>13, <1>14, <2>1, <2>2, <2>3 DEF ChainInv, ShowsIn, PanesShow
<1>16. PassInv /\ CallInv
  BY DEF LaunchInit, PassInv, CallInv, CallsInv
<1> QED BY <1>7, <1>9, <1>10, <1>11, <1>12, <1>15, <1>16 DEF LaunchInv, ControlInv

LEMMA SubmitStep ==
  ASSUME LaunchInv, NEW k \in Workflows, Submit(k)
  PROVE  LaunchInv'
<1>1. /\ ControlInv' /\ RevisionInv'
      /\ k \notin AskedNow
      /\ AskedNow' = AskedNow \cup {k}
      /\ ShownNow' = ShownNow
      /\ SettledNow' = SettledNow
      /\ \A p \in PaneIds \ {Pane(k)} : panes'[p] = panes[p]
      /\ panes'[Pane(k)].execution = Plan[k].assignment
      /\ panes'[Pane(k)].availability = "pending"
  BY SubmitEffect
<1>2. /\ UNCHANGED pass
      /\ UNCHANGED <<leader, term, up, faults>>
      /\ UNCHANGED <<registry, durable, fence, expired, launches, launched>>
  BY DEF Submit, clusterVars, workerVars
<1>3. WorkerInv' /\ VoterInv'
  BY <1>2 DEF LaunchInv, WorkerInv, VoterInv
<1>4. ChainInv'
  <2>1. ASSUME NEW j \in Workflows, AssignedIn(j, panes'), j # k
        PROVE  AssignedIn(j, panes) /\ panes'[Pane(j)] = panes[Pane(j)]
    <3>1. Pane(j) # Pane(k)
      BY <1>1, <2>1, PlanAssumption DEF AssignedIn, Execution
    <3> QED BY <1>1, <2>1, <3>1, PlanFacts DEF AssignedIn
  <2>2. k \notin ShownNow /\ ShownNow \subseteq Workflows
    BY <1>1 DEF LaunchInv, ChainInv, ShownNow, ShownIn
  <2>3. ShowsIn(panes, ShownNow) /\ PanesShow(panes, ShownNow)
    BY DEF LaunchInv, ChainInv
  <2>4. ShowsIn(panes', ShownNow) /\ PanesShow(panes', ShownNow)
    BY <1>1, <2>1, <2>2, <2>3 DEF ShowsIn, PanesShow
  <2> QED BY <1>1, <1>2, <2>4 DEF LaunchInv, ChainInv
<1>5. PassInv'
  <2>1. \A n \in Voters : pass[n] # Absent =>
          KnownTo(pass[n], AskedNow', launched, ShownNow)
    BY <1>1, KnownGrows DEF LaunchInv, PassInv
  <2> QED BY <1>1, <1>2, <2>1 DEF PassInv
<1>6. CallInv'
  <2>1. CallsInv(launches, pass, AskedNow', launched)
    BY <1>1, CallsKept DEF LaunchInv, CallInv
  <2> QED BY <1>2, <2>1 DEF CallInv
<1> QED BY <1>1, <1>3, <1>4, <1>5, <1>6 DEF LaunchInv

LEMMA AbortStep ==
  ASSUME LaunchInv, NEW n \in Voters, ~At(n, "launching"), Abort(n),
         UNCHANGED <<vars, clusterVars, workerVars>>
  PROVE  LaunchInv'
BY VoterStep DEF Abort

LEMMA StartPassStep ==
  ASSUME LaunchInv, NEW n \in Voters, StartPass(n)
  PROVE  LaunchInv'
<1> DEFINE todo == {k \in Workflows : Pending(k)}
           new == [view |-> panes, term |-> term, todo |-> todo,
                   pc |-> "query", found |-> Absent]
<1>1. /\ pass[n] = Absent
      /\ todo # {}
      /\ pass' = [pass EXCEPT ![n] = new]
      /\ UNCHANGED <<vars, clusterVars, workerVars>>
  BY DEF StartPass
<1>2. panes \in [PaneIds -> PaneRecord \cup {Absent}] /\ term \in Terms
  BY PlanAssumption DEF LaunchInv, ControlInv, RecordsInv, RecordsTypeOK, VoterInv, Terms
<1>3. todo \in (SUBSET Workflows) \ {{}} /\ todo \subseteq AskedNow
  BY <1>1 DEF Pending, AskedNow, AskedIn
<1> HIDE DEF todo
<1>4. new \in Pass
  BY <1>2, <1>3 DEF Pass
<1>5. new.view = panes /\ new.todo = todo /\ new.pc = "query"
  OBVIOUS
<1> HIDE DEF new
<1>6. \A q \in PaneIds : panes[q] # Absent /\ panes[q].execution # Absent =>
        panes[q].revision \in AssignedRevisions
  <2> SUFFICES ASSUME NEW q \in PaneIds, HasPane(q), panes[q].execution # Absent
               PROVE  panes[q].revision \in AssignedRevisions
    BY DEF HasPane
  <2>1. panes[q].revision \in Nat
    BY <1>2 DEF HasPane, PaneRecord
  <2>2. panes[q].revision <= revision /\ panes[q].revision > StartRevision
    BY DEF LaunchInv, RevisionInv
  <2>3. revision <= MaxRevision /\ revision \in Nat /\ MaxRevision \in Nat /\ StartRevision \in Nat
    BY PlanAssumption, BoundsAssumption DEF LaunchInv, RevisionInv, ControlInv, RecordsInv, RecordsTypeOK
  <2> QED BY <2>1, <2>2, <2>3 DEF AssignedRevisions
<1>7. KnownTo(new, AskedNow, launched, ShownNow)
  BY <1>3, <1>5, <1>6 DEF KnownTo, LaunchInv, ChainInv
<1>8. ~At(n, "launching")
  BY <1>1 DEF At
<1> QED BY <1>1, <1>4, <1>7, <1>8, VoterStep

LEMMA SkipStep ==
  ASSUME LaunchInv, NEW n \in Voters, Skip(n)
  PROVE  LaunchInv'
<1>1. /\ pass[n] # Absent
      /\ ~At(n, "launching")
      /\ pass' = [pass EXCEPT ![n] = Finished(n)]
      /\ UNCHANGED <<vars, clusterVars, workerVars>>
  BY DEF Skip, At
<1> QED BY <1>1, FinishedKnown, VoterStep

LEMMA UnusableStep ==
  ASSUME LaunchInv, NEW n \in Voters, Unusable(n) \/ NotLeader(n)
  PROVE  LaunchInv'
<1>1. ~At(n, "launching")
  BY DEF Unusable, NotLeader, At
<1> QED BY <1>1, AbortStep DEF Unusable, NotLeader

LEMMA QueryFoundStep ==
  ASSUME LaunchInv, NEW n \in Voters, QueryFound(n)
  PROVE  LaunchInv'
<1> DEFINE k == Current(n)
<1>1. /\ pass[n] # Absent
      /\ ~At(n, "launching")
      /\ AssignedIn(k, pass[n].view)
      /\ registry[Execution(k)] # Absent
      /\ pass' = [pass EXCEPT ![n] = Learned(n, registry[Execution(k)])]
      /\ UNCHANGED <<vars, clusterVars, workerVars>>
  BY DEF QueryFound, CanQuery, At
<1>2. k \in Workflows /\ Execution(k) \in ExecutionIds
  BY <1>1, PassFacts, PlanFacts
<1>3. registry[Execution(k)] \in WorkerExecution /\ k \in launched
  BY <1>1, <1>2 DEF LaunchInv, WorkerInv, ChainInv
<1>4. /\ Learned(n, registry[Execution(k)]) \in Pass
      /\ KnownTo(Learned(n, registry[Execution(k)]), AskedNow, launched, ShownNow)
  BY <1>1, <1>3, LearnedKnown
<1> HIDE DEF k
<1> QED BY <1>1, <1>4, VoterStep

LEMMA QueryMissingStep ==
  ASSUME LaunchInv, NEW n \in Voters, NEW t \in Terms, QueryMissing(n, t)
  PROVE  LaunchInv'
<1> DEFINE k == Current(n)
           mid == [pass[n] EXCEPT !.pc = "launching"]
           new == [mid EXCEPT !.term = t]
           call == [by |-> n, term |-> t, workflow |-> k, awaited |-> TRUE, pc |-> "sent"]
<1>1. /\ pass[n] # Absent
      /\ pass[n].pc = "query"
      /\ AssignedIn(k, pass[n].view)
      /\ pass' = [pass EXCEPT ![n].pc = "launching", ![n].term = t]
      /\ launches' = launches \cup {call}
      /\ UNCHANGED vars
      /\ UNCHANGED <<leader, term, up, faults>>
      /\ UNCHANGED <<registry, durable, fence, expired, launched>>
  BY DEF QueryMissing, CanQuery, At, clusterVars
<1>2. /\ pass[n] \in Pass
      /\ k \in Workflows
      /\ k \in AskedNow
      /\ KnownTo(pass[n], AskedNow, launched, ShownNow)
  BY <1>1, PassFacts
<1>3. pass \in [Voters -> Pass \cup {Absent}] /\ launches \subseteq LaunchCall
  BY DEF LaunchInv, VoterInv
<1>4. /\ ControlInv' /\ RevisionInv'
      /\ AskedNow' = AskedNow /\ ShownNow' = ShownNow
  BY <1>1, ControlKept
<1>5. pass' = [pass EXCEPT ![n] = new]
  BY <1>1, <1>3
<1>6. /\ mid \in Pass /\ mid.view = pass[n].view /\ mid.todo = pass[n].todo
      /\ mid.pc = "launching"
  BY <1>2 DEF Pass
<1> HIDE DEF mid
<1>7. /\ new \in Pass /\ new.view = mid.view /\ new.todo = mid.todo
      /\ new.pc = mid.pc
  BY <1>6 DEF Pass
<1> HIDE DEF new
<1>8. new # Absent
  BY <1>7, LaunchAbsentAssumption
<1>9. /\ pass' \in [Voters -> Pass \cup {Absent}]
      /\ pass'[n] = new
      /\ \A m \in Voters \ {n} : pass'[m] = pass[m]
  BY <1>3, <1>5, <1>7
<1>10. /\ call \in LaunchCall
       /\ call.by = n /\ call.workflow = k /\ call.pc = "sent"
  BY <1>2 DEF LaunchCall
<1>11. WorkerInv'
  BY <1>1 DEF LaunchInv, WorkerInv
<1>12. VoterInv'
  BY <1>1, <1>3, <1>9, <1>10 DEF LaunchInv, VoterInv
<1>13. ChainInv'
  BY <1>1, ChainKept DEF LaunchInv, ChainInv
<1>14. KnownTo(new, AskedNow, launched, ShownNow)
  BY <1>1, <1>2, <1>6, <1>7 DEF KnownTo, Current
<1>15. PassInv'
  BY <1>1, <1>4, <1>9, <1>14 DEF LaunchInv, PassInv
<1>16. AwaitedBy(pass', call)
  BY <1>6, <1>7, <1>8, <1>9, <1>10 DEF AwaitedBy, Current
<1>17. ASSUME NEW d \in launches, d.awaited
       PROVE  d.by \in Voters \ {n} /\ AwaitedBy(pass', d)
  <2>1. AwaitedBy(pass, d) /\ d.by \in Voters
    BY <1>3, <1>17 DEF LaunchInv, CallInv, CallsInv, LaunchCall
  <2>2. d.by # n
    BY <1>1, <2>1 DEF AwaitedBy
  <2> QED BY <1>9, <2>1, <2>2 DEF AwaitedBy
<1> HIDE DEF call
<1>18. CallInv'
  <2>1. CallsInv(launches, pass, AskedNow, launched)
    BY DEF LaunchInv, CallInv
  <2>2. \A d \in launches' :
          /\ d.workflow \in AskedNow
          /\ d.pc = "registered" => d.workflow \in launched
          /\ d.awaited => AwaitedBy(pass', d)
    BY <1>1, <1>2, <1>10, <1>16, <1>17, <2>1 DEF CallsInv
  <2>3. \A c, d \in launches' : c.awaited /\ d.awaited /\ c.by = d.by => c = d
    BY <1>1, <1>10, <1>17, <2>1 DEF CallsInv
  <2> QED BY <1>1, <1>4, <2>2, <2>3 DEF CallInv, CallsInv
<1> QED BY <1>4, <1>11, <1>12, <1>13, <1>15, <1>18 DEF LaunchInv

\* A voter's command is applied and the voter goes on or gives up.
LEMMA CommandStep ==
  ASSUME LaunchInv, NEW n \in Voters, NEW new \in Pass \cup {Absent},
         ~At(n, "launching"), pass' = [pass EXCEPT ![n] = new],
         ControlInv', RevisionInv', AskedNow' = AskedNow,
         ShownNow \subseteq ShownNow', ShownNow' \subseteq launched,
         SettledNow' \subseteq ShownNow',
         ShowsIn(panes', ShownNow'), PanesShow(panes', ShownNow'),
         new # Absent => KnownTo(new, AskedNow', launched, ShownNow'),
         UNCHANGED <<leader, term, up, workerVars>>,
         faults' = faults \/ (faults < MaxFaults /\ faults' = faults + 1)
  PROVE  LaunchInv'
<1>1. /\ UNCHANGED <<leader, term, up>>
      /\ UNCHANGED <<registry, durable, fence, expired, launches, launched>>
  BY DEF workerVars
<1>2. WorkerInv'
  BY <1>1 DEF LaunchInv, WorkerInv
<1>3. pass \in [Voters -> Pass \cup {Absent}] /\ launches \subseteq LaunchCall
  BY DEF LaunchInv, VoterInv
<1>4. pass' \in [Voters -> Pass \cup {Absent}] /\ pass'[n] = new
      /\ \A m \in Voters \ {n} : pass'[m] = pass[m]
  BY <1>3
<1>5. VoterInv'
  <2>1. faults' \in 0 .. MaxFaults /\ term' \in 1 .. (faults' + 1)
    BY <1>1, PlanAssumption DEF LaunchInv, VoterInv
  <2> QED BY <1>1, <1>4, <2>1 DEF LaunchInv, VoterInv
<1>6. ChainInv'
  BY <1>1 DEF LaunchInv, ChainInv
<1>7. PassInv'
  <2>1. \A m \in Voters : pass[m] # Absent =>
          KnownTo(pass[m], AskedNow', launched, ShownNow')
    BY KnownGrows DEF LaunchInv, PassInv
  <2> QED BY <1>1, <1>4, <2>1 DEF PassInv
<1>8. CallInv'
  <2>1. CallsInv(launches, pass, AskedNow, launched)
    BY DEF LaunchInv, CallInv
  <2>2. \A call \in launches : call.awaited => pass'[call.by] = pass[call.by]
    <3> SUFFICES ASSUME NEW call \in launches, call.awaited
                 PROVE  pass'[call.by] = pass[call.by]
      OBVIOUS
    <3>1. call.by \in Voters /\ call.by # n
      BY <1>3, <2>1 DEF LaunchCall, CallsInv, AwaitedBy, At
    <3> QED BY <1>4, <3>1
  <2>3. CallsInv(launches, pass', AskedNow, launched)
    BY <2>1, <2>2, CallsKept
  <2> QED BY <1>1, <2>3 DEF CallInv
<1> QED BY <1>2, <1>5, <1>6, <1>7, <1>8 DEF LaunchInv

\* What CommandStep asks of the stages, for a report and for a completion.
LEMMA ReportStages ==
  ASSUME LaunchInv, NEW n \in Voters, At(n, "report"), ApplyReport(n)
  PROVE  /\ ControlInv' /\ RevisionInv' /\ AskedNow' = AskedNow
         /\ ShownNow \subseteq ShownNow' /\ ShownNow' \subseteq launched
         /\ SettledNow' \subseteq ShownNow'
         /\ ShowsIn(panes', ShownNow') /\ PanesShow(panes', ShownNow')
<1>1. Current(n) \in launched
  BY PassFacts DEF At, KnownTo, Current
<1> QED BY <1>1, ReportEffect DEF LaunchInv, ChainInv

LEMMA CompleteStages ==
  ASSUME LaunchInv, NEW n \in Voters, At(n, "complete"), ApplyComplete(n)
  PROVE  /\ ControlInv' /\ RevisionInv' /\ AskedNow' = AskedNow
         /\ ShownNow \subseteq ShownNow' /\ ShownNow' \subseteq launched
         /\ SettledNow' \subseteq ShownNow'
         /\ ShowsIn(panes', ShownNow') /\ PanesShow(panes', ShownNow')
<1>1. Current(n) \in ShownNow
  BY PassFacts DEF At, KnownTo, Current
<1> QED BY <1>1, CompleteEffect DEF LaunchInv, ChainInv

LEMMA ReportStep ==
  ASSUME LaunchInv, NEW n \in Voters, Report(n)
  PROVE  LaunchInv'
<1> DEFINE old == pass[n]
           next == [old EXCEPT !.pc = "complete"]
           new == IF ReportAccepted(n) THEN next ELSE Absent
<1>1. /\ At(n, "report") /\ pass[n] # Absent /\ pass[n].pc = "report"
      /\ ~At(n, "launching")
      /\ ApplyReport(n)
      /\ UNCHANGED <<leader, term, up, workerVars>>
      /\ faults' = faults
  BY DEF Report, At, clusterVars
<1>2. pass' = [pass EXCEPT ![n] = new]
  BY DEF Report, LaunchInv, VoterInv
<1>3. /\ old \in Pass
      /\ KnownTo(old, AskedNow, launched, ShownNow)
  BY <1>1, PassFacts
<1>4. /\ next \in Pass
      /\ next.view = old.view /\ next.todo = old.todo /\ next.found = old.found
      /\ next.pc = "complete"
  BY <1>3 DEF Pass
<1>5. ReportAccepted(n) => Current(n) \in ShownNow'
  BY <1>1, ReportEffect
<1> HIDE DEF next
<1>6. KnownTo(old, AskedNow', launched, ShownNow')
  BY <1>1, <1>3, ReportStages, KnownGrows
<1>7. ReportAccepted(n) => KnownTo(next, AskedNow', launched, ShownNow')
  BY <1>1, <1>4, <1>5, <1>6 DEF KnownTo, Current
<1>8. new \in Pass \cup {Absent}
      /\ (new # Absent => KnownTo(new, AskedNow', launched, ShownNow'))
  BY <1>4, <1>7
<1> HIDE DEF new
<1> QED BY <1>1, <1>2, <1>8, ReportStages, CommandStep

LEMMA CompleteStep ==
  ASSUME LaunchInv, NEW n \in Voters, Complete(n)
  PROVE  LaunchInv'
<1> DEFINE new == IF CompleteConflicts(n) THEN Absent ELSE Finished(n)
<1>1. /\ At(n, "complete") /\ pass[n] # Absent
      /\ ~At(n, "launching")
      /\ ApplyComplete(n)
      /\ UNCHANGED <<leader, term, up, workerVars>>
      /\ faults' = faults
      /\ pass' = [pass EXCEPT ![n] = new]
  BY DEF Complete, At, clusterVars
<1>2. /\ new \in Pass \cup {Absent}
      /\ new # Absent => KnownTo(new, AskedNow, launched, ShownNow)
  BY <1>1, FinishedKnown
<1> HIDE DEF new
<1>3. new # Absent => KnownTo(new, AskedNow', launched, ShownNow')
  BY <1>1, <1>2, CompleteStages, KnownGrows
<1> QED BY <1>1, <1>2, <1>3, CompleteStages, CommandStep

LEMMA CommitUnansweredStep ==
  ASSUME LaunchInv, NEW n \in Voters, CommitUnanswered(n)
  PROVE  LaunchInv'
<1>1. /\ ~At(n, "launching")
      /\ pass' = [pass EXCEPT ![n] = Absent]
      /\ UNCHANGED <<leader, term, up, workerVars>>
      /\ faults < MaxFaults /\ faults' = faults + 1
  BY DEF CommitUnanswered, At, Abort
<1>2. \/ At(n, "report") /\ ApplyReport(n)
      \/ At(n, "complete") /\ ApplyComplete(n)
  BY DEF CommitUnanswered
<1>3. CASE At(n, "report") /\ ApplyReport(n)
  BY <1>1, <1>3, ReportStages, CommandStep
<1>4. CASE At(n, "complete") /\ ApplyComplete(n)
  BY <1>1, <1>4, CompleteStages, CommandStep
<1> QED BY <1>2, <1>3, <1>4

-----------------------------------------------------------------------------
(* The workers' steps. *)

LEMMA CallFacts ==
  ASSUME LaunchInv, NEW call \in launches
  PROVE  /\ call \in LaunchCall
         /\ call.by \in Voters /\ call.term \in Terms /\ call.workflow \in Workflows
         /\ call.workflow \in AskedNow
         /\ call.pc = "registered" => call.workflow \in launched
         /\ Launching(call) \in ExecutionIds
         /\ Launched(call) \in WorkerExecution /\ Launched(call) # Absent
<1>1. call \in LaunchCall
  BY DEF LaunchInv, VoterInv
<1>2. call.by \in Voters /\ call.term \in Terms /\ call.workflow \in Workflows
  BY <1>1 DEF LaunchCall
<1>3. call.workflow \in AskedNow /\ (call.pc = "registered" => call.workflow \in launched)
  BY DEF LaunchInv, CallInv, CallsInv
<1>4. Launching(call) \in ExecutionIds
  BY <1>2, PlanFacts DEF Launching
<1>5. Launched(call) \in WorkerExecution
  BY <1>2 DEF Launched, WorkerExecution, WorkerStates
<1> QED BY <1>1, <1>2, <1>3, <1>4, <1>5, LaunchAbsentAssumption

\* A call ends and its voter, if it still waits, goes on.
LEMMA AnswerStep ==
  ASSUME LaunchInv, NEW call \in launches, NEW x \in WorkerExecution \cup {Absent},
         x # Absent => call.workflow \in launched,
         Answered(call, x), End(call), UNCHANGED <<vars, launched>>
  PROVE  /\ pass' \in [Voters -> Pass \cup {Absent}]
         /\ launches' \subseteq LaunchCall
         /\ PassInv'
         /\ CallInv'
<1> DEFINE n == call.by
           new == IF x = Absent THEN Absent ELSE Learned(n, x)
<1>1. UNCHANGED vars /\ launched' = launched
  OBVIOUS
<1>2. /\ launches \subseteq LaunchCall
      /\ pass \in [Voters -> Pass \cup {Absent}]
      /\ CallsInv(launches, pass, AskedNow, launched)
      /\ n \in Voters
  BY CallFacts DEF LaunchInv, VoterInv, CallInv
<1>3. AskedNow' = AskedNow /\ ShownNow' = ShownNow
  BY <1>1, ControlKept
<1>4. launches' = launches \ {call} /\ launches' \subseteq LaunchCall
  BY <1>2 DEF End
<1>5. CASE ~call.awaited
  <2>1. pass' = pass
    BY <1>5 DEF Answered
  <2>2. PassInv'
    BY <1>1, <2>1, PassKept
  <2>3. CallsInv(launches', pass', AskedNow, launched)
    BY <1>2, <1>4, <2>1, CallsKept
  <2> QED BY <1>1, <1>2, <1>3, <1>4, <2>1, <2>2, <2>3 DEF CallInv
<1>6. CASE call.awaited
  <2>1. pass' = [pass EXCEPT ![n] = new]
    BY <1>6 DEF Answered
  <2>2. AwaitedBy(pass, call)
    BY <1>2, <1>6 DEF CallsInv
  <2>3. /\ pass[n] # Absent /\ pass[n].pc = "launching"
        /\ Current(n) = call.workflow
    BY <2>2 DEF AwaitedBy, Current
  <2>4. AssignedIn(Current(n), pass[n].view)
    BY <1>2, <2>3, PassFacts DEF KnownTo, Current
  <2>5. /\ new \in Pass \cup {Absent}
        /\ new # Absent => KnownTo(new, AskedNow, launched, ShownNow)
    BY <1>2, <2>3, <2>4, LearnedKnown
  <2> HIDE DEF new
  <2>6. /\ pass' \in [Voters -> Pass \cup {Absent}]
        /\ pass'[n] = new
        /\ \A m \in Voters \ {n} : pass'[m] = pass[m]
    BY <1>2, <2>1, <2>5
  <2>7. PassInv'
    BY <1>1, <1>3, <2>5, <2>6 DEF LaunchInv, PassInv
  <2>8. \A d \in launches' : d.awaited => pass'[d.by] = pass[d.by]
    <3> SUFFICES ASSUME NEW d \in launches', d.awaited
                 PROVE  pass'[d.by] = pass[d.by]
      OBVIOUS
    <3>1. d \in launches /\ d # call /\ d.by \in Voters
      BY <1>2, <1>4 DEF LaunchCall
    <3>2. d.by # n
      BY <1>2, <1>6, <3>1 DEF CallsInv
    <3> QED BY <2>6, <3>1, <3>2
  <2>9. CallsInv(launches', pass', AskedNow, launched)
    BY <1>2, <1>4, <2>8, CallsKept
  <2> QED BY <1>1, <1>3, <1>4, <2>6, <2>7, <2>9 DEF CallInv
<1> QED BY <1>5, <1>6

LEMMA AdmitStep ==
  ASSUME LaunchInv, NEW call \in launches, Admit(call)
  PROVE  LaunchInv'
<1> DEFINE e == Launching(call)
           new == [call EXCEPT !.pc = "admitted"]
           calls2 == (launches \ {call}) \cup {new}
<1>1. /\ UNCHANGED vars
      /\ UNCHANGED <<pass, leader, term, up, faults, registry, durable, launched>>
      /\ fence' = [fence EXCEPT ![e] = call.term]
      /\ expired' \subseteq expired
      /\ launches' = calls2
  BY DEF Admit, Moved, clusterVars
<1>2. call \in LaunchCall /\ call.term \in Terms /\ e \in ExecutionIds
  BY CallFacts
<1>3. /\ launches \subseteq LaunchCall
      /\ CallsInv(launches, pass, AskedNow, launched)
  BY DEF LaunchInv, VoterInv, CallInv
<1>4. CallsInv(calls2, pass, AskedNow, launched) /\ calls2 \subseteq LaunchCall
  <2>1. /\ new \in LaunchCall
        /\ new.pc = "admitted"
        /\ new.by = call.by
        /\ new.workflow = call.workflow
        /\ new.awaited = call.awaited
    BY <1>3, MovedFields
  <2> HIDE DEF new
  <2> QED BY <1>3, <2>1, CallMoved
<1> HIDE DEF calls2, e
<1>5. ControlInv' /\ RevisionInv' /\ AskedNow' = AskedNow
  BY <1>1, ControlKept
<1>6. WorkerInv'
  BY <1>1, <1>2 DEF LaunchInv, WorkerInv
<1>7. VoterInv'
  BY <1>1, <1>4 DEF LaunchInv, VoterInv
<1>8. ChainInv'
  BY <1>1, ChainKept DEF LaunchInv, ChainInv
<1>9. PassInv'
  BY <1>1, PassKept
<1>10. CallInv'
  BY <1>1, <1>4, <1>5 DEF CallInv
<1> QED BY <1>5, <1>6, <1>7, <1>8, <1>9, <1>10 DEF LaunchInv

\* An answer, whatever it does to the stored inventory and the fault budget.
LEMMA AnsweredStep ==
  ASSUME LaunchInv, NEW call \in launches, NEW x \in WorkerExecution \cup {Absent},
         x # Absent => call.workflow \in launched,
         Answered(call, x), End(call),
         UNCHANGED <<vars, leader, term, up, registry, fence, expired, launched>>,
         durable' \subseteq ExecutionIds, \A e \in durable' : registry[e] # Absent,
         faults' = faults \/ (faults < MaxFaults /\ faults' = faults + 1)
  PROVE  LaunchInv'
<1>1. UNCHANGED vars /\ UNCHANGED <<leader, term, up, registry, fence, expired, launched>>
  OBVIOUS
<1>2. /\ pass' \in [Voters -> Pass \cup {Absent}]
      /\ launches' \subseteq LaunchCall
      /\ PassInv'
      /\ CallInv'
  BY <1>1, AnswerStep
<1>3. ControlInv' /\ RevisionInv'
  BY <1>1, ControlKept
<1>4. WorkerInv'
  BY <1>1 DEF LaunchInv, WorkerInv
<1>5. faults' \in 0 .. MaxFaults /\ term' \in 1 .. (faults' + 1)
  BY <1>1, PlanAssumption DEF LaunchInv, VoterInv
<1>6. VoterInv'
  BY <1>1, <1>2, <1>5 DEF LaunchInv, VoterInv
<1>7. ChainInv'
  BY <1>1, ChainKept DEF LaunchInv, ChainInv
<1> QED BY <1>2, <1>3, <1>4, <1>6, <1>7 DEF LaunchInv

LEMMA DurableRegistered ==
  ASSUME LaunchInv
  PROVE  durable \subseteq ExecutionIds /\ \A e \in durable : registry[e] # Absent
BY DEF LaunchInv, WorkerInv

LEMMA RefuseStep ==
  ASSUME LaunchInv, NEW call \in launches, Refuse(call) \/ LaunchFails(call)
  PROVE  LaunchInv'
<1>1. /\ Answered(call, Absent) /\ End(call)
      /\ UNCHANGED <<vars, leader, term, up, registry, durable, fence, expired, launched>>
      /\ faults' = faults \/ (faults < MaxFaults /\ faults' = faults + 1)
  BY DEF Refuse, LaunchFails, clusterVars
<1> QED BY <1>1, AnsweredStep, DurableRegistered

LEMMA StoreStep ==
  ASSUME LaunchInv, NEW call \in launches, Store(call)
  PROVE  LaunchInv'
<1>1. /\ call.pc = "registered"
      /\ Answered(call, Launched(call)) /\ End(call)
      /\ UNCHANGED <<vars, leader, term, up, registry, fence, expired, launched>>
      /\ faults' = faults
      /\ durable' = durable \cup
           {e \in ExecutionsOf(Worker(call.workflow)) : registry[e] # Absent}
  BY DEF Store, clusterVars
<1>2. Launched(call) \in WorkerExecution /\ call.workflow \in launched
  BY <1>1, CallFacts
<1>3. \A w : ExecutionsOf(w) \subseteq ExecutionIds
  BY PlanFacts DEF ExecutionsOf
<1>4. durable' \subseteq ExecutionIds /\ \A e \in durable' : registry[e] # Absent
  BY <1>1, <1>3, DurableRegistered
<1> QED BY <1>1, <1>2, <1>4, AnsweredStep

\* A call that has, or has found, its execution registered.
LEMMA RegisteredStep ==
  ASSUME LaunchInv, NEW call \in launches, Moved(call, "registered"),
         UNCHANGED <<vars, pass, clusterVars, durable, fence, expired>>,
         launched \subseteq launched', launched' \subseteq launched \cup {call.workflow},
         call.workflow \in launched',
         registry' \in [ExecutionIds -> WorkerExecution \cup {Absent}],
         \A e \in ExecutionIds : registry[e] # Absent => registry'[e] # Absent,
         \A k \in Workflows : registry'[Execution(k)] # Absent => k \in launched'
  PROVE  LaunchInv'
<1> DEFINE new == [call EXCEPT !.pc = "registered"]
           calls2 == (launches \ {call}) \cup {new}
<1>1. /\ UNCHANGED vars
      /\ UNCHANGED <<pass, leader, term, up, faults, durable, fence, expired>>
      /\ launches' = calls2
  BY DEF Moved, clusterVars
<1>2. call.workflow \in Workflows /\ call.workflow \in AskedNow
  BY CallFacts
<1>3. /\ launches \subseteq LaunchCall
      /\ CallsInv(launches, pass, AskedNow, launched)
  BY DEF LaunchInv, VoterInv, CallInv
<1>4. CallsInv(calls2, pass, AskedNow, launched') /\ calls2 \subseteq LaunchCall
  <2>1. /\ new \in LaunchCall
        /\ new.pc = "registered"
        /\ new.by = call.by
        /\ new.workflow = call.workflow
        /\ new.awaited = call.awaited
    BY <1>3, MovedFields
  <2> HIDE DEF new
  <2> QED BY <1>3, <2>1, CallMoved
<1> HIDE DEF calls2
<1>5. ControlInv' /\ RevisionInv' /\ AskedNow' = AskedNow
  BY <1>1, ControlKept
<1>6. WorkerInv'
  BY <1>1, <1>2 DEF LaunchInv, WorkerInv
<1>7. VoterInv'
  BY <1>1, <1>4 DEF LaunchInv, VoterInv
<1>8. launched' \subseteq AskedNow
  BY <1>2 DEF LaunchInv, ChainInv
<1>9. ChainInv'
  BY <1>1, <1>8, ChainKept
<1>10. PassInv'
  BY <1>1, PassKept
<1>11. CallInv'
  BY <1>1, <1>4, <1>5 DEF CallInv
<1> QED BY <1>5, <1>6, <1>7, <1>9, <1>10, <1>11 DEF LaunchInv

LEMMA FindRegisteredStep ==
  ASSUME LaunchInv, NEW call \in launches, FindRegistered(call)
  PROVE  LaunchInv'
<1>1. registry[Launching(call)] # Absent
      /\ UNCHANGED <<vars, clusterVars, registry, durable, fence, expired, launched>>
  BY DEF FindRegistered
<1>2. CASE Moved(call, "registered") /\ UNCHANGED pass
  <2>1. call.workflow \in launched
    BY <1>1, CallFacts DEF LaunchInv, ChainInv, Launching
  <2>2. /\ registry \in [ExecutionIds -> WorkerExecution \cup {Absent}]
        /\ \A k \in Workflows : registry[Execution(k)] # Absent => k \in launched
    BY DEF LaunchInv, WorkerInv, ChainInv
  <2> QED BY <1>1, <1>2, <2>1, <2>2, RegisteredStep
<1>3. CASE Answered(call, Absent) /\ End(call)
  <2>1. /\ UNCHANGED <<vars, leader, term, up, registry, durable, fence, expired, launched>>
        /\ faults' = faults
    BY <1>1 DEF clusterVars
  <2> QED BY <1>3, <2>1, AnsweredStep, DurableRegistered
<1> QED BY <1>2, <1>3 DEF FindRegistered

LEMMA RegisterStep ==
  ASSUME LaunchInv, NEW call \in launches, Register(call)
  PROVE  LaunchInv'
<1> DEFINE e == Launching(call)
<1>1. /\ Moved(call, "registered")
      /\ UNCHANGED <<vars, pass, clusterVars, durable, fence, expired>>
      /\ registry[e] = Absent
      /\ registry' = [registry EXCEPT ![e] = Launched(call)]
      /\ launched' = launched \cup {call.workflow}
  BY DEF Register
<1>2. /\ e \in ExecutionIds /\ Launched(call) \in WorkerExecution
      /\ call.workflow \in Workflows /\ Launched(call) # Absent
  BY CallFacts
<1>3. registry \in [ExecutionIds -> WorkerExecution \cup {Absent}]
  BY DEF LaunchInv, WorkerInv
<1>4. /\ registry' \in [ExecutionIds -> WorkerExecution \cup {Absent}]
      /\ \A x \in ExecutionIds : registry[x] # Absent => registry'[x] # Absent
      /\ \A x \in ExecutionIds \ {e} : registry'[x] = registry[x]
  BY <1>1, <1>2, <1>3
<1>5. ASSUME NEW k \in Workflows, registry'[Execution(k)] # Absent
      PROVE  k \in launched'
  <2>1. CASE Execution(k) = e
    BY <1>1, <1>2, <2>1, PlanAssumption DEF Launching
  <2>2. CASE Execution(k) # e
    <3>1. registry[Execution(k)] # Absent
      BY <1>4, <1>5, <2>2, PlanFacts
    <3> QED BY <1>1, <3>1 DEF LaunchInv, ChainInv
  <2> QED BY <2>1, <2>2
<1> QED BY <1>1, <1>4, <1>5, RegisteredStep

-----------------------------------------------------------------------------
(* Failures, recoveries and clients. *)

LEMMA ElectStep ==
  ASSUME LaunchInv, NEW n \in Voters, Elect(n)
  PROVE  LaunchInv'
<1>1. /\ UNCHANGED vars
      /\ UNCHANGED <<pass, up, registry, durable, fence, expired, launches, launched>>
      /\ leader' \in Voters
      /\ faults < MaxFaults /\ faults' = faults + 1 /\ term' = term + 1
  BY DEF Elect, workerVars
<1>2. ControlInv' /\ RevisionInv' /\ AskedNow' = AskedNow
  BY <1>1, ControlKept
<1>3. WorkerInv'
  BY <1>1 DEF LaunchInv, WorkerInv
<1>4. VoterInv'
  <2>1. faults' \in 0 .. MaxFaults /\ term' \in 1 .. (faults' + 1)
    BY <1>1, PlanAssumption DEF LaunchInv, VoterInv
  <2> QED BY <1>1, <2>1 DEF LaunchInv, VoterInv
<1>5. ChainInv'
  BY <1>1, ChainKept DEF LaunchInv, ChainInv
<1>6. PassInv'
  BY <1>1, PassKept
<1>7. CallInv'
  BY <1>1, <1>2 DEF LaunchInv, CallInv
<1> QED BY <1>2, <1>3, <1>4, <1>5, <1>6, <1>7 DEF LaunchInv

\* Passes end and nobody waits for their calls.
LEMMA OrphanStep ==
  ASSUME LaunchInv, NEW S \in SUBSET Voters, launches' = Orphaned(S),
         pass' = [n \in Voters |-> IF n \in S THEN Absent ELSE pass[n]],
         UNCHANGED <<vars, leader, term, registry, durable, fence, expired, launched>>,
         up' \subseteq Nodes, faults < MaxFaults, faults' = faults + 1
  PROVE  LaunchInv'
<1>1. /\ UNCHANGED vars
      /\ UNCHANGED <<leader, term, registry, durable, fence, expired, launched>>
  OBVIOUS
<1>2. pass \in [Voters -> Pass \cup {Absent}]
  BY DEF LaunchInv, VoterInv
<1>3. /\ pass' \in [Voters -> Pass \cup {Absent}]
      /\ \A n \in Voters : pass'[n] = pass[n] \/ pass'[n] = Absent
      /\ \A n \in Voters \ S : pass'[n] = pass[n]
  BY <1>2
<1>4. launches' \subseteq LaunchCall /\ CallInv'
  BY <1>1, <1>3, CallsOrphaned
<1>5. ControlInv' /\ RevisionInv'
  BY <1>1, ControlKept
<1>6. WorkerInv'
  BY <1>1 DEF LaunchInv, WorkerInv
<1>7. VoterInv'
  <2>1. faults' \in 0 .. MaxFaults /\ term' \in 1 .. (faults' + 1)
    BY <1>1, PlanAssumption DEF LaunchInv, VoterInv
  <2> QED BY <1>1, <1>3, <1>4, <2>1 DEF LaunchInv, VoterInv
<1>8. ChainInv'
  BY <1>1, ChainKept DEF LaunchInv, ChainInv
<1>9. PassInv'
  BY <1>1, <1>3, PassKept
<1> QED BY <1>4, <1>5, <1>6, <1>7, <1>8, <1>9 DEF LaunchInv

LEMMA PassFailsStep ==
  ASSUME LaunchInv, NEW n \in Voters, PassFails(n)
  PROVE  LaunchInv'
<1>1. pass' = [m \in Voters |-> IF m \in {n} THEN Absent ELSE pass[m]]
  BY DEF PassFails, Abort, LaunchInv, VoterInv
<1>2. /\ launches' = Orphaned({n})
      /\ UNCHANGED <<vars, leader, term, registry, durable, fence, expired, launched>>
      /\ up' \subseteq Nodes
      /\ faults < MaxFaults /\ faults' = faults + 1
  BY DEF PassFails, LaunchInv, WorkerInv
<1>3. {n} \in SUBSET Voters
  OBVIOUS
<1> QED BY <1>1, <1>2, <1>3, OrphanStep

LEMMA GoesDownStep ==
  ASSUME LaunchInv, NEW w \in Nodes, GoesDown(w)
  PROVE  LaunchInv'
<1> DEFINE cut == {n \in Voters : \E call \in launches :
                     call.awaited /\ call.by = n /\ Worker(call.workflow) = w}
<1>1. /\ pass' = [n \in Voters |-> IF n \in cut THEN Absent ELSE pass[n]]
      /\ launches' = Orphaned(cut)
      /\ UNCHANGED <<vars, leader, term, registry, durable, fence, expired, launched>>
      /\ up' \subseteq Nodes
      /\ faults < MaxFaults /\ faults' = faults + 1
  BY DEF GoesDown, LaunchInv, WorkerInv
<1>2. cut \in SUBSET Voters
  OBVIOUS
<1> HIDE DEF cut
<1> QED BY <1>1, <1>2, OrphanStep

\* The other steps touch the workers only.
LEMMA WorkerStep ==
  ASSUME LaunchInv, WorkerInv', launches' \subseteq launches,
         UNCHANGED <<vars, pass, leader, term, launched>>,
         \A e \in ExecutionIds : registry'[e] # Absent => registry[e] # Absent,
         faults' = faults \/ (faults < MaxFaults /\ faults' = faults + 1)
  PROVE  LaunchInv'
<1>1. /\ UNCHANGED vars
      /\ UNCHANGED <<pass, leader, term, launched>>
  OBVIOUS
<1>2. ControlInv' /\ RevisionInv' /\ AskedNow' = AskedNow
  BY <1>1, ControlKept
<1>3. VoterInv'
  <2>1. faults' \in 0 .. MaxFaults /\ term' \in 1 .. (faults' + 1)
    BY <1>1, PlanAssumption DEF LaunchInv, VoterInv
  <2> QED BY <1>1, <2>1 DEF LaunchInv, VoterInv
<1>4. ChainInv'
  <2>1. \A k \in Workflows : registry'[Execution(k)] # Absent => k \in launched'
    BY <1>1, PlanFacts DEF LaunchInv, ChainInv
  <2>2. launched' \subseteq AskedNow
    BY <1>1 DEF LaunchInv, ChainInv
  <2> QED BY <1>1, <2>1, <2>2, ChainKept
<1>5. PassInv'
  BY <1>1, PassKept
<1>6. CallInv'
  <2>1. CallsInv(launches', pass, AskedNow, launched)
    BY CallsKept DEF LaunchInv, CallInv
  <2> QED BY <1>1, <1>2, <2>1 DEF CallInv
<1> QED BY <1>2, <1>3, <1>4, <1>5, <1>6 DEF LaunchInv

LEMMA ComesUpStep ==
  ASSUME LaunchInv, NEW w \in Nodes, ComesUp(w)
  PROVE  LaunchInv'
<1>1. /\ UNCHANGED <<vars, pass, leader, term, launched>>
      /\ UNCHANGED <<registry, durable, fence, expired, launches>>
      /\ up' = up \cup {w} /\ faults' = faults
  BY DEF ComesUp, workerVars
<1>2. WorkerInv'
  BY <1>1 DEF LaunchInv, WorkerInv
<1> QED BY <1>1, <1>2, WorkerStep

LEMMA RestartStep ==
  ASSUME LaunchInv, NEW w \in Nodes, Restart(w)
  PROVE  LaunchInv'
<1>1. PICK kept \in SUBSET ExecutionsOf(w) :
        registry' = [e \in ExecutionIds |->
                       IF e \notin ExecutionsOf(w) THEN registry[e]
                       ELSE IF e \notin durable THEN Absent
                       ELSE [registry[e] EXCEPT !.state = IF e \in kept THEN "ready"
                                                          ELSE "unavailable"]]
  BY DEF Restart
<1>2. /\ UNCHANGED <<vars, pass, leader, term, launched>>
      /\ UNCHANGED <<up, durable>>
      /\ faults' = faults
      /\ fence' = [e \in ExecutionIds |-> IF e \in ExecutionsOf(w) THEN Absent ELSE fence[e]]
      /\ expired' \subseteq expired
      /\ launches' \subseteq launches
  BY DEF Restart, clusterVars
<1>3. ASSUME NEW x \in WorkerExecution, NEW state \in {"ready", "unavailable"}
      PROVE  [x EXCEPT !.state = state] \in WorkerExecution
             /\ [x EXCEPT !.state = state] # Absent
  <2>1. [x EXCEPT !.state = state] \in WorkerExecution
    BY DEF WorkerExecution, WorkerStates
  <2> QED BY <2>1, LaunchAbsentAssumption
<1>4. /\ registry \in [ExecutionIds -> WorkerExecution \cup {Absent}]
      /\ \A e \in durable : registry[e] # Absent
  BY DEF LaunchInv, WorkerInv
<1>5. ASSUME NEW e \in ExecutionIds
      PROVE  /\ registry'[e] \in WorkerExecution \cup {Absent}
             /\ registry'[e] # Absent => registry[e] # Absent
             /\ e \in durable => registry'[e] # Absent
  <2>1. CASE e \notin ExecutionsOf(w)
    BY <1>1, <1>4, <2>1
  <2>2. CASE e \in ExecutionsOf(w) /\ e \notin durable
    BY <1>1, <2>2
  <2>3. CASE e \in ExecutionsOf(w) /\ e \in durable
    <3>1. registry[e] \in WorkerExecution /\ registry[e] # Absent
      BY <1>4, <2>3
    <3>2. registry'[e] = [registry[e] EXCEPT !.state = IF e \in kept THEN "ready"
                                                       ELSE "unavailable"]
      BY <1>1, <2>3
    <3> QED BY <1>3, <3>1, <3>2
  <2> QED BY <2>1, <2>2, <2>3
<1>6. WorkerInv'
  <2>1. registry' \in [ExecutionIds -> WorkerExecution \cup {Absent}]
    BY <1>1, <1>5
  <2>2. fence' \in [ExecutionIds -> Terms \cup {Absent}]
    BY <1>2 DEF LaunchInv, WorkerInv
  <2> QED BY <1>2, <1>5, <2>1, <2>2 DEF LaunchInv, WorkerInv
<1> QED BY <1>2, <1>5, <1>6, WorkerStep

LEMMA CloseStep ==
  ASSUME LaunchInv, NEW e \in Closable, Close(e)
  PROVE  LaunchInv'
<1>1. /\ UNCHANGED <<vars, pass, leader, term, launched>>
      /\ UNCHANGED <<up, durable, fence, expired, launches, faults>>
      /\ registry[e] # Absent
      /\ registry' = [registry EXCEPT ![e].state = "closed"]
  BY DEF Close, clusterVars
<1>2. e \in ExecutionIds
  BY PlanAssumption
<1>3. registry \in [ExecutionIds -> WorkerExecution \cup {Absent}]
  BY DEF LaunchInv, WorkerInv
<1> DEFINE new == [registry[e] EXCEPT !.state = "closed"]
<1>4. new \in WorkerExecution /\ new # Absent
  <2>1. registry[e] \in WorkerExecution
    BY <1>1, <1>2, <1>3
  <2>2. new \in WorkerExecution
    BY <2>1 DEF WorkerExecution, WorkerStates
  <2> QED BY <2>2, LaunchAbsentAssumption
<1>5. registry' = [registry EXCEPT ![e] = new]
  BY <1>1, <1>3
<1> HIDE DEF new
<1>6. /\ registry' \in [ExecutionIds -> WorkerExecution \cup {Absent}]
      /\ \A x \in ExecutionIds : registry'[x] # Absent <=> registry[x] # Absent
  BY <1>1, <1>2, <1>3, <1>4, <1>5
<1>7. WorkerInv'
  BY <1>1, <1>6 DEF LaunchInv, WorkerInv
<1> QED BY <1>1, <1>6, <1>7, WorkerStep

LEMMA LeaseExpiresStep ==
  ASSUME LaunchInv, NEW e \in ExecutionIds, LeaseExpires(e)
  PROVE  LaunchInv'
<1>1. /\ UNCHANGED <<vars, pass, leader, term, launched>>
      /\ UNCHANGED <<up, registry, durable, fence, launches>>
      /\ faults < MaxFaults /\ faults' = faults + 1
      /\ expired' = expired \cup {e}
  BY DEF LeaseExpires
<1>2. WorkerInv'
  BY <1>1 DEF LaunchInv, WorkerInv
<1> QED BY <1>1, <1>2, WorkerStep

-----------------------------------------------------------------------------
(* The theorems. *)

LEMMA LaunchStep == LaunchInv /\ [LaunchNext]_launchVars => LaunchInv'
<1> SUFFICES ASSUME LaunchInv, [LaunchNext]_launchVars PROVE LaunchInv'
  OBVIOUS
<1>1. CASE UNCHANGED launchVars
  <2>1. /\ UNCHANGED <<vars, pass, leader, term, launched>>
        /\ UNCHANGED <<up, registry, durable, fence, expired, launches, faults>>
    BY <1>1 DEF launchVars, clusterVars, workerVars
  <2>2. WorkerInv'
    BY <2>1 DEF LaunchInv, WorkerInv
  <2> QED BY <2>1, <2>2, WorkerStep
<1>2. CASE Client
  BY <1>2, SubmitStep, CloseStep DEF Client
<1>3. ASSUME NEW n \in Voters, Reconcile(n) PROVE LaunchInv'
  BY <1>3, StartPassStep, SkipStep, UnusableStep, QueryFoundStep, QueryMissingStep,
     ReportStep, CompleteStep DEF Reconcile
<1>4. ASSUME NEW call \in launches, Serve(call) PROVE LaunchInv'
  BY <1>4, AdmitStep, RefuseStep, FindRegisteredStep, RegisterStep, StoreStep DEF Serve
<1>5. CASE Trouble
  BY <1>5, CommitUnansweredStep, PassFailsStep, ElectStep, RefuseStep, GoesDownStep,
     RestartStep, LeaseExpiresStep DEF Trouble
<1>6. CASE Recovery
  BY <1>6, ComesUpStep DEF Recovery
<1> QED BY <1>1, <1>2, <1>3, <1>4, <1>5, <1>6 DEF LaunchNext

LEMMA LaunchInvariance == LaunchSpec => []LaunchInv
<1>1. LaunchInit => LaunchInv
  BY InitLaunch
<1>2. LaunchInv /\ [LaunchNext]_launchVars => LaunchInv'
  BY LaunchStep
<1> QED BY <1>1, <1>2, PTL DEF LaunchSpec

\* The passes, the workers' state, the launch calls and the control state
\* keep their shapes: in particular a pass never runs out of workflows
\* without ending (reconcile_pending) and a derived command is a command.
THEOREM LaunchTypeCorrect == LaunchSpec => []LaunchTypeOK
<1>1. LaunchInv => LaunchTypeOK
  BY PlanAssumption DEF LaunchInv, LaunchTypeOK, ControlInv, RecordsInv, RecordsTypeOK,
     OutcomesInv, TypeOK, WorkerInv, VoterInv, Terms
<1> QED BY <1>1, LaunchInvariance, PTL

\* A workflow answered as complete leaves no pane pending that still has its
\* assignment, whichever voters, deposed or not, worked on it
\* (reconcile_launch reports before it completes).
THEOREM CompletedShownCorrect == LaunchSpec => []CompletedIsShown
<1>1. LaunchInv => CompletedIsShown
  <2> SUFFICES ASSUME LaunchInv, NEW k \in Workflows, Settled(k), AssignedIn(k, panes)
               PROVE  panes[Pane(k)].availability # "pending"
    BY DEF CompletedIsShown
  <2>1. k \in SettledNow
    BY DEF Settled, SettledNow, SettledIn
  <2>2. k \in ShownNow
    BY <2>1 DEF LaunchInv, ChainInv
  <2> QED BY <2>2 DEF LaunchInv, ChainInv, PanesShow
<1> QED BY <1>1, LaunchInvariance, PTL

\* What a step can do to the four stages and to the control state.
LEMMA StageStep ==
  ASSUME LaunchInv, [LaunchNext]_launchVars
  PROVE  \/ UNCHANGED vars /\ UNCHANGED launched
         \/ \E k \in Workflows : Submit(k)
         \/ \E n \in Voters : At(n, "report") /\ ApplyReport(n) /\ UNCHANGED launched
         \/ \E n \in Voters : At(n, "complete") /\ ApplyComplete(n) /\ UNCHANGED launched
         \/ \E call \in launches : Register(call)
<1>1. CASE UNCHANGED launchVars
  BY <1>1 DEF launchVars, workerVars
<1>2. CASE Client
  BY <1>2 DEF Client, Close
<1>3. ASSUME NEW n \in Voters, Reconcile(n)
      PROVE  \/ UNCHANGED vars /\ UNCHANGED launched
             \/ At(n, "report") /\ ApplyReport(n) /\ UNCHANGED launched
             \/ At(n, "complete") /\ ApplyComplete(n) /\ UNCHANGED launched
  BY <1>3 DEF Reconcile, StartPass, Skip, Unusable, QueryFound, QueryMissing, Report,
     Complete, NotLeader, workerVars
<1>4. ASSUME NEW call \in launches, Serve(call)
      PROVE  (UNCHANGED vars /\ UNCHANGED launched) \/ Register(call)
  BY <1>4 DEF Serve, Admit, Refuse, FindRegistered, Store
<1>5. CASE Trouble
  BY <1>5 DEF Trouble, CommitUnanswered, PassFails, Elect, LaunchFails, GoesDown, Restart,
     LeaseExpires, workerVars
<1>6. CASE Recovery
  BY <1>6 DEF Recovery, ComesUp, workerVars
<1> QED BY <1>1, <1>2, <1>3, <1>4, <1>5, <1>6 DEF LaunchNext

\* The reconcilers change the control state through its commands only: every
\* step of the whole is an apply of ControlState or leaves it alone, so what
\* is proved of each apply holds here too.
ControlSteps == [][Next]_vars

THEOREM ControlStepsCorrect == LaunchSpec => ControlSteps
<1>1. LaunchInv /\ [LaunchNext]_launchVars => [Next]_vars
  <2> SUFFICES ASSUME LaunchInv, [LaunchNext]_launchVars PROVE Next \/ UNCHANGED vars
    OBVIOUS
  <2>1. UNCHANGED vars \/ (\E k \in Workflows : Submit(k))
        \/ (\E n \in Voters : At(n, "report") /\ ApplyReport(n))
        \/ (\E n \in Voters : At(n, "complete") /\ ApplyComplete(n))
    BY StageStep DEF Register
  <2> QED BY <2>1, SubmitEffect, ReportEffect, CompleteEffect
<1> QED BY <1>1, LaunchInvariance, PTL DEF LaunchSpec, ControlSteps

\* What ControlState promises of its commands holds in the composition, which
\* starts in another state and runs on its own: references exist, a
\* workspace covers its tabs, revisions are fresh, answers to a command agree
\* and a pending workflow is never evicted.
THEOREM ControlInherited ==
  LaunchSpec => /\ []ReferencesExist
                /\ []WorkspaceCoversTabs
                /\ RevisionsAreFresh
                /\ AnswersAgree
                /\ PendingNeverEvicted
<1>1. LaunchInv => ReferencesExist /\ WorkspaceCoversTabs
  BY DEF LaunchInv, ControlInv, RecordsInv
<1>2. LaunchInv /\ [Next]_vars => [FreshStep]_vars /\ [AgreeStep]_vars /\ [EvictStep]_vars
  BY NextStep DEF LaunchInv, ControlInv, RecordsStep, OutcomesStep
<1> QED BY <1>1, <1>2, LaunchInvariance, ControlStepsCorrect, PTL
    DEF ControlSteps, RevisionsAreFresh, FreshStep, AnswersAgree, AgreeStep,
        PendingNeverEvicted, EvictStep

LEMMA TabsUntouched ==
  ASSUME LaunchInv, [LaunchNext]_launchVars
  PROVE  UNCHANGED tabs
<1>1. ASSUME NEW k \in Workflows, Submit(k) PROVE UNCHANGED tabs
  BY <1>1 DEF Submit, AssignExecution, CompleteUnchanged
<1>2. ASSUME NEW n \in Voters, ApplyReport(n) PROVE UNCHANGED tabs
  BY <1>2 DEF ApplyReport, Duplicate, SetPaneAvailability, Reject, CompleteUnchanged, vars
<1>3. ASSUME NEW n \in Voters, ApplyComplete(n) PROVE UNCHANGED tabs
  BY <1>3 DEF ApplyComplete, Duplicate, Conflict, CompleteWorkflow, CompleteUnchanged, vars
<1> QED BY <1>1, <1>2, <1>3, StageStep DEF Register, vars

\* A federation that only assigns, reports and completes can always be
\* decoded again by a restarting voter: the reconcilers' own commands never
\* lead to a state decode_snapshot refuses.
THEOREM LaunchDecodable == LaunchSpec => []Decodable
<1>1. LaunchInit => PanesPlaced
  BY DEF LaunchInit, PanesPlaced, HasPane
<1>2. /\ LaunchInv /\ LaunchInv' /\ PanesPlaced
      /\ [LaunchNext]_launchVars /\ [Next]_vars
      => PanesPlaced'
  <2> SUFFICES ASSUME LaunchInv, LaunchInv', PanesPlaced,
                      [LaunchNext]_launchVars, [Next]_vars
               PROVE  PanesPlaced'
    OBVIOUS
  <2>1. RecordsInv /\ RecordsInv'
    BY DEF LaunchInv, ControlInv
  <2> QED BY <2>1, TabsUntouched, NextPlaces, PlacedStep
<1>3. LaunchInv /\ PanesPlaced => Decodable
  BY PlacedDecodes DEF LaunchInv, ControlInv
<1> QED BY <1>1, <1>2, <1>3, LaunchInvariance, ControlStepsCorrect, PTL
    DEF LaunchSpec, ControlSteps

\* The action formula of StartedOnce.
StartStep ==
  \A e \in ExecutionIds : registry[e] # Absent =>
    \/ SameLaunch(registry[e], registry'[e])
    \/ registry'[e] = Absent /\ e \notin durable

LEMMA StartedKept ==
  ASSUME UNCHANGED registry
  PROVE  StartStep
BY DEF StartStep, SameLaunch

\* Another state of the same registration.
LEMMA StateChanged ==
  ASSUME NEW x \in WorkerExecution, NEW state \in WorkerStates
  PROVE  SameLaunch(x, [x EXCEPT !.state = state])
<1>1. [x EXCEPT !.state = state] \in WorkerExecution
  BY DEF WorkerExecution
<1>2. /\ [x EXCEPT !.state = state].term = x.term
      /\ [x EXCEPT !.state = state].by = x.by
  BY DEF WorkerExecution
<1> QED BY <1>1, <1>2, LaunchAbsentAssumption DEF SameLaunch

LEMMA RegisterStarts ==
  ASSUME LaunchInv, NEW call \in launches, Register(call)
  PROVE  StartStep
BY DEF Register, StartStep, SameLaunch, LaunchInv, WorkerInv

LEMMA CloseStarts ==
  ASSUME LaunchInv, NEW e, Close(e)
  PROVE  StartStep
<1>1. ASSUME NEW x \in ExecutionIds, registry[x] # Absent
      PROVE  SameLaunch(registry[x], registry'[x])
  <2>1. registry[x] \in WorkerExecution
    BY <1>1 DEF LaunchInv, WorkerInv
  <2>2. registry'[x] = registry[x] \/ registry'[x] = [registry[x] EXCEPT !.state = "closed"]
    BY <1>1 DEF Close, LaunchInv, WorkerInv
  <2> QED BY <1>1, <2>1, <2>2, StateChanged DEF SameLaunch, WorkerStates
<1> QED BY <1>1 DEF StartStep

LEMMA RestartStarts ==
  ASSUME LaunchInv, NEW w \in Nodes, Restart(w)
  PROVE  StartStep
<1>1. ASSUME NEW x \in ExecutionIds, registry[x] # Absent, x \in durable
      PROVE  SameLaunch(registry[x], registry'[x])
  <2>1. registry[x] \in WorkerExecution
    BY <1>1 DEF LaunchInv, WorkerInv
  <2>2. \/ registry'[x] = registry[x]
        \/ registry'[x] = [registry[x] EXCEPT !.state = "ready"]
        \/ registry'[x] = [registry[x] EXCEPT !.state = "unavailable"]
    <3>1. PICK kept \in SUBSET ExecutionsOf(w) :
            registry' = [e \in ExecutionIds |->
                           IF e \notin ExecutionsOf(w) THEN registry[e]
                           ELSE IF e \notin durable THEN Absent
                           ELSE [registry[e] EXCEPT !.state = IF e \in kept THEN "ready"
                                                              ELSE "unavailable"]]
      BY Zenon DEF Restart
    <3>2. registry'[x] = IF x \notin ExecutionsOf(w) THEN registry[x]
                         ELSE [registry[x] EXCEPT !.state = IF x \in kept THEN "ready"
                                                            ELSE "unavailable"]
      BY <1>1, <3>1, Zenon
    <3> QED BY <3>2
  <2> QED BY <1>1, <2>1, <2>2, StateChanged DEF SameLaunch, WorkerStates
<1>2. ASSUME NEW x \in ExecutionIds, registry[x] # Absent, x \notin durable
      PROVE  registry'[x] = registry[x] \/ registry'[x] = Absent
  BY <1>2 DEF Restart
<1> QED BY <1>1, <1>2 DEF StartStep, SameLaunch

\* However many leaders, retries and late calls launch an execution at once,
\* its registration stays with the one launch that made it until a restart
\* of the worker that had not stored it (WorkerRegistry::launch).
THEOREM StartedOnceCorrect == LaunchSpec => StartedOnce
<1>1. LaunchInv /\ [LaunchNext]_launchVars => [StartStep]_launchVars
  <2> SUFFICES ASSUME LaunchInv, LaunchNext PROVE StartStep
    OBVIOUS
  <2>1. CASE Client
    BY <2>1, CloseStarts, StartedKept DEF Client, Submit, workerVars
  <2>2. ASSUME NEW n \in Voters, Reconcile(n) PROVE UNCHANGED registry
    BY <2>2 DEF Reconcile, StartPass, Skip, Unusable, QueryFound, QueryMissing, Report,
       Complete, NotLeader, workerVars
  <2>3. ASSUME NEW call \in launches, Serve(call) PROVE Register(call) \/ UNCHANGED registry
    BY <2>3 DEF Serve, Admit, Refuse, FindRegistered, Store
  <2>4. CASE Trouble
    <3>1. UNCHANGED registry \/ \E w \in Nodes : Restart(w)
      BY <2>4 DEF Trouble, CommitUnanswered, PassFails, Elect, LaunchFails, GoesDown,
         LeaseExpires, workerVars
    <3> QED BY <3>1, RestartStarts, StartedKept
  <2>5. CASE Recovery
    BY <2>5, StartedKept DEF Recovery, ComesUp, workerVars
  <2> QED BY <2>1, <2>2, <2>3, <2>4, <2>5, RegisterStarts, StartedKept DEF LaunchNext
<1> QED BY <1>1, LaunchInvariance, PTL DEF LaunchSpec, StartedOnce, StartStep

LEMMA StagesMapped ==
  /\ {k \in Workflows : dedup[k] # Absent} = AskedNow
  /\ {k \in Workflows : Shown(k)} = ShownNow
  /\ {k \in Workflows : Settled(k)} = SettledNow
BY DEF AskedNow, AskedIn, ShownNow, ShownIn, SettledNow, SettledIn, Shown, Settled

LEMMA StagesMappedNext ==
  /\ {k \in Workflows : dedup'[k] # Absent} = AskedNow'
  /\ {k \in Workflows : Shown(k)'} = ShownNow'
  /\ {k \in Workflows : Settled(k)'} = SettledNow'
BY DEF AskedNow, AskedIn, ShownNow, ShownIn, SettledNow, SettledIn, Shown, Settled

\* The contract's actions on the stages.
Stages == <<AskedNow, launched, ShownNow, SettledNow>>

Advance(k) ==
  \/ /\ k \notin AskedNow
     /\ AskedNow' = AskedNow \cup {k}
     /\ UNCHANGED <<launched, ShownNow, SettledNow>>
  \/ /\ k \in AskedNow \ launched
     /\ launched' = launched \cup {k}
     /\ UNCHANGED <<AskedNow, ShownNow, SettledNow>>
  \/ /\ k \in launched \ ShownNow
     /\ ShownNow' = ShownNow \cup {k}
     /\ UNCHANGED <<AskedNow, launched, SettledNow>>
  \/ /\ k \in ShownNow \ SettledNow
     /\ SettledNow' = SettledNow \cup {k}
     /\ UNCHANGED <<AskedNow, launched, ShownNow>>

LEMMA StagesAdvance ==
  ASSUME LaunchInv, [LaunchNext]_launchVars
  PROVE  UNCHANGED Stages \/ \E k \in Workflows : Advance(k)
<1>1. CASE UNCHANGED vars /\ UNCHANGED launched
  BY <1>1, ControlKept DEF Stages
<1>2. ASSUME NEW k \in Workflows, Submit(k)
      PROVE  Advance(k)
  <2>1. UNCHANGED launched
    BY <1>2 DEF Submit, workerVars
  <2> QED BY <1>2, <2>1, SubmitEffect DEF Advance
<1>3. ASSUME NEW n \in Voters, At(n, "report"), ApplyReport(n), UNCHANGED launched
      PROVE  UNCHANGED Stages \/ (Current(n) \in Workflows /\ Advance(Current(n)))
  <2>1. /\ AskedNow' = AskedNow /\ SettledNow' = SettledNow
        /\ ShownNow' = ShownNow \/ ShownNow' = ShownNow \cup {Current(n)}
    BY <1>3, ReportEffect
  <2>2. Current(n) \in Workflows /\ Current(n) \in launched
    BY <1>3, PassFacts DEF At, KnownTo, Current
  <2>3. CASE ShownNow' = ShownNow
    BY <1>3, <2>1, <2>3 DEF Stages
  <2>4. CASE ShownNow' # ShownNow
    BY <1>3, <2>1, <2>2, <2>4 DEF Advance
  <2> QED BY <2>3, <2>4
<1>4. ASSUME NEW n \in Voters, At(n, "complete"), ApplyComplete(n), UNCHANGED launched
      PROVE  UNCHANGED Stages \/ (Current(n) \in Workflows /\ Advance(Current(n)))
  <2>1. /\ AskedNow' = AskedNow /\ ShownNow' = ShownNow
        /\ SettledNow' = SettledNow \/ SettledNow' = SettledNow \cup {Current(n)}
    BY <1>4, CompleteEffect
  <2>2. Current(n) \in Workflows /\ Current(n) \in ShownNow
    BY <1>4, PassFacts DEF At, KnownTo, Current
  <2>3. CASE SettledNow' = SettledNow
    BY <1>4, <2>1, <2>3 DEF Stages
  <2>4. CASE SettledNow' # SettledNow
    BY <1>4, <2>1, <2>2, <2>4 DEF Advance
  <2> QED BY <2>3, <2>4
<1>5. ASSUME NEW call \in launches, Register(call)
      PROVE  UNCHANGED Stages \/ (call.workflow \in Workflows /\ Advance(call.workflow))
  <2>1. UNCHANGED vars /\ launched' = launched \cup {call.workflow}
    BY <1>5 DEF Register
  <2>2. AskedNow' = AskedNow /\ ShownNow' = ShownNow /\ SettledNow' = SettledNow
    BY <2>1, ControlKept
  <2>3. call.workflow \in Workflows /\ call.workflow \in AskedNow
    BY CallFacts
  <2> QED BY <2>1, <2>2, <2>3 DEF Stages, Advance
<1> QED BY <1>1, <1>2, <1>3, <1>4, <1>5, StageStep

\* The reconcilers, the log and the workers implement the launch contract:
\* an execution starts only for an accepted workflow, its pane shows an
\* outcome only after that, and the workflow settles last and once.
THEOREM ContractKept == LaunchSpec => KeepsContract
<1>1. LaunchInit => Contract!Init
  <2> SUFFICES ASSUME LaunchInit PROVE Contract!Init
    OBVIOUS
  <2>1. LaunchInv /\ launched = {} /\ dedup = [k \in Keys |-> Absent]
    BY InitLaunch DEF LaunchInit
  <2>2. AskedNow = {}
    BY <2>1, PlanAssumption DEF AskedNow, AskedIn
  <2>3. ShownNow = {} /\ SettledNow = {}
    BY <2>1 DEF LaunchInv, ChainInv
  <2> QED BY <2>1, <2>2, <2>3, StagesMapped DEF Contract!Init
<1>2. LaunchInv /\ [LaunchNext]_launchVars => [Contract!Next]_(Contract!vars)
  <2> SUFFICES ASSUME LaunchInv, [LaunchNext]_launchVars
               PROVE  [Contract!Next]_(Contract!vars)
    OBVIOUS
  <2>1. CASE UNCHANGED Stages
    BY <2>1, StagesMapped, StagesMappedNext DEF Stages, Contract!vars
  <2>2. ASSUME NEW k \in Workflows, Advance(k)
        PROVE  Contract!Ask(k) \/ Contract!Start(k) \/ Contract!Show(k) \/ Contract!Settle(k)
    BY <2>2, StagesMapped, StagesMappedNext
       DEF Advance, Contract!Ask, Contract!Start, Contract!Show, Contract!Settle
  <2> QED BY <2>1, <2>2, StagesAdvance DEF Contract!Next
<1> QED BY <1>1, <1>2, LaunchInvariance, PTL DEF LaunchSpec, KeepsContract, Contract!Spec
=============================================================================
