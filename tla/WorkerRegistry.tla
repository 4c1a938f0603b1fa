--------------------------- MODULE WorkerRegistry ---------------------------
(***************************************************************************)
(* One worker's execution registry: lease fencing, command deduplication,  *)
(* launch, adoption, input, close, reconciliation and the durable          *)
(* inventory (plugins/cluster-plugin/src/worker_runtime.rs).               *)
(*                                                                         *)
(* Service calls run concurrently.  Each takes the registry mutex to admit *)
(* the request, releases it while the pane runtime works, and takes it     *)
(* again to record the result; the steps of a call between lock releases   *)
(* are the actions below.  A request may be delivered any number of times. *)
(*                                                                         *)
(* Both issuers of leases (attach_state.rs, worker_reconciler.rs) name the *)
(* lease after the command and take its sequence number from the command's *)
(* UUID, so LeaseSequence is a function of the command and need not follow *)
(* the order of issue.  A call that fails a check returns an error and     *)
(* changes nothing; such calls are not steps of the model.                 *)
(***************************************************************************)
EXTENDS Naturals

CONSTANTS
  Threads,        \* service calls that can be in flight at a time
  Reconcilers,    \* threads a reconcile call may arrive on (no caller exists yet)
  CommandIds,
  ExecutionIds,
  LocalPanes,     \* panes of the node that were not launched by the registry
  Generations,
  Terms,          \* control terms
  Issues,         \* lease issue times; part of what the issuer signs
  LeaseSequence,  \* the sequence number a command's UUID yields
  LeaseDuration,  \* of every lease, in ticks of the monotonic clock
  Requests,       \* the requests the network may deliver
  MaxTime,        \* bound: last tick of a process's monotonic clock
  Absent

\* "input" stands for input, resize and signal: one code path.
Ops == {"launch", "restart", "adopt", "input", "close"}

Authority == [execution: ExecutionIds, generation: Generations, term: Terms,
              command: CommandIds, issued: Issues]

\* `pane` is the local pane an adoption names.
Request == [op: Ops, authority: Authority, pane: LocalPanes \cup {Absent}]

\* A launched execution lives in the pane session that has its identity.
Panes == ExecutionIds \cup LocalPanes

States == {"ready", "unavailable", "quarantined", "closed"}

Entry == [authority: Authority, binding: Panes, state: States]
Inventory == [ExecutionIds -> Entry \cup {Absent}]

\* AcceptedLease; the duration is the same for all.
Lease == [term: Terms, sequence: Nat, lease: CommandIds, accepted: Nat]

\* A call between two lock acquisitions.  request is Absent for a reconcile.
Call == [pc: {"effect", "record", "mark", "inventory", "store"},
         request: Requests \cup {Absent},
         binding: Panes \cup {Absent},
         inventory: Inventory \cup {Absent}]

ASSUME RequestsAssumption ==
  /\ Requests \subseteq Request
  /\ \A r \in Requests : (r.op = "adopt") <=> (r.pane # Absent)
  /\ Reconcilers \subseteq Threads

ASSUME LeaseAssumption ==
  /\ LeaseSequence \in [CommandIds -> Nat]
  /\ Terms \subseteq Nat
  /\ LeaseDuration \in Nat \ {0}
  /\ MaxTime \in Nat

ASSUME AbsentAssumption ==
  /\ Absent \notin Entry
  /\ Absent \notin Lease
  /\ Absent \notin Call
  /\ Absent \notin Request
  /\ Absent \notin Inventory
  /\ Absent \notin Panes

VARIABLES
  executions, \* registry entries by execution
  fence,      \* per execution, the newest lease accepted by this process
  outcomes,   \* per command, the request whose success is recorded
  calls,      \* the call each thread is in
  stored,     \* the inventory in plugin storage
  alive,      \* external: panes the pane runtime has
  now,        \* this process's monotonic clock
  applied,    \* history: times a request's effect reached its pane, in this process
  acked       \* history: launches and adoptions answered with success

vars == <<executions, fence, outcomes, calls, stored, alive, now, applied, acked>>

Init ==
  /\ executions = [e \in ExecutionIds |-> Absent]
  /\ fence = [e \in ExecutionIds |-> Absent]
  /\ outcomes = [c \in CommandIds |-> Absent]
  /\ calls = [t \in Threads |-> Absent]
  /\ stored = [e \in ExecutionIds |-> Absent]
  /\ alive = LocalPanes
  /\ now = 0
  /\ applied = [r \in Requests |-> 0]
  /\ acked = {}

-----------------------------------------------------------------------------
(* The fence. *)

Sequence(a) == LeaseSequence[a.command]

\* Mutation of Newer: the term is not compared.
NewerBySequence(a, lease) == Sequence(a) > lease.sequence

Newer(a, lease) ==
  \/ a.term > lease.term
  \/ a.term = lease.term /\ Sequence(a) > lease.sequence

\* The accepted lease once more, before its deadline.
Renews(a, lease) ==
  /\ a.term = lease.term
  /\ Sequence(a) = lease.sequence
  /\ a.command = lease.lease
  /\ now < lease.accepted + LeaseDuration

ValidateMutation(a) ==
  LET lease == fence[a.execution]
  IN \/ /\ lease # Absent => Newer(a, lease)
        /\ fence' = [fence EXCEPT ![a.execution] =
                       [term |-> a.term, sequence |-> Sequence(a),
                        lease |-> a.command, accepted |-> now]]
     \/ /\ lease # Absent
        /\ Renews(a, lease)
        /\ UNCHANGED fence

-----------------------------------------------------------------------------
(* Deduplication.  A restart is a launch to the registry. *)

Fingerprint(r) == IF r.op = "restart" THEN [r EXCEPT !.op = "launch"] ELSE r

Unrecorded(r) == outcomes[r.authority.command] = Absent

RecordedAs(r) == outcomes[r.authority.command] = Fingerprint(r)

\* Mutation of RecordOutcome: nothing is recorded.
RecordOutcomeForgotten(r) == UNCHANGED outcomes

\* A reused command identity with another request fails, the effect done.
RecordOutcome(r) ==
  outcomes' = IF Unrecorded(r)
              THEN [outcomes EXCEPT ![r.authority.command] = Fingerprint(r)]
              ELSE outcomes

-----------------------------------------------------------------------------
(* Admission: the first critical section of a call. *)

Idle(t) == calls[t] = Absent

InCall(t, pc) == calls[t] # Absent /\ calls[t].pc = pc

Start(t, pc, r, binding) ==
  calls' = [calls EXCEPT ![t] =
              [pc |-> pc, request |-> r, binding |-> binding, inventory |-> Absent]]

Return(t) == calls' = [calls EXCEPT ![t] = Absent]

Registers(r) == r.op \in {"launch", "restart", "adopt"}

\* The service persists the inventory after a launch or an adoption that
\* succeeded, a repeated one included; not after a restart.
Persists(r) == r.op \in {"launch", "adopt"}

Registered(a) == executions[a.execution] # Absent

\* Mutation of AdmitNew: a launch is bound to the pane its request names.
AdmitNewUnbound(t, r) ==
  /\ Idle(t)
  /\ Registers(r)
  /\ Unrecorded(r)
  /\ ~Registered(r.authority)
  /\ ValidateMutation(r.authority)
  /\ Start(t, "effect", r, r.pane)
  /\ UNCHANGED <<executions, outcomes, stored, alive, now, applied, acked>>

\* launch, restart and adopt of an execution the registry does not have.
AdmitNew(t, r) ==
  /\ Idle(t)
  /\ Registers(r)
  /\ Unrecorded(r)
  /\ ~Registered(r.authority)
  /\ ValidateMutation(r.authority)
  /\ Start(t, "effect", r, IF r.op = "adopt" THEN r.pane ELSE r.authority.execution)
  /\ UNCHANGED <<executions, outcomes, stored, alive, now, applied, acked>>

\* A launch that is recorded, or whose execution is registered under the
\* same authority, and an adoption that is recorded: answered at once.
AnswerKnown(t, r) ==
  /\ Idle(t)
  /\ Registers(r)
  /\ \/ RecordedAs(r)
     \/ /\ Unrecorded(r)
        /\ r.op # "adopt"
        /\ Registered(r.authority)
        /\ executions[r.authority.execution].authority = r.authority
  /\ Persists(r)
  /\ Start(t, "inventory", r, Absent)
  /\ UNCHANGED <<executions, fence, outcomes, stored, alive, now, applied, acked>>

\* Mutation of AdmitMutation: the outcome is recorded before the effect.
AdmitMutationRecorded(t, r) ==
  /\ Idle(t)
  /\ r.op \in {"input", "close"}
  /\ Unrecorded(r)
  /\ Registered(r.authority)
  /\ executions[r.authority.execution].authority.generation = r.authority.generation
  /\ ValidateMutation(r.authority)
  /\ RecordOutcome(r)
  /\ Start(t, "effect", r, executions[r.authority.execution].binding)
  /\ UNCHANGED <<executions, stored, alive, now, applied, acked>>

\* input, resize, signal and close.  The entry's state is not looked at.
AdmitMutation(t, r) ==
  /\ Idle(t)
  /\ r.op \in {"input", "close"}
  /\ Unrecorded(r)
  /\ Registered(r.authority)
  /\ executions[r.authority.execution].authority.generation = r.authority.generation
  /\ ValidateMutation(r.authority)
  /\ Start(t, "effect", r, executions[r.authority.execution].binding)
  /\ UNCHANGED <<executions, outcomes, stored, alive, now, applied, acked>>

\* close marks the entry even when its outcome was already recorded.
RepeatClose(t, r) ==
  /\ Idle(t)
  /\ r.op = "close"
  /\ RecordedAs(r)
  /\ Start(t, "mark", r, Absent)
  /\ UNCHANGED <<executions, fence, outcomes, stored, alive, now, applied, acked>>

-----------------------------------------------------------------------------
(* The effect, with no lock held. *)

\* ensure_execution_pane creates the pane or finds it; get_pane only looks.
EffectOnRuntime(t) ==
  LET r == calls[t].request
      pane == calls[t].binding
  IN /\ InCall(t, "effect")
     /\ \/ /\ r.op \in {"launch", "restart"}
           /\ alive' = alive \cup {pane}
           /\ UNCHANGED applied
        \/ /\ r.op = "adopt"
           /\ pane \in alive
           /\ UNCHANGED <<alive, applied>>
        \/ /\ r.op = "input"
           /\ pane \in alive
           /\ applied' = [applied EXCEPT ![r] = @ + 1]
           /\ UNCHANGED alive
        \/ /\ r.op = "close"
           /\ pane \in alive
           /\ alive' = alive \ {pane}
           /\ applied' = [applied EXCEPT ![r] = @ + 1]
     /\ calls' = [calls EXCEPT ![t].pc = "record"]
     /\ UNCHANGED <<executions, fence, outcomes, stored, now, acked>>

\* The pane runtime reports an error; a launch may have got as far as
\* creating the pane.
EffectFails(t) ==
  /\ InCall(t, "effect")
  /\ Return(t)
  /\ \/ UNCHANGED alive
     \/ /\ calls[t].request.op \in {"launch", "restart"}
        /\ alive' = alive \cup {calls[t].binding}
  /\ UNCHANGED <<executions, fence, outcomes, stored, now, applied, acked>>

-----------------------------------------------------------------------------
(* The second critical section. *)

NewEntry(t) == [authority |-> calls[t].request.authority,
                binding |-> calls[t].binding, state |-> "ready"]

\* A launch keeps an entry that appeared meanwhile, an adoption replaces it.
Insert(t) ==
  LET e == calls[t].request.authority.execution
  IN executions' = IF calls[t].request.op = "adopt" \/ executions[e] = Absent
                   THEN [executions EXCEPT ![e] = NewEntry(t)]
                   ELSE executions

\* The checks that end a call with CommandConflict: another registration won
\* the race of two launches, or the command identity has another request.
LostRace(t) ==
  LET r == calls[t].request
  IN /\ r.op # "adopt"
     /\ Registered(r.authority)
     /\ executions[r.authority.execution] # NewEntry(t)

CommandConflict(t) == ~Unrecorded(calls[t].request) /\ ~RecordedAs(calls[t].request)

RecordRegistration(t) ==
  LET r == calls[t].request
  IN /\ InCall(t, "record")
     /\ Registers(r)
     /\ \/ /\ LostRace(t)
           /\ UNCHANGED <<executions, outcomes>>
           /\ Return(t)
        \/ /\ ~LostRace(t)
           /\ Insert(t)
           /\ RecordOutcome(r)
           /\ IF CommandConflict(t) \/ ~Persists(r) THEN Return(t)
              ELSE Start(t, "inventory", r, Absent)
     /\ UNCHANGED <<fence, stored, alive, now, applied, acked>>

RecordMutation(t) ==
  LET r == calls[t].request
  IN /\ InCall(t, "record")
     /\ ~Registers(r)
     /\ RecordOutcome(r)
     /\ IF CommandConflict(t) \/ r.op # "close" THEN Return(t)
        ELSE Start(t, "mark", r, Absent)
     /\ UNCHANGED <<executions, fence, stored, alive, now, applied, acked>>

\* close's third critical section.
MarkClosed(t) ==
  LET e == calls[t].request.authority.execution
  IN /\ InCall(t, "mark")
     /\ executions' = IF executions[e] = Absent THEN executions
                      ELSE [executions EXCEPT ![e].state = "closed"]
     /\ Return(t)
     /\ UNCHANGED <<fence, outcomes, stored, alive, now, applied, acked>>

-----------------------------------------------------------------------------
(* The durable inventory: read under the lock, written without it. *)

\* Mutation of ReadInventory: executions that are not ready are left out.
ReadInventoryReady(t) ==
  /\ InCall(t, "inventory")
  /\ calls' = [calls EXCEPT ![t].pc = "store",
                 ![t].inventory = [e \in ExecutionIds |->
                   IF executions[e] # Absent /\ executions[e].state # "ready"
                   THEN Absent ELSE executions[e]]]
  /\ UNCHANGED <<executions, fence, outcomes, stored, alive, now, applied, acked>>

ReadInventory(t) ==
  /\ InCall(t, "inventory")
  /\ calls' = [calls EXCEPT ![t].pc = "store", ![t].inventory = executions]
  /\ UNCHANGED <<executions, fence, outcomes, stored, alive, now, applied, acked>>

StoreInventory(t) ==
  /\ InCall(t, "store")
  /\ stored' = calls[t].inventory
  /\ acked' = acked \cup ({calls[t].request} \ {Absent})
  /\ Return(t)
  /\ UNCHANGED <<executions, fence, outcomes, alive, now, applied>>

\* The caller gets an error for a launch that the registry keeps.
StoreFails(t) ==
  /\ InCall(t, "store")
  /\ Return(t)
  /\ UNCHANGED <<executions, fence, outcomes, stored, alive, now, applied, acked>>

-----------------------------------------------------------------------------
(* Reconciliation against a list of executions, and restart. *)

Listing(e) ==
  {Absent} \cup
  {[authority |-> r.authority,
    binding |-> IF r.op = "adopt" THEN r.pane ELSE e] :
     r \in {q \in Requests : Registers(q) /\ q.authority.execution = e}}

Present(entry, panes) ==
  [authority |-> entry.authority, binding |-> entry.binding,
   state |-> IF entry.binding \in panes THEN "ready" ELSE "unavailable"]

Quarantine(entry) == IF entry = Absent THEN Absent
                     ELSE [entry EXCEPT !.state = "quarantined"]

\* Mutation of Matched: the listed authority wins over the registered one.
MatchedAsListed(entry, listed, panes) == Present(listed, panes)

\* What reconcile makes of a listed execution.
Matched(entry, listed, panes) ==
  IF entry = Absent \/ entry.authority = listed.authority
  THEN Present(listed, panes)
  ELSE Quarantine(entry)

Reconcile(t, list) ==
  /\ Idle(t)
  /\ executions' = [e \in ExecutionIds |->
                      IF list[e] = Absent THEN Quarantine(executions[e])
                      ELSE Matched(executions[e], list[e], alive)]
  /\ Start(t, "inventory", Absent, Absent)
  /\ UNCHANGED <<fence, outcomes, stored, alive, now, applied, acked>>

\* The list has an entry for another node or twice the same execution: the
\* entries before it are applied, nothing is quarantined for being unlisted
\* and nothing is stored.
ReconcileFails(t, list) ==
  /\ Idle(t)
  /\ executions' = [e \in ExecutionIds |->
                      IF list[e] = Absent THEN executions[e]
                      ELSE Matched(executions[e], list[e], alive)]
  /\ UNCHANGED <<fence, outcomes, calls, stored, alive, now, applied, acked>>

\* The process ends and the plugin is activated again: calls, fence and
\* outcomes are gone, the registry is the stored inventory reconciled with
\* the panes that are still there.
Crash ==
  \E panes \in SUBSET alive :
    /\ alive' = panes
    /\ executions' = [e \in ExecutionIds |->
                        IF stored[e] = Absent THEN Absent
                        ELSE Present(stored[e], panes)]
    /\ fence' = [e \in ExecutionIds |-> Absent]
    /\ outcomes' = [c \in CommandIds |-> Absent]
    /\ calls' = [t \in Threads |-> Absent]
    /\ now' = 0
    /\ applied' = [r \in Requests |-> 0]
    /\ UNCHANGED <<stored, acked>>

Tick ==
  /\ now < MaxTime
  /\ now' = now + 1
  /\ UNCHANGED <<executions, fence, outcomes, calls, stored, alive, applied, acked>>

\* The pane runtime loses a pane by itself.
PaneGone(p) ==
  /\ p \in alive
  /\ alive' = alive \ {p}
  /\ UNCHANGED <<executions, fence, outcomes, calls, stored, now, applied, acked>>

-----------------------------------------------------------------------------

Admit(t) ==
  \E r \in Requests :
    \/ AdmitNew(t, r)
    \/ AnswerKnown(t, r)
    \/ AdmitMutation(t, r)
    \/ RepeatClose(t, r)

Proceed(t) ==
  \/ EffectOnRuntime(t)
  \/ EffectFails(t)
  \/ RecordRegistration(t)
  \/ RecordMutation(t)
  \/ MarkClosed(t)
  \/ ReadInventory(t)
  \/ StoreInventory(t)
  \/ StoreFails(t)

Lists == {list \in [ExecutionIds -> UNION {Listing(e) : e \in ExecutionIds}] :
            \A e \in ExecutionIds : list[e] \in Listing(e)}

Environment ==
  \/ Crash
  \/ Tick
  \/ \E p \in Panes : PaneGone(p)
  \/ \E t \in Reconcilers, list \in Lists :
       Reconcile(t, list) \/ ReconcileFails(t, list)

Next ==
  \/ \E t \in Threads : Admit(t) \/ Proceed(t)
  \/ Environment

Spec == Init /\ [][Next]_vars

-----------------------------------------------------------------------------
(* Properties. *)

\* The registry, the fence, the calls in flight and the stored inventory
\* have their shapes.
TypeOK ==
  /\ executions \in Inventory
  /\ fence \in [ExecutionIds -> Lease \cup {Absent}]
  /\ outcomes \in [CommandIds -> Request \cup {Absent}]
  /\ calls \in [Threads -> Call \cup {Absent}]
  /\ stored \in Inventory
  /\ alive \subseteq Panes
  /\ now \in 0 .. MaxTime
  /\ applied \in [Requests -> Nat]
  /\ acked \subseteq Requests

\* While a process lives, the watermark of an execution never goes back, and
\* a lease is only replaced by one of a higher term, or of the same term and
\* a higher sequence (validate_mutation; ADR-0002: "A worker tracks the
\* highest accepted term and lease sequence for each execution and rejects
\* older authority").
NotOlder(old, new) ==
  \/ new = old
  \/ new.term > old.term
  \/ new.term = old.term /\ new.sequence > old.sequence

FenceAdvances ==
  [][~Crash => \A e \in ExecutionIds : fence[e] # Absent =>
       fence'[e] # Absent /\ NotOlder(fence[e], fence'[e])]_vars

\* No registration is lost while a process lives, and a registration is
\* handed to another authority only by an adoption that was admitted before
\* the execution was registered: however launches, restarts, duplicates and
\* reconciliations interleave, the first of them to register an execution
\* keeps it.
RegistrationKept ==
  [][~Crash => \A e \in ExecutionIds : executions[e] # Absent =>
       /\ executions'[e] # Absent
       /\ \/ executions'[e].authority = executions[e].authority
          \/ \E t \in Threads : /\ InCall(t, "record")
                                /\ calls[t].request.op = "adopt"
                                /\ executions'[e] = NewEntry(t)]_vars

\* A recorded success of an input or a close is the success of a request
\* whose effect reached the pane in this process (mutate records after the
\* effect, never before).
OutcomesHappened ==
  \A c \in CommandIds : outcomes[c] # Absent /\ ~Registers(outcomes[c]) =>
    applied[outcomes[c]] > 0

\* An input or a close reaches its pane at most once in a process, however
\* often it is delivered, and of two requests under one command identity only
\* one does (INVARIANTS.md: "duplicate mutation identities return the same
\* logical outcome and conflicting reuse is rejected").
EffectOnce ==
  \A r, q \in Requests :
    /\ applied[r] <= 1
    /\ r # q /\ r.authority.command = q.authority.command =>
         applied[r] = 0 \/ applied[q] = 0

\* A launch or an adoption that was answered with success is in the stored
\* inventory from then on, so that the worker knows the execution after a
\* restart (persist_after).
AckedSurvives ==
  \A r \in acked : stored[r.authority.execution] # Absent
=============================================================================
