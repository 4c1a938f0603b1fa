------------------------ MODULE WorkerRegistryProofs ------------------------
(***************************************************************************)
(* Proofs about WorkerRegistry, for any number of threads, executions and  *)
(* requests.                                                               *)
(***************************************************************************)
EXTENDS WorkerRegistry, TLAPS

\* What a call in flight carries at each of its steps.
CallOK(call) ==
  /\ call.pc \in {"effect", "record"} => call.request \in Requests /\ call.binding \in Panes
  /\ call.pc = "mark" => call.request \in Requests
  /\ call.pc = "store" => call.inventory \in Inventory

CallsOK == \A t \in Threads : calls[t] # Absent => CallOK(calls[t])

\* A call about to record a mutation has applied it.
EffectBeforeRecord ==
  \A t \in Threads : InCall(t, "record") /\ ~Registers(calls[t].request) =>
    applied[calls[t].request] > 0

\* OutcomesHappened, with the recorded request known to be a delivered one.
Happened ==
  \A c \in CommandIds : outcomes[c] # Absent /\ ~Registers(outcomes[c]) =>
    outcomes[c] \in Requests /\ applied[outcomes[c]] > 0

-----------------------------------------------------------------------------
(* Shapes. *)

LEMMA RequestShape ==
  ASSUME NEW r \in Requests
  PROVE  /\ r \in Request
         /\ r # Absent
         /\ r.op \in Ops
         /\ r.authority \in Authority
         /\ r.authority.execution \in ExecutionIds
         /\ r.authority.command \in CommandIds
         /\ r.authority.term \in Terms
         /\ r.op = "adopt" => r.pane \in LocalPanes
         /\ Sequence(r.authority) \in Nat
BY RequestsAssumption, LeaseAssumption, AbsentAssumption
   DEF Request, Authority, Sequence

LEMMA FingerprintShape ==
  ASSUME NEW r \in Requests
  PROVE  /\ Fingerprint(r) \in Request
         /\ Registers(Fingerprint(r)) <=> Registers(r)
         /\ ~Registers(r) => Fingerprint(r) = r
BY RequestsAssumption DEF Request, Ops, Fingerprint, Registers

LEMMA CallShape ==
  ASSUME NEW call \in Call
  PROVE  /\ call # Absent
         /\ call.pc \in {"effect", "record", "mark", "inventory", "store"}
         /\ call.request \in Requests \cup {Absent}
         /\ call.binding \in Panes \cup {Absent}
BY AbsentAssumption DEF Call

LEMMA EntryShape ==
  ASSUME NEW entry \in Entry
  PROVE  /\ entry # Absent
         /\ entry.authority \in Authority
         /\ entry.binding \in Panes
         /\ entry.state \in States
BY AbsentAssumption DEF Entry

LEMMA InventoryUpdate ==
  ASSUME NEW inv \in Inventory, NEW e \in ExecutionIds, NEW entry \in Entry
  PROVE  [inv EXCEPT ![e] = entry] \in Inventory
BY DEF Inventory

LEMMA QuarantineShape ==
  ASSUME NEW entry \in Entry \cup {Absent}
  PROVE  Quarantine(entry) \in Entry \cup {Absent}
BY DEF Quarantine, Entry, States

LEMMA StartShape ==
  ASSUME NEW pc \in {"effect", "mark", "inventory"},
         NEW r \in Requests \cup {Absent},
         NEW b \in Panes \cup {Absent},
         pc = "effect" => r # Absent /\ b # Absent,
         pc = "mark" => r # Absent
  PROVE  LET call == [pc |-> pc, request |-> r, binding |-> b, inventory |-> Absent]
         IN call \in Call /\ CallOK(call)
BY DEF Call, CallOK

-----------------------------------------------------------------------------
(* What the parts of a step preserve. *)

IInv == TypeOK /\ CallsOK /\ EffectBeforeRecord /\ Happened

AppliedGrows ==
  /\ applied' \in [Requests -> Nat]
  /\ \A r \in Requests : applied'[r] >= applied[r]

FenceTyped == fence \in [ExecutionIds -> Lease \cup {Absent}]

CallsTyped == calls \in [Threads -> Call \cup {Absent}]

OutcomesTyped == outcomes \in [CommandIds -> Request \cup {Absent}]

\* The action formula of FenceAdvances.
FenceStep ==
  \A e \in ExecutionIds : fence[e] # Absent =>
    fence'[e] # Absent /\ NotOlder(fence[e], fence'[e])

\* The action formula of RegistrationKept.
RegistrationStep ==
  \A e \in ExecutionIds : executions[e] # Absent =>
    /\ executions'[e] # Absent
    /\ \/ executions'[e].authority = executions[e].authority
       \/ \E t \in Threads : /\ InCall(t, "record")
                             /\ calls[t].request.op = "adopt"
                             /\ executions'[e] = NewEntry(t)

LEMMA ValidateMutationStep ==
  ASSUME TypeOK, NEW r \in Requests, ValidateMutation(r.authority)
  PROVE  FenceTyped' /\ FenceStep
<1> DEFINE a == r.authority
           lease == [term |-> a.term, sequence |-> Sequence(a),
                     lease |-> a.command, accepted |-> now]
<1>1. lease \in Lease /\ lease # Absent
  BY RequestShape, LeaseAssumption, AbsentAssumption DEF Lease, TypeOK
<1>2. CASE UNCHANGED fence
  BY <1>2 DEF TypeOK, FenceTyped, FenceStep, NotOlder
<1>3. CASE /\ fence[a.execution] # Absent => Newer(a, fence[a.execution])
           /\ fence' = [fence EXCEPT ![a.execution] = lease]
  <2>1. a.execution \in ExecutionIds
    BY RequestShape
  <2>2. FenceTyped'
    BY <1>1, <1>3, <2>1 DEF TypeOK, FenceTyped
  <2>3. fence[a.execution] # Absent => NotOlder(fence[a.execution], lease)
    BY <1>3 DEF Newer, NotOlder
  <2>4. FenceStep
    BY <1>1, <1>3, <2>1, <2>3 DEF TypeOK, FenceStep, NotOlder
  <2> QED  BY <2>2, <2>4
<1> QED  BY <1>2, <1>3 DEF ValidateMutation

LEMMA CallsStep ==
  ASSUME TypeOK, CallsOK, EffectBeforeRecord, AppliedGrows,
         NEW t \in Threads, NEW call \in Call \cup {Absent},
         call # Absent => CallOK(call) /\ call.pc # "record",
         calls' = [calls EXCEPT ![t] = call]
  PROVE  CallsTyped' /\ CallsOK' /\ EffectBeforeRecord'
<1>1. CallsTyped'
  BY DEF TypeOK, CallsTyped
<1>2. CallsOK'
  BY DEF TypeOK, CallsOK
<1>3. ASSUME NEW u \in Threads, InCall(u, "record")', ~Registers(calls[u].request)'
      PROVE  (applied[calls[u].request] > 0)'
  <2>1. calls'[u] = calls[u]
    BY <1>3 DEF TypeOK, InCall
  <2>2. calls[u].request \in Requests
    BY <1>3, <2>1 DEF InCall, CallsOK, CallOK
  <2>3. applied[calls[u].request] > 0
    BY <1>3, <2>1 DEF InCall, EffectBeforeRecord
  <2> QED  BY <2>1, <2>2, <2>3 DEF AppliedGrows, TypeOK
<1> QED  BY <1>1, <1>2, <1>3 DEF EffectBeforeRecord

LEMMA HappenedKept ==
  ASSUME TypeOK, Happened, AppliedGrows, UNCHANGED outcomes
  PROVE  OutcomesTyped' /\ Happened'
<1>1. OutcomesTyped'
  BY DEF TypeOK, OutcomesTyped
<1>2. ASSUME NEW c \in CommandIds, outcomes[c] # Absent, ~Registers(outcomes[c])
      PROVE  outcomes[c] \in Requests /\ applied'[outcomes[c]] > 0
  BY <1>2 DEF Happened, AppliedGrows, TypeOK
<1> QED  BY <1>1, <1>2 DEF Happened, Registers

LEMMA RecordOutcomeStep ==
  ASSUME TypeOK, Happened, AppliedGrows, NEW r \in Requests, RecordOutcome(r),
         ~Registers(r) => applied'[r] > 0
  PROVE  OutcomesTyped' /\ Happened'
<1>1. CASE UNCHANGED outcomes
  BY <1>1, HappenedKept
<1>2. CASE outcomes' = [outcomes EXCEPT ![r.authority.command] = Fingerprint(r)]
  <2>1. OutcomesTyped'
    BY <1>2, RequestShape, FingerprintShape DEF TypeOK, OutcomesTyped
  <2>2. ASSUME NEW c \in CommandIds, outcomes'[c] # Absent, ~Registers(outcomes'[c])
        PROVE  outcomes'[c] \in Requests /\ applied'[outcomes'[c]] > 0
    <3>1. CASE c = r.authority.command
      BY <1>2, <2>2, <3>1, RequestShape, FingerprintShape DEF TypeOK
    <3>2. CASE c # r.authority.command
      BY <1>2, <2>2, <3>2 DEF Happened, AppliedGrows, TypeOK
    <3> QED  BY <3>1, <3>2
  <2> QED  BY <2>1, <2>2 DEF Happened, Registers
<1> QED  BY <1>1, <1>2 DEF RecordOutcome

-----------------------------------------------------------------------------
(* The inductive step, one lemma per group of actions. *)

\* The parts of IInv' that an action has to establish.
LEMMA Assemble ==
  ASSUME (executions \in Inventory)', FenceTyped', OutcomesTyped', Happened',
         CallsTyped', CallsOK', EffectBeforeRecord',
         (stored \in Inventory)', (alive \subseteq Panes)',
         (now \in 0 .. MaxTime)', (applied \in [Requests -> Nat])',
         (acked \subseteq Requests)'
  PROVE  IInv'
BY DEF IInv, TypeOK, FenceTyped, OutcomesTyped, CallsTyped

LEMMA AppliedUnchanged ==
  ASSUME TypeOK, UNCHANGED applied
  PROVE  AppliedGrows
BY DEF TypeOK, AppliedGrows

LEMMA AdmitStep ==
  ASSUME IInv, NEW t \in Threads, NEW r \in Requests,
         AdmitNew(t, r) \/ AdmitMutation(t, r) \/ AnswerKnown(t, r) \/ RepeatClose(t, r)
  PROVE  IInv' /\ FenceStep /\ RegistrationStep
<1> USE DEF IInv
<1>1. AppliedGrows
  BY AppliedUnchanged DEF AdmitNew, AdmitMutation, AnswerKnown, RepeatClose
<1>2. OutcomesTyped' /\ Happened'
  BY <1>1, HappenedKept DEF AdmitNew, AdmitMutation, AnswerKnown, RepeatClose
<1>3. ASSUME NEW pc \in {"effect", "mark", "inventory"},
             NEW b \in Panes \cup {Absent},
             pc = "effect" => b # Absent,
             Start(t, pc, r, b)
      PROVE  CallsTyped' /\ CallsOK' /\ EffectBeforeRecord'
  <2> DEFINE call == [pc |-> pc, request |-> r, binding |-> b, inventory |-> Absent]
  <2>1. call \in Call /\ CallOK(call) /\ call.pc # "record"
    BY <1>3, StartShape, RequestShape
  <2>2. calls' = [calls EXCEPT ![t] = call]
    BY <1>3 DEF Start
  <2> HIDE DEF call
  <2> QED  BY <1>1, <2>1, <2>2, CallsStep
<1>4. FenceTyped' /\ FenceStep
  <2>1. CASE ValidateMutation(r.authority)
    BY <2>1, ValidateMutationStep
  <2>2. CASE UNCHANGED fence
    BY <2>2 DEF TypeOK, FenceTyped, FenceStep, NotOlder
  <2> QED  BY <2>1, <2>2 DEF AdmitNew, AdmitMutation, AnswerKnown, RepeatClose
<1>5. CallsTyped' /\ CallsOK' /\ EffectBeforeRecord'
  <2>1. CASE AdmitNew(t, r)
    <3> DEFINE b == IF r.op = "adopt" THEN r.pane ELSE r.authority.execution
    <3>1. b \in Panes \cup {Absent} /\ b # Absent
      BY RequestShape, AbsentAssumption DEF Panes
    <3>2. Start(t, "effect", r, b)
      BY <2>1 DEF AdmitNew
    <3> HIDE DEF b
    <3> QED  BY <1>3, <3>1, <3>2
  <2>2. CASE AdmitMutation(t, r)
    <3> DEFINE b == executions[r.authority.execution].binding
    <3>1. b \in Panes \cup {Absent} /\ b # Absent
      BY <2>2, RequestShape, EntryShape, AbsentAssumption
         DEF AdmitMutation, Registered, TypeOK, Inventory
    <3>2. Start(t, "effect", r, b)
      BY <2>2 DEF AdmitMutation
    <3> HIDE DEF b
    <3> QED  BY <1>3, <3>1, <3>2
  <2>3. CASE AnswerKnown(t, r)
    BY <1>3, <2>3 DEF AnswerKnown
  <2>4. CASE RepeatClose(t, r)
    BY <1>3, <2>4 DEF RepeatClose
  <2> QED  BY <2>1, <2>2, <2>3, <2>4
<1>6. UNCHANGED <<executions, stored, alive, now, applied, acked>>
  BY DEF AdmitNew, AdmitMutation, AnswerKnown, RepeatClose
<1>7. RegistrationStep
  BY <1>6 DEF RegistrationStep
<1> QED  BY <1>2, <1>4, <1>5, <1>6, <1>7, Assemble DEF TypeOK

LEMMA FenceUnchanged ==
  ASSUME TypeOK, UNCHANGED fence
  PROVE  FenceTyped' /\ FenceStep
BY DEF TypeOK, FenceTyped, FenceStep, NotOlder

LEMMA EffectStep ==
  ASSUME IInv, NEW t \in Threads, EffectOnRuntime(t)
  PROVE  IInv' /\ FenceStep /\ RegistrationStep
<1> USE DEF IInv
<1> DEFINE r == calls[t].request
           pane == calls[t].binding
<1>1. /\ calls[t] \in Call
      /\ calls[t].pc = "effect"
      /\ r \in Requests
      /\ pane \in Panes
  BY DEF EffectOnRuntime, InCall, TypeOK, CallsOK, CallOK
<1>2. AppliedGrows /\ (~Registers(r) => applied'[r] > 0)
  <2>1. CASE applied' = [applied EXCEPT ![r] = @ + 1]
    BY <1>1, <2>1 DEF TypeOK, AppliedGrows
  <2>2. CASE UNCHANGED applied /\ r.op \in {"launch", "restart", "adopt"}
    BY <2>2, AppliedUnchanged DEF Registers
  <2> QED  BY <2>1, <2>2 DEF EffectOnRuntime
<1>3. OutcomesTyped' /\ Happened'
  BY <1>2, HappenedKept DEF EffectOnRuntime
<1>4. alive' \subseteq Panes
  BY <1>1 DEF EffectOnRuntime, TypeOK
<1>5. calls' = [calls EXCEPT ![t].pc = "record"]
  BY DEF EffectOnRuntime
<1>6. /\ calls'[t] \in Call
      /\ calls'[t].pc = "record"
      /\ calls'[t].request = r
      /\ calls'[t].binding = pane
      /\ \A u \in Threads \ {t} : calls'[u] = calls[u]
  BY <1>1, <1>5 DEF TypeOK, Call
<1>7. CallsTyped'
  BY <1>5, <1>6 DEF TypeOK, CallsTyped
<1>8. CallsOK'
  BY <1>1, <1>6 DEF CallsOK, CallOK
<1>9. EffectBeforeRecord'
  <2> SUFFICES ASSUME NEW u \in Threads, calls'[u] # Absent, calls'[u].pc = "record",
                      ~Registers(calls'[u].request)
               PROVE  applied'[calls'[u].request] > 0
    BY DEF EffectBeforeRecord, InCall, Registers
  <2>1. CASE u = t
    BY <1>2, <1>6, <2>1
  <2>2. CASE u # t
    BY <1>2, <1>6, <2>2 DEF CallsOK, CallOK, EffectBeforeRecord, InCall, AppliedGrows, TypeOK
  <2> QED  BY <2>1, <2>2
<1>10. UNCHANGED <<executions, fence, stored, now, acked>>
  BY DEF EffectOnRuntime
<1>11. FenceTyped' /\ FenceStep /\ RegistrationStep
  BY <1>10, FenceUnchanged DEF RegistrationStep
<1> QED
  BY <1>2, <1>3, <1>4, <1>7, <1>8, <1>9, <1>10, <1>11, Assemble DEF TypeOK, AppliedGrows

\* The steps that end a call or move it past "record".
LEMMA ReturnCalls ==
  ASSUME IInv, NEW t \in Threads, AppliedGrows,
         \/ Return(t)
         \/ \E pc \in {"mark", "inventory"}, r \in Requests : Start(t, pc, r, Absent)
         \/ Start(t, "inventory", Absent, Absent)
  PROVE  CallsTyped' /\ CallsOK' /\ EffectBeforeRecord'
<1> USE DEF IInv
<1>1. CASE Return(t)
  BY <1>1, CallsStep DEF Return
<1>2. ASSUME NEW pc \in {"mark", "inventory"}, NEW r \in Requests \cup {Absent},
             pc = "mark" => r # Absent, Start(t, pc, r, Absent)
      PROVE  CallsTyped' /\ CallsOK' /\ EffectBeforeRecord'
  <2> DEFINE call == [pc |-> pc, request |-> r, binding |-> Absent, inventory |-> Absent]
  <2>1. call \in Call /\ CallOK(call) /\ call.pc # "record"
    BY <1>2, StartShape
  <2>2. calls' = [calls EXCEPT ![t] = call]
    BY <1>2 DEF Start
  <2> HIDE DEF call
  <2> QED  BY <2>1, <2>2, CallsStep
<1> QED  BY <1>1, <1>2, RequestShape

LEMMA EffectFailsStep ==
  ASSUME IInv, NEW t \in Threads, EffectFails(t)
  PROVE  IInv' /\ FenceStep /\ RegistrationStep
<1> USE DEF IInv
<1>1. calls[t].binding \in Panes
  BY DEF EffectFails, InCall, TypeOK, CallsOK, CallOK
<1>2. AppliedGrows
  BY AppliedUnchanged DEF EffectFails
<1>3. CallsTyped' /\ CallsOK' /\ EffectBeforeRecord'
  BY <1>2, ReturnCalls DEF EffectFails
<1>4. OutcomesTyped' /\ Happened'
  BY <1>2, HappenedKept DEF EffectFails
<1>5. alive' \subseteq Panes
  BY <1>1 DEF EffectFails, TypeOK
<1>6. FenceTyped' /\ FenceStep /\ RegistrationStep
  BY FenceUnchanged DEF EffectFails, RegistrationStep
<1> QED  BY <1>3, <1>4, <1>5, <1>6, Assemble DEF EffectFails, TypeOK

LEMMA RecordingCall ==
  ASSUME IInv, NEW t \in Threads, InCall(t, "record")
  PROVE  /\ calls[t].request \in Requests
         /\ NewEntry(t) \in Entry
         /\ ~Registers(calls[t].request) => applied[calls[t].request] > 0
<1>1. calls[t].request \in Requests /\ calls[t].binding \in Panes
  BY DEF IInv, InCall, CallsOK, CallOK
<1>2. NewEntry(t) \in Entry
  BY <1>1, RequestShape DEF NewEntry, Entry, States
<1> QED  BY <1>1, <1>2 DEF IInv, EffectBeforeRecord

LEMMA InsertStep ==
  ASSUME IInv, NEW t \in Threads, InCall(t, "record"),
         Insert(t) \/ UNCHANGED executions
  PROVE  executions' \in Inventory /\ RegistrationStep
<1> DEFINE f == calls[t].request.authority.execution
<1>1. f \in ExecutionIds /\ NewEntry(t) \in Entry /\ NewEntry(t) # Absent
  BY RecordingCall, RequestShape, EntryShape
<1>2. CASE UNCHANGED executions
  BY <1>2 DEF IInv, TypeOK, RegistrationStep
<1>3. CASE /\ calls[t].request.op = "adopt" \/ executions[f] = Absent
           /\ executions' = [executions EXCEPT ![f] = NewEntry(t)]
  <2>1. executions' \in Inventory
    BY <1>1, <1>3, InventoryUpdate DEF IInv, TypeOK
  <2>2. executions'[f] = NewEntry(t)
        /\ \A e \in ExecutionIds \ {f} : executions'[e] = executions[e]
    BY <1>1, <1>3 DEF IInv, TypeOK, Inventory
  <2>3. RegistrationStep
    BY <1>1, <1>3, <2>2 DEF RegistrationStep
  <2> QED  BY <2>1, <2>3
<1> QED  BY <1>2, <1>3 DEF Insert

LEMMA RecordStep ==
  ASSUME IInv, NEW t \in Threads, RecordRegistration(t) \/ RecordMutation(t)
  PROVE  IInv' /\ FenceStep /\ RegistrationStep
<1> DEFINE r == calls[t].request
<1>1. InCall(t, "record")
  BY DEF RecordRegistration, RecordMutation
<1>2. r \in Requests /\ (~Registers(r) => applied[r] > 0)
  BY <1>1, RecordingCall
<1>3. TypeOK /\ Happened /\ AppliedGrows /\ UNCHANGED applied
  BY AppliedUnchanged DEF IInv, RecordRegistration, RecordMutation
<1>4. OutcomesTyped' /\ Happened'
  <2>1. CASE RecordOutcome(r)
    BY <1>2, <1>3, <2>1, RecordOutcomeStep
  <2>2. CASE UNCHANGED outcomes
    BY <1>3, <2>2, HappenedKept
  <2> QED  BY <2>1, <2>2 DEF RecordRegistration, RecordMutation
<1>5. CallsTyped' /\ CallsOK' /\ EffectBeforeRecord'
  <2>1. \/ Return(t)
        \/ Start(t, "inventory", r, Absent)
        \/ Start(t, "mark", r, Absent)
    BY DEF RecordRegistration, RecordMutation
  <2> QED  BY <1>2, <1>3, <2>1, ReturnCalls
<1>6. executions' \in Inventory /\ RegistrationStep
  BY <1>1, InsertStep DEF RecordRegistration, RecordMutation
<1>7. UNCHANGED <<fence, stored, alive, now, applied, acked>>
  BY DEF RecordRegistration, RecordMutation
<1>8. FenceTyped' /\ FenceStep
  BY <1>3, <1>7, FenceUnchanged
<1> QED  BY <1>3, <1>4, <1>5, <1>6, <1>7, <1>8, Assemble DEF TypeOK

LEMMA MarkStep ==
  ASSUME IInv, NEW t \in Threads, MarkClosed(t)
  PROVE  IInv' /\ FenceStep /\ RegistrationStep
<1> USE DEF IInv
<1> DEFINE f == calls[t].request.authority.execution
<1>1. f \in ExecutionIds
  BY RequestShape DEF MarkClosed, InCall, CallsOK, CallOK
<1>2. AppliedGrows
  BY AppliedUnchanged DEF MarkClosed
<1>3. CallsTyped' /\ CallsOK' /\ EffectBeforeRecord'
  BY <1>2, ReturnCalls DEF MarkClosed
<1>4. OutcomesTyped' /\ Happened'
  BY <1>2, HappenedKept DEF MarkClosed
<1>5. executions' \in Inventory /\ RegistrationStep
  <2>1. CASE UNCHANGED executions
    BY <2>1 DEF TypeOK, RegistrationStep
  <2>2. CASE executions[f] # Absent /\ executions' = [executions EXCEPT ![f].state = "closed"]
    <3>1. /\ executions[f] \in Entry
          /\ executions' = [executions EXCEPT ![f] = [executions[f] EXCEPT !.state = "closed"]]
      BY <1>1, <2>2 DEF TypeOK, Inventory
    <3> DEFINE entry == [executions[f] EXCEPT !.state = "closed"]
    <3>2. entry \in Entry /\ entry.authority = executions[f].authority
      BY <3>1 DEF Entry, States
    <3>3. executions' = [executions EXCEPT ![f] = entry]
      BY <3>1
    <3> HIDE DEF entry
    <3>4. executions' \in Inventory
      BY <1>1, <3>2, <3>3, InventoryUpdate DEF TypeOK
    <3>5. \A e \in ExecutionIds : executions'[e] = IF e = f THEN entry ELSE executions[e]
      BY <1>1, <3>3 DEF TypeOK, Inventory
    <3>6. RegistrationStep
      BY <3>2, <3>5, EntryShape DEF RegistrationStep
    <3> QED  BY <3>4, <3>6
  <2> QED  BY <2>1, <2>2 DEF MarkClosed
<1>6. FenceTyped' /\ FenceStep
  BY FenceUnchanged DEF MarkClosed
<1> QED  BY <1>3, <1>4, <1>5, <1>6, Assemble DEF MarkClosed, TypeOK

LEMMA ReadInventoryStep ==
  ASSUME IInv, NEW t \in Threads, ReadInventory(t)
  PROVE  IInv' /\ FenceStep /\ RegistrationStep
<1> USE DEF IInv
<1>1. calls[t] \in Call /\ executions \in Inventory
  BY DEF ReadInventory, InCall, TypeOK
<1> DEFINE first == [calls[t] EXCEPT !.pc = "store"]
           call == [first EXCEPT !.inventory = executions]
<1>2. first \in Call /\ first.pc = "store"
  BY <1>1 DEF Call
<1>3. calls' = [calls EXCEPT ![t] = call]
  BY <1>1 DEF ReadInventory, TypeOK
<1> HIDE DEF first
<1>4. call \in Call /\ CallOK(call) /\ call.pc # "record"
  BY <1>1, <1>2 DEF Call, CallOK
<1> HIDE DEF call
<1>5. AppliedGrows
  BY AppliedUnchanged DEF ReadInventory
<1>6. CallsTyped' /\ CallsOK' /\ EffectBeforeRecord'
  BY <1>3, <1>4, <1>5, CallsStep
<1>7. OutcomesTyped' /\ Happened'
  BY <1>5, HappenedKept DEF ReadInventory
<1>8. FenceTyped' /\ FenceStep /\ RegistrationStep
  BY FenceUnchanged DEF ReadInventory, RegistrationStep
<1> QED  BY <1>6, <1>7, <1>8, Assemble DEF ReadInventory, TypeOK

LEMMA StoreStep ==
  ASSUME IInv, NEW t \in Threads, StoreInventory(t) \/ StoreFails(t)
  PROVE  IInv' /\ FenceStep /\ RegistrationStep
<1> USE DEF IInv
<1>1. calls[t].inventory \in Inventory /\ calls[t].request \in Requests \cup {Absent}
  BY CallShape DEF StoreInventory, StoreFails, InCall, TypeOK, CallsOK, CallOK
<1>2. AppliedGrows
  BY AppliedUnchanged DEF StoreInventory, StoreFails
<1>3. CallsTyped' /\ CallsOK' /\ EffectBeforeRecord'
  BY <1>2, ReturnCalls DEF StoreInventory, StoreFails
<1>4. OutcomesTyped' /\ Happened'
  BY <1>2, HappenedKept DEF StoreInventory, StoreFails
<1>5. stored' \in Inventory /\ acked' \subseteq Requests
  BY <1>1 DEF StoreInventory, StoreFails, TypeOK
<1>6. FenceTyped' /\ FenceStep /\ RegistrationStep
  BY FenceUnchanged DEF StoreInventory, StoreFails, RegistrationStep
<1> QED
  BY <1>3, <1>4, <1>5, <1>6, Assemble DEF StoreInventory, StoreFails, TypeOK

LEMMA MatchedShape ==
  ASSUME NEW e \in ExecutionIds, NEW entry \in Entry \cup {Absent},
         NEW listed \in Listing(e), listed # Absent
  PROVE  /\ Matched(entry, listed, alive) \in Entry
         /\ entry # Absent => Matched(entry, listed, alive).authority = entry.authority
<1>1. listed.authority \in Authority /\ listed.binding \in Panes
  BY RequestShape DEF Listing, Panes
<1>2. /\ Present(listed, alive) \in Entry
      /\ Present(listed, alive).authority = listed.authority
  BY <1>1 DEF Present, Entry, States
<1>3. entry # Absent => /\ Quarantine(entry) \in Entry
                        /\ Quarantine(entry).authority = entry.authority
  BY DEF Quarantine, Entry, States
<1> QED  BY <1>2, <1>3 DEF Matched

LEMMA ReconcileTable ==
  ASSUME IInv, NEW list \in Lists,
         \/ executions' = [e \in ExecutionIds |->
                             IF list[e] = Absent THEN Quarantine(executions[e])
                             ELSE Matched(executions[e], list[e], alive)]
         \/ executions' = [e \in ExecutionIds |->
                             IF list[e] = Absent THEN executions[e]
                             ELSE Matched(executions[e], list[e], alive)]
  PROVE  executions' \in Inventory /\ RegistrationStep
<1>1. ASSUME NEW e \in ExecutionIds
      PROVE  /\ executions'[e] \in Entry \cup {Absent}
             /\ executions[e] # Absent =>
                  /\ executions'[e] # Absent
                  /\ executions'[e].authority = executions[e].authority
  <2>1. executions[e] \in Entry \cup {Absent}
    BY DEF IInv, TypeOK, Inventory
  <2>2. list[e] \in Listing(e)
    BY DEF Lists
  <2>3. CASE list[e] # Absent
    BY <2>1, <2>2, <2>3, MatchedShape, EntryShape
  <2>4. CASE list[e] = Absent
    <3>1. executions[e] # Absent =>
            /\ Quarantine(executions[e]) \in Entry
            /\ Quarantine(executions[e]).authority = executions[e].authority
      BY <2>1 DEF Quarantine, Entry, States
    <3>2. executions[e] = Absent => Quarantine(executions[e]) = Absent
      BY DEF Quarantine
    <3> QED  BY <2>1, <2>4, <3>1, <3>2, EntryShape
  <2> QED  BY <2>3, <2>4
<1>2. executions' \in Inventory
  BY <1>1 DEF Inventory
<1> QED  BY <1>1, <1>2 DEF RegistrationStep

LEMMA ReconcileStep ==
  ASSUME IInv, NEW t \in Threads, NEW list \in Lists,
         Reconcile(t, list) \/ ReconcileFails(t, list)
  PROVE  IInv' /\ FenceStep /\ RegistrationStep
<1>1. executions' \in Inventory /\ RegistrationStep
  BY ReconcileTable DEF Reconcile, ReconcileFails
<1>2. TypeOK /\ Happened /\ AppliedGrows
  BY AppliedUnchanged DEF IInv, Reconcile, ReconcileFails
<1>3. CallsTyped' /\ CallsOK' /\ EffectBeforeRecord'
  <2>1. CASE Reconcile(t, list)
    BY <1>2, <2>1, ReturnCalls DEF Reconcile
  <2>2. CASE ReconcileFails(t, list)
    BY <2>2 DEF ReconcileFails, IInv, TypeOK, CallsTyped, CallsOK,
                EffectBeforeRecord, InCall
  <2> QED  BY <2>1, <2>2
<1>4. OutcomesTyped' /\ Happened'
  BY <1>2, HappenedKept DEF Reconcile, ReconcileFails
<1>5. FenceTyped' /\ FenceStep
  BY <1>2, FenceUnchanged DEF Reconcile, ReconcileFails
<1>6. UNCHANGED <<stored, alive, now, applied, acked>>
  BY DEF Reconcile, ReconcileFails
<1> QED  BY <1>1, <1>2, <1>3, <1>4, <1>5, <1>6, Assemble DEF TypeOK

LEMMA ClockOrPaneStep ==
  ASSUME IInv, Tick \/ \E p \in Panes : PaneGone(p)
  PROVE  IInv' /\ FenceStep /\ RegistrationStep
<1>1. UNCHANGED <<executions, fence, outcomes, calls, stored, applied, acked>>
  BY DEF Tick, PaneGone
<1>2. alive' \subseteq Panes /\ now' \in 0 .. MaxTime
  BY LeaseAssumption DEF IInv, TypeOK, Tick, PaneGone
<1>3. TypeOK'
  BY <1>1, <1>2 DEF IInv, TypeOK
<1>4. CallsOK' /\ EffectBeforeRecord' /\ Happened'
  BY <1>1 DEF IInv, CallsOK, EffectBeforeRecord, InCall, Happened
<1>5. FenceStep /\ RegistrationStep
  BY <1>1 DEF FenceStep, NotOlder, RegistrationStep
<1> QED  BY <1>3, <1>4, <1>5 DEF IInv

LEMMA CrashStep ==
  ASSUME IInv, Crash
  PROVE  IInv'
<1> PICK panes \in SUBSET alive :
         /\ alive' = panes
         /\ executions' = [e \in ExecutionIds |->
                             IF stored[e] = Absent THEN Absent
                             ELSE Present(stored[e], panes)]
  BY DEF Crash
<1>1. executions' \in Inventory
  <2>1. ASSUME NEW e \in ExecutionIds, stored[e] # Absent
        PROVE  Present(stored[e], panes) \in Entry
    BY <2>1, EntryShape DEF IInv, TypeOK, Inventory, Present, Entry, States
  <2> QED  BY <2>1 DEF Inventory
<1>2. UNCHANGED <<stored, acked>>
  BY DEF Crash
<1>3. FenceTyped' /\ OutcomesTyped' /\ CallsTyped'
  BY DEF Crash, FenceTyped, OutcomesTyped, CallsTyped
<1>4. (now \in 0 .. MaxTime)' /\ (applied \in [Requests -> Nat])'
  BY LeaseAssumption DEF Crash
<1>5. Happened' /\ CallsOK' /\ EffectBeforeRecord'
  BY DEF Crash, Happened, CallsOK, EffectBeforeRecord, InCall
<1> QED  BY <1>1, <1>2, <1>3, <1>4, <1>5, Assemble DEF IInv, TypeOK

LEMMA NextStep ==
  ASSUME IInv, Next
  PROVE  IInv' /\ (~Crash => FenceStep /\ RegistrationStep)
<1>1. ASSUME NEW t \in Threads, Admit(t)
      PROVE  IInv' /\ FenceStep /\ RegistrationStep
  BY <1>1, AdmitStep DEF Admit
<1>2. ASSUME NEW t \in Threads, Proceed(t)
      PROVE  IInv' /\ FenceStep /\ RegistrationStep
  BY <1>2, EffectStep, EffectFailsStep, RecordStep, MarkStep, ReadInventoryStep,
     StoreStep DEF Proceed
<1>3. ASSUME Environment
      PROVE  IInv' /\ (~Crash => FenceStep /\ RegistrationStep)
  BY <1>3, CrashStep, ClockOrPaneStep, ReconcileStep, RequestsAssumption DEF Environment
<1> QED  BY <1>1, <1>2, <1>3 DEF Next

LEMMA StutterStep ==
  ASSUME IInv, UNCHANGED vars
  PROVE  IInv' /\ FenceStep /\ RegistrationStep
BY DEF IInv, vars, TypeOK, CallsOK, EffectBeforeRecord, InCall, Happened,
       FenceStep, NotOlder, RegistrationStep

LEMMA InitInv == Init => IInv
<1> SUFFICES ASSUME Init PROVE IInv
  OBVIOUS
<1>1. TypeOK
  BY LeaseAssumption DEF Init, TypeOK, Inventory, Panes
<1>2. CallsOK /\ EffectBeforeRecord /\ Happened
  BY DEF Init, CallsOK, EffectBeforeRecord, InCall, Happened
<1> QED  BY <1>1, <1>2 DEF IInv

-----------------------------------------------------------------------------
(* Results. *)

LEMMA Invariance == Spec => []IInv
<1>1. IInv /\ [Next]_vars => IInv'
  BY NextStep, StutterStep
<1> QED  BY InitInv, <1>1, PTL DEF Spec

\* Every state of a worker - registry, fence, calls in flight between lock
\* releases, stored inventory - has its shape, over crashes and restarts.
THEOREM TypeCorrect == Spec => []TypeOK
<1>1. IInv => TypeOK
  BY DEF IInv
<1> QED  BY Invariance, <1>1, PTL

\* While a process lives, validate_mutation never takes an execution's
\* watermark back, for any interleaving of calls.
THEOREM FenceCorrect == Spec => FenceAdvances
<1>1. IInv /\ [Next]_vars =>
        [~Crash => \A e \in ExecutionIds : fence[e] # Absent =>
           fence'[e] # Absent /\ NotOlder(fence[e], fence'[e])]_vars
  BY NextStep DEF FenceStep
<1> QED  BY Invariance, <1>1, PTL DEF Spec, FenceAdvances

\* While a process lives, the registration of an execution is never lost and
\* never passes to another authority, except to an adoption admitted earlier.
THEOREM RegistrationCorrect == Spec => RegistrationKept
<1>1. IInv /\ [Next]_vars =>
        [~Crash => \A e \in ExecutionIds : executions[e] # Absent =>
           /\ executions'[e] # Absent
           /\ \/ executions'[e].authority = executions[e].authority
              \/ \E t \in Threads : /\ InCall(t, "record")
                                    /\ calls[t].request.op = "adopt"
                                    /\ executions'[e] = NewEntry(t)]_vars
  BY NextStep DEF RegistrationStep
<1> QED  BY Invariance, <1>1, PTL DEF Spec, RegistrationKept

\* An input or a close recorded as done was done by this process.
THEOREM OutcomesCorrect == Spec => []OutcomesHappened
<1>1. IInv => OutcomesHappened
  BY DEF IInv, Happened, OutcomesHappened
<1> QED  BY Invariance, <1>1, PTL
=============================================================================
