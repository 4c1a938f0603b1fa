------------------------- MODULE WorkerSerialProofs -------------------------
(***************************************************************************)
(* What a worker guarantees when its calls are kept apart.  Two invariants *)
(* of WorkerRegistry fail for calls that overlap; the theorems below hold  *)
(* for any number of concurrent calls and name the overlap that has to be  *)
(* excluded: calls of one command between admission and recording for the  *)
(* one, calls between reading and writing the inventory for the other.     *)
(***************************************************************************)
EXTENDS WorkerRegistryProofs

\* A call past its admission that has not recorded its outcome.
Working(t) == InCall(t, "effect") \/ InCall(t, "record")

CommandOf(t) == calls[t].request.authority.command

\* No two calls of one command are between admission and recording.
CommandsApart ==
  \A t, u \in Threads : Working(t) /\ Working(u) /\ CommandOf(t) = CommandOf(u) => t = u

\* No two calls are between reading the inventory and writing it.
StoresApart == \A t, u \in Threads : InCall(t, "store") /\ InCall(u, "store") => t = u

-----------------------------------------------------------------------------
(* Effects. *)

\* A call admitted as new finds its command still unrecorded when it records.
WorkIsNew == \A t \in Threads : Working(t) => outcomes[CommandOf(t)] = Absent

\* An effect that happened is recorded under its command, or about to be.
Accounted(r) ==
  \/ outcomes[r.authority.command] = r
  \/ \E t \in Threads : InCall(t, "record") /\ calls[t].request = r

\* Only inputs and closes count, each once, and none is forgotten.
EffectsAccounted ==
  \A r \in Requests : applied[r] # 0 =>
    applied[r] = 1 /\ ~Registers(r) /\ Accounted(r)

EffectInv == WorkIsNew /\ EffectsAccounted

-----------------------------------------------------------------------------
(* Registrations. *)

Covers(inventory, e) == inventory[e] # Absent

\* The registry has everything that is stored.
RegistryCoversStore == \A e \in ExecutionIds : Covers(stored, e) => Covers(executions, e)

\* A recorded launch or adoption is registered.
RecordedIsRegistered ==
  \A c \in CommandIds : outcomes[c] # Absent /\ Registers(outcomes[c]) =>
    Covers(executions, outcomes[c].authority.execution)

RegistryInv == RegistryCoversStore /\ RecordedIsRegistered

\* A call about to read the inventory will find its own execution in it.  One
\* about to write has read everything that is stored by now and its own
\* execution, and what it has read is still registered.
CallCovers(call, registry, store) ==
  /\ call.pc = "inventory" /\ call.request # Absent =>
       Covers(registry, call.request.authority.execution)
  /\ call.pc = "store" =>
       /\ \A e \in ExecutionIds :
            /\ Covers(store, e) => Covers(call.inventory, e)
            /\ Covers(call.inventory, e) => Covers(registry, e)
       /\ call.request # Absent =>
            Covers(call.inventory, call.request.authority.execution)

CallsCover ==
  \A t \in Threads : calls[t] # Absent => CallCovers(calls[t], executions, stored)

StoreInv == RegistryInv /\ CallsCover /\ AckedSurvives

-----------------------------------------------------------------------------
(* The steps of a call and its effects. *)

\* A step that applies and records nothing, and does not drop a mutation
\* that is about to be recorded.
LEMMA EffectsKept ==
  ASSUME TypeOK, EffectInv, UNCHANGED <<outcomes, applied>>,
         NEW t \in Threads, NEW call,
         calls' = [calls EXCEPT ![t] = call],
         InCall(t, "record") => Registers(calls[t].request),
         call # Absent /\ call.pc \in {"effect", "record"} =>
           outcomes[call.request.authority.command] = Absent
  PROVE  EffectInv'
<1>1. calls'[t] = call /\ \A u \in Threads \ {t} : calls'[u] = calls[u]
  BY DEF TypeOK
<1>2. WorkIsNew'
  BY <1>1 DEF EffectInv, WorkIsNew, Working, InCall, CommandOf
<1>3. ASSUME NEW r \in Requests, applied[r] # 0
      PROVE  applied[r] = 1 /\ ~Registers(r) /\ Accounted(r)'
  <2>1. applied[r] = 1 /\ ~Registers(r) /\ Accounted(r)
    BY <1>3 DEF EffectInv, EffectsAccounted
  <2>2. ASSUME NEW u \in Threads, InCall(u, "record"), calls[u].request = r
        PROVE  Accounted(r)'
    BY <1>1, <2>1, <2>2 DEF Accounted, InCall
  <2> QED  BY <2>1, <2>2 DEF Accounted
<1>4. EffectsAccounted'
  BY <1>3 DEF EffectsAccounted, Registers
<1> QED  BY <1>2, <1>4 DEF EffectInv

LEMMA AdmitEffects ==
  ASSUME IInv, EffectInv, NEW t \in Threads, NEW r \in Requests,
         AdmitNew(t, r) \/ AdmitMutation(t, r) \/ AnswerKnown(t, r) \/ RepeatClose(t, r)
  PROVE  EffectInv'
<1>1. TypeOK /\ ~InCall(t, "record") /\ UNCHANGED <<outcomes, applied>>
  BY DEF IInv, AdmitNew, AdmitMutation, AnswerKnown, RepeatClose, Idle, InCall
<1>2. ASSUME NEW pc, NEW b, Start(t, pc, r, b),
             pc \in {"effect", "record"} => Unrecorded(r)
      PROVE  EffectInv'
  BY <1>1, <1>2, EffectsKept DEF Start, Unrecorded
<1> QED  BY <1>2 DEF AdmitNew, AdmitMutation, AnswerKnown, RepeatClose

\* Here the command must have no other call at work.
LEMMA EffectEffects ==
  ASSUME IInv, EffectInv, CommandsApart, NEW t \in Threads, EffectOnRuntime(t)
  PROVE  EffectInv'
<1> DEFINE r == calls[t].request
<1>1. /\ calls[t] \in Call
      /\ InCall(t, "effect")
      /\ r \in Requests
      /\ r.authority.command \in CommandIds
      /\ UNCHANGED outcomes
      /\ calls' = [calls EXCEPT ![t].pc = "record"]
  BY RequestShape DEF EffectOnRuntime, IInv, InCall, TypeOK, CallsOK, CallOK
<1>2. /\ calls'[t] # Absent
      /\ calls'[t].pc = "record"
      /\ calls'[t].request = r
      /\ \A u \in Threads \ {t} : calls'[u] = calls[u]
  BY <1>1, CallShape DEF IInv, TypeOK, Call
<1>3. outcomes[r.authority.command] = Absent
  BY <1>1 DEF EffectInv, WorkIsNew, Working, CommandOf
<1>4. applied[r] = 0
  <2> SUFFICES ASSUME applied[r] # 0 PROVE FALSE
    OBVIOUS
  <2>1. Accounted(r) /\ r # Absent
    BY <1>1, RequestShape DEF EffectInv, EffectsAccounted
  <2>2. PICK u \in Threads : InCall(u, "record") /\ calls[u].request = r
    BY <1>3, <2>1 DEF Accounted
  <2>3. u = t
    BY <1>1, <2>2 DEF CommandsApart, Working, CommandOf
  <2> QED  BY <1>1, <2>2, <2>3 DEF InCall
<1>5. WorkIsNew'
  BY <1>1, <1>2, <1>3 DEF EffectInv, WorkIsNew, Working, InCall, CommandOf
<1>6. /\ \A q \in Requests \ {r} : applied'[q] = applied[q]
      /\ applied'[r] # 0 => applied'[r] = 1 /\ ~Registers(r)
  <2>1. CASE UNCHANGED applied
    BY <1>4, <2>1
  <2>2. CASE r.op \in {"input", "close"} /\ applied' = [applied EXCEPT ![r] = @ + 1]
    BY <1>1, <1>4, <2>2 DEF IInv, TypeOK, Registers
  <2> QED  BY <2>1, <2>2 DEF EffectOnRuntime
<1>7. ASSUME NEW q \in Requests, applied'[q] # 0
      PROVE  applied'[q] = 1 /\ ~Registers(q) /\ Accounted(q)'
  <2>1. CASE q = r
    BY <1>2, <1>6, <1>7, <2>1 DEF Accounted, InCall
  <2>2. CASE q # r
    <3>1. applied'[q] = 1 /\ ~Registers(q) /\ Accounted(q)
      BY <1>6, <1>7, <2>2 DEF EffectInv, EffectsAccounted
    <3>2. ASSUME NEW u \in Threads, InCall(u, "record"), calls[u].request = q
          PROVE  Accounted(q)'
      BY <1>1, <1>2, <3>2 DEF Accounted, InCall
    <3> QED  BY <1>1, <3>1, <3>2 DEF Accounted
  <2> QED  BY <2>1, <2>2
<1>8. EffectsAccounted'
  BY <1>7 DEF EffectsAccounted, Registers
<1> QED  BY <1>5, <1>8 DEF EffectInv

\* And here no other call at work may wait for this command's outcome.
LEMMA RecordEffects ==
  ASSUME IInv, EffectInv, CommandsApart, NEW t \in Threads,
         RecordRegistration(t) \/ RecordMutation(t)
  PROVE  EffectInv'
<1> DEFINE r == calls[t].request
<1>1. /\ InCall(t, "record")
      /\ r \in Requests
      /\ r.authority.command \in CommandIds
      /\ UNCHANGED applied
  BY RecordingCall, RequestShape DEF RecordRegistration, RecordMutation
<1>2. PICK call : /\ calls' = [calls EXCEPT ![t] = call]
                  /\ call # Absent => call.pc \in {"mark", "inventory"}
  BY DEF RecordRegistration, RecordMutation, Return, Start
<1>3. CASE UNCHANGED outcomes /\ Registers(r)
  BY <1>1, <1>2, <1>3, EffectsKept DEF IInv
<1>4. CASE RecordOutcome(r)
  <2>1. outcomes[r.authority.command] = Absent
    BY <1>1 DEF EffectInv, WorkIsNew, Working, CommandOf
  <2>2. /\ outcomes'[r.authority.command] = Fingerprint(r)
        /\ \A c \in CommandIds \ {r.authority.command} : outcomes'[c] = outcomes[c]
    BY <1>1, <1>4, <2>1 DEF RecordOutcome, Unrecorded, IInv, TypeOK
  <2>3. calls'[t] = call /\ \A u \in Threads \ {t} : calls'[u] = calls[u]
    BY <1>2 DEF IInv, TypeOK
  <2>4. ASSUME NEW u \in Threads, Working(u)'
        PROVE  (outcomes[CommandOf(u)] = Absent)'
    <3>1. u # t /\ calls'[u] = calls[u] /\ Working(u)
      BY <1>2, <2>3, <2>4 DEF Working, InCall
    <3>2. CommandOf(u) \in CommandIds /\ CommandOf(u) # r.authority.command
      BY <1>1, <3>1, RequestShape
         DEF IInv, CallsOK, CallOK, Working, InCall, CommandOf, CommandsApart
    <3>3. outcomes[CommandOf(u)] = Absent
      BY <3>1 DEF EffectInv, WorkIsNew
    <3> QED  BY <2>2, <3>1, <3>2, <3>3 DEF CommandOf
  <2>5. ASSUME NEW q \in Requests, applied'[q] # 0
        PROVE  applied'[q] = 1 /\ ~Registers(q) /\ Accounted(q)'
    <3>1. applied'[q] = 1 /\ ~Registers(q) /\ Accounted(q) /\ q # Absent
          /\ q.authority.command \in CommandIds
      BY <1>1, <2>5, RequestShape DEF EffectInv, EffectsAccounted
    <3>2. CASE outcomes[q.authority.command] = q
      BY <2>1, <2>2, <3>1, <3>2 DEF Accounted
    <3>3. ASSUME NEW u \in Threads, InCall(u, "record"), calls[u].request = q
          PROVE  Accounted(q)'
      <4>1. CASE u = t
        BY <1>1, <2>2, <3>1, <3>3, <4>1, FingerprintShape DEF Accounted
      <4>2. CASE u # t
        BY <2>3, <3>3, <4>2 DEF Accounted, InCall
      <4> QED  BY <4>1, <4>2
    <3> QED  BY <3>1, <3>2, <3>3 DEF Accounted
  <2>6. WorkIsNew' /\ EffectsAccounted'
    BY <2>4, <2>5 DEF WorkIsNew, EffectsAccounted, Registers
  <2> QED  BY <2>6 DEF EffectInv
<1> QED  BY <1>3, <1>4 DEF RecordRegistration, RecordMutation

LEMMA OtherEffects ==
  ASSUME IInv, EffectInv, NEW t \in Threads,
         \/ EffectFails(t) \/ MarkClosed(t) \/ ReadInventory(t)
         \/ StoreInventory(t) \/ StoreFails(t)
         \/ \E list \in Lists : Reconcile(t, list)
  PROVE  EffectInv'
<1>1. TypeOK /\ ~InCall(t, "record") /\ UNCHANGED <<outcomes, applied>>
  BY DEF IInv, EffectFails, MarkClosed, ReadInventory, StoreInventory, StoreFails,
         Reconcile, Idle, InCall
<1>2. CASE Return(t)
  BY <1>1, <1>2, EffectsKept DEF Return
<1>3. CASE Start(t, "inventory", Absent, Absent)
  BY <1>1, <1>3, EffectsKept DEF Start
<1>4. CASE ReadInventory(t)
  <2> DEFINE first == [calls[t] EXCEPT !.pc = "store"]
             call == [first EXCEPT !.inventory = executions]
  <2>1. calls[t] \in Call
    BY <1>4 DEF ReadInventory, InCall, IInv, TypeOK
  <2>2. first \in Call /\ first.pc = "store"
    BY <2>1 DEF Call
  <2>3. calls' = [calls EXCEPT ![t] = call]
    BY <1>4 DEF ReadInventory, IInv, TypeOK
  <2> HIDE DEF first
  <2>4. call.pc = "store"
    BY <2>2 DEF Call
  <2> HIDE DEF call
  <2> QED  BY <1>1, <2>3, <2>4, EffectsKept
<1> QED
  BY <1>2, <1>3, <1>4 DEF EffectFails, MarkClosed, StoreInventory, StoreFails, Reconcile

LEMMA QuietEffects ==
  ASSUME EffectInv, UNCHANGED <<calls, outcomes, applied>>
  PROVE  EffectInv'
BY DEF EffectInv, WorkIsNew, EffectsAccounted, Accounted, Working, InCall, CommandOf

LEMMA ResetEffects ==
  ASSUME calls = [t \in Threads |-> Absent], applied = [r \in Requests |-> 0]
  PROVE  EffectInv
BY DEF EffectInv, WorkIsNew, EffectsAccounted, Working, InCall

LEMMA NextEffects ==
  ASSUME IInv, EffectInv, CommandsApart, [Next]_vars
  PROVE  EffectInv'
<1>1. ASSUME NEW t \in Threads, Admit(t) PROVE EffectInv'
  BY <1>1, AdmitEffects DEF Admit
<1>2. ASSUME NEW t \in Threads, Proceed(t) PROVE EffectInv'
  BY <1>2, EffectEffects, RecordEffects, OtherEffects DEF Proceed
<1>3. CASE Crash
  <2>1. calls' = [t \in Threads |-> Absent] /\ applied' = [r \in Requests |-> 0]
    BY <1>3 DEF Crash
  <2> QED
    BY <2>1 DEF EffectInv, WorkIsNew, EffectsAccounted, Working, InCall
<1>4. CASE Tick \/ (\E p \in Panes : PaneGone(p)) \/ UNCHANGED vars
  BY <1>4, QuietEffects DEF Tick, PaneGone, vars
<1>5. ASSUME NEW t \in Reconcilers, NEW list \in Lists,
             Reconcile(t, list) \/ ReconcileFails(t, list)
      PROVE  EffectInv'
  <2>1. t \in Threads
    BY RequestsAssumption
  <2> QED  BY <1>5, <2>1, OtherEffects, QuietEffects DEF ReconcileFails
<1> QED  BY <1>1, <1>2, <1>3, <1>4, <1>5 DEF Next, Environment

LEMMA EffectInvGivesOnce ==
  ASSUME TypeOK, EffectInv, CommandsApart
  PROVE  EffectOnce
<1>1. ASSUME NEW r \in Requests PROVE applied[r] <= 1
  BY DEF TypeOK, EffectInv, EffectsAccounted
<1>2. ASSUME NEW r \in Requests, NEW q \in Requests,
             r.authority.command = q.authority.command,
             applied[r] # 0, applied[q] # 0
      PROVE  r = q
  <2>1. Accounted(r) /\ Accounted(q) /\ r # Absent /\ q # Absent
    BY <1>2, RequestShape DEF EffectInv, EffectsAccounted
  <2>2. ASSUME NEW t \in Threads, InCall(t, "record"),
               calls[t].request \in {r, q}
        PROVE  outcomes[r.authority.command] = Absent
    BY <1>2, <2>2 DEF EffectInv, WorkIsNew, Working, CommandOf
  <2>3. ASSUME NEW t \in Threads, InCall(t, "record"), calls[t].request = r,
               NEW u \in Threads, InCall(u, "record"), calls[u].request = q
        PROVE  r = q
    BY <1>2, <2>3 DEF CommandsApart, Working, CommandOf
  <2> QED  BY <1>2, <2>1, <2>2, <2>3 DEF Accounted
<1> QED  BY <1>1, <1>2 DEF EffectOnce

\* An input or a close reaches its pane at most once in a process, and of two
\* requests under one command only one does, for any number of concurrent
\* calls, as long as no two calls of one command are between admission and
\* recording: that overlap, which mutate allows by releasing the lock, is the
\* only way to apply an effect twice.
THEOREM EffectOnceApart == Spec /\ []CommandsApart => []EffectOnce
<1>1. Init => EffectInv
  BY ResetEffects DEF Init
<1>2. IInv /\ EffectInv /\ CommandsApart /\ [Next]_vars => EffectInv'
  BY NextEffects
<1>3. IInv /\ EffectInv /\ CommandsApart => EffectOnce
  BY EffectInvGivesOnce DEF IInv
<1> QED  BY Invariance, <1>1, <1>2, <1>3, PTL DEF Spec

-----------------------------------------------------------------------------
(* The steps of a call and the stored inventory. *)

\* No registration is lost by the step.
Kept == \A e \in ExecutionIds : Covers(executions, e) => Covers(executions', e)

LEMMA RegistrationKeeps ==
  ASSUME RegistrationStep
  PROVE  Kept
BY DEF RegistrationStep, Kept, Covers

LEMMA RecordedShape ==
  ASSUME TypeOK, NEW c \in CommandIds, outcomes[c] # Absent
  PROVE  outcomes[c].authority.execution \in ExecutionIds
BY DEF TypeOK, Request, Authority

LEMMA RequestedShape ==
  ASSUME TypeOK, NEW t \in Threads, calls[t] # Absent, calls[t].request # Absent
  PROVE  calls[t].request.authority.execution \in ExecutionIds
BY CallShape, RequestShape DEF TypeOK

LEMMA RegistryKept ==
  ASSUME TypeOK, RegistryInv, Kept, UNCHANGED <<stored, outcomes>>
  PROVE  RegistryInv'
<1>1. RegistryCoversStore'
  BY DEF RegistryInv, RegistryCoversStore, Kept, Covers
<1>2. ASSUME NEW c \in CommandIds, outcomes[c] # Absent, Registers(outcomes[c])
      PROVE  Covers(executions, outcomes[c].authority.execution)'
  BY <1>2, RecordedShape DEF RegistryInv, RecordedIsRegistered, Kept, Covers
<1> QED  BY <1>1, <1>2 DEF RegistryInv, RecordedIsRegistered, Registers

\* The other calls go on as they were while nothing is stored.
LEMMA CallsKept ==
  ASSUME TypeOK, CallsCover, Kept, UNCHANGED stored,
         NEW t \in Threads, NEW call,
         calls' = [calls EXCEPT ![t] = call],
         call # Absent => CallCovers(call, executions', stored')
  PROVE  CallsCover'
<1>1. calls'[t] = call /\ \A u \in Threads \ {t} : calls'[u] = calls[u]
  BY DEF TypeOK
<1>2. ASSUME NEW u \in Threads, u # t, calls[u] # Absent
      PROVE  CallCovers(calls[u], executions', stored')
  <2>1. CallCovers(calls[u], executions, stored)
    BY <1>2 DEF CallsCover
  <2>2. calls'[u] = calls[u]
    BY <1>1, <1>2
  <2>3. calls[u].request # Absent => calls[u].request.authority.execution \in ExecutionIds
    BY <1>2, RequestedShape
  <2> QED  BY <2>1, <2>2, <2>3 DEF CallCovers, Kept, Covers
<1>3. CASE call # Absent
  BY <1>1, <1>2, <1>3 DEF CallsCover
<1>4. CASE call = Absent
  BY <1>1, <1>2, <1>4 DEF CallsCover
<1> QED  BY <1>3, <1>4

\* A call that starts or returns: it promises its own execution at most.
LEMMA StartCovers ==
  ASSUME TypeOK, CallsCover, Kept, UNCHANGED stored,
         NEW t \in Threads, NEW pc \in {"effect", "mark", "inventory"}, NEW r, NEW b,
         Start(t, pc, r, b),
         pc = "inventory" /\ r # Absent => Covers(executions', r.authority.execution)
  PROVE  CallsCover'
<1> DEFINE call == [pc |-> pc, request |-> r, binding |-> b, inventory |-> Absent]
<1>1. calls' = [calls EXCEPT ![t] = call]
  BY DEF Start
<1>2. CallCovers(call, executions', stored')
  BY DEF CallCovers, Covers
<1> HIDE DEF call
<1> QED  BY <1>1, <1>2, CallsKept

LEMMA ReturnCovers ==
  ASSUME TypeOK, CallsCover, Kept, UNCHANGED stored, NEW t \in Threads, Return(t)
  PROVE  CallsCover'
BY CallsKept DEF Return

LEMMA AdmitCovers ==
  ASSUME IInv, StoreInv, NEW t \in Threads, NEW r \in Requests,
         AdmitNew(t, r) \/ AdmitMutation(t, r) \/ AnswerKnown(t, r) \/ RepeatClose(t, r)
  PROVE  StoreInv'
<1>1. TypeOK /\ UNCHANGED <<executions, stored, outcomes, acked>>
  BY DEF IInv, AdmitNew, AdmitMutation, AnswerKnown, RepeatClose
<1>2. Kept
  BY <1>1 DEF Kept, Covers
<1>3. RegistryInv' /\ AckedSurvives'
  BY <1>1, <1>2, RegistryKept DEF StoreInv, AckedSurvives
<1>4. CASE AnswerKnown(t, r)
  <2>1. Covers(executions, r.authority.execution)
    <3>1. CASE RecordedAs(r)
      <4>1. outcomes[r.authority.command] = Fingerprint(r) /\ Registers(Fingerprint(r))
            /\ r.authority.command \in CommandIds
        BY <1>4, <3>1, RequestShape, FingerprintShape DEF AnswerKnown, RecordedAs
      <4>2. Fingerprint(r) # Absent
        BY FingerprintShape, AbsentAssumption
      <4>3. Fingerprint(r).authority = r.authority
        BY RequestShape DEF Fingerprint, Request
      <4> QED
        BY <4>1, <4>2, <4>3 DEF StoreInv, RegistryInv, RecordedIsRegistered
    <3>2. CASE Registered(r.authority)
      BY <3>2 DEF Registered, Covers
    <3> QED  BY <1>4, <3>1, <3>2 DEF AnswerKnown
  <2>2. Covers(executions', r.authority.execution) /\ Start(t, "inventory", r, Absent)
    BY <1>1, <1>4, <2>1 DEF AnswerKnown, Covers
  <2> QED  BY <1>1, <1>2, <1>3, <2>2, StartCovers DEF StoreInv
<1>5. CASE AdmitNew(t, r) \/ AdmitMutation(t, r) \/ RepeatClose(t, r)
  <2>1. ASSUME NEW pc \in {"effect", "mark"}, NEW b, Start(t, pc, r, b)
        PROVE  CallsCover'
    BY <1>1, <1>2, <2>1, StartCovers DEF StoreInv
  <2> QED  BY <1>3, <1>5, <2>1 DEF StoreInv, AdmitNew, AdmitMutation, RepeatClose
<1> QED  BY <1>4, <1>5

LEMMA RecordCovers ==
  ASSUME IInv, StoreInv, NEW t \in Threads,
         RecordRegistration(t) \/ RecordMutation(t)
  PROVE  StoreInv'
<1> DEFINE r == calls[t].request
           f == r.authority.execution
<1>1. /\ TypeOK
      /\ InCall(t, "record")
      /\ r \in Requests
      /\ f \in ExecutionIds
      /\ r.authority.command \in CommandIds
      /\ UNCHANGED <<stored, acked>>
  BY RecordingCall, RequestShape DEF IInv, RecordRegistration, RecordMutation
<1>2. Kept
  BY RecordStep, RegistrationKeeps
<1>3. AckedSurvives'
  BY <1>1 DEF StoreInv, AckedSurvives
<1>4. RegistryCoversStore'
  BY <1>1, <1>2 DEF StoreInv, RegistryInv, RegistryCoversStore, Kept, Covers
<1>5. CASE UNCHANGED outcomes /\ Return(t)
  BY <1>1, <1>2, <1>3, <1>5, RegistryKept, ReturnCovers DEF StoreInv
<1>6. CASE RecordOutcome(r) /\ (Registers(r) => Insert(t))
  <2>1. Registers(r) => Covers(executions', f)
    <3>1. NewEntry(t) # Absent
      BY <1>1, RecordingCall, EntryShape
    <3> QED  BY <1>1, <1>6, <3>1 DEF Insert, Covers, TypeOK, Inventory
  <2>2. ASSUME NEW c \in CommandIds, outcomes'[c] # Absent, Registers(outcomes'[c])
        PROVE  Covers(executions', outcomes'[c].authority.execution)
    <3>1. CASE outcomes'[c] = outcomes[c]
      BY <1>1, <1>2, <2>2, <3>1, RecordedShape
         DEF StoreInv, RegistryInv, RecordedIsRegistered, Kept, Covers
    <3>2. CASE outcomes'[c] # outcomes[c]
      <4>1. outcomes'[c] = Fingerprint(r)
        BY <1>1, <1>6, <3>2 DEF RecordOutcome, TypeOK
      <4>2. Registers(r)
        BY <1>1, <2>2, <4>1, FingerprintShape
      <4>3. Fingerprint(r).authority = r.authority
        BY <1>1, RequestShape DEF Fingerprint, Request
      <4> QED  BY <2>1, <4>1, <4>2, <4>3 DEF Covers
    <3> QED  BY <3>1, <3>2
  <2>3. RegistryInv'
    BY <1>4, <2>2 DEF RegistryInv, RecordedIsRegistered, Registers
  <2>4. \/ Return(t)
        \/ Start(t, "inventory", r, Absent) /\ Registers(r)
        \/ Start(t, "mark", r, Absent)
    BY DEF RecordRegistration, RecordMutation
  <2>5. CallsCover'
    BY <1>1, <1>2, <2>1, <2>4, ReturnCovers, StartCovers DEF StoreInv
  <2> QED  BY <1>3, <2>3, <2>5 DEF StoreInv
<1> QED  BY <1>5, <1>6 DEF RecordRegistration, RecordMutation

LEMMA ReadCovers ==
  ASSUME IInv, StoreInv, NEW t \in Threads, ReadInventory(t)
  PROVE  StoreInv'
<1> DEFINE first == [calls[t] EXCEPT !.pc = "store"]
           call == [first EXCEPT !.inventory = executions]
<1>1. TypeOK /\ calls[t] \in Call /\ UNCHANGED <<executions, stored, outcomes, acked>>
  BY DEF ReadInventory, InCall, IInv, TypeOK
<1>2. first \in Call /\ first.pc = "store" /\ first.request = calls[t].request
  BY <1>1 DEF Call
<1>3. calls' = [calls EXCEPT ![t] = call]
  BY <1>1 DEF ReadInventory, TypeOK
<1> HIDE DEF first
<1>4. /\ call.pc = "store"
      /\ call.request = calls[t].request
      /\ call.inventory = executions
  BY <1>2 DEF Call
<1> HIDE DEF call
<1>5. Kept
  BY <1>1 DEF Kept, Covers
<1>6. CallCovers(call, executions', stored')
  <2>1. calls[t].request # Absent => Covers(executions, calls[t].request.authority.execution)
    BY DEF ReadInventory, InCall, StoreInv, CallsCover, CallCovers
  <2>2. \A e \in ExecutionIds : Covers(stored, e) => Covers(executions, e)
    BY DEF StoreInv, RegistryInv, RegistryCoversStore
  <2> QED  BY <1>1, <1>4, <2>1, <2>2 DEF CallCovers, Covers
<1>7. CallsCover'
  BY <1>1, <1>3, <1>5, <1>6, CallsKept DEF StoreInv
<1>8. RegistryInv' /\ AckedSurvives'
  BY <1>1, <1>5, RegistryKept DEF StoreInv, AckedSurvives
<1> QED  BY <1>7, <1>8 DEF StoreInv

\* Here no other call may be about to write what it read before.
LEMMA WriteCovers ==
  ASSUME IInv, StoreInv, StoresApart, NEW t \in Threads, StoreInventory(t)
  PROVE  StoreInv'
<1> DEFINE inventory == calls[t].inventory
           r == calls[t].request
<1>1. /\ TypeOK
      /\ InCall(t, "store")
      /\ stored' = inventory
      /\ acked' = acked \cup ({r} \ {Absent})
      /\ calls' = [calls EXCEPT ![t] = Absent]
      /\ UNCHANGED <<executions, outcomes>>
  BY DEF IInv, StoreInventory, Return
<1>2. /\ \A e \in ExecutionIds : Covers(stored, e) => Covers(inventory, e)
      /\ r # Absent => Covers(inventory, r.authority.execution)
      /\ \A e \in ExecutionIds : Covers(inventory, e) => Covers(executions, e)
  BY <1>1 DEF StoreInv, CallsCover, CallCovers, InCall
<1>3. AckedSurvives'
  <2> SUFFICES ASSUME NEW q \in acked' PROVE Covers(inventory, q.authority.execution)
    BY <1>1 DEF AckedSurvives, Covers
  <2>1. CASE q \in acked
    BY <1>1, <1>2, <2>1, RequestShape DEF StoreInv, AckedSurvives, Covers, TypeOK
  <2>2. CASE q = r /\ r # Absent
    BY <1>2, <2>2
  <2> QED  BY <1>1, <2>1, <2>2
<1>4. CallsCover'
  <2>1. calls'[t] = Absent /\ \A u \in Threads \ {t} : calls'[u] = calls[u]
    BY <1>1 DEF TypeOK
  <2>2. ASSUME NEW u \in Threads, u # t, calls[u] # Absent
        PROVE  CallCovers(calls[u], executions', stored')
    <3>1. calls[u].pc # "store" /\ calls'[u] = calls[u] /\ CallCovers(calls[u], executions, stored)
      BY <1>1, <2>1, <2>2 DEF StoresApart, InCall, StoreInv, CallsCover
    <3> QED  BY <1>1, <3>1 DEF CallCovers, Covers
  <2> QED  BY <2>1, <2>2 DEF CallsCover
<1>5. RegistryInv'
  BY <1>1, <1>2 DEF StoreInv, RegistryInv, RegistryCoversStore, RecordedIsRegistered,
                    Covers, Registers
<1> QED  BY <1>3, <1>4, <1>5 DEF StoreInv

\* Steps that only move registrations or end a call.
LEMMA OtherCovers ==
  ASSUME IInv, StoreInv, NEW t \in Threads,
         \/ EffectOnRuntime(t) \/ EffectFails(t) \/ MarkClosed(t) \/ StoreFails(t)
         \/ \E list \in Lists : Reconcile(t, list)
  PROVE  StoreInv'
<1>1. TypeOK /\ UNCHANGED <<stored, outcomes, acked>>
  BY DEF IInv, EffectOnRuntime, EffectFails, MarkClosed, StoreFails, Reconcile
<1>2. Kept
  BY EffectStep, EffectFailsStep, MarkStep, StoreStep, ReconcileStep, RegistrationKeeps
<1>3. RegistryInv' /\ AckedSurvives'
  BY <1>1, <1>2, RegistryKept DEF StoreInv, AckedSurvives
<1>4. CASE Return(t)
  BY <1>1, <1>2, <1>3, <1>4, ReturnCovers DEF StoreInv
<1>5. CASE Start(t, "inventory", Absent, Absent)
  BY <1>1, <1>2, <1>3, <1>5, StartCovers DEF StoreInv
<1>6. CASE EffectOnRuntime(t)
  <2> DEFINE call == [calls[t] EXCEPT !.pc = "record"]
  <2>1. calls[t] \in Call /\ calls' = [calls EXCEPT ![t] = call]
    BY <1>6 DEF EffectOnRuntime, InCall, IInv, TypeOK
  <2>2. call.pc = "record"
    BY <2>1 DEF Call
  <2> HIDE DEF call
  <2>3. CallCovers(call, executions', stored')
    BY <2>2 DEF CallCovers
  <2> QED  BY <1>1, <1>2, <1>3, <2>1, <2>3, CallsKept DEF StoreInv
<1> QED  BY <1>4, <1>5, <1>6 DEF EffectFails, MarkClosed, StoreFails, Reconcile

\* Steps outside any call.
LEMMA QuietCovers ==
  ASSUME IInv, StoreInv, UNCHANGED <<calls, stored, outcomes, acked>>, Kept
  PROVE  StoreInv'
<1>1. RegistryInv' /\ AckedSurvives'
  BY RegistryKept DEF IInv, StoreInv, AckedSurvives
<1>2. ASSUME NEW u \in Threads, calls[u] # Absent
      PROVE  CallCovers(calls[u], executions', stored')
  <2>1. CallCovers(calls[u], executions, stored)
    BY <1>2 DEF StoreInv, CallsCover
  <2>2. calls[u].request # Absent => calls[u].request.authority.execution \in ExecutionIds
    BY <1>2, RequestedShape DEF IInv
  <2> QED  BY <2>1, <2>2 DEF CallCovers, Kept, Covers
<1>3. CallsCover'
  BY <1>2 DEF CallsCover
<1> QED  BY <1>1, <1>3 DEF StoreInv

\* After a restart the registry is what is stored.
LEMMA CrashCovers ==
  ASSUME IInv, StoreInv, Crash
  PROVE  StoreInv'
<1>1. RegistryCoversStore'
  <2> SUFFICES ASSUME NEW e \in ExecutionIds, Covers(stored, e)
               PROVE  executions'[e] # Absent
    BY DEF RegistryCoversStore, Covers, Crash
  <2>1. PICK panes \in SUBSET alive :
          executions' = [x \in ExecutionIds |-> IF stored[x] = Absent THEN Absent
                                               ELSE Present(stored[x], panes)]
    BY DEF Crash
  <2>2. Present(stored[e], panes) \in Entry
    BY EntryShape DEF IInv, TypeOK, Inventory, Present, Entry, States, Covers
  <2> QED  BY <2>1, <2>2, EntryShape DEF Covers
<1>2. RecordedIsRegistered' /\ CallsCover'
  BY DEF Crash, RecordedIsRegistered, CallsCover
<1>3. AckedSurvives'
  BY DEF Crash, StoreInv, AckedSurvives
<1> QED  BY <1>1, <1>2, <1>3 DEF StoreInv, RegistryInv

LEMMA NextCovers ==
  ASSUME IInv, StoreInv, StoresApart, [Next]_vars
  PROVE  StoreInv'
<1>1. ASSUME NEW t \in Threads, Admit(t) PROVE StoreInv'
  BY <1>1, AdmitCovers DEF Admit
<1>2. ASSUME NEW t \in Threads, Proceed(t) PROVE StoreInv'
  BY <1>2, OtherCovers, RecordCovers, ReadCovers, WriteCovers DEF Proceed
<1>3. CASE Crash
  BY <1>3, CrashCovers
<1>4. CASE Tick \/ (\E p \in Panes : PaneGone(p)) \/ UNCHANGED vars
  BY <1>4, QuietCovers DEF Tick, PaneGone, vars, Kept, Covers
<1>5. ASSUME NEW t \in Reconcilers, NEW list \in Lists,
             Reconcile(t, list) \/ ReconcileFails(t, list)
      PROVE  StoreInv'
  <2>1. t \in Threads
    BY RequestsAssumption
  <2>2. Kept
    BY <1>5, <2>1, ReconcileStep, RegistrationKeeps
  <2> QED  BY <1>5, <2>1, <2>2, OtherCovers, QuietCovers DEF ReconcileFails
<1> QED  BY <1>1, <1>2, <1>3, <1>4, <1>5 DEF Next, Environment

LEMMA InitCovers ==
  ASSUME Init
  PROVE  StoreInv
BY DEF Init, StoreInv, RegistryInv, RegistryCoversStore, RecordedIsRegistered, CallsCover,
       AckedSurvives, Covers

LEMMA StoreInvariance == Spec /\ []StoresApart => []StoreInv
<1>1. Init => StoreInv
  BY InitCovers
<1>2. IInv /\ StoreInv /\ StoresApart /\ [Next]_vars => StoreInv'
  BY NextCovers
<1> QED  BY Invariance, <1>1, <1>2, PTL DEF Spec

\* A launch or an adoption that was answered with success is in the stored
\* inventory from then on, over crashes, failed writes and reconciliations
\* and for any number of concurrent calls, as long as no two calls are
\* between reading the inventory and writing it: that overlap, which persist
\* allows by writing without the lock, is the only way to lose one.
THEOREM AckedSurvivesApart == Spec /\ []StoresApart => []AckedSurvives
<1>1. StoreInv => AckedSurvives
  BY DEF StoreInv
<1> QED  BY StoreInvariance, <1>1, PTL

\* No execution leaves the stored inventory.
StoredStep == \A e \in ExecutionIds : Covers(stored, e) => Covers(stored', e)
StoredGrows == [][StoredStep]_vars

LEMMA WriteGrows ==
  ASSUME StoreInv, [Next]_vars
  PROVE  StoredStep
<1>1. ASSUME NEW t \in Threads, StoreInventory(t) PROVE StoredStep
  BY <1>1 DEF StoreInventory, InCall, StoreInv, CallsCover, CallCovers, StoredStep, Covers
<1>2. CASE UNCHANGED stored
  BY <1>2 DEF StoredStep, Covers
<1>3. CASE \E t \in Threads : Admit(t)
  BY <1>2, <1>3 DEF Admit, AdmitNew, AnswerKnown, AdmitMutation, RepeatClose
<1>4. CASE \E t \in Threads : Proceed(t)
  BY <1>1, <1>2, <1>4 DEF Proceed, EffectOnRuntime, EffectFails, RecordRegistration,
                          RecordMutation, MarkClosed, ReadInventory, StoreFails
<1>5. CASE Environment \/ UNCHANGED vars
  BY <1>2, <1>5 DEF Environment, Crash, Tick, PaneGone, Reconcile, ReconcileFails, vars
<1> QED  BY <1>3, <1>4, <1>5 DEF Next

\* Under the same condition every write of the inventory, of whichever call,
\* keeps what earlier ones stored: this is the store that LaunchWorkflow
\* gives its workers (persist_after replaces the inventory as a whole).
THEOREM StoredGrowsApart == Spec /\ []StoresApart => StoredGrows
<1>1. StoreInv /\ [Next]_vars => [StoredStep]_vars
  BY WriteGrows
<1> QED  BY StoreInvariance, <1>1, PTL DEF Spec, StoredGrows
=============================================================================
