# Verification of the bmux cluster control plane and attach path

bmux is a terminal multiplexer made of plugins. Its federation feature, the
cluster plugin (`src/plugins/cluster-plugin`), keeps one replicated control
state on several nodes and runs panes on any of them. That is where
concurrency, retries, failure and recovery meet, so this project starts there.
Its second subject is local: how the output of a pane reaches the screen of an
attached client, through bounded buffers, shared flags and repairs.
There is one TLA+ module per modelled component, with TLAPS proofs in modules
of their own, and TLC configurations that check them on small instances.

## Inventory

| component | state | operations | what is hard about it |
|---|---|---|---|
| replicated control state machine (`control_state.rs`) | revision, workspaces, tabs, panes, dedup table, members, feature floors | `apply` of one committed command; bootstrap, protocol refresh, feature activation | optimistic revisions, command retries, workflows that stay pending across leaders, pruning |
| worker registry (`worker_runtime.rs`, `worker_pane_runtime.rs`) | executions, fence, outcomes, output buffers, stored inventory | launch, restart, adopt, input, resize, signal, close, output, snapshot, reconcile, restore | lock released around every effect, duplicated and late requests, several issuers of leases, crashes |
| consensus storage (`consensus_storage.rs`) | redb tables (log, vote, state), snapshot files, publication manifest | append, truncate, purge, apply, build and install snapshots, open | a crash between any two durable writes, startup recovery, migration of encodings; every read of a serving node opens the state machine again and works on the same files |
| control codec (`control_state_codec.rs`, `control_codec.rs`) | none | encode, decode, cross-record validation | what one side accepts the other must decode |
| worker launch reconciler (`worker_reconciler.rs`) | none of its own: works off pending outcomes | for each pending `AssignExecution`: launch at the worker, set availability, complete the workflow | leader changes in the middle, leases that expire, superseded assignments |
| attach state (`attach_state.rs`) | attach sessions, input authority | open, input, close; a signed lease per input | order of inputs against the fence |
| placement (`placement.rs`, `admission.rs`) | none | filter and rank workers | ties, stale capability reports |
| membership (`consensus_membership.rs`, `membership.rs`) | invitations, peers, voters | invite, join, promote, remove | joint configurations, restarts in the middle of a join |
| consensus runtime and network | OpenRaft handles, connections | submit, forward, read, RPC | Raft itself is a library; its snapshot policy and the reads beside it decide what meets in the storage |
| event bus, server push (`plugin/src/event_bus.rs`, `server/src/lib.rs`) | bounded broadcast queues, one push task per client | forward plugin events, push to clients | a receiver that lags loses events, the forwarder for good |
| pane runtime plugin, output path (`pane-runtime-plugin/src/runtime.rs`) | per pane: output buffer, parsed screen, dirty flag; per client a cursor | append with eviction, announce, batch read, raw snapshot, grid snapshot, acknowledge | flags shared by all clients, effects outside the locks, a node-wide limit |
| attach client (`cli/src/runtime/attach/runtime.rs`, `attach_pipeline/src/reconcile.rs`) | per pane: screen and expected offset; whether output is pending | handle events, drain in rounds, apply, recover, hydrate, ask for deltas | every call is a round trip during which output goes on |
| other local parts: sessions, snapshot file, IPC, relay, recording, UI | processes, catalogs, files | local requests | see "Not modelled" |

How they interact: a client's command goes through the gateway to the leader's
runtime, is committed by OpenRaft, stored by the consensus storage and applied
by the control state machine on every voter. An accepted `AssignExecution`
leaves a pending outcome in the dedup table; the leader's reconciler launches
the execution through the worker service on the assigned node, sets the pane's
availability and completes the workflow with two more commands. Attached
clients send input straight to the worker with leases signed per command. The
worker registry calls the pane runtime plugin of its node for every effect and
keeps its inventory in plugin storage.

What makes the modelled components correct:

* control state: references between records stay valid; a revision a caller
  has read matches only an unchanged record; a command has one outcome however
  often it is submitted; a pending workflow is never lost; the state it
  persists can be decoded again; execution generations only grow;
* worker registry: older authority never returns after newer authority; the
  first registration of an execution is kept, whatever launches race with it
  (an adoption admitted earlier may still replace it); an input or close is
  applied once; a success is recorded only after its effect; an acknowledged
  registration survives a restart;
* consensus storage: no log prefix is removed that a readable snapshot does not
  cover; the active snapshot never goes back; a node that stopped anywhere
  starts again;
* launch workflow: nothing is shown or settled that was not assigned and then
  started; a settled workflow leaves no pane pending; a wanted workflow settles
  in the end, whichever leaders and workers come and go;
* attach path: output is neither skipped nor shown twice; a client that waits
  has read all that was announced to it; in the end the screen shows all output.

## Modules

### ControlState

One copy of the state stands for all voters: each applies the same commands in
the same order, and apply reads nothing else. A step is one call of
`ControlState::apply`. Every request has an action of its name whose guards
are the checks of `apply_request`; `RecordOutcome`, `Changed` and
`NewRevision` are the envelope (dedup insertion, revision counting,
`set_changed_record_revisions`), shared by all. Every error path records a
rejection and changes nothing else, so all of them are the one action `Reject`;
`Duplicate` and `Conflict` are the two early returns. Inputs are chosen by the
`...Command` operators: any record over small sets, with expected revisions up
to the current one, so stale callers are included. `acked` is a history
variable: what the caller of a command was last told.

Names, layouts, reasons and placement intents are dropped; a request's bytes
are a fingerprint. `UpsertMember`, `SetMemberState`, bootstrap, protocol refresh
and feature activation are not modelled yet: they touch other tables.

### WorkerRegistry

Threads stand for service calls in flight. Every public operation is cut where
the source releases the registry mutex: admission (`AdmitNew`, `AnswerKnown`,
`AdmitMutation`, `RepeatClose`), the effect in the pane runtime
(`EffectOnRuntime`, `EffectFails`), recording (`RecordRegistration`,
`RecordMutation`, `MarkClosed`) and the inventory (`ReadInventory` under the
lock, `StoreInventory` without it, or `StoreFails`). Requests form a fixed set
and are delivered any number of times, in any order. `Crash` ends the process:
fence, outcomes and calls are gone, the stored inventory is reconciled with the
panes still there, as `restore_and_reconcile` does. The pane runtime is outside
the component and is the set `alive`; `PaneGone` removes a pane at any time.
`Tick` is the monotonic clock of lease deadlines.

`LeaseSequence` maps a command to the sequence number of its lease, because
both issuers compute the number from the command's UUID. It is a constant, and
nothing is assumed about its order. Input, resize and signal share one code
path and are one operation. Output buffers are left out.

### LogContract and SnapshotStore

The durable state of one voter: the log's bounds, the applied position and the
active snapshot in the database; the manifest, its temporary draft and the
`.snapshot` and `.tmp` files beside it. A database transaction is one step. A
snapshot is an index and an encoding; two are equal iff their checksums are.

The files have several users, and nothing makes them wait for each other:

* `Raft` is OpenRaft's thread, and the startup before it. It appends, applies,
  purges, builds (`BuildSnapshot`) and installs (`InstallSnapshot`).
* `Readers` are reads of the control state on the serving node. Each calls
  `storage.state_machine()` (`consensus_runtime.rs` 419, 528, 621, 701, 802),
  hence `validate_active_snapshot`: it reads which snapshot is active
  (`ReadActive`), checks the file (`CheckActive`, `CheckFails`), publishes it
  again when it is in an older encoding, as an installed one may be, and deletes
  every other snapshot file. Startup runs the same code first.

`jobs` holds what each thread is doing. A publication is cut after every durable
step: draft of the manifest (`DraftManifest`), its rename (`WriteManifest`),
temporary file created, written and renamed, active snapshot committed, manifest
removed, directory listed (`ListInactive`), files deleted one by one
(`RemoveInactive`). Draft and manifest have one name for all threads, so one may
rename or remove what another wrote. The calls that fail because of another
thread (`ManifestFails`, `CreateFails`, `RemoveFails`, `CheckFails`) end a read,
stop the node when OpenRaft meets them, and refuse a startup. Startup itself is
`RecoverPublication`, `ReconcileManifest`, `DiscardPublication`, then the check,
or `OpenEmpty`. `Crash` is enabled throughout; `CrashMidWrite` says whether it
may tear the snapshot file that is being written.

Three variables are not the program's. `known` is OpenRaft's: the snapshot its
last build or install returned, which starts the next build (`BuildDue`) and
bounds the purge. `late` and `swept` are history: the active snapshot is one
that a read put back over a newer one; files deleted while another thread's
publication relied on them.

`LogContract` is what the storage promises to OpenRaft, without files, steps
or crashes: the applied and the purged position only move on (`Advance`,
`Forget`); a new snapshot covers at least what the last one did and what is
purged (`Cover`); nothing is forgotten that the snapshot does not stand for. The
one exception is `Lapse`: an older snapshot is put back. It lasts until the next
`Cover`. The refinement mapping leaves the applied and the purged position as
they are, takes `covered` from the active snapshot in the database and `lapsed`
from `late`; a crash, a recovery and every step of a publication but its commit
are then stutters.

Assumed of OpenRaft, which is not in the repository: it appends after the
applied position, never truncates an applied entry, runs its own publications
one at a time, purges no further than a snapshot whose build or install has
returned (`max_in_snapshot_log_to_keep` is 0), and stops the node on a storage
error. `compact_if_needed` and `should_compact`, which purge by themselves, are
called by tests only and are not modelled.

Simplified: the draft of the manifest is written whole (a torn one is deleted at
startup), a directory listing is taken at one moment, and I/O errors other than
those another thread causes are left out. The rewriting of the persisted control
state in `ConsensusStateMachine::open` is left out too: applying and installing
always write the current encoding, so it concerns the first startup of a new
version and changes no position.

### LaunchContract and LaunchWorkflow

`LaunchContract` is what the durable workflow promises: asked, started, shown,
settled, in this order and once each. `LaunchWorkflow` is the implementation:
it extends `ControlState` and uses its actions as they are (`Submit` is an
`AssignExecution` from a placement plan, a report is `SetPaneAvailability`, the
end is `CompleteWorkflow`), and adds the passes of every voter
(`worker_reconciler.rs`) and what they see of the workers.

* A pass is `reconcile_once`: a view taken by a quorum read (`StartPass`), then
  the pending workflows of that view in table order. Each call that takes time
  ends a step: the query (`QueryFound`, `QueryMissing`), the launch, the two
  commands (`Report`, `Complete`). An error anywhere ends the whole pass
  (`Abort`), as `?` does. A voter that lost leadership keeps its pass and its
  old view until a command fails (`NotLeader`).
* Leader and term are OpenRaft's, hence external: `Elect` makes another voter
  the leader in the next term at any time. `CommitUnanswered` is a command that
  is committed although the caller gets an error.
* A worker is reduced to what a launch can meet: the registered execution, the
  stored inventory, the fence for launch leases and the launch calls under way,
  cut where `WorkerRegistry` cuts them (`Admit`, `Register`, `Store`). `Store`
  reads and writes the inventory in one step, so what is durable only grows;
  `StoredGrowsApart` (see Proofs) says when the registry's own, two-step store
  does so, and finding 3 what happens otherwise. Term and
  issuer are the parts of an authority in which two launches of one workflow
  differ, so they decide what counts as the same launch.
* `GoesDown`, `ComesUp`, `Restart`, `LaunchFails`, `PassFails`, `LeaseExpires`
  are the failures, together at most `MaxFaults` (a restart of a worker follows
  its going down, recovery is free). `Close` is an attached client's.

Left out of the composition: the other requests of the control state (a pane is
not removed, nothing is pruned), the membership record and credential of the
worker (it is usable or it is not), the delays between passes.

The refinement maps asked to "has an outcome in the table", started to the
history of registrations, shown to "a report was accepted", settled to
"complete".

### AttachOutput

Server and client of the output path in one module, because what goes wrong
goes wrong between them. Output is a stream of offsets per pane: a buffer is
the interval from `start` to `end`, a cursor and a screen are places in it, and
a screen to which bytes were applied that do not continue it is `Torn`.

* Writers: the PTY reader thread and the posters of notices append
  (`push_chunk` with eviction), then set the flag, then publish; three steps,
  since nothing holds the buffer's lock over them. The reader announces only
  when the flag was clear.
  An announcement may be lost on its way: the forwarder from the plugin bus ends
  for good on its first receive error, a lag included (`PublishLost`), and the
  client's push task drops what it has not sent when it lags, and then makes the
  client refresh its catalog, which fetches no output (`Lag`). `missed` remembers
  the panes with a loss since the client last cleared their flags. `Keeps` lets any amount be evicted beyond the
  buffer's own limit: output of other panes counts against the node's.
* A fetch is three steps on the server: flags cleared for all panes (`Clear`),
  then the reads (`Read`), then a last look at the flags (`Answer`).
  `OtherFetch` is another client clearing a flag.
* The client applies the reply pane by pane up to the first that is out of step
  (`Stale`, `Desynced`, `Applied` are `apply_attach_output_chunk_with`), goes
  on for another round (`NextRound`), stops (`EndDrain`) or repairs
  (`Recover`). A drain without data asks for grid deltas (`Delta`); since only
  tests add deltas to the server's store, a pane that differs is always
  captured again.
* Hydration is two calls: the raw snapshot moves the cursor to the end and
  clears the flag (`SnapshotRead`, `SnapshotUnflag`), the grid snapshot is
  captured under the locks (`Capture`) and acknowledged after it was encoded
  (`Acknowledge`). The client then expects the offset of the *first* call,
  although the screen is that of the second; that what arrives next is seen as
  out of step or continues exactly is part of `Contiguous`. When all panes were
  hydrated the loop forgets that output was pending (`Hydrated`).

Left out: synchronized updates (they only prolong a drain), detaching, panes
that come and go, images and scrollback, and what the bytes mean; where a
reader resumes after eviction (the end of an escape sequence) is any retained
offset.

## Runs

Safety is checked with deadlock checking on, except in the launch and attach
runs, whose systems may come to rest.

| run | instance | shows |
|---|---|---|
| `control` | from nothing and from a state with a pane; 3 command identities, 2 contents, 2 issue times, 2 workspaces, revisions to 6 | references exist, workspace revisions cover their tabs, every write makes earlier revisions useless, answers to one command agree, pending workflows are never evicted |
| `control_moved_tab` | 5 commands | finding 1 |
| `worker_sequential` | 1 call at a time, 2 executions, 5 requests with a re-signed retry, lease expiry, crashes, reconcile | effects happen once, acknowledged registrations survive |
| `worker_racing` | 2 concurrent calls out of 5 requests for one execution, with reconcile and crashes | the fence advances, the first registration is kept but for an adoption admitted before it, no success without its effect |
| `worker_retried` | 2 concurrent calls: launch, an input and its retry | finding 2 |
| `worker_stored` | 2 concurrent launches | finding 3 |
| `snapshot_store` | 3 log indexes, 2 encodings, torn writes, a read beside OpenRaft | purged log is covered and the active snapshot never older, but for a read's late republication; the active file is readable while serving, but for another thread's sweep; the abstract log is implemented; a startup is refused only after a torn write, in a migration or after such a sweep |
| `snapshot_torn` | 3 log indexes, 1 encoding, no reads | finding 4 |
| `launch_workflow` | 2 voters, 1 worker, 2 workflows for one pane, 2 failures, one execution may be closed | the launch contract is kept, an execution stays with the launch that registered it, completed workflows show their outcome, wanted ones complete |
| `launch_blocked` | 2 panes on 2 workers, 1 failure | finding 5 |
| `attach_output` | 2 panes, 2 writers each, 2 bytes, a layout change, a failing call, any loss of announcements | output is never skipped or repeated, cursor and screen never go back; unless a pane's announcement was lost, a waiting client has read everything and the screen catches up |
| `attach_dropped` | 2 panes, 2 bytes | finding 6 |

Why the bounds are enough to be interesting. *Control state*: a
workspace, a tab and a pane have to exist before a workflow can start, so half
of the run begins where the commands that made them are already pruned
(`InitWithPane`); three identities are left for an assignment, its completion
and a pruning, which frees identities for more commands. From nothing, create
a workspace and a tab, move or remove it is reached. `MaxGeneration` 2 allows
one replacement. The instance is modest because all six properties are also
proved for every value of the constants. *Worker*: two threads show every pairwise
race, and the lease numbering in `MCWorkerRegistry` gives a later command a
lower sequence. *Snapshots*: three indexes allow an active snapshot, a newer
one and a log beyond it; any number of crashes can happen, and one read at a
time, any number in a row, meets OpenRaft's publications at every step (about
230,000 states; two concurrent reads with two indexes were explored as well and
pass). *Launch*: the
second workflow supersedes the first on the same pane, two failures are enough
for a deposed leader whose call is still at the worker, or an election after a
restart; `MaxRevision` admits every command two workflows can cause. *Attach*:
two panes with one round's budget of one byte make a reply whose second part
can be lost; two bytes in all allow a gap behind one that was shown, and each
writer of a pane to overtake the other (about 500,000 states).

Fairness. `launch_workflow` and `launch_blocked` assume weak fairness of each
voter's loop (a task that sleeps and runs again for as long as the node lives)
and of the workers' handling of calls that reached them. Nothing is assumed of
elections, failures and recoveries; instead `Completes` itself requires that
the workers answer from some time on (`WorkersReturn`) and that no lease ran out
before its execution was registered (`LeasesLast`). Without the second the
property does not hold: the lease's sequence is a function of the command, so a
launch whose accepted lease has expired is refused until the term changes or
the worker restarts. `attach_output` and `attach_dropped` assume weak fairness
of the client's loop with the calls it makes, and of every thread that still
has to announce what it appended; output, other clients, losses, layout changes
and failing calls are free; announcing may as well end in a loss. `Shows` is
stated for panes whose output no drain gave up (`cut`), and without failed calls,
because that is what finding 6 is about, and for panes that are not missing an
announcement for ever (`missed`): nothing in the code repeats a lost one, but the
next that arrives, of whatever pane, makes the client fetch them all.

Each property of a passing run has a mutant, an operator next to the definition
it alters (named in a comment "Mutation of ..."), under which TLC finds the
property violated.

## Findings

1. **A moved tab makes the control state undecodable** (`control_moved_tab`).
   `PutTab` may change a tab's workspace while panes in it still name the old
   one. The next decode of that state fails in `validate_references`.
2. **A retry in flight is applied twice** (`worker_retried`). `mutate` checks
   the outcome table, releases the lock, applies the effect and only then
   records it.
3. **An acknowledged launch can be missing after a restart** (`worker_stored`).
   `persist` reads the inventory under the lock and writes it without it, so
   the older of two inventories can be written last.
4. **A torn snapshot file stops the node for good** (`snapshot_torn`). The
   manifest is durable first; startup then finds a temporary file with another
   checksum and returns an error each time. Two relatives were met on the way
   and have no run: a snapshot of an older encoding is published again under
   its own name, and a crash in that leads to the same failed startup even
   without a torn write; a leftover temporary file makes the next publication
   under that name fail at `create_new`. `RefusalsExplained` says that these
   and the swept file below are all.
5. **A worker that is away holds up the workflows of the others**
   (`launch_blocked`). `reconcile_pending` returns at the first error, and the
   order of the workflows is fixed.
6. **Output can stay off the screen** (`attach_dropped`). When one pane of a
   reply is out of step, the client drops the chunks after it, repairs only
   that pane and goes to wait with nothing pending; the server has already
   moved the cursors and cleared the flags of the others.

Seen while modelling, without a run of their own:

* **A read can delete the snapshot that is being published.** It takes the old
  identity of the active snapshot, OpenRaft renames and commits a new file, and
  the read's sweep (`consensus_storage.rs` 629) deletes it. The active file is
  missing and the next startup is refused, with whole writes and one encoding.
  `ActiveReadable` and `RefusalsExplained` name the case (`swept`); without it TLC
  finds both violated.
* **A read can put an older snapshot back.** An installed snapshot in an older
  encoding is republished by a read (616); when OpenRaft commits and purges
  meanwhile, the read's commit makes the older one active again, and the log
  between them is gone until the next snapshot. `PurgedIsCovered`,
  `ActiveAdvances` and `KeepsLog` name the case (`late`).
* **Two sweeps delete the same files.** The second one gets an error; if it is
  OpenRaft's, a committed publication stops the node (`RemoveFails`).
* **A lost announcement leaves a client waiting with unread output.** The dirty
  flag stays set, so the reader of the pane stays silent, until something else
  makes the client fetch. `NothingUnread` and `Shows` name the case (`missed`);
  without it TLC finds `NothingUnread` violated after an append, its flag and a
  lost event.
* `PutPane` writes the submitted execution without comparing its generation with
  the stored one, where ADR-0011 says that regression is rejected.
* A superseded workflow stays pending for ever, is never pruned, and the
  execution it may have started is not stopped.
* A tab that is removed or moved away leaves the revision of the workspace it
  was in as it is.

## Proofs

The theorems hold for every value of the constants that satisfies the modules'
named assumptions: bounds are naturals, `Absent` is not a record, requests are
well-formed (an adoption names a pane), `LeaseSequence` gives naturals, derived
command identities do not meet (SHA-256), any set of workflows has a first one.
TLC evaluates all of them in the runs.

* **ControlStateProofs.** `TypeCorrect`, `ReferencesCorrect`,
  `WorkspaceRevisionCorrect`, `FreshRevisionsCorrect`, `AnswersCorrect`,
  `PendingCorrect`, `DecodableUnmoved`. The inductive invariant is `RecordsInv /\ OutcomesInv`.
  `RecordsInv` adds to the checked invariants that no record's revision exceeds
  the control revision: without it a fresh revision need not be above the
  workspace's. `OutcomesInv` adds that what a caller was told agrees with what
  is recorded (`AckedIsRecorded`) and that only accepted launches are pending
  (`PendingIsLaunch`), which is what makes completing a workflow an agreeing
  answer. One lemma covers the recording of an outcome, one per request the
  records. `DecodableUnmoved` adds `PanesPlaced` (a pane names its tab's
  workspace), which every step keeps if no tab with panes changes its workspace
  (`TabsStay`).
* **WorkerRegistryProofs.** `TypeCorrect`, `FenceCorrect`,
  `RegistrationCorrect`, `OutcomesCorrect`, for any number of threads, requests
  and lease numberings. The inductive invariant adds to `TypeOK` that a call in
  flight is consistent with its request (`CallsOK`) and that a call about to
  record a mutation has applied it (`EffectBeforeRecord`).
* **WorkerSerialProofs.** `EffectOnceApart`, `AckedSurvivesApart`,
  `StoredGrowsApart`: what remains true of a worker with any
  number of concurrent calls when the overlap behind findings 2 and 3 is
  excluded, and nothing else is. `CommandsApart` says that no two calls of one
  command are between admission and recording; then a call that is about to
  record finds its command unrecorded, and every effect is recorded or about to
  be (`EffectInv`). `StoresApart` says that no two calls are between reading
  and writing the inventory; then what a call has read covers what is stored,
  and the registry covers both (`StoreInv`).
* **SnapshotStoreProofs.** `TypeCorrect`, `CoverCorrect`, `AdvanceCorrect`,
  `LogKept`, `ReadableCorrect`, `RefusalsCorrect`, for any number of concurrent
  reads, with crashes anywhere and torn writes allowed; and what the exceptions
  come from: `CoverOneEncoding`, `RestartsWhole`. The inductive invariant `IInv`
  adds to the positions which thread does what and when (`Placed`,
  `StartupJob`), and that no thread is ahead of OpenRaft's last snapshot but
  OpenRaft itself before its commit (`Positions`): a read commits something old,
  never something new, so a commit that takes the active snapshot back is a
  read's, and OpenRaft's next one covers the log again. `FInv` is about files on
  top of it: they have the name of what is in them, a temporary file being
  written has one owner, what is about to become active is there unless swept
  (`FilesHeld`), so is the active file (`ActiveHeld`), and a manifest in an older
  encoding never names a snapshot that has been migrated, although threads rename
  each other's drafts (`ManifestHeld`). Two whole files of the current encoding
  under one name are then equal, so that no checksum can differ. `LogKept` is the
  refinement of `LogContract`. `CoverOneEncoding` assumes one encoding and
  concludes that there is no lapse. `RestartsWhole` also assumes that a crash does
  not tear a write and concludes that every refusal is due to a sweep: a torn
  temporary file is then only that of the write under way (`TornBelongs`), and no
  startup meets it.
* **LaunchWorkflowProofs.** `LaunchTypeCorrect`, `CompletedShownCorrect`,
  `ControlStepsCorrect`, `ControlInherited`, `LaunchDecodable`,
  `StartedOnceCorrect`, `ContractKept`, for any voters, workers and workflows.
  `ControlStepsCorrect` says that the composition takes only steps of
  `ControlState`, and `ControlInherited` draws from it what was proved there.
  `LaunchDecodable` needs no hypothesis, since a launch moves no tab.
  The inductive invariant `LaunchInv` has the parts
  `ControlInv` (the control state's own invariant), `RevisionInv` (what an
  assigned pane's revision can be), `WorkerInv` and `CallInv` (whatever a worker
  has or is about to register belongs to an accepted workflow, and has been
  launched), `VoterInv` and `PassInv` (what a pass has found was launched, its
  view is of the past, and a pass that completes has a report accepted or has
  seen the pane show the outcome) and `ChainInv` (settled implies shown implies
  launched implies asked). The difficult step is the last: a pass may skip the
  report because its *view* shows the right availability, and then someone
  else's report is what the contract relies on.
* **AttachOutputProofs.** `AttachTypeCorrect`, `ContiguousCorrect`,
  `NeverBackCorrect`, `NothingUnreadCorrect`, for any number of panes, sizes,
  refreshes, lost announcements and failures. `PlaceInv` relates the places of a pane at every step of a call:
  what is shown never exceeds the cursor, the expected offset never exceeds
  what is shown, and a chunk in flight ends at the cursor. It follows that a chunk that
  is neither stale nor out of step begins where the screen ends. `NeverBack`
  also needs that nothing is read between the calls of a hydration
  (`HydrateInv`) and that a client has no cursor before it attaches
  (`DetachedInv`). `WakeInv` says
  who will wake the client for an unread byte of a pane that misses no
  announcement: a writer that has not announced it, an event, a pending drain or
  the rest of a call.

Each safety violation is thus paired with a theorem that names the
condition it comes from: a tab moved with its panes (finding 1,
`DecodableUnmoved`), calls of one command that overlap (2, `EffectOnceApart`),
inventories written across each other (3, `AckedSurvivesApart`), torn writes,
migrations and swept files (4, `RefusalsCorrect`, `RestartsWhole`). The conditions are about behaviours, not
assumptions of the modules, and no other theorem uses them. (Only
`CoverOneEncoding` and `RestartsWhole` restrict constants: `CrashMidWrite` and `Formats` are what the
file system and the upgrade history decide.)

Only model-checked: liveness (`Completes`, `Shows`, and the violations of
`CompletesByItself` and `AlwaysShows`), which is out of the prover's reach, as
fairness and ENABLED are. The violations are TLC's.

## Not modelled, and why

* OpenRaft: an external library; what the storage relies on is listed above.
* Byte encodings (`control_codec.rs`, snapshot envelopes): sequential, with
  round-trip tests. Checksums are modelled by what they distinguish.
* Overlap of a snapshot build with an install: decided inside OpenRaft. (The
  overlap of either with the repository's own reads is modelled.)
* The worker's output buffers (`append_output`, caps by age, execution and
  registry) and the attach sessions of the cluster plugin.
* The rest of the pane runtime, sessions and contexts, local snapshot file,
  the rest of server and IPC, relay, recording, rendering, configuration, front ends: local,
  sequential or pure I/O; candidates for later modules are named in
  `PROJECT.json`. The repository has some 650,000 lines, most of them of this
  kind; the models are about the few thousand in which several actors meet.

## Plan

1. **Done:** ControlState, WorkerRegistry, SnapshotStore, LaunchWorkflow with
   its contract, AttachOutput, each with its proofs.
2. **Done:** a theorem for every safety property of a passing run and, under
   the condition named, for the property of each safety violation. Next: that
   `LaunchWorkflow`'s workers are an abstraction of `WorkerRegistry`.
3. **AttachState:** inputs of a cluster attach session against the worker's
   fence, the order in which leases are accepted, input to quarantined
   executions.
4. **Membership tables of the control state**, feature activation, then the
   join and promotion protocol.
5. **Worker output buffers:** the caps, cursors and reported gaps.
6. **Placement** as operators, checked against a reference ranking.
