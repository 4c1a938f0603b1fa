---------------------------- MODULE SnapshotStore ----------------------------
(***************************************************************************)
(* One voter's durable consensus storage: the log, the applied position    *)
(* and the snapshot files, with a crash possible between any two durable   *)
(* writes and during the write of a snapshot file                          *)
(* (plugins/cluster-plugin/src/consensus_storage.rs).                      *)
(*                                                                         *)
(* The files are shared.  OpenRaft builds and installs snapshots; every    *)
(* read of the control state on the serving node opens the state machine   *)
(* again (consensus_runtime.rs), and opening checks the active snapshot,   *)
(* publishes it again when its encoding is an older one, and deletes every *)
(* other snapshot file.  Nothing makes these threads wait for each other.  *)
(*                                                                         *)
(* A database transaction is one step.  A snapshot is the control state at *)
(* a log index in some encoding; its name is the index (the source adds    *)
(* the revision, which the index determines), its checksum tells it from   *)
(* every other one, so the snapshot itself stands for both.  Index 0 means *)
(* "nothing yet".  The votes and the contents of log entries are dropped.  *)
(*                                                                         *)
(* OpenRaft is external.  It is taken to run one publication at a time, to *)
(* purge no further than a snapshot whose build or install has returned,   *)
(* and to stop the node on a storage error.                                *)
(***************************************************************************)
EXTENDS Naturals

CONSTANTS
  Readers,        \* concurrent reads of the control state on the serving node
  Raft,           \* the thread of OpenRaft, and of startup before it
  Formats,        \* encodings of the control state found in snapshots
  Current,        \* the encoding this program writes
  Threshold,      \* entries since the last snapshot that start a build
  CrashMidWrite,  \* may a crash interrupt the write of a snapshot file?
  MaxIndex,       \* bound: last log index
  Torn,           \* the content of a file whose write was interrupted
  Absent

Threads == Readers \cup {Raft}

Indexes == 0 .. MaxIndex

Snapshot == [index: Indexes, format: Formats]

\* A publication or a check under way, in the order of its steps.
Steps == {"check", "draft", "manifest", "create", "write", "rename", "commit",
          "clear", "list", "remove"}

\* build, install: OpenRaft's.  check: opening the state machine, at startup
\* or for a read; migrate: such a check while it publishes again.  "listed"
\* holds the names that the directory listing of a sweep has yet to remove.
Publication == [kind: {"build", "install", "check", "migrate"}, step: Steps,
                snapshot: Snapshot, listed: SUBSET Indexes]

Statuses == {"down", "recovered", "discarding", "reconciled", "validating",
             "open", "failed"}

ASSUME ThreadsAssumption == Raft \notin Readers

ASSUME FormatsAssumption ==
  /\ Current \in Formats
  /\ CrashMidWrite \in BOOLEAN

ASSUME BoundsAssumption ==
  /\ MaxIndex \in Nat
  /\ Threshold \in Nat \ {0}

ASSUME AbsentAssumption ==
  /\ Absent \notin Snapshot
  /\ Absent \notin Publication
  /\ Torn \notin Snapshot
  /\ Torn # Absent

VARIABLES
  last,      \* database: last log index
  purged,    \* database: last purged log index
  applied,   \* database: last index applied to the persisted control state
  active,    \* database: identity and checksum of the active snapshot
  draft,     \* file: the temporary manifest
  manifest,  \* file: the publication under way
  final,     \* files: <index>.snapshot
  tmp,       \* files: <index>.tmp
  status,    \* how far startup has got
  jobs,      \* what each thread is doing
  known,     \* OpenRaft: the index of its last snapshot
  late,      \* history: is the active snapshot one a read put back?
  swept      \* history: files removed under a publication of another thread

database == <<last, purged, applied, active>>
files == <<draft, manifest, final, tmp>>
history == <<late, swept>>
vars == <<database, files, status, jobs, known, history>>

Idle == [t \in Threads |-> Absent]

Init ==
  /\ last = 0
  /\ purged = 0
  /\ applied = 0
  /\ active = Absent
  /\ draft = Absent
  /\ manifest = Absent
  /\ final = [i \in Indexes |-> Absent]
  /\ tmp = [i \in Indexes |-> Absent]
  /\ status = "down"
  /\ jobs = Idle
  /\ known = 0
  /\ late = FALSE
  /\ swept = {}

Open == status = "open"

\* The index the active snapshot stands for.
Covered == IF active = Absent THEN 0 ELSE active.index

At(t, step) == jobs[t] # Absent /\ jobs[t].step = step

Name(t) == jobs[t].snapshot.index

-----------------------------------------------------------------------------
(* The log and the state machine. *)

\* OpenRaft appends after the applied position.
Append ==
  /\ Open
  /\ applied <= last
  /\ last < MaxIndex
  /\ last' = last + 1
  /\ UNCHANGED <<purged, applied, active, files, status, jobs, known, history>>

\* The log is cut from index i; OpenRaft never cuts an applied entry.
Truncate(i) ==
  /\ Open
  /\ i > applied
  /\ i <= last
  /\ last' = i - 1
  /\ UNCHANGED <<purged, applied, active, files, status, jobs, known, history>>

\* The control state and the position are committed together.  A build works
\* on a copy of the state machine, so entries are applied meanwhile.
Apply ==
  /\ Open
  /\ jobs[Raft] # Absent => jobs[Raft].kind = "build"
  /\ applied < last
  /\ applied' = applied + 1
  /\ UNCHANGED <<last, purged, active, files, status, jobs, known, history>>

\* Mutation of Purge: up to the applied position.
PurgeApplied ==
  /\ Open
  /\ applied > purged
  /\ purged' = applied
  /\ last' = IF last < applied THEN applied ELSE last
  /\ UNCHANGED <<applied, active, files, status, jobs, known, history>>

\* Mutation of Purge: one entry too many.
PurgeOneMore ==
  /\ Open
  /\ known > purged
  /\ purged' = known + 1
  /\ last' = IF last < known THEN known ELSE last
  /\ UNCHANGED <<applied, active, files, status, jobs, known, history>>

\* The log up to the last snapshot is dropped, nothing of it is kept back
\* (max_in_snapshot_log_to_keep: 0).
Purge ==
  /\ Open
  /\ known > purged
  /\ purged' = known
  /\ last' = IF last < known THEN known ELSE last
  /\ UNCHANGED <<applied, active, files, status, jobs, known, history>>

Start(t, kind, step, snapshot) ==
  jobs' = [jobs EXCEPT ![t] = [kind |-> kind, step |-> step,
                               snapshot |-> snapshot, listed |-> {}]]

\* SnapshotPolicy::LogsSinceLast.
BuildDue == applied >= known + Threshold

\* Mutation of BuildSnapshot: the snapshot is labelled with the purged index.
BuildSnapshotAtPurged ==
  /\ Open
  /\ jobs[Raft] = Absent
  /\ BuildDue
  /\ Start(Raft, "build", "draft", [index |-> purged, format |-> Current])
  /\ UNCHANGED <<database, files, status, known, history>>

BuildSnapshot ==
  /\ Open
  /\ jobs[Raft] = Absent
  /\ BuildDue
  /\ Start(Raft, "build", "draft", [index |-> applied, format |-> Current])
  /\ UNCHANGED <<database, files, status, known, history>>

\* The state is persisted first, the received file is published after that,
\* in the encoding it came in.
InstallSnapshot(s) ==
  /\ Open
  /\ jobs[Raft] = Absent
  /\ s.index > applied
  /\ applied' = s.index
  /\ Start(Raft, "install", "draft", s)
  /\ UNCHANGED <<last, purged, active, files, status, known, history>>

-----------------------------------------------------------------------------
(* publish_snapshot, one durable step at a time, by any thread. *)

Go(t, step) == jobs' = [jobs EXCEPT ![t].step = step]

\* An error goes to the caller of a read, stops the node when OpenRaft meets
\* it, and refuses the startup.  What the files hold stays.  (Reads that
\* outlive OpenRaft do nothing they could not do before it stops.)
Fails(t) ==
  /\ jobs' = IF t \in Readers THEN [jobs EXCEPT ![t] = Absent] ELSE Idle
  /\ status' = IF t \in Readers THEN status
               ELSE IF Open THEN "down" ELSE "failed"
  /\ UNCHANGED <<database, files, known, history>>

\* The temporary manifest has one name for all: it is deleted and written.
DraftManifest(t) ==
  /\ At(t, "draft")
  /\ draft' = jobs[t].snapshot
  /\ Go(t, "manifest")
  /\ UNCHANGED <<database, manifest, final, tmp, status, known, history>>

\* Renamed, whichever thread wrote it last.
WriteManifest(t) ==
  /\ At(t, "manifest")
  /\ draft # Absent
  /\ manifest' = draft
  /\ draft' = Absent
  /\ Go(t, "create")
  /\ UNCHANGED <<database, final, tmp, status, known, history>>

\* Another thread deletes, creates or renames the temporary manifest, or
\* deletes the manifest, between two of this one's calls.
ManifestFails(t) ==
  /\ \/ At(t, "draft") /\ \E u \in Threads \ {t} : At(u, "draft") \/ At(u, "manifest")
     \/ At(t, "manifest") /\ draft = Absent
     \/ At(t, "manifest") /\ \E u \in Threads \ {t} : At(u, "draft")
     \/ At(t, "clear") /\ \E u \in Threads \ {t} : At(u, "clear")
  /\ Fails(t)

\* create_new.
CreateTemporary(t) ==
  /\ At(t, "create")
  /\ tmp[Name(t)] = Absent
  /\ tmp' = [tmp EXCEPT ![Name(t)] = Torn]
  /\ Go(t, "write")
  /\ UNCHANGED <<database, draft, manifest, final, status, known, history>>

\* A file that another or an earlier publication has under this name.
CreateFails(t) ==
  /\ At(t, "create")
  /\ tmp[Name(t)] # Absent
  /\ Fails(t)

WriteTemporary(t) ==
  /\ At(t, "write")
  /\ tmp' = [tmp EXCEPT ![Name(t)] = jobs[t].snapshot]
  /\ Go(t, "rename")
  /\ UNCHANGED <<database, draft, manifest, final, status, known, history>>

RenameTemporary(t) ==
  /\ At(t, "rename")
  /\ final' = [final EXCEPT ![Name(t)] = tmp[Name(t)]]
  /\ tmp' = [tmp EXCEPT ![Name(t)] = Absent]
  /\ swept' = swept \ {Name(t)}
  /\ Go(t, "commit")
  /\ UNCHANGED <<database, draft, manifest, status, known, late>>

\* Mutation of CommitActive: the database is not updated.
CommitActiveSkipped(t) ==
  /\ At(t, "commit")
  /\ Go(t, "clear")
  /\ UNCHANGED <<database, files, status, known, history>>

\* No look at what has become active since this thread began.
CommitActive(t) ==
  /\ At(t, "commit")
  /\ active' = jobs[t].snapshot
  /\ late' = (jobs[t].kind = "migrate" /\ (late \/ Covered # Name(t)))
  /\ Go(t, "clear")
  /\ UNCHANGED <<last, purged, applied, files, status, known, swept>>

\* Whichever publication it is of.
RemoveManifest(t) ==
  /\ At(t, "clear")
  /\ manifest' = Absent
  /\ Go(t, "list")
  /\ UNCHANGED <<database, draft, final, tmp, status, known, history>>

\* Mutation of Inactive: the published file is not spared.
InactiveAny(t) == {i \in Indexes : final[i] # Absent}

Inactive(t) == {i \in Indexes : final[i] # Absent /\ i # Name(t)}

\* remove_inactive_snapshots lists the directory and deletes file by file;
\* temporary files stay.
ListInactive(t) ==
  /\ At(t, "list")
  /\ jobs' = [jobs EXCEPT ![t] = [@ EXCEPT !.step = "remove", !.listed = Inactive(t)]]
  /\ UNCHANGED <<database, files, status, known, history>>

\* Another thread relies on this file: it is the active one or is about to be.
InUse(t, i) ==
  /\ i # Name(t)
  /\ \/ Covered = i
     \/ \E u \in Threads : At(u, "commit") /\ Name(u) = i

RemoveInactive(t, i) ==
  /\ At(t, "remove")
  /\ i \in jobs[t].listed
  /\ final[i] # Absent
  /\ final' = [final EXCEPT ![i] = Absent]
  /\ swept' = IF InUse(t, i) THEN swept \cup {i} ELSE swept
  /\ jobs' = [jobs EXCEPT ![t].listed = @ \ {i}]
  /\ UNCHANGED <<database, draft, manifest, tmp, status, known, late>>

\* Another thread has deleted it since the listing.
RemoveFails(t) ==
  /\ At(t, "remove")
  /\ \E i \in jobs[t].listed : final[i] = Absent
  /\ Fails(t)

\* A migration is followed by the sweep of the check it belongs to; OpenRaft
\* learns of its snapshot; startup is complete.
FinishSweep(t) ==
  /\ At(t, "remove")
  /\ jobs[t].listed = {}
  /\ \/ /\ jobs[t].kind = "migrate"
        /\ Start(t, "check", "list", jobs[t].snapshot)
        /\ UNCHANGED <<status, known>>
     \/ /\ jobs[t].kind # "migrate"
        /\ jobs' = [jobs EXCEPT ![t] = Absent]
        /\ status' = "open"
        /\ known' = IF t = Raft THEN Name(t) ELSE known
  /\ UNCHANGED <<database, files, history>>

-----------------------------------------------------------------------------
(* validate_active_snapshot, at startup and in every read. *)

\* Without an active snapshot there is nothing to check.
ReadActive(t) ==
  /\ \/ /\ t \in Readers /\ Open
        /\ UNCHANGED status
     \/ /\ t = Raft /\ status = "reconciled"
        /\ status' = "validating"
  /\ jobs[t] = Absent
  /\ active # Absent
  /\ Start(t, "check", "check", active)
  /\ UNCHANGED <<database, files, known, history>>

\* The file must be there and unchanged; one in an older encoding is
\* published again under its name.
CheckActive(t) ==
  /\ At(t, "check")
  /\ final[Name(t)] = jobs[t].snapshot
  /\ IF jobs[t].snapshot.format = Current THEN Go(t, "list")
     ELSE Start(t, "migrate", "draft", [jobs[t].snapshot EXCEPT !.format = Current])
  /\ UNCHANGED <<database, files, status, known, history>>

CheckFails(t) ==
  /\ At(t, "check")
  /\ final[Name(t)] # jobs[t].snapshot
  /\ Fails(t)

-----------------------------------------------------------------------------
(* Startup. *)

Refuse == status' = "failed" /\ UNCHANGED <<manifest, final, tmp>>

\* recover_snapshot_publication: a complete temporary file is promoted.
RecoverPublication ==
  /\ status = "down"
  /\ draft' = Absent
  /\ IF manifest = Absent THEN status' = "recovered" /\ UNCHANGED <<manifest, final, tmp>>
     ELSE LET i == manifest.index
          IN \/ /\ final[i] # Absent
                /\ IF final[i] = manifest
                   THEN status' = "recovered" /\ UNCHANGED <<manifest, final, tmp>>
                   ELSE Refuse
             \/ /\ final[i] = Absent /\ tmp[i] # Absent
                /\ IF tmp[i] = manifest
                   THEN /\ final' = [final EXCEPT ![i] = tmp[i]]
                        /\ tmp' = [tmp EXCEPT ![i] = Absent]
                        /\ status' = "recovered"
                        /\ UNCHANGED manifest
                   ELSE Refuse
             \/ /\ final[i] = Absent /\ tmp[i] = Absent
                /\ status' = "recovered"
                /\ UNCHANGED <<manifest, final, tmp>>
  /\ UNCHANGED <<database, jobs, known, history>>

\* Mutation of ReconcileManifest: a committed publication is taken back too.
ReconcileManifestUncommitted ==
  /\ status = "recovered"
  /\ \/ /\ manifest = Absent \/ active = Absent
        /\ status' = "reconciled"
     \/ /\ manifest # Absent /\ active # Absent
        /\ status' = "discarding"
  /\ UNCHANGED <<database, files, jobs, known, history>>

\* reconcile_snapshot_manifest: a publication that was committed is
\* finished, one that was not is taken back, unless there is no active
\* snapshot at all.
ReconcileManifest ==
  /\ status = "recovered"
  /\ \/ /\ manifest # Absent /\ active = manifest
        /\ manifest' = Absent
        /\ status' = "reconciled"
     \/ /\ manifest = Absent \/ active = Absent
        /\ status' = "reconciled"
        /\ UNCHANGED manifest
     \/ /\ manifest # Absent /\ active # Absent /\ active # manifest
        /\ status' = "discarding"
        /\ UNCHANGED manifest
  /\ UNCHANGED <<database, draft, final, tmp, jobs, known, history>>

\* Taking back: the file, the temporary file, then the manifest.
DiscardPublication ==
  LET i == manifest.index
  IN /\ status = "discarding"
     /\ \/ /\ final[i] # Absent
           /\ final' = [final EXCEPT ![i] = Absent]
           /\ UNCHANGED <<tmp, manifest, status>>
        \/ /\ final[i] = Absent /\ tmp[i] # Absent
           /\ tmp' = [tmp EXCEPT ![i] = Absent]
           /\ UNCHANGED <<final, manifest, status>>
        \/ /\ final[i] = Absent /\ tmp[i] = Absent
           /\ manifest' = Absent
           /\ status' = "reconciled"
           /\ UNCHANGED <<final, tmp>>
     /\ UNCHANGED <<database, draft, jobs, known, history>>

\* With nothing to validate the node starts at once.
OpenEmpty ==
  /\ status = "reconciled"
  /\ active = Absent
  /\ status' = "open"
  /\ known' = 0
  /\ UNCHANGED <<database, files, jobs, history>>

\* A file being written may be torn; everything else is as it was.
Crash ==
  /\ (\E t \in Threads : At(t, "write")) => CrashMidWrite
  /\ status' = "down"
  /\ jobs' = Idle
  /\ UNCHANGED <<database, files, known, history>>

-----------------------------------------------------------------------------

Publish(t) ==
  \/ DraftManifest(t)
  \/ WriteManifest(t)
  \/ ManifestFails(t)
  \/ CreateTemporary(t)
  \/ CreateFails(t)
  \/ WriteTemporary(t)
  \/ RenameTemporary(t)
  \/ CommitActive(t)
  \/ RemoveManifest(t)
  \/ ListInactive(t)
  \/ \E i \in Indexes : RemoveInactive(t, i)
  \/ RemoveFails(t)
  \/ FinishSweep(t)

Validate(t) ==
  \/ ReadActive(t)
  \/ CheckActive(t)
  \/ CheckFails(t)

Startup ==
  \/ RecoverPublication
  \/ ReconcileManifest
  \/ DiscardPublication
  \/ OpenEmpty

Next ==
  \/ Append
  \/ \E i \in Indexes : Truncate(i)
  \/ Apply
  \/ Purge
  \/ BuildSnapshot
  \/ \E s \in Snapshot : InstallSnapshot(s)
  \/ \E t \in Threads : Publish(t) \/ Validate(t)
  \/ Startup
  \/ Crash

Spec == Init /\ [][Next]_vars

-----------------------------------------------------------------------------
(* Properties. *)

\* The database, the files and the threads have their shapes.
TypeOK ==
  /\ last \in Indexes
  /\ purged \in Indexes
  /\ applied \in Indexes
  /\ active \in Snapshot \cup {Absent}
  /\ draft \in Snapshot \cup {Absent}
  /\ manifest \in Snapshot \cup {Absent}
  /\ final \in [Indexes -> Snapshot \cup {Torn, Absent}]
  /\ tmp \in [Indexes -> Snapshot \cup {Torn, Absent}]
  /\ status \in Statuses
  /\ jobs \in [Threads -> Publication \cup {Absent}]
  /\ known \in Indexes
  /\ late \in BOOLEAN
  /\ swept \in SUBSET Indexes

\* The active snapshot is never ahead of the persisted state, and no log
\* prefix is gone that it does not cover, whenever a crash comes, except
\* from the late commit of a read's migration to OpenRaft's next snapshot
\* (publish_snapshot, install_snapshot, consensus_config).
PurgedIsCovered ==
  /\ Covered <= applied
  /\ late \/ purged <= Covered

\* The active snapshot goes back to an older position in no step but one,
\* the commit of a read that publishes again what it found active before: no
\* build, install, startup or crash replaces a newer one.
ActiveAdvances ==
  [][active # Absent =>
       /\ active' # Absent
       /\ \/ active.index <= active'.index
          \/ \E t \in Readers : CommitActive(t) /\ jobs[t].kind = "migrate"]_vars

\* Files, publications, migrations and crashes together keep the contract of
\* a log with a snapshot: what is applied and purged never goes back, the
\* snapshot only in a lapse that the next one ends, and outside a lapse a
\* purge removes only what the snapshot stands for.
Log == INSTANCE LogContract WITH covered <- Covered, lapsed <- late

KeepsLog == Log!Spec

\* While the node serves, the file of the active snapshot is there with the
\* recorded checksum, so that get_current_snapshot can read it, except in
\* the moment between rename and commit of a publication of the same name
\* and after the sweep of one thread has removed the file another published.
ActiveReadable ==
  Open /\ active # Absent
       /\ ~(\E t \in Threads : At(t, "commit") /\ Name(t) = active.index) =>
    final[active.index] = active \/ active.index \in swept

Older(s) == s \in Snapshot /\ s.format # Current

\* Startup refuses a node only for one of three reasons: the temporary file
\* of the publication under way is torn, a snapshot in an older encoding is
\* the active one or has the name of the publication, or the sweep of
\* another thread removed the active file.  A crash between any two other
\* steps is repaired (recover_snapshot_publication,
\* reconcile_snapshot_manifest).
RefusalsExplained ==
  status = "failed" =>
    \/ Older(active)
    \/ active # Absent /\ active.index \in swept
    \/ /\ manifest # Absent
       /\ \/ tmp[manifest.index] = Torn
          \/ \E s \in {manifest, final[manifest.index], tmp[manifest.index]} : Older(s)

-----------------------------------------------------------------------------
(* What the documents state and the code does not keep. *)

\* A node that stopped at any point of a publication starts again (ADR-0010:
\* "On interruption, startup uses the manifest and checksums to select the
\* last fully committed database").
Restarts == status # "failed"
=============================================================================
