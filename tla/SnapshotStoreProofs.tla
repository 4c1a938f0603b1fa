------------------------- MODULE SnapshotStoreProofs -------------------------
(***************************************************************************)
(* What SnapshotStore keeps for every log length, threshold, set of        *)
(* encodings and number of concurrent reads, with crashes at every step.   *)
(***************************************************************************)
EXTENDS SnapshotStore, TLAPS

\* The steps of a publication before and after its snapshot is the active one.
Before == {"draft", "manifest", "create", "write", "rename", "commit"}
After == {"clear", "list", "remove"}
Checks == {"check", "migrate"}

\* Which thread does what, and when: reads run on an open node, OpenRaft
\* publishes on one, and before that its thread runs the check of startup.
Placed ==
  \A t \in Threads : jobs[t] # Absent =>
    /\ t \in Readers => Open /\ jobs[t].kind \in Checks
    /\ t = Raft => IF jobs[t].kind \in Checks THEN status = "validating" ELSE Open
    /\ jobs[t].kind = "check" => jobs[t].step \in {"check", "list", "remove"}
    /\ jobs[t].kind # "check" => jobs[t].step \in Before \cup After
    /\ jobs[t].kind \in {"build", "migrate"} => jobs[t].snapshot.format = Current
    /\ Name(t) \notin jobs[t].listed

\* The check of startup has the active snapshot to itself.
StartupJob ==
  status = "validating" =>
    /\ jobs[Raft] # Absent /\ active # Absent
    /\ Name(Raft) = active.index
    /\ jobs[Raft].step \in Before => Older(active)
    /\ jobs[Raft].step \notin Before => jobs[Raft].snapshot = active
    /\ \A i \in jobs[Raft].listed : final[i] # Absent

\* The newest position OpenRaft has made active since the node opened.
Reach == IF jobs[Raft] # Absent /\ jobs[Raft].step \in After THEN Name(Raft) ELSE known

\* No thread is ahead of Reach but OpenRaft's publication before its commit,
\* and unless a read was late the active snapshot is there.
Positions ==
  /\ purged <= applied
  /\ Open => /\ known <= applied
             /\ Covered <= Reach
             /\ late \/ Covered = Reach
             /\ \A t \in Readers : jobs[t] # Absent => Name(t) <= Reach
             /\ jobs[Raft] # Absent => /\ known < Name(Raft)
                                       /\ purged <= Name(Raft)
                                       /\ Name(Raft) <= applied

IInv == TypeOK /\ PurgedIsCovered /\ Placed /\ StartupJob /\ Positions

\* Files are named after what they hold, temporary ones belong to one thread
\* each, and what is about to become active is there unless it was swept.
FilesHeld ==
  /\ \A i \in Indexes : /\ final[i] # Absent => final[i] \in Snapshot /\ final[i].index = i
                        /\ tmp[i] \notin {Torn, Absent} => tmp[i].index = i
  /\ \A t \in Threads :
       /\ At(t, "write") => tmp[Name(t)] # Absent
       /\ At(t, "rename") => tmp[Name(t)] = jobs[t].snapshot
       /\ At(t, "commit") => final[Name(t)] = jobs[t].snapshot \/ Name(t) \in swept
  /\ \A t, u \in Threads :
       (At(t, "write") \/ At(t, "rename")) /\ (At(u, "write") \/ At(u, "rename"))
         /\ Name(t) = Name(u) => t = u

\* The active file, while the node runs and at any time.
ActiveHeld ==
  active # Absent =>
    /\ final[active.index] = active \/ active.index \in swept \/ Older(active)
    /\ Open \/ (status = "validating" /\ ~At(Raft, "check")) =>
         \/ final[active.index] = active \/ active.index \in swept
         \/ \E t \in Threads : At(t, "commit") /\ Name(t) = active.index

\* A manifest in an older encoding is never of a snapshot that has been
\* migrated: recovery would take the migrated file back.
ManifestHeld ==
  /\ Older(draft) /\ status \notin {"down", "failed"} =>
       At(Raft, "manifest") /\ jobs[Raft].kind = "install" /\ jobs[Raft].snapshot = draft
  /\ \A t \in Threads :
       (\E step \in {"create", "write", "rename", "commit"} : At(t, step))
         /\ ~Older(jobs[t].snapshot) =>
           ~(Older(manifest) /\ manifest.index = Name(t))
  /\ Older(manifest) /\ active # Absent /\ manifest.index = active.index => Older(active)
  /\ status = "discarding" => manifest # Absent /\ active # Absent /\ active # manifest

FInv == FilesHeld /\ ActiveHeld /\ ManifestHeld

-----------------------------------------------------------------------------
(* The fields of a publication, and the ways a thread's record changes. *)

LEMMA SnapshotFields ==
  ASSUME NEW s \in Snapshot
  PROVE  s.index \in Indexes /\ s.index \in Nat /\ s # Absent /\ s # Torn
  BY AbsentAssumption, BoundsAssumption DEF Snapshot, Indexes

LEMMA Numbers ==
  ASSUME TypeOK
  PROVE  /\ last \in Nat /\ purged \in Nat /\ applied \in Nat /\ known \in Nat
         /\ MaxIndex \in Nat /\ Threshold \in Nat \ {0}
         /\ Covered \in Nat /\ Covered \in Indexes
         /\ active # Absent => /\ active \in Snapshot /\ active # Torn
                               /\ active.index \in Indexes /\ active.index \in Nat
                               /\ Covered = active.index
  BY SnapshotFields, BoundsAssumption DEF TypeOK, Indexes, Covered

LEMMA JobFields ==
  ASSUME TypeOK, NEW t \in Threads, jobs[t] # Absent
  PROVE  /\ jobs[t] \in Publication
         /\ jobs[t].kind \in {"build", "install", "check", "migrate"}
         /\ jobs[t].step \in Steps
         /\ jobs[t].snapshot \in Snapshot
         /\ jobs[t].snapshot # Absent /\ jobs[t].snapshot # Torn
         /\ jobs[t].listed \in SUBSET Indexes
         /\ Name(t) \in Indexes /\ Name(t) \in Nat
  BY AbsentAssumption, BoundsAssumption
  DEF TypeOK, Publication, Snapshot, Name, Indexes

LEMMA GoFields ==
  ASSUME TypeOK, NEW t \in Threads, jobs[t] # Absent, NEW step \in Steps, Go(t, step)
  PROVE  /\ jobs' \in [Threads -> Publication \cup {Absent}]
         /\ jobs'[t] # Absent /\ jobs'[t].step = step
         /\ jobs'[t].kind = jobs[t].kind
         /\ jobs'[t].snapshot = jobs[t].snapshot
         /\ jobs'[t].listed = jobs[t].listed
         /\ \A u \in Threads \ {t} : jobs'[u] = jobs[u]
<1>1. jobs[t] \in Publication
  BY JobFields
<1>2. [jobs[t] EXCEPT !.step = step] \in Publication
  BY <1>1 DEF Publication
<1>3. jobs' = [jobs EXCEPT ![t] = [jobs[t] EXCEPT !.step = step]]
  BY DEF Go
<1> QED BY <1>1, <1>2, <1>3, AbsentAssumption DEF TypeOK, Publication

LEMMA StartFields ==
  ASSUME TypeOK, NEW t \in Threads, NEW kind \in {"build", "install", "check", "migrate"},
         NEW step \in Steps, NEW s \in Snapshot, Start(t, kind, step, s)
  PROVE  /\ jobs' \in [Threads -> Publication \cup {Absent}]
         /\ jobs'[t] # Absent /\ jobs'[t].step = step
         /\ jobs'[t].kind = kind
         /\ jobs'[t].snapshot = s
         /\ jobs'[t].listed = {}
         /\ \A u \in Threads \ {t} : jobs'[u] = jobs[u]
<1> DEFINE r == [kind |-> kind, step |-> step, snapshot |-> s, listed |-> {}]
<1>1. r \in Publication
  BY DEF Publication
<1>2. jobs' = [jobs EXCEPT ![t] = r]
  BY DEF Start
<1> QED BY <1>1, <1>2, AbsentAssumption DEF TypeOK

LEMMA DropFields ==
  ASSUME TypeOK, NEW t \in Threads, jobs' = [jobs EXCEPT ![t] = Absent]
  PROVE  /\ jobs' \in [Threads -> Publication \cup {Absent}]
         /\ jobs'[t] = Absent
         /\ \A u \in Threads \ {t} : jobs'[u] = jobs[u]
  BY DEF TypeOK

\* A list of files to remove is taken, or shortened.
LEMMA ListFields ==
  ASSUME TypeOK, NEW t \in Threads, jobs[t] # Absent, NEW step \in Steps,
         NEW listed \in SUBSET Indexes,
         jobs' = [jobs EXCEPT ![t] = [jobs[t] EXCEPT !.step = step, !.listed = listed]]
  PROVE  /\ jobs' \in [Threads -> Publication \cup {Absent}]
         /\ jobs'[t] # Absent /\ jobs'[t].step = step
         /\ jobs'[t].kind = jobs[t].kind
         /\ jobs'[t].snapshot = jobs[t].snapshot
         /\ jobs'[t].listed = listed
         /\ \A u \in Threads \ {t} : jobs'[u] = jobs[u]
<1>1. jobs[t] \in Publication
  BY JobFields
<1>2. [jobs[t] EXCEPT !.step = step, !.listed = listed] \in Publication
  BY <1>1 DEF Publication
<1> QED BY <1>1, <1>2, AbsentAssumption DEF TypeOK, Publication

LEMMA IdleFields ==
  /\ Idle \in [Threads -> Publication \cup {Absent}]
  /\ \A t \in Threads : Idle[t] = Absent
  /\ Raft \in Threads
  BY DEF Idle, Threads

-----------------------------------------------------------------------------
(* The database. *)

\* A thread that moves on inside one half of its publication.
LEMMA MoveStep ==
  ASSUME IInv, TypeOK', NEW t \in Threads, jobs[t] # Absent,
         jobs'[t] # Absent, jobs'[t].kind = jobs[t].kind,
         jobs'[t].snapshot = jobs[t].snapshot,
         \A u \in Threads \ {t} : jobs'[u] = jobs[u],
         UNCHANGED <<database, status, known, late>>,
         \/ jobs[t].step \in Before /\ jobs'[t].step \in Before
         \/ jobs[t].step \in After /\ jobs'[t].step \in {"list", "remove"},
         Name(t) \notin jobs'[t].listed,
         status = "validating" => \A i \in jobs'[t].listed : final'[i] # Absent
  PROVE  IInv'
<1>1. Raft \in Threads
  BY DEF Threads
<1>2. Placed'
  BY DEF IInv, Placed, Name, Open, Before, After
<1>3. StartupJob'
  <2> SUFFICES ASSUME status' = "validating" PROVE StartupJob'
    BY DEF StartupJob
  <2>1. t = Raft
    BY DEF IInv, Placed, Open, Threads
  <2>2. /\ jobs[Raft] # Absent /\ active # Absent /\ Name(Raft) = active.index
        /\ jobs[Raft].step \in Before => Older(active)
        /\ jobs[Raft].step \notin Before => jobs[Raft].snapshot = active
    BY DEF IInv, StartupJob
  <2>3. /\ UNCHANGED active /\ Older(active)' = Older(active)
        /\ Name(Raft)' = Name(Raft)
    BY <2>1 DEF database, Name, Older
  <2>4. \A i \in jobs'[Raft].listed : final'[i] # Absent
    BY <2>1
  <2> QED BY <2>1, <2>2, <2>3, <2>4 DEF StartupJob, Before, After
<1>4. Reach' = Reach
  BY <1>1 DEF Reach, Name, Before, After
<1>5. PurgedIsCovered' /\ Covered' = Covered
  BY DEF IInv, PurgedIsCovered, Covered, database
<1>6. Positions'
  <2>1. \A u \in Threads : (jobs'[u] # Absent => jobs[u] # Absent) /\ Name(u)' = Name(u)
    BY DEF Name
  <2> QED BY <1>1, <1>4, <1>5, <2>1 DEF IInv, Positions, database, Open, Threads
<1> QED BY <1>2, <1>3, <1>5, <1>6 DEF IInv
\* The steps on files.
LEMMA FileStep ==
  ASSUME IInv, NEW t \in Threads,
         \/ DraftManifest(t) \/ WriteManifest(t) \/ CreateTemporary(t)
         \/ WriteTemporary(t) \/ RenameTemporary(t) \/ RemoveManifest(t)
  PROVE  IInv'
<1>1. /\ jobs[t] # Absent /\ UNCHANGED <<database, status, known, late>>
      /\ jobs[t] \in Publication /\ jobs[t].snapshot \in Snapshot /\ Name(t) \in Indexes
  BY JobFields DEF IInv, DraftManifest, WriteManifest, CreateTemporary, WriteTemporary,
                   RenameTemporary, RemoveManifest, At, history
<1>2. PICK step \in {"manifest", "create", "write", "rename", "commit", "list"} :
        /\ Go(t, step)
        /\ \/ jobs[t].step \in Before /\ step \in Before
           \/ jobs[t].step \in After /\ step = "list"
  BY DEF DraftManifest, WriteManifest, CreateTemporary, WriteTemporary, RenameTemporary,
         RemoveManifest, At, Before, After
<1>3. /\ jobs' \in [Threads -> Publication \cup {Absent}]
      /\ jobs'[t] # Absent /\ jobs'[t].step = step
      /\ jobs'[t].kind = jobs[t].kind
      /\ jobs'[t].snapshot = jobs[t].snapshot
      /\ jobs'[t].listed = jobs[t].listed
      /\ \A u \in Threads \ {t} : jobs'[u] = jobs[u]
  BY <1>1, <1>2, GoFields DEF IInv, Steps
<1>4. /\ draft' \in Snapshot \cup {Absent}
      /\ manifest' \in Snapshot \cup {Absent}
      /\ final' \in [Indexes -> Snapshot \cup {Torn, Absent}]
      /\ tmp' \in [Indexes -> Snapshot \cup {Torn, Absent}]
      /\ swept' \in SUBSET Indexes
  BY <1>1 DEF DraftManifest, WriteManifest, CreateTemporary, WriteTemporary, RenameTemporary,
              RemoveManifest, history, IInv, TypeOK
<1>5. TypeOK'
  BY <1>1, <1>3, <1>4 DEF IInv, TypeOK, database
<1>6. Name(t) \notin jobs'[t].listed
  BY <1>1, <1>3 DEF IInv, Placed
<1>7. status = "validating" => \A i \in jobs'[t].listed : final'[i] # Absent
  <2>1. \A i \in Indexes : i # Name(t) => final'[i] = final[i]
    BY <1>1 DEF DraftManifest, WriteManifest, CreateTemporary, WriteTemporary,
                RenameTemporary, RemoveManifest, IInv, TypeOK
  <2>2. jobs[t].listed \in SUBSET Indexes
    BY <1>1, JobFields DEF IInv
  <2>3. status = "validating" => t = Raft
    BY <1>1 DEF IInv, Placed, Open, Threads
  <2> QED BY <1>3, <1>6, <2>1, <2>2, <2>3 DEF IInv, StartupJob
<1> HIDE DEF IInv
<1> QED BY <1>1, <1>2, <1>3, <1>5, <1>6, <1>7, MoveStep

LEMMA SweepStep ==
  ASSUME IInv, NEW t \in Threads, NEW i \in Indexes, ListInactive(t) \/ RemoveInactive(t, i)
  PROVE  IInv'
<1>1. /\ jobs[t] # Absent /\ UNCHANGED <<database, draft, manifest, tmp, status, known, late>>
      /\ jobs[t] \in Publication /\ jobs[t].step \in After
      /\ Name(t) \notin jobs[t].listed /\ jobs[t].listed \in SUBSET Indexes
  BY JobFields
     DEF IInv, Placed, ListInactive, RemoveInactive, At, history, files, After
<1>2. PICK listed \in SUBSET Indexes :
        /\ jobs' = [jobs EXCEPT ![t] = [jobs[t] EXCEPT !.step = "remove", !.listed = listed]]
        /\ Name(t) \notin listed
        /\ status = "validating" => \A k \in listed : final'[k] # Absent
  <2>1. CASE ListInactive(t)
    <3>1. UNCHANGED final
      BY <2>1 DEF ListInactive, files
    <3>2. jobs' = [jobs EXCEPT ![t] = [jobs[t] EXCEPT !.step = "remove", !.listed = Inactive(t)]]
      BY <2>1 DEF ListInactive
    <3>3. /\ Inactive(t) \in SUBSET Indexes /\ Name(t) \notin Inactive(t)
          /\ \A k \in Inactive(t) : final[k] # Absent
      BY DEF Inactive
    <3> QED BY <3>1, <3>2, <3>3
  <2>2. CASE RemoveInactive(t, i)
    <3>1. jobs' = [jobs EXCEPT ![t] = [jobs[t] EXCEPT !.step = "remove", !.listed = jobs[t].listed \ {i}]]
      <4>1. [jobs[t] EXCEPT !.listed = @ \ {i}]
              = [jobs[t] EXCEPT !.step = "remove", !.listed = jobs[t].listed \ {i}]
        BY <1>1, <2>2 DEF RemoveInactive, At, Publication
      <4>2. jobs' = [jobs EXCEPT ![t] = [jobs[t] EXCEPT !.listed = @ \ {i}]]
        BY <2>2 DEF RemoveInactive
      <4> QED BY <4>1, <4>2
    <3>2. status = "validating" => t = Raft
      BY <1>1 DEF IInv, Placed, Open, Threads
    <3>3. \A k \in Indexes \ {i} : final'[k] = final[k]
      BY <2>2 DEF RemoveInactive, IInv, TypeOK
    <3>4. status = "validating" => \A k \in jobs[t].listed \ {i} : final'[k] # Absent
      BY <1>1, <3>2, <3>3 DEF IInv, StartupJob
    <3> QED BY <1>1, <3>1, <3>4
  <2> QED BY <2>1, <2>2
<1>3. /\ jobs' \in [Threads -> Publication \cup {Absent}]
      /\ jobs'[t] # Absent /\ jobs'[t].step = "remove"
      /\ jobs'[t].kind = jobs[t].kind
      /\ jobs'[t].snapshot = jobs[t].snapshot
      /\ jobs'[t].listed = listed
      /\ \A u \in Threads \ {t} : jobs'[u] = jobs[u]
  BY <1>1, <1>2, ListFields DEF IInv, Steps
<1>4. final' \in [Indexes -> Snapshot \cup {Torn, Absent}] /\ swept' \in SUBSET Indexes
  BY DEF ListInactive, RemoveInactive, files, history, IInv, TypeOK
<1>5. TypeOK'
  BY <1>1, <1>3, <1>4 DEF IInv, TypeOK, database
<1> HIDE DEF IInv
<1> QED BY <1>1, <1>2, <1>3, <1>5, MoveStep

\* A commit puts the active snapshot at Reach, or marks it late.
LEMMA CommitFacts ==
  ASSUME IInv, NEW t \in Threads, CommitActive(t)
  PROVE  /\ jobs[t] # Absent /\ jobs[t].step = "commit" /\ jobs[t].kind # "check"
         /\ active' = jobs[t].snapshot /\ Covered' = Name(t) /\ active' # Absent
         /\ UNCHANGED <<last, purged, applied, files, status, known, swept>>
         /\ late' = (jobs[t].kind = "migrate" /\ (late \/ Covered # Name(t)))
         /\ jobs' \in [Threads -> Publication \cup {Absent}]
         /\ jobs'[t] # Absent /\ jobs'[t].step = "clear"
         /\ jobs'[t].kind = jobs[t].kind
         /\ jobs'[t].snapshot = jobs[t].snapshot
         /\ jobs'[t].listed = jobs[t].listed
         /\ \A u \in Threads \ {t} : jobs'[u] = jobs[u]
         /\ Name(t) <= applied /\ Name(t) \in Nat
<1>1. /\ jobs[t] # Absent /\ jobs[t].step = "commit" /\ Go(t, "clear")
      /\ active' = jobs[t].snapshot
      /\ UNCHANGED <<last, purged, applied, files, status, known, swept>>
      /\ late' = (jobs[t].kind = "migrate" /\ (late \/ Covered # Name(t)))
  BY DEF CommitActive, At
<1>2. /\ jobs' \in [Threads -> Publication \cup {Absent}]
      /\ jobs'[t] # Absent /\ jobs'[t].step = "clear"
      /\ jobs'[t].kind = jobs[t].kind
      /\ jobs'[t].snapshot = jobs[t].snapshot
      /\ jobs'[t].listed = jobs[t].listed
      /\ \A u \in Threads \ {t} : jobs'[u] = jobs[u]
  BY <1>1, GoFields DEF IInv, Steps
<1>3. jobs[t].kind # "check"
  BY <1>1 DEF IInv, Placed
<1>4. active' # Absent /\ Covered' = Name(t) /\ Name(t) \in Nat
  BY <1>1, JobFields DEF IInv, Covered, Name
<1>5. Name(t) <= applied
  <2>1. CASE Open /\ t \in Readers
    <3>1. Name(t) <= Reach /\ known <= applied
      BY <1>1, <2>1 DEF IInv, Positions
    <3>2. Reach = known \/ (Reach = Name(Raft) /\ jobs[Raft] # Absent)
      BY DEF Reach
    <3>3. jobs[Raft] # Absent => Name(Raft) <= applied /\ Name(Raft) \in Nat
      BY <2>1, JobFields, IdleFields DEF IInv, Positions
    <3> QED BY <1>4, <3>1, <3>2, <3>3, Numbers DEF IInv
  <2>2. CASE Open /\ t = Raft
    BY <1>1, <2>2 DEF IInv, Positions
  <2>3. CASE status = "validating"
    <3>1. t = Raft
      BY <1>1, <2>3 DEF IInv, Placed, Open, Threads
    <3> QED BY <2>3, <3>1, Numbers DEF IInv, StartupJob, PurgedIsCovered
  <2> QED BY <1>1, <2>1, <2>2, <2>3 DEF IInv, Placed, Threads
<1> QED BY <1>1, <1>2, <1>3, <1>4, <1>5

LEMMA CommitStep ==
  ASSUME IInv, NEW t \in Threads, CommitActive(t)
  PROVE  IInv'
<1>1. /\ jobs[t] # Absent /\ jobs[t].step = "commit" /\ jobs[t].kind # "check"
      /\ active' = jobs[t].snapshot /\ Covered' = Name(t) /\ active' # Absent
      /\ UNCHANGED <<last, purged, applied, files, status, known, swept>>
      /\ late' = (jobs[t].kind = "migrate" /\ (late \/ Covered # Name(t)))
      /\ jobs' \in [Threads -> Publication \cup {Absent}]
      /\ jobs'[t] # Absent /\ jobs'[t].step = "clear"
      /\ jobs'[t].kind = jobs[t].kind
      /\ jobs'[t].snapshot = jobs[t].snapshot
      /\ jobs'[t].listed = jobs[t].listed
      /\ \A u \in Threads \ {t} : jobs'[u] = jobs[u]
      /\ Name(t) <= applied /\ Name(t) \in Nat
  BY CommitFacts
<1>2. /\ jobs[t].snapshot \in Snapshot /\ Raft \in Threads
      /\ \A u \in Threads : Name(u)' = Name(u)
  BY <1>1, JobFields, IdleFields DEF IInv, Name
<1>3. TypeOK'
  BY <1>1, <1>2 DEF IInv, TypeOK, files
<1>4. Placed'
  BY <1>1, <1>2 DEF IInv, Placed, Open, Before, After
<1>5. CASE Open /\ t = Raft
  <2>1. jobs[t].kind \notin Checks /\ known < Name(t) /\ purged <= Name(t)
        /\ jobs'[Raft] # Absent /\ late' = FALSE
    BY <1>1, <1>5 DEF IInv, Placed, Positions, Open, Checks
  <2>2. Reach = known /\ Reach' = Name(t)
    BY <1>1, <1>2, <1>5 DEF Reach, After
  <2>3. PurgedIsCovered'
    BY <1>1, <2>1 DEF PurgedIsCovered
  <2>4. \A u \in Readers : jobs'[u] # Absent => Name(u)' <= Reach'
    <3> SUFFICES ASSUME NEW u \in Readers, jobs'[u] # Absent PROVE Name(u)' <= Reach'
      OBVIOUS
    <3>1. u \in Threads /\ u # t /\ jobs[u] # Absent
      BY <1>1, <1>5, ThreadsAssumption DEF Threads
    <3>2. Name(u) <= known /\ Name(u) \in Nat /\ known \in Nat
      BY <1>5, <2>2, <3>1, JobFields, Numbers DEF IInv, Positions
    <3> QED BY <1>1, <1>2, <2>1, <2>2, <3>1, <3>2
  <2>5. Positions'
    BY <1>1, <1>2, <1>5, <2>1, <2>2, <2>4, Numbers DEF IInv, Positions, Open
  <2> QED BY <1>1, <1>3, <1>4, <1>5, <2>3, <2>5 DEF IInv, StartupJob, Open
<1>6. CASE Open /\ t \in Readers
  <2>1. t # Raft /\ Name(t) <= Reach /\ jobs[t].kind = "migrate"
    BY <1>1, <1>6, ThreadsAssumption DEF IInv, Placed, Positions, Checks
  <2>2. Reach' = Reach /\ jobs'[Raft] = jobs[Raft]
    BY <1>1, <1>2, <2>1 DEF Reach
  <2>3. ~late' => ~late /\ Covered' = Covered
    BY <1>1, <2>1
  <2>4. PurgedIsCovered'
    BY <1>1, <2>3 DEF IInv, PurgedIsCovered
  <2>5. late' \/ Covered' = Reach'
    BY <1>6, <2>2, <2>3 DEF IInv, Positions
  <2>6. \A u \in Readers : jobs'[u] # Absent => Name(u)' <= Reach'
    BY <1>1, <1>2, <1>6, <2>2 DEF IInv, Positions, Threads
  <2>7. Positions'
    BY <1>1, <1>2, <1>6, <2>1, <2>2, <2>5, <2>6 DEF IInv, Positions, Open
  <2> QED BY <1>1, <1>3, <1>4, <1>6, <2>4, <2>7 DEF IInv, StartupJob, Open
<1>7. CASE status = "validating"
  <2>1. t = Raft /\ Name(t) = active.index /\ active # Absent /\ jobs[t].kind = "migrate"
    BY <1>1, <1>7 DEF IInv, Placed, Open, Threads, StartupJob, Checks
  <2>2. Covered = Name(t) /\ Covered' = Covered /\ late' = late
    BY <1>1, <2>1 DEF Covered, IInv, TypeOK
  <2>3. PurgedIsCovered' /\ Positions'
    BY <1>1, <1>7, <2>2 DEF IInv, PurgedIsCovered, Positions, Open
  <2>4. StartupJob'
    BY <1>1, <1>2, <1>7, <2>1 DEF IInv, StartupJob, Before, files, Name
  <2> QED BY <1>3, <1>4, <2>3, <2>4 DEF IInv
<1> QED BY <1>1, <1>5, <1>6, <1>7 DEF IInv, Placed, Threads

\* The log and the state machine.
LEMMA LogStep ==
  ASSUME IInv, NEW i \in Indexes, Append \/ Truncate(i) \/ Apply \/ Purge
  PROVE  IInv'
<1>1. UNCHANGED <<active, files, status, jobs, known, history>> /\ Open
  BY DEF Append, Truncate, Apply, Purge
<1>2. /\ last \in Nat /\ purged \in Nat /\ applied \in Nat /\ known \in Nat /\ i \in Nat
      /\ MaxIndex \in Nat /\ Covered \in Nat
  BY Numbers, BoundsAssumption DEF IInv, Indexes
<1>3. /\ last' \in Indexes /\ applied' \in Indexes /\ purged' \in Indexes
      /\ applied' \in Nat /\ purged' \in Nat
      /\ applied <= applied' /\ (purged' = purged \/ purged' = known)
  <2>1. CASE Append
    BY <1>2, <2>1 DEF Append, Indexes, IInv, TypeOK
  <2>2. CASE Truncate(i)
    BY <1>2, <2>2 DEF Truncate, Indexes, IInv, TypeOK
  <2>3. CASE Apply
    BY <1>2, <2>3 DEF Apply, Indexes, IInv, TypeOK
  <2>4. CASE Purge
    BY <1>2, <2>4 DEF Purge, Indexes, IInv, TypeOK
  <2> QED BY <2>1, <2>2, <2>3, <2>4
<1>4. TypeOK'
  BY <1>1, <1>3 DEF IInv, TypeOK, files, history
<1>5. Placed' /\ StartupJob'
  BY <1>1 DEF IInv, Placed, StartupJob, Open, Name, Older, files
<1>6. /\ Covered' = Covered /\ Reach' = Reach /\ late' = late
      /\ \A t \in Threads : Name(t)' = Name(t)
  BY <1>1 DEF Covered, Reach, Name, history
<1>7. known <= Reach /\ Reach \in Nat
  <2>1. jobs[Raft] # Absent => Name(Raft) \in Nat /\ known < Name(Raft)
    BY <1>1, JobFields, IdleFields DEF IInv, Positions
  <2> QED BY <1>2, <2>1 DEF Reach
<1>8. PurgedIsCovered'
  BY <1>1, <1>2, <1>3, <1>6, <1>7 DEF IInv, PurgedIsCovered, Positions
<1>9. Positions'
  <2>1. jobs[Raft] # Absent => Name(Raft) \in Nat
    BY JobFields, IdleFields DEF IInv
  <2>2. purged' <= applied' /\ known' <= applied'
    BY <1>1, <1>2, <1>3 DEF IInv, Positions
  <2>3. jobs[Raft] # Absent => /\ known' < Name(Raft)' /\ purged' <= Name(Raft)'
                              /\ Name(Raft)' <= applied'
    BY <1>1, <1>2, <1>3, <1>6, <2>1, IdleFields DEF IInv, Positions
  <2>4. \A t \in Readers : jobs'[t] # Absent => Name(t)' <= Reach'
    BY <1>1, <1>6 DEF IInv, Positions, Threads
  <2> QED BY <1>1, <1>6, <2>2, <2>3, <2>4 DEF IInv, Positions
<1> QED BY <1>4, <1>5, <1>8, <1>9 DEF IInv

\* A publication of OpenRaft starts at the applied position, past the last.
LEMMA StartStep ==
  ASSUME IInv, NEW s \in Snapshot, BuildSnapshot \/ InstallSnapshot(s)
  PROVE  IInv'
<1>1. /\ UNCHANGED <<last, purged, active, files, status, known, history>>
      /\ Open /\ jobs[Raft] = Absent /\ Raft \in Threads
  BY IdleFields DEF BuildSnapshot, InstallSnapshot, database
<1>2. /\ purged \in Nat /\ applied \in Nat /\ known \in Nat
      /\ MaxIndex \in Nat /\ Threshold \in Nat \ {0} /\ Covered \in Nat /\ applied \in Indexes
  BY Numbers DEF IInv, TypeOK
<1>3. PICK x \in Snapshot, kind \in {"build", "install"} :
        /\ Start(Raft, kind, "draft", x) /\ x.index = applied' /\ applied <= applied'
        /\ known < applied' /\ (kind = "build" => x.format = Current)
  <2>1. known <= applied
    BY <1>1 DEF IInv, Positions
  <2>2. CASE BuildSnapshot
    <3>1. [index |-> applied, format |-> Current] \in Snapshot
      BY <1>2, FormatsAssumption DEF Snapshot
    <3> QED BY <1>2, <2>2, <3>1 DEF BuildSnapshot, BuildDue, database
  <2>3. CASE InstallSnapshot(s)
    <3>1. s.index \in Nat
      BY SnapshotFields
    <3> QED BY <1>2, <2>1, <2>3, <3>1 DEF InstallSnapshot
  <2> QED BY <2>2, <2>3
<1>4. /\ jobs' \in [Threads -> Publication \cup {Absent}]
      /\ jobs'[Raft] # Absent /\ jobs'[Raft].step = "draft"
      /\ jobs'[Raft].kind = kind /\ jobs'[Raft].snapshot = x
      /\ jobs'[Raft].listed = {}
      /\ \A u \in Threads \ {Raft} : jobs'[u] = jobs[u]
  BY <1>1, <1>3, StartFields DEF IInv, Steps
<1>5. x.index \in Indexes /\ x.index \in Nat /\ Name(Raft)' = x.index
  BY <1>4, SnapshotFields DEF Name
<1>6. TypeOK'
  BY <1>1, <1>3, <1>4, <1>5 DEF IInv, TypeOK, files, history
<1>7. Placed'
  BY <1>1, <1>3, <1>4, ThreadsAssumption DEF IInv, Placed, Open, Name, Before, Checks, Threads
<1>8. StartupJob'
  BY <1>1 DEF StartupJob, Open
<1>9. Reach = known /\ Reach' = known /\ Covered' = Covered
  BY <1>1, <1>4 DEF Reach, After, Covered
<1>10. PurgedIsCovered'
  BY <1>1, <1>2, <1>3, <1>5, <1>9 DEF IInv, PurgedIsCovered, history
<1>11. Positions'
  <2>1. purged <= applied'
    BY <1>2, <1>3, <1>5 DEF IInv, Positions
  <2>2. \A t \in Readers : jobs'[t] # Absent => Name(t)' <= Reach'
    BY <1>1, <1>4, <1>9, ThreadsAssumption DEF IInv, Positions, Name, Threads
  <2> QED BY <1>1, <1>2, <1>3, <1>5, <1>9, <2>1, <2>2 DEF IInv, Positions, history
<1> QED BY <1>6, <1>7, <1>8, <1>10, <1>11 DEF IInv

\* The end of a publication or of a check.
LEMMA FinishStep ==
  ASSUME IInv, NEW t \in Threads, FinishSweep(t)
  PROVE  IInv'
<1>1. /\ jobs[t] # Absent /\ jobs[t].step = "remove" /\ jobs[t].listed = {}
      /\ UNCHANGED <<database, files, history>> /\ Raft \in Threads
      /\ jobs[t].snapshot \in Snapshot /\ Name(t) \in Indexes /\ Name(t) \in Nat
  BY JobFields, IdleFields DEF FinishSweep, At, IInv
<1>2. CASE /\ jobs[t].kind = "migrate"
           /\ Start(t, "check", "list", jobs[t].snapshot)
           /\ UNCHANGED <<status, known>>
  <2>1. /\ jobs' \in [Threads -> Publication \cup {Absent}]
        /\ jobs'[t] # Absent /\ jobs'[t].step = "list"
        /\ jobs'[t].kind = "check" /\ jobs'[t].snapshot = jobs[t].snapshot
        /\ jobs'[t].listed = {}
        /\ \A u \in Threads \ {t} : jobs'[u] = jobs[u]
    BY <1>1, <1>2, StartFields DEF IInv, Steps
  <2>2. /\ Covered' = Covered /\ UNCHANGED late
        /\ \A u \in Threads : Name(u)' = Name(u) /\ (jobs'[u] # Absent <=> jobs[u] # Absent)
    BY <1>1, <2>1 DEF Covered, Name, database, history
  <2>3. Reach' = Reach
    BY <1>1, <1>2, <2>1, <2>2 DEF Reach, After
  <2>4. TypeOK'
    BY <1>1, <1>2, <2>1 DEF IInv, TypeOK, database, files, history
  <2>5. Placed'
    BY <1>1, <1>2, <2>1 DEF IInv, Placed, Open, Name, Checks
  <2>6. StartupJob'
    <3> SUFFICES ASSUME status' = "validating" PROVE StartupJob'
      BY DEF StartupJob
    <3>1. t = Raft
      BY <1>1, <1>2 DEF IInv, Placed, Open, Threads
    <3> QED BY <1>1, <1>2, <2>1, <2>2, <3>1
        DEF IInv, StartupJob, Before, database, Name
  <2>7. Positions'
    BY <1>1, <1>2, <2>2, <2>3 DEF IInv, Positions, Open, database, Threads
  <2> QED BY <1>1, <2>2, <2>4, <2>5, <2>6, <2>7 DEF IInv, PurgedIsCovered, database
<1>3. CASE /\ jobs[t].kind # "migrate"
           /\ jobs' = [jobs EXCEPT ![t] = Absent]
           /\ status' = "open"
           /\ known' = IF t = Raft THEN Name(t) ELSE known
  <2>1. /\ jobs' \in [Threads -> Publication \cup {Absent}]
        /\ jobs'[t] = Absent /\ \A u \in Threads \ {t} : jobs'[u] = jobs[u]
    BY <1>3, DropFields DEF IInv
  <2>2. /\ Covered' = Covered /\ UNCHANGED late
        /\ \A u \in Threads : jobs'[u] # Absent => Name(u)' = Name(u) /\ jobs[u] # Absent /\ u # t
    BY <1>1, <2>1 DEF Covered, Name, database, history
  <2>3. TypeOK'
    BY <1>1, <1>3, <2>1 DEF IInv, TypeOK, database, files, history, Statuses
  <2>4. StartupJob' /\ PurgedIsCovered'
    BY <1>1, <1>3, <2>2 DEF IInv, StartupJob, PurgedIsCovered, database
  <2>5. CASE Open
    <3>1. UNCHANGED status
      BY <1>3, <2>5 DEF Open
    <3>2. Placed'
      BY <2>1, <3>1 DEF IInv, Placed, Open, Name
    <3>3. Reach' = Reach
      BY <1>1, <1>3, <2>1, <2>2 DEF Reach, After
    <3>4. known' <= applied
      BY <1>1, <1>3, <2>5 DEF IInv, Positions
    <3>5. jobs'[Raft] # Absent => t # Raft
      BY <2>1
    <3> QED BY <1>1, <1>3, <2>2, <2>3, <2>4, <2>5, <3>2, <3>3, <3>4, <3>5
        DEF IInv, Positions, Open, database, Threads
  <2>6. CASE ~Open
    <3>1. t = Raft /\ status = "validating"
      BY <1>1, <2>6 DEF IInv, Placed, Threads
    <3>2. \A u \in Threads : jobs'[u] = Absent
      BY <2>1, <2>6, <3>1 DEF IInv, Placed, Threads
    <3>3. Placed'
      BY <3>2 DEF Placed
    <3>4. Name(t) = Covered
      BY <3>1, Numbers DEF IInv, StartupJob
    <3>5. known' = Covered /\ Reach' = Covered
      BY <1>1, <1>3, <3>1, <3>2, <3>4 DEF Reach
    <3>6. Positions'
      BY <1>1, <2>2, <3>2, <3>5, Numbers DEF IInv, Positions, PurgedIsCovered, database, Threads
    <3> QED BY <2>3, <2>4, <3>3, <3>6 DEF IInv
  <2> QED BY <2>5, <2>6
<1> QED BY <1>2, <1>3 DEF FinishSweep

\* The check of the active snapshot.
LEMMA ReadStep ==
  ASSUME IInv, NEW t \in Threads, ReadActive(t)
  PROVE  IInv'
<1>1. /\ jobs[t] = Absent /\ active # Absent /\ active \in Snapshot
      /\ Start(t, "check", "check", active)
      /\ UNCHANGED <<database, files, known, history>> /\ Raft \in Threads
      /\ Covered = active.index
  BY Numbers, IdleFields DEF ReadActive, IInv
<1>2. /\ jobs' \in [Threads -> Publication \cup {Absent}]
      /\ jobs'[t] # Absent /\ jobs'[t].step = "check"
      /\ jobs'[t].kind = "check" /\ jobs'[t].snapshot = active
      /\ jobs'[t].listed = {}
      /\ \A u \in Threads \ {t} : jobs'[u] = jobs[u]
  BY <1>1, StartFields DEF IInv, Steps
<1>3. /\ Covered' = Covered /\ UNCHANGED late /\ Name(t)' = Covered
      /\ \A u \in Threads \ {t} : Name(u)' = Name(u)
  BY <1>1, <1>2 DEF Covered, Name, database, history
<1>4. PurgedIsCovered'
  BY <1>1, <1>3 DEF IInv, PurgedIsCovered, database
<1>5. CASE t \in Readers /\ Open /\ UNCHANGED status
  <2>1. TypeOK' /\ StartupJob'
    BY <1>1, <1>2, <1>5 DEF IInv, TypeOK, StartupJob, Open, database, files, history
  <2>2. Placed'
    BY <1>2, <1>5, ThreadsAssumption DEF IInv, Placed, Open, Name, Checks
  <2>3. Reach' = Reach /\ jobs'[Raft] = jobs[Raft] /\ t # Raft
    BY <1>1, <1>2, <1>3, <1>5, ThreadsAssumption DEF Reach
  <2> QED BY <1>1, <1>2, <1>3, <1>4, <1>5, <2>1, <2>2, <2>3
      DEF IInv, Positions, Open, database, Threads
<1>6. CASE t = Raft /\ status = "reconciled" /\ status' = "validating"
  <2>1. TypeOK'
    BY <1>1, <1>2, <1>6 DEF IInv, TypeOK, database, files, history, Statuses
  <2>2. \A u \in Threads \ {t} : jobs[u] = Absent
    BY <1>6 DEF IInv, Placed, Open, Threads
  <2>3. Placed'
    BY <1>2, <1>6, <2>2, ThreadsAssumption DEF Placed, Checks
  <2>4. StartupJob'
    BY <1>1, <1>2, <1>3, <1>6 DEF StartupJob, Before, database
  <2> QED BY <1>1, <1>4, <1>6, <2>1, <2>3, <2>4 DEF IInv, Positions, Open, database
<1> QED BY <1>5, <1>6 DEF ReadActive

LEMMA CheckStep ==
  ASSUME IInv, NEW t \in Threads, CheckActive(t)
  PROVE  IInv'
<1>1. /\ jobs[t] # Absent /\ jobs[t].step = "check" /\ jobs[t].kind = "check"
      /\ UNCHANGED <<database, files, status, known, history>> /\ Raft \in Threads
      /\ jobs[t].snapshot \in Snapshot /\ Name(t) \notin jobs[t].listed
  BY JobFields, IdleFields DEF CheckActive, At, IInv, Placed, Before, After
<1>2. CASE jobs[t].snapshot.format = Current /\ Go(t, "list")
  <2>1. /\ jobs' \in [Threads -> Publication \cup {Absent}]
        /\ jobs'[t] # Absent /\ jobs'[t].step = "list"
        /\ jobs'[t].kind = jobs[t].kind /\ jobs'[t].snapshot = jobs[t].snapshot
        /\ jobs'[t].listed = jobs[t].listed
        /\ \A u \in Threads \ {t} : jobs'[u] = jobs[u]
    BY <1>1, <1>2, GoFields DEF IInv, Steps
  <2>2. \A u \in Threads : Name(u)' = Name(u) /\ (jobs'[u] # Absent <=> jobs[u] # Absent)
    BY <1>1, <2>1 DEF Name
  <2>3. TypeOK' /\ PurgedIsCovered'
    BY <1>1, <2>1 DEF IInv, TypeOK, PurgedIsCovered, Covered, database, files, history
  <2>4. Placed'
    BY <1>1, <2>1, <2>2 DEF IInv, Placed, Open
  <2>5. StartupJob'
    <3> SUFFICES ASSUME status' = "validating" PROVE StartupJob'
      BY DEF StartupJob
    <3>1. t = Raft
      BY <1>1 DEF IInv, Placed, Open, Threads
    <3> QED BY <1>1, <2>1, <2>2, <3>1 DEF IInv, StartupJob, Before, database, files
  <2>6. Open => Reach' = Reach
    <3>1. Open => t # Raft
      BY <1>1 DEF IInv, Placed, Checks, Open
    <3> QED BY <1>1, <2>1, <2>2, <3>1 DEF Reach
  <2>7. Positions'
    BY <1>1, <2>2, <2>6 DEF IInv, Positions, Open, Covered, database, history, Threads
  <2> QED BY <2>3, <2>4, <2>5, <2>7 DEF IInv
<1>3. CASE /\ jobs[t].snapshot.format # Current
           /\ Start(t, "migrate", "draft", [jobs[t].snapshot EXCEPT !.format = Current])
  <2> DEFINE x == [jobs[t].snapshot EXCEPT !.format = Current]
  <2>1. x \in Snapshot /\ x.format = Current /\ x.index = Name(t)
    BY <1>1, FormatsAssumption DEF Snapshot, Name
  <2>2. /\ jobs' \in [Threads -> Publication \cup {Absent}]
        /\ jobs'[t] # Absent /\ jobs'[t].step = "draft"
        /\ jobs'[t].kind = "migrate" /\ jobs'[t].snapshot = x
        /\ jobs'[t].listed = {}
        /\ \A u \in Threads \ {t} : jobs'[u] = jobs[u]
    BY <1>3, <2>1, StartFields DEF IInv, Steps
  <2>3. \A u \in Threads : Name(u)' = Name(u) /\ (jobs'[u] # Absent <=> jobs[u] # Absent)
    BY <1>1, <2>1, <2>2 DEF Name
  <2>4. TypeOK' /\ PurgedIsCovered'
    BY <1>1, <2>2 DEF IInv, TypeOK, PurgedIsCovered, Covered, database, files, history
  <2>5. Placed'
    BY <1>1, <2>1, <2>2, <2>3 DEF IInv, Placed, Open, Checks, Before
  <2>6. StartupJob'
    <3> SUFFICES ASSUME status' = "validating" PROVE StartupJob'
      BY DEF StartupJob
    <3>1. t = Raft /\ jobs[t].snapshot = active
      BY <1>1 DEF IInv, Placed, Open, Threads, StartupJob, Before
    <3>2. Older(active)
      BY <1>1, <1>3, <3>1 DEF Older
    <3> QED BY <1>1, <2>2, <2>3, <3>1, <3>2
        DEF IInv, StartupJob, Before, database, files, Older
  <2>7. Open => Reach' = Reach
    <3>1. Open => t # Raft
      BY <1>1 DEF IInv, Placed, Checks, Open
    <3> QED BY <1>1, <2>2, <2>3, <3>1 DEF Reach
  <2>8. Positions'
    BY <1>1, <2>3, <2>7 DEF IInv, Positions, Open, Covered, database, history, Threads
  <2> QED BY <2>4, <2>5, <2>6, <2>8 DEF IInv
<1> QED BY <1>2, <1>3 DEF CheckActive

\* Stops, failures and the steps of startup before its check.
LEMMA StopStep ==
  ASSUME IInv, jobs' = Idle, status' \in Statuses \ {"open", "validating"},
         UNCHANGED <<database, files, known, history>>
  PROVE  IInv'
<1>1. TypeOK'
  BY IdleFields DEF IInv, TypeOK, database, files, history
<1>2. Placed' /\ StartupJob'
  BY IdleFields DEF Placed, StartupJob
<1>3. PurgedIsCovered' /\ Positions'
  BY DEF IInv, PurgedIsCovered, Positions, Covered, Open, database, history
<1> QED BY <1>1, <1>2, <1>3 DEF IInv

LEMMA FailStep ==
  ASSUME IInv, NEW t \in Threads, Fails(t)
  PROVE  IInv'
<1>1. CASE t \in Readers
  <2>1. jobs' = [jobs EXCEPT ![t] = Absent] /\ UNCHANGED <<database, files, known, history, status>>
    BY <1>1 DEF Fails
  <2>2. /\ jobs' \in [Threads -> Publication \cup {Absent}]
        /\ jobs'[t] = Absent /\ \A u \in Threads \ {t} : jobs'[u] = jobs[u]
        /\ t # Raft
    BY <1>1, <2>1, DropFields, ThreadsAssumption DEF IInv
  <2>3. TypeOK' /\ PurgedIsCovered'
    BY <2>1, <2>2 DEF IInv, TypeOK, PurgedIsCovered, Covered, database, files, history
  <2>4. Placed' /\ StartupJob'
    BY <2>1, <2>2, IdleFields
       DEF IInv, Placed, StartupJob, Open, Name, Older, database, files
  <2>5. Reach' = Reach /\ jobs'[Raft] = jobs[Raft]
    BY <2>1, <2>2, IdleFields DEF Reach, Name
  <2>6. Positions'
    BY <2>1, <2>2, <2>5 DEF IInv, Positions, Open, Name, Covered, database, history, Threads
  <2> QED BY <2>3, <2>4, <2>6 DEF IInv
<1>2. CASE t \notin Readers
  <2>1. /\ jobs' = Idle /\ UNCHANGED <<database, files, known, history>>
        /\ status' \in {"down", "failed"}
    BY <1>2 DEF Fails
  <2> QED BY <2>1, StopStep DEF Statuses
<1> QED BY <1>1, <1>2

LEMMA StartupStep ==
  ASSUME IInv, Startup
  PROVE  IInv'
<1>1. /\ status \in {"down", "recovered", "discarding", "reconciled"}
      /\ UNCHANGED <<database, jobs, history>>
  BY DEF Startup, RecoverPublication, ReconcileManifest, DiscardPublication, OpenEmpty
<1>2. \A t \in Threads : jobs[t] = Absent
  BY <1>1 DEF IInv, Placed, Open, Threads
<1>3. Placed' /\ PurgedIsCovered' /\ Covered' = Covered
  BY <1>1, <1>2 DEF IInv, Placed, PurgedIsCovered, Covered, database, history
<1>4. manifest # Absent => manifest \in Snapshot /\ manifest.index \in Indexes
  BY SnapshotFields DEF IInv, TypeOK
<1>5. /\ draft' \in Snapshot \cup {Absent}
      /\ manifest' \in Snapshot \cup {Absent}
      /\ final' \in [Indexes -> Snapshot \cup {Torn, Absent}]
      /\ tmp' \in [Indexes -> Snapshot \cup {Torn, Absent}]
  <2>1. CASE RecoverPublication
    BY <1>4, <2>1 DEF RecoverPublication, Refuse, IInv, TypeOK
  <2>2. CASE ReconcileManifest
    BY <2>2 DEF ReconcileManifest, IInv, TypeOK
  <2>3. CASE DiscardPublication
    BY <2>3 DEF DiscardPublication, IInv, TypeOK
  <2>4. CASE OpenEmpty
    BY <2>4 DEF OpenEmpty, files, IInv, TypeOK
  <2> QED BY <2>1, <2>2, <2>3, <2>4 DEF Startup
<1>6. \/ /\ status' \in {"recovered", "failed", "reconciled", "discarding"}
         /\ known' = known
      \/ status' = "open" /\ active = Absent /\ known' = 0
  BY DEF Startup, RecoverPublication, ReconcileManifest, DiscardPublication, OpenEmpty, Refuse
<1>7. TypeOK' /\ StartupJob'
  <2>1. status' \in Statuses /\ status' # "validating" /\ known' \in Indexes
    BY <1>6, BoundsAssumption DEF Statuses, IInv, TypeOK, Indexes
  <2> QED BY <1>1, <1>5, <2>1 DEF IInv, TypeOK, StartupJob, database, history
<1>8. Positions'
  <2>1. CASE status' # "open"
    BY <1>1, <2>1 DEF IInv, Positions, Open, database
  <2>2. CASE status' = "open"
    <3>1. Covered' = 0 /\ known' = 0 /\ Reach' = 0
      BY <1>1, <1>2, <1>3, <1>6, <2>2, IdleFields DEF Covered, Reach
    <3>2. \A t \in Threads : jobs'[t] = Absent
      BY <1>1, <1>2
    <3> QED BY <1>1, <3>1, <3>2, Numbers, IdleFields DEF IInv, Positions, database, Threads
  <2> QED BY <2>1, <2>2
<1> QED BY <1>3, <1>7, <1>8 DEF IInv

LEMMA InitStep == Init => IInv
<1> SUFFICES ASSUME Init PROVE IInv
  OBVIOUS
<1>1. TypeOK
  <2>1. 0 \in Indexes
    BY BoundsAssumption DEF Indexes
  <2>2. /\ final \in [Indexes -> Snapshot \cup {Torn, Absent}]
        /\ tmp \in [Indexes -> Snapshot \cup {Torn, Absent}]
    BY DEF Init
  <2>3. jobs \in [Threads -> Publication \cup {Absent}] /\ status \in Statuses
    BY IdleFields DEF Init, Statuses
  <2>4. late \in BOOLEAN /\ swept \in SUBSET Indexes
    BY DEF Init
  <2> QED BY <2>1, <2>2, <2>3, <2>4 DEF Init, TypeOK
<1>2. Placed /\ StartupJob
  BY IdleFields DEF Init, Placed, StartupJob
<1>3. PurgedIsCovered /\ Positions
  BY DEF Init, PurgedIsCovered, Positions, Covered, Open
<1> QED BY <1>1, <1>2, <1>3 DEF IInv

\* The actions by which a publication or a check fails.
Failures(t) == ManifestFails(t) \/ CreateFails(t) \/ RemoveFails(t) \/ CheckFails(t)

LEMMA Inductive == IInv /\ [Next]_vars => IInv'
<1> SUFFICES ASSUME IInv, [Next]_vars PROVE IInv'
  OBVIOUS
<1>1. 0 \in Indexes /\ [index |-> 0, format |-> Current] \in Snapshot
  BY FormatsAssumption, BoundsAssumption DEF Snapshot, Indexes
<1>2. CASE Append \/ Apply \/ Purge \/ \E i \in Indexes : Truncate(i)
  BY <1>1, <1>2, LogStep
<1>3. CASE BuildSnapshot \/ \E s \in Snapshot : InstallSnapshot(s)
  BY <1>1, <1>3, StartStep
<1>4. ASSUME NEW t \in Threads, Publish(t) \/ Validate(t) PROVE IInv'
  <2>1. CASE Failures(t)
    BY <2>1, FailStep DEF Failures, ManifestFails, CreateFails, RemoveFails, CheckFails
  <2>2. CASE Publish(t) /\ ~Failures(t)
    BY <1>1, <2>2, FileStep, SweepStep, CommitStep, FinishStep DEF Publish, Failures
  <2>3. CASE Validate(t) /\ ~Failures(t)
    BY <2>3, ReadStep, CheckStep DEF Validate, Failures
  <2> QED BY <1>4, <2>1, <2>2, <2>3
<1>5. CASE Startup
  BY <1>5, StartupStep
<1>6. CASE Crash
  BY <1>6, StopStep DEF Crash, Statuses
<1>7. CASE UNCHANGED vars
  <2>1. UNCHANGED <<database, files, status, jobs, known, history>>
    BY <1>7 DEF vars
  <2>2. TypeOK' /\ PurgedIsCovered'
    BY <2>1 DEF IInv, TypeOK, PurgedIsCovered, Covered, database, files, history
  <2>3. Placed' /\ StartupJob'
    BY <2>1 DEF IInv, Placed, StartupJob, Open, Name, Older, database, files
  <2>4. Positions'
    BY <2>1 DEF IInv, Positions, Open, Name, Reach, Covered, database, history
  <2> QED BY <2>2, <2>3, <2>4 DEF IInv
<1> QED BY <1>2, <1>3, <1>4, <1>5, <1>6, <1>7 DEF Next

LEMMA Invariance == Spec => []IInv
  BY InitStep, Inductive, PTL DEF Spec

\* The database, the files and the threads keep their shapes.
THEOREM TypeCorrect == Spec => []TypeOK
<1>1. IInv => TypeOK
  BY DEF IInv
<1> QED BY <1>1, Invariance, PTL

\* However builds, installs, purges, reads and crashes interleave, the active
\* snapshot is not ahead of the persisted state and covers what is purged,
\* except from a read's late commit to OpenRaft's next snapshot.
THEOREM CoverCorrect == Spec => []PurgedIsCovered
<1>1. IInv => PurgedIsCovered
  BY DEF IInv
<1> QED BY <1>1, Invariance, PTL

-----------------------------------------------------------------------------
(* The log contract and the advance of the active snapshot. *)

\* The steps that move one of the four positions.
LEMMA PositionSteps ==
  ASSUME [Next]_vars
  PROVE  \/ UNCHANGED <<applied, active, purged, late>>
         \/ Apply \/ Purge \/ \E s \in Snapshot : InstallSnapshot(s)
         \/ \E t \in Threads : CommitActive(t)
<1>1. CASE Append \/ BuildSnapshot \/ \E i \in Indexes : Truncate(i)
  BY <1>1 DEF Append, BuildSnapshot, Truncate, database, history
<1>2. ASSUME NEW t \in Threads, Publish(t) \/ Validate(t), ~CommitActive(t)
      PROVE  UNCHANGED <<applied, active, purged, late>>
  BY <1>2 DEF Publish, Validate, DraftManifest, WriteManifest, ManifestFails, CreateTemporary,
              CreateFails, WriteTemporary, RenameTemporary, RemoveManifest, ListInactive,
              RemoveInactive, RemoveFails, FinishSweep, ReadActive, CheckActive, CheckFails,
              Fails, database, history
<1>3. CASE Startup \/ Crash \/ UNCHANGED vars
  BY <1>3 DEF Startup, RecoverPublication, ReconcileManifest, DiscardPublication, OpenEmpty,
              Crash, database, history, vars
<1> QED BY <1>1, <1>2, <1>3 DEF Next

\* The step formula of ActiveAdvances.
AdvanceStep ==
  active # Absent =>
    /\ active' # Absent
    /\ \/ active.index <= active'.index
       \/ \E t \in Readers : CommitActive(t) /\ jobs[t].kind = "migrate"

LEMMA AdvanceCommit ==
  ASSUME IInv, NEW t \in Threads, CommitActive(t)
  PROVE  AdvanceStep
<1>1. /\ jobs[t] # Absent /\ jobs[t].kind # "check" /\ active' = jobs[t].snapshot
      /\ active' # Absent /\ jobs[t].step = "commit"
  BY CommitFacts
<1>2. CASE t \in Readers
  BY <1>1, <1>2 DEF IInv, Placed, Checks, AdvanceStep
<1>3. CASE t = Raft
  <2> SUFFICES ASSUME active # Absent PROVE active.index <= active'.index
    BY <1>1 DEF AdvanceStep
  <2>1. active'.index = Name(t) /\ Name(t) \in Nat
    BY <1>1, JobFields DEF Name, IInv
  <2>2. CASE Open
    <3>1. Covered <= known /\ known < Name(t)
      BY <1>1, <1>3, <2>2 DEF IInv, Positions, Reach, After
    <3> QED BY <2>1, <3>1, Numbers DEF IInv
  <2>3. CASE ~Open
    <3>1. status = "validating"
      BY <1>1, <1>3, <2>3 DEF IInv, Placed
    <3> QED BY <1>3, <2>1, <3>1 DEF IInv, StartupJob
  <2> QED BY <2>2, <2>3
<1> QED BY <1>2, <1>3 DEF Threads

LEMMA AdvanceNext ==
  ASSUME IInv, [Next]_vars
  PROVE  AdvanceStep
<1>1. CASE UNCHANGED active
  BY <1>1, Numbers DEF IInv, AdvanceStep
<1>2. UNCHANGED active \/ \E t \in Threads : CommitActive(t)
  BY PositionSteps DEF Apply, Purge, InstallSnapshot
<1> QED BY <1>1, <1>2, AdvanceCommit

\* No build, install, startup or crash takes the active snapshot back: only a
\* read that publishes again what it found active earlier can.
THEOREM AdvanceCorrect == Spec => ActiveAdvances
<1>1. IInv /\ [Next]_vars => [AdvanceStep]_vars
  BY AdvanceNext
<1>2. [][AdvanceStep]_vars => ActiveAdvances
  BY PTL DEF ActiveAdvances, AdvanceStep
<1> QED BY <1>1, <1>2, Invariance, PTL DEF Spec

\* The contract's actions on the mapped state.
ContractStep ==
  \/ UNCHANGED <<applied, Covered, purged, late>>
  \/ applied' \in (applied + 1) .. MaxIndex /\ UNCHANGED <<Covered, purged, late>>
  \/ Covered' \in Covered .. applied /\ purged <= Covered' /\ late' = FALSE
       /\ UNCHANGED <<applied, purged>>
  \/ Covered' \in 0 .. applied /\ late' = TRUE /\ UNCHANGED <<applied, purged>>
  \/ purged' \in (purged + 1) .. (IF late THEN applied ELSE Covered)
       /\ UNCHANGED <<applied, Covered, late>>

LEMMA ContractAdvance ==
  ASSUME IInv, NEW s \in Snapshot, Apply \/ InstallSnapshot(s)
  PROVE  ContractStep
<1>1. applied \in Nat /\ last \in 0 .. MaxIndex /\ MaxIndex \in Nat /\ s.index \in 0 .. MaxIndex
  BY SnapshotFields, Numbers DEF IInv, TypeOK, Indexes
<1>2. applied' \in (applied + 1) .. MaxIndex /\ UNCHANGED <<active, purged, late>>
  BY <1>1 DEF Apply, InstallSnapshot, history
<1> QED BY <1>2 DEF ContractStep, Covered

\* OpenRaft purges up to a snapshot that has been published.
LEMMA ContractForget ==
  ASSUME IInv, Purge
  PROVE  ContractStep
<1>1. /\ purged' = known /\ known > purged /\ Open
      /\ UNCHANGED <<applied, active, late>>
  BY DEF Purge, history
<1>2. known \in Nat /\ purged \in Nat /\ Covered \in Nat /\ applied \in Nat
  BY Numbers DEF IInv
<1>3. known <= applied
  BY <1>1 DEF IInv, Positions
<1>4. late \/ known <= Covered
  <2>1. jobs[Raft] # Absent => known < Name(Raft) /\ Name(Raft) \in Nat
    BY <1>1, JobFields, IdleFields DEF IInv, Positions
  <2> QED BY <1>1, <1>2, <2>1 DEF IInv, Positions, Reach
<1>5. Covered' = Covered
  BY <1>1 DEF Covered
<1> QED BY <1>1, <1>2, <1>3, <1>4, <1>5 DEF ContractStep

LEMMA ContractCommit ==
  ASSUME IInv, NEW t \in Threads, CommitActive(t)
  PROVE  ContractStep
<1>1. /\ jobs[t] # Absent /\ jobs[t].step = "commit" /\ Covered' = Name(t)
      /\ UNCHANGED <<last, purged, applied, status, known>>
      /\ late' = (jobs[t].kind = "migrate" /\ (late \/ Covered # Name(t)))
      /\ Name(t) <= applied /\ Name(t) \in Nat
      /\ jobs[t].kind # "check"
  BY CommitFacts
<1>2. applied \in Nat /\ purged \in Nat /\ Covered \in Nat /\ known \in Nat /\ late \in BOOLEAN
  BY Numbers DEF IInv, TypeOK
<1>3. CASE late'
  BY <1>1, <1>2, <1>3 DEF ContractStep
<1>4. CASE ~late' /\ jobs[t].kind = "migrate"
  <2>1. Covered' = Covered /\ ~late
    BY <1>1, <1>4
  <2>2. late' = late
    BY <1>1, <1>2, <1>4, <2>1
  <2> QED BY <1>1, <2>1, <2>2 DEF ContractStep
<1>5. CASE ~late' /\ jobs[t].kind # "migrate"
  <2>1. t = Raft /\ Open
    BY <1>1, <1>5 DEF IInv, Placed, Checks, Threads
  <2>2. Covered <= known /\ known < Name(t) /\ purged <= Name(t)
    BY <1>1, <2>1 DEF IInv, Positions, Reach, After
  <2>3. late' = FALSE
    BY <1>1, <1>5
  <2> QED BY <1>1, <1>2, <2>2, <2>3 DEF ContractStep
<1> QED BY <1>3, <1>4, <1>5

LEMMA ContractNext ==
  ASSUME IInv, [Next]_vars
  PROVE  ContractStep
<1>1. [index |-> 0, format |-> Current] \in Snapshot
  BY FormatsAssumption, BoundsAssumption DEF Snapshot, Indexes
<1>2. CASE UNCHANGED <<applied, active, purged, late>>
  BY <1>2 DEF ContractStep, Covered
<1> QED BY <1>1, <1>2, PositionSteps, ContractAdvance, ContractForget, ContractCommit

\* Whatever crashes and reads interfere, the storage implements a log whose
\* applied and purged positions only move on and which forgets only what its
\* snapshot stands for; a read can cause a lapse, and the next snapshot that
\* OpenRaft publishes ends it.
THEOREM LogKept == Spec => KeepsLog
<1>1. Init => Log!Init
  BY DEF Init, Log!Init, Covered
<1>2. IInv /\ [Next]_vars => [Log!Next]_(Log!vars)
  <2> SUFFICES ASSUME ContractStep PROVE [Log!Next]_(Log!vars)
    BY ContractNext
  <2> QED BY DEF ContractStep, Log!Next, Log!Advance, Log!Cover, Log!Lapse, Log!Forget, Log!vars
<1> QED BY <1>1, <1>2, Invariance, PTL DEF Spec, KeepsLog, Log!Spec

-----------------------------------------------------------------------------
(* One encoding: no read publishes, so no commit is late. *)

Prompt == ~late /\ \A t \in Threads : jobs[t] # Absent => jobs[t].kind # "migrate"

\* Without snapshots in an older encoding the lapse does not exist: whatever
\* reads sweep, the active snapshot always covers what is purged.
AlwaysCovered == purged <= Covered /\ Covered <= applied

\* Every step of a publication but its start keeps its kind.
LEMMA KindsKept ==
  ASSUME Formats = {Current}, IInv, Prompt, NEW t \in Threads,
         Publish(t) \/ Validate(t), NEW u \in Threads, jobs'[u] # Absent
  PROVE  jobs'[u].kind # "migrate"
<1>1. CASE Failures(t)
  <2>1. jobs' = Idle \/ jobs' = [jobs EXCEPT ![t] = Absent]
    BY <1>1 DEF Failures, ManifestFails, CreateFails, RemoveFails, CheckFails, Fails
  <2>2. jobs'[u] = jobs[u]
    BY <2>1, IdleFields, DropFields DEF IInv
  <2> QED BY <2>2 DEF Prompt
<1>2. CASE ReadActive(t)
  <2>1. jobs'[t].kind = "check" /\ \A v \in Threads \ {t} : jobs'[v] = jobs[v]
    BY <1>2, StartFields, Numbers DEF ReadActive, IInv, Steps
  <2> QED BY <2>1 DEF Prompt
<1>3. CASE FinishSweep(t)
  <2>1. jobs' = [jobs EXCEPT ![t] = Absent]
    BY <1>3 DEF FinishSweep, Prompt, At
  <2> QED BY <2>1, DropFields DEF IInv, Prompt
<1>4. CASE ListInactive(t) \/ \E i \in Indexes : RemoveInactive(t, i)
  <2>1. jobs[t] # Absent /\ jobs[t] \in Publication
    BY <1>4, JobFields DEF ListInactive, RemoveInactive, At, IInv
  <2>2. jobs'[t].kind = jobs[t].kind /\ \A v \in Threads \ {t} : jobs'[v] = jobs[v]
    <3>1. CASE ListInactive(t)
      <4>1. jobs' = [jobs EXCEPT ![t] = [jobs[t] EXCEPT !.step = "remove", !.listed = Inactive(t)]]
        BY <3>1 DEF ListInactive
      <4>2. Inactive(t) \in SUBSET Indexes
        BY DEF Inactive
      <4> QED BY <2>1, <4>1, <4>2, ListFields DEF IInv, Steps
    <3>2. CASE \E i \in Indexes : RemoveInactive(t, i)
      <4>1. PICK i \in Indexes : jobs' = [jobs EXCEPT ![t].listed = @ \ {i}]
        BY <3>2 DEF RemoveInactive
      <4> QED BY <2>1, <4>1 DEF IInv, TypeOK, Publication
    <3> QED BY <1>4, <3>1, <3>2
  <2> QED BY <2>1, <2>2 DEF Prompt
<1>5. CASE \E step \in Steps : jobs[t] # Absent /\ Go(t, step)
  <2>1. jobs'[t].kind = jobs[t].kind /\ \A v \in Threads \ {t} : jobs'[v] = jobs[v]
    BY <1>5, GoFields DEF IInv
  <2> QED BY <1>5, <2>1 DEF Prompt
<1>6. ASSUME CheckActive(t) PROVE \E step \in Steps : jobs[t] # Absent /\ Go(t, step)
  <2>1. jobs[t] # Absent /\ jobs[t].snapshot \in Snapshot
    BY <1>6, JobFields DEF CheckActive, At, IInv
  <2>2. jobs[t].snapshot.format = Current
    BY <2>1 DEF Snapshot
  <2> QED BY <1>6, <2>1, <2>2 DEF CheckActive, Steps
<1>7. \/ Failures(t) \/ ReadActive(t) \/ FinishSweep(t)
      \/ ListInactive(t) \/ (\E i \in Indexes : RemoveInactive(t, i)) \/ CheckActive(t)
      \/ \E step \in Steps : jobs[t] # Absent /\ Go(t, step)
  BY DEF Publish, Validate, Failures, DraftManifest, WriteManifest, CreateTemporary,
         WriteTemporary, RenameTemporary, CommitActive, RemoveManifest, At, Steps
<1> QED BY <1>1, <1>2, <1>3, <1>4, <1>5, <1>6, <1>7

LEMMA PromptNext ==
  ASSUME Formats = {Current}, IInv, Prompt, [Next]_vars
  PROVE  Prompt'
<1>1. late' = FALSE
  <2>1. late = FALSE
    BY DEF Prompt, IInv, TypeOK
  <2>2. ASSUME NEW t \in Threads, CommitActive(t) PROVE late' = FALSE
    BY <2>2 DEF CommitActive, At, Prompt
  <2> QED BY <2>1, <2>2, PositionSteps DEF Apply, Purge, InstallSnapshot, history
<1>2. \A u \in Threads : jobs'[u] # Absent => jobs'[u].kind # "migrate"
  <2>1. ASSUME NEW t \in Threads, Publish(t) \/ Validate(t)
        PROVE  \A u \in Threads : jobs'[u] # Absent => jobs'[u].kind # "migrate"
    BY <2>1, KindsKept
  <2>2. CASE jobs' = jobs \/ jobs' = Idle
    BY <2>2, IdleFields DEF Prompt
  <2>3. ASSUME NEW s \in Snapshot, BuildSnapshot \/ InstallSnapshot(s)
        PROVE  \A u \in Threads : jobs'[u] # Absent => jobs'[u].kind # "migrate"
    <3>1. PICK kind \in {"build", "install"}, x \in Snapshot : Start(Raft, kind, "draft", x)
      <4>1. applied \in Indexes => [index |-> applied, format |-> Current] \in Snapshot
        BY FormatsAssumption DEF Snapshot
      <4> QED BY <2>3, <4>1 DEF BuildSnapshot, InstallSnapshot, IInv, TypeOK
    <3>2. jobs'[Raft].kind = kind /\ \A v \in Threads \ {Raft} : jobs'[v] = jobs[v]
      BY <3>1, StartFields, IdleFields DEF IInv, Steps
    <3> QED BY <3>2 DEF Prompt
  <2>4. [index |-> 0, format |-> Current] \in Snapshot
    BY FormatsAssumption, BoundsAssumption DEF Snapshot, Indexes
  <2> QED BY <2>1, <2>2, <2>3, <2>4
      DEF Next, vars, Append, Truncate, Apply, Purge, Startup, RecoverPublication,
          ReconcileManifest, DiscardPublication, OpenEmpty, Crash
<1> QED BY <1>1, <1>2 DEF Prompt

LEMMA PromptAlways ==
  ASSUME Formats = {Current}
  PROVE  Spec => []Prompt
<1>1. Init => Prompt
  BY IdleFields DEF Init, Prompt
<1>2. IInv /\ Prompt /\ [Next]_vars => Prompt'
  BY PromptNext
<1> QED BY <1>1, <1>2, Invariance, PTL DEF Spec

\* With one encoding the exception of PurgedIsCovered never applies, however
\* many reads run: only migrations on a serving node can uncover the log.
THEOREM CoverOneEncoding ==
  ASSUME Formats = {Current}
  PROVE  Spec => []AlwaysCovered
<1>1. PurgedIsCovered /\ Prompt => AlwaysCovered
  BY DEF PurgedIsCovered, Prompt, AlwaysCovered
<1> QED BY <1>1, CoverCorrect, PromptAlways, PTL

-----------------------------------------------------------------------------
(* The files.  Two publications before their commits differ in name or are  *)
(* of the same snapshot, and only a migration has the name of the active    *)
(* one.                                                                     *)

LEMMA SnapshotsEqual ==
  ASSUME NEW s \in Snapshot, NEW x \in Snapshot, s.index = x.index, s.format = x.format
  PROVE  s = x
  BY DEF Snapshot

LEMMA RaftAhead ==
  ASSUME IInv, Open, jobs[Raft] # Absent, jobs[Raft].step \in Before
  PROVE  /\ Covered < Name(Raft)
         /\ \A r \in Readers : jobs[r] # Absent => Name(r) < Name(Raft)
<1>1. Reach = known /\ known < Name(Raft) /\ Covered <= known
  BY DEF Reach, Before, After, IInv, Positions
<1>2. known \in Nat /\ Covered \in Nat /\ Name(Raft) \in Nat
  BY Numbers, JobFields, IdleFields DEF IInv
<1>3. ASSUME NEW r \in Readers, jobs[r] # Absent PROVE Name(r) < Name(Raft)
  <2>1. Name(r) <= known /\ Name(r) \in Nat
    BY <1>1, <1>3, JobFields DEF IInv, Positions, Threads
  <2> QED BY <1>1, <1>2, <2>1
<1> QED BY <1>1, <1>2, <1>3

LEMMA SameName ==
  ASSUME IInv, NEW t \in Threads, NEW u \in Threads, jobs[t] # Absent, jobs[u] # Absent,
         jobs[t].step \in Before, jobs[u].step \in Before, Name(t) = Name(u)
  PROVE  jobs[t].snapshot = jobs[u].snapshot
<1>1. /\ jobs[t].snapshot \in Snapshot /\ jobs[u].snapshot \in Snapshot
      /\ jobs[t].snapshot.index = jobs[u].snapshot.index
      /\ Name(t) \in Nat
  BY JobFields DEF IInv, Name
<1>2. CASE t \in Readers /\ u \in Readers
  <2>1. jobs[t].snapshot.format = Current /\ jobs[u].snapshot.format = Current
    BY <1>2 DEF IInv, Placed, Checks, Before
  <2> QED BY <1>1, <2>1, SnapshotsEqual
<1>3. CASE t = Raft /\ u \in Readers
  <2>1. Open
    BY <1>3 DEF IInv, Placed
  <2> QED BY <1>1, <1>3, <2>1, RaftAhead
<1>4. CASE u = Raft /\ t \in Readers
  <2>1. Open
    BY <1>4 DEF IInv, Placed
  <2> QED BY <1>1, <1>4, <2>1, RaftAhead
<1> QED BY <1>2, <1>3, <1>4 DEF Threads

LEMMA OwnActive ==
  ASSUME IInv, NEW t \in Threads, jobs[t] # Absent, jobs[t].step \in Before,
         active # Absent, Name(t) = active.index
  PROVE  active = jobs[t].snapshot \/ Older(active)
<1>1. /\ jobs[t].snapshot \in Snapshot /\ active \in Snapshot
      /\ jobs[t].snapshot.index = active.index
      /\ Covered = active.index /\ Covered \in Nat
  BY JobFields, Numbers DEF IInv, Name
<1>2. jobs[t].kind = "migrate"
  <2>1. CASE t \in Readers
    BY <2>1 DEF IInv, Placed, Checks, Before
  <2>2. CASE t = Raft /\ Open
    BY <1>1, <2>2, RaftAhead
  <2>3. CASE t = Raft /\ ~Open
    BY <2>3 DEF IInv, Placed, Checks, Before
  <2> QED BY <2>1, <2>2, <2>3 DEF Threads
<1>3. jobs[t].snapshot.format = Current
  BY <1>2 DEF IInv, Placed
<1> QED BY <1>1, <1>3, SnapshotsEqual DEF Older

-----------------------------------------------------------------------------
(* FilesHeld. *)

LEMMA FilesQuiet ==
  ASSUME FilesHeld, UNCHANGED <<final, tmp, swept>>,
         \A u \in Threads : \/ jobs'[u] = jobs[u] \/ jobs'[u] = Absent
                            \/ jobs'[u].step \notin {"write", "rename", "commit"}
  PROVE  FilesHeld'
  BY DEF FilesHeld, At, Name

\* What every step on a temporary file starts from.
LEMMA TemporaryFacts ==
  ASSUME IInv, NEW t \in Threads, NEW step \in Steps, jobs[t] # Absent, Go(t, step)
  PROVE  /\ jobs'[t] # Absent /\ jobs'[t].step = step /\ jobs'[t].snapshot = jobs[t].snapshot
         /\ \A u \in Threads \ {t} : jobs'[u] = jobs[u]
         /\ \A u \in Threads : Name(u)' = Name(u)
         /\ \A u \in Threads : jobs[u] # Absent => Name(u) \in Indexes
         /\ jobs[t].snapshot \in Snapshot /\ jobs[t].snapshot.index = Name(t)
         /\ jobs[t].snapshot # Absent /\ jobs[t].snapshot # Torn
         /\ final \in [Indexes -> Snapshot \cup {Torn, Absent}]
         /\ tmp \in [Indexes -> Snapshot \cup {Torn, Absent}]
<1>1. /\ jobs'[t] # Absent /\ jobs'[t].step = step /\ jobs'[t].snapshot = jobs[t].snapshot
      /\ \A u \in Threads \ {t} : jobs'[u] = jobs[u]
  BY GoFields DEF IInv
<1>2. \A u \in Threads : jobs[u] # Absent => Name(u) \in Indexes
  BY JobFields DEF IInv
<1>3. \A u \in Threads : Name(u)' = Name(u)
  BY <1>1 DEF Name
<1> QED BY <1>1, <1>2, <1>3, JobFields DEF IInv, TypeOK, Name

LEMMA FilesTemporary ==
  ASSUME IInv, FilesHeld, NEW t \in Threads, CreateTemporary(t) \/ WriteTemporary(t)
  PROVE  FilesHeld'
<1> DEFINE i == Name(t)
<1>1. /\ jobs[t] # Absent /\ UNCHANGED <<final, swept>>
      /\ \/ /\ jobs[t].step = "create" /\ tmp[i] = Absent
            /\ tmp' = [tmp EXCEPT ![i] = Torn] /\ Go(t, "write")
         \/ /\ jobs[t].step = "write"
            /\ tmp' = [tmp EXCEPT ![i] = jobs[t].snapshot] /\ Go(t, "rename")
  BY DEF CreateTemporary, WriteTemporary, At, history
<1>2. PICK step \in {"write", "rename"} :
        /\ Go(t, step)
        /\ step = "write" => /\ jobs[t].step = "create" /\ tmp[i] = Absent
                             /\ tmp' = [tmp EXCEPT ![i] = Torn]
        /\ step = "rename" => /\ jobs[t].step = "write"
                              /\ tmp' = [tmp EXCEPT ![i] = jobs[t].snapshot]
  BY <1>1
<1>3. /\ jobs'[t] # Absent /\ jobs'[t].step = step /\ jobs'[t].snapshot = jobs[t].snapshot
      /\ \A u \in Threads \ {t} : jobs'[u] = jobs[u]
      /\ \A u \in Threads : Name(u)' = Name(u)
      /\ \A u \in Threads : jobs[u] # Absent => Name(u) \in Indexes
      /\ jobs[t].snapshot \in Snapshot /\ jobs[t].snapshot.index = Name(t)
      /\ jobs[t].snapshot # Absent /\ jobs[t].snapshot # Torn
      /\ tmp \in [Indexes -> Snapshot \cup {Torn, Absent}]
  BY <1>1, <1>2, TemporaryFacts DEF Steps
<1>4. \A k \in Indexes : k # i => tmp'[k] = tmp[k]
  BY <1>2, <1>3
<1>5. /\ step = "write" => tmp'[i] = Torn
      /\ step = "rename" => tmp'[i] = jobs[t].snapshot
  BY <1>1, <1>2, <1>3
<1>6. \A u \in Threads \ {t} :
        (At(u, "write") \/ At(u, "rename"))' => Name(u) # i /\ (At(u, "write") \/ At(u, "rename"))
  <2> SUFFICES ASSUME NEW u \in Threads \ {t}, (At(u, "write") \/ At(u, "rename"))'
               PROVE  Name(u) # i /\ (At(u, "write") \/ At(u, "rename"))
    OBVIOUS
  <2>1. At(u, "write") \/ At(u, "rename")
    BY <1>3 DEF At
  <2>2. CASE step = "write"
    BY <1>2, <2>1, <2>2, JobFields DEF FilesHeld, At, IInv
  <2>3. CASE step = "rename"
    BY <1>1, <1>2, <2>1, <2>3 DEF FilesHeld, At
  <2> QED BY <2>1, <2>2, <2>3
<1>7. \A k \in Indexes : /\ final'[k] # Absent => final'[k] \in Snapshot /\ final'[k].index = k
                         /\ tmp'[k] \notin {Torn, Absent} => tmp'[k].index = k
  BY <1>1, <1>2, <1>3, <1>4, <1>5 DEF FilesHeld
<1>8. \A u \in Threads :
        /\ At(u, "write")' => tmp'[Name(u)'] # Absent
        /\ At(u, "rename")' => tmp'[Name(u)'] = jobs'[u].snapshot
        /\ At(u, "commit")' => final'[Name(u)'] = jobs'[u].snapshot \/ Name(u)' \in swept'
  <2> SUFFICES ASSUME NEW u \in Threads
               PROVE  /\ At(u, "write")' => tmp'[Name(u)'] # Absent
                      /\ At(u, "rename")' => tmp'[Name(u)'] = jobs'[u].snapshot
                      /\ At(u, "commit")' => final'[Name(u)'] = jobs'[u].snapshot
                                               \/ Name(u)' \in swept'
    OBVIOUS
  <2>1. CASE u = t
    BY <1>2, <1>3, <1>5, <2>1, AbsentAssumption DEF At
  <2>2. CASE u # t
    <3>1. jobs'[u] = jobs[u] /\ Name(u)' = Name(u)
      BY <1>3, <2>2
    <3>2. (At(u, "write") \/ At(u, "rename"))' => tmp'[Name(u)] = tmp[Name(u)]
      BY <1>3, <1>4, <1>6, <2>2 DEF At
    <3> QED BY <1>1, <3>1, <3>2 DEF FilesHeld, At
  <2> QED BY <2>1, <2>2
<1>9. \A u, v \in Threads :
        (At(u, "write") \/ At(u, "rename"))' /\ (At(v, "write") \/ At(v, "rename"))'
          /\ Name(u)' = Name(v)' => u = v
  BY <1>3, <1>6 DEF FilesHeld
<1> QED BY <1>7, <1>8, <1>9 DEF FilesHeld

LEMMA FilesRename ==
  ASSUME IInv, FilesHeld, NEW t \in Threads, RenameTemporary(t)
  PROVE  /\ FilesHeld'
         /\ final' = [final EXCEPT ![Name(t)] = jobs[t].snapshot]
<1> DEFINE i == Name(t)
<1>1. /\ jobs[t] # Absent /\ jobs[t].step = "rename" /\ Go(t, "commit")
      /\ final' = [final EXCEPT ![i] = tmp[i]] /\ tmp' = [tmp EXCEPT ![i] = Absent]
      /\ swept' = swept \ {i}
  BY DEF RenameTemporary, At
<1>2. /\ jobs'[t] # Absent /\ jobs'[t].step = "commit" /\ jobs'[t].snapshot = jobs[t].snapshot
      /\ \A u \in Threads \ {t} : jobs'[u] = jobs[u]
      /\ \A u \in Threads : Name(u)' = Name(u)
      /\ \A u \in Threads : jobs[u] # Absent => Name(u) \in Indexes
      /\ jobs[t].snapshot \in Snapshot /\ jobs[t].snapshot.index = Name(t)
      /\ jobs[t].snapshot # Absent /\ jobs[t].snapshot # Torn
      /\ final \in [Indexes -> Snapshot \cup {Torn, Absent}]
      /\ tmp \in [Indexes -> Snapshot \cup {Torn, Absent}]
  BY <1>1, TemporaryFacts DEF Steps
<1>3. tmp[i] = jobs[t].snapshot
  BY <1>1 DEF FilesHeld, At
<1>4. /\ final'[i] = jobs[t].snapshot /\ tmp'[i] = Absent
      /\ \A k \in Indexes : k # i => final'[k] = final[k] /\ tmp'[k] = tmp[k]
  BY <1>1, <1>2, <1>3
<1>5. \A k \in Indexes : /\ final'[k] # Absent => final'[k] \in Snapshot /\ final'[k].index = k
                         /\ tmp'[k] \notin {Torn, Absent} => tmp'[k].index = k
  BY <1>2, <1>4 DEF FilesHeld
<1>6. \A u \in Threads :
        /\ At(u, "write")' => tmp'[Name(u)'] # Absent
        /\ At(u, "rename")' => tmp'[Name(u)'] = jobs'[u].snapshot
        /\ At(u, "commit")' => final'[Name(u)'] = jobs'[u].snapshot \/ Name(u)' \in swept'
  <2> SUFFICES ASSUME NEW u \in Threads
               PROVE  /\ At(u, "write")' => tmp'[Name(u)'] # Absent
                      /\ At(u, "rename")' => tmp'[Name(u)'] = jobs'[u].snapshot
                      /\ At(u, "commit")' => final'[Name(u)'] = jobs'[u].snapshot
                                               \/ Name(u)' \in swept'
    OBVIOUS
  <2>1. CASE u = t
    BY <1>2, <1>4, <2>1 DEF At
  <2>2. CASE u # t
    <3>1. jobs'[u] = jobs[u] /\ Name(u)' = Name(u)
      BY <1>2, <2>2
    <3>2. At(u, "write") \/ At(u, "rename") => Name(u) # i /\ Name(u) \in Indexes
      BY <1>1, <1>2, <2>2 DEF FilesHeld, At
    <3>3. At(u, "commit") /\ Name(u) = i => jobs[u].snapshot = jobs[t].snapshot
      BY <1>1, SameName DEF At, Before
    <3>4. At(u, "commit") /\ Name(u) # i => final'[Name(u)] = final[Name(u)]
      BY <1>2, <1>4 DEF At
    <3> QED BY <1>1, <1>4, <3>1, <3>2, <3>3, <3>4 DEF FilesHeld, At
  <2> QED BY <2>1, <2>2
<1>7. \A u, v \in Threads :
        (At(u, "write") \/ At(u, "rename"))' /\ (At(v, "write") \/ At(v, "rename"))'
          /\ Name(u)' = Name(v)' => u = v
  <2>1. \A u \in Threads : (At(u, "write") \/ At(u, "rename"))' => At(u, "write") \/ At(u, "rename")
    BY <1>2 DEF At
  <2> QED BY <1>2, <2>1 DEF FilesHeld
<1> QED BY <1>1, <1>3, <1>5, <1>6, <1>7 DEF FilesHeld

\* What a removal leaves alone, and what it records.
LEMMA RemoveFacts ==
  ASSUME IInv, NEW t \in Threads, NEW i \in Indexes, RemoveInactive(t, i)
  PROVE  /\ jobs[t] # Absent /\ jobs[t].step = "remove" /\ Name(t) # i
         /\ jobs'[t] # Absent /\ jobs'[t].step = "remove"
         /\ \A u \in Threads \ {t} : jobs'[u] = jobs[u]
         /\ \A u \in Threads : Name(u)' = Name(u)
         /\ UNCHANGED <<database, draft, manifest, tmp, status, known, late>>
         /\ final' = [final EXCEPT ![i] = Absent]
         /\ final \in [Indexes -> Snapshot \cup {Torn, Absent}]
         /\ swept \subseteq swept'
         /\ Covered = i \/ (\E u \in Threads : At(u, "commit") /\ Name(u) = i) => i \in swept'
<1>1. /\ jobs[t] # Absent /\ jobs[t].step = "remove" /\ i \in jobs[t].listed
      /\ jobs[t] \in Publication
      /\ jobs' = [jobs EXCEPT ![t].listed = @ \ {i}]
      /\ UNCHANGED <<database, draft, manifest, tmp, status, known, late>>
      /\ final' = [final EXCEPT ![i] = Absent]
      /\ swept' = IF InUse(t, i) THEN swept \cup {i} ELSE swept
  BY JobFields DEF RemoveInactive, At, IInv
<1>2. Name(t) # i
  BY <1>1 DEF IInv, Placed
<1>3. /\ jobs'[t] \in Publication /\ jobs'[t].step = jobs[t].step
      /\ jobs'[t].snapshot = jobs[t].snapshot
      /\ \A u \in Threads \ {t} : jobs'[u] = jobs[u]
  BY <1>1 DEF IInv, TypeOK, Publication
<1>4. \A u \in Threads : Name(u)' = Name(u)
  BY <1>3 DEF Name
<1>5. InUse(t, i) <=> Covered = i \/ \E u \in Threads : At(u, "commit") /\ Name(u) = i
  BY <1>2 DEF InUse
<1> QED BY <1>1, <1>2, <1>3, <1>4, <1>5, AbsentAssumption DEF IInv, TypeOK

LEMMA FilesRemove ==
  ASSUME IInv, FilesHeld, NEW t \in Threads, NEW i \in Indexes, RemoveInactive(t, i)
  PROVE  FilesHeld'
<1>1. /\ jobs[t].step = "remove" /\ jobs'[t].step = "remove"
      /\ \A u \in Threads \ {t} : jobs'[u] = jobs[u]
      /\ \A u \in Threads : Name(u)' = Name(u)
      /\ UNCHANGED tmp
      /\ final' = [final EXCEPT ![i] = Absent]
      /\ final \in [Indexes -> Snapshot \cup {Torn, Absent}]
      /\ swept \subseteq swept'
      /\ (\E u \in Threads : At(u, "commit") /\ Name(u) = i) => i \in swept'
  BY RemoveFacts
<1>2. \A k \in Indexes : IF k = i THEN final'[k] = Absent ELSE final'[k] = final[k]
  BY <1>1
<1>3. \A u \in Threads : At(u, "commit")' => At(u, "commit") /\ jobs'[u] = jobs[u]
                                              /\ Name(u) \in Indexes
  BY <1>1, JobFields DEF At, IInv
<1>4. \A u \in Threads : At(u, "commit")' =>
        final'[Name(u)'] = jobs'[u].snapshot \/ Name(u)' \in swept'
  BY <1>1, <1>2, <1>3 DEF FilesHeld
<1>5. \A u \in Threads : (At(u, "write")' => At(u, "write") /\ jobs'[u] = jobs[u])
                         /\ (At(u, "rename")' => At(u, "rename") /\ jobs'[u] = jobs[u])
  BY <1>1 DEF At
<1> QED BY <1>1, <1>2, <1>4, <1>5 DEF FilesHeld

\* At startup no thread relies on a temporary file.
LEMMA FilesStartup ==
  ASSUME IInv, FilesHeld, RecoverPublication \/ DiscardPublication
  PROVE  FilesHeld'
<1>1. UNCHANGED jobs /\ \A t \in Threads : jobs[t] = Absent
  BY DEF RecoverPublication, DiscardPublication, IInv, Placed, Open, Threads
<1>2. /\ final \in [Indexes -> Snapshot \cup {Torn, Absent}]
      /\ tmp \in [Indexes -> Snapshot \cup {Torn, Absent}]
      /\ manifest # Absent => manifest \in Snapshot /\ manifest.index \in Indexes
                              /\ manifest # Torn
  BY SnapshotFields DEF IInv, TypeOK
<1>3. \A k \in Indexes : /\ final'[k] # Absent => final'[k] \in Snapshot /\ final'[k].index = k
                         /\ tmp'[k] \notin {Torn, Absent} => tmp'[k].index = k
  <2>1. CASE UNCHANGED <<final, tmp>>
    BY <2>1 DEF FilesHeld
  <2>2. CASE /\ RecoverPublication /\ manifest # Absent
             /\ tmp[manifest.index] = manifest
             /\ final' = [final EXCEPT ![manifest.index] = tmp[manifest.index]]
             /\ tmp' = [tmp EXCEPT ![manifest.index] = Absent]
    BY <1>2, <2>2 DEF FilesHeld
  <2>3. CASE /\ DiscardPublication
             /\ \/ final' = [final EXCEPT ![manifest.index] = Absent] /\ UNCHANGED tmp
                \/ tmp' = [tmp EXCEPT ![manifest.index] = Absent] /\ UNCHANGED final
    BY <1>2, <2>3 DEF FilesHeld
  <2> QED BY <2>1, <2>2, <2>3 DEF RecoverPublication, DiscardPublication, Refuse
<1> QED BY <1>1, <1>3 DEF FilesHeld, At

-----------------------------------------------------------------------------
(* ActiveHeld. *)

\* The node serves, or its startup has read the active file.
Serving == Open \/ (status = "validating" /\ ~At(Raft, "check"))

LEMMA ActiveQuiet ==
  ASSUME ActiveHeld, UNCHANGED <<active, final, swept>>,
         Serving' => /\ Serving \/ active = Absent \/ final[active.index] = active
                     /\ \A u \in Threads : At(u, "commit") => jobs'[u] = jobs[u]
  PROVE  ActiveHeld'
  BY DEF ActiveHeld, Serving, At, Name, Older

LEMMA ActiveRename ==
  ASSUME IInv, FilesHeld, ActiveHeld, NEW t \in Threads, RenameTemporary(t)
  PROVE  ActiveHeld'
<1>1. /\ jobs[t] # Absent /\ jobs[t].step = "rename" /\ Go(t, "commit")
      /\ UNCHANGED <<active, status>> /\ swept' = swept \ {Name(t)}
  BY DEF RenameTemporary, At, database
<1>2. /\ jobs'[t] # Absent /\ jobs'[t].step = "commit"
      /\ \A u \in Threads \ {t} : jobs'[u] = jobs[u]
      /\ \A u \in Threads : Name(u)' = Name(u)
      /\ final \in [Indexes -> Snapshot \cup {Torn, Absent}]
      /\ Name(t) \in Indexes
  BY <1>1, TemporaryFacts DEF Steps
<1>3. final' = [final EXCEPT ![Name(t)] = jobs[t].snapshot]
  BY FilesRename
<1>4. At(t, "commit")' /\ \A u \in Threads : At(u, "commit") => At(u, "commit")'
  BY <1>1, <1>2 DEF At
<1>5. Serving' => Serving
  BY <1>1, <1>2 DEF Serving, Open, At, Threads
<1> SUFFICES ASSUME active # Absent PROVE ActiveHeld'
  BY <1>1 DEF ActiveHeld
<1>6. CASE Name(t) = active.index
  <2>1. active = jobs[t].snapshot \/ Older(active)
    BY <1>1, <1>6, OwnActive DEF Before
  <2>2. final'[active.index] = jobs[t].snapshot
    BY <1>2, <1>3, <1>6
  <2> QED BY <1>1, <1>2, <1>4, <1>6, <2>1, <2>2 DEF ActiveHeld, Older
<1>7. CASE Name(t) # active.index
  <2>1. final'[active.index] = final[active.index] /\ (active.index \in swept => active.index \in swept')
    BY <1>1, <1>2, <1>3, <1>7, Numbers DEF IInv
  <2> QED BY <1>1, <1>2, <1>4, <1>5, <2>1 DEF ActiveHeld, Older, Serving
<1> QED BY <1>6, <1>7

LEMMA ActiveCommit ==
  ASSUME IInv, FilesHeld, NEW t \in Threads, CommitActive(t)
  PROVE  ActiveHeld'
<1>1. /\ jobs[t] # Absent /\ jobs[t].step = "commit" /\ active' = jobs[t].snapshot
      /\ UNCHANGED <<files, swept>>
  BY CommitFacts
<1>2. final[Name(t)] = jobs[t].snapshot \/ Name(t) \in swept
  BY <1>1 DEF FilesHeld, At
<1> QED BY <1>1, <1>2 DEF ActiveHeld, files, Name

LEMMA ActiveRemove ==
  ASSUME IInv, ActiveHeld, NEW t \in Threads, NEW i \in Indexes, RemoveInactive(t, i)
  PROVE  ActiveHeld'
<1>1. /\ jobs[t].step = "remove" /\ jobs'[t] # Absent /\ jobs'[t].step = "remove"
      /\ jobs[t] # Absent
      /\ \A u \in Threads \ {t} : jobs'[u] = jobs[u]
      /\ \A u \in Threads : Name(u)' = Name(u)
      /\ UNCHANGED <<database, status>>
      /\ final' = [final EXCEPT ![i] = Absent]
      /\ final \in [Indexes -> Snapshot \cup {Torn, Absent}]
      /\ swept \subseteq swept'
      /\ Covered = i => i \in swept'
  BY RemoveFacts
<1> SUFFICES ASSUME active # Absent PROVE ActiveHeld'
  BY <1>1 DEF ActiveHeld, database
<1>2. active.index \in Indexes /\ Covered = active.index /\ UNCHANGED active
  BY <1>1, Numbers DEF IInv, database
<1>3. final'[active.index] = final[active.index] \/ active.index \in swept'
  BY <1>1, <1>2
<1>4. Serving' => Serving
  BY <1>1 DEF Serving, Open, At, Threads
<1>5. \A u \in Threads : At(u, "commit") => At(u, "commit")'
  BY <1>1 DEF At
<1> QED BY <1>1, <1>2, <1>3, <1>4, <1>5 DEF ActiveHeld, Older, Serving

LEMMA ActiveStartup ==
  ASSUME IInv, ActiveHeld, ManifestHeld, RecoverPublication \/ DiscardPublication
  PROVE  ActiveHeld'
<1>1. UNCHANGED <<active, swept>> /\ ~Serving'
  BY DEF RecoverPublication, DiscardPublication, Refuse, database, history, Serving, Open
<1> SUFFICES ASSUME active # Absent PROVE ActiveHeld'
  BY <1>1 DEF ActiveHeld
<1>2. /\ final \in [Indexes -> Snapshot \cup {Torn, Absent}]
      /\ manifest # Absent => manifest \in Snapshot /\ manifest.index \in Indexes
      /\ active.index \in Indexes /\ active \in Snapshot
  BY SnapshotFields, Numbers DEF IInv, TypeOK
<1>3. \/ final'[active.index] = active \/ active.index \in swept \/ Older(active)
  <2>1. CASE RecoverPublication
    <3>1. \/ UNCHANGED final
          \/ /\ manifest # Absent /\ final[manifest.index] = Absent
             /\ final' = [final EXCEPT ![manifest.index] = tmp[manifest.index]]
      BY <2>1 DEF RecoverPublication, Refuse
    <3> QED BY <1>2, <3>1 DEF ActiveHeld
  <2>2. CASE DiscardPublication
    <3>1. manifest # Absent /\ active # manifest
      BY <2>2 DEF DiscardPublication, ManifestHeld
    <3>2. CASE manifest.index = active.index
      <4>1. Older(manifest) => Older(active)
        BY <3>2 DEF ManifestHeld
      <4>2. ~Older(manifest) => Older(active)
        BY <1>2, <3>1, <3>2, SnapshotsEqual DEF Older
      <4> QED BY <4>1, <4>2
    <3>3. CASE manifest.index # active.index
      <4>1. final'[active.index] = final[active.index]
        BY <1>2, <2>2, <3>3 DEF DiscardPublication
      <4> QED BY <4>1 DEF ActiveHeld
    <3> QED BY <3>2, <3>3
  <2> QED BY <2>1, <2>2
<1> QED BY <1>1, <1>3 DEF ActiveHeld, Older, Serving

-----------------------------------------------------------------------------
(* ManifestHeld. *)

\* The steps of a publication while its manifest is in place.
Noted == {"create", "write", "rename", "commit"}

LEMMA ManifestQuiet ==
  ASSUME ManifestHeld, UNCHANGED <<active, draft, manifest>>,
         status' \notin {"down", "failed"} =>
           /\ status \notin {"down", "failed"}
           /\ At(Raft, "manifest") => jobs'[Raft] = jobs[Raft],
         status' = "discarding" => status = "discarding",
         \A u \in Threads : jobs'[u] # Absent /\ jobs'[u].step \in Noted =>
           /\ jobs[u] # Absent /\ jobs[u].step \in Noted
           /\ jobs'[u].snapshot = jobs[u].snapshot
  PROVE  ManifestHeld'
  BY DEF ManifestHeld, At, Name, Older, Noted

\* A temporary manifest in an older encoding is of OpenRaft's installation.
LEMMA ManifestDraft ==
  ASSUME IInv, ManifestHeld, NEW t \in Threads, DraftManifest(t)
  PROVE  ManifestHeld'
<1>1. /\ jobs[t] # Absent /\ jobs[t].step = "draft" /\ Go(t, "manifest")
      /\ draft' = jobs[t].snapshot /\ UNCHANGED <<active, manifest, status>>
  BY DEF DraftManifest, At, database
<1>2. /\ jobs'[t] # Absent /\ jobs'[t].step = "manifest"
      /\ jobs'[t].snapshot = jobs[t].snapshot /\ jobs'[t].kind = jobs[t].kind
      /\ \A u \in Threads \ {t} : jobs'[u] = jobs[u]
  BY <1>1, GoFields DEF IInv, Steps
<1>3. Older(draft)' => t = Raft /\ jobs[t].kind = "install"
  <2>1. Older(draft)' => jobs[t].snapshot.format # Current
    BY <1>1 DEF Older
  <2>2. jobs[t].kind \in {"build", "install", "migrate"}
    BY <1>1, JobFields DEF IInv, Placed
  <2> QED BY <1>1, <2>1, <2>2 DEF IInv, Placed, Checks, Threads
<1> QED BY <1>1, <1>2, <1>3 DEF ManifestHeld, At, Name, Older

LEMMA ManifestWrite ==
  ASSUME IInv, ManifestHeld, NEW t \in Threads, WriteManifest(t)
  PROVE  ManifestHeld'
<1>1. /\ jobs[t] # Absent /\ jobs[t].step = "manifest" /\ Go(t, "create")
      /\ draft # Absent /\ draft' = Absent /\ manifest' = draft
      /\ UNCHANGED <<active, status>>
  BY DEF WriteManifest, At, database
<1>2. /\ jobs'[t] # Absent /\ jobs'[t].step = "create"
      /\ jobs'[t].snapshot = jobs[t].snapshot
      /\ \A u \in Threads \ {t} : jobs'[u] = jobs[u]
      /\ \A u \in Threads : Name(u)' = Name(u)
  BY <1>1, TemporaryFacts DEF Steps
<1>3. ~Older(draft)'
  BY <1>1, AbsentAssumption DEF Older
<1>4. status \notin {"down", "failed", "discarding"}
  BY <1>1 DEF IInv, Placed, Open, Threads
<1>5. CASE ~Older(draft)
  BY <1>1, <1>2, <1>3, <1>4, <1>5 DEF ManifestHeld, Older
<1>6. CASE Older(draft)
  <2>1. /\ jobs[Raft] # Absent /\ jobs[Raft].step = "manifest" /\ jobs[Raft].kind = "install"
        /\ jobs[Raft].snapshot = draft
    BY <1>4, <1>6 DEF ManifestHeld, At
  <2>2. Open /\ Raft \in Threads
    BY <2>1, IdleFields DEF IInv, Placed, Checks
  <2>3. /\ draft.index = Name(Raft) /\ Covered < Name(Raft)
        /\ \A r \in Readers : jobs[r] # Absent => Name(r) < Name(Raft)
    BY <2>1, <2>2, RaftAhead DEF Before, Name
  <2>4. \A r \in Readers : jobs[r] # Absent => Name(r) # draft.index
    <3>1. \A r \in Readers : jobs[r] # Absent => Name(r) \in Nat
      BY JobFields DEF IInv, Threads
    <3>2. Name(Raft) \in Nat
      BY <2>1, <2>2, JobFields DEF IInv
    <3> QED BY <2>3, <3>1, <3>2
  <2>5. active # Absent => active.index # draft.index
    BY <2>1, <2>2, <2>3, Numbers, JobFields DEF IInv
  <2>6. \A u \in Threads : jobs'[u] # Absent /\ ~Older(jobs'[u].snapshot) => Name(u)' # draft.index
    <3> SUFFICES ASSUME NEW u \in Threads, jobs'[u] # Absent, ~Older(jobs'[u].snapshot)
                 PROVE  Name(u)' # draft.index
      OBVIOUS
    <3>1. jobs[u] # Absent /\ jobs'[u].snapshot = jobs[u].snapshot
      BY <1>1, <1>2
    <3>2. u # Raft
      BY <1>6, <2>1, <3>1
    <3> QED BY <1>2, <2>4, <3>1, <3>2 DEF Threads
  <2>7. /\ \A u \in Threads :
             (\E step \in Noted : At(u, step)') /\ ~Older(jobs'[u].snapshot) =>
               ~(Older(manifest)' /\ manifest'.index = Name(u)')
        /\ Older(manifest)' /\ active' # Absent /\ manifest'.index = active'.index => Older(active)'
    BY <1>1, <2>5, <2>6 DEF At
  <2> QED BY <1>1, <1>3, <1>4, <2>7 DEF ManifestHeld, Older, Noted
<1> QED BY <1>5, <1>6

LEMMA ManifestCommit ==
  ASSUME IInv, ManifestHeld, NEW t \in Threads, CommitActive(t)
  PROVE  ManifestHeld'
<1>1. /\ jobs[t] # Absent /\ jobs[t].step = "commit" /\ active' = jobs[t].snapshot
      /\ UNCHANGED <<files, status>>
      /\ jobs'[t] # Absent /\ jobs'[t].step = "clear"
      /\ \A u \in Threads \ {t} : jobs'[u] = jobs[u]
      /\ jobs[t].snapshot \in Snapshot
  BY CommitFacts, JobFields DEF IInv
<1>2. status # "discarding"
  BY <1>1 DEF IInv, Placed, Open, Threads
<1>3. ~Older(jobs[t].snapshot) => ~(Older(manifest) /\ manifest.index = Name(t))
  BY <1>1 DEF ManifestHeld, At
<1>4. Older(active)' <=> Older(jobs[t].snapshot)
  BY <1>1 DEF Older
<1>5. Older(manifest)' /\ manifest'.index = active'.index => Older(active)'
  BY <1>1, <1>3, <1>4 DEF files, Older, Name
<1>6. \A u \in Threads : jobs'[u] # Absent /\ jobs'[u].step \in Noted => jobs'[u] = jobs[u]
  BY <1>1 DEF Noted
<1>7. Older(draft)' /\ status' \notin {"down", "failed"} =>
        At(Raft, "manifest")' /\ jobs'[Raft].kind = "install" /\ jobs'[Raft].snapshot = draft'
  BY <1>1, IdleFields DEF ManifestHeld, At, files, Older
<1> QED BY <1>1, <1>2, <1>5, <1>6, <1>7 DEF ManifestHeld, At, Name, Noted, files, Older

LEMMA ManifestRemove ==
  ASSUME IInv, ManifestHeld, NEW t \in Threads, RemoveManifest(t)
  PROVE  ManifestHeld'
<1>1. /\ jobs[t] # Absent /\ jobs[t].step = "clear" /\ Go(t, "list")
      /\ manifest' = Absent /\ UNCHANGED <<active, draft, status>>
  BY DEF RemoveManifest, At, database
<1>2. /\ jobs'[t] # Absent /\ jobs'[t].step = "list"
      /\ \A u \in Threads \ {t} : jobs'[u] = jobs[u]
  BY <1>1, GoFields DEF IInv, Steps
<1>3. ~Older(manifest)' /\ status # "discarding"
  BY <1>1, AbsentAssumption DEF Older, IInv, Placed, Open, Threads
<1>4. At(Raft, "manifest") => jobs'[Raft] = jobs[Raft]
  BY <1>1, <1>2, IdleFields DEF At
<1> QED BY <1>1, <1>3, <1>4 DEF ManifestHeld, At, Older

LEMMA ManifestStartup ==
  ASSUME IInv, ManifestHeld, Startup
  PROVE  ManifestHeld'
<1>1. UNCHANGED <<active, jobs>> /\ \A t \in Threads : jobs[t] = Absent
  BY DEF Startup, RecoverPublication, ReconcileManifest, DiscardPublication, OpenEmpty,
         database, IInv, Placed, Open, Threads
<1>2. manifest' = manifest \/ manifest' = Absent
  BY DEF Startup, RecoverPublication, ReconcileManifest, DiscardPublication, OpenEmpty, Refuse,
         files
<1>3. ~Older(draft)'
  <2>1. ~Older(Absent)
    BY AbsentAssumption DEF Older
  <2>2. CASE RecoverPublication
    BY <2>1, <2>2 DEF RecoverPublication, Older
  <2>3. CASE ~RecoverPublication
    <3>1. UNCHANGED draft /\ status \notin {"down", "failed"}
      BY <2>3 DEF Startup, ReconcileManifest, DiscardPublication, OpenEmpty, files
    <3> QED BY <1>1, <3>1, IdleFields DEF ManifestHeld, At, Older
  <2> QED BY <2>2, <2>3
<1>4. status' = "discarding" => manifest' # Absent /\ active' # Absent /\ active' # manifest'
  BY <1>1 DEF Startup, RecoverPublication, ReconcileManifest, DiscardPublication, OpenEmpty,
              Refuse, ManifestHeld
<1>5. Older(manifest)' => Older(manifest) /\ manifest' = manifest
  BY <1>2, AbsentAssumption DEF Older
<1> QED BY <1>1, <1>3, <1>4, <1>5 DEF ManifestHeld, At, Older

-----------------------------------------------------------------------------
(* The three together. *)

\* A step that touches no file and moves no publication into its critical part.
LEMMA QuietStep ==
  ASSUME FInv, UNCHANGED <<active, files, swept>>,
         \A u \in Threads : \/ jobs'[u] = jobs[u] \/ jobs'[u] = Absent
                            \/ jobs'[u].step \notin Noted,
         status' \notin {"down", "failed"} =>
           /\ status \notin {"down", "failed"}
           /\ \A u \in Threads : At(u, "manifest") \/ At(u, "commit") => jobs'[u] = jobs[u],
         status' = "discarding" => status = "discarding",
         Serving' => Serving \/ active = Absent \/ final[active.index] = active
  PROVE  FInv'
<1>1. FilesHeld'
  BY FilesQuiet DEF FInv, files, Noted
<1>2. ActiveHeld'
  <2>1. Serving' => \A u \in Threads : At(u, "commit") => jobs'[u] = jobs[u]
    BY DEF Serving, Open
  <2> QED BY <2>1, ActiveQuiet DEF FInv, files
<1>3. ManifestHeld'
  BY ManifestQuiet, IdleFields DEF FInv, files
<1> QED BY <1>1, <1>2, <1>3 DEF FInv

LEMMA QuietFiles ==
  ASSUME IInv, FInv, NEW t \in Threads, CreateTemporary(t) \/ WriteTemporary(t) \/ RenameTemporary(t)
  PROVE  FInv'
<1>1. PICK step \in {"write", "rename", "commit"} :
        /\ jobs[t] # Absent /\ jobs[t].step \in {"create", "write", "rename"} /\ Go(t, step)
        /\ UNCHANGED <<active, draft, manifest, status>>
        /\ step # "commit" => UNCHANGED <<final, swept>>
        /\ step = "commit" => RenameTemporary(t)
        /\ step # "commit" => CreateTemporary(t) \/ WriteTemporary(t)
  BY DEF CreateTemporary, WriteTemporary, RenameTemporary, At, database, history
<1>2. /\ jobs'[t] # Absent /\ jobs'[t].step = step
      /\ jobs'[t].snapshot = jobs[t].snapshot
      /\ \A u \in Threads \ {t} : jobs'[u] = jobs[u]
  BY <1>1, GoFields DEF IInv, Steps
<1>3. FilesHeld'
  BY <1>1, FilesTemporary, FilesRename DEF FInv
<1>4. ManifestHeld'
  <2>1. \A u \in Threads : jobs'[u] # Absent /\ jobs'[u].step \in Noted =>
          /\ jobs[u] # Absent /\ jobs[u].step \in Noted
          /\ jobs'[u].snapshot = jobs[u].snapshot
    BY <1>1, <1>2 DEF Noted
  <2>2. At(Raft, "manifest") => jobs'[Raft] = jobs[Raft]
    BY <1>1, <1>2, IdleFields DEF At
  <2> QED BY <1>1, <2>1, <2>2, ManifestQuiet DEF FInv
<1>5. ActiveHeld'
  <2>1. CASE step = "commit"
    BY <1>1, <2>1, ActiveRename DEF FInv
  <2>2. CASE step # "commit"
    <3>1. Serving' => Serving
      BY <1>1, <1>2 DEF Serving, Open, At, Threads
    <3>2. \A u \in Threads : At(u, "commit") => jobs'[u] = jobs[u]
      BY <1>1, <1>2 DEF At
    <3> QED BY <1>1, <2>2, <3>1, <3>2, ActiveQuiet DEF FInv
  <2> QED BY <2>1, <2>2
<1> QED BY <1>3, <1>4, <1>5 DEF FInv

\* The manifest and the commit.
LEMMA NotedStep ==
  ASSUME IInv, FInv, NEW t \in Threads,
         DraftManifest(t) \/ WriteManifest(t) \/ CommitActive(t) \/ RemoveManifest(t)
  PROVE  FInv'
<1>1. ManifestHeld'
  BY ManifestDraft, ManifestWrite, ManifestCommit, ManifestRemove DEF FInv
<1>2. PICK step \in {"manifest", "create", "clear", "list"} :
        /\ jobs[t] # Absent /\ jobs[t].step # "check" /\ Go(t, step)
        /\ UNCHANGED <<final, tmp, swept, status>>
        /\ ~CommitActive(t) => jobs[t].step # "commit" /\ UNCHANGED active
  BY DEF DraftManifest, WriteManifest, CommitActive, RemoveManifest, At, database, files, history
<1>3. /\ jobs'[t] # Absent /\ jobs'[t].step = step
      /\ \A u \in Threads \ {t} : jobs'[u] = jobs[u]
  BY <1>2, GoFields DEF IInv, Steps
<1>4. FilesHeld'
  BY <1>2, <1>3, FilesQuiet DEF FInv
<1>5. ActiveHeld'
  <2>1. CASE CommitActive(t)
    BY <2>1, ActiveCommit DEF FInv
  <2>2. CASE ~CommitActive(t)
    <3>1. Serving' => Serving
      BY <1>2, <1>3 DEF Serving, Open, At, Threads
    <3>2. \A u \in Threads : At(u, "commit") => jobs'[u] = jobs[u]
      BY <1>2, <1>3, <2>2 DEF At
    <3> QED BY <1>2, <2>2, <3>1, <3>2, ActiveQuiet DEF FInv
  <2> QED BY <2>1, <2>2
<1> QED BY <1>1, <1>4, <1>5 DEF FInv

\* Sweeps and checks.
LEMMA SweepFiles ==
  ASSUME IInv, FInv, NEW t \in Threads, NEW i \in Indexes, RemoveInactive(t, i)
  PROVE  FInv'
<1>1. /\ jobs[t] # Absent /\ jobs[t].step = "remove"
      /\ jobs'[t] # Absent /\ jobs'[t].step = "remove"
      /\ \A u \in Threads \ {t} : jobs'[u] = jobs[u]
      /\ UNCHANGED <<database, draft, manifest, status>>
  BY RemoveFacts
<1>2. ManifestHeld'
  <2>1. At(Raft, "manifest") => jobs'[Raft] = jobs[Raft]
    BY <1>1, IdleFields DEF At
  <2>2. \A u \in Threads : jobs'[u] # Absent /\ jobs'[u].step \in Noted => jobs'[u] = jobs[u]
    BY <1>1 DEF Noted
  <2> QED BY <1>1, <2>1, <2>2, ManifestQuiet DEF FInv, database
<1> QED BY <1>2, FilesRemove, ActiveRemove DEF FInv

LEMMA CheckFiles ==
  ASSUME IInv, FInv, NEW t \in Threads,
         ListInactive(t) \/ FinishSweep(t) \/ ReadActive(t) \/ CheckActive(t)
  PROVE  FInv'
<1>1. /\ UNCHANGED <<active, files, swept>>
      /\ jobs[t] # Absent => jobs[t].step \in {"list", "remove", "check"}
      /\ \/ status' = status
         \/ status' = "open" /\ jobs[t] # Absent
         \/ status' = "validating" /\ status = "reconciled"
  BY DEF ListInactive, FinishSweep, ReadActive, CheckActive, At, database, history
<1>2. /\ \A u \in Threads \ {t} : jobs'[u] = jobs[u]
      /\ jobs'[t] = Absent \/ jobs'[t].step \in {"remove", "list", "check", "draft"}
      /\ Serving' => Serving \/ active = Absent \/ final[active.index] = active
  <2>1. CASE ListInactive(t)
    <3>1. /\ jobs[t] # Absent /\ jobs[t].step = "list" /\ UNCHANGED status
          /\ jobs' = [jobs EXCEPT ![t] = [jobs[t] EXCEPT !.step = "remove", !.listed = Inactive(t)]]
      BY <2>1 DEF ListInactive, At
    <3>2. Inactive(t) \in SUBSET Indexes
      BY DEF Inactive
    <3>3. jobs'[t].step = "remove" /\ \A u \in Threads \ {t} : jobs'[u] = jobs[u]
      BY <3>1, <3>2, ListFields DEF IInv, Steps
    <3> QED BY <3>1, <3>3, IdleFields DEF Serving, Open, At
  <2>2. CASE FinishSweep(t)
    <3>1. jobs[t] # Absent /\ jobs[t].step = "remove" /\ jobs[t].snapshot \in Snapshot
      BY <2>2, JobFields DEF FinishSweep, At, IInv
    <3>2. Serving
      <4>1. Open \/ status = "validating"
        BY <3>1 DEF IInv, Placed, Threads
      <4>2. status = "validating" => t = Raft
        BY <3>1 DEF IInv, Placed, Open, Threads
      <4> QED BY <3>1, <4>1, <4>2 DEF Serving, At
    <3>3. CASE Start(t, "check", "list", jobs[t].snapshot)
      BY <3>1, <3>2, <3>3, StartFields DEF IInv, Steps
    <3>4. CASE jobs' = [jobs EXCEPT ![t] = Absent]
      BY <3>2, <3>4, DropFields DEF IInv
    <3> QED BY <2>2, <3>3, <3>4 DEF FinishSweep
  <2>3. CASE ReadActive(t)
    <3>1. active \in Snapshot /\ Start(t, "check", "check", active) /\ jobs[t] = Absent
      BY <2>3, Numbers DEF ReadActive, IInv
    <3>2. /\ jobs'[t] # Absent /\ jobs'[t].step = "check"
          /\ \A u \in Threads \ {t} : jobs'[u] = jobs[u]
      BY <3>1, StartFields DEF IInv, Steps
    <3>3. Serving' => Serving
      BY <2>3, <3>1, <3>2 DEF ReadActive, Serving, Open, At
    <3> QED BY <3>2, <3>3
  <2>4. CASE CheckActive(t)
    <3>1. /\ jobs[t] # Absent /\ jobs[t].step = "check" /\ jobs[t].snapshot \in Snapshot
          /\ UNCHANGED status /\ final[Name(t)] = jobs[t].snapshot
      BY <2>4, JobFields DEF CheckActive, At, IInv
    <3>2. [jobs[t].snapshot EXCEPT !.format = Current] \in Snapshot
      BY <3>1, FormatsAssumption DEF Snapshot
    <3>3. /\ jobs'[t].step \in {"list", "draft"}
          /\ \A u \in Threads \ {t} : jobs'[u] = jobs[u]
      BY <2>4, <3>1, <3>2, GoFields, StartFields DEF CheckActive, IInv, Steps
    <3>4. Open \/ (t = Raft /\ status = "validating")
      BY <3>1 DEF IInv, Placed, Threads
    <3>5. status = "validating" => final[active.index] = active
      BY <3>1, <3>4 DEF IInv, StartupJob, Before, Open
    <3> QED BY <3>1, <3>3, <3>4, <3>5 DEF Serving
  <2> QED BY <2>1, <2>2, <2>3, <2>4
<1>3. \A u \in Threads : At(u, "manifest") \/ At(u, "commit") => jobs'[u] = jobs[u]
  BY <1>1, <1>2 DEF At
<1>4. status' \notin {"down", "failed"} => status \notin {"down", "failed"}
  BY <1>1 DEF IInv, Placed, Open, Threads
<1>5. status' = "discarding" => status = "discarding"
  BY <1>1
<1> QED BY <1>1, <1>2, <1>3, <1>4, <1>5, QuietStep DEF Noted

LEMMA FailFiles ==
  ASSUME IInv, FInv, NEW t \in Threads, Failures(t)
  PROVE  FInv'
<1>1. /\ jobs[t] # Absent /\ UNCHANGED <<active, files, swept>> /\ Fails(t)
      /\ jobs[t].step # "commit"
  BY DEF Failures, ManifestFails, CreateFails, RemoveFails, CheckFails, Fails, At, database, history
<1>2. CASE t \notin Readers
  <2>1. jobs' = Idle /\ status' \in {"down", "failed"}
    BY <1>1, <1>2 DEF Fails
  <2> QED BY <1>1, <2>1, IdleFields, QuietStep DEF Serving, Open
<1>3. CASE t \in Readers
  <2>1. jobs' = [jobs EXCEPT ![t] = Absent] /\ UNCHANGED status /\ t # Raft /\ Open
    BY <1>1, <1>3, ThreadsAssumption DEF Fails, IInv, Placed
  <2>2. jobs'[t] = Absent /\ \A u \in Threads \ {t} : jobs'[u] = jobs[u]
    BY <2>1, DropFields DEF IInv
  <2>3. FilesHeld'
    BY <1>1, <2>2, FilesQuiet DEF FInv, files
  <2>4. ActiveHeld'
    <3>1. \A u \in Threads : At(u, "commit") => jobs'[u] = jobs[u]
      BY <1>1, <2>2 DEF At
    <3>2. Serving
      BY <2>1 DEF Serving
    <3> QED BY <1>1, <3>1, <3>2, ActiveQuiet DEF FInv, files
  <2>5. ManifestHeld'
    BY <1>1, <2>1, <2>2, IdleFields, ManifestQuiet DEF FInv, files, Open
  <2> QED BY <2>3, <2>4, <2>5 DEF FInv
<1> QED BY <1>2, <1>3

LEMMA StartFiles ==
  ASSUME IInv, FInv, NEW s \in Snapshot, BuildSnapshot \/ InstallSnapshot(s)
  PROVE  FInv'
<1>1. UNCHANGED <<active, files, swept, status>> /\ jobs[Raft] = Absent /\ Open
  BY DEF BuildSnapshot, InstallSnapshot, database, history
<1>2. PICK kind \in {"build", "install"}, x \in Snapshot : Start(Raft, kind, "draft", x)
  <2>1. applied \in Indexes => [index |-> applied, format |-> Current] \in Snapshot
    BY FormatsAssumption DEF Snapshot
  <2> QED BY <2>1 DEF BuildSnapshot, InstallSnapshot, IInv, TypeOK
<1>3. jobs'[Raft].step = "draft" /\ \A u \in Threads \ {Raft} : jobs'[u] = jobs[u]
  BY <1>2, StartFields, IdleFields DEF IInv, Steps
<1>4. \A u \in Threads : At(u, "manifest") \/ At(u, "commit") => jobs'[u] = jobs[u]
  BY <1>1, <1>3 DEF At
<1>5. Serving
  BY <1>1 DEF Serving
<1> QED BY <1>1, <1>3, <1>4, <1>5, QuietStep DEF Noted, Open

LEMMA StartupFiles ==
  ASSUME IInv, FInv, Startup
  PROVE  FInv'
<1>1. ManifestHeld'
  BY ManifestStartup DEF FInv
<1>2. CASE RecoverPublication \/ DiscardPublication
  BY <1>1, <1>2, FilesStartup, ActiveStartup DEF FInv
<1>3. CASE ReconcileManifest \/ OpenEmpty
  <2>1. /\ UNCHANGED <<active, final, tmp, swept, jobs>>
        /\ Serving' => active = Absent
    BY <1>3 DEF ReconcileManifest, OpenEmpty, Serving, Open, database, files, history
  <2>2. FilesHeld'
    BY <2>1, FilesQuiet DEF FInv
  <2>3. ActiveHeld'
    BY <2>1, ActiveQuiet DEF FInv
  <2> QED BY <1>1, <2>2, <2>3 DEF FInv
<1> QED BY <1>2, <1>3 DEF Startup

LEMMA FilesNext == IInv /\ FInv /\ [Next]_vars => FInv'
<1> SUFFICES ASSUME IInv, FInv, [Next]_vars PROVE FInv'
  OBVIOUS
<1>1. CASE Append \/ Apply \/ Purge \/ (\E i \in Indexes : Truncate(i)) \/ UNCHANGED vars
  <2>1. UNCHANGED <<active, files, swept, status, jobs>>
    BY <1>1 DEF Append, Apply, Purge, Truncate, vars, database, history
  <2>2. Serving' => Serving
    BY <2>1 DEF Serving, Open, At
  <2>3. FilesHeld' /\ ActiveHeld'
    BY <2>1, <2>2, FilesQuiet, ActiveQuiet DEF FInv, files
  <2>4. ManifestHeld'
    BY <2>1 DEF FInv, ManifestHeld, files, At, Name, Older
  <2> QED BY <2>3, <2>4 DEF FInv
<1>2. CASE BuildSnapshot \/ \E s \in Snapshot : InstallSnapshot(s)
  <2>1. [index |-> 0, format |-> Current] \in Snapshot
    BY FormatsAssumption, BoundsAssumption DEF Snapshot, Indexes
  <2> QED BY <1>2, <2>1, StartFiles
<1>3. ASSUME NEW t \in Threads, Publish(t) \/ Validate(t) PROVE FInv'
  BY <1>3, FailFiles, QuietFiles, NotedStep, SweepFiles, CheckFiles DEF Publish, Validate, Failures
<1>4. CASE Startup
  BY <1>4, StartupFiles
<1>5. CASE Crash
  <2>1. jobs' = Idle /\ status' = "down" /\ UNCHANGED <<active, files, swept>>
    BY <1>5 DEF Crash, database, history
  <2> QED BY <2>1, IdleFields, QuietStep DEF Serving, Open
<1> QED BY <1>1, <1>2, <1>3, <1>4, <1>5 DEF Next

LEMMA FilesInit == Init => FInv
  BY IdleFields, AbsentAssumption
  DEF Init, FInv, FilesHeld, ActiveHeld, ManifestHeld, At, Older

LEMMA FilesAlways == Spec => []FInv
  BY FilesInit, FilesNext, Invariance, PTL DEF Spec

\* A serving node can read its active snapshot unless the sweep of one thread
\* removed the file that another had published.
THEOREM ReadableCorrect == Spec => []ActiveReadable
<1>1. FInv => ActiveReadable
  BY DEF FInv, ActiveHeld, ActiveReadable
<1> QED BY <1>1, FilesAlways, PTL

-----------------------------------------------------------------------------
(* Why a startup is refused. *)

\* Files of one name that differ are in different encodings.
LEMMA RecoverRefused ==
  ASSUME IInv, FInv, RecoverPublication, status' = "failed"
  PROVE  RefusalsExplained'
<1> DEFINE i == manifest.index
<1>1. /\ manifest \in Snapshot /\ i \in Indexes /\ manifest # Absent
      /\ UNCHANGED <<active, manifest, final, tmp, swept>>
      /\ \/ final[i] # Absent /\ final[i] # manifest
         \/ tmp[i] # Absent /\ tmp[i] # manifest
  BY SnapshotFields, AbsentAssumption
  DEF RecoverPublication, Refuse, IInv, TypeOK, database, history
<1>2. /\ final[i] # Absent => final[i] \in Snapshot /\ final[i].index = i
      /\ tmp[i] \notin {Torn, Absent} => tmp[i] \in Snapshot /\ tmp[i].index = i
  BY <1>1 DEF FInv, FilesHeld, IInv, TypeOK
<1>3. \A s \in Snapshot : s.index = i /\ s # manifest => Older(s) \/ Older(manifest)
  BY <1>1, SnapshotsEqual DEF Older
<1>4. \/ tmp[i] = Torn
      \/ \E s \in {manifest, final[i], tmp[i]} : Older(s)
  BY <1>1, <1>2, <1>3
<1> QED BY <1>1, <1>4 DEF RefusalsExplained, Older

\* At startup only a migration writes, and only a missing file fails a check.
LEMMA StartupRefused ==
  ASSUME IInv, FInv, NEW t \in Threads, Failures(t), status' = "failed", status # "failed"
  PROVE  /\ active # Absent /\ (Older(active) \/ active.index \in swept)
         /\ UNCHANGED <<active, files, swept>>
<1>1. /\ jobs[t] # Absent /\ Fails(t) /\ t = Raft /\ status = "validating"
      /\ UNCHANGED <<active, files, swept>>
  BY DEF Failures, ManifestFails, CreateFails, RemoveFails, CheckFails, Fails, At,
         IInv, Placed, Threads, Open, database, history
<1>2. /\ active # Absent
      /\ Name(Raft) = active.index
      /\ jobs[Raft].step \in Before => Older(active)
      /\ jobs[Raft].step \notin Before => jobs[Raft].snapshot = active
      /\ \A i \in jobs[Raft].listed : final[i] # Absent
  BY <1>1 DEF IInv, StartupJob
<1>3. Older(active) \/ active.index \in swept
  <2>1. CASE ManifestFails(t) \/ CreateFails(t)
    <3>1. \A u \in Threads \ {t} : jobs[u] = Absent
      BY <1>1 DEF IInv, Placed, Open, Threads
    <3> QED BY <1>1, <1>2, <2>1, <3>1 DEF ManifestFails, CreateFails, At, Before
  <2>2. CASE RemoveFails(t)
    BY <1>1, <1>2, <2>2 DEF RemoveFails
  <2>3. CASE CheckFails(t)
    <3>1. final[active.index] # active
      BY <1>1, <1>2, <2>3 DEF CheckFails, At, Before
    <3> QED BY <1>2, <3>1 DEF FInv, ActiveHeld
  <2> QED BY <2>1, <2>2, <2>3 DEF Failures
<1> QED BY <1>1, <1>2, <1>3

\* A refused node stays so until it is started again.
LEMMA Refusals ==
  ASSUME IInv, [Next]_vars, status' = "failed"
  PROVE  \/ status = "failed" /\ UNCHANGED vars
         \/ status # "failed" /\ RecoverPublication
         \/ status # "failed" /\ \E t \in Threads : Failures(t)
<1>1. CASE UNCHANGED vars
  BY <1>1 DEF vars
<1>2. CASE Append \/ Apply \/ Purge \/ (\E i \in Indexes : Truncate(i)) \/ BuildSnapshot
           \/ (\E s \in Snapshot : InstallSnapshot(s)) \/ Crash
  BY <1>2 DEF Append, Apply, Purge, Truncate, BuildSnapshot, InstallSnapshot, Crash, Open
<1>3. CASE Startup
  BY <1>3 DEF Startup, RecoverPublication, ReconcileManifest, DiscardPublication, OpenEmpty
<1>4. ASSUME NEW t \in Threads, Publish(t) \/ Validate(t)
      PROVE  status # "failed" /\ Failures(t)
  <2>1. jobs[t] # Absent => status # "failed"
    BY DEF IInv, Placed, Open, Threads
  <2>2. CASE ReadActive(t)
    BY <2>2 DEF ReadActive, Open
  <2>3. CASE ~ReadActive(t)
    <3>1. jobs[t] # Absent
      BY <1>4, <2>3
      DEF Publish, Validate, DraftManifest, WriteManifest, ManifestFails, CreateTemporary,
          CreateFails, WriteTemporary, RenameTemporary, CommitActive, RemoveManifest,
          ListInactive, RemoveInactive, RemoveFails, FinishSweep, CheckActive, CheckFails, At
    <3>2. CASE ~Failures(t)
      <4>1. UNCHANGED status \/ status' = "open"
        BY <1>4, <2>3, <3>2
        DEF Publish, Validate, DraftManifest, WriteManifest, CreateTemporary, Failures,
            WriteTemporary, RenameTemporary, CommitActive, RemoveManifest,
            ListInactive, RemoveInactive, FinishSweep, CheckActive
      <4> QED BY <2>1, <3>1, <4>1
    <3> QED BY <2>1, <3>1, <3>2
  <2> QED BY <2>2, <2>3
<1> QED BY <1>1, <1>2, <1>3, <1>4 DEF Next

LEMMA RefusalNext == IInv /\ FInv /\ RefusalsExplained /\ [Next]_vars => RefusalsExplained'
<1> SUFFICES ASSUME IInv, FInv, RefusalsExplained, [Next]_vars, status' = "failed"
             PROVE  RefusalsExplained'
  BY DEF RefusalsExplained
<1>1. CASE status = "failed" /\ UNCHANGED vars
  BY <1>1 DEF RefusalsExplained, Older, vars, database, files, history
<1>2. CASE RecoverPublication
  BY <1>2, RecoverRefused
<1>3. ASSUME NEW t \in Threads, status # "failed", Failures(t) PROVE RefusalsExplained'
  BY <1>3, StartupRefused DEF RefusalsExplained, Older
<1> QED BY <1>1, <1>2, <1>3, Refusals

\* A node that was stopped anywhere starts again unless a file is torn, an
\* encoding is an older one, or a sweep of another thread removed the file.
THEOREM RefusalsCorrect == Spec => []RefusalsExplained
<1>1. Init => RefusalsExplained
  BY DEF Init, RefusalsExplained
<1> QED BY <1>1, RefusalNext, Invariance, FilesAlways, PTL DEF Spec

-----------------------------------------------------------------------------
(* Whole writes and one encoding leave one reason. *)

\* A torn file is one that a thread is writing.
TornBelongs ==
  \A i \in Indexes : tmp[i] = Torn => \E t \in Threads : At(t, "write") /\ Name(t) = i

LEMMA OthersKept ==
  ASSUME TypeOK, NEW t \in Threads, Publish(t) \/ Validate(t), ~Failures(t)
  PROVE  \A u \in Threads \ {t} : jobs'[u] = jobs[u]
  BY DEF TypeOK, Publish, Validate, Failures, DraftManifest, WriteManifest, CreateTemporary,
         WriteTemporary, RenameTemporary, CommitActive, RemoveManifest, ListInactive,
         RemoveInactive, FinishSweep, ReadActive, CheckActive, Go, Start

LEMMA TornKept ==
  ASSUME TornBelongs, \A i \in Indexes : tmp'[i] = Torn => tmp[i] = Torn,
         \A u \in Threads : At(u, "write") => jobs'[u] = jobs[u]
  PROVE  TornBelongs'
  BY DEF TornBelongs, At, Name

\* With one encoding no read ever writes a file.
LEMMA WriterIsRaft ==
  ASSUME IInv, Prompt, NEW t \in Threads, At(t, "write")
  PROVE  t = Raft
<1>1. jobs[t] # Absent /\ jobs[t].kind # "migrate" /\ jobs[t].step = "write"
  BY DEF At, Prompt
<1>2. jobs[t].kind # "check"
  BY <1>1 DEF IInv, Placed
<1> QED BY <1>1, <1>2 DEF IInv, Placed, Checks, Threads

LEMMA TornThread ==
  ASSUME IInv, Prompt, TornBelongs, NEW t \in Threads, Publish(t) \/ Validate(t)
  PROVE  TornBelongs'
<1>1. CASE Failures(t)
  <2>1. UNCHANGED tmp /\ Fails(t) /\ ~At(t, "write")
    BY <1>1 DEF Failures, ManifestFails, CreateFails, RemoveFails, CheckFails, Fails, At, files
  <2>2. CASE t \in Readers
    <3>1. \A u \in Threads \ {t} : jobs'[u] = jobs[u]
      BY <2>1, <2>2, DropFields DEF Fails, IInv
    <3> QED BY <2>1, <3>1, TornKept
  <2>3. CASE t \notin Readers
    <3>1. \A u \in Threads : ~At(u, "write")
      BY <2>1, <2>3, WriterIsRaft DEF Threads
    <3> QED BY <2>1, <3>1, TornKept
  <2> QED BY <2>2, <2>3
<1>2. CASE CreateTemporary(t)
  <2>1. /\ jobs[t] # Absent /\ jobs[t].step = "create" /\ Go(t, "write")
        /\ tmp' = [tmp EXCEPT ![Name(t)] = Torn]
    BY <1>2 DEF CreateTemporary, At
  <2>2. /\ jobs'[t] # Absent /\ jobs'[t].step = "write"
        /\ jobs'[t].snapshot = jobs[t].snapshot
        /\ \A u \in Threads \ {t} : jobs'[u] = jobs[u]
    BY <2>1, GoFields DEF IInv, Steps
  <2>3. At(t, "write")' /\ Name(t)' = Name(t)
    BY <2>2 DEF At, Name
  <2>4. ASSUME NEW i \in Indexes, tmp'[i] = Torn, i # Name(t)
        PROVE  \E u \in Threads : At(u, "write")' /\ Name(u)' = i
    <3>1. tmp[i] = Torn
      BY <2>1, <2>4 DEF IInv, TypeOK
    <3>2. PICK u \in Threads : At(u, "write") /\ Name(u) = i
      BY <3>1 DEF TornBelongs
    <3>3. jobs'[u] = jobs[u]
      BY <2>1, <2>2, <3>2 DEF At
    <3> QED BY <3>2, <3>3 DEF At, Name
  <2> QED BY <2>3, <2>4 DEF TornBelongs
<1>3. CASE WriteTemporary(t)
  <2>1. /\ jobs[t] # Absent /\ jobs[t].step = "write" /\ Go(t, "rename")
        /\ tmp' = [tmp EXCEPT ![Name(t)] = jobs[t].snapshot]
        /\ Name(t) \in Indexes /\ jobs[t].snapshot # Torn
    BY <1>3, JobFields DEF WriteTemporary, At, IInv
  <2>2. \A u \in Threads \ {t} : jobs'[u] = jobs[u]
    BY <2>1, GoFields DEF IInv, Steps
  <2>3. ASSUME NEW i \in Indexes, tmp'[i] = Torn
        PROVE  \E u \in Threads : At(u, "write")' /\ Name(u)' = i
    <3>1. tmp[i] = Torn /\ i # Name(t)
      BY <2>1, <2>3 DEF IInv, TypeOK
    <3>2. PICK u \in Threads : At(u, "write") /\ Name(u) = i
      BY <3>1 DEF TornBelongs
    <3>3. jobs'[u] = jobs[u]
      BY <2>2, <3>1, <3>2
    <3> QED BY <3>2, <3>3 DEF At, Name
  <2> QED BY <2>3 DEF TornBelongs
<1>4. CASE ~Failures(t) /\ ~CreateTemporary(t) /\ ~WriteTemporary(t)
  <2>1. ~At(t, "write")
    BY <1>4 DEF Publish, Validate, Failures, DraftManifest, WriteManifest, RenameTemporary,
                CommitActive, RemoveManifest, ListInactive, RemoveInactive, FinishSweep,
                ReadActive, CheckActive, At
  <2>2. UNCHANGED tmp \/ tmp' = [tmp EXCEPT ![Name(t)] = Absent]
    BY <1>4 DEF Publish, Validate, Failures, DraftManifest, WriteManifest, RenameTemporary,
                CommitActive, RemoveManifest, ListInactive, RemoveInactive, FinishSweep,
                ReadActive, CheckActive, files
  <2>3. \A i \in Indexes : tmp'[i] = Torn => tmp[i] = Torn
    BY <2>2, AbsentAssumption DEF IInv, TypeOK
  <2>4. \A u \in Threads \ {t} : jobs'[u] = jobs[u]
    BY <1>4, OthersKept DEF IInv
  <2> QED BY <2>1, <2>3, <2>4, TornKept
<1> QED BY <1>1, <1>2, <1>3, <1>4

LEMMA TornNext ==
  ASSUME ~CrashMidWrite, IInv, Prompt, TornBelongs, [Next]_vars
  PROVE  TornBelongs'
<1>1. CASE Append \/ Apply \/ Purge \/ (\E i \in Indexes : Truncate(i)) \/ UNCHANGED vars
  <2>1. UNCHANGED <<tmp, jobs>>
    BY <1>1 DEF Append, Apply, Purge, Truncate, vars, files
  <2> QED BY <2>1, TornKept
<1>2. CASE BuildSnapshot \/ \E s \in Snapshot : InstallSnapshot(s)
  <2>1. UNCHANGED tmp /\ jobs[Raft] = Absent /\ \A u \in Threads \ {Raft} : jobs'[u] = jobs[u]
    BY <1>2 DEF BuildSnapshot, InstallSnapshot, Start, files, IInv, TypeOK
  <2> QED BY <2>1, TornKept DEF At
<1>3. ASSUME NEW t \in Threads, Publish(t) \/ Validate(t) PROVE TornBelongs'
  BY <1>3, TornThread
<1>4. CASE Startup
  <2>1. UNCHANGED jobs
    BY <1>4 DEF Startup, RecoverPublication, ReconcileManifest, DiscardPublication, OpenEmpty
  <2>2. UNCHANGED tmp \/ tmp' = [tmp EXCEPT ![manifest.index] = Absent]
    BY <1>4 DEF Startup, RecoverPublication, Refuse, ReconcileManifest, DiscardPublication,
                OpenEmpty, files
  <2>3. \A i \in Indexes : tmp'[i] = Torn => tmp[i] = Torn
    BY <2>2, AbsentAssumption DEF IInv, TypeOK
  <2> QED BY <2>1, <2>3, TornKept
<1>5. CASE Crash
  <2>1. UNCHANGED tmp /\ \A u \in Threads : ~At(u, "write")
    BY <1>5 DEF Crash, files
  <2> QED BY <2>1, TornKept
<1> QED BY <1>1, <1>2, <1>3, <1>4, <1>5 DEF Next

\* The one reason that is left: the file was swept by another thread.
OnlySwept == status = "failed" => active # Absent /\ active.index \in swept

\* With snapshot files that are written whole and one encoding, a startup is
\* refused only where the sweep of another thread removed the active file:
\* a crash at any step of a publication is repaired.
THEOREM RestartsWhole ==
  ASSUME ~CrashMidWrite, Formats = {Current}
  PROVE  Spec => []OnlySwept
<1>1. Init => TornBelongs
  BY AbsentAssumption DEF Init, TornBelongs
<1>2. IInv /\ Prompt /\ TornBelongs /\ [Next]_vars => TornBelongs'
  BY TornNext
<1>3. ASSUME IInv, RefusalsExplained, TornBelongs PROVE OnlySwept
  <2> SUFFICES ASSUME status = "failed" PROVE active # Absent /\ active.index \in swept
    BY DEF OnlySwept
  <2>1. \A s : ~Older(s)
    BY DEF Older, Snapshot
  <2>2. \A t \in Threads : ~At(t, "write")
    BY <1>3 DEF IInv, Placed, At, Open, Threads
  <2>3. manifest # Absent => manifest.index \in Indexes
    BY <1>3, SnapshotFields DEF IInv, TypeOK
  <2> QED BY <1>3, <2>1, <2>2, <2>3 DEF RefusalsExplained, TornBelongs
<1> QED BY <1>1, <1>2, <1>3, Invariance, PromptAlways, RefusalsCorrect, PTL DEF Spec
=============================================================================
