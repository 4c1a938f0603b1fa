------------------------ MODULE AttachOutputProofs ------------------------
(***************************************************************************)
(* Proofs about AttachOutput.  Two things are carried along every call:    *)
(*                                                                         *)
(*   the place: a screen never shows more than the cursor has passed, and  *)
(*   the offset that the client expects next is never beyond its screen.   *)
(*   A chunk that starts where it is expected then starts where the        *)
(*   screen ends (Contiguous);                                             *)
(*                                                                         *)
(*   the wake-up: whatever is unread and was not missed has an event in    *)
(*   the queue, a writer that is about to announce it, a fetch that is     *)
(*   still to come or a call under way that will pass over it, and a set   *)
(*   flag likewise (NothingUnread).  The second half is needed because a   *)
(*   writer that finds the flag set stays silent.                          *)
(***************************************************************************)
EXTENDS AttachOutput, TLAPS

Hydrating == {"snapshot", "unflag", "capture", "acknowledge"}
Looping == {"idle", "clear", "read", "answer", "apply", "delta"}

-----------------------------------------------------------------------------
(* The place. *)

EndsInv == \A p \in Panes : end[p] <= written

CursorInv ==
  pc # "detached" => \A p \in Panes : cursor[p] \in Offset /\ cursor[p] <= end[p]

ViewInv ==
  \A p \in Panes :
    \/ expected[p] = Absent /\ shown[p] = Absent
    \/ /\ pc # "detached"
       /\ expected[p] \in Offset
       /\ shown[p] \in Offset
       /\ expected[p] <= shown[p]
       /\ shown[p] <= cursor[p]

\* Only the first hydration meets panes without a view.
PresentInv ==
  \/ pc \in Looping
  \/ pc \in Hydrating /\ ~(mode = "resync" /\ target = Panes)
  => \A p \in Panes : expected[p] # Absent

SnapshotInv ==
  pc \in {"unflag", "capture"} /\ mode # "grid" => \A p \in target : base[p] <= cursor[p]

CaptureInv ==
  pc = "acknowledge" =>
    \A p \in target : captured[p] <= end[p] /\ (mode # "grid" => base[p] <= captured[p])

ChunkInv ==
  pc \in {"answer", "apply"} =>
    \A p \in Panes : /\ chunk[p].from <= chunk[p].to
                     /\ chunk[p].to = cursor[p]
                     /\ ~chunk[p].gap => shown[p] <= chunk[p].from

PlaceInv ==
  /\ TypeOK
  /\ EndsInv
  /\ CursorInv
  /\ ViewInv
  /\ PresentInv
  /\ SnapshotInv
  /\ CaptureInv
  /\ ChunkInv

-----------------------------------------------------------------------------
(* The wake-up. *)

Busy(p) == \E w \in Writers : writing[p][w] # "idle"
Flagged(p) == \E w \in Writers : writing[p][w] = "flagged"

\* A round will begin whatever else happens: a hydration of all panes ends
\* what is pending.
FetchAhead ==
  \/ pc = "clear"
  \/ pending /\ (pc = "idle" \/ (pc \in Hydrating /\ mode = "reveal"))

Woken(p) == p \in events \/ Busy(p) \/ FetchAhead

FlagInv ==
  Subscribed => \A p \in Panes \ missed : dirty[p] =>
    \/ p \in events
    \/ Flagged(p)
    \/ FetchAhead
    \/ p \in target /\ pc \in {"snapshot", "unflag"}

UnreadInv ==
  Subscribed /\ failures = 0 => \A p \in Panes \ (cut \cup missed) : cursor[p] < end[p] =>
    \/ Woken(p)
    \/ pc \in {"read", "answer", "apply"}
    \/ p \in target /\ pc \in Hydrating

UncapturedInv ==
  pc = "acknowledge" /\ failures = 0 =>
    \A p \in target \ (cut \cup missed) : captured[p] < end[p] => Woken(p)

UnreportedInv ==
  pc \in {"answer", "apply"} /\ failures = 0 => \A p \in Panes \ (cut \cup missed) :
    ~HasNews(p) /\ cursor[p] < end[p] => p \in events \/ Busy(p)

WakeInv ==
  /\ FlagInv
  /\ UnreadInv
  /\ UncapturedInv
  /\ UnreportedInv

-----------------------------------------------------------------------------
(* The place is kept, one lemma per action. *)

LEMMA PlaceInit == Init => PlaceInv
<1> SUFFICES ASSUME Init PROVE PlaceInv
  OBVIOUS
<1> USE SizeAssumption, MarkAssumption DEF Init, Zeros
<1>1. TypeOK
  <2>1. NoChunks \in [Panes -> Chunk] /\ 0 \in Offset
    BY DEF NoChunks, NoChunk, Chunk, Offset
  <2>2. written \in Offset /\ refreshes \in 0 .. MaxRefresh /\ failures \in 0 .. MaxFailures
    BY DEF Offset
  <2>3. \A p \in Panes : start[p] <= end[p] /\ end[p] - start[p] <= MaxBytes
    OBVIOUS
  <2>4. QED
    BY <2>1, <2>2, <2>3 DEF TypeOK, Steps, Writers
<1>2. EndsInv /\ CursorInv /\ ViewInv
  BY DEF EndsInv, CursorInv, ViewInv
<1>3. PresentInv /\ SnapshotInv /\ CaptureInv /\ ChunkInv
  BY DEF PresentInv, SnapshotInv, CaptureInv, ChunkInv, Looping, Hydrating
<1>4. QED
  BY <1>1, <1>2, <1>3 DEF PlaceInv

LEMMA PlaceAppend ==
  ASSUME PlaceInv, NEW p \in Panes, NEW w \in Writers,
         NEW n \in 1 .. ChunkBytes, NEW kept \in 0 .. MaxOutput, Append(p, w, n, kept)
  PROVE  PlaceInv'
<1> USE SizeAssumption, MarkAssumption DEF PlaceInv, Append, Keeps, serverVars, replyVars,
        viewVars, boundVars, historyVars
<1>1. TypeOK'
  BY DEF TypeOK, Offset, Chunk, Steps, Writers, EndsInv
<1>2. EndsInv'
  BY DEF EndsInv, TypeOK, Offset
<1>3. CursorInv'
  BY DEF CursorInv, TypeOK, Offset
<1>4. CaptureInv'
  BY DEF CaptureInv, SnapshotInv, CursorInv, TypeOK, Offset
<1>5. ViewInv' /\ PresentInv' /\ SnapshotInv' /\ ChunkInv'
  BY DEF TypeOK, Offset, Chunk, ViewInv, PresentInv, SnapshotInv, ChunkInv, Looping,
         Hydrating
<1>6. QED
  BY <1>1, <1>2, <1>3, <1>4, <1>5

LEMMA PlaceFlag ==
  ASSUME PlaceInv, NEW p \in Panes, NEW w \in Writers, Flag(p, w)
  PROVE  PlaceInv'
<1> USE SizeAssumption, MarkAssumption DEF PlaceInv, Flag, Announces, serverVars,
        replyVars, viewVars, boundVars, historyVars
<1>1. TypeOK'
  BY DEF TypeOK, Offset, Chunk, Steps, Writers
<1>2. EndsInv' /\ CursorInv' /\ ViewInv' /\ PresentInv' /\ SnapshotInv' /\ CaptureInv'
      /\ ChunkInv'
  BY DEF TypeOK, Offset, Chunk, EndsInv, CursorInv, ViewInv, PresentInv, SnapshotInv,
         CaptureInv, ChunkInv, Looping, Hydrating
<1>3. QED
  BY <1>1, <1>2

LEMMA PlacePublish ==
  ASSUME PlaceInv, NEW p \in Panes, NEW w \in Writers, Publish(p, w)
  PROVE  PlaceInv'
<1> USE SizeAssumption, MarkAssumption DEF PlaceInv, Publish, Subscribed, serverVars,
        replyVars, viewVars, boundVars, historyVars
<1>1. TypeOK'
  BY DEF TypeOK, Offset, Chunk, Steps, Writers
<1>2. EndsInv' /\ CursorInv' /\ ViewInv' /\ PresentInv' /\ SnapshotInv' /\ CaptureInv'
      /\ ChunkInv'
  BY DEF TypeOK, Offset, Chunk, EndsInv, CursorInv, ViewInv, PresentInv, SnapshotInv,
         CaptureInv, ChunkInv, Looping, Hydrating
<1>3. QED
  BY <1>1, <1>2

LEMMA PlacePublishLost ==
  ASSUME PlaceInv, NEW p \in Panes, NEW w \in Writers, PublishLost(p, w)
  PROVE  PlaceInv'
<1> USE SizeAssumption, MarkAssumption DEF PlaceInv, PublishLost, Subscribed, serverVars,
        replyVars, viewVars, boundVars, historyVars
<1>1. TypeOK'
  BY DEF TypeOK, Offset, Chunk, Steps, Writers
<1>2. EndsInv' /\ CursorInv' /\ ViewInv' /\ PresentInv' /\ SnapshotInv' /\ CaptureInv'
      /\ ChunkInv'
  BY DEF TypeOK, Offset, Chunk, EndsInv, CursorInv, ViewInv, PresentInv, SnapshotInv,
         CaptureInv, ChunkInv, Looping, Hydrating
<1>3. QED
  BY <1>1, <1>2

LEMMA PlaceLag ==
  ASSUME PlaceInv, Lag
  PROVE  PlaceInv'
<1> USE SizeAssumption, MarkAssumption DEF PlaceInv, Lag, serverVars,
        replyVars, viewVars, boundVars, historyVars
<1>1. TypeOK'
  BY DEF TypeOK, Offset, Chunk, Steps, Writers
<1>2. EndsInv' /\ CursorInv' /\ ViewInv' /\ PresentInv' /\ SnapshotInv' /\ CaptureInv'
      /\ ChunkInv'
  BY DEF TypeOK, Offset, Chunk, EndsInv, CursorInv, ViewInv, PresentInv, SnapshotInv,
         CaptureInv, ChunkInv, Looping, Hydrating
<1>3. QED
  BY <1>1, <1>2

LEMMA PlaceOtherFetch ==
  ASSUME PlaceInv, NEW p \in Panes, OtherFetch(p)
  PROVE  PlaceInv'
<1> USE SizeAssumption, MarkAssumption DEF PlaceInv, OtherFetch, serverVars, replyVars,
        viewVars, boundVars, historyVars
<1>1. TypeOK'
  BY DEF TypeOK, Offset, Chunk, Steps, Writers
<1>2. EndsInv' /\ CursorInv' /\ ViewInv' /\ PresentInv' /\ SnapshotInv' /\ CaptureInv'
      /\ ChunkInv'
  BY DEF TypeOK, Offset, Chunk, EndsInv, CursorInv, ViewInv, PresentInv, SnapshotInv,
         CaptureInv, ChunkInv, Looping, Hydrating
<1>3. QED
  BY <1>1, <1>2

LEMMA PlaceAttach ==
  ASSUME PlaceInv, Attach
  PROVE  PlaceInv'
<1> USE SizeAssumption, MarkAssumption DEF PlaceInv, Attach, serverVars, replyVars,
        viewVars, boundVars, historyVars
<1>1. TypeOK'
  BY DEF TypeOK, Offset, Chunk, Steps, Writers
<1>2. CursorInv'
  BY DEF CursorInv, TypeOK, Offset
<1>3. ViewInv'
  BY DEF ViewInv, CursorInv, TypeOK, Offset
<1>4. EndsInv' /\ PresentInv' /\ SnapshotInv' /\ CaptureInv' /\ ChunkInv'
  BY DEF TypeOK, Offset, Chunk, EndsInv, PresentInv, SnapshotInv, CaptureInv, ChunkInv,
         Looping, Hydrating
<1>5. QED
  BY <1>1, <1>2, <1>3, <1>4

LEMMA PlaceSubscribe ==
  ASSUME PlaceInv, Subscribe
  PROVE  PlaceInv'
<1> USE SizeAssumption, MarkAssumption DEF PlaceInv, Subscribe, Hydrate, serverVars,
        replyVars, viewVars, boundVars, historyVars
<1>1. TypeOK'
  BY DEF TypeOK, Offset, Chunk, Steps, Writers
<1>2. PresentInv'
  BY DEF PresentInv, Looping, Hydrating, TypeOK, Offset
<1>3. EndsInv' /\ CursorInv' /\ ViewInv' /\ SnapshotInv' /\ CaptureInv' /\ ChunkInv'
  BY DEF TypeOK, Offset, Chunk, EndsInv, CursorInv, ViewInv, SnapshotInv, CaptureInv,
         ChunkInv
<1>4. QED
  BY <1>1, <1>2, <1>3

LEMMA PlaceSnapshotRead ==
  ASSUME PlaceInv, SnapshotRead
  PROVE  PlaceInv'
<1> USE SizeAssumption, MarkAssumption DEF PlaceInv, SnapshotRead, serverVars, replyVars,
        viewVars, boundVars, historyVars
<1>1. TypeOK'
  BY DEF TypeOK, Offset, Chunk, Steps, Writers
<1>2. CursorInv'
  BY DEF CursorInv, TypeOK, Offset
<1>3. ViewInv'
  BY DEF ViewInv, CursorInv, TypeOK, Offset
<1>4. SnapshotInv'
  BY DEF SnapshotInv, CursorInv, TypeOK, Offset
<1>5. EndsInv' /\ PresentInv' /\ CaptureInv' /\ ChunkInv'
  BY DEF TypeOK, Offset, Chunk, EndsInv, PresentInv, CaptureInv, ChunkInv, Looping,
         Hydrating
<1>6. QED
  BY <1>1, <1>2, <1>3, <1>4, <1>5

LEMMA PlaceSnapshotUnflag ==
  ASSUME PlaceInv, SnapshotUnflag
  PROVE  PlaceInv'
<1> USE SizeAssumption, MarkAssumption DEF PlaceInv, SnapshotUnflag, serverVars, replyVars,
        viewVars, boundVars, historyVars
<1>1. TypeOK'
  BY DEF TypeOK, Offset, Chunk, Steps, Writers
<1>2. PresentInv'
  BY DEF PresentInv, Looping, Hydrating, TypeOK, Offset
<1>3. EndsInv' /\ CursorInv' /\ ViewInv' /\ SnapshotInv' /\ CaptureInv' /\ ChunkInv'
  BY DEF TypeOK, Offset, Chunk, EndsInv, CursorInv, ViewInv, SnapshotInv, CaptureInv,
         ChunkInv
<1>4. QED
  BY <1>1, <1>2, <1>3

LEMMA PlaceSnapshotFails ==
  ASSUME PlaceInv, SnapshotFails
  PROVE  PlaceInv'
<1> USE SizeAssumption, MarkAssumption DEF PlaceInv, SnapshotFails, Hydrate, serverVars,
        replyVars, viewVars, boundVars, historyVars
<1>1. TypeOK'
  BY DEF TypeOK, Offset, Chunk, Steps, Writers
<1>2. PresentInv'
  BY DEF PresentInv, Looping, Hydrating, TypeOK, Offset
<1>3. EndsInv' /\ CursorInv' /\ ViewInv' /\ SnapshotInv' /\ CaptureInv' /\ ChunkInv'
  BY DEF TypeOK, Offset, Chunk, EndsInv, CursorInv, ViewInv, SnapshotInv, CaptureInv,
         ChunkInv
<1>4. QED
  BY <1>1, <1>2, <1>3

LEMMA PlaceCapture ==
  ASSUME PlaceInv, Capture
  PROVE  PlaceInv'
<1> USE SizeAssumption, MarkAssumption DEF PlaceInv, Capture, serverVars, replyVars,
        viewVars, boundVars, historyVars
<1>1. TypeOK'
  BY DEF TypeOK, Offset, Chunk, Steps, Writers
<1>2. CaptureInv'
  BY DEF CaptureInv, SnapshotInv, CursorInv, TypeOK, Offset
<1>3. EndsInv' /\ CursorInv' /\ ViewInv' /\ PresentInv' /\ SnapshotInv' /\ ChunkInv'
  BY DEF TypeOK, Offset, Chunk, EndsInv, CursorInv, ViewInv, PresentInv, SnapshotInv,
         ChunkInv, Looping, Hydrating
<1>4. QED
  BY <1>1, <1>2, <1>3

LEMMA PlaceCaptureFails ==
  ASSUME PlaceInv, CaptureFails
  PROVE  PlaceInv'
<1> USE SizeAssumption, MarkAssumption DEF PlaceInv, CaptureFails, Hydrated, Zeros,
        serverVars, replyVars, viewVars, boundVars, historyVars
<1>1. TypeOK'
  BY DEF TypeOK, Offset, Chunk, Steps, Writers
<1>2. ViewInv'
  BY DEF ViewInv, CursorInv, TypeOK, Offset, SnapshotInv
<1>3. PresentInv'
  BY DEF PresentInv, Looping, Hydrating, TypeOK, Offset
<1>4. EndsInv' /\ CursorInv' /\ SnapshotInv' /\ CaptureInv' /\ ChunkInv'
  BY DEF TypeOK, Offset, Chunk, EndsInv, CursorInv, SnapshotInv, CaptureInv, ChunkInv
<1>5. QED
  BY <1>1, <1>2, <1>3, <1>4

LEMMA PlaceAcknowledge ==
  ASSUME PlaceInv, Acknowledge
  PROVE  PlaceInv'
<1> USE SizeAssumption, MarkAssumption DEF PlaceInv, Acknowledge, Acknowledged, Hydrated,
        Zeros, serverVars, replyVars, viewVars, boundVars, historyVars
<1>1. TypeOK'
  BY DEF TypeOK, Offset, Chunk, Steps, Writers, CursorInv, SnapshotInv
<1>2. CursorInv'
  BY DEF CursorInv, TypeOK, Offset
<1>3. ViewInv'
  BY DEF ViewInv, CursorInv, TypeOK, Offset, CaptureInv
<1>4. PresentInv'
  BY DEF PresentInv, Looping, Hydrating, TypeOK, Offset
<1>5. EndsInv' /\ SnapshotInv' /\ CaptureInv' /\ ChunkInv'
  BY DEF TypeOK, Offset, Chunk, EndsInv, SnapshotInv, CaptureInv, ChunkInv
<1>6. QED
  BY <1>1, <1>2, <1>3, <1>4, <1>5

LEMMA PlaceHandleEvents ==
  ASSUME PlaceInv, HandleEvents
  PROVE  PlaceInv'
<1> USE SizeAssumption, MarkAssumption DEF PlaceInv, HandleEvents, serverVars, replyVars,
        viewVars, boundVars, historyVars
<1>1. TypeOK'
  BY DEF TypeOK, Offset, Chunk, Steps, Writers
<1>2. EndsInv' /\ CursorInv' /\ ViewInv' /\ PresentInv' /\ SnapshotInv' /\ CaptureInv'
      /\ ChunkInv'
  BY DEF TypeOK, Offset, Chunk, EndsInv, CursorInv, ViewInv, PresentInv, SnapshotInv,
         CaptureInv, ChunkInv, Looping, Hydrating
<1>3. QED
  BY <1>1, <1>2

LEMMA PlaceRefresh ==
  ASSUME PlaceInv, NEW m \in {"reveal", "incremental", "resync"},
         NEW S \in SUBSET Panes, Refresh(m, S)
  PROVE  PlaceInv'
<1> USE SizeAssumption, MarkAssumption DEF PlaceInv, Refresh, Hydrate, serverVars,
        replyVars, viewVars, boundVars, historyVars
<1>1. TypeOK'
  BY DEF TypeOK, Offset, Chunk, Steps, Writers
<1>2. PresentInv'
  BY DEF PresentInv, Looping, Hydrating, TypeOK, Offset
<1>3. EndsInv' /\ CursorInv' /\ ViewInv' /\ SnapshotInv' /\ CaptureInv' /\ ChunkInv'
  BY DEF TypeOK, Offset, Chunk, EndsInv, CursorInv, ViewInv, SnapshotInv, CaptureInv,
         ChunkInv
<1>4. QED
  BY <1>1, <1>2, <1>3

LEMMA PlaceDrain ==
  ASSUME PlaceInv, Drain
  PROVE  PlaceInv'
<1> USE SizeAssumption, MarkAssumption DEF PlaceInv, Drain, serverVars, replyVars,
        viewVars, boundVars, historyVars
<1>1. TypeOK'
  BY DEF TypeOK, Offset, Chunk, Steps, Writers
<1>2. PresentInv'
  BY DEF PresentInv, Looping, Hydrating, TypeOK, Offset
<1>3. EndsInv' /\ CursorInv' /\ ViewInv' /\ SnapshotInv' /\ CaptureInv' /\ ChunkInv'
  BY DEF TypeOK, Offset, Chunk, EndsInv, CursorInv, ViewInv, SnapshotInv, CaptureInv,
         ChunkInv
<1>4. QED
  BY <1>1, <1>2, <1>3

LEMMA PlaceClear ==
  ASSUME PlaceInv, Clear
  PROVE  PlaceInv'
<1> USE SizeAssumption, MarkAssumption DEF PlaceInv, Clear, serverVars, replyVars,
        viewVars, boundVars, historyVars
<1>1. TypeOK'
  BY DEF TypeOK, Offset, Chunk, Steps, Writers
<1>2. PresentInv'
  BY DEF PresentInv, Looping, Hydrating, TypeOK, Offset
<1>3. EndsInv' /\ CursorInv' /\ ViewInv' /\ SnapshotInv' /\ CaptureInv' /\ ChunkInv'
  BY DEF TypeOK, Offset, Chunk, EndsInv, CursorInv, ViewInv, SnapshotInv, CaptureInv,
         ChunkInv
<1>4. QED
  BY <1>1, <1>2, <1>3

LEMMA PlaceRead ==
  ASSUME PlaceInv, NEW resume \in [Panes -> 0 .. MaxOutput], Read(resume)
  PROVE  PlaceInv'
<1> USE SizeAssumption, MarkAssumption DEF PlaceInv, Read, ReadFrom, Behind, serverVars,
        replyVars, viewVars, boundVars, historyVars
<1>1. TypeOK'
  BY DEF TypeOK, Offset, Chunk, Steps, Writers, CursorInv
<1>2. CursorInv'
  BY DEF CursorInv, TypeOK, Offset
<1>3. ViewInv'
  BY DEF ViewInv, CursorInv, TypeOK, Offset
<1>4. PresentInv'
  BY DEF PresentInv, Looping, Hydrating, TypeOK, Offset
<1>5. ChunkInv'
  BY DEF ChunkInv, TypeOK, Chunk, Offset, CursorInv, ViewInv, PresentInv, Looping
<1>6. EndsInv' /\ SnapshotInv' /\ CaptureInv'
  BY DEF TypeOK, Offset, Chunk, EndsInv, SnapshotInv, CaptureInv
<1>7. QED
  BY <1>1, <1>2, <1>3, <1>4, <1>5, <1>6

LEMMA PlaceAnswer ==
  ASSUME PlaceInv, Answer
  PROVE  PlaceInv'
<1> USE SizeAssumption, MarkAssumption DEF PlaceInv, Answer, serverVars, replyVars,
        viewVars, boundVars, historyVars
<1>1. TypeOK'
  BY DEF TypeOK, Offset, Chunk, Steps, Writers
<1>2. PresentInv'
  BY DEF PresentInv, Looping, Hydrating, TypeOK, Offset
<1>3. ChunkInv'
  BY DEF ChunkInv, TypeOK, Chunk, Offset
<1>4. EndsInv' /\ CursorInv' /\ ViewInv' /\ SnapshotInv' /\ CaptureInv'
  BY DEF TypeOK, Offset, Chunk, EndsInv, CursorInv, ViewInv, SnapshotInv, CaptureInv
<1>5. QED
  BY <1>1, <1>2, <1>3, <1>4

LEMMA PlaceDelta ==
  ASSUME PlaceInv, NEW S \in SUBSET Panes, Delta(S)
  PROVE  PlaceInv'
<1> USE SizeAssumption, MarkAssumption DEF PlaceInv, Delta, serverVars, replyVars,
        viewVars, boundVars, historyVars
<1>1. TypeOK'
  BY DEF TypeOK, Offset, Chunk, Steps, Writers
<1>2. PresentInv'
  BY DEF PresentInv, Looping, Hydrating, TypeOK, Offset
<1>3. EndsInv' /\ CursorInv' /\ ViewInv' /\ SnapshotInv' /\ CaptureInv' /\ ChunkInv'
  BY DEF TypeOK, Offset, Chunk, EndsInv, CursorInv, ViewInv, SnapshotInv, CaptureInv,
         ChunkInv
<1>4. QED
  BY <1>1, <1>2, <1>3

LEMMA PlaceDeltaFails ==
  ASSUME PlaceInv, DeltaFails
  PROVE  PlaceInv'
<1> USE SizeAssumption, MarkAssumption DEF PlaceInv, DeltaFails, serverVars, replyVars,
        viewVars, boundVars, historyVars
<1>1. TypeOK'
  BY DEF TypeOK, Offset, Chunk, Steps, Writers
<1>2. PresentInv'
  BY DEF PresentInv, Looping, Hydrating, TypeOK, Offset
<1>3. EndsInv' /\ CursorInv' /\ ViewInv' /\ SnapshotInv' /\ CaptureInv' /\ ChunkInv'
  BY DEF TypeOK, Offset, Chunk, EndsInv, CursorInv, ViewInv, SnapshotInv, CaptureInv,
         ChunkInv
<1>4. QED
  BY <1>1, <1>2, <1>3

\* A chunk that is applied starts where it is expected, so where the screen
\* ends.
LEMMA AppliedFollows ==
  ASSUME PlaceInv, pc = "apply", NEW p \in Panes, ~Desynced(p), ~Stale(p)
  PROVE  HasBytes(p) /\ shown[p] = chunk[p].from
<1>1. expected[p] \in Offset /\ shown[p] \in Offset /\ expected[p] <= shown[p]
  BY DEF PlaceInv, ViewInv, PresentInv, Looping
<1>2. chunk[p].from \in Offset /\ chunk[p].to \in Offset
  BY DEF PlaceInv, TypeOK, Chunk
<1>3. ~chunk[p].gap /\ shown[p] <= chunk[p].from
  BY DEF Desynced, PlaceInv, ChunkInv
<1>4. chunk[p].to > expected[p] /\ chunk[p].from = expected[p]
  BY <1>1, <1>2, <1>3, MarkAssumption DEF Desynced, Stale, Offset
<1>5. QED
  BY <1>1, <1>2, <1>3, <1>4 DEF HasBytes, Offset

LEMMA ReachedInStep ==
  ASSUME NEW p \in Panes, Reached(p)
  PROVE  ~Desynced(p)
BY SizeAssumption DEF Reached, Panes

\* What the client's view is after a reply has been worked through.
LEMMA AppliedView ==
  ASSUME PlaceInv, pc = "apply", ApplyChunks, NEW p \in Panes
  PROVE  /\ expected'[p] \in Offset
         /\ shown'[p] \in Offset
         /\ expected'[p] <= shown'[p]
         /\ shown'[p] <= cursor[p]
<1>1. /\ expected[p] \in Offset /\ shown[p] \in Offset
      /\ expected[p] <= shown[p] /\ shown[p] <= cursor[p]
  BY DEF PlaceInv, ViewInv, PresentInv, Looping
<1>2. chunk[p].from \in Offset /\ chunk[p].to \in Offset /\ chunk[p].to = cursor[p]
  BY DEF PlaceInv, TypeOK, Chunk, ChunkInv
<1>3. CASE ~Applied(p)
  BY <1>1, <1>3 DEF ApplyChunks
<1>4. CASE Applied(p)
  <2>1. HasBytes(p) /\ shown[p] = chunk[p].from
    BY <1>4, AppliedFollows, ReachedInStep DEF Applied
  <2>2. QED
    BY <1>2, <1>4, <2>1 DEF ApplyChunks, Offset
<1>5. QED
  BY <1>3, <1>4

LEMMA AppliedShape ==
  ASSUME PlaceInv, pc = "apply", ApplyChunks
  PROVE  /\ NoChunks \in [Panes -> Chunk]
         /\ expected' \in [Panes -> Offset \cup {Absent}]
         /\ shown' \in [Panes -> Offset \cup {Absent, Torn}]
<1>1. NoChunks \in [Panes -> Chunk]
  BY SizeAssumption DEF NoChunks, NoChunk, Chunk, Offset
<1>2. QED
  BY <1>1, AppliedView DEF ApplyChunks

\* Whatever follows a reply, the place is kept if it leaves the server alone.
LEMMA PlaceApplied ==
  ASSUME PlaceInv, pc = "apply", ApplyChunks, UNCHANGED <<serverVars, cursor, written>>,
         pc' \in {"idle", "clear", "delta", "snapshot"}
  PROVE  /\ EndsInv' /\ CursorInv' /\ ViewInv' /\ PresentInv'
         /\ SnapshotInv' /\ CaptureInv' /\ ChunkInv'
<1>1. ViewInv'
  BY AppliedView DEF ViewInv
<1>2. PresentInv'
  BY AppliedView, MarkAssumption DEF PresentInv, Offset
<1>3. QED
  BY <1>1, <1>2 DEF PlaceInv, EndsInv, CursorInv, SnapshotInv, CaptureInv, ChunkInv, serverVars

LEMMA PlaceRecover ==
  ASSUME PlaceInv, NEW p \in Panes, Recover(p)
  PROVE  PlaceInv'
<1> USE DEF Recover, Hydrate, boundVars, serverVars
<1>1. TypeOK'
  BY AppliedShape DEF PlaceInv, TypeOK, Steps, HadData
<1>2. QED
  BY <1>1, PlaceApplied DEF PlaceInv

LEMMA PlaceNextRound ==
  ASSUME PlaceInv, NextRound
  PROVE  PlaceInv'
<1> USE DEF NextRound, InStep, historyVars, boundVars, serverVars
<1>1. TypeOK'
  BY AppliedShape DEF PlaceInv, TypeOK, Steps, HadData
<1>2. QED
  BY <1>1, PlaceApplied DEF PlaceInv

LEMMA PlaceEndDrain ==
  ASSUME PlaceInv, EndDrain
  PROVE  PlaceInv'
<1> USE DEF EndDrain, InStep, historyVars, boundVars, serverVars
<1>1. TypeOK'
  BY AppliedShape DEF PlaceInv, TypeOK, Steps, HadData
<1>2. QED
  BY <1>1, PlaceApplied DEF PlaceInv

LEMMA PlaceStutter ==
  ASSUME PlaceInv, UNCHANGED vars
  PROVE  PlaceInv'
BY DEF PlaceInv, vars, serverVars, replyVars, viewVars, historyVars, boundVars, TypeOK, EndsInv,
       CursorInv, ViewInv, PresentInv, SnapshotInv, CaptureInv, ChunkInv

LEMMA PlaceStep ==
  ASSUME PlaceInv, [Next]_vars
  PROVE  PlaceInv'
<1>1. CASE Output
  BY <1>1, PlaceAppend, PlaceFlag, PlacePublish, PlacePublishLost DEF Output, Announce
<1>2. CASE Client
  BY <1>2, PlaceAttach, PlaceSubscribe, PlaceSnapshotRead, PlaceSnapshotUnflag, PlaceCapture,
     PlaceAcknowledge, PlaceHandleEvents, PlaceDrain, PlaceClear, PlaceRead, PlaceAnswer, PlaceRecover,
     PlaceNextRound, PlaceEndDrain, PlaceDelta
     DEF Client
<1>3. CASE Environment
  BY <1>3, PlaceLag, PlaceOtherFetch, PlaceRefresh, PlaceSnapshotFails, PlaceCaptureFails,
     PlaceDeltaFails
     DEF Environment
<1>4. QED
  BY <1>1, <1>2, <1>3, PlaceStutter DEF Next

LEMMA PlaceAlways == Spec => []PlaceInv
BY PlaceInit, PlaceStep, PTL DEF Spec

\* Buffers stay within their limits, cursors and offsets within the streams.
THEOREM AttachTypeCorrect == Spec => []TypeOK
BY PlaceAlways, PTL DEF PlaceInv

\* No screen ever skips or repeats a byte, whatever is evicted or captured
\* again between the calls of a hydration.
THEOREM ContiguousCorrect == Spec => []Contiguous
<1>1. PlaceInv => Contiguous
  BY MarkAssumption DEF PlaceInv, ViewInv, Contiguous, Offset
<1>2. QED
  BY <1>1, PlaceAlways, PTL

-----------------------------------------------------------------------------
(* Nothing goes back.  The client reads nothing between the calls of a      *)
(* hydration, so the offsets it is about to take are not behind its own.    *)

HydrateInv ==
  /\ pc \in {"unflag", "capture", "acknowledge"} /\ mode # "grid" =>
       \A p \in target : base[p] = cursor[p]
  /\ pc = "acknowledge" => \A p \in target : cursor[p] <= captured[p]

\* Before it attaches a client has no place.
DetachedInv == pc = "detached" => \A p \in Panes : cursor[p] = Absent

LEMMA DetachedStep ==
  ASSUME DetachedInv, [Next]_vars
  PROVE  DetachedInv'
<1> USE DEF serverVars, replyVars, viewVars, boundVars, historyVars
<1>1. CASE UNCHANGED <<pc, cursor>>
  BY <1>1 DEF DetachedInv
<1>2. CASE pc' # "detached"
  BY <1>2 DEF DetachedInv
<1>3. CASE Output \/ UNCHANGED vars
  BY <1>1, <1>3 DEF Output, Append, Announce, Flag, Publish, PublishLost, vars
<1>4. CASE Client
  BY <1>1, <1>2, <1>4
     DEF Client, Attach, Subscribe, Hydrate, SnapshotRead, SnapshotUnflag, Capture, Acknowledge,
         Hydrated, HandleEvents, Drain, Clear, Read, Answer, Recover, NextRound, EndDrain, Delta
<1>5. CASE Environment
  BY <1>1, <1>2, <1>5
     DEF Environment, Lag, OtherFetch, Refresh, Hydrate, SnapshotFails, CaptureFails, Hydrated,
         DeltaFails
<1> QED BY <1>3, <1>4, <1>5 DEF Next

\* The action formula of NeverBack.
AdvanceStep ==
  \A p \in Panes : Advances(cursor[p], cursor'[p]) /\ Advances(shown[p], shown'[p])

LEMMA HydrateKept ==
  ASSUME PlaceInv, HydrateInv,
         UNCHANGED <<cursor, base, captured, mode, target>>,
         UNCHANGED pc \/ pc' \notin {"unflag", "capture", "acknowledge"}
  PROVE  HydrateInv'
BY DEF HydrateInv

LEMMA HydrateStep ==
  ASSUME PlaceInv, HydrateInv, [Next]_vars
  PROVE  HydrateInv'
<1> USE DEF serverVars, replyVars, viewVars, boundVars, historyVars
<1>1. CASE Output \/ UNCHANGED vars
  BY <1>1, HydrateKept DEF Output, Append, Announce, Flag, Publish, PublishLost, vars
<1>2. CASE SnapshotRead
  BY <1>2 DEF SnapshotRead, HydrateInv, PlaceInv, TypeOK
<1>3. CASE SnapshotUnflag
  BY <1>3 DEF SnapshotUnflag, HydrateInv
<1>4. CASE Capture
  <2>1. \A p \in Panes : cursor[p] <= end[p]
    BY <1>4 DEF Capture, PlaceInv, CursorInv
  <2> QED BY <1>4, <2>1 DEF Capture, HydrateInv, PlaceInv, TypeOK
<1>5. ASSUME NEW S \in SUBSET Panes, Delta(S) PROVE HydrateInv'
  BY <1>5 DEF Delta, HydrateInv
<1>6. CASE pc' \notin {"unflag", "capture", "acknowledge"}
  BY <1>6 DEF HydrateInv
<1>7. CASE Client
  BY <1>2, <1>3, <1>4, <1>5, <1>6, <1>7
     DEF Client, Attach, Subscribe, Hydrate, Acknowledge, Hydrated, HandleEvents, Drain, Clear,
         Read, Answer, Recover, NextRound, EndDrain
<1>8. CASE Lag \/ \E p \in Panes : OtherFetch(p)
  BY <1>8, HydrateKept DEF OtherFetch, Lag
<1>9. CASE Environment
  BY <1>6, <1>8, <1>9
     DEF Environment, Refresh, Hydrate, SnapshotFails, CaptureFails, Hydrated, DeltaFails
<1> QED BY <1>1, <1>7, <1>9 DEF Next

LEMMA AdvancesKept ==
  ASSUME PlaceInv, NEW x
  PROVE  Advances(x, x)
BY SizeAssumption DEF Advances, Offset

\* A read ends at or after the place it is made for.
LEMMA ReadAdvances ==
  ASSUME PlaceInv, PlaceInv', NEW resume \in [Panes -> 0 .. MaxOutput], Read(resume)
  PROVE  AdvanceStep
<1>1. /\ pc = "read" /\ UNCHANGED shown
      /\ \A p \in Panes : resume[p] \in start[p] .. end[p]
      /\ cursor' = [p \in Panes |-> ReadFrom(p, resume[p]).to]
      /\ pc' # "detached"
  BY DEF Read, viewVars
<1>2. ASSUME NEW p \in Panes
      PROVE  Advances(cursor[p], cursor'[p])
  <2>1. /\ cursor[p] \in Offset /\ cursor[p] <= end[p]
        /\ start[p] \in Offset /\ end[p] \in Offset /\ resume[p] \in start[p] .. end[p]
        /\ cursor'[p] \in Offset
        /\ ReadBytes \in Nat
    BY <1>1, SizeAssumption DEF PlaceInv, CursorInv, TypeOK
  <2>2. cursor'[p] = ReadFrom(p, resume[p]).to
    BY <1>1
  <2>3. cursor[p] <= cursor'[p]
    BY <2>1, <2>2, SizeAssumption DEF ReadFrom, Behind, Offset
  <2> QED BY <2>1, <2>3, SizeAssumption DEF Advances, Offset
<1> QED BY <1>1, <1>2, AdvancesKept DEF AdvanceStep

\* The hydration's offsets are ahead of the client's.
LEMMA HydrationAdvances ==
  ASSUME PlaceInv, PlaceInv', HydrateInv, SnapshotRead \/ Acknowledge \/ CaptureFails
  PROVE  AdvanceStep
<1>1. /\ pc \in {"snapshot", "capture", "acknowledge"} /\ pc' # "detached"
      /\ UNCHANGED serverVars
  BY DEF SnapshotRead, Acknowledge, CaptureFails, Hydrated
<1>2. ASSUME NEW p \in Panes
      PROVE  Advances(cursor[p], cursor'[p]) /\ Advances(shown[p], shown'[p])
  <2>1. /\ cursor[p] \in Offset /\ cursor'[p] \in Offset /\ end[p] \in Offset
        /\ cursor[p] <= end[p] /\ end'[p] = end[p]
        /\ captured[p] \in Offset /\ base[p] \in Offset
        /\ shown[p] \in Offset => shown[p] <= cursor[p]
    BY <1>1, MarkAssumption DEF PlaceInv, CursorInv, ViewInv, TypeOK, serverVars, Offset
  <2>2. CASE SnapshotRead
    <3>1. UNCHANGED shown /\ cursor'[p] \in {cursor[p], end[p]}
      BY <2>2 DEF SnapshotRead, viewVars
    <3> QED BY <2>1, <3>1, AdvancesKept, SizeAssumption DEF Advances, Offset
  <2>3. CASE Acknowledge
    <3>1. CASE p \notin target
      BY <2>3, <3>1, AdvancesKept DEF Acknowledge
    <3>2. CASE p \in target
      <4>1. shown'[p] = captured[p] /\ cursor'[p] = Acknowledged(p)
        BY <2>3, <3>2 DEF Acknowledge
      <4>2. cursor[p] <= captured[p]
        BY <2>3, <3>2 DEF Acknowledge, HydrateInv
      <4> QED BY <2>1, <4>1, <4>2, SizeAssumption DEF Acknowledged, Advances, Offset
    <3> QED BY <3>1, <3>2
  <2>4. CASE CaptureFails
    <3>1. UNCHANGED cursor
      BY <2>4 DEF CaptureFails
    <3>2. CASE p \in target /\ mode \in {"resync", "recover", "reveal"}
      <4>1. shown'[p] = base[p] /\ base[p] = cursor[p]
        BY <2>4, <3>2 DEF CaptureFails, HydrateInv
      <4> QED BY <2>1, <3>1, <4>1, AdvancesKept, SizeAssumption DEF Advances, Offset
    <3>3. CASE ~(p \in target /\ mode \in {"resync", "recover", "reveal"})
      <4>1. shown'[p] = shown[p]
        BY <2>4, <3>3 DEF CaptureFails
      <4> QED BY <3>1, <4>1, AdvancesKept
    <3> QED BY <3>2, <3>3
  <2> QED BY <2>2, <2>3, <2>4
<1> QED BY <1>2 DEF AdvanceStep

\* A chunk that is applied extends the screen.
LEMMA ApplyAdvances ==
  ASSUME PlaceInv, pc = "apply", ApplyChunks, UNCHANGED cursor
  PROVE  AdvanceStep
<1>1. ASSUME NEW p \in Panes
      PROVE  Advances(shown[p], shown'[p])
  <2>1. chunk[p].from <= chunk[p].to /\ chunk[p] \in Chunk
    BY DEF PlaceInv, ChunkInv, TypeOK
  <2>2. CASE ~Applied(p) \/ ~HasBytes(p)
    BY <2>2, AdvancesKept DEF ApplyChunks
  <2>3. CASE Applied(p) /\ HasBytes(p)
    <3>1. shown[p] = chunk[p].from
      BY <2>3, AppliedFollows, ReachedInStep DEF Applied
    <3>2. shown'[p] = chunk[p].to
      BY <2>3, <3>1 DEF ApplyChunks
    <3> QED BY <2>1, <3>1, <3>2, SizeAssumption DEF Advances, Chunk, Offset
  <2> QED BY <2>2, <2>3
<1> QED BY <1>1, AdvancesKept DEF AdvanceStep

LEMMA AdvanceNext ==
  ASSUME PlaceInv, PlaceInv', HydrateInv, DetachedInv, Next
  PROVE  AdvanceStep
<1> USE DEF serverVars, replyVars, viewVars, boundVars, historyVars
<1>1. CASE UNCHANGED <<cursor, shown>>
  BY <1>1, AdvancesKept DEF AdvanceStep
<1>2. CASE Attach
  <2>1. \A p \in Panes : shown[p] = Absent /\ UNCHANGED shown
    BY <1>2 DEF Attach, PlaceInv, ViewInv
  <2>2. \A p \in Panes : cursor[p] \notin Offset
    BY <1>2, MarkAssumption DEF Attach, DetachedInv, Offset
  <2> QED BY <2>1, <2>2, AdvancesKept DEF AdvanceStep, Advances
<1>3. CASE Output
  BY <1>1, <1>3 DEF Output, Append, Announce, Flag, Publish, PublishLost
<1>4. CASE Client
  BY <1>1, <1>2, <1>4, ReadAdvances, HydrationAdvances, ApplyAdvances
     DEF Client, Subscribe, SnapshotUnflag, Capture, HandleEvents, Drain, Clear, Answer,
         Recover, NextRound, EndDrain, InStep, Delta
<1>5. CASE Environment
  BY <1>1, <1>5, HydrationAdvances
     DEF Environment, Lag, OtherFetch, Refresh, SnapshotFails, DeltaFails
<1> QED BY <1>3, <1>4, <1>5 DEF Next

\* For any eviction and any late or failed call of a hydration, neither the
\* screen of a pane nor the server's cursor for it ever goes back.
THEOREM NeverBackCorrect == Spec => NeverBack
<1>1. Init => HydrateInv /\ DetachedInv
  BY DEF Init, HydrateInv, DetachedInv
<1>2. PlaceInv /\ HydrateInv /\ DetachedInv /\ [Next]_vars => (HydrateInv /\ DetachedInv)'
  BY HydrateStep, DetachedStep
<1>3. PlaceInv /\ PlaceInv' /\ HydrateInv /\ DetachedInv /\ [Next]_vars => [AdvanceStep]_vars
  BY AdvanceNext
<1> QED BY <1>1, <1>2, <1>3, PlaceAlways, PTL DEF Spec, NeverBack, AdvanceStep

-----------------------------------------------------------------------------
(* The wake-up is kept, one lemma per action. *)

LEMMA WakeAppend ==
  ASSUME PlaceInv, WakeInv, NEW p \in Panes, NEW w \in Writers,
         NEW n \in 1 .. ChunkBytes, NEW kept \in 0 .. MaxOutput, Append(p, w, n, kept)
  PROVE  WakeInv'
<1> USE SizeAssumption, MarkAssumption DEF PlaceInv, WakeInv, TypeOK, Offset, Append,
        serverVars, replyVars, viewVars, boundVars, historyVars
<1>1. UnreadInv'
  BY DEF UnreadInv, Subscribed, Hydrating, Woken, Busy, FetchAhead, Writers
<1>2. UncapturedInv'
  BY DEF UncapturedInv, Woken, Busy, FetchAhead, Writers
<1>3. UnreportedInv'
  BY DEF UnreportedInv, HasNews, HasBytes, Busy, Writers
<1>4. FlagInv'
  BY DEF FlagInv, Subscribed, Flagged, FetchAhead, Writers
<1>5. QED
  BY <1>1, <1>2, <1>3, <1>4

LEMMA WakeFlag ==
  ASSUME PlaceInv, WakeInv, NEW p \in Panes, NEW w \in Writers, Flag(p, w)
  PROVE  WakeInv'
<1> USE SizeAssumption, MarkAssumption DEF PlaceInv, WakeInv, TypeOK, Offset, Flag,
        Announces, serverVars, replyVars, viewVars, boundVars, historyVars
<1>1. FlagInv'
  BY DEF FlagInv, Subscribed, Flagged, FetchAhead, Writers
<1>2. UnreadInv'
  BY DEF UnreadInv, Subscribed, Hydrating, Woken, Busy, FetchAhead, FlagInv, Flagged,
         Writers
<1>3. UncapturedInv'
  BY DEF UncapturedInv, Woken, Busy, FetchAhead, FlagInv, Flagged, Subscribed, Writers
<1>4. UnreportedInv'
  BY DEF UnreportedInv, HasNews, HasBytes, Busy, FlagInv, Flagged, Subscribed, FetchAhead,
         Hydrating, Writers
<1>5. QED
  BY <1>1, <1>2, <1>3, <1>4

LEMMA WakePublish ==
  ASSUME PlaceInv, WakeInv, NEW p \in Panes, NEW w \in Writers, Publish(p, w)
  PROVE  WakeInv'
<1> USE SizeAssumption, MarkAssumption DEF PlaceInv, WakeInv, TypeOK, Offset, Publish,
        Subscribed, serverVars, replyVars, viewVars, boundVars, historyVars
<1>1. FlagInv'
  BY DEF FlagInv, Subscribed, Flagged, FetchAhead, Writers
<1>2. UnreadInv'
  BY DEF UnreadInv, Subscribed, Hydrating, Woken, Busy, FetchAhead, Writers
<1>3. UncapturedInv'
  BY DEF UncapturedInv, Woken, Busy, FetchAhead, Writers
<1>4. UnreportedInv'
  BY DEF UnreportedInv, HasNews, HasBytes, Busy, Writers
<1>5. QED
  BY <1>1, <1>2, <1>3, <1>4

LEMMA WakePublishLost ==
  ASSUME PlaceInv, WakeInv, NEW p \in Panes, NEW w \in Writers, PublishLost(p, w)
  PROVE  WakeInv'
<1> USE SizeAssumption, MarkAssumption DEF PlaceInv, WakeInv, TypeOK, Offset, PublishLost,
        Subscribed, serverVars, replyVars, viewVars, boundVars, historyVars
<1>1. FlagInv'
  BY DEF FlagInv, Subscribed, Flagged, FetchAhead, Writers
<1>2. UnreadInv'
  BY DEF UnreadInv, Subscribed, Hydrating, Woken, Busy, FetchAhead, Writers
<1>3. UncapturedInv'
  BY DEF UncapturedInv, Woken, Busy, FetchAhead, Writers
<1>4. UnreportedInv'
  BY DEF UnreportedInv, HasNews, HasBytes, Busy, Writers
<1>5. QED
  BY <1>1, <1>2, <1>3, <1>4

LEMMA WakeLag ==
  ASSUME PlaceInv, WakeInv, Lag
  PROVE  WakeInv'
<1> USE SizeAssumption, MarkAssumption DEF PlaceInv, WakeInv, TypeOK, Offset, Lag,
        serverVars, replyVars, viewVars, boundVars, historyVars
<1>1. FlagInv'
  BY DEF FlagInv, Subscribed, Flagged, FetchAhead, Writers
<1>2. UnreadInv'
  BY DEF UnreadInv, Subscribed, Hydrating, Woken, Busy, FetchAhead, Writers
<1>3. UncapturedInv'
  BY DEF UncapturedInv, Woken, Busy, FetchAhead, Writers
<1>4. UnreportedInv'
  BY DEF UnreportedInv, HasNews, HasBytes, Busy, Writers
<1>5. QED
  BY <1>1, <1>2, <1>3, <1>4

LEMMA WakeOtherFetch ==
  ASSUME PlaceInv, WakeInv, NEW p \in Panes, OtherFetch(p)
  PROVE  WakeInv'
<1> USE SizeAssumption, MarkAssumption DEF PlaceInv, WakeInv, TypeOK, Offset, OtherFetch,
        serverVars, replyVars, viewVars, boundVars, historyVars
<1>1. FlagInv'
  BY DEF FlagInv, Subscribed, Flagged, FetchAhead, Hydrating
<1>2. UnreadInv' /\ UncapturedInv' /\ UnreportedInv'
  BY DEF UnreadInv, Subscribed, Hydrating, Woken, Busy, FetchAhead, UncapturedInv,
         UnreportedInv, HasNews, HasBytes
<1>3. QED
  BY <1>1, <1>2

LEMMA WakeAttach ==
  ASSUME PlaceInv, WakeInv, Attach
  PROVE  WakeInv'
BY SizeAssumption, MarkAssumption
DEF PlaceInv, WakeInv, TypeOK, Offset, Attach, serverVars, replyVars, viewVars, boundVars,
    historyVars, FlagInv, Subscribed, Flagged, FetchAhead, UnreadInv, Hydrating, Woken,
    Busy, UncapturedInv, UnreportedInv, HasNews, HasBytes

LEMMA WakeSubscribe ==
  ASSUME PlaceInv, WakeInv, Subscribe
  PROVE  WakeInv'
<1> USE SizeAssumption, MarkAssumption DEF PlaceInv, WakeInv, TypeOK, Offset, Subscribe,
        Hydrate, serverVars, replyVars, viewVars, boundVars, historyVars
<1>1. FlagInv'
  BY DEF FlagInv, Subscribed, Flagged, FetchAhead, Hydrating
<1>2. UnreadInv'
  BY DEF UnreadInv, Subscribed, Hydrating, Woken, Busy, FetchAhead
<1>3. UncapturedInv' /\ UnreportedInv'
  BY DEF UncapturedInv, Woken, Busy, FetchAhead, UnreportedInv, HasNews, HasBytes
<1>4. QED
  BY <1>1, <1>2, <1>3

LEMMA WakeSnapshotRead ==
  ASSUME PlaceInv, WakeInv, SnapshotRead
  PROVE  WakeInv'
<1> USE SizeAssumption, MarkAssumption DEF PlaceInv, WakeInv, TypeOK, Offset, SnapshotRead,
        serverVars, replyVars, viewVars, boundVars, historyVars
<1>1. FlagInv'
  BY DEF FlagInv, Subscribed, Flagged, FetchAhead, Hydrating
<1>2. UnreadInv'
  BY DEF UnreadInv, Subscribed, Hydrating, Woken, Busy, FetchAhead
<1>3. UncapturedInv' /\ UnreportedInv'
  BY DEF UncapturedInv, Woken, Busy, FetchAhead, UnreportedInv, HasNews, HasBytes
<1>4. QED
  BY <1>1, <1>2, <1>3

LEMMA WakeSnapshotUnflag ==
  ASSUME PlaceInv, WakeInv, SnapshotUnflag
  PROVE  WakeInv'
<1> USE SizeAssumption, MarkAssumption DEF PlaceInv, WakeInv, TypeOK, Offset,
        SnapshotUnflag, serverVars, replyVars, viewVars, boundVars, historyVars
<1>1. FlagInv'
  BY DEF FlagInv, Subscribed, Flagged, FetchAhead, Hydrating
<1>2. UnreadInv'
  BY DEF UnreadInv, Subscribed, Hydrating, Woken, Busy, FetchAhead
<1>3. UncapturedInv' /\ UnreportedInv'
  BY DEF UncapturedInv, Woken, Busy, FetchAhead, UnreportedInv, HasNews, HasBytes
<1>4. QED
  BY <1>1, <1>2, <1>3

LEMMA WakeSnapshotFails ==
  ASSUME PlaceInv, WakeInv, SnapshotFails
  PROVE  WakeInv'
<1> USE SizeAssumption, MarkAssumption DEF PlaceInv, WakeInv, TypeOK, Offset,
        SnapshotFails, Hydrate, serverVars, replyVars, viewVars, boundVars, historyVars
<1>1. FlagInv'
  BY DEF FlagInv, Subscribed, Flagged, FetchAhead, Hydrating
<1>2. UnreadInv' /\ UncapturedInv' /\ UnreportedInv'
  BY DEF UnreadInv, Subscribed, Hydrating, Woken, Busy, FetchAhead, UncapturedInv,
         UnreportedInv, HasNews, HasBytes
<1>3. QED
  BY <1>1, <1>2

LEMMA WakeCapture ==
  ASSUME PlaceInv, WakeInv, Capture
  PROVE  WakeInv'
<1> USE SizeAssumption, MarkAssumption DEF PlaceInv, WakeInv, TypeOK, Offset, Capture,
        serverVars, replyVars, viewVars, boundVars, historyVars
<1>1. UncapturedInv'
  BY DEF UncapturedInv, Woken, Busy, FetchAhead, CursorInv
<1>2. FlagInv' /\ UnreadInv' /\ UnreportedInv'
  BY DEF FlagInv, Subscribed, Flagged, FetchAhead, UnreadInv, Hydrating, Woken, Busy,
         UnreportedInv, HasNews, HasBytes
<1>3. QED
  BY <1>1, <1>2

LEMMA WakeCaptureFails ==
  ASSUME PlaceInv, WakeInv, CaptureFails
  PROVE  WakeInv'
<1> USE SizeAssumption, MarkAssumption DEF PlaceInv, WakeInv, TypeOK, Offset, CaptureFails,
        Hydrated, Zeros, serverVars, replyVars, viewVars, boundVars, historyVars
<1>1. FlagInv'
  BY DEF FlagInv, Subscribed, Flagged, FetchAhead, Hydrating
<1>2. UnreadInv' /\ UncapturedInv' /\ UnreportedInv'
  BY DEF UnreadInv, Subscribed, Hydrating, Woken, Busy, FetchAhead, UncapturedInv,
         UnreportedInv, HasNews, HasBytes
<1>3. QED
  BY <1>1, <1>2

LEMMA WakeAcknowledge ==
  ASSUME PlaceInv, WakeInv, Acknowledge
  PROVE  WakeInv'
<1> USE SizeAssumption, MarkAssumption DEF PlaceInv, WakeInv, TypeOK, Offset, Acknowledge,
        Acknowledged, Hydrated, Zeros, serverVars, replyVars, viewVars, boundVars,
        historyVars
<1>1. FlagInv'
  BY DEF FlagInv, Subscribed, Flagged, FetchAhead, Hydrating
<1>2. UnreadInv'
  BY DEF UnreadInv, Subscribed, Hydrating, Woken, Busy, FetchAhead, UncapturedInv,
         CaptureInv, CursorInv
<1>3. UncapturedInv' /\ UnreportedInv'
  BY DEF UncapturedInv, Woken, Busy, FetchAhead, UnreportedInv, HasNews, HasBytes
<1>4. QED
  BY <1>1, <1>2, <1>3

LEMMA WakeHandleEvents ==
  ASSUME PlaceInv, WakeInv, HandleEvents
  PROVE  WakeInv'
<1> USE SizeAssumption, MarkAssumption DEF PlaceInv, WakeInv, TypeOK, Offset, HandleEvents,
        serverVars, replyVars, viewVars, boundVars, historyVars
<1>1. FlagInv'
  BY DEF FlagInv, Subscribed, Flagged, FetchAhead, Hydrating
<1>2. UnreadInv'
  BY DEF UnreadInv, Subscribed, Hydrating, Woken, Busy, FetchAhead
<1>3. UncapturedInv' /\ UnreportedInv'
  BY DEF UncapturedInv, Woken, Busy, FetchAhead, UnreportedInv, HasNews, HasBytes
<1>4. QED
  BY <1>1, <1>2, <1>3

LEMMA WakeRefresh ==
  ASSUME PlaceInv, WakeInv, NEW m \in {"reveal", "incremental", "resync"},
         NEW S \in SUBSET Panes, Refresh(m, S)
  PROVE  WakeInv'
BY SizeAssumption, MarkAssumption
DEF PlaceInv, WakeInv, TypeOK, Offset, Refresh, Hydrate, serverVars, replyVars, viewVars,
    boundVars, historyVars, FlagInv, Subscribed, Flagged, FetchAhead, UnreadInv, Hydrating,
    Woken, Busy, UncapturedInv, UnreportedInv, HasNews, HasBytes

LEMMA WakeDrain ==
  ASSUME PlaceInv, WakeInv, Drain
  PROVE  WakeInv'
BY SizeAssumption, MarkAssumption
DEF PlaceInv, WakeInv, TypeOK, Offset, Drain, serverVars, replyVars, viewVars, boundVars,
    historyVars, FlagInv, Subscribed, Flagged, FetchAhead, UnreadInv, Hydrating, Woken,
    Busy, UncapturedInv, UnreportedInv, HasNews, HasBytes

LEMMA WakeClear ==
  ASSUME PlaceInv, WakeInv, Clear
  PROVE  WakeInv'
<1> USE SizeAssumption, MarkAssumption DEF PlaceInv, WakeInv, TypeOK, Offset, Clear,
        serverVars, replyVars, viewVars, boundVars, historyVars
<1>1. FlagInv'
  BY DEF FlagInv, Subscribed, Flagged, FetchAhead, Hydrating
<1>2. UnreadInv'
  BY DEF UnreadInv, Subscribed, Hydrating, Woken, Busy, FetchAhead
<1>3. UncapturedInv' /\ UnreportedInv'
  BY DEF UncapturedInv, Woken, Busy, FetchAhead, UnreportedInv, HasNews, HasBytes
<1>4. QED
  BY <1>1, <1>2, <1>3

LEMMA WakeRead ==
  ASSUME PlaceInv, WakeInv, NEW resume \in [Panes -> 0 .. MaxOutput], Read(resume)
  PROVE  WakeInv'
<1> USE SizeAssumption, MarkAssumption DEF PlaceInv, WakeInv, TypeOK, Offset, Read,
        ReadFrom, Behind, serverVars, replyVars, viewVars, boundVars, historyVars
<1>1. FlagInv'
  BY DEF FlagInv, Subscribed, Flagged, FetchAhead, Hydrating
<1>2. UnreadInv'
  BY DEF UnreadInv, Subscribed, Hydrating, Woken, Busy, FetchAhead
<1>3. UnreportedInv'
  BY DEF UnreportedInv, HasNews, HasBytes, Busy, CursorInv
<1>4. UncapturedInv'
  BY DEF UncapturedInv, Woken, Busy, FetchAhead
<1>5. QED
  BY <1>1, <1>2, <1>3, <1>4

LEMMA WakeAnswer ==
  ASSUME PlaceInv, WakeInv, Answer
  PROVE  WakeInv'
<1> USE SizeAssumption, MarkAssumption DEF PlaceInv, WakeInv, TypeOK, Offset, Answer,
        serverVars, replyVars, viewVars, boundVars, historyVars
<1>1. FlagInv'
  BY DEF FlagInv, Subscribed, Flagged, FetchAhead, Hydrating
<1>2. UnreadInv'
  BY DEF UnreadInv, Subscribed, Hydrating, Woken, Busy, FetchAhead
<1>3. UncapturedInv' /\ UnreportedInv'
  BY DEF UncapturedInv, Woken, Busy, FetchAhead, UnreportedInv, HasNews, HasBytes
<1>4. QED
  BY <1>1, <1>2, <1>3

LEMMA WakeDelta ==
  ASSUME PlaceInv, WakeInv, NEW S \in SUBSET Panes, Delta(S)
  PROVE  WakeInv'
<1> USE SizeAssumption, MarkAssumption DEF PlaceInv, WakeInv, TypeOK, Offset, Delta,
        serverVars, replyVars, viewVars, boundVars, historyVars
<1>1. FlagInv'
  BY DEF FlagInv, Subscribed, Flagged, FetchAhead, Hydrating
<1>2. UnreadInv'
  BY DEF UnreadInv, Subscribed, Hydrating, Woken, Busy, FetchAhead
<1>3. UncapturedInv' /\ UnreportedInv'
  BY DEF UncapturedInv, Woken, Busy, FetchAhead, UnreportedInv, HasNews, HasBytes
<1>4. QED
  BY <1>1, <1>2, <1>3

LEMMA WakeDeltaFails ==
  ASSUME PlaceInv, WakeInv, DeltaFails
  PROVE  WakeInv'
<1> USE SizeAssumption, MarkAssumption DEF PlaceInv, WakeInv, TypeOK, Offset, DeltaFails,
        serverVars, replyVars, viewVars, boundVars, historyVars
<1>1. FlagInv'
  BY DEF FlagInv, Subscribed, Flagged, FetchAhead, Hydrating
<1>2. UnreadInv' /\ UncapturedInv' /\ UnreportedInv'
  BY DEF UnreadInv, Subscribed, Hydrating, Woken, Busy, FetchAhead, UncapturedInv,
         UnreportedInv, HasNews, HasBytes
<1>3. QED
  BY <1>1, <1>2

\* Where nothing is out of step, every chunk with bytes is applied.
LEMMA InStepNews ==
  ASSUME PlaceInv, InStep, ~HadData, NEW p \in Panes
  PROVE  ~HasNews(p)
<1>1. Reached(p)
  BY SizeAssumption DEF InStep, Reached, Panes
<1>2. ~Stale(p) => HadData
  BY <1>1, AppliedFollows DEF InStep, HadData, Applied
<1>3. ~chunk[p].gap
  BY DEF InStep, Desynced
<1>4. /\ expected[p] \in Offset /\ shown[p] \in Offset /\ expected[p] <= shown[p]
      /\ shown[p] <= chunk[p].from
  BY <1>3 DEF InStep, PlaceInv, ViewInv, PresentInv, ChunkInv, Looping
<1>5. chunk[p].from \in Offset /\ chunk[p].to \in Offset
  BY DEF PlaceInv, TypeOK, Chunk
<1>6. QED
  BY <1>2, <1>3, <1>4, <1>5 DEF Stale, HasNews, HasBytes, Offset

LEMMA WakeRecover ==
  ASSUME PlaceInv, WakeInv, NEW p \in Panes, Recover(p)
  PROVE  WakeInv'
<1> USE DEF Recover, Hydrate, serverVars, boundVars, WakeInv
<1>1. FlagInv'
  BY DEF FlagInv, Subscribed, Flagged, FetchAhead, Hydrating
<1>2. UnreadInv'
  BY DEF UnreportedInv, UnreadInv, Subscribed, Hydrating, Woken, Busy, FetchAhead
<1>3. UncapturedInv' /\ UnreportedInv'
  BY DEF UncapturedInv, UnreportedInv
<1>4. QED
  BY <1>1, <1>2, <1>3

LEMMA WakeNextRound ==
  ASSUME WakeInv, NextRound
  PROVE  WakeInv'
BY DEF NextRound, WakeInv, FlagInv, UnreadInv, UncapturedInv, UnreportedInv, Woken, FetchAhead

LEMMA WakeEndDrain ==
  ASSUME PlaceInv, WakeInv, EndDrain
  PROVE  WakeInv'
<1> USE DEF EndDrain, InStep, serverVars, historyVars, boundVars, WakeInv
<1>1. FlagInv'
  BY DEF FlagInv, Subscribed, Flagged, FetchAhead, Hydrating
<1>2. UnreadInv'
  <2>1. CASE HadData
    BY <2>1 DEF UnreadInv, Woken, FetchAhead
  <2>2. CASE ~HadData
    BY <2>2, InStepNews DEF UnreportedInv, UnreadInv, Subscribed, Woken, Busy
  <2>3. QED
    BY <2>1, <2>2
<1>3. UncapturedInv' /\ UnreportedInv'
  BY DEF UncapturedInv, UnreportedInv
<1>4. QED
  BY <1>1, <1>2, <1>3

LEMMA WakeStutter ==
  ASSUME WakeInv, UNCHANGED vars
  PROVE  WakeInv'
BY DEF vars, serverVars, replyVars, viewVars, historyVars, boundVars, WakeInv, FlagInv,
       UnreadInv, UncapturedInv, UnreportedInv, Subscribed, Woken, Busy, Flagged, FetchAhead,
       HasNews, HasBytes

LEMMA WakeStep ==
  ASSUME PlaceInv, WakeInv, [Next]_vars
  PROVE  WakeInv'
<1>1. CASE Output
  BY <1>1, WakeAppend, WakeFlag, WakePublish, WakePublishLost DEF Output, Announce
<1>2. CASE Client
  BY <1>2, WakeAttach, WakeSubscribe, WakeSnapshotRead, WakeSnapshotUnflag, WakeCapture,
     WakeAcknowledge, WakeHandleEvents, WakeDrain, WakeClear, WakeRead, WakeAnswer, WakeRecover,
     WakeNextRound, WakeEndDrain, WakeDelta
     DEF Client
<1>3. CASE Environment
  BY <1>3, WakeLag, WakeOtherFetch, WakeRefresh, WakeSnapshotFails, WakeCaptureFails, WakeDeltaFails
     DEF Environment
<1>4. QED
  BY <1>1, <1>2, <1>3, WakeStutter DEF Next

LEMMA WakeInit == Init => WakeInv
BY DEF Init, WakeInv, FlagInv, UnreadInv, UncapturedInv, UnreportedInv, Subscribed

\* A client that waits with an empty queue has read everything but what a
\* broken-off drain threw away and what the event queues lost since: clearing
\* the shared flag before the read loses no wake-up, and neither do the two
\* calls of a hydration.
THEOREM NothingUnreadCorrect == Spec => []NothingUnread
<1>1. PlaceInv /\ WakeInv => NothingUnread
  <2> SUFFICES ASSUME PlaceInv, WakeInv, pc = "idle", ~pending, events = {}, failures = 0, Quiet,
                      NEW p \in Panes \ (cut \cup missed)
               PROVE  cursor[p] = end[p]
    BY DEF NothingUnread
  <2>1. ~(cursor[p] < end[p])
    BY DEF WakeInv, UnreadInv, Subscribed, Woken, Busy, FetchAhead, Quiet, Hydrating
  <2>2. cursor[p] \in Offset /\ cursor[p] <= end[p] /\ end[p] \in Offset
    BY DEF PlaceInv, CursorInv, TypeOK
  <2>3. QED
    BY <2>1, <2>2, SizeAssumption DEF Offset
<1>2. QED
  BY <1>1, PlaceAlways, PlaceStep, WakeInit, WakeStep, PTL DEF Spec

=============================================================================
