---------------------------- MODULE AttachOutput ----------------------------
(***************************************************************************)
(* How the output of panes reaches an attached client.  On the server      *)
(* (plugins/pane-runtime-plugin/src/runtime.rs) threads append to a        *)
(* bounded buffer per pane, which evicts what it cannot keep, and announce *)
(* output with an event, but only when the pane's dirty flag was clear.    *)
(* The event passes two bounded broadcast queues and the task between them *)
(* (packages/server/src/lib.rs), each of which may lose it for good.       *)
(* The client (packages/cli/src/runtime/attach/runtime.rs) fetches when an *)
(* event arrived, in rounds, through a cursor the server keeps for it.     *)
(* What it cannot apply it replaces by a snapshot, in two calls: one moves *)
(* the cursor, the other takes the parsed screen and moves it again.       *)
(*                                                                         *)
(* Bytes are offsets in the pane's stream; what they say is left out, so   *)
(* the place where a reader may resume inside what is left of a stream     *)
(* (the end of an escape sequence) is any offset.  Panes are numbered in   *)
(* the order of the client's batches.  Buffers of the panes are locked one *)
(* after the other; a step that walks over all panes touches each under    *)
(* its own lock, and its parts commute with whatever happens to other      *)
(* panes.  Synchronized updates, detaching and panes that come and go are  *)
(* left out.                                                               *)
(***************************************************************************)
EXTENDS Integers, FiniteSets

CONSTANTS
  PaneCount,
  MaxBytes,    \* what a pane's buffer keeps
  ReadBytes,   \* what one round takes from a pane
  ChunkBytes,  \* bound: bytes a thread appends at once
  MaxOutput,   \* bound: bytes written to all panes
  MaxRefresh,  \* bound: layout changes that hydrate panes
  MaxFailures, \* bound: snapshot and delta calls that fail
  Absent,
  Torn         \* a screen with bytes missing or repeated

Panes == 1 .. PaneCount

\* The thread that reads the pane's terminal, and whoever posts a notice.
Writers == {"reader", "notice"}

ASSUME SizeAssumption ==
  /\ PaneCount \in Nat \ {0}
  /\ MaxBytes \in Nat \ {0}
  /\ ReadBytes \in Nat \ {0}
  /\ ChunkBytes \in Nat \ {0}
  /\ MaxOutput \in Nat
  /\ MaxRefresh \in Nat
  /\ MaxFailures \in Nat

ASSUME MarkAssumption == Absent \notin Nat /\ Torn \notin Nat /\ Absent # Torn

VARIABLES
  start,      \* first offset a pane's buffer still has
  end,        \* offset after the last byte
  dirty,      \* output_dirty
  writing,    \* what each writer still has to do for its last chunk
  cursor,     \* the client's place in each buffer
  pc,         \* what the client, or the server for it, does next
  events,     \* panes with an OutputAvailable on its way to the client
  pending,    \* pane_output_pending
  drained,    \* drained_any_data
  chunk,      \* the reply to a fetch
  more,       \* output_still_pending of the reply
  mode,       \* why panes are hydrated
  target,     \* the panes that are hydrated
  base,       \* stream_end of the raw snapshot
  captured,   \* stream_end of the grid snapshot
  expected,   \* expected_stream_start
  shown,      \* offset up to which the client's screen shows the stream
  cut,        \* history: panes whose output a drain has been ended in
  missed,     \* history: panes with an event lost since the flag was cleared
  written,    \* bytes so far
  refreshes,
  failures

serverVars == <<start, end, dirty, writing>>
replyVars == <<chunk, more, mode, target, base, captured>>
viewVars == <<expected, shown>>
boundVars == <<written, refreshes, failures>>
historyVars == <<cut, missed, boundVars>>
vars == <<serverVars, cursor, pc, events, pending, drained, replyVars, viewVars, historyVars>>

NoChunk == [from |-> 0, to |-> 0, gap |-> FALSE]
NoChunks == [p \in Panes |-> NoChunk]
Zeros == [p \in Panes |-> 0]

\* The session's panes have output or not; nobody is attached, so the flags
\* stay as the first output left them.
Init ==
  /\ start = Zeros
  /\ end = Zeros
  /\ dirty = [p \in Panes |-> FALSE]
  /\ writing = [p \in Panes |-> [w \in Writers |-> "idle"]]
  /\ cursor = [p \in Panes |-> Absent]
  /\ pc = "detached"
  /\ events = {}
  /\ pending = FALSE
  /\ drained = FALSE
  /\ chunk = NoChunks
  /\ more = FALSE
  /\ mode = "resync"
  /\ target = {}
  /\ base = Zeros
  /\ captured = Zeros
  /\ expected = [p \in Panes |-> Absent]
  /\ shown = [p \in Panes |-> Absent]
  /\ cut = {}
  /\ missed = {}
  /\ written = 0
  /\ refreshes = 0
  /\ failures = 0

-----------------------------------------------------------------------------
(* Output: process_pane_output, then the announcement. *)

\* What is left after eviction.  The buffer's own limit decides how much goes
\* at least; output of other panes counts against the limit of the node, so
\* any more of it may go too.
Keeps(p, n, kept) ==
  /\ kept \in start[p] .. (end[p] + n)
  /\ end[p] + n - kept <= MaxBytes

\* push_chunk under the buffer's lock.
Append(p, w, n, kept) ==
  /\ writing[p][w] = "idle"
  /\ written + n <= MaxOutput
  /\ written' = written + n
  /\ Keeps(p, n, kept)
  /\ end' = [end EXCEPT ![p] = @ + n]
  /\ start' = [start EXCEPT ![p] = kept]
  /\ writing' = [writing EXCEPT ![p][w] = "pushed"]
  /\ UNCHANGED <<dirty, cursor, pc, events, pending, drained, replyVars, viewVars, cut,
                 missed, refreshes, failures>>

\* The reader announces only what finds the flag clear; a notice always.
Announces(p, w) == w = "notice" \/ ~dirty[p]

Flag(p, w) ==
  /\ writing[p][w] = "pushed"
  /\ dirty' = [dirty EXCEPT ![p] = TRUE]
  /\ writing' = [writing EXCEPT ![p][w] = IF Announces(p, w) THEN "flagged" ELSE "idle"]
  /\ UNCHANGED <<start, end, cursor, pc, events, pending, drained, replyVars, viewVars,
                 historyVars>>

Subscribed == pc \notin {"detached", "attached"}

Publish(p, w) ==
  /\ writing[p][w] = "flagged"
  /\ writing' = [writing EXCEPT ![p][w] = "idle"]
  /\ events' = IF Subscribed THEN events \cup {p} ELSE events
  /\ UNCHANGED <<start, end, dirty, cursor, pc, pending, drained, replyVars, viewVars,
                 historyVars>>

\* The task that forwards the plugin's events has fallen behind, now or
\* before: it ends on the first error and nothing starts it again.
PublishLost(p, w) ==
  /\ writing[p][w] = "flagged"
  /\ writing' = [writing EXCEPT ![p][w] = "idle"]
  /\ missed' = IF Subscribed THEN missed \cup {p} ELSE missed
  /\ UNCHANGED <<start, end, dirty, cursor, pc, events, pending, drained, replyVars, viewVars,
                 cut, boundVars>>

\* The task that pushes events to the client has fallen behind: what it has
\* not sent is lost.  It sends the client to the catalog of sessions
\* instead, where nothing fetches output.
Lag ==
  /\ events # {}
  /\ events' = {}
  /\ missed' = missed \cup events
  /\ UNCHANGED <<serverVars, cursor, pc, pending, drained, replyVars, viewVars, cut, boundVars>>

\* Another client fetches: the flag is shared.
OtherFetch(p) ==
  /\ dirty[p]
  /\ dirty' = [dirty EXCEPT ![p] = FALSE]
  /\ UNCHANGED <<start, end, writing, cursor, pc, events, pending, drained, replyVars,
                 viewVars, historyVars>>

-----------------------------------------------------------------------------
(* Attaching. *)

\* begin_attach: at the tail of every buffer.
Attach ==
  /\ pc = "detached"
  /\ cursor' = end
  /\ pc' = "attached"
  /\ UNCHANGED <<serverVars, events, pending, drained, replyVars, viewVars, historyVars>>

\* Panes S are to be hydrated, all of them or those a call is about.
Hydrate(m, S) ==
  /\ mode' = m
  /\ target' = S
  /\ pc' = "snapshot"

Subscribe ==
  /\ pc = "attached"
  /\ Hydrate("resync", Panes)
  /\ UNCHANGED <<serverVars, cursor, events, pending, drained, chunk, more, base, captured,
                 viewVars, historyVars>>

-----------------------------------------------------------------------------
(* Hydration: attach_snapshot or attach_pane_snapshot, then the grids. *)

\* attach_pane_recent_chunk with no bytes asked for: where the stream ends.
SnapshotRead ==
  /\ pc = "snapshot"
  /\ base' = [p \in Panes |-> IF p \in target THEN end[p] ELSE base[p]]
  /\ cursor' = [p \in Panes |-> IF p \in target THEN end[p] ELSE cursor[p]]
  /\ pc' = "unflag"
  /\ UNCHANGED <<serverVars, events, pending, drained, chunk, more, mode, target, captured,
                 viewVars, historyVars>>

\* Its last line, after the lock.
SnapshotUnflag ==
  /\ pc = "unflag"
  /\ dirty' = [p \in Panes |-> dirty[p] /\ p \notin target]
  /\ missed' = missed \ target
  /\ pc' = "capture"
  /\ UNCHANGED <<start, end, writing, cursor, events, pending, drained, replyVars, viewVars,
                 cut, boundVars>>

\* A call about some panes fails: all of them, the ones the client has kept
\* when only the layout changed.
SnapshotFails ==
  /\ pc = "snapshot"
  /\ mode \in {"recover", "reveal"}
  /\ failures < MaxFailures
  /\ failures' = failures + 1
  /\ Hydrate(IF mode = "recover" THEN "resync" ELSE "incremental", Panes)
  /\ UNCHANGED <<serverVars, cursor, events, pending, drained, chunk, more, base, captured,
                 viewVars, cut, missed, written, refreshes>>

\* attach_grid_snapshot_state: screen and offset under both locks.
Capture ==
  /\ pc = "capture"
  /\ captured' = [p \in Panes |-> IF p \in target THEN end[p] ELSE captured[p]]
  /\ pc' = "acknowledge"
  /\ UNCHANGED <<serverVars, cursor, events, pending, drained, chunk, more, mode, target, base,
                 viewVars, historyVars>>

\* The client is done with the panes.  Having hydrated all of them it takes
\* nothing to be pending any more.
Hydrated ==
  /\ pc' = "idle"
  /\ pending' = (mode = "reveal" /\ pending)
  /\ mode' = "resync"
  /\ target' = {}
  /\ base' = Zeros
  /\ captured' = Zeros

\* Too large, or too many at once: what a pane had is gone unless it was kept.
\* The client goes on from the raw snapshot with a blank screen, which counts
\* as showing the stream up to there.
CaptureFails ==
  LET lost == {p \in target : mode \in {"resync", "recover", "reveal"}}
  IN /\ pc = "capture"
     /\ failures < MaxFailures
     /\ failures' = failures + 1
     /\ expected' = [p \in Panes |-> IF p \in lost THEN base[p] ELSE expected[p]]
     /\ shown' = [p \in Panes |-> IF p \in lost THEN base[p] ELSE shown[p]]
     /\ Hydrated
     /\ UNCHANGED <<serverVars, cursor, events, drained, chunk, more, cut, missed, written,
                    refreshes>>

\* Mutation of Acknowledged: the raw snapshot's offset, wherever the cursor is.
AcknowledgedRaw(p) == IF base[p] < end[p] THEN base[p] ELSE end[p]

\* acknowledge_snapshot: never back, and not to the retained start either.
Acknowledged(p) ==
  LET ahead == IF captured[p] > cursor[p] THEN captured[p] ELSE cursor[p]
  IN IF ahead < end[p] THEN ahead ELSE end[p]

\* The screen is the captured one.  A hydration that began with a raw
\* snapshot expects the stream to go on where that one ended.
Acknowledge ==
  /\ pc = "acknowledge"
  /\ cursor' = [p \in Panes |-> IF p \in target THEN Acknowledged(p) ELSE cursor[p]]
  /\ shown' = [p \in Panes |-> IF p \in target THEN captured[p] ELSE shown[p]]
  /\ expected' = [p \in Panes |-> IF p \notin target THEN expected[p]
                                  ELSE IF mode = "grid" THEN captured[p] ELSE base[p]]
  /\ Hydrated
  /\ UNCHANGED <<serverVars, events, drained, chunk, more, historyVars>>

-----------------------------------------------------------------------------
(* The client's loop. *)

\* The queue is emptied in one burst before anything is fetched.
HandleEvents ==
  /\ pc = "idle"
  /\ events # {}
  /\ events' = {}
  /\ pending' = TRUE
  /\ UNCHANGED <<serverVars, cursor, pc, drained, replyVars, viewVars, historyVars>>

\* The layout has changed: panes that come into view, or all of them.
Refresh(m, S) ==
  /\ pc = "idle"
  /\ refreshes < MaxRefresh
  /\ refreshes' = refreshes + 1
  /\ m = "reveal" \/ S = Panes
  /\ S # {}
  /\ Hydrate(m, S)
  /\ UNCHANGED <<serverVars, cursor, events, pending, drained, chunk, more, base, captured,
                 viewVars, cut, missed, written, failures>>

Drain ==
  /\ pc = "idle"
  /\ pending
  /\ drained' = FALSE
  /\ pc' = "clear"
  /\ UNCHANGED <<serverVars, cursor, events, pending, replyVars, viewVars, historyVars>>

\* Mutation of Clear: the flags are left alone.
ClearNothing ==
  /\ pc = "clear"
  /\ pc' = "read"
  /\ UNCHANGED <<serverVars, cursor, events, pending, drained, replyVars, viewVars, historyVars>>

\* attach_pane_output_batch_with_dirty_check: first the flags of all panes,
Clear ==
  /\ pc = "clear"
  /\ dirty' = [p \in Panes |-> FALSE]
  /\ missed' = {}
  /\ pc' = "read"
  /\ UNCHANGED <<start, end, writing, cursor, events, pending, drained, replyVars, viewVars,
                 cut, boundVars>>

Behind(p) == cursor[p] < start[p]

\* Mutation of ReadFrom: the cursor moves by what was asked for.
ReadFromBeyond(p, resume) ==
  LET from == IF Behind(p) THEN resume ELSE cursor[p]
  IN [from |-> from, gap |-> Behind(p), to |-> from + ReadBytes]

\* read_for_client, from the cursor or, if that was evicted, from resume.
ReadFrom(p, resume) ==
  LET from == IF Behind(p) THEN resume ELSE cursor[p]
  IN [from |-> from, gap |-> Behind(p),
      to |-> IF end[p] - from < ReadBytes THEN end[p] ELSE from + ReadBytes]

\* then one read per pane,
Read(resume) ==
  /\ pc = "read"
  /\ \A p \in Panes : resume[p] \in start[p] .. end[p]
  /\ chunk' = [p \in Panes |-> ReadFrom(p, resume[p])]
  /\ cursor' = [p \in Panes |-> ReadFrom(p, resume[p]).to]
  /\ pc' = "answer"
  /\ UNCHANGED <<serverVars, events, pending, drained, more, mode, target, base, captured,
                 viewVars, historyVars>>

\* and a last look at the flags.
Answer ==
  /\ pc = "answer"
  /\ more' = \E p \in Panes : dirty[p]
  /\ pc' = "apply"
  /\ UNCHANGED <<serverVars, cursor, events, pending, drained, chunk, mode, target, base,
                 captured, viewVars, historyVars>>

\* Mutation of Desynced: a chunk that is not a repetition is applied.
DesyncedByGap(p) == chunk[p].gap

\* apply_attach_output_chunk_with.
Stale(p) == ~chunk[p].gap /\ expected[p] # Absent /\ chunk[p].to <= expected[p]

Desynced(p) ==
  \/ chunk[p].gap
  \/ expected[p] # Absent /\ chunk[p].to > expected[p] /\ chunk[p].from # expected[p]

\* The reply is worked through up to the first pane that is out of step.
Reached(p) == \A q \in 1 .. p : ~Desynced(q)

HasBytes(p) == chunk[p].from < chunk[p].to

Applied(p) == Reached(p) /\ ~Stale(p)

ApplyChunks ==
  /\ expected' = [p \in Panes |-> IF Applied(p) THEN chunk[p].to ELSE expected[p]]
  /\ shown' = [p \in Panes |->
                 IF ~Applied(p) \/ ~HasBytes(p) THEN shown[p]
                 ELSE IF shown[p] = chunk[p].from THEN chunk[p].to ELSE Torn]

\* Mutation of Recover: what is out of step is left for the next event.
RecoverNothing(p) ==
  /\ pc = "apply"
  /\ Desynced(p)
  /\ \A q \in 1 .. (p - 1) : ~Desynced(q)
  /\ ApplyChunks
  /\ chunk' = NoChunks
  /\ more' = FALSE
  /\ pending' = FALSE
  /\ pc' = "idle"
  /\ UNCHANGED <<serverVars, cursor, events, drained, mode, target, base, captured, historyVars>>

\* The reply has something about p.
HasNews(p) == HasBytes(p) \/ chunk[p].gap

\* Out of step: the pane is hydrated and the drain is over, whatever the
\* round brought for others.  The rest of the reply is thrown away.
Recover(p) ==
  /\ pc = "apply"
  /\ Desynced(p)
  /\ \A q \in 1 .. (p - 1) : ~Desynced(q)
  /\ ApplyChunks
  /\ Hydrate("recover", {p})
  /\ chunk' = NoChunks
  /\ more' = FALSE
  /\ pending' = FALSE
  /\ cut' = cut \cup {q \in Panes \ {p} : HasNews(q)}
  /\ UNCHANGED <<serverVars, cursor, events, drained, base, captured, missed, boundVars>>

HadData == \E p \in Panes : Applied(p) /\ HasBytes(p)

InStep == pc = "apply" /\ \A p \in Panes : ~Desynced(p)

\* Another round.
NextRound ==
  /\ InStep
  /\ HadData \/ more
  /\ ApplyChunks
  /\ drained' = (drained \/ HadData)
  /\ chunk' = NoChunks
  /\ more' = FALSE
  /\ pc' = "clear"
  /\ UNCHANGED <<serverVars, cursor, events, pending, mode, target, base, captured, historyVars>>

\* The last round: nothing was left, or the rounds or the time are used up.
EndDrain ==
  /\ InStep
  /\ ApplyChunks
  /\ drained' = FALSE
  /\ chunk' = NoChunks
  /\ more' = FALSE
  /\ pending' = HadData
  /\ pc' = IF drained \/ HadData THEN "idle" ELSE "delta"
  /\ UNCHANGED <<serverVars, cursor, events, mode, target, base, captured, historyVars>>

\* apply_attach_structured_grid_deltas.  The server keeps no deltas (nothing
\* outside the tests adds one): a pane whose revision is not the server's is
\* captured again.  Revisions can differ where the screens do not.
Delta(S) ==
  /\ pc = "delta"
  /\ \A p \in Panes : shown[p] # end[p] => p \in S
  /\ \/ S = {} /\ pc' = "idle" /\ UNCHANGED <<mode, target>>
     \/ S # {} /\ pc' = "capture" /\ mode' = "grid" /\ target' = S
  /\ UNCHANGED <<serverVars, cursor, events, pending, drained, chunk, more, base, captured,
                 viewVars, historyVars>>

DeltaFails ==
  /\ pc = "delta"
  /\ failures < MaxFailures
  /\ failures' = failures + 1
  /\ pc' = "idle"
  /\ UNCHANGED <<serverVars, cursor, events, pending, drained, replyVars, viewVars, cut,
                 missed, written, refreshes>>

-----------------------------------------------------------------------------

Announce(p, w) == Flag(p, w) \/ Publish(p, w) \/ PublishLost(p, w)

Output ==
  \/ \E p \in Panes, w \in Writers, n \in 1 .. ChunkBytes, kept \in 0 .. MaxOutput :
       Append(p, w, n, kept)
  \/ \E p \in Panes, w \in Writers : Announce(p, w)

Client ==
  \/ Attach
  \/ Subscribe
  \/ SnapshotRead
  \/ SnapshotUnflag
  \/ Capture
  \/ Acknowledge
  \/ HandleEvents
  \/ Drain
  \/ Clear
  \/ \E resume \in [Panes -> 0 .. MaxOutput] : Read(resume)
  \/ Answer
  \/ \E p \in Panes : Recover(p)
  \/ NextRound
  \/ EndDrain
  \/ \E S \in SUBSET Panes : Delta(S)

Environment ==
  \/ Lag
  \/ \E p \in Panes : OtherFetch(p)
  \/ \E m \in {"reveal", "incremental", "resync"}, S \in SUBSET Panes : Refresh(m, S)
  \/ SnapshotFails
  \/ CaptureFails
  \/ DeltaFails

Next == Output \/ Client \/ Environment

Spec == Init /\ [][Next]_vars

\* The client's loop and the server's calls for it go on, and a thread that
\* has appended a chunk announces it.
Fairness ==
  /\ WF_vars(Client)
  /\ \A p \in Panes, w \in Writers : WF_vars(Announce(p, w))

FairSpec == Spec /\ Fairness

-----------------------------------------------------------------------------
(* Properties. *)

Offset == 0 .. MaxOutput
Chunk == [from: Offset, to: Offset, gap: BOOLEAN]
Steps == {"detached", "attached", "snapshot", "unflag", "capture", "acknowledge", "idle",
          "clear", "read", "answer", "apply", "delta"}

\* Buffers, cursors, calls and the client's view have their shapes, and no
\* buffer keeps more than its limit.
TypeOK ==
  /\ start \in [Panes -> Offset]
  /\ end \in [Panes -> Offset]
  /\ \A p \in Panes : start[p] <= end[p] /\ end[p] - start[p] <= MaxBytes
  /\ dirty \in [Panes -> BOOLEAN]
  /\ writing \in [Panes -> [Writers -> {"idle", "pushed", "flagged"}]]
  /\ cursor \in [Panes -> Offset \cup {Absent}]
  /\ pc \in Steps
  /\ events \subseteq Panes
  /\ pending \in BOOLEAN
  /\ drained \in BOOLEAN
  /\ chunk \in [Panes -> Chunk]
  /\ more \in BOOLEAN
  /\ mode \in {"resync", "incremental", "reveal", "recover", "grid"}
  /\ target \subseteq Panes
  /\ base \in [Panes -> Offset]
  /\ captured \in [Panes -> Offset]
  /\ expected \in [Panes -> Offset \cup {Absent}]
  /\ shown \in [Panes -> Offset \cup {Absent, Torn}]
  /\ cut \subseteq Panes
  /\ missed \subseteq Panes
  /\ written \in Offset
  /\ refreshes \in 0 .. MaxRefresh
  /\ failures \in 0 .. MaxFailures

\* Whatever is evicted, thrown away or captured twice between the calls, the
\* client applies bytes only to the screen that shows everything before
\* them: nothing is skipped and nothing is shown twice
\* (apply_attach_output_chunk_with compares offsets, acknowledge_snapshot
\* moves the cursor to what the screen shows).  After a failed capture that
\* screen is the blank one the stream goes on with.
Contiguous == \A p \in Panes : shown[p] # Torn

\* Nothing takes the client back: neither a screen nor the server's place for
\* it is ever replaced by an earlier one, whichever of the two calls of a
\* hydration came too late or failed (acknowledge_snapshot: the cursor never
\* moves back).
Advances(old, new) == old \in Offset => new \in old .. MaxOutput

NeverBack ==
  [][\A p \in Panes : Advances(cursor[p], cursor'[p]) /\ Advances(shown[p], shown'[p])]_vars

Quiet == \A p \in Panes, w \in Writers : writing[p][w] = "idle"

\* A client that waits for events has read everything once the writers have
\* announced it: the flag is cleared before the read, so output that comes
\* after the read finds it clear (output_dirty, output_still_pending).
\* Excluded are panes with output in a round that was given up, panes with
\* an announcement lost since the client last cleared their flags, and failed
\* calls: a grid snapshot may be what would have covered such output.
NothingUnread ==
  pc = "idle" /\ ~pending /\ events = {} /\ failures = 0 /\ Quiet =>
    \A p \in Panes \ (cut \cup missed) : cursor[p] = end[p]

UpToDate(p) == shown[p] = end[p]

\* In the end all output of a pane is on the client's screen, however it was
\* evicted and recaptured on the way, unless a drain was ended while it had
\* news of the pane or the last announcements of the pane were lost: a lost
\* one is made up for by any later one that arrives, of whatever pane.
Shows ==
  [](failures = 0) =>
    \A p \in Panes : [](p \notin cut) /\ <>[](p \notin missed) => <>[]UpToDate(p)

-----------------------------------------------------------------------------
(* What the documents state and the code does not keep. *)

\* The same with nothing excluded but failing calls and lost announcements: no
\* output is missing from a screen that is presented as complete.
AlwaysShows == [](failures = 0 /\ missed = {}) => \A p \in Panes : <>[]UpToDate(p)
=============================================================================
