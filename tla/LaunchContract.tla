--------------------------- MODULE LaunchContract ---------------------------
(***************************************************************************)
(* What the durable launch workflow promises to whoever asked for an       *)
(* execution, whichever leaders and workers drive it: nothing is shown or  *)
(* settled that was not asked for and then started by the worker, and each *)
(* of the three happens at most once per workflow.                         *)
(***************************************************************************)
CONSTANT Workflows

VARIABLES
  asked,   \* workflows accepted into the control state
  started, \* workflows whose execution the worker has registered
  shown,   \* workflows whose pane has shown what the worker reported
  settled  \* workflows answered as complete

vars == <<asked, started, shown, settled>>

Init ==
  /\ asked = {}
  /\ started = {}
  /\ shown = {}
  /\ settled = {}

Ask(k) ==
  /\ k \notin asked
  /\ asked' = asked \cup {k}
  /\ UNCHANGED <<started, shown, settled>>

Start(k) ==
  /\ k \in asked \ started
  /\ started' = started \cup {k}
  /\ UNCHANGED <<asked, shown, settled>>

Show(k) ==
  /\ k \in started \ shown
  /\ shown' = shown \cup {k}
  /\ UNCHANGED <<asked, started, settled>>

\* A workflow settles after its pane has shown the outcome.
Settle(k) ==
  /\ k \in shown \ settled
  /\ settled' = settled \cup {k}
  /\ UNCHANGED <<asked, started, shown>>

Next == \E k \in Workflows : Ask(k) \/ Start(k) \/ Show(k) \/ Settle(k)

Spec == Init /\ [][Next]_vars
=============================================================================
