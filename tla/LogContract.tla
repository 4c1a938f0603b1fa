---------------------------- MODULE LogContract ----------------------------
(***************************************************************************)
(* What a voter's storage promises to the consensus above it, crashes and  *)
(* files left aside: the applied position and the purged prefix of the log *)
(* only move on; the snapshot stands for nothing that is not applied and,  *)
(* outside a lapse, for everything that is purged.  A lapse puts an older  *)
(* snapshot back; the next snapshot covers the log again and ends it.      *)
(***************************************************************************)
EXTENDS Naturals

CONSTANT MaxIndex

VARIABLES
  applied,  \* last index whose effect is in the persisted state
  covered,  \* last index the snapshot stands for, 0 without one
  purged,   \* last index the log has forgotten
  lapsed    \* is the snapshot one that was put back?

vars == <<applied, covered, purged, lapsed>>

Init ==
  /\ applied = 0
  /\ covered = 0
  /\ purged = 0
  /\ lapsed = FALSE

\* One entry, or everything a received snapshot stands for.
Advance ==
  /\ applied' \in (applied + 1) .. MaxIndex
  /\ UNCHANGED <<covered, purged, lapsed>>

\* A new snapshot covers at least what the last one did and what is gone.
Cover ==
  /\ covered' \in covered .. applied
  /\ purged <= covered'
  /\ lapsed' = FALSE
  /\ UNCHANGED <<applied, purged>>

Lapse ==
  /\ covered' \in 0 .. applied
  /\ lapsed' = TRUE
  /\ UNCHANGED <<applied, purged>>

Forget ==
  /\ purged' \in (purged + 1) .. (IF lapsed THEN applied ELSE covered)
  /\ UNCHANGED <<applied, covered, lapsed>>

Next == Advance \/ Cover \/ Lapse \/ Forget

Spec == Init /\ [][Next]_vars
=============================================================================
