------------------------- MODULE ReconciliationGate -------------------------
(***************************************************************************)
(* What the reconciliation row of one account promises to the rest of the  *)
(* executor: a mode that halts new entries at the first discrepancy, that  *)
(* escalates to close_only at the second, and that leaves close_only only  *)
(* when an operator acknowledges it after a run of clean snapshots.        *)
(*                                                                         *)
(* LiveExecution builds on these operators; Reconciliation, which computes *)
(* the verdicts from projections, fills and order updates, implements      *)
(* GateSpec.                                                               *)
(***************************************************************************)
EXTENDS Integers

CONSTANT RecoveryStreak     \* clean snapshots an acknowledgement requires (3)

ASSUME RecoveryStreakAssumption == RecoveryStreak \in Nat \ {0}

VARIABLES
  mode,     \* the row's mode; "absent" is no row, "startup" is the row that
            \* configure_mainnet_account inserts, before any snapshot
  streak    \* clean_streak, counted up to RecoveryStreak: the code compares
            \* it with nothing larger

gateVars == << mode, streak >>

Modes == { "absent", "startup", "normal", "halt_new_entries", "close_only" }

Verdicts == { "clean", "discrepancy", "unprotected" }

GateTypeOK ==
  /\ mode \in Modes
  /\ streak \in 0 .. RecoveryStreak

-----------------------------------------------------------------------------
\* The mode the transaction of record_mainnet_snapshot writes.
SnapshotMode(v) ==
  IF v = "unprotected" \/ mode = "close_only" THEN "close_only"
  ELSE IF v = "clean" THEN "normal"
  ELSE IF mode = "halt_new_entries" THEN "close_only"
  ELSE "halt_new_entries"

SnapshotStreak(v) ==
  IF mode = "close_only" /\ v = "clean"
  THEN IF streak < RecoveryStreak THEN streak + 1 ELSE streak
  ELSE 0

\* A snapshot is persisted.  The baseline snapshot explains itself: before
\* it, orders and positions have nothing to disagree with.
TakeSnapshot(v) ==
  /\ mode # "absent"
  /\ mode = "startup" => v # "discrepancy"
  /\ mode' = SnapshotMode(v)
  /\ streak' = SnapshotStreak(v)

\* finish_live_transition with force_close_only.
ForceCloseOnly ==
  /\ mode' = "close_only"
  /\ streak' = 0

\* acknowledge_reconciliation_recovery.
Acknowledge ==
  /\ mode = "close_only"
  /\ streak >= RecoveryStreak
  /\ mode' = "normal"
  /\ streak' = 0

\* configure_mainnet_account at process start: INSERT OR IGNORE.
Configure ==
  /\ mode' = IF mode = "absent" THEN "startup" ELSE mode
  /\ UNCHANGED streak

-----------------------------------------------------------------------------
GateInit == mode \in { "absent", "startup" } /\ streak = 0

GateNext ==
  \/ \E v \in Verdicts : TakeSnapshot(v)
  \/ ForceCloseOnly
  \/ Acknowledge
  \/ Configure

GateSpec == GateInit /\ [][GateNext]_gateVars

=============================================================================
