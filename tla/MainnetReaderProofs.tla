------------------------- MODULE MainnetReaderProofs -------------------------
(***************************************************************************)
(* Theorems about MainnetReader, for every poll interval, timeout and      *)
(* staleness bound.                                                        *)
(*                                                                         *)
(* ReadyIsRecent is a bound over a whole cycle, and readiness is computed  *)
(* at one point of it.  SnapAgeAt and EventAgeAt add the cycle up: for     *)
(* each phase, how old the snapshot and the last event may have become     *)
(* since the phase that looked at them, plus the time spent in this one.   *)
(***************************************************************************)
EXTENDS MainnetReader, TLAPS

-----------------------------------------------------------------------------
(* The invariant.                                                          *)

\* The snapshot that last reconciled was stored at the start of this cycle,
\* or of the one before while the next is being fetched.
SnapAgeAt ==
  /\ phase = "fetching" => snapAge <= Timeout + PollInterval + elapsed
  /\ phase = "applying" => snapAge <= SnapshotBound
  /\ phase = "checking" => snapAge = 0
  /\ phase = "history" => snapAge <= elapsed
  /\ phase = "evaluating" => snapAge <= Timeout
  /\ phase = "sleeping" => snapAge <= Timeout + elapsed

\* The last event was recent when readiness was last computed.
EventAgeAt ==
  /\ phase = "sleeping" => wsAge <= StaleAfter + elapsed
  /\ phase = "fetching" => wsAge <= StaleAfter + PollInterval + elapsed
  /\ phase \in { "applying", "checking" } =>
       wsAge <= StaleAfter + PollInterval + Timeout
  /\ phase = "history" =>
       wsAge <= StaleAfter + PollInterval + Timeout + elapsed
  /\ phase = "evaluating" => wsAge <= EventBound

AgeInv ==
  /\ shown.ready \/ shown.reconciled => SnapAgeAt
  /\ shown.ready => EventAgeAt

IInv == ReaderTypeOK /\ AgeInv /\ ReadyOutlivesNoFailure

-----------------------------------------------------------------------------
LEMMA Units ==
  /\ PollInterval \in Nat /\ PollInterval > 0
  /\ Timeout \in Nat /\ Timeout > 0
  /\ StaleAfter \in Nat /\ StaleAfter > 0
  /\ HistoryEvery \in Nat /\ HistoryEvery > 0
  BY ReaderAssumption

LEMMA Bounds ==
  /\ SnapshotBound = 2 * Timeout + PollInterval
  /\ EventBound = StaleAfter + PollInterval + 2 * Timeout
  /\ SnapshotBound \in Nat /\ EventBound \in Nat
  /\ \A b \in Nat : Beyond(b) = b + 1 /\ Beyond(b) \in Nat
  BY Units DEF SnapshotBound, EventBound, Beyond

LEMMA Limits ==
  /\ Limit("fetching") = Timeout /\ Limit("history") = Timeout
  /\ Limit("sleeping") = PollInterval
  /\ Limit("applying") = 0 /\ Limit("checking") = 0
  /\ Limit("evaluating") = 0
  BY DEF Limit

LEMMA Types ==
  ASSUME ReaderTypeOK
  PROVE  /\ elapsed \in Nat /\ snapAge \in Nat /\ wsAge \in Nat
         /\ histAge \in Nat
         /\ phase \in { "fetching", "history" } => elapsed <= Timeout
         /\ phase = "sleeping" => elapsed <= PollInterval
         /\ phase \in { "applying", "checking", "evaluating" } => elapsed = 0
  BY Units, Bounds, Limits DEF ReaderTypeOK, Phases

LEMMA InitIInv ==
  ASSUME Init
  PROVE  IInv
  <1>1. ReaderTypeOK
    BY Units, Bounds, Limits, RecoveryStreakAssumption
       DEF Init, ReaderTypeOK, GateTypeOK, Modes, Phases, NotYet, AtStart
  <1>2. AgeInv /\ ReadyOutlivesNoFailure
    BY DEF Init, AgeInv, ReadyOutlivesNoFailure, AtStart
  <1> QED BY <1>1, <1>2 DEF IInv

-----------------------------------------------------------------------------
(* The steps.                                                              *)

LEMMA GateKeepsType ==
  ASSUME GateTypeOK,
         \/ \E v \in Verdicts : TakeSnapshot(v)
         \/ ForceCloseOnly \/ Acknowledge \/ UNCHANGED gateVars
  PROVE  GateTypeOK'
  <1> USE RecoveryStreakAssumption DEF GateTypeOK, Modes
  <1>1. ASSUME NEW v \in Verdicts, TakeSnapshot(v)
        PROVE  GateTypeOK'
    <2>1. mode' \in Modes
      BY <1>1 DEF TakeSnapshot, SnapshotMode
    <2>2. streak' \in 0 .. RecoveryStreak
      BY <1>1 DEF TakeSnapshot, SnapshotStreak
    <2> QED BY <2>1, <2>2
  <1>2. CASE ForceCloseOnly \/ Acknowledge \/ UNCHANGED gateVars
    BY <1>2 DEF ForceCloseOnly, Acknowledge, gateVars
  <1> QED BY <1>1, <1>2

Statuses == [ready : BOOLEAN, history : BOOLEAN, reconciled : BOOLEAN,
             mode : Modes, ws : BOOLEAN]

\* What each writer of the status makes of it.
LEMMA Published ==
  ASSUME ReaderTypeOK
  PROVE  /\ FetchFails =>
              /\ shown' \in Statuses
              /\ ~shown'.ready /\ ~shown'.reconciled
         /\ Apply =>
              /\ shown' \in Statuses
              /\ shown'.ready = shown.ready
              /\ shown'.history = shown.history /\ shown'.ws = shown.ws
         /\ \A ok \in BOOLEAN : HistoryEnds(ok) =>
              /\ shown' \in Statuses
              /\ shown'.reconciled = shown.reconciled
              /\ shown'.ws = shown.ws
              /\ shown'.ready => shown.ready /\ shown'.history
         /\ Evaluate =>
              /\ shown' \in Statuses
              /\ shown'.ready => /\ snapAge <= StaleAfter /\ wsAge <= StaleAfter
                                 /\ shown.ws /\ shown.history
                                 /\ shown.reconciled
              /\ shown'.history = shown.history /\ shown'.ws = shown.ws
              /\ shown'.reconciled = shown.reconciled
         /\ WsMessage =>
              /\ shown' \in Statuses
              /\ shown'.ready = shown.ready /\ shown'.ws
              /\ shown'.history = shown.history
              /\ shown'.reconciled = shown.reconciled
         /\ WsFails =>
              /\ shown' \in Statuses
              /\ ~shown'.ready /\ shown'.reconciled = shown.reconciled
         /\ Restart =>
              /\ shown' \in Statuses
              /\ ~shown'.ready /\ ~shown'.reconciled
  <1> USE DEF Statuses
  <1>0. shown \in Statuses /\ result \in Modes
    BY DEF ReaderTypeOK
  <1>1. ASSUME FetchFails
        PROVE  /\ shown' \in Statuses
               /\ ~shown'.ready /\ ~shown'.reconciled
    BY <1>0, <1>1 DEF FetchFails, MarkFailure
  <1>2. ASSUME Apply
        PROVE  /\ shown' \in Statuses
               /\ shown'.ready = shown.ready
               /\ shown'.history = shown.history /\ shown'.ws = shown.ws
    BY <1>0, <1>2 DEF Apply
  <1>3. ASSUME NEW ok \in BOOLEAN, HistoryEnds(ok)
        PROVE  /\ shown' \in Statuses
               /\ shown'.reconciled = shown.reconciled
               /\ shown'.ws = shown.ws
               /\ shown'.ready => shown.ready /\ shown'.history
    BY <1>0, <1>3 DEF HistoryEnds, MarkFailure
  <1>4. ASSUME Evaluate
        PROVE  /\ shown' \in Statuses
               /\ shown'.ready => /\ snapAge <= StaleAfter
                                  /\ wsAge <= StaleAfter
                                  /\ shown.ws /\ shown.history
                                  /\ shown.reconciled
               /\ shown'.history = shown.history /\ shown'.ws = shown.ws
               /\ shown'.reconciled = shown.reconciled
    BY <1>0, <1>4 DEF Evaluate
  <1>5. ASSUME WsMessage
        PROVE  /\ shown' \in Statuses
               /\ shown'.ready = shown.ready /\ shown'.ws
               /\ shown'.history = shown.history
               /\ shown'.reconciled = shown.reconciled
    BY <1>0, <1>5 DEF WsMessage
  <1>6. ASSUME WsFails
        PROVE  /\ shown' \in Statuses
               /\ ~shown'.ready /\ shown'.reconciled = shown.reconciled
    BY <1>0, <1>6 DEF WsFails
  <1>7. ASSUME Restart
        PROVE  /\ shown' \in Statuses
               /\ ~shown'.ready /\ ~shown'.reconciled
    BY <1>7 DEF Restart, AtStart, Modes
  <1> HIDE DEF Statuses
  <1> QED BY <1>1, <1>2, <1>3, <1>4, <1>5, <1>6, <1>7

LEMMA TypeKeeps ==
  ASSUME ReaderTypeOK, [Next]_vars
  PROVE  ReaderTypeOK'
  <1>1. GateTypeOK'
    BY GateKeepsType
       DEF ReaderTypeOK, Next, vars, LoopStep, FetchFails, Persist, Apply,
           CheckHistoryDue, HistoryEnds, Evaluate, WakeUp, WsOpens, WsMessage,
           WsFails, WorkerForces, OperatorAcknowledges, Restart, Tick,
           TroubleEnds
  <1>2. phase' \in Phases /\ elapsed' \in 0 .. Limit(phase')
    <2>1. CASE UNCHANGED << phase, elapsed >>
      BY <2>1 DEF ReaderTypeOK
    <2>2. ASSUME NEW p \in Phases, Enter(p)
          PROVE  phase' \in Phases /\ elapsed' \in 0 .. Limit(phase')
      <3>1. Limit(p) \in Nat
        BY Units, Limits DEF Phases
      <3> QED BY <2>2, <3>1 DEF Enter
    <2>3. CASE Tick
      <3>1. /\ phase' = phase /\ elapsed' = elapsed + 1
            /\ elapsed < Limit(phase) /\ phase \in Phases
            /\ elapsed \in 0 .. Limit(phase)
        BY <2>3 DEF Tick, ReaderTypeOK
      <3>2. Limit(phase) \in Nat
        BY <3>1, Units, Limits DEF Phases
      <3> QED BY <3>1, <3>2
    <2> QED
      BY <2>1, <2>2, <2>3
         DEF Next, vars, loopVars, LoopStep, FetchFails, Persist, Apply,
             CheckHistoryDue, HistoryEnds, Evaluate, WakeUp, WsOpens,
             WsMessage, WsFails, WorkerForces, OperatorAcknowledges, Restart,
             TroubleEnds, Phases
  <1>3. result' \in Modes
    BY <1>1
       DEF ReaderTypeOK, GateTypeOK, Next, vars, loopVars, LoopStep,
           FetchFails, Persist, Apply, CheckHistoryDue, HistoryEnds, Evaluate,
           WakeUp, WsOpens, WsMessage, WsFails, WorkerForces,
           OperatorAcknowledges, Restart, Tick, TroubleEnds
  <1>4. /\ snapAge' \in 0 .. Beyond(SnapshotBound)
        /\ wsAge' \in 0 .. Beyond(EventBound)
        /\ histAge' \in 0 .. Beyond(HistoryEvery)
    <2>1. ASSUME NEW b \in Nat, NEW age \in 0 .. Beyond(b)
          PROVE  Older(age, b) \in 0 .. Beyond(b)
      BY DEF Older, Beyond
    <2>2. /\ snapAge' \in { snapAge, 0, NotYet.snap,
                            Older(snapAge, SnapshotBound) }
          /\ wsAge' \in { wsAge, 0, NotYet.ws, Older(wsAge, EventBound) }
          /\ histAge' \in { histAge, 0, NotYet.hist,
                            Older(histAge, HistoryEvery) }
      BY DEF Next, vars, loopVars, wsVars, LoopStep, FetchFails, Persist,
             Apply, CheckHistoryDue, HistoryEnds, Evaluate, WakeUp, WsOpens,
             WsMessage, WsFails, WorkerForces, OperatorAcknowledges, Restart,
             Tick, TroubleEnds
    <2>3. /\ NotYet.snap \in 0 .. Beyond(SnapshotBound)
          /\ NotYet.ws \in 0 .. Beyond(EventBound)
          /\ NotYet.hist \in 0 .. Beyond(HistoryEvery)
          /\ \A b \in Nat : 0 \in 0 .. Beyond(b)
      BY Units, Bounds DEF NotYet
    <2> QED BY <2>1, <2>2, <2>3, Units, Bounds DEF ReaderTypeOK
  <1>5. ws' \in { "open", "closed" } /\ calm' \in BOOLEAN
    BY DEF ReaderTypeOK, Next, vars, wsVars, LoopStep, FetchFails, Persist,
           Apply, CheckHistoryDue, HistoryEnds, Evaluate, WakeUp, WsOpens,
           WsMessage, WsFails, WorkerForces, OperatorAcknowledges, Restart,
           Tick, TroubleEnds
  <1>6. shown' \in Statuses
    <2>1. CASE UNCHANGED shown
      BY <2>1 DEF ReaderTypeOK, Statuses
    <2> QED
      BY <2>1, Published
         DEF Next, vars, LoopStep, Persist, CheckHistoryDue, WakeUp, WsOpens,
             WorkerForces, OperatorAcknowledges, Tick, TroubleEnds
  <1> QED BY <1>1, <1>2, <1>3, <1>4, <1>5, <1>6 DEF ReaderTypeOK, Statuses

\* Ages grow with the time of the phase, and the phases hand them on.
LEMMA AgesKeep ==
  ASSUME IInv, [Next]_vars
  PROVE  AgeInv'
  <1> DEFINE Aged == shown.ready \/ shown.reconciled
  <1>1. ReaderTypeOK /\ (Aged => SnapAgeAt) /\ (shown.ready => EventAgeAt)
    BY DEF IInv, AgeInv
  <1>2. CASE FetchFails
    BY <1>1, <1>2, Published DEF AgeInv
  <1>3. ASSUME NEW v \in Verdicts, Persist(v)
        PROVE  AgeInv'
    BY <1>1, <1>3, Types, Units, Bounds
       DEF Persist, Enter, AgeInv, SnapAgeAt, EventAgeAt, wsVars
  <1>4. CASE Apply
    BY <1>1, <1>4, Types, Units, Bounds, Published
       DEF Apply, Enter, AgeInv, SnapAgeAt, EventAgeAt, wsVars
  <1>5. CASE CheckHistoryDue
    BY <1>1, <1>5, Types, Units, Bounds
       DEF CheckHistoryDue, Enter, AgeInv, SnapAgeAt, EventAgeAt, wsVars
  <1>6. ASSUME NEW ok \in BOOLEAN, HistoryEnds(ok)
        PROVE  AgeInv'
    <2>1. /\ shown'.reconciled = shown.reconciled
          /\ shown'.ready => shown.ready
      BY <1>1, <1>6, Published
    <2> QED
      BY <1>1, <1>6, <2>1, Types, Units, Bounds
         DEF HistoryEnds, Enter, AgeInv, SnapAgeAt, EventAgeAt, wsVars
  <1>7. CASE Evaluate
    <2>1. /\ shown'.reconciled = shown.reconciled
          /\ shown'.ready => shown.reconciled /\ wsAge <= StaleAfter
      BY <1>1, <1>7, Published
    <2> QED
      BY <1>1, <1>7, <2>1, Types, Units, Bounds
         DEF Evaluate, Enter, AgeInv, SnapAgeAt, EventAgeAt, wsVars
  <1>8. CASE WakeUp
    BY <1>1, <1>8, Types, Units, Bounds
       DEF WakeUp, Enter, AgeInv, SnapAgeAt, EventAgeAt, wsVars
  <1>9. CASE WsMessage
    <2>1. /\ shown'.reconciled = shown.reconciled
          /\ shown'.ready = shown.ready
      BY <1>1, <1>9, Published
    <2> QED
      BY <1>1, <1>9, <2>1, Types, Units, Bounds
         DEF WsMessage, loopVars, AgeInv, SnapAgeAt, EventAgeAt
  <1>10. CASE WsFails
    <2>1. /\ shown'.reconciled = shown.reconciled /\ ~shown'.ready
      BY <1>1, <1>10, Published
    <2> QED
      BY <1>1, <1>10, <2>1 DEF WsFails, loopVars, AgeInv, SnapAgeAt
  <1>11. CASE Restart
    BY <1>1, <1>11, Published DEF AgeInv
  <1>12. CASE Tick
    <2>1. /\ phase' = phase /\ elapsed' = elapsed + 1 /\ shown' = shown
          /\ elapsed < Limit(phase)
          /\ snapAge' = Older(snapAge, SnapshotBound)
          /\ wsAge' = Older(wsAge, EventBound)
      BY <1>12 DEF Tick
    <2>2. phase \in { "fetching", "history", "sleeping" } /\ elapsed \in Nat
      BY <1>1, <2>1, Limits DEF ReaderTypeOK, Phases
    <2>3. snapAge' <= snapAge + 1 /\ wsAge' <= wsAge + 1
      BY <1>1, <2>1, Types, Bounds DEF Older
    <2>4. /\ snapAge \in Nat /\ snapAge' \in Int
          /\ wsAge \in Nat /\ wsAge' \in Int
      BY <1>1, <2>1, Types DEF Older
    <2>5. Aged => SnapAgeAt'
      BY <1>1, <2>1, <2>2, <2>3, <2>4, Units DEF SnapAgeAt
    <2>6. shown.ready => EventAgeAt'
      BY <1>1, <2>1, <2>2, <2>3, <2>4, Units DEF EventAgeAt
    <2> QED BY <2>1, <2>5, <2>6 DEF AgeInv
  <1>13. CASE UNCHANGED << loopVars, wsAge, shown >>
    BY <1>1, <1>13 DEF loopVars, AgeInv, SnapAgeAt, EventAgeAt
  <1> QED
    BY <1>2, <1>3, <1>4, <1>5, <1>6, <1>7, <1>8, <1>9, <1>10, <1>11, <1>12,
       <1>13
       DEF Next, vars, wsVars, LoopStep, WsOpens, WorkerForces,
           OperatorAcknowledges, TroubleEnds

\* Every failure takes readiness down in the step that records it.
LEMMA FailuresKeep ==
  ASSUME IInv, [Next]_vars
  PROVE  ReadyOutlivesNoFailure'
  <1> USE DEF ReadyOutlivesNoFailure
  <1>1. ReaderTypeOK /\ ReadyOutlivesNoFailure
    BY DEF IInv
  <1>2. CASE FetchFails \/ WsFails \/ Restart
    BY <1>1, <1>2, Published
  <1>3. CASE Apply
    BY <1>1, <1>3, Published DEF Apply, Enter
  <1>4. ASSUME NEW ok \in BOOLEAN, HistoryEnds(ok)
        PROVE  ReadyOutlivesNoFailure'
    <2>1. /\ shown'.reconciled = shown.reconciled
          /\ shown'.ws = shown.ws
          /\ shown'.ready => shown.ready /\ shown'.history
      BY <1>1, <1>4, Published
    <2> QED BY <1>1, <1>4, <2>1 DEF HistoryEnds, Enter
  <1>5. CASE Evaluate
    BY <1>1, <1>5, Published
  <1>6. CASE WsMessage
    BY <1>1, <1>6, Published DEF WsMessage, loopVars
  <1>7. ASSUME NEW v \in Verdicts, Persist(v)
        PROVE  ReadyOutlivesNoFailure'
    BY <1>1, <1>7 DEF Persist, Enter
  <1>8. CASE CheckHistoryDue \/ WakeUp
    BY <1>1, <1>8 DEF CheckHistoryDue, WakeUp, Enter
  <1>9. CASE UNCHANGED << phase, shown >>
    BY <1>1, <1>9
  <1> QED
    BY <1>2, <1>3, <1>4, <1>5, <1>6, <1>7, <1>8, <1>9
       DEF Next, vars, loopVars, LoopStep, WsOpens, WorkerForces,
           OperatorAcknowledges, Tick, TroubleEnds

\* The clock of the cycle bounds what the ages have become.
THEOREM InductiveInvariant == Spec => []IInv
  BY InitIInv, TypeKeeps, AgesKeep, FailuresKeep, PTL DEF Spec, IInv

\* Phases, ages and the published status keep their types.
THEOREM TypeCorrect == Spec => []ReaderTypeOK
  BY InductiveInvariant, PTL DEF IInv

\* GET /ready never rests on a snapshot or an event older than one cycle of
\* timeouts can make them.
THEOREM RecentReadiness == Spec => []ReadyIsRecent
  <1>1. ASSUME IInv, shown.ready
        PROVE  snapAge <= SnapshotBound /\ wsAge <= EventBound
    <2>1. SnapAgeAt /\ EventAgeAt /\ ReaderTypeOK
      BY <1>1 DEF IInv, AgeInv
    <2> QED
      BY <2>1, Types, Units, Bounds
         DEF SnapAgeAt, EventAgeAt, ReaderTypeOK, Phases
  <1>2. IInv => ReadyIsRecent
    BY <1>1 DEF ReadyIsRecent
  <1> QED BY <1>2, InductiveInvariant, PTL

\* No failure of the websocket, the history or a snapshot is outlived by the
\* readiness published before it.
THEOREM NoFailureOutlived == Spec => []ReadyOutlivesNoFailure
  BY InductiveInvariant, PTL DEF IInv

\* The reader, the worker and the operator move the reconciliation row only as
\* ReconciliationGate allows, which Reconciliation implements.
THEOREM GateIsShared == Spec => GateSpec
  <1>1. Init => GateInit
    BY DEF Init, GateInit
  <1>2. [Next]_vars => [GateNext]_gateVars
    <2> SUFFICES ASSUME [Next]_vars, ~UNCHANGED gateVars PROVE GateNext
      OBVIOUS
    <2>1. CASE LoopStep
      BY <2>1 DEF LoopStep, FetchFails, Persist, Apply, CheckHistoryDue,
         HistoryEnds, Evaluate, WakeUp, GateNext
    <2>2. CASE WorkerForces \/ OperatorAcknowledges
      BY <2>2 DEF WorkerForces, OperatorAcknowledges, GateNext
    <2>3. CASE WsOpens \/ WsMessage \/ WsFails \/ Restart \/ Tick
               \/ TroubleEnds
      BY <2>3 DEF WsOpens, WsMessage, WsFails, Restart, Tick, TroubleEnds
    <2>4. CASE UNCHANGED vars
      BY <2>4 DEF vars
    <2> QED BY <2>1, <2>2, <2>3, <2>4 DEF Next
  <1> QED BY <1>1, <1>2, PTL DEF Spec, GateSpec
=============================================================================
