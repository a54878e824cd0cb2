------------------------- MODULE LiveExecutionProofs -------------------------
(***************************************************************************)
(* Theorems about LiveExecution, for every set of intents, symbols and     *)
(* handlers, every size of an entry and every length of the recovery run.  *)
(*                                                                         *)
(* All of them rest on IInv.  The safety of the live path is an argument   *)
(* about what may still be under way at the exchange: an entry or a close  *)
(* on its way keeps its execution in a status that holds the symbol and    *)
(* the startup lock (InflightOf), what was sent follows from the status    *)
(* and the program point (SentOf), and an entry on its way finds its       *)
(* symbol flat (FlatInv), which is why two intents never hold one symbol.  *)
(***************************************************************************)
EXTENDS LiveExecution, TLAPS

-----------------------------------------------------------------------------
(* What a step leaves alone.                                               *)

\* The invariant, for one intent.
LEMMA InvOf ==
  ASSUME IInv, NEW i \in Intents
  PROVE  SentOf(i) /\ InflightOf(i)
  BY DEF IInv, SentInv, InflightInv

\* A step that writes no row disturbs no statement about rows.
LEMMA RowsFrame ==
  ASSUME IInv, UNCHANGED << intent, exec >>
  PROVE  LedgersAgree' /\ OneActivePerSymbol'
  BY DEF IInv, LedgersAgree, OneActivePerSymbol

\* A step that does not reach the exchange sends nothing and moves no
\* exposure.
LEMMA ExchangeFrame ==
  ASSUME IInv, UNCHANGED exchangeVars
  PROVE  CloidInv' /\ OneHolderPerSymbol'
  BY DEF IInv, exchangeVars, CloidInv, OneHolderPerSymbol

\* Protected executions stay covered while no row, exposure or stop moves.
LEMMA CoverFrame ==
  ASSUME IInv, UNCHANGED << exec, held, stop >>
  PROVE  ProtectedIsCovered'
  BY DEF IInv, ProtectedIsCovered

-----------------------------------------------------------------------------
(* The worker.                                                             *)

\* The worker's transaction finds both rows as run_once left them: its
\* ConcurrentTransition branch is never taken.
LEMMA FinishEffect ==
  ASSUME IInv, NEW t, NEW point, wpc \in BusyPoints,
         t.from = StatusAt(wpc), IntentStatusOf(t.from) = {t.was},
         FinishLive(t, point)
  PROVE  /\ wcur \in Intents /\ exec[wcur] = t.from
         /\ exec' = [exec EXCEPT ![wcur] = t.to]
         /\ intent' = [intent EXCEPT ![wcur] = t.becomes]
         /\ GoTo(point)
  <1>1. wcur \in Intents /\ exec[wcur] = t.from
    BY DEF IInv, WorkerInv
  <1>2. intent[wcur] = t.was
    BY <1>1 DEF IInv, LedgersAgree
  <1> QED BY <1>1, <1>2 DEF FinishLive

\* Steps that move only the worker.  Where it lands, the invariant asks for
\* nothing new but what the step's guard has just established.
LEMMA PointInv ==
  ASSUME IInv, TypeOK',
         \/ CheckGate \/ NothingToClaim \/ CheckPosition \/ EntryAccepted
         \/ ProtectionAccepted \/ RecordProtectionOrders \/ StorageFails
         \/ Crash \/ Start
  PROVE  IInv'
  <1> USE DEF CheckGate, NothingToClaim, CheckPosition, EntryAccepted,
              ProtectionAccepted, RecordProtectionOrders, StorageFails, Crash,
              Start, GoTo
  <1>1. UNCHANGED << intent, exec, fillRow, exchangeVars >>
    BY DEF storeVars
  <1>2. UNCHANGED << inflight, sent, got, held, stop >>
    BY <1>1 DEF exchangeVars
  <1>3. WorkerInv'
    BY <1>1 DEF IInv, WorkerInv, TypeOK, BusyPoints, EntryPoints, StatusAt,
       handlerVars
  <1>4. ASSUME NEW i \in Intents PROVE SentOf(i)'
    BY <1>1, <1>2, InvOf DEF SentOf, BusyPoints
  <1>5. ASSUME NEW i \in Intents PROVE InflightOf(i)'
    BY <1>1, <1>2, InvOf, LiveAssumption DEF InflightOf, BusyPoints
  <1>6. FlatInv'
    BY <1>1, <1>2 DEF IInv, FlatInv, SymbolFlat, SameSymbol, BusyPoints
  <1>7. ExposureInv'
    BY <1>1, <1>2 DEF FullStop, IInv, TypeOK, ExposureInv, WorkerInv,
       BusyPoints, EntryPoints, StatusAt
  <1> QED
    BY <1>1, <1>2, <1>3, <1>4, <1>5, <1>6, <1>7, RowsFrame, ExchangeFrame,
       CoverFrame DEF IInv, SentInv, InflightInv

\* What distinguishes the transactions.
Moves ==
  { MarkFailed, MarkEntryUnknown, RecordEntryFill, MarkProtected,
    MarkEmergencyClosing, MarkClosed, MarkReconciliationRequired }

\* From where to where the worker's transactions go.
LEMMA MoveKinds ==
  \A t \in Moves :
    \/ /\ t.from = "entry_submitting" /\ t.was = "submitting"
       /\ \/ t.to = "failed" /\ t.becomes = "failed"
          \/ t.to = "entry_unknown" /\ t.becomes = "failed" /\ t.force
          \/ t.to = "entry_filled" /\ t.becomes = "executing"
    \/ /\ t.from = "entry_filled" /\ t.was = "executing"
       /\ \/ t.to = "protected" /\ t.becomes = "completed" /\ ~ t.force
          \/ t.to = "emergency_closing" /\ t.becomes = "executing"
    \/ /\ t.from = "emergency_closing" /\ t.was = "executing"
       /\ t.to \in { "closed", "reconciliation_required" }
       /\ t.becomes = "failed" /\ t.force
  BY DEF Moves, Move, MarkFailed, MarkEntryUnknown, RecordEntryFill,
         MarkProtected, MarkEmergencyClosing, MarkClosed,
         MarkReconciliationRequired

\* The transactions of the worker move both rows.  What the guard of each
\* has to establish is what the status it moves to asks for.
LEMMA MoveInv ==
  ASSUME IInv, TypeOK', NEW t \in Moves, NEW point \in { "idle", "protect",
  "close" },
         wpc \in BusyPoints, t.from = StatusAt(wpc), FinishLive(t, point),
         point = CASE t.to = "entry_filled" -> "protect"
                   [] t.to = "emergency_closing" -> "close"
                   [] OTHER -> "idle",
         UNCHANGED << exchangeVars, hpc, hint >>,
         IF t.to = "entry_filled"
         THEN /\ got[wcur] > 0
              /\ wpc' = "protect" =>
                   fillRow' = [fillRow EXCEPT ![wcur] = got[wcur]]
         ELSE UNCHANGED fillRow,
         t.to \in { "entry_filled", "failed" } =>
           << "entry", wcur >> \notin inflight,
         t.to = "protected" => wpc = "booked",
         t.to = "closed" => << "emergency_close", wcur >> \notin inflight
  PROVE  IInv'
  <1>1. UNCHANGED << inflight, sent, got, held, stop >>
    BY DEF exchangeVars
  <1>2. IntentStatusOf(t.from) = {t.was}
    BY MoveKinds DEF IntentStatusOf
  <1>3. /\ wcur \in Intents /\ exec[wcur] = t.from
        /\ exec' = [exec EXCEPT ![wcur] = t.to]
        /\ intent' = [intent EXCEPT ![wcur] = t.becomes]
        /\ wpc' = point /\ reply' = "none"
        /\ wcur' = IF point = "idle" THEN NoIntent ELSE wcur
    BY <1>2, FinishEffect DEF GoTo, BusyPoints
  <1> USE <1>1, <1>3, MoveKinds
  <1>4. LedgersAgree'
    BY DEF IInv, TypeOK, LedgersAgree, IntentStatusOf
  <1>5. OneActivePerSymbol'
    BY DEF IInv, TypeOK, OneActivePerSymbol, SameSymbol, Released
  <1>6. WorkerInv'
    BY DEF IInv, TypeOK, WorkerInv, BusyPoints, EntryPoints, StatusAt
  <1>7. ASSUME NEW i \in Intents PROVE SentOf(i)'
    BY InvOf, LiveAssumption DEF IInv, TypeOK, SentOf
  <1>8. ASSUME NEW i \in Intents PROVE InflightOf(i)'
    <2>1. CASE i = wcur
      <3>1. t.from = exec[i] /\ exec'[i] = t.to
        BY <2>1 DEF IInv, TypeOK
      <3> QED BY <2>1, <3>1, InvOf, LiveAssumption DEF InflightOf
    <2>2. CASE i # wcur
      <3>1. exec'[i] = exec[i] /\ wcur' # i
        BY <2>2, LiveAssumption DEF IInv, TypeOK
      <3> QED BY <2>2, <3>1, InvOf DEF InflightOf
    <2> QED BY <2>1, <2>2
  <1>9. FlatInv'
    BY DEF IInv, FlatInv, SymbolFlat, SameSymbol
  <1>10. ExposureInv'
    BY LiveAssumption DEF IInv, TypeOK, ExposureInv
  <1>11. ProtectedIsCovered'
    BY DEF IInv, TypeOK, ProtectedIsCovered, ExposureInv
  <1> QED
    BY <1>4, <1>5, <1>6, <1>7, <1>8, <1>9, <1>10, <1>11,
       ExchangeFrame DEF IInv, SentInv, InflightInv

\* Each transaction is one of those, and its guard establishes what it must.
LEMMA WorkerMoveInv ==
  ASSUME IInv, TypeOK',
         \/ EntryFilled \/ EntryRejected \/ EntryOutcomeUnknown
         \/ ProtectionVerified \/ ProtectionFails \/ CloseConfirmed
         \/ CloseUnconfirmed
  PROVE  IInv'
  <1>1. /\ wpc \in BusyPoints /\ wcur \in Intents
        /\ UNCHANGED << exchangeVars, hpc, hint >>
    BY DEF EntryFilled, EntryRejected, EntryOutcomeUnknown,
           ProtectionVerified, ProtectionFails, CloseConfirmed,
           CloseUnconfirmed, handlerVars, BusyPoints, IInv, WorkerInv
  <1>2. InflightOf(wcur)
    BY <1>1, InvOf
  <1>3. CASE EntryFilled
    <2>1. /\ RecordEntryFill \in Moves
          /\ RecordEntryFill.from = StatusAt(wpc)
          /\ RecordEntryFill.to = "entry_filled"
      BY <1>3 DEF EntryFilled, Moves, Move, RecordEntryFill, StatusAt,
         EntryPoints
    <2> QED
      BY <1>1, <1>2, <1>3, <2>1, MoveInv DEF EntryFilled, InflightOf
  <1>4. CASE EntryRejected
    <2>1. /\ MarkFailed \in Moves
          /\ MarkFailed.from = StatusAt(wpc)
          /\ MarkFailed.to = "failed"
      BY <1>4 DEF EntryRejected, Moves, Move, MarkFailed, StatusAt, EntryPoints
    <2> QED
      BY <1>1, <1>2, <1>4, <2>1, MoveInv DEF EntryRejected, InflightOf
  <1>5. CASE EntryOutcomeUnknown
    <2>1. /\ MarkEntryUnknown \in Moves
          /\ MarkEntryUnknown.from = StatusAt(wpc)
          /\ MarkEntryUnknown.to = "entry_unknown"
      BY <1>5 DEF EntryOutcomeUnknown, Moves, Move, MarkEntryUnknown,
         StatusAt, EntryPoints
    <2> QED
      BY <1>1, <1>2, <1>5, <2>1, MoveInv DEF EntryOutcomeUnknown, InflightOf
  <1>6. CASE ProtectionVerified
    <2>1. /\ MarkProtected \in Moves
          /\ MarkProtected.from = StatusAt(wpc)
          /\ MarkProtected.to = "protected"
      BY <1>6 DEF ProtectionVerified, Moves, Move, MarkProtected, StatusAt,
         EntryPoints
    <2> QED
      BY <1>1, <1>2, <1>6, <2>1, MoveInv DEF ProtectionVerified, InflightOf
  <1>7. CASE ProtectionFails
    <2>1. /\ MarkEmergencyClosing \in Moves
          /\ MarkEmergencyClosing.from = StatusAt(wpc)
          /\ MarkEmergencyClosing.to = "emergency_closing"
      BY <1>7 DEF ProtectionFails, Moves, Move, MarkEmergencyClosing,
         StatusAt, EntryPoints
    <2> QED
      BY <1>1, <1>2, <1>7, <2>1, MoveInv DEF ProtectionFails, InflightOf
  <1>8. CASE CloseConfirmed
    <2>1. /\ MarkClosed \in Moves
          /\ MarkClosed.from = StatusAt(wpc)
          /\ MarkClosed.to = "closed"
      BY <1>8 DEF CloseConfirmed, Moves, Move, MarkClosed, StatusAt,
         EntryPoints
    <2> QED
      BY <1>1, <1>2, <1>8, <2>1, MoveInv DEF CloseConfirmed, InflightOf
  <1>9. CASE CloseUnconfirmed
    <2>1. /\ MarkReconciliationRequired \in Moves
          /\ MarkReconciliationRequired.from = StatusAt(wpc)
          /\ MarkReconciliationRequired.to = "reconciliation_required"
      BY <1>9 DEF CloseUnconfirmed, Moves, Move, MarkReconciliationRequired,
         StatusAt, EntryPoints
    <2> QED
      BY <1>1, <1>2, <1>9, <2>1, MoveInv DEF CloseUnconfirmed, InflightOf
  <1> QED BY <1>3, <1>4, <1>5, <1>6, <1>7, <1>8, <1>9

\* Requests that leave the worker.
LEMMA SendInv ==
  ASSUME IInv, TypeOK', SendEntry \/ SendProtection \/ SendClose
  PROVE  IInv'
  <1> USE DEF SendEntry, SendProtection, SendClose, Send, GoTo
  <1> PICK r \in Roles :
        \/ r = "entry" /\ SendEntry
        \/ r = "stop_loss" /\ SendProtection
        \/ r = "emergency_close" /\ SendClose
    BY DEF Roles
  <1> DEFINE c == << r, wcur >>
  <1>1. UNCHANGED << intent, exec, fillRow, hpc, hint, got, held, stop >>
    BY DEF storeVars, handlerVars
  <1>2. /\ wcur \in Intents /\ wcur' = wcur
        /\ reply' = "none"
        /\ inflight' = inflight \cup {c}
        /\ sent' = [sent EXCEPT ![c] = @ + 1]
    BY DEF IInv, WorkerInv, BusyPoints
  <1>3. c \in Cloids /\ sent[c] = 0 /\ sent \in [Cloids -> Nat]
    BY <1>2, InvOf DEF SentOf, Cloids, IInv, TypeOK
  <1>4. WorkerInv'
    BY <1>1 DEF IInv, WorkerInv, BusyPoints, EntryPoints, StatusAt
  <1>5. CloidInv'
    BY <1>2, <1>3 DEF IInv, CloidInv
  <1>6. ASSUME NEW i \in Intents PROVE SentOf(i)'
    <2>1. \A q \in Roles : sent'[<< q, i >>] =
            IF q = r /\ i = wcur THEN 1 ELSE sent[<< q, i >>]
      BY <1>2, <1>3 DEF Cloids
    <2> QED
      BY <1>1, <1>2, <1>4, <2>1, InvOf DEF SentOf, Roles, WorkerInv,
         BusyPoints, EntryPoints, StatusAt
  <1>7. ASSUME NEW i \in Intents PROVE InflightOf(i)'
    BY <1>1, <1>2, <1>4, InvOf DEF InflightOf, WorkerInv, BusyPoints,
       EntryPoints, StatusAt
  <1>8. FlatInv'
    BY <1>1, <1>2 DEF IInv, FlatInv, SymbolFlat, SameSymbol
  <1>9. ExposureInv'
    BY <1>1, <1>2 DEF IInv, ExposureInv
  <1>10. OneHolderPerSymbol'
    BY <1>1 DEF IInv, OneHolderPerSymbol
  <1> QED
    BY <1>1, <1>4, <1>5, <1>6, <1>7, <1>8, <1>9, <1>10, RowsFrame, CoverFrame
       DEF IInv, SentInv, InflightInv

\* The claim: its NOT EXISTS keeps the symbol to one execution, and nothing
\* was sent for a pending one.
LEMMA ClaimExecutionInv ==
  ASSUME IInv, TypeOK', NEW i \in Intents, ClaimExecution(i)
  PROVE  IInv'
  <1>1. UNCHANGED << exchangeVars, fillRow, hpc, hint >>
    BY DEF ClaimExecution, handlerVars
  <1>2. UNCHANGED << inflight, sent, got, held, stop >>
    BY <1>1 DEF exchangeVars
  <1>3. exec[i] = "pending" /\ intent[i] = "approved"
    BY DEF ClaimExecution, Claimable, IInv, LedgersAgree, IntentStatusOf
  <1>4. /\ exec' = [exec EXCEPT ![i] = "entry_submitting"]
        /\ intent' = [intent EXCEPT ![i] = "submitting"]
        /\ wpc' = "claimed" /\ wcur' = i /\ reply' = "none"
    BY <1>3 DEF ClaimExecution
  <1> USE <1>2, <1>3, <1>4
  <1>5. LedgersAgree'
    BY DEF IInv, TypeOK, LedgersAgree, IntentStatusOf
  <1>6. OneActivePerSymbol'
    BY DEF ClaimExecution, Claimable, IInv, TypeOK, OneActivePerSymbol,
           SameSymbol, Released
  <1>7. WorkerInv'
    BY <1>1 DEF IInv, TypeOK, WorkerInv, BusyPoints, EntryPoints, StatusAt
  <1>8. ASSUME NEW j \in Intents PROVE SentOf(j)'
    BY InvOf DEF IInv, TypeOK, SentOf
  <1>9. ASSUME NEW j \in Intents PROVE InflightOf(j)'
    <2>1. \A r \in {"entry", "stop_loss", "emergency_close"} : << r,
    i >> \notin inflight
      <3>1. \A r \in Roles : sent[<< r, i >>] = 0
        BY InvOf DEF SentOf, Roles
      <3>2. \A r \in Roles : << r, i >> \in Cloids
        BY DEF Cloids
      <3> QED BY <3>1, <3>2 DEF Roles, IInv, CloidInv
    <2> QED BY <2>1, InvOf DEF IInv, TypeOK, InflightOf
  <1>10. FlatInv'
    BY DEF IInv, FlatInv, SymbolFlat, SameSymbol
  <1>11. ExposureInv'
    BY <1>1 DEF IInv, TypeOK, ExposureInv
  <1>12. ProtectedIsCovered'
    BY DEF IInv, TypeOK, ProtectedIsCovered
  <1> QED
    BY <1>1, <1>5, <1>6, <1>7, <1>8, <1>9, <1>10, <1>11, <1>12,
       ExchangeFrame DEF IInv, SentInv, InflightInv

-----------------------------------------------------------------------------
(* The handlers, the reader, the operator and the clock.                   *)

\* Steps of the handlers, which never touch the worker or the exchange.
LEMMA HandlerFrame ==
  ASSUME IInv, TypeOK', LedgersAgree',
         UNCHANGED << exec, fillRow, workerVars, exchangeVars >>,
         \A h \in Handlers : hpc'[h] # "idle" => hint'[h] \in Intents
  PROVE  IInv'
  <1>1. UNCHANGED << wpc, wcur, reply, inflight, sent, got, held, stop >>
    BY DEF workerVars, exchangeVars
  <1>2. OneActivePerSymbol'
    BY DEF IInv, OneActivePerSymbol
  <1>3. WorkerInv'
    BY <1>1 DEF IInv, WorkerInv
  <1>4. ASSUME NEW i \in Intents PROVE SentOf(i)' /\ InflightOf(i)'
    BY <1>1, InvOf DEF SentOf, InflightOf
  <1>5. FlatInv' /\ ExposureInv'
    BY <1>1 DEF IInv, FlatInv, SymbolFlat, ExposureInv
  <1> QED
    BY <1>1, <1>2, <1>3, <1>4, <1>5, ExchangeFrame, CoverFrame
       DEF IInv, SentInv, InflightInv

\* The handlers write an intent only before its execution exists.
LEMMA HandlerInv ==
  ASSUME IInv, TypeOK', NEW h \in Handlers, HandlerStep(h)
  PROVE  IInv'
  <1>1. CASE \E i \in Intents, point \in { "submit", "confirm" } :
               EnterRequest(h, i, point)
    <2> PICK i \in Intents, point \in { "submit", "confirm" } :
               EnterRequest(h, i, point)
      BY <1>1
    <2>1. UNCHANGED << intent, exec, fillRow, workerVars, exchangeVars >>
      BY DEF EnterRequest, storeVars
    <2>2. \A g \in Handlers : hpc'[g] # "idle" => hint'[g] \in Intents
      BY DEF EnterRequest, IInv, TypeOK, WorkerInv
    <2> QED BY <2>1, <2>2, RowsFrame, HandlerFrame
  <1>2. CASE SubmitIntent(h)
    <2>1. UNCHANGED << exec, fillRow, workerVars, exchangeVars >>
      BY <1>2 DEF SubmitIntent
    <2>2. \A g \in Handlers : hpc'[g] # "idle" => hint'[g] \in Intents
      BY <1>2 DEF SubmitIntent, EndRequest, IInv, TypeOK, WorkerInv
    <2>3. LedgersAgree'
      BY <1>2 DEF SubmitIntent, IInv, TypeOK, LedgersAgree, IntentStatusOf
    <2> QED BY <2>1, <2>2, <2>3, HandlerFrame
  <1>3. CASE ConfirmRecheck(h)
    <2>1. UNCHANGED << exec, fillRow, workerVars, exchangeVars >>
      BY <1>3 DEF ConfirmRecheck
    <2>2. \A g \in Handlers : hpc'[g] # "idle" => hint'[g] \in Intents
      BY <1>3 DEF ConfirmRecheck, EndRequest, IInv, TypeOK, WorkerInv
    <2>3. \A i \in Intents : "risk_rejected" \in TradeSuccessors(intent[i]) =>
            exec[i] = "absent"
      BY DEF TradeSuccessors, IInv, TypeOK, LedgersAgree, IntentStatusOf
    <2>4. LedgersAgree'
      BY <1>3, <2>3 DEF ConfirmRecheck, IInv, TypeOK, LedgersAgree,
                        IntentStatusOf
    <2> QED BY <2>1, <2>2, <2>4, HandlerFrame
  <1>4. CASE ConfirmExpired(h) \/ HandlerGivesUp(h)
    <2>1. UNCHANGED << intent, exec, fillRow, workerVars, exchangeVars >>
      BY <1>4 DEF ConfirmExpired, HandlerGivesUp, storeVars
    <2>2. EndRequest(h)
      BY <1>4 DEF ConfirmExpired, HandlerGivesUp
    <2>3. \A g \in Handlers : hpc'[g] # "idle" => hint'[g] \in Intents
      BY <2>2 DEF EndRequest, IInv, TypeOK, WorkerInv
    <2> QED BY <2>1, <2>3, RowsFrame, HandlerFrame
  <1>5. CASE ConfirmIntent(h)
    <2> DEFINE i == hint[h]
    <2>1. UNCHANGED << fillRow, workerVars, exchangeVars >> /\ i \in Intents
      BY <1>5 DEF ConfirmIntent, IInv, WorkerInv
    <2>2. UNCHANGED << wpc, wcur, reply, inflight, sent, got, held, stop >>
      BY <2>1 DEF workerVars, exchangeVars
    <2>3. \A g \in Handlers : hpc'[g] # "idle" => hint'[g] \in Intents
      BY <1>5 DEF ConfirmIntent, EndRequest, IInv, TypeOK, WorkerInv
    <2>4. CASE ~ Confirmable(i)
      <3>1. UNCHANGED << intent, exec >>
        BY <1>5, <2>4 DEF ConfirmIntent
      <3> QED BY <2>1, <2>3, <3>1, RowsFrame, HandlerFrame
    <2>5. CASE Confirmable(i)
      <3>1. exec[i] = "absent"
        BY <2>1, <2>5 DEF Confirmable, IInv, TypeOK, LedgersAgree,
                          IntentStatusOf
      <3>2. /\ intent' = [intent EXCEPT ![i] = "approved"]
            /\ exec' = [exec EXCEPT ![i] = "pending"]
        BY <1>5, <2>5 DEF ConfirmIntent
      <3> HIDE DEF i
      <3> USE <2>1, <2>2, <3>1, <3>2
      <3>3. LedgersAgree'
        BY DEF IInv, TypeOK, LedgersAgree, IntentStatusOf
      <3>4. OneActivePerSymbol'
        BY DEF IInv, TypeOK, OneActivePerSymbol, SameSymbol, Released
      <3>5. WorkerInv'
        BY <2>3 DEF IInv, TypeOK, WorkerInv, EntryPoints, StatusAt
      <3>6. ASSUME NEW j \in Intents PROVE SentOf(j)'
        BY InvOf DEF IInv, TypeOK, SentOf
      <3>7. ASSUME NEW j \in Intents PROVE InflightOf(j)'
        BY InvOf DEF IInv, TypeOK, InflightOf
      <3>8. FlatInv'
        BY DEF IInv, FlatInv, SymbolFlat, SameSymbol
      <3>9. ExposureInv'
        BY DEF IInv, TypeOK, ExposureInv
      <3>10. ProtectedIsCovered'
        BY DEF IInv, TypeOK, ProtectedIsCovered
      <3> QED
        BY <3>3, <3>4, <3>5, <3>6, <3>7, <3>8, <3>9, <3>10, ExchangeFrame
           DEF IInv, SentInv, InflightInv
    <2> QED BY <2>4, <2>5
  <1> QED BY <1>1, <1>2, <1>3, <1>4, <1>5 DEF HandlerStep

\* Snapshots, acknowledgements, the kill switch and deadlines write no row
\* the invariant speaks of.
LEMMA OutsideInv ==
  ASSUME IInv, TypeOK', OutsideStep
  PROVE  IInv'
  <1>1. UNCHANGED << intent, exec, fillRow, workerVars, handlerVars,
                     exchangeVars >>
    BY DEF OutsideStep, Snapshot, OperatorAcknowledges, SetKillSwitch, Expire,
           storeVars
  <1>2. \A h \in Handlers : hpc'[h] # "idle" => hint'[h] \in Intents
    BY <1>1 DEF handlerVars, IInv, WorkerInv
  <1> QED BY <1>1, <1>2, RowsFrame, HandlerFrame

-----------------------------------------------------------------------------
(* The exchange.                                                           *)

\* The exchange moves no row and no program point.
LEMMA ExchangeStepFrame ==
  ASSUME IInv, TypeOK', UNCHANGED << intent, exec, fillRow, wpc, wcur, hpc,
                                    hint >>,
         wpc \notin { "entry_wait", "protect_wait", "close_wait" } =>
           UNCHANGED reply
  PROVE  LedgersAgree' /\ OneActivePerSymbol' /\ WorkerInv'
  BY RowsFrame DEF IInv, WorkerInv

\* A request that is executed or lost was sent, and is no longer under way.
LEMMA TookEffect ==
  ASSUME IInv, NEW i \in Intents, NEW r \in Roles, Took(r, i)
  PROVE  /\ UNCHANGED << intent, exec, fillRow, wpc, wcur, hpc, hint, sent >>
         /\ inflight' = inflight \ { << r, i >> }
         /\ << r, i >> \in inflight
         /\ CloidInv'
         /\ UNCHANGED got => \A j \in Intents : SentOf(j)'
         /\ inflight' \subseteq inflight
  <1>1. /\ UNCHANGED << intent, exec, fillRow, wpc, wcur, hpc, hint, sent >>
        /\ inflight' = inflight \ { << r, i >> }
        /\ << r, i >> \in inflight
    BY DEF Took, storeVars, handlerVars
  <1>2. CloidInv'
    BY <1>1 DEF IInv, CloidInv
  <1>3. ASSUME NEW j \in Intents, UNCHANGED got PROVE SentOf(j)'
    BY <1>1, <1>3, InvOf DEF SentOf
  <1> QED BY <1>1, <1>2, <1>3

\* An entry fills at any time after it was sent: its execution still holds
\* the symbol, and the symbol is flat.
LEMMA ExecuteEntryInv ==
  ASSUME IInv, TypeOK', NEW i \in Intents, NEW size \in Sizes,
         NEW r \in Answers,
         ExecuteEntry(i, size, r)
  PROVE  IInv'
  <1>1. Took("entry", i)
    BY DEF ExecuteEntry
  <1>2. "entry" \in Roles
    BY DEF Roles
  <1>3. /\ got' = [got EXCEPT ![i] = size]
        /\ held' = [held EXCEPT ![i] = size]
        /\ UNCHANGED stop
        /\ reply' = IF wcur = i /\ wpc = "entry_wait" THEN r ELSE reply
    BY DEF ExecuteEntry, Answer
  <1> USE <1>3
  <1>4. /\ exec[i] \in { "entry_submitting", "entry_unknown" }
        /\ wcur = i => wpc = "entry_wait"
        /\ \A j \in SameSymbol(i) : held[j] = 0
    BY <1>1, <1>2, TookEffect, InvOf DEF InflightOf, IInv, FlatInv, SymbolFlat
  <1>5. \A j \in SameSymbol(i) \ {i} : exec[j] \in Released
    BY <1>4 DEF IInv, OneActivePerSymbol, Released
  <1>6. LedgersAgree' /\ OneActivePerSymbol' /\ WorkerInv'
    BY <1>1, <1>2, TookEffect, ExchangeStepFrame
  <1>7. ASSUME NEW j \in Intents PROVE InflightOf(j)'
    <2>1. /\ UNCHANGED << exec, wpc, wcur >>
          /\ inflight' = inflight \ { << "entry", i >> }
      BY <1>1, <1>2, TookEffect
    <2>2. CASE j = i
      <3>1. << "entry", j >> \notin inflight'
        BY <2>1, <2>2
      <3>2. wcur = j => wpc \notin { "protect_wait", "close_wait" }
        BY <1>4, <2>2
      <3>3. /\ exec[j] # "protected"
            /\ wcur = j => wpc \notin { "verify", "booked" }
            /\ << "emergency_close", j >> \notin inflight
        BY <1>4, <2>2, InvOf DEF InflightOf
      <3> QED BY <2>1, <3>1, <3>2, <3>3 DEF InflightOf
    <2>3. CASE j # i
      <3>1. wcur = j => reply' = reply
        BY <2>3
      <3>2. InflightOf(j)
        BY InvOf
      <3> QED BY <2>1, <3>1, <3>2 DEF InflightOf
    <2> QED BY <2>2, <2>3
  <1>8. FlatInv'
    <2>1. ASSUME wpc = "cleared"
          PROVE  wcur \in Intents /\ i \notin SameSymbol(wcur)
      <3>1. wcur \in Intents /\ exec[wcur] = "entry_submitting"
        BY <2>1 DEF IInv, WorkerInv, BusyPoints, EntryPoints, StatusAt
      <3>2. i \notin SameSymbol(wcur)
        BY <2>1, <1>4, <1>5, <3>1 DEF SameSymbol, Released
      <3> QED BY <3>1, <3>2
    <2>2. ASSUME NEW j \in Intents, << "entry", j >> \in inflight'
          PROVE  i \notin SameSymbol(j)
      <3>1. j # i /\ << "entry", j >> \in inflight
        BY <2>2, <1>1, <1>2, TookEffect
      <3>2. exec[j] \notin Released
        BY <3>1, InvOf DEF InflightOf, Released
      <3> QED BY <3>1, <3>2, <1>5 DEF SameSymbol
    <2>3. \A j \in Intents : j # i => held'[j] = held[j]
      BY DEF IInv, TypeOK
    <2>4. /\ UNCHANGED << wpc, wcur >>
          /\ inflight' \subseteq inflight
      BY <1>1, <1>2, TookEffect
    <2> QED BY <2>1, <2>2, <2>3, <2>4 DEF IInv, FlatInv, SymbolFlat, SameSymbol
  <1>9. ExposureInv'
    <2>1. UNCHANGED << exec, fillRow, wpc, wcur >>
      BY <1>1, <1>2, TookEffect
    <2>2. \A j \in Intents :
            IF j = i THEN held'[j] = got'[j]
            ELSE held'[j] = held[j] /\ got'[j] = got[j]
      BY DEF IInv, TypeOK
    <2>3. size \in Nat
      BY LiveAssumption DEF Sizes
    <2> QED BY <1>4, <2>1, <2>2, <2>3 DEF IInv, TypeOK, ExposureInv
  <1>10. OneHolderPerSymbol'
    BY <1>4 DEF IInv, TypeOK, OneHolderPerSymbol, SameSymbol
  <1>11. ProtectedIsCovered'
    BY <1>1, <1>2, <1>4, TookEffect DEF IInv, TypeOK, ProtectedIsCovered
  <1>12. ASSUME NEW j \in Intents PROVE SentOf(j)'
    <2>1. sent[<< "entry", i >>] = 1
      BY <1>1, <1>2, TookEffect DEF IInv, CloidInv, Cloids
    <2>2. UNCHANGED << exec, wpc, wcur, sent >>
      BY <1>1, <1>2, TookEffect
    <2>3. got'[j] > 0 => sent[<< "entry", j >>] = 1
      BY <2>1, InvOf DEF SentOf, IInv, TypeOK
    <2>4. SentOf(j)
      BY InvOf
    <2> QED BY <2>2, <2>3, <2>4 DEF SentOf
  <1> QED
    BY <1>1, <1>2, <1>6, <1>7, <1>8, <1>9, <1>10, <1>11, <1>12, TookEffect
       DEF IInv, SentInv, InflightInv

\* Protection may rest late, but never under an execution already recorded
\* as protected.
LEMMA ExecuteProtectionInv ==
  ASSUME IInv, TypeOK', NEW i \in Intents, NEW size \in Sizes,
         NEW r \in Answers,
         ExecuteProtection(i, size, r)
  PROVE  IInv'
  <1>1. Took("stop_loss", i) /\ "stop_loss" \in Roles
    BY DEF ExecuteProtection, Roles
  <1>2. /\ UNCHANGED << intent, exec, fillRow, wpc, wcur, hpc, hint, sent,
                     got, held >>
        /\ stop' = [stop EXCEPT ![i] = size]
        /\ reply' = IF wcur = i /\ wpc = "protect_wait" THEN r ELSE reply
        /\ inflight' = inflight \ { << "stop_loss", i >> }
    BY <1>1, TookEffect DEF ExecuteProtection, Answer
  <1>3. /\ exec[i] # "protected"
        /\ wcur = i => wpc # "booked"
    BY <1>1, TookEffect, InvOf DEF InflightOf
  <1>4. LedgersAgree' /\ OneActivePerSymbol' /\ WorkerInv'
    BY <1>2, ExchangeStepFrame
  <1>5. ASSUME NEW j \in Intents PROVE InflightOf(j)'
    BY <1>2, InvOf DEF InflightOf
  <1>6. FlatInv' /\ OneHolderPerSymbol'
    BY <1>2 DEF IInv, FlatInv, SymbolFlat, OneHolderPerSymbol
  <1>7. ExposureInv' /\ ProtectedIsCovered'
    BY <1>2, <1>3 DEF IInv, TypeOK, ExposureInv, ProtectedIsCovered
  <1> QED
    BY <1>1, <1>2, <1>4, <1>5, <1>6, <1>7, TookEffect
       DEF IInv, SentInv, InflightInv

\* What may happen to the exposure at any time: it shrinks, and a stop that
\* triggers takes the exposure it covers with it.
LEMMA ShrinkFrame ==
  ASSUME IInv, TypeOK', UNCHANGED << exec, fillRow, wpc, wcur, got >>,
         inflight' \subseteq inflight,
         \A j \in Intents : held'[j] <= held[j],
         \A j \in Intents : held[j] <= stop[j] => held'[j] <= stop'[j]
  PROVE  FlatInv' /\ ExposureInv' /\ OneHolderPerSymbol' /\ ProtectedIsCovered'
  <1>1. \A j \in Intents : held[j] = 0 => held'[j] = 0
    BY LiveAssumption DEF IInv, TypeOK
  <1>2. FlatInv'
    BY <1>1 DEF IInv, FlatInv, SymbolFlat, SameSymbol
  <1>3. ExposureInv'
    <2>1. \A j \in Intents : held[j] <= got[j] => held'[j] <= got[j]
      BY LiveAssumption DEF IInv, TypeOK
    <2> QED BY <2>1 DEF IInv, ExposureInv
  <1>4. OneHolderPerSymbol'
    BY <1>1 DEF IInv, OneHolderPerSymbol, SameSymbol
  <1>5. ProtectedIsCovered'
    BY DEF IInv, ProtectedIsCovered
  <1> QED BY <1>2, <1>3, <1>4, <1>5

\* The emergency close only reduces what its own intent holds.
LEMMA ExecuteCloseInv ==
  ASSUME IInv, TypeOK', NEW i \in Intents, NEW size \in Sizes,
         ExecuteClose(i, size)
  PROVE  IInv'
  <1>1. Took("emergency_close", i) /\ "emergency_close" \in Roles
    BY DEF ExecuteClose, Roles
  <1>2. /\ UNCHANGED << intent, exec, fillRow, wpc, wcur, hpc, hint, sent,
                     got, stop >>
        /\ size <= held[i]
        /\ held' = [held EXCEPT ![i] = @ - size]
        /\ wpc # "close_wait" => reply' = reply
        /\ wcur # i => reply' = reply
        /\ inflight' = inflight \ { << "emergency_close", i >> }
    BY <1>1, TookEffect DEF ExecuteClose, Answer
  <1>3. LedgersAgree' /\ OneActivePerSymbol' /\ WorkerInv'
    BY <1>2, ExchangeStepFrame
  <1>4. ASSUME NEW j \in Intents PROVE InflightOf(j)'
    BY <1>2, InvOf DEF InflightOf
  <1>5. \A j \in Intents : held'[j] <= held[j]
    BY <1>2, LiveAssumption DEF IInv, TypeOK, Sizes
  <1>6. FlatInv' /\ ExposureInv' /\ OneHolderPerSymbol' /\ ProtectedIsCovered'
    <2>1. \A j \in Intents : held[j] <= stop[j] => held'[j] <= stop'[j]
      BY <1>2, <1>5, LiveAssumption DEF IInv, TypeOK
    <2> QED BY <1>2, <1>5, <2>1, ShrinkFrame
  <1> QED
    BY <1>1, <1>2, <1>3, <1>4, <1>6, TookEffect DEF IInv, SentInv, InflightInv

\* A lost request changes nothing but that it is no longer under way.
LEMMA LoseRequestInv ==
  ASSUME IInv, TypeOK', NEW i \in Intents, NEW r \in Roles, LoseRequest(r, i)
  PROVE  IInv'
  <1>1. Took(r, i)
    BY DEF LoseRequest
  <1>2. /\ UNCHANGED << intent, exec, fillRow, wpc, wcur, hpc, hint, sent,
                     reply, got, held, stop >>
        /\ inflight' \subseteq inflight
    BY <1>1, TookEffect DEF LoseRequest
  <1>3. LedgersAgree' /\ OneActivePerSymbol' /\ WorkerInv'
    BY <1>2, ExchangeStepFrame
  <1>4. ASSUME NEW j \in Intents PROVE InflightOf(j)'
    BY <1>2, InvOf DEF InflightOf
  <1>5. FlatInv' /\ ExposureInv' /\ OneHolderPerSymbol' /\ ProtectedIsCovered'
    BY <1>2 DEF IInv, FlatInv, SymbolFlat, ExposureInv, OneHolderPerSymbol,
                ProtectedIsCovered
  <1> QED
    BY <1>1, <1>2, <1>3, <1>4, <1>5, TookEffect DEF IInv, SentInv, InflightInv

\* Exposure shrinks of its own accord.
LEMMA ReductionInv ==
  ASSUME IInv, TypeOK', NEW i \in Intents,
         StopTriggers(i) \/ PositionReduced(i)
  PROVE  IInv'
  <1>1. UNCHANGED << intent, exec, fillRow, wpc, wcur, reply, hpc, hint,
                     inflight, sent, got >>
    BY DEF StopTriggers, PositionReduced, storeVars, workerVars, handlerVars
  <1>2. /\ \A j \in Intents : held'[j] <= held[j]
        /\ \A j \in Intents : held[j] <= stop[j] => held'[j] <= stop'[j]
    <2>1. CASE StopTriggers(i)
      <3>1. \A j \in Intents : j # i => stop'[j] = stop[j]
        BY <2>1 DEF StopTriggers, IInv, TypeOK
      <3>2. stop'[i] = 0 /\ (held[i] <= stop[i] => held'[i] = 0)
        BY <2>1, LiveAssumption DEF StopTriggers, IInv, TypeOK, SameSymbol
      <3>3. \A j \in Intents : held'[j] <= held[j]
        BY <2>1, LiveAssumption DEF StopTriggers, IInv, TypeOK
      <3>4. \A j \in Intents :
              held[j] \in Nat /\ held'[j] \in Nat /\ stop[j] \in Nat
        BY LiveAssumption DEF IInv, TypeOK
      <3>5. ASSUME NEW j \in Intents, held[j] <= stop[j]
            PROVE  held'[j] <= stop'[j]
        <4>1. CASE j = i
          BY <3>2, <3>5, <4>1
        <4>2. CASE j # i
          BY <3>1, <3>3, <3>4, <3>5, <4>2
        <4> QED BY <4>1, <4>2
      <3> QED BY <3>3, <3>5
    <2>2. CASE PositionReduced(i)
      <3>1. \A j \in Intents : held[j] \in Nat /\ stop[j] \in Nat
        BY LiveAssumption DEF IInv, TypeOK
      <3>2. /\ stop' = stop
            /\ \A j \in Intents : held'[j] \in { held[j], held[j] - 1 }
        BY <2>2 DEF PositionReduced, IInv, TypeOK
      <3>3. \A j \in Intents : held'[j] <= held[j]
        BY <3>1, <3>2
      <3> QED BY <3>1, <3>2, <3>3
    <2> QED BY <2>1, <2>2
  <1>3. LedgersAgree' /\ OneActivePerSymbol' /\ WorkerInv'
    BY <1>1, ExchangeStepFrame
  <1>4. CloidInv'
    BY <1>1 DEF IInv, CloidInv
  <1>5. ASSUME NEW j \in Intents PROVE SentOf(j)' /\ InflightOf(j)'
    BY <1>1, InvOf DEF SentOf, InflightOf
  <1>6. FlatInv' /\ ExposureInv' /\ OneHolderPerSymbol' /\ ProtectedIsCovered'
    BY <1>1, <1>2, ShrinkFrame
  <1> QED BY <1>3, <1>4, <1>5, <1>6 DEF IInv, SentInv, InflightInv

\* Every step of the exchange.
LEMMA ExchangeInv ==
  ASSUME IInv, TypeOK', ExchangeStep
  PROVE  IInv'
  <1> PICK i \in Intents :
        \/ \E size \in Sizes, r \in Answers : ExecuteEntry(i, size, r)
        \/ \E size \in Sizes, r \in Answers : ExecuteProtection(i, size, r)
        \/ \E size \in Sizes : ExecuteClose(i, size)
        \/ \E role \in Roles : LoseRequest(role, i)
        \/ StopTriggers(i)
        \/ PositionReduced(i)
    BY DEF ExchangeStep
  <1> QED
    BY ExecuteEntryInv, ExecuteProtectionInv, ExecuteCloseInv, LoseRequestInv,
       ReductionInv

-----------------------------------------------------------------------------
(* Types.                                                                  *)

\* Every status a step writes is one the types know.
LEMMA StatusTypes ==
  /\ { "absent", "awaiting_confirmation", "risk_rejected", "approved",
       "submitting", "executing", "completed", "failed" }
       \subseteq TradeStatuses \cup {"absent"}
  /\ { "absent", "pending", "entry_submitting", "entry_unknown",
       "entry_filled", "protected", "emergency_closing", "closed", "failed",
       "reconciliation_required" } \subseteq LiveStatuses \cup {"absent"}
  BY DEF TradeStatuses, LiveStatuses

\* The initial state is well typed.
LEMMA TypeInit == Init => TypeOK
  <1> SUFFICES ASSUME Init PROVE TypeOK
    OBVIOUS
  <1>1. GateTypeOK
    BY RecoveryStreakAssumption DEF Init, GateTypeOK, Modes
  <1>2. wpc \in WorkerPoints
    BY DEF Init, WorkerPoints
  <1>3. 0 \in 0 .. FullSize
    BY LiveAssumption
  <1>4. intent \in [Intents -> TradeStatuses \cup {"absent"}]
    BY DEF Init
  <1> QED BY <1>1, <1>2, <1>3, <1>4 DEF Init, TypeOK

\* The handlers keep the types.
LEMMA HandlerType ==
  ASSUME TypeOK, WorkerInv, NEW h \in Handlers, HandlerStep(h)
  PROVE  TypeOK'
  <1> USE DEF TypeOK, GateTypeOK, EndRequest, gateVars, storeVars, workerVars,
          handlerVars, exchangeVars
  <1>1. CASE \E i \in Intents, point \in { "submit", "confirm" } :
               EnterRequest(h, i, point)
    BY <1>1 DEF EnterRequest
  <1>2. CASE SubmitIntent(h)
    BY <1>2, StatusTypes DEF SubmitIntent
  <1>3. CASE ConfirmRecheck(h)
    BY <1>3, StatusTypes DEF ConfirmRecheck, Created
  <1>4. CASE ConfirmExpired(h) \/ HandlerGivesUp(h)
    BY <1>4 DEF ConfirmExpired, HandlerGivesUp
  <1>5. CASE ConfirmIntent(h)
    <2>1. older' \in [Intents -> SUBSET Intents]
      <3>1. CASE UNCHANGED older
        BY <3>1
      <3>2. CASE RecordCreation(h, hint[h])
        <4>1. hint[h] \in Intents
          BY <1>5 DEF ConfirmIntent, WorkerInv
        <4> QED BY <3>2, <4>1 DEF RecordCreation, Created
      <3> QED BY <1>5, <3>1, <3>2 DEF ConfirmIntent
    <2> QED BY <1>5, <2>1, StatusTypes DEF ConfirmIntent
  <1> QED BY <1>1, <1>2, <1>3, <1>4, <1>5 DEF HandlerStep

\* The transactions of the worker.
LEMMA FinishType ==
  ASSUME TypeOK,
         NEW t, t.to \in LiveStatuses, t.becomes \in TradeStatuses,
         NEW point \in WorkerPoints, FinishLive(t, point)
  PROVE  /\ intent' \in [Intents -> TradeStatuses \cup {"absent"}]
         /\ exec' \in [Intents -> LiveStatuses \cup {"absent"}]
         /\ GateTypeOK'
         /\ wpc' \in WorkerPoints
         /\ wcur' \in Intents \cup {NoIntent}
         /\ reply' = "none"
  BY RecoveryStreakAssumption DEF TypeOK, GateTypeOK, Modes, FinishLive,
     ForceCloseOnly, gateVars, GoTo, WorkerPoints

\* The worker's transactions write statuses the database knows.
LEMMA MoveTypes ==
  \A t \in { MarkFailed, MarkEntryUnknown, RecordEntryFill, MarkProtected,
             MarkEmergencyClosing, MarkClosed, MarkReconciliationRequired } :
    t.to \in LiveStatuses /\ t.becomes \in TradeStatuses
  BY DEF MarkFailed, MarkEntryUnknown, RecordEntryFill, MarkProtected,
         MarkEmergencyClosing, MarkClosed, MarkReconciliationRequired, Move,
         LiveStatuses, TradeStatuses

\* The worker keeps the types.
LEMMA WorkerType ==
  ASSUME TypeOK, WorkerInv, WorkerStep
  PROVE  TypeOK'
  <1> USE DEF gateVars, storeVars, handlerVars, exchangeVars
  <1>1. CASE CheckGate \/ NothingToClaim \/ CheckPosition \/ EntryAccepted
             \/ ProtectionAccepted \/ RecordProtectionOrders \/ StorageFails
    BY <1>1 DEF CheckGate, NothingToClaim, CheckPosition, EntryAccepted,
                ProtectionAccepted, RecordProtectionOrders, StorageFails, GoTo,
                TypeOK, GateTypeOK, WorkerPoints, BusyPoints
  <1>2. CASE \E i \in Intents : ClaimExecution(i)
    BY <1>2, StatusTypes DEF ClaimExecution, GoTo, TypeOK, GateTypeOK,
                             WorkerPoints, BusyPoints
  <1>3. CASE SendEntry \/ SendProtection \/ SendClose
    <2>1. PICK r \in Roles, point \in BusyPoints : Send(r,
    point) /\ wpc \in BusyPoints
      BY <1>3 DEF SendEntry, SendProtection, SendClose, Roles, BusyPoints
    <2>2. << r, wcur >> \in Cloids
      BY <2>1 DEF WorkerInv, Cloids
    <2>3. wpc' = point /\ wcur' = wcur /\ reply' = "none"
      BY <2>1 DEF Send, GoTo
    <2>4. sent' \in [Cloids -> Nat] /\ inflight' \in SUBSET Cloids
      BY <2>1, <2>2 DEF Send, TypeOK
    <2> QED BY <2>1, <2>3, <2>4 DEF Send, TypeOK, GateTypeOK, WorkerPoints
  <1>4. CASE EntryFilled
    BY <1>4, FinishType, MoveTypes DEF EntryFilled, TypeOK, WorkerPoints,
       BusyPoints
  <1>5. CASE EntryRejected \/ EntryOutcomeUnknown \/ ProtectionVerified
             \/ ProtectionFails \/ CloseConfirmed \/ CloseUnconfirmed
    <2>1. \E t \in { MarkFailed, MarkEntryUnknown, MarkProtected,
                     MarkEmergencyClosing, MarkClosed,
                     MarkReconciliationRequired },
             point \in { "idle", "close" } : FinishLive(t, point)
      BY <1>5 DEF EntryRejected, EntryOutcomeUnknown, ProtectionVerified,
                  ProtectionFails, CloseConfirmed, CloseUnconfirmed
    <2>2. UNCHANGED << older, fillRow, killSwitch, expired, handlerVars,
                    inflight, sent, got, held, stop >>
      BY <1>5 DEF EntryRejected, EntryOutcomeUnknown, ProtectionVerified,
                  ProtectionFails, CloseConfirmed, CloseUnconfirmed
    <2>3. { "idle", "close" } \subseteq WorkerPoints
      BY DEF WorkerPoints, BusyPoints
    <2> QED BY <2>1, <2>2, <2>3, FinishType, MoveTypes
            DEF TypeOK, handlerVars
  <1> QED
    BY <1>1, <1>2, <1>3, <1>4, <1>5 DEF WorkerStep, WorkerProgress

\* A crash and a start keep the types.
LEMMA ProcessType ==
  ASSUME TypeOK, ProcessStep
  PROVE  TypeOK'
  BY DEF ProcessStep, Crash, Start, Configure, GoTo, TypeOK, GateTypeOK, Modes,
         WorkerPoints, BusyPoints, gateVars, storeVars, handlerVars,
         exchangeVars

\* Snapshots, the operator and the clock keep the types.
LEMMA OutsideType ==
  ASSUME TypeOK, OutsideStep
  PROVE  TypeOK'
  <1> USE DEF TypeOK, gateVars, storeVars, workerVars, handlerVars,
         exchangeVars
  <1>1. CASE \E v \in Verdicts : Snapshot(v)
    <2>1. GateTypeOK'
      BY <1>1, RecoveryStreakAssumption DEF Snapshot, TakeSnapshot,
         SnapshotMode,
         SnapshotStreak, GateTypeOK, Modes
    <2> QED BY <1>1, <2>1 DEF Snapshot
  <1>2. CASE OperatorAcknowledges
    BY <1>2, RecoveryStreakAssumption DEF OperatorAcknowledges, Acknowledge,
       GateTypeOK, Modes
  <1>3. CASE \E b \in BOOLEAN : SetKillSwitch(b)
    BY <1>3 DEF SetKillSwitch, GateTypeOK
  <1>4. CASE \E i \in Intents : Expire(i)
    BY <1>4 DEF Expire, GateTypeOK
  <1> QED BY <1>1, <1>2, <1>3, <1>4 DEF OutsideStep

\* The exchange keeps the types.
LEMMA ExchangeType ==
  ASSUME TypeOK, ExchangeStep
  PROVE  TypeOK'
  <1> PICK i \in Intents :
        \/ \E size \in Sizes, r \in Answers : ExecuteEntry(i, size, r)
        \/ \E size \in Sizes, r \in Answers : ExecuteProtection(i, size, r)
        \/ \E size \in Sizes : ExecuteClose(i, size)
        \/ \E role \in Roles : LoseRequest(role, i)
        \/ StopTriggers(i)
        \/ PositionReduced(i)
    BY DEF ExchangeStep
  <1> USE LiveAssumption
      DEF TypeOK, GateTypeOK, gateVars, storeVars, workerVars, handlerVars,
          Took, Answer, Sizes, Answers
  <1>1. CASE \E size \in Sizes, r \in Answers : ExecuteEntry(i, size, r)
    BY <1>1 DEF ExecuteEntry
  <1>2. CASE \E size \in Sizes, r \in Answers : ExecuteProtection(i, size, r)
    BY <1>2 DEF ExecuteProtection
  <1>3. CASE \E size \in Sizes : ExecuteClose(i, size)
    BY <1>3 DEF ExecuteClose
  <1>4. CASE \E role \in Roles : LoseRequest(role, i)
    BY <1>4 DEF LoseRequest
  <1>5. CASE StopTriggers(i)
    BY <1>5 DEF StopTriggers
  <1>6. CASE PositionReduced(i)
    BY <1>6 DEF PositionReduced
  <1> QED BY <1>1, <1>2, <1>3, <1>4, <1>5, <1>6

\* Every step keeps the types.
LEMMA TypeNext ==
  ASSUME IInv, [Next]_vars
  PROVE  TypeOK'
  <1> TypeOK /\ WorkerInv
    BY DEF IInv
  <1>1. CASE UNCHANGED vars
    BY <1>1 DEF vars, TypeOK, GateTypeOK, storeVars, workerVars, handlerVars,
                exchangeVars
  <1>2. CASE Next
    BY <1>2, HandlerType, WorkerType, ProcessType, OutsideType, ExchangeType
       DEF Next
  <1> QED BY <1>1, <1>2

-----------------------------------------------------------------------------
(* The invariant, and what follows from it.                                *)

\* The invariant holds initially: no row, no request, no exposure.
LEMMA InitInv == Init => IInv
  <1> SUFFICES ASSUME Init PROVE IInv
    OBVIOUS
  <1>1. TypeOK
    BY TypeInit
  <1>2. LedgersAgree /\ OneActivePerSymbol
    BY DEF Init, LedgersAgree, IntentStatusOf, OneActivePerSymbol, Released,
           SameSymbol
  <1>3. WorkerInv
    BY DEF Init, WorkerInv, BusyPoints
  <1>4. CloidInv
    BY DEF Init, CloidInv
  <1>5. ASSUME NEW i \in Intents PROVE SentOf(i) /\ InflightOf(i)
    <2>1. \A r \in Roles : sent[<< r, i >>] = 0
      BY DEF Init, Cloids
    <2> QED BY <2>1 DEF Init, Roles, SentOf, InflightOf
  <1>6. FlatInv
    BY DEF Init, FlatInv
  <1>7. ExposureInv /\ OneHolderPerSymbol /\ ProtectedIsCovered
    BY LiveAssumption DEF Init, ExposureInv, OneHolderPerSymbol,
       ProtectedIsCovered, SameSymbol
  <1> QED
    BY <1>1, <1>2, <1>3, <1>4, <1>5, <1>6, <1>7
       DEF IInv, SentInv, InflightInv

\* Every step preserves the invariant.
LEMMA NextInv ==
  ASSUME IInv, [Next]_vars
  PROVE  IInv'
  <1>1. TypeOK'
    BY TypeNext
  <1>2. CASE UNCHANGED vars
    <2>1. /\ UNCHANGED << intent, exec, fillRow, workerVars, exchangeVars >>
          /\ UNCHANGED << hpc, hint >>
      BY <1>2 DEF vars, storeVars, handlerVars
    <2>2. \A h \in Handlers : hpc'[h] # "idle" => hint'[h] \in Intents
      BY <2>1 DEF IInv, WorkerInv
    <2> QED BY <1>1, <2>1, <2>2, RowsFrame, HandlerFrame
  <1>3. CASE \E h \in Handlers : HandlerStep(h)
    BY <1>1, <1>3, HandlerInv
  <1>4. CASE WorkerStep
    BY <1>1, <1>4, PointInv, ClaimExecutionInv, SendInv, WorkerMoveInv
       DEF WorkerStep, WorkerProgress
  <1>5. CASE ProcessStep
    BY <1>1, <1>5, PointInv DEF ProcessStep
  <1>6. CASE OutsideStep
    BY <1>1, <1>6, OutsideInv
  <1>7. CASE ExchangeStep
    BY <1>1, <1>7, ExchangeInv
  <1> QED BY <1>2, <1>3, <1>4, <1>5, <1>6, <1>7 DEF Next

\* IInv holds in every reachable state of the live path.
THEOREM InductiveInvariant == Spec => []IInv
  BY InitInv, NextInv, PTL DEF Spec

\* No handler, transaction or answer ever leaves a status, a size or a
\* program point outside its type.
THEOREM TypeCorrect == Spec => []TypeOK
  <1>1. IInv => TypeOK
    BY DEF IInv
  <1> QED BY <1>1, InductiveInvariant, PTL

\* run_once and its restarts never send one cloid twice.
THEOREM NoSecondOrder == Spec => []SentAtMostOnce
  <1>1. IInv => SentAtMostOnce
    BY DEF IInv, TypeOK, CloidInv, SentAtMostOnce
  <1> QED BY <1>1, InductiveInvariant, PTL

\* claim_next_live_execution and the startup lock keep a symbol to one active
\* execution.
THEOREM SymbolExclusion == Spec => []OneActivePerSymbol
  <1>1. IInv => OneActivePerSymbol
    BY DEF IInv
  <1> QED BY <1>1, InductiveInvariant, PTL

\* With the look at the open positions they keep it to one holder of exposure,
\* even when an entry fills after its timeout.
THEOREM SymbolHeldOnce == Spec => []OneHolderPerSymbol
  <1>1. IInv => OneHolderPerSymbol
    BY DEF IInv
  <1> QED BY <1>1, InductiveInvariant, PTL

\* update_live_and_intent_tx keeps both ledgers in step, and never finds the
\* rows of the worker's execution moved by somebody else.
THEOREM Agreement == Spec => [](LedgersAgree /\ WorkerOwnsItsExecution)
  <1>1. IInv => LedgersAgree /\ WorkerOwnsItsExecution
    BY DEF IInv, WorkerInv, WorkerOwnsItsExecution
  <1> QED BY <1>1, InductiveInvariant, PTL

\* What run_once records as protected is covered by a resting stop.
THEOREM Protection == Spec => []ProtectedIsCovered
  <1>1. IInv => ProtectedIsCovered
    BY DEF IInv
  <1> QED BY <1>1, InductiveInvariant, PTL

\* unresolved_live_execution_count: no worker starts while an entry or a
\* close sent earlier can still execute.
THEOREM CleanStart == Spec => StartsOverNoOrder
  <1>1. ASSUME IInv, [Next]_vars
        PROVE  [wpc = "down" /\ wpc' # "down" =>
                  \A i \in Intents :
                    /\ << "entry", i >> \notin inflight
                    /\ << "emergency_close", i >> \notin inflight]_vars
    <2>1. CASE Start
      <3>1. ASSUME NEW i \in Intents
            PROVE  /\ << "entry", i >> \notin inflight
                   /\ << "emergency_close", i >> \notin inflight
        BY <1>1, <2>1, InvOf
           DEF Start, UnresolvedExecutions, Unresolved, InflightOf
      <3> QED BY <3>1
    <2>2. CASE UNCHANGED vars
      BY <2>2
    <2>3. ASSUME Next, ~ Start PROVE ~ (wpc = "down" /\ wpc' # "down")
      <3>1. CASE \E h \in Handlers : HandlerStep(h)
        BY <3>1 DEF HandlerStep, EnterRequest, SubmitIntent, ConfirmRecheck,
                    ConfirmExpired, ConfirmIntent, HandlerGivesUp, workerVars
      <3>2. CASE WorkerStep
        BY <3>2 DEF WorkerStep, WorkerProgress, CheckGate, ClaimExecution,
                    NothingToClaim, CheckPosition, SendEntry, EntryAccepted,
                    EntryFilled, EntryRejected, EntryOutcomeUnknown,
                    SendProtection, ProtectionAccepted,
                    RecordProtectionOrders, ProtectionVerified,
                    ProtectionFails, SendClose, CloseConfirmed,
                    CloseUnconfirmed, StorageFails
      <3>3. CASE Crash
        BY <3>3 DEF Crash, Up
      <3>4. CASE OutsideStep
        BY <3>4 DEF OutsideStep, Snapshot, OperatorAcknowledges,
                    SetKillSwitch, Expire, workerVars
      <3>5. CASE ExchangeStep
        BY <3>5 DEF ExchangeStep, ExecuteEntry, ExecuteProtection,
                    ExecuteClose, LoseRequest, Took, StopTriggers,
                    PositionReduced, workerVars
      <3> QED BY <2>3, <3>1, <3>2, <3>3, <3>4, <3>5 DEF Next, ProcessStep
    <2> QED BY <1>1, <2>1, <2>2, <2>3
  <1> QED BY <1>1, InductiveInvariant, PTL DEF Spec, StartsOverNoOrder

\* Without a reader the only writer of the mode is a forced halt, and there is
\* one in every transaction that leaves an outcome in doubt.
HaltInv ==
  ~Reconciled /\ (\E i \in Intents : exec[i] \in InDoubt) =>
    mode = "close_only" /\ wpc # "gated"

\* Who writes executions, the mode, or lets the worker through the gate, while
\* there is no reader.
LEMMA DoubtSteps ==
  ASSUME IInv, [Next]_vars, ~Reconciled
  PROVE  \/ UNCHANGED << exec, mode >> /\ (wpc' = "gated" => wpc = "gated")
         \/ CheckGate
         \/ \E h \in Handlers : ConfirmIntent(h)
         \/ \E i \in Intents : ClaimExecution(i)
         \/ \E t \in Moves, point \in { "idle", "protect", "close" } :
              FinishLive(t, point)
  <1> DEFINE Quiet == /\ UNCHANGED << exec, mode >>
                      /\ (wpc' = "gated" => wpc = "gated")
  <1>1. CASE UNCHANGED vars
    BY <1>1 DEF vars, storeVars, workerVars, gateVars
  <1>2. ASSUME NEW h \in Handlers, HandlerStep(h), ~ConfirmIntent(h)
        PROVE  Quiet
    BY <1>2 DEF HandlerStep, EnterRequest, SubmitIntent, ConfirmRecheck,
       ConfirmExpired, HandlerGivesUp, storeVars, workerVars, gateVars
  <1>3. CASE NothingToClaim \/ CheckPosition \/ EntryAccepted
             \/ ProtectionAccepted \/ RecordProtectionOrders \/ StorageFails
    BY <1>3 DEF NothingToClaim, CheckPosition, EntryAccepted,
       ProtectionAccepted, RecordProtectionOrders, StorageFails, GoTo,
       storeVars, gateVars
  <1>4. CASE SendEntry \/ SendProtection \/ SendClose
    BY <1>4 DEF SendEntry, SendProtection, SendClose, Send, GoTo, storeVars,
       gateVars
  <1>5. CASE EntryFilled \/ EntryRejected \/ EntryOutcomeUnknown
             \/ ProtectionVerified \/ ProtectionFails \/ CloseConfirmed
             \/ CloseUnconfirmed
    BY <1>5 DEF EntryFilled, EntryRejected, EntryOutcomeUnknown,
       ProtectionVerified, ProtectionFails, CloseConfirmed, CloseUnconfirmed,
       Moves
  <1>6. CASE ProcessStep
    BY <1>6 DEF ProcessStep, Crash, Start, GoTo, storeVars, gateVars
  <1>7. CASE OutsideStep
    BY <1>7 DEF OutsideStep, Snapshot, OperatorAcknowledges, SetKillSwitch,
       Expire, storeVars, workerVars, gateVars
  <1>8. CASE ExchangeStep
    BY <1>8 DEF ExchangeStep, ExecuteEntry, ExecuteProtection, ExecuteClose,
       LoseRequest, Took, StopTriggers, PositionReduced, storeVars,
       workerVars, gateVars
  <1> QED
    BY <1>1, <1>2, <1>3, <1>4, <1>5, <1>6, <1>7, <1>8
       DEF Next, WorkerStep, WorkerProgress

\* The halt holds as long as an outcome is in doubt, and nothing is claimed.
LEMMA HaltStep ==
  ASSUME IInv, HaltInv, [Next]_vars
  PROVE  /\ HaltInv'
         /\ ~Reconciled /\ (\E i \in Intents : exec[i] \in InDoubt) =>
              \A i \in Intents : exec[i] = "pending" => exec'[i] = "pending"
  <1> SUFFICES ASSUME ~Reconciled
               PROVE  /\ HaltInv'
                      /\ (\E i \in Intents : exec[i] \in InDoubt) =>
                           \A i \in Intents :
                             exec[i] = "pending" => exec'[i] = "pending"
    BY LiveAssumption DEF HaltInv
  <1>0. exec \in [Intents -> LiveStatuses \cup {"absent"}]
    BY DEF IInv, TypeOK
  <1>1. CASE UNCHANGED << exec, mode >> /\ (wpc' = "gated" => wpc = "gated")
    BY <1>1 DEF HaltInv
  <1>2. CASE CheckGate
    <2>1. mode # "close_only" /\ UNCHANGED exec
      BY <1>2 DEF CheckGate, storeVars
    <2> QED BY <2>1 DEF HaltInv
  <1>3. ASSUME NEW h \in Handlers, ConfirmIntent(h)
        PROVE  /\ UNCHANGED << mode, wpc >>
               /\ \A i \in Intents :
                    exec'[i] = exec[i] \/ exec'[i] = "pending"
    BY <1>0, <1>3 DEF ConfirmIntent, gateVars, workerVars
  <1>4. CASE \E h \in Handlers : ConfirmIntent(h)
    <2>1. UNCHANGED << mode, wpc >>
      BY <1>3, <1>4
    <2>2. \A i \in Intents : exec'[i] = exec[i] \/ exec'[i] = "pending"
      BY <1>3, <1>4
    <2> QED BY <2>1, <2>2 DEF HaltInv, InDoubt
  <1>5. ASSUME NEW i \in Intents, ClaimExecution(i)
        PROVE  /\ wpc = "gated" /\ wpc' # "gated"
               /\ \A j \in Intents :
                    exec'[j] = exec[j] \/ exec'[j] = "entry_submitting"
    BY <1>0, <1>5 DEF ClaimExecution, GoTo
  <1>6. CASE \E i \in Intents : ClaimExecution(i)
    <2>1. wpc = "gated"
      BY <1>5, <1>6
    <2>2. \A j \in Intents : exec'[j] = exec[j] \/ exec'[j] = "entry_submitting"
      BY <1>5, <1>6
    <2>3. ~ \E j \in Intents : exec[j] \in InDoubt
      BY <2>1 DEF HaltInv
    <2> QED BY <2>2, <2>3 DEF HaltInv, InDoubt
  <1>7. ASSUME NEW t \in Moves, NEW point \in { "idle", "protect", "close" },
               FinishLive(t, point)
        PROVE  /\ wpc' # "gated"
               /\ \A i \in Intents : exec[i] = "pending" => exec'[i] = "pending"
               /\ \/ UNCHANGED << exec, mode >>
                  \/ mode' = "close_only"
                  \/ /\ UNCHANGED mode
                     /\ \A i \in Intents :
                          exec'[i] \in InDoubt => exec[i] \in InDoubt
    <2>1. wpc' # "gated"
      BY <1>7 DEF FinishLive, GoTo
    <2>2. CASE ~(exec[wcur] = t.from /\ intent[wcur] = t.was)
      BY <1>7, <2>1, <2>2 DEF FinishLive, gateVars
    <2>3. CASE exec[wcur] = t.from /\ intent[wcur] = t.was
      <3>1. /\ exec' = [exec EXCEPT ![wcur] = t.to]
            /\ IF t.force THEN ForceCloseOnly ELSE UNCHANGED gateVars
        BY <1>7, <2>3 DEF FinishLive
      <3>2. \A i \in Intents : exec'[i] = IF i = wcur THEN t.to ELSE exec[i]
        BY <1>0, <3>1
      <3>3. t.from # "pending"
        BY MoveKinds
      <3>4. t.force \/ t.to \notin InDoubt
        BY DEF InDoubt, Moves, Move, MarkFailed, MarkEntryUnknown,
           RecordEntryFill, MarkProtected, MarkEmergencyClosing, MarkClosed,
           MarkReconciliationRequired
      <3>5. CASE t.force
        BY <2>1, <2>3, <3>1, <3>2, <3>3, <3>5 DEF ForceCloseOnly
      <3>6. CASE ~t.force
        BY <2>1, <2>3, <3>1, <3>2, <3>3, <3>4, <3>6 DEF gateVars
      <3> QED BY <3>5, <3>6
    <2> QED BY <2>2, <2>3
  <1>8. ASSUME NEW t \in Moves, NEW point \in { "idle", "protect", "close" },
               FinishLive(t, point)
        PROVE  /\ HaltInv'
               /\ \A i \in Intents : exec[i] = "pending" => exec'[i] = "pending"
    <2>1. /\ wpc' # "gated"
          /\ \A i \in Intents : exec[i] = "pending" => exec'[i] = "pending"
          /\ \/ UNCHANGED << exec, mode >>
             \/ mode' = "close_only"
             \/ /\ UNCHANGED mode
                /\ \A i \in Intents :
                     exec'[i] \in InDoubt => exec[i] \in InDoubt
      BY <1>7, <1>8
    <2> QED BY <2>1 DEF HaltInv
  <1> QED BY <1>1, <1>2, <1>4, <1>6, <1>8, DoubtSteps

\* finish_live_transition halts the account with every outcome it leaves in
\* doubt: without a reader, which alone can lift the halt, the worker claims
\* nothing ever again, whatever crashes and restarts follow.
THEOREM DoubtHalts == Spec => DoubtStopsUnreadAccount
  <1>1. Init => HaltInv
    BY DEF Init, HaltInv, InDoubt
  <1>2. IInv /\ HaltInv /\ [Next]_vars
          => /\ HaltInv'
             /\ [~Reconciled /\ (\E i \in Intents : exec[i] \in InDoubt) =>
                   \A i \in Intents :
                     exec[i] = "pending" => exec'[i] = "pending"]_vars
    BY HaltStep
  <1> QED
    BY <1>1, <1>2, InductiveInvariant, PTL DEF Spec, DoubtStopsUnreadAccount

\* The live path moves the reconciliation row only as ReconciliationGate
\* allows, the specification record_mainnet_snapshot and its neighbours
\* implement in Reconciliation: what is checked there holds of the gate here.
THEOREM GateIsShared == Spec => GateSpec
  <1>1. Init => GateInit
    BY DEF Init, GateInit
  <1>2. [Next]_vars => [GateNext]_gateVars
    <2> SUFFICES ASSUME [Next]_vars, ~UNCHANGED gateVars PROVE GateNext
      OBVIOUS
    <2>1. CASE UNCHANGED vars
      BY <2>1 DEF vars, storeVars, gateVars
    <2>2. CASE \E h \in Handlers : HandlerStep(h)
      BY <2>2 DEF HandlerStep, EnterRequest, SubmitIntent, ConfirmRecheck,
         ConfirmExpired, ConfirmIntent, HandlerGivesUp, storeVars, gateVars
    <2>3. CASE EntryFilled \/ EntryRejected \/ EntryOutcomeUnknown
               \/ ProtectionVerified \/ ProtectionFails \/ CloseConfirmed
               \/ CloseUnconfirmed
      BY <2>3 DEF EntryFilled, EntryRejected, EntryOutcomeUnknown,
         ProtectionVerified, ProtectionFails, CloseConfirmed,
         CloseUnconfirmed, FinishLive, GateNext
    <2>4. CASE WorkerStep
      BY <2>3, <2>4 DEF WorkerStep, WorkerProgress, CheckGate,
         ClaimExecution, NothingToClaim, CheckPosition, SendEntry,
         EntryAccepted, SendProtection, ProtectionAccepted,
         RecordProtectionOrders, SendClose, StorageFails, Send, storeVars,
         gateVars
    <2>5. CASE ProcessStep
      BY <2>5 DEF ProcessStep, Crash, Start, storeVars, gateVars, GateNext
    <2>6. CASE OutsideStep
      BY <2>6 DEF OutsideStep, Snapshot, OperatorAcknowledges, SetKillSwitch,
         Expire, storeVars, gateVars, GateNext
    <2>7. CASE ExchangeStep
      BY <2>7 DEF ExchangeStep, ExecuteEntry, ExecuteProtection,
         ExecuteClose, LoseRequest, Took, StopTriggers, PositionReduced,
         storeVars, gateVars
    <2> QED BY <2>1, <2>2, <2>4, <2>5, <2>6, <2>7 DEF Next
  <1> QED BY <1>1, <1>2, PTL DEF Spec, GateSpec

\* The raw SQL of the handlers and of the worker follows the relation of
\* TradeIntentStatus::can_transition_to.
THEOREM LegalTransitions == Spec => LegalTradeTransitions
  <1> DEFINE Legal(i) ==
        \/ intent'[i] \in {intent[i]} \cup TradeSuccessors(intent[i])
        \/ /\ intent[i] = "absent"
           /\ intent'[i] \in { "awaiting_confirmation", "risk_rejected" }
  <1>1. ASSUME IInv, Next, NEW i \in Intents PROVE Legal(i)
    <2>1. CASE UNCHANGED intent
      BY <2>1
    <2>2. ASSUME NEW h \in Handlers, HandlerStep(h) PROVE Legal(i)
      <3>1. CASE UNCHANGED intent
        BY <3>1
      <3>2. CASE SubmitIntent(h)
        BY <1>1, <3>2 DEF SubmitIntent, IInv, TypeOK
      <3>3. CASE ConfirmRecheck(h)
        BY <1>1, <3>3 DEF ConfirmRecheck, IInv, TypeOK
      <3>4. CASE ConfirmIntent(h)
        BY <1>1, <3>4 DEF ConfirmIntent, Confirmable, TradeSuccessors, IInv,
                          TypeOK
      <3> QED
        BY <2>2, <3>1, <3>2, <3>3, <3>4
           DEF HandlerStep, EnterRequest, ConfirmExpired, HandlerGivesUp,
               storeVars
    <2>3. CASE \E j \in Intents : ClaimExecution(j)
      BY <1>1, <2>3 DEF ClaimExecution, TradeSuccessors, IInv, TypeOK
    <2>4. CASE EntryFilled \/ EntryRejected \/ EntryOutcomeUnknown
               \/ ProtectionVerified \/ ProtectionFails \/ CloseConfirmed
               \/ CloseUnconfirmed
      <3>1. PICK t \in Moves, point \in { "idle", "protect", "close" } :
              FinishLive(t, point)
        BY <2>4 DEF EntryFilled, EntryRejected, EntryOutcomeUnknown,
           ProtectionVerified, ProtectionFails, CloseConfirmed,
           CloseUnconfirmed, Moves
      <3>2. t.becomes \in {t.was} \cup TradeSuccessors(t.was)
        BY MoveKinds DEF TradeSuccessors
      <3> QED BY <1>1, <3>1, <3>2 DEF FinishLive, IInv, TypeOK
    <2> QED
      BY <1>1, <2>1, <2>2, <2>3, <2>4
         DEF Next, WorkerStep, WorkerProgress, ProcessStep, OutsideStep,
             ExchangeStep, CheckGate, NothingToClaim, CheckPosition, SendEntry,
             EntryAccepted, SendProtection, ProtectionAccepted,
             RecordProtectionOrders, SendClose, StorageFails, Send, Crash,
             Start, Snapshot, OperatorAcknowledges, SetKillSwitch, Expire,
             ExecuteEntry, ExecuteProtection, ExecuteClose, LoseRequest, Took,
             StopTriggers, PositionReduced, storeVars
  <1>2. ASSUME IInv, [Next]_vars
        PROVE  [\A i \in Intents : Legal(i)]_vars
    BY <1>1, <1>2
  <1> QED
    BY <1>2, InductiveInvariant, PTL DEF Spec, LegalTradeTransitions

-----------------------------------------------------------------------------
(* LiveExecution implements ExecutionContract.                             *)

\* Every status of an execution stands for one phase.
LEMMA PhaseOfStatus ==
  /\ PhaseOf("absent") = "none"
  /\ PhaseOf("pending") = "queued"
  /\ PhaseOf("entry_submitting") = "working"
  /\ PhaseOf("entry_filled") = "working"
  /\ PhaseOf("emergency_closing") = "working"
  /\ PhaseOf("protected") = "protected"
  /\ PhaseOf("closed") = "released"
  /\ PhaseOf("failed") = "released"
  /\ PhaseOf("entry_unknown") = "locked"
  /\ PhaseOf("reconciliation_required") = "locked"
  BY DEF PhaseOf

\* A released status stands for a phase that owns no symbol.
LEMMA ReleasedOwnsNothing ==
  ASSUME NEW s \in Released
  PROVE  PhaseOf(s) \notin Contract!Owning
  BY DEF Released, PhaseOf, Contract!Owning

\* Steps that move no execution, send no entry, and touch no switch.
LEMMA QuietStep ==
  ASSUME UNCHANGED << exec, sent, killSwitch >>
  PROVE  [Contract!ContractNext]_(Contract!vars)
  BY DEF Contract!ContractNext, Contract!Halt, Contract!Lift, Contract!vars

\* A transaction of the worker is a step of the contract.
\* A transaction of the worker: the execution goes on, is released, is
\* locked with a halt, or is protected after its one entry.
LEMMA MoveStep ==
  ASSUME IInv, NEW t \in Moves, NEW point, wpc \in BusyPoints,
         t.from = StatusAt(wpc), FinishLive(t, point),
         UNCHANGED << sent, killSwitch >>
  PROVE  [Contract!ContractNext]_(Contract!vars)
  <1> DEFINE phase == [j \in Intents |-> PhaseOf(exec[j])]
             entries == [j \in Intents |-> sent[<< "entry", j >>]]
  <1>1. /\ wcur \in Intents /\ exec[wcur] = t.from
        /\ exec' = [exec EXCEPT ![wcur] = t.to]
        /\ IF t.force THEN mode' = "close_only" ELSE mode' = mode
    <2>1. IntentStatusOf(t.from) = {t.was}
      BY MoveKinds DEF IntentStatusOf
    <2>2. wcur \in Intents /\ exec[wcur] = t.from
      BY <2>1, FinishEffect
    <2>3. intent[wcur] = t.was
      BY <2>1, <2>2 DEF IInv, LedgersAgree
    <2> QED BY <2>2, <2>3 DEF FinishLive, ForceCloseOnly, gateVars
  <1>2. /\ [j \in Intents |-> PhaseOf(exec'[j])]
             = [phase EXCEPT ![wcur] = PhaseOf(t.to)]
        /\ phase[wcur] = PhaseOf(t.from)
        /\ [j \in Intents |-> sent'[<< "entry", j >>]] = entries
    BY <1>1 DEF IInv, TypeOK
  <1>3. PhaseOf(t.from) = "working"
    BY MoveKinds, PhaseOfStatus
  <1>4. CASE t.to \in { "entry_filled", "emergency_closing" }
    <2>1. [j \in Intents |-> PhaseOf(exec'[j])] = phase
      BY <1>2, <1>3, <1>4, PhaseOfStatus
    <2> QED BY <1>2, <2>1 DEF Contract!ContractNext, Contract!Halt,
                              Contract!Lift, Contract!vars
  <1>5. CASE t.to \in { "failed", "closed" }
    <2>1. PhaseOf(t.to) = "released"
      BY <1>5, PhaseOfStatus
    <2>2. mode' = "close_only" \/ mode' = mode
      BY <1>1
    <2> QED
      BY <1>1, <1>2, <1>3, <2>1, <2>2 DEF Contract!ContractNext,
         Contract!Release,
         Contract!Become
  <1>6. CASE t.to \in { "entry_unknown", "reconciliation_required" }
    <2>1. PhaseOf(t.to) = "locked"
      BY <1>6, PhaseOfStatus
    <2>2. mode' = "close_only"
      BY <1>1, <1>6, MoveKinds
    <2> QED
      BY <1>1, <1>2, <1>3, <2>1, <2>2 DEF Contract!ContractNext, Contract!Lock,
         Contract!Become
  <1>7. CASE t.to = "protected"
    <2>1. PhaseOf(t.to) = "protected"
      BY <1>7, PhaseOfStatus
    <2>2. entries[wcur] = 1 /\ mode' = mode
      BY <1>1, <1>7, InvOf, MoveKinds DEF SentOf
    <2> QED
      BY <1>1, <1>2, <1>3, <2>1, <2>2 DEF Contract!ContractNext,
         Contract!Protect,
         Contract!Become
  <1> QED BY <1>4, <1>5, <1>6, <1>7, MoveKinds

\* Only confirm_intent_for_execution is visible to the contract: it queues.
LEMMA ContractHandler ==
  ASSUME IInv, NEW h \in Handlers, HandlerStep(h)
  PROVE  [Contract!ContractNext]_(Contract!vars)
  <1>1. CASE ConfirmIntent(h) /\ Confirmable(hint[h])
    <2> DEFINE i == hint[h]
               phase == [j \in Intents |-> PhaseOf(exec[j])]
    <2>1. i \in Intents
      BY <1>1 DEF ConfirmIntent, IInv, WorkerInv
    <2>2. exec[i] = "absent" /\ ~ killSwitch
      BY <1>1, <2>1 DEF Confirmable, IInv, TypeOK, LedgersAgree, IntentStatusOf
    <2>3. /\ exec' = [exec EXCEPT ![i] = "pending"]
          /\ UNCHANGED << killSwitch, mode, sent >>
      BY <1>1 DEF ConfirmIntent, gateVars, exchangeVars
    <2>4. /\ phase[i] = "none"
          /\ [j \in Intents |-> PhaseOf(exec'[j])]
               = [phase EXCEPT ![i] = "queued"]
      BY <2>1, <2>2, <2>3, PhaseOfStatus DEF IInv, TypeOK
    <2> QED
      BY <2>1, <2>2, <2>3, <2>4
         DEF Contract!ContractNext, Contract!Queue, Contract!Become
  <1>2. CASE ~ (ConfirmIntent(h) /\ Confirmable(hint[h]))
    <2>1. UNCHANGED << exec, sent, killSwitch >>
      BY <1>2 DEF HandlerStep, EnterRequest, SubmitIntent, ConfirmRecheck,
                  ConfirmExpired, ConfirmIntent, HandlerGivesUp, storeVars,
                  exchangeVars
    <2> QED BY <2>1, QuietStep
  <1> QED BY <1>1, <1>2

\* The claim takes the symbol.
LEMMA ContractClaim ==
  ASSUME IInv, NEW i \in Intents, ClaimExecution(i)
  PROVE  [Contract!ContractNext]_(Contract!vars)
  <1> DEFINE phase == [j \in Intents |-> PhaseOf(exec[j])]
  <1>1. exec[i] = "pending" /\ intent[i] = "approved"
    BY DEF ClaimExecution, Claimable, IInv, LedgersAgree, IntentStatusOf
  <1>2. /\ exec' = [exec EXCEPT ![i] = "entry_submitting"]
        /\ UNCHANGED << killSwitch, mode, sent >>
    BY <1>1 DEF ClaimExecution, gateVars, exchangeVars
  <1>3. /\ phase[i] = "queued"
        /\ [j \in Intents |-> PhaseOf(exec'[j])]
               = [phase EXCEPT ![i] = "working"]
    BY <1>1, <1>2, PhaseOfStatus DEF IInv, TypeOK
  <1>4. \A j \in Intents \ {i} :
          SymbolOf[j] = SymbolOf[i] => phase[j] \notin Contract!Owning
    BY ReleasedOwnsNothing DEF ClaimExecution, Claimable, SameSymbol
  <1> QED
    BY <1>2, <1>3, <1>4 DEF Contract!ContractNext, Contract!Take,
       Contract!Become

\* Only the entry is visible to the contract, and it is the first.
LEMMA ContractSend ==
  ASSUME IInv, SendEntry \/ SendProtection \/ SendClose
  PROVE  [Contract!ContractNext]_(Contract!vars)
  <1>1. wcur \in Intents /\ exec[wcur] = StatusAt(wpc)
    BY DEF SendEntry, SendProtection, SendClose, IInv, WorkerInv, BusyPoints
  <1>2. UNCHANGED << exec, killSwitch, mode >>
    BY DEF SendEntry, SendProtection, SendClose, Send, storeVars
  <1> DEFINE entries == [j \in Intents |-> sent[<< "entry", j >>]]
  <1>3. \A r \in Roles, j \in Intents : << r, j >> \in Cloids
    BY DEF Cloids
  <1>4. CASE SendEntry
    <2>1. PhaseOf(exec[wcur]) = "working"
      BY <1>1, <1>4, PhaseOfStatus DEF SendEntry, StatusAt, EntryPoints
    <2>2. sent[<< "entry", wcur >>] = 0
      BY <1>1, <1>4, InvOf DEF SendEntry, SentOf
    <2>3. sent' = [sent EXCEPT ![<< "entry", wcur >>] = @ + 1]
      BY <1>4 DEF SendEntry, Send
    <2>4. [j \in Intents |-> sent'[<< "entry",
    j >>]] = [entries EXCEPT ![wcur] = 1]
      <3>1. \A j \in Intents : sent'[<< "entry", j >>] =
              IF j = wcur THEN 1 ELSE sent[<< "entry", j >>]
        <4>1. sent \in [Cloids -> Nat]
          BY DEF IInv, TypeOK
        <4> TAKE j \in Intents
        <4>2. << "entry", j >> \in Cloids
          BY <1>3 DEF Roles
        <4>3. CASE j = wcur
          BY <2>2, <2>3, <4>1, <4>2, <4>3
        <4>4. CASE j # wcur
          <5>1. << "entry", j >> # << "entry", wcur >>
            BY <4>4
          <5> QED BY <2>3, <4>1, <4>2, <4>4, <5>1
        <4> QED BY <4>3, <4>4
      <3> QED BY <3>1, Zenon
    <2> QED
      BY <1>1, <1>2, <2>1, <2>2, <2>4 DEF Contract!ContractNext, Contract!Enter
  <1>5. CASE SendProtection \/ SendClose
    <2>1. PICK r \in { "stop_loss", "emergency_close" } :
            sent' = [sent EXCEPT ![<< r, wcur >>] = @ + 1]
      BY <1>5 DEF SendProtection, SendClose, Send
    <2>2. [j \in Intents |-> sent'[<< "entry", j >>]] = entries
      BY <1>3, <2>1 DEF Roles, IInv, TypeOK
    <2> QED BY <1>2, <2>2 DEF Contract!vars
  <1> QED BY <1>4, <1>5

\* The seven transactions of the worker.
LEMMA ContractMove ==
  ASSUME IInv,
         \/ EntryFilled \/ EntryRejected \/ EntryOutcomeUnknown
         \/ ProtectionVerified \/ ProtectionFails \/ CloseConfirmed
         \/ CloseUnconfirmed
  PROVE  [Contract!ContractNext]_(Contract!vars)
  <1> USE DEF EntryFilled, EntryRejected, EntryOutcomeUnknown,
              ProtectionVerified, ProtectionFails, CloseConfirmed,
              CloseUnconfirmed
  <1>1. UNCHANGED << sent, killSwitch >> /\ wpc \in BusyPoints
    BY DEF exchangeVars, BusyPoints
  <1>2. PICK t \in Moves, point \in { "idle", "protect", "close" } :
          FinishLive(t, point) /\ t.from = StatusAt(wpc)
    BY DEF Moves, Move, MarkFailed, MarkEntryUnknown, RecordEntryFill,
           MarkProtected, MarkEmergencyClosing, MarkClosed,
           MarkReconciliationRequired, StatusAt, EntryPoints
  <1> QED BY <1>1, <1>2, MoveStep

\* Every step of the live path is a step of the contract or a stutter.
LEMMA ContractStep ==
  ASSUME IInv, [Next]_vars
  PROVE  [Contract!ContractNext]_(Contract!vars)
  <1>1. CASE UNCHANGED vars
    BY <1>1, QuietStep DEF vars, storeVars, exchangeVars
  <1>2. CASE \E h \in Handlers : HandlerStep(h)
    BY <1>2, ContractHandler
  <1>3. CASE WorkerStep
    <2>1. CASE CheckGate \/ NothingToClaim \/ CheckPosition \/ EntryAccepted
               \/ ProtectionAccepted \/ RecordProtectionOrders \/ StorageFails
      BY <2>1, QuietStep
         DEF CheckGate, NothingToClaim, CheckPosition, EntryAccepted,
             ProtectionAccepted, RecordProtectionOrders, StorageFails,
             storeVars, exchangeVars
    <2> QED
      BY <1>3, <2>1, ContractClaim, ContractSend, ContractMove
         DEF WorkerStep, WorkerProgress
  <1>4. CASE ProcessStep
    BY <1>4, QuietStep DEF ProcessStep, Crash, Start, storeVars, exchangeVars
  <1>5. CASE OutsideStep
    <2>1. CASE \E b \in BOOLEAN : SetKillSwitch(b)
      <3>1. UNCHANGED << exec, sent, mode >> /\ killSwitch' \in BOOLEAN
        BY <2>1 DEF SetKillSwitch, gateVars, exchangeVars
      <3> QED
        BY <3>1 DEF Contract!ContractNext, Contract!Flip, Contract!vars, IInv,
           TypeOK
    <2>2. CASE ~ \E b \in BOOLEAN : SetKillSwitch(b)
      BY <1>5, <2>2, QuietStep
         DEF OutsideStep, Snapshot, OperatorAcknowledges, Expire, storeVars,
             exchangeVars
    <2> QED BY <2>1, <2>2
  <1>6. CASE ExchangeStep
    BY <1>6, QuietStep
       DEF ExchangeStep, ExecuteEntry, ExecuteProtection, ExecuteClose,
           LoseRequest, Took, StopTriggers, PositionReduced, storeVars
  <1> QED BY <1>2, <1>1, <1>3, <1>4, <1>5, <1>6 DEF Next

\* The live path implements ExecutionContract: one owner per symbol, one
\* entry per intent, no queueing under the kill switch, and outcomes in doubt
\* that lock the intent and halt the account in one transaction.
THEOREM Refinement == Spec => ImplementsContract
  <1>1. Init => Contract!ContractInit
    <2> SUFFICES ASSUME Init PROVE Contract!ContractInit
      OBVIOUS
    <2>1. \A i \in Intents : PhaseOf(exec[i]) = "none"
      BY PhaseOfStatus DEF Init
    <2>2. \A i \in Intents : sent[<< "entry", i >>] = 0
      BY DEF Init, Cloids, Roles
    <2> QED BY <2>1, <2>2 DEF Init, Contract!ContractInit
  <1> QED
    BY <1>1, ContractStep, InductiveInvariant, PTL
       DEF Spec, ImplementsContract, Contract!ContractSpec


=============================================================================
