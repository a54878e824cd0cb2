--------------------------- MODULE LiveExecution ---------------------------
(***************************************************************************)
(* The live path of the executor: HTTP handlers admit and confirm intents, *)
(* one worker claims confirmed intents and drives each of them through an  *)
(* IOC entry, exchange-native protection and, when protection fails, a     *)
(* reduce-only emergency close.  The handlers, the worker, the mainnet     *)
(* reader and the exchange interleave freely; the database is shared and   *)
(* survives a crash of the process, everything else does not.              *)
(*                                                                         *)
(* Every Store method is one transaction, so it is one step.  Between two  *)
(* of them, and around every call to the exchange, any other actor may     *)
(* move.                                                                   *)
(***************************************************************************)
EXTENDS ReconciliationGate, TradeStatus

CONSTANTS
  Intents,      \* the trade intents ever submitted
  Symbols,      \* the symbols they trade
  SymbolOf,     \* the symbol of each intent
  Handlers,     \* HTTP requests served at one time
  FullSize,     \* lots of an entry that fills completely
  Reconciled,   \* the account of the worker is the account of the reader
  NoIntent      \* the worker owns no intent

ASSUME LiveAssumption ==
  /\ SymbolOf \in [Intents -> Symbols]
  /\ FullSize \in Nat \ {0}
  /\ Reconciled \in BOOLEAN
  /\ NoIntent \notin Intents

VARIABLES
  intent,       \* trade_intents.status of each intent
  exec,         \* live_executions.status of each intent
  older,        \* the executions created before each execution (created_at)
  fillRow,      \* filled_size of the entry in live_orders, 0 for no row
  killSwitch,   \* executor_control.kill_switch_enabled
  expired,      \* intents past the expires_at of their confirmation
  wpc, wcur,    \* the worker: next step, and the intent run_once holds
  reply,        \* the answer to the worker's outstanding request
  hpc, hint,    \* the handlers: next step, and the intent of the request
  seen,         \* the executions there were when a handler read the clock
  inflight,     \* cloids of requests the exchange may still execute
  sent,         \* how often each cloid was sent
  got,          \* lots the entry of each intent really bought
  held,         \* lots of that exposure still open
  stop          \* lots the resting stop of each intent covers

storeVars    == << intent, exec, older, fillRow, killSwitch, mode, streak >>
workerVars   == << wpc, wcur, reply >>
handlerVars  == << hpc, hint, seen >>
exchangeVars == << inflight, sent, got, held, stop >>
vars == << storeVars, expired, workerVars, handlerVars, exchangeVars >>

\* A cloid is derived from the intent and the role of the order and nothing
\* else.  The take-profits travel in the request of the stop loss.
Roles == { "entry", "stop_loss", "emergency_close" }
Cloids == Roles \X Intents

\* Program points of run_once at which it holds a claimed intent.
BusyPoints ==
  { "claimed", "cleared", "entry_wait", "entry_query", "protect",
    "protect_wait", "verify", "booked", "close", "close_wait" }

\* Those at which the entry is still to be settled.
EntryPoints == { "claimed", "cleared", "entry_wait", "entry_query" }

WorkerPoints == { "down", "stopped", "idle", "gated" } \cup BusyPoints

Up == wpc # "down"

SameSymbol(i) == { j \in Intents : SymbolOf[j] = SymbolOf[i] }

TypeOK ==
  /\ GateTypeOK
  /\ intent \in [Intents -> TradeStatuses \cup {"absent"}]
  /\ exec \in [Intents -> LiveStatuses \cup {"absent"}]
  /\ older \in [Intents -> SUBSET Intents]
  /\ fillRow \in [Intents -> 0 .. FullSize]
  /\ killSwitch \in BOOLEAN
  /\ expired \in SUBSET Intents
  /\ wpc \in WorkerPoints
  /\ wcur \in Intents \cup {NoIntent}
  /\ reply \in { "none", "accepted", "rejected" }
  /\ hpc \in [Handlers -> { "idle", "submit", "confirm", "checked" }]
  /\ hint \in [Handlers -> Intents \cup {NoIntent}]
  /\ seen \in [Handlers -> SUBSET Intents]
  /\ inflight \in SUBSET Cloids
  /\ sent \in [Cloids -> Nat]
  /\ got \in [Intents -> 0 .. FullSize]
  /\ held \in [Intents -> 0 .. FullSize]
  /\ stop \in [Intents -> 0 .. FullSize]

Init ==
  /\ mode = "absent" /\ streak = 0
  /\ intent = [i \in Intents |-> "absent"]
  /\ exec = [i \in Intents |-> "absent"]
  /\ older = [i \in Intents |-> {}]
  /\ fillRow = [i \in Intents |-> 0]
  /\ killSwitch = FALSE
  /\ expired = {}
  /\ wpc = "down" /\ wcur = NoIntent /\ reply = "none"
  /\ hpc = [h \in Handlers |-> "idle"]
  /\ hint = [h \in Handlers |-> NoIntent]
  /\ seen = [h \in Handlers |-> {}]
  /\ inflight = {}
  /\ sent = [c \in Cloids |-> 0]
  /\ got = [i \in Intents |-> 0]
  /\ held = [i \in Intents |-> 0]
  /\ stop = [i \in Intents |-> 0]

-----------------------------------------------------------------------------
(* HTTP handlers.                                                          *)

\* ensure_reconciliation_ready.  That the last snapshot is at most twenty
\* seconds old is left to HandlerGivesUp: it can only refuse the request.
EngineGateOpen == Reconciled => mode = "normal"

EndRequest(h) ==
  /\ hpc' = [hpc EXCEPT ![h] = "idle"]
  /\ hint' = [hint EXCEPT ![h] = NoIntent]
  /\ seen' = [seen EXCEPT ![h] = {}]

\* A request passes the gate.  The transaction it leads to reads it no more.
EnterRequest(h, i, point) ==
  /\ Up /\ hpc[h] = "idle"
  /\ EngineGateOpen
  /\ hpc' = [hpc EXCEPT ![h] = point]
  /\ hint' = [hint EXCEPT ![h] = i]
  /\ UNCHANGED << storeVars, expired, workerVars, seen, exchangeVars >>

\* submit_shadow_intent: a known intent is answered with its row, a new one
\* is admitted unless the kill switch or the risk policy rejects it.
SubmitIntent(h) ==
  /\ hpc[h] = "submit"
  /\ \/ /\ intent[hint[h]] = "absent"
        /\ \E s \in IF killSwitch THEN { "risk_rejected" }
                    ELSE { "risk_rejected", "awaiting_confirmation" } :
             intent' = [intent EXCEPT ![hint[h]] = s]
     \/ /\ intent[hint[h]] # "absent"
        /\ UNCHANGED intent
  /\ EndRequest(h)
  /\ UNCHANGED << exec, older, fillRow, killSwitch, gateVars, expired,
                  workerVars, exchangeVars >>

\* The rows of live_executions.
Created == { i \in Intents : exec[i] # "absent" }

\* ShadowExecutionEngine::confirm up to the lock of the transaction, the last
\* thing before it being to read the clock: the intent exists, a fresh risk
\* decision approves it, its confirmation has not expired.  A decision
\* against it is final, unless the transition relation refuses.
ConfirmRecheck(h) ==
  /\ hpc[h] = "confirm"
  /\ intent[hint[h]] # "absent"
  /\ \/ /\ hint[h] \notin expired
        /\ hpc' = [hpc EXCEPT ![h] = "checked"]
        /\ seen' = [seen EXCEPT ![h] = Created]
        /\ UNCHANGED << intent, hint >>
     \/ /\ "risk_rejected" \in TradeSuccessors(intent[hint[h]])
        /\ intent' = [intent EXCEPT ![hint[h]] = "risk_rejected"]
        /\ EndRequest(h)
  /\ UNCHANGED << exec, older, fillRow, killSwitch, gateVars, expired,
                  workerVars, exchangeVars >>

\* confirm_intent_for_execution on an intent that waits too long: 410.
ConfirmExpired(h) ==
  /\ hpc[h] = "confirm"
  /\ intent[hint[h]] = "awaiting_confirmation"
  /\ hint[h] \in expired
  /\ EndRequest(h)
  /\ UNCHANGED << storeVars, expired, workerVars, exchangeVars >>

\* Seeded fault: an intent is confirmed whatever has become of it.
ConfirmableAgain(i) == ~killSwitch

\* What confirm_intent_for_execution reads in its transaction.
Confirmable(i) == intent[i] = "awaiting_confirmation" /\ ~killSwitch

\* created_at is the time read before the lock was taken.  Executions that
\* requests beside this one have created since may have an earlier time or a
\* later one, in the order they have among themselves.
RecordCreation(h, i) ==
  \E later \in SUBSET (Created \ seen[h]) :
    /\ \A j \in later, k \in Created : j \in older[k] => k \in later
    /\ older' = [j \in Intents |->
                   IF j = i THEN Created \ later
                   ELSE IF j \in later THEN older[j] \cup {i} ELSE older[j]]

\* confirm_intent_for_execution.  Where it refuses it writes nothing.
ConfirmIntent(h) ==
  /\ hpc[h] = "checked"
  /\ LET i == hint[h] IN
       IF Confirmable(i)
       THEN /\ intent' = [intent EXCEPT ![i] = "approved"]
            /\ exec' = [exec EXCEPT ![i] = "pending"]
            /\ RecordCreation(h, i)
       ELSE UNCHANGED << intent, exec, older >>
  /\ EndRequest(h)
  /\ UNCHANGED << fillRow, killSwitch, gateVars, expired, workerVars,
                  exchangeVars >>

\* Every other way a request ends: an invalid or unknown intent, a stale or
\* missing snapshot, an open position, another digest, a storage error.
HandlerGivesUp(h) ==
  /\ hpc[h] # "idle"
  /\ EndRequest(h)
  /\ UNCHANGED << storeVars, expired, workerVars, exchangeVars >>

HandlerStep(h) ==
  \/ \E i \in Intents, point \in { "submit", "confirm" } :
       EnterRequest(h, i, point)
  \/ SubmitIntent(h)
  \/ ConfirmRecheck(h)
  \/ ConfirmExpired(h)
  \/ ConfirmIntent(h)
  \/ HandlerGivesUp(h)

-----------------------------------------------------------------------------
(* The transactions that move a claimed execution.                         *)

Move(from, to, was, becomes, force) ==
  [ from |-> from, to |-> to, was |-> was, becomes |-> becomes,
    force |-> force ]

\* Seeded fault: a status the domain type does not know.
MarkFailedAsRejected ==
  Move("entry_submitting", "failed", "submitting", "rejected", FALSE)

MarkFailed ==
  Move("entry_submitting", "failed", "submitting", "failed", FALSE)

\* Seeded fault: an unknown entry outcome does not halt the account.
MarkEntryUnknownQuietly ==
  Move("entry_submitting", "entry_unknown", "submitting", "failed", FALSE)

\* Seeded fault: an entry whose outcome is unknown is tried again.
MarkEntryUnknownRequeued ==
  Move("entry_submitting", "pending", "submitting", "approved", FALSE)

MarkEntryUnknown ==
  Move("entry_submitting", "entry_unknown", "submitting", "failed", TRUE)

RecordEntryFill ==
  Move("entry_submitting", "entry_filled", "submitting", "executing", FALSE)

\* Seeded fault: protection completes the execution but not the intent.
MarkProtectedAlone ==
  Move("entry_filled", "protected", "executing", "executing", FALSE)

MarkProtected ==
  Move("entry_filled", "protected", "executing", "completed", FALSE)

\* Seeded fault: the execution is closed before the close was sent.
MarkEmergencyClosedEarly ==
  Move("entry_filled", "closed", "executing", "failed", TRUE)

MarkEmergencyClosing ==
  Move("entry_filled", "emergency_closing", "executing", "executing", TRUE)

MarkClosed ==
  Move("emergency_closing", "closed", "executing", "failed", TRUE)

MarkReconciliationRequired ==
  Move("emergency_closing", "reconciliation_required", "executing", "failed",
       TRUE)

\* The worker goes to another point; it lets go of the intent when the point
\* is outside handle_fill and submit_entry.
GoTo(point) ==
  /\ wpc' = point
  /\ wcur' = IF point \in BusyPoints THEN wcur ELSE NoIntent
  /\ reply' = "none"

\* finish_live_transition and update_live_and_intent_tx: both rows move or
\* neither does.  A row in another status is ConcurrentTransition, which
\* ends the worker's loop.
FinishLive(t, point) ==
  IF exec[wcur] = t.from /\ intent[wcur] = t.was
  THEN /\ exec' = [exec EXCEPT ![wcur] = t.to]
       /\ intent' = [intent EXCEPT ![wcur] = t.becomes]
       /\ IF t.force THEN ForceCloseOnly ELSE UNCHANGED gateVars
       /\ GoTo(point)
  ELSE /\ GoTo("stopped")
       /\ UNCHANGED << exec, intent, gateVars >>

-----------------------------------------------------------------------------
(* The worker.                                                             *)

\* Seeded fault: an account without a row never passes.
CheckGateNormalOnly ==
  /\ wpc = "idle"
  /\ mode = "normal"
  /\ GoTo("gated")
  /\ UNCHANGED << storeVars, expired, handlerVars, exchangeVars >>

\* run_once reads the reconciliation row: no row, or ready and normal.
CheckGate ==
  /\ wpc = "idle"
  /\ mode \in { "absent", "normal" }
  /\ GoTo("gated")
  /\ UNCHANGED << storeVars, expired, handlerVars, exchangeVars >>

\* Seeded fault: an execution waiting for protection holds no symbol.
ClaimableBesideFilled(i) ==
  /\ exec[i] = "pending"
  /\ \A j \in SameSymbol(i) \ {i} : exec[j] \in Released \cup {"entry_filled"}

Claimable(i) ==
  /\ exec[i] = "pending"
  /\ \A j \in SameSymbol(i) \ {i} : exec[j] \in Released

\* claim_next_live_execution: the oldest pending execution whose symbol no
\* other execution of the account holds.
ClaimExecution(i) ==
  /\ wpc = "gated"
  /\ Claimable(i)
  /\ \A j \in older[i] \ {i} : ~Claimable(j)
  /\ IF intent[i] = "approved"
     THEN /\ exec' = [exec EXCEPT ![i] = "entry_submitting"]
          /\ intent' = [intent EXCEPT ![i] = "submitting"]
          /\ wpc' = "claimed" /\ wcur' = i /\ reply' = "none"
     ELSE /\ GoTo("stopped")
          /\ UNCHANGED << exec, intent >>
  /\ UNCHANGED << older, fillRow, killSwitch, gateVars, expired, handlerVars,
                  exchangeVars >>

NothingToClaim ==
  /\ wpc = "gated"
  /\ \A i \in Intents : ~Claimable(i)
  /\ GoTo("idle")
  /\ UNCHANGED << storeVars, expired, handlerVars, exchangeVars >>

\* Seeded fault: the entry is signed without asking for open positions.
SymbolFlatUnchecked(i) == TRUE

\* user_state shows no position in the symbol of the intent.
SymbolFlat(i) == \A j \in SameSymbol(i) : held[j] = 0

CheckPosition ==
  /\ wpc = "claimed"
  /\ SymbolFlat(wcur)
  /\ GoTo("cleared")
  /\ UNCHANGED << storeVars, expired, handlerVars, exchangeVars >>

\* A request leaves the worker.
Send(role, point) ==
  /\ inflight' = inflight \cup { << role, wcur >> }
  /\ sent' = [sent EXCEPT ![<< role, wcur >>] = @ + 1]
  /\ GoTo(point)
  /\ UNCHANGED << storeVars, expired, handlerVars, got, held, stop >>

SendEntry == wpc = "cleared" /\ Send("entry", "entry_wait")

EntryAccepted ==
  /\ wpc = "entry_wait" /\ reply = "accepted"
  /\ GoTo("entry_query")
  /\ UNCHANGED << storeVars, expired, handlerVars, exchangeVars >>

\* query_confirmed_fill found fills of the order: they show its whole size.
EntryFilled ==
  /\ wpc = "entry_query"
  /\ got[wcur] > 0
  /\ FinishLive(RecordEntryFill, "protect")
  /\ fillRow' = [fillRow EXCEPT ![wcur] =
                   IF wpc' = "protect" THEN got[wcur] ELSE @]
  /\ UNCHANGED << older, killSwitch, expired, handlerVars, exchangeVars >>

\* GatewayFailure::Definite of submit_entry: the symbol is open (to trades
\* of others too), the exchange refused the order, or the order is canceled
\* and five looks at the fills showed none of it.
EntryRejected ==
  /\ \/ wpc = "claimed"
     \/ wpc = "entry_wait" /\ reply = "rejected"
     \/ wpc = "entry_query" /\ got[wcur] < FullSize
  /\ FinishLive(MarkFailed, "idle")
  /\ UNCHANGED << older, fillRow, killSwitch, expired, handlerVars,
                  exchangeVars >>

\* Seeded fault: an entry whose outcome is unknown is logged and let go.
EntryOutcomeDropped ==
  /\ wpc \in { "claimed", "entry_wait", "entry_query" }
  /\ GoTo("idle")
  /\ UNCHANGED << storeVars, expired, handlerVars, exchangeVars >>

\* GatewayFailure::OutcomeUnknown of submit_entry: a call that got no usable
\* answer, before the order was sent or after.
EntryOutcomeUnknown ==
  /\ wpc \in { "claimed", "entry_wait", "entry_query" }
  /\ FinishLive(MarkEntryUnknown, "idle")
  /\ UNCHANGED << older, fillRow, killSwitch, expired, handlerVars,
                  exchangeVars >>

\* establish_protection: one bulk request with the stop and the targets.
SendProtection == wpc = "protect" /\ Send("stop_loss", "protect_wait")

ProtectionAccepted ==
  /\ wpc = "protect_wait" /\ reply = "accepted"
  /\ GoTo("verify")
  /\ UNCHANGED << storeVars, expired, handlerVars, exchangeVars >>

\* Seeded fault: an accepted request counts as protection.
StopUnverified(i) == TRUE

\* verify_protection: the open orders hold a stop of at least the fill.
FullStop(i) == stop[i] >= fillRow[i]

\* record_live_protection_orders, in a transaction of its own.
RecordProtectionOrders ==
  /\ wpc = "verify"
  /\ FullStop(wcur)
  /\ GoTo(IF exec[wcur] = "entry_filled" THEN "booked" ELSE "stopped")
  /\ UNCHANGED << storeVars, expired, handlerVars, exchangeVars >>

ProtectionVerified ==
  /\ wpc = "booked"
  /\ FinishLive(MarkProtected, "idle")
  /\ UNCHANGED << older, fillRow, killSwitch, expired, handlerVars,
                  exchangeVars >>

\* Any failure of establish_protection: a size that rounds to zero, a lost
\* or refused request, open orders that do not prove the stop.
ProtectionFails ==
  /\ wpc \in { "protect", "protect_wait", "verify" }
  /\ FinishLive(MarkEmergencyClosing, "close")
  /\ UNCHANGED << older, fillRow, killSwitch, expired, handlerVars,
                  exchangeVars >>

SendClose == wpc = "close" /\ Send("emergency_close", "close_wait")

\* confirmed_fill of emergency_close: filled, whatever the size.
CloseConfirmed ==
  /\ wpc = "close_wait" /\ reply = "accepted"
  /\ FinishLive(MarkClosed, "idle")
  /\ UNCHANGED << older, fillRow, killSwitch, expired, handlerVars,
                  exchangeVars >>

CloseUnconfirmed ==
  /\ wpc \in { "close", "close_wait" }
  /\ FinishLive(MarkReconciliationRequired, "idle")
  /\ UNCHANGED << older, fillRow, killSwitch, expired, handlerVars,
                  exchangeVars >>

\* Any StoreError ends the loop in main; the API keeps serving.
StorageFails ==
  /\ wpc \notin { "down", "stopped" }
  /\ GoTo("stopped")
  /\ UNCHANGED << storeVars, expired, handlerVars, exchangeVars >>

WorkerProgress ==
  \/ CheckGate
  \/ \E i \in Intents : ClaimExecution(i)
  \/ NothingToClaim
  \/ CheckPosition
  \/ SendEntry
  \/ EntryAccepted
  \/ EntryFilled
  \/ EntryRejected
  \/ EntryOutcomeUnknown
  \/ SendProtection
  \/ ProtectionAccepted
  \/ RecordProtectionOrders
  \/ ProtectionVerified
  \/ ProtectionFails
  \/ SendClose
  \/ CloseConfirmed
  \/ CloseUnconfirmed

WorkerStep == WorkerProgress \/ StorageFails

-----------------------------------------------------------------------------
(* The process.                                                            *)

Crash ==
  /\ Up
  /\ wpc' = "down" /\ wcur' = NoIntent /\ reply' = "none"
  /\ hpc' = [h \in Handlers |-> "idle"]
  /\ hint' = [h \in Handlers |-> NoIntent]
  /\ seen' = [h \in Handlers |-> {}]
  /\ UNCHANGED << storeVars, expired, exchangeVars >>

\* Seeded fault: the lock forgets executions whose entry is in doubt.
UnresolvedExecutionsButEntries ==
  { i \in Intents : exec[i] \in Unresolved \ {"entry_submitting"} }

\* unresolved_live_execution_count.
UnresolvedExecutions == { i \in Intents : exec[i] \in Unresolved }

\* main: the worker starts only over resolved executions.
Start ==
  /\ wpc = "down"
  /\ UnresolvedExecutions = {}
  /\ IF Reconciled THEN Configure ELSE UNCHANGED gateVars
  /\ GoTo("idle")
  /\ UNCHANGED << intent, exec, older, fillRow, killSwitch, expired,
                  handlerVars, exchangeVars >>

ProcessStep == Crash \/ Start

-----------------------------------------------------------------------------
(* The reader, the operator and the clock.  Reconciliation computes the    *)
(* verdict of a snapshot; here a snapshot may bring any verdict.           *)

Snapshot(v) ==
  /\ Up /\ Reconciled
  /\ TakeSnapshot(v)
  /\ UNCHANGED << intent, exec, older, fillRow, killSwitch, expired,
                  workerVars, handlerVars, exchangeVars >>

OperatorAcknowledges ==
  /\ Up /\ Reconciled
  /\ Acknowledge
  /\ UNCHANGED << intent, exec, older, fillRow, killSwitch, expired,
                  workerVars, handlerVars, exchangeVars >>

SetKillSwitch(b) ==
  /\ Up
  /\ killSwitch' = b
  /\ UNCHANGED << intent, exec, older, fillRow, gateVars, expired,
                  workerVars, handlerVars, exchangeVars >>

\* A confirmation expires.  Nothing looks at the deadline of an intent once
\* it is approved or rejected, so it passes only before.
Expire(i) ==
  /\ intent[i] = "awaiting_confirmation"
  /\ expired' = expired \cup {i}
  /\ UNCHANGED << storeVars, workerVars, handlerVars, exchangeVars >>

OutsideStep ==
  \/ \E v \in Verdicts : Snapshot(v)
  \/ OperatorAcknowledges
  \/ \E b \in BOOLEAN : SetKillSwitch(b)
  \/ \E i \in Intents : Expire(i)

-----------------------------------------------------------------------------
(* The exchange: it executes a request at any time after it was sent, also *)
(* when the worker no longer waits for the answer, or never.               *)

\* The answer reaches the worker if it still waits for it.
Answer(i, point, r) ==
  reply' = IF wcur = i /\ wpc = point THEN r ELSE reply

Took(role, i) ==
  /\ << role, i >> \in inflight
  /\ inflight' = inflight \ { << role, i >> }
  /\ UNCHANGED << storeVars, expired, wpc, wcur, handlerVars, sent >>

\* The IOC fills any part of its size; a filled part is never refused.
ExecuteEntry(i, size, r) ==
  /\ Took("entry", i)
  /\ r = "rejected" => size = 0
  /\ got' = [got EXCEPT ![i] = size]
  /\ held' = [held EXCEPT ![i] = size]
  /\ Answer(i, "entry_wait", r)
  /\ UNCHANGED stop

\* The stop rests or not.  A refused bulk may have placed it (a target was
\* refused), and an accepted one may not show it.
ExecuteProtection(i, size, r) ==
  /\ Took("stop_loss", i)
  /\ size \in { 0, fillRow[i] }
  /\ stop' = [stop EXCEPT ![i] = size]
  /\ Answer(i, "protect_wait", r)
  /\ UNCHANGED << got, held >>

\* The reduce-only IOC closes any part of what is held, and is refused when
\* it closes nothing.
ExecuteClose(i, size) ==
  /\ Took("emergency_close", i)
  /\ size <= held[i]
  /\ held' = [held EXCEPT ![i] = @ - size]
  /\ Answer(i, "close_wait", IF size > 0 THEN "accepted" ELSE "rejected")
  /\ UNCHANGED << got, stop >>

LoseRequest(role, i) ==
  /\ Took(role, i)
  /\ UNCHANGED << reply, got, held, stop >>

\* A stop triggers.  It reduces the position of its symbol, whoever opened
\* it.
StopTriggers(i) ==
  /\ stop[i] > 0
  /\ stop' = [stop EXCEPT ![i] = 0]
  /\ held' = [j \in Intents |->
                IF j \notin SameSymbol(i) THEN held[j]
                ELSE IF held[j] > stop[i] THEN held[j] - stop[i] ELSE 0]
  /\ UNCHANGED << storeVars, expired, workerVars, handlerVars, inflight,
                  sent, got >>

\* A target fills, or the operator reduces the position by hand.
PositionReduced(i) ==
  /\ held[i] > 0
  /\ held' = [held EXCEPT ![i] = @ - 1]
  /\ UNCHANGED << storeVars, expired, workerVars, handlerVars, inflight,
                  sent, got, stop >>

Sizes == 0 .. FullSize
Answers == { "accepted", "rejected" }

ExchangeStep ==
  \E i \in Intents :
    \/ \E size \in Sizes, r \in Answers : ExecuteEntry(i, size, r)
    \/ \E size \in Sizes, r \in Answers : ExecuteProtection(i, size, r)
    \/ \E size \in Sizes : ExecuteClose(i, size)
    \/ \E role \in Roles : LoseRequest(role, i)
    \/ StopTriggers(i)
    \/ PositionReduced(i)

-----------------------------------------------------------------------------
Next ==
  \/ \E h \in Handlers : HandlerStep(h)
  \/ WorkerStep
  \/ ProcessStep
  \/ OutsideStep
  \/ ExchangeStep

Spec == Init /\ [][Next]_vars

\* Program points at which run_once awaits a call of the SDK: the position,
\* an order, the status and the fills of one, the open orders.
Awaits == { "claimed", "entry_wait", "entry_query", "protect_wait", "verify",
            "close_wait" }

\* The loop in main calls run_once again as soon as it returns, and run_once
\* goes on whenever it awaits no call or an answer has come.  No call has a
\* timeout, so nothing is assumed of those that are not answered.
Fairness == WF_vars((wpc \in Awaits => reply # "none") /\ WorkerProgress)

FairSpec == Spec /\ Fairness

-----------------------------------------------------------------------------
(* What must hold of the live path.                                        *)

\* No order is ever sent twice: across timeouts, storage failures, crashes
\* and restarts, every cloid leaves the worker at most once.
SentAtMostOnce == \A c \in Cloids : sent[c] <= 1

\* At most one execution of a symbol is anywhere between its claim and its
\* end; the NOT EXISTS of claim_next_live_execution is all that sees to it.
OneActivePerSymbol ==
  \A i \in Intents : \A j \in SameSymbol(i) \ {i} :
    exec[i] \in Released \/ exec[j] \in Released

\* Two intents never hold exposure in one symbol at once, although fills
\* lag, requests outlive their timeout, and a failed or emergency-closed
\* execution may leave a residue: the claim, the look at the open positions
\* and the lock at startup together keep the next entry away from it.
OneHolderPerSymbol ==
  \A i \in Intents : \A j \in SameSymbol(i) \ {i} :
    held[i] = 0 \/ held[j] = 0

\* The intent row that goes with each status of an execution row.
IntentStatusOf(status) ==
  CASE status = "pending" -> {"approved"}
    [] status = "entry_submitting" -> {"submitting"}
    [] status \in { "entry_filled", "emergency_closing" } -> {"executing"}
    [] status = "protected" -> {"completed"}
    [] status = "absent" ->
         { "absent", "awaiting_confirmation", "risk_rejected" }
    [] OTHER -> {"failed"}

\* The two ledgers, written by different statements of different handlers,
\* always tell the same story about an intent.
LedgersAgree ==
  \A i \in Intents : intent[i] \in IntentStatusOf(exec[i])

\* The execution status each program point of the worker relies on.
StatusAt(point) ==
  CASE point \in EntryPoints -> "entry_submitting"
    [] point \in { "protect", "protect_wait", "verify", "booked" } ->
         "entry_filled"
    [] OTHER -> "emergency_closing"

\* While the worker awaits the exchange nobody moves the rows it will write
\* next, so it never runs into ConcurrentTransition, which would stop it
\* with an order out.
WorkerOwnsItsExecution ==
  wpc \in BusyPoints => wcur \in Intents /\ exec[wcur] = StatusAt(wpc)

\* A protected position has a resting stop for all of its open size, however
\* late the exchange executed and whatever triggered since.
ProtectedIsCovered ==
  \A i \in Intents : exec[i] = "protected" => held[i] <= stop[i]

\* Raw SQL writes statuses in several transactions; together they follow
\* the relation TradeIntentStatus::can_transition_to declares.
LegalTradeTransitions ==
  [][\A i \in Intents :
       \/ intent'[i] \in {intent[i]} \cup TradeSuccessors(intent[i])
       \/ /\ intent[i] = "absent"
          /\ intent'[i] \in { "awaiting_confirmation", "risk_rejected" }]_vars

\* A worker never starts while an entry or a close of an earlier life of the
\* process may still reach the exchange: the startup lock covers every
\* status such a request can have left behind.
StartsOverNoOrder ==
  [][wpc = "down" /\ wpc' # "down" =>
       \A i \in Intents : /\ << "entry", i >> \notin inflight
                          /\ << "emergency_close", i >> \notin inflight]_vars

\* Without the reader nobody can acknowledge: one outcome in doubt and the
\* worker claims nothing ever again, not after a restart either.
InDoubt == { "entry_unknown", "emergency_closing", "closed",
             "reconciliation_required" }

DoubtStopsUnreadAccount ==
  [][~Reconciled /\ (\E i \in Intents : exec[i] \in InDoubt) =>
       \A i \in Intents : exec[i] = "pending" => exec'[i] = "pending"]_vars

\* The phase of the contract an execution status stands for.
PhaseOf(status) ==
  CASE status = "absent"  -> "none"
    [] status = "pending" -> "queued"
    [] status \in { "closed", "failed" } -> "released"
    [] status \in { "entry_unknown", "reconciliation_required" } -> "locked"
    [] status = "protected" -> "protected"
    [] OTHER -> "working"

Contract == INSTANCE ExecutionContract WITH
  phase   <- [i \in Intents |-> PhaseOf(exec[i])],
  entries <- [i \in Intents |-> sent[<< "entry", i >>]],
  halted  <- mode = "close_only",
  switch  <- killSwitch

\* The handlers, the worker, crashes and restarts and a slow exchange only
\* ever take the steps ExecutionContract allows: nothing is queued under the
\* kill switch, a symbol has one owner, an intent one entry, and an outcome
\* in doubt is final and halts the account in the same transaction.
ImplementsContract == Contract!ContractSpec

\* What the worker needs of the SDK: every call it awaits returns some time,
\* with an answer or with an error.  TimeoutIsRepresented shows what becomes
\* of an execution without it.
CallsReturn == \A point \in Awaits : []<>(wpc # point)

\* If calls return, a claimed execution reaches an outcome, unless the
\* process or the worker ends first: whatever the calls return, and whether
\* or not the exchange executed, no path of run_once lets go of an execution
\* that is still to be settled.
ClaimedSettles ==
  CallsReturn =>
    \A i \in Intents :
      exec[i] = "entry_submitting" ~>
        \/ exec[i] \notin
             { "entry_submitting", "entry_filled", "emergency_closing" }
        \/ wpc \in { "down", "stopped" }

\* If calls return, an execution that stays claimable while the worker runs
\* and the gate stays open is claimed, whoever else is confirmed meanwhile.
NoStarvation ==
  CallsReturn =>
    \A i \in Intents :
      ~ <>[] /\ Claimable(i)
             /\ wpc \notin { "down", "stopped" }
             /\ mode \in { "absent", "normal" }

-----------------------------------------------------------------------------
(* What the documentation says of the live path and the code does not do.  *)

\* README: a discrepancy "immediately halts new entries".  The worker reads
\* the gate and claims in two transactions.
HaltStopsEntries ==
  [][\A i \in Intents :
       exec[i] = "pending" /\ exec'[i] = "entry_submitting" =>
         mode \in { "absent", "normal" }]_vars

\* README: failed protection "uses a deterministic reduce-only IOC close;
\* uncertain outcomes enter persistent reconciliation".  A close that fills
\* in part is recorded as closed.
ClosedIsFlat == \A i \in Intents : exec[i] = "closed" => held[i] = 0

\* README: "Any unresolved entry or close outcome locks worker startup."  An
\* entry whose protection a crash interrupted does not.
StartResolvesEntries ==
  [][wpc = "down" /\ wpc' # "down" =>
       \A i \in Intents : exec[i] = "entry_filled" => held[i] <= stop[i]]_vars

\* openapi.yaml: a confirmation is "atomically rejected by the kill switch".
\* The live path answers with a conflict and leaves the intent confirmable.
SwitchRejectsConfirmation ==
  [][\A h \in Handlers :
       ConfirmIntent(h) /\ killSwitch
                       /\ intent[hint[h]] = "awaiting_confirmation" =>
         intent'[hint[h]] = "risk_rejected"]_vars

\* README: "A confirmed live intent is atomically claimed once", and only
\* active executions keep it waiting.  Behind a protected one it waits for
\* ever, also when the position is long closed: no status follows protected.
ConfirmedIsClaimed ==
  CallsReturn =>
    \A i, j \in Intents :
      /\ exec[i] = "pending"
      /\ j \in SameSymbol(i) /\ exec[j] = "protected" /\ held[j] = 0
      ~> \/ exec[i] # "pending"
         \/ wpc \in { "down", "stopped" }
         \/ mode \notin { "absent", "normal" }

\* ROADMAP: "Rejections and timeouts are represented explicitly", README:
\* "uncertain outcomes enter persistent reconciliation".  An entry that was
\* sent and is never answered stays entry_submitting: no call has a timeout.
TimeoutIsRepresented ==
  \A i \in Intents :
    exec[i] = "entry_submitting" /\ sent[<< "entry", i >>] > 0 ~>
      exec[i] # "entry_submitting" \/ wpc \in { "down", "stopped" }

-----------------------------------------------------------------------------
(* The invariant that is inductive.                                        *)

\* While the worker holds an intent its execution has the status the program
\* point relies on, and it has an answer only where it waits for one.
WorkerInv ==
  /\ wpc \in BusyPoints => wcur \in Intents /\ exec[wcur] = StatusAt(wpc)
  /\ wpc \notin BusyPoints => wcur = NoIntent
  /\ wpc \notin { "entry_wait", "protect_wait", "close_wait" } =>
       reply = "none"
  /\ \A h \in Handlers : hpc[h] # "idle" => hint[h] \in Intents

\* What may still execute was sent, and was sent once.
CloidInv ==
  \A c \in Cloids : sent[c] \in {0, 1} /\ (c \in inflight => sent[c] = 1)

\* What was sent, by the status and the program point it was sent at.
SentOf(i) ==
  /\ exec[i] \in { "absent", "pending" } => sent[<< "entry", i >>] = 0
  /\ wcur = i /\ wpc \in { "claimed", "cleared" } =>
       sent[<< "entry", i >>] = 0
  /\ got[i] > 0 => sent[<< "entry", i >>] = 1
  /\ exec[i] \in { "entry_filled", "emergency_closing", "protected" } =>
       sent[<< "entry", i >>] = 1
  /\ exec[i] \in { "absent", "pending", "entry_submitting" } =>
       sent[<< "stop_loss", i >>] = 0
  /\ wcur = i /\ wpc = "protect" => sent[<< "stop_loss", i >>] = 0
  /\ exec[i] \in { "absent", "pending", "entry_submitting", "entry_filled" }
       => sent[<< "emergency_close", i >>] = 0
  /\ wcur = i /\ wpc = "close" => sent[<< "emergency_close", i >>] = 0

SentInv == \A i \in Intents : SentOf(i)

\* Where a request can still be on its way.
InflightOf(i) ==
  /\ << "entry", i >> \in inflight =>
       /\ exec[i] \in { "entry_submitting", "entry_unknown" }
       /\ wcur = i => wpc = "entry_wait" /\ reply = "none"
  /\ << "stop_loss", i >> \in inflight =>
       /\ exec[i] # "protected"
       /\ wcur = i => wpc \notin { "verify", "booked" }
       /\ wcur = i /\ wpc = "protect_wait" => reply = "none"
  /\ << "emergency_close", i >> \in inflight =>
       /\ exec[i] \in { "emergency_closing", "reconciliation_required" }
       /\ wcur = i => wpc = "close_wait" /\ reply = "none"

InflightInv == \A i \in Intents : InflightOf(i)

\* An entry about to be sent, or on its way, finds its symbol flat.
FlatInv ==
  /\ wpc = "cleared" => SymbolFlat(wcur)
  /\ \A i \in Intents : << "entry", i >> \in inflight => SymbolFlat(i)

\* The fill row of an execution in progress is what its entry bought, and a
\* stop found in the open orders goes on covering what is held.
ExposureInv ==
  \A i \in Intents :
    /\ held[i] <= got[i]
    /\ exec[i] \in { "entry_filled", "emergency_closing", "protected" } =>
         fillRow[i] = got[i]
    /\ wcur = i /\ wpc = "booked" => held[i] <= stop[i]

\* The whole of it.
IInv ==
  /\ TypeOK
  /\ LedgersAgree
  /\ OneActivePerSymbol
  /\ WorkerInv
  /\ CloidInv
  /\ SentInv
  /\ InflightInv
  /\ FlatInv
  /\ ExposureInv
  /\ OneHolderPerSymbol
  /\ ProtectedIsCovered

=============================================================================
