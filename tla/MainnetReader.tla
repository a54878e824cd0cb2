---------------------------- MODULE MainnetReader ---------------------------
(***************************************************************************)
(* The reader service of one account as it runs in time: the poll loop     *)
(* (snapshot, verdict, history, readiness, sleep), the websocket that      *)
(* comes and goes beside it, and the status both publish for GET /ready.   *)
(* The reconciliation row is ReconciliationGate's; here the question is    *)
(* what the published status says of it, and when.                         *)
(*                                                                         *)
(* Time is counted in units of the poll interval.  The database and the    *)
(* locks take no time; a request takes up to its timeout.                  *)
(***************************************************************************)
EXTENDS ReconciliationGate

CONSTANTS
  PollInterval,   \* 5 seconds
  Timeout,        \* of a snapshot and of a history request: 10 seconds
  StaleAfter,     \* 15 seconds
  HistoryEvery    \* 60 seconds between attempts

ASSUME ReaderAssumption ==
  {PollInterval, Timeout, StaleAfter, HistoryEvery} \subseteq Nat \ {0}

VARIABLES
  phase,      \* where the poll loop is
  elapsed,    \* time spent in a phase that takes time
  result,     \* the mode record_mainnet_snapshot returned
  snapAge,    \* age of last_success_at
  wsAge,      \* age of last_websocket_event_at
  histAge,    \* age of last_history_attempt
  ws,         \* is the websocket open?
  shown,      \* MainnetReadStatus
  calm        \* from now on the exchange and the network answer, the account
              \* is as it should be, and the process stays up

loopVars == << phase, elapsed, result, snapAge, histAge >>
wsVars == << ws, wsAge >>
vars == << gateVars, loopVars, wsVars, shown, calm >>

\* Snapshots and events are never older than this while ready is published: a
\* snapshot that was stored before a history request that took its time, then
\* the pause, then a request for the next one.
SnapshotBound == 2 * Timeout + PollInterval
EventBound == StaleAfter + PollInterval + 2 * Timeout

\* An age counts to just beyond what it is compared with, which is also the age
\* of what has not happened in this process.
Beyond(bound) == bound + 1
Older(age, bound) == IF age < Beyond(bound) THEN age + 1 ELSE age

NotYet == [ snap |-> Beyond(SnapshotBound), ws |-> Beyond(EventBound),
            hist |-> Beyond(HistoryEvery) ]

Limit(p) ==
  CASE p \in { "fetching", "history" } -> Timeout
    [] p = "sleeping" -> PollInterval
    [] OTHER -> 0

Phases == { "fetching", "applying", "checking", "history", "evaluating",
            "sleeping" }

ReaderTypeOK ==
  /\ GateTypeOK
  /\ phase \in Phases /\ elapsed \in 0 .. Limit(phase)
  /\ result \in Modes
  /\ snapAge \in 0 .. Beyond(SnapshotBound)
  /\ wsAge \in 0 .. Beyond(EventBound)
  /\ histAge \in 0 .. Beyond(HistoryEvery)
  /\ ws \in { "open", "closed" }
  /\ shown \in [ready : BOOLEAN, history : BOOLEAN, reconciled : BOOLEAN,
                mode : Modes, ws : BOOLEAN]
  /\ calm \in BOOLEAN

AtStart ==
  [ ready |-> FALSE, history |-> FALSE, reconciled |-> FALSE,
    mode |-> "halt_new_entries", ws |-> FALSE ]

Init ==
  /\ mode = "startup" /\ streak = 0
  /\ phase = "fetching" /\ elapsed = 0 /\ result = "startup"
  /\ snapAge = NotYet.snap /\ wsAge = NotYet.ws /\ histAge = NotYet.hist
  /\ ws = "closed"
  /\ shown = AtStart
  /\ calm \in BOOLEAN

-----------------------------------------------------------------------------
(* The poll loop.                                                          *)

\* Seeded fault: the clock of the phase before goes on.
EnterLate(p) == phase' = p /\ UNCHANGED elapsed

Enter(p) == phase' = p /\ elapsed' = 0

\* mark_failure.
MarkFailure == [shown EXCEPT !.ready = FALSE]

\* fetch_snapshot ends in an error or is timed out, or the snapshot cannot
\* be stored.
FetchFails ==
  /\ phase = "fetching" /\ ~calm
  /\ Enter("checking")
  /\ shown' = [MarkFailure EXCEPT !.reconciled = FALSE]
  /\ UNCHANGED << gateVars, result, snapAge, histAge, wsVars, calm >>

\* The snapshot is complete and record_mainnet_snapshot has committed.
Persist(v) ==
  /\ phase = "fetching"
  /\ calm => v = "clean"
  /\ TakeSnapshot(v)
  /\ Enter("applying")
  /\ result' = mode'
  /\ UNCHANGED << snapAge, histAge, wsVars, shown, calm >>

\* Seeded fault: what the row says is shown, and a halt does not reach the
\* flag that readiness is made of.
ApplyModeOnly ==
  /\ phase = "applying"
  /\ Enter("checking")
  /\ snapAge' = 0
  /\ shown' = [shown EXCEPT !.reconciled = TRUE, !.mode = result]
  /\ UNCHANGED << gateVars, result, histAge, wsVars, calm >>

\* apply_reconciliation, with what the transaction returned; readiness is
\* left to the end of the cycle.
Apply ==
  /\ phase = "applying"
  /\ Enter("checking")
  /\ snapAge' = 0
  /\ shown' = [shown EXCEPT !.reconciled = (result = "normal"),
                            !.mode = result]
  /\ UNCHANGED << gateVars, result, histAge, wsVars, calm >>

\* Seeded fault: without an attempt there is none to repeat.
CheckHistoryAgain ==
  /\ phase = "checking"
  /\ IF histAge = HistoryEvery
     THEN Enter("history") /\ histAge' = 0
     ELSE Enter("evaluating") /\ UNCHANGED histAge
  /\ UNCHANGED << gateVars, result, snapAge, wsVars, shown, calm >>

\* The history is asked for again a minute after the last attempt began.
CheckHistoryDue ==
  /\ phase = "checking"
  /\ IF histAge >= HistoryEvery
     THEN Enter("history") /\ histAge' = 0
     ELSE Enter("evaluating") /\ UNCHANGED histAge
  /\ UNCHANGED << gateVars, result, snapAge, wsVars, shown, calm >>

HistoryEnds(ok) ==
  /\ phase = "history"
  /\ calm => ok
  /\ Enter("evaluating")
  /\ shown' = IF ok THEN [shown EXCEPT !.history = TRUE]
              ELSE [MarkFailure EXCEPT !.history = FALSE]
  /\ UNCHANGED << gateVars, result, snapAge, histAge, wsVars, calm >>

\* Seeded fault: an open websocket is taken for one that brings events.
EvaluateConnected ==
  /\ phase = "evaluating"
  /\ Enter("sleeping")
  /\ shown' = [shown EXCEPT !.ready = /\ snapAge <= StaleAfter
                                      /\ shown.history
                                      /\ shown.reconciled
                                      /\ shown.ws]
  /\ UNCHANGED << gateVars, result, snapAge, histAge, wsVars, calm >>

\* The end of the cycle: is what is known complete and recent enough?
Evaluate ==
  /\ phase = "evaluating"
  /\ Enter("sleeping")
  /\ shown' = [shown EXCEPT !.ready = /\ snapAge <= StaleAfter
                                      /\ shown.history
                                      /\ shown.reconciled
                                      /\ shown.ws
                                      /\ wsAge <= StaleAfter]
  /\ UNCHANGED << gateVars, result, snapAge, histAge, wsVars, calm >>

WakeUp ==
  /\ phase = "sleeping" /\ elapsed = PollInterval
  /\ Enter("fetching")
  /\ UNCHANGED << gateVars, result, snapAge, histAge, wsVars, shown, calm >>

LoopStep ==
  \/ FetchFails
  \/ \E v \in Verdicts : Persist(v)
  \/ Apply
  \/ CheckHistoryDue
  \/ \E ok \in BOOLEAN : HistoryEnds(ok)
  \/ Evaluate
  \/ WakeUp

-----------------------------------------------------------------------------
(* The websocket.  A connection may also go silent and stay open.          *)

WsOpens ==
  /\ ws = "closed"
  /\ ws' = "open"
  /\ UNCHANGED << gateVars, loopVars, wsAge, shown, calm >>

\* Any message counts; what it brings is stored by Reconciliation's feeds.
WsMessage ==
  /\ ws = "open"
  /\ wsAge' = 0
  /\ shown' = [shown EXCEPT !.ws = TRUE]
  /\ UNCHANGED << gateVars, loopVars, ws, calm >>

\* Seeded fault: the next cycle will notice.
WsFailsQuietly ==
  /\ ~calm
  /\ ws' = "closed"
  /\ shown' = [shown EXCEPT !.ws = FALSE]
  /\ UNCHANGED << gateVars, loopVars, wsAge, calm >>

\* An error, a close, an invalid payload, a fill that cannot be stored, or a
\* connection that is refused.
WsFails ==
  /\ ~calm
  /\ ws' = "closed"
  /\ shown' = [shown EXCEPT !.ws = FALSE, !.ready = FALSE]
  /\ UNCHANGED << gateVars, loopVars, wsAge, calm >>

-----------------------------------------------------------------------------
(* Everything else.                                                        *)

\* The worker forces close_only, the operator acknowledges: in the database,
\* not in the status.
WorkerForces ==
  /\ ~calm
  /\ ForceCloseOnly
  /\ UNCHANGED << loopVars, wsVars, shown, calm >>

OperatorAcknowledges ==
  /\ Acknowledge
  /\ UNCHANGED << loopVars, wsVars, shown, calm >>

Restart ==
  /\ ~calm
  /\ Enter("fetching")
  /\ snapAge' = NotYet.snap /\ wsAge' = NotYet.ws /\ histAge' = NotYet.hist
  /\ ws' = "closed"
  /\ shown' = AtStart
  /\ UNCHANGED << gateVars, result, calm >>

\* In calm the mids arrive at least once in a unit of time.
Tick ==
  /\ elapsed < Limit(phase)
  /\ calm => ws = "open" /\ wsAge <= 1
  /\ elapsed' = elapsed + 1
  /\ snapAge' = Older(snapAge, SnapshotBound)
  /\ wsAge' = Older(wsAge, EventBound)
  /\ histAge' = Older(histAge, HistoryEvery)
  /\ UNCHANGED << gateVars, phase, result, ws, shown, calm >>

\* Trouble lasts as long as it likes; calm is for good.
TroubleEnds ==
  /\ ~calm
  /\ calm' = TRUE
  /\ UNCHANGED << gateVars, loopVars, wsVars, shown >>

Next ==
  \/ LoopStep
  \/ WsOpens \/ WsMessage \/ WsFails
  \/ WorkerForces \/ OperatorAcknowledges \/ Restart
  \/ Tick \/ TroubleEnds

Spec == Init /\ [][Next]_vars

\* The loop is a task of its own that nothing blocks, time passes, and in
\* calm the websocket connects and is fed.
Fairness ==
  /\ WF_vars(LoopStep)
  /\ WF_vars(Tick)
  /\ WF_vars(calm /\ WsOpens)
  /\ WF_vars(calm /\ WsMessage)

FairSpec == Spec /\ Fairness

-----------------------------------------------------------------------------
(* What must hold of the published readiness.                              *)

\* Readiness is computed once per cycle and read at any time: while it is
\* published the snapshot behind it and the last event are no older than
\* what one whole cycle of timeouts can make of them.  That is the bound the
\* code keeps; StaleIsNotReady has the one the documentation gives.
ReadyIsRecent ==
  shown.ready => snapAge <= SnapshotBound /\ wsAge <= EventBound

\* While readiness is published no failure since has been left out, of the
\* websocket, the history or a snapshot.
ReadyOutlivesNoFailure ==
  shown.ready =>
    /\ shown.ws /\ shown.history
    /\ shown.reconciled \/ phase \in { "checking", "history", "evaluating" }

\* A halt of the row, whoever wrote it, reaches the published readiness,
\* whatever fails meanwhile.
HaltReachesReady ==
  shown.ready /\ mode # "normal" ~> ~shown.ready \/ mode = "normal"

\* After any trouble, once it is over the service becomes ready and stays
\* ready by itself, or it is close_only with the run of clean snapshots
\* complete and waits for nothing but the operator.
Recovers ==
  <>calm =>
    <>[](shown.ready \/ (mode = "close_only" /\ streak = RecoveryStreak))

-----------------------------------------------------------------------------
(* What the documentation says and the code does not do.                   *)

\* README: the reader "makes `/ready` return 503 when a configured snapshot is
\* missing, failed, internally inconsistent, or older than 15 seconds".  The age
\* is looked at once per cycle, and /ready answers with what was found then.
StaleIsNotReady == shown.ready => snapAge <= StaleAfter

\* openapi: /ready is 503 when the "account is close-only".  The mode a poll
\* has found is shown at once, readiness only after the history request.
CloseOnlyIsNotReady == shown.mode = "close_only" => ~shown.ready

=============================================================================
