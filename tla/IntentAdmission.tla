--------------------------- MODULE IntentAdmission --------------------------
(***************************************************************************)
(* The intake of the executor: clients that send intents from an outbox    *)
(* and retry until they are answered, the engine that checks and the store *)
(* that decides in one transaction, operators who confirm, the kill        *)
(* switch, restarts under another policy or mode, and the event journal    *)
(* every transaction writes to.  A request runs on a handler of its own:   *)
(* what it checked before its transaction may be stale inside it.          *)
(***************************************************************************)
EXTENDS EventJournal, TradeStatus, FiniteSets

CONSTANTS
  Payloads,      \* the intents clients compose
  Ids, Signals,
  Keys,          \* idempotency keys, with the strategy they belong to
  IdOf,          \* intentId of a payload
  SignalOf,      \* accountId, strategyInstanceId and signalId of a payload
  ExpiresAt,     \* expiresAt of a payload
  Requests,      \* << payload, key >> in the clients' outboxes
  Policies,
  Starts,        \* << policy, live >>: how the process may be started
  Approves,      \* evaluate_admission: the notional a policy approves for a
                 \* payload, 0 if it rejects it
  Ttl,           \* confirmation_ttl
  Handlers,      \* requests the server works on at a time
  NoRow,
  MaxTime,       \* the last moment of the clock (a bound of the model)
  MaxSwitches    \* changes of the kill switch (a bound of the model)

ASSUME AdmissionAssumption ==
  /\ IdOf \in [Payloads -> Ids] /\ SignalOf \in [Payloads -> Signals]
  /\ ExpiresAt \in [Payloads -> Nat]
  /\ Requests \subseteq Payloads \X Keys
  /\ Approves \in [Policies -> [Payloads -> Nat]]
  /\ Starts \subseteq Policies \X BOOLEAN
  /\ Ttl \in Nat \ {0} /\ MaxTime \in Nat /\ MaxSwitches \in Nat
  /\ NoRow \notin [payload : Payloads, key : Keys, status : TradeStatuses,
                   reviewedBy : Policies, confirmBy : Nat]

VARIABLES
  now,
  rows,        \* trade_intents
  killed,      \* executor_control.kill_switch_enabled
  policy,      \* the risk policy this process was started with
  live,        \* was it started in a live mode?
  handler,     \* what each handler has established so far
  outbox       \* what the sender of each request knows of it

processVars == << policy, live, handler >>
vars == << journalVars, now, rows, killed, processVars, outbox >>

Times == 0 .. MaxTime
Grants == { Approves[p][i] : p \in Policies, i \in Payloads }
Control == "control"      \* the nil aggregate of control events

Row(payload, key, status, reviewedBy, confirmBy) ==
  [ payload |-> payload, key |-> key, status |-> status,
    reviewedBy |-> reviewedBy, confirmBy |-> confirmBy ]

Idle == [ at |-> "idle" ]
Submitting(r, p, by) ==
  [ at |-> "submit", request |-> r, reviewedBy |-> p, confirmBy |-> by ]
Confirming(id, t) == [ at |-> "confirm", id |-> id, since |-> t ]
Rejecting(id) == [ at |-> "reject", id |-> id ]

Knowledge == { "unanswered", "created", "existing" }

Present == { id \in Ids : rows[id] # NoRow }
Granted(row) == Approves[row.reviewedBy][row.payload]

TypeOK ==
  /\ now \in Times
  /\ \A id \in Present :
       /\ IdOf[rows[id].payload] = id
       /\ << rows[id].payload, rows[id].key >> \in Requests
       /\ rows[id].status \in
            { "awaiting_confirmation", "risk_rejected", "shadow_accepted",
              "approved", "submitting" }
       /\ rows[id].reviewedBy \in Policies
       /\ rows[id].confirmBy \in 0 .. ExpiresAt[rows[id].payload]
  /\ killed \in BOOLEAN /\ policy \in Policies
  /\ live \in BOOLEAN
  /\ \A h \in Handlers :
       handler[h].at \in {"idle", "submit", "confirm", "reject"}
  /\ outbox \in [Requests -> Knowledge]
  /\ JournalTypeOK

Init ==
  /\ JournalInit
  /\ now = 0
  /\ rows = [id \in Ids |-> NoRow]
  /\ killed = FALSE
  /\ \E start \in Starts : policy = start[1] /\ live = start[2]
  /\ handler = [h \in Handlers |-> Idle]
  /\ outbox = [r \in Requests |-> "unanswered"]

-----------------------------------------------------------------------------
(* POST /v1/trade-intents.                                                 *)

Goes(h, to) == handler' = [handler EXCEPT ![h] = to]

\* The answer reaches the client, or is lost.  After a lost answer, and after
\* an error, the client may ask again.
Answer(r, what) == outbox' \in { outbox, [outbox EXCEPT ![r] = what] }

\* Seeded fault: every confirmation is offered for the full time to live.
OfferedForTtl(payload) == now + Ttl

\* A confirmation is offered until the intent expires or the time to live is
\* over.
OfferedUntil(payload) ==
  IF ExpiresAt[payload] < now + Ttl THEN ExpiresAt[payload] ELSE now + Ttl

\* ensure_reconciliation_ready, which may refuse at any time, validate and
\* evaluate_admission.
SubmitChecked(h, r) ==
  /\ handler[h] = Idle
  /\ outbox[r] = "unanswered"
  /\ ExpiresAt[r[1]] > now
  /\ Goes(h, Submitting(r, policy, OfferedUntil(r[1])))
  /\ UNCHANGED << journalVars, now, rows, killed, policy, live, outbox >>

\* find_by_idempotency_key_tx.
WithKey(key) == { id \in Present : rows[id].key = key }

\* Seeded fault: the key alone identifies the request.
KeyAnswerUncompared(r) == "existing"

\* A known key returns its row, if it is the row of the same intent.
KeyAnswer(r) ==
  IF \E id \in WithKey(r[2]) : rows[id].payload = r[1]
  THEN "existing" ELSE "unanswered"

\* Seeded fault: a new intent id makes it a new signal.
ReplayedUnderId(payload) ==
  \E id \in Present : rows[id].payload = payload

\* reject_signal_replay_tx.
Replayed(payload) ==
  \E id \in Present : SignalOf[rows[id].payload] = SignalOf[payload]

\* Seeded fault: the engine's risk decision is all that counts.
SubmitStatusUnswitched(payload, reviewedBy) ==
  IF Approves[reviewedBy][payload] = 0 THEN "risk_rejected"
  ELSE "awaiting_confirmation"

\* The status a new row gets; the engine brings a confirmation exactly when
\* the decision approves.
SubmitStatus(payload, reviewedBy) ==
  IF killed \/ Approves[reviewedBy][payload] = 0 THEN "risk_rejected"
  ELSE "awaiting_confirmation"

\* The event that announces it.
SubmitKind(status) ==
  IF status = "risk_rejected" THEN "intent.risk_rejected"
  ELSE "intent.awaiting_confirmation"

\* submit_shadow_intent, one transaction.
SubmitStore(h) ==
  /\ handler[h].at = "submit"
  /\ Goes(h, Idle)
  /\ LET r == handler[h].request
         payload == r[1]
         id == IdOf[payload]
         status == SubmitStatus(payload, handler[h].reviewedBy)
     IN \/ /\ WithKey(r[2]) # {}
           /\ Answer(r, KeyAnswer(r))
           /\ UNCHANGED << rows, journal >>
        \/ /\ WithKey(r[2]) = {}
           /\ id \in Present \/ Replayed(payload)
           /\ UNCHANGED << rows, journal, outbox >>
        \/ /\ WithKey(r[2]) = {}
           /\ id \notin Present /\ ~Replayed(payload)
           /\ rows' = [rows EXCEPT ![id] =
                         Row(payload, r[2], status, handler[h].reviewedBy,
                             handler[h].confirmBy)]
           /\ Record(<< Event(id, "intent.received"),
                        Event(id, SubmitKind(status)) >>)
           /\ Answer(r, "created")
  /\ UNCHANGED << readerVars, now, killed, policy, live >>

-----------------------------------------------------------------------------
(* POST /v1/trade-intents/{id}/confirm.  The operator sends the digest of  *)
(* the row, which is made of what never changes in it.                     *)

\* The engine's checks; the gate and the look at the open positions may refuse
\* at any time, which changes nothing.
ConfirmChecked(h, id) ==
  /\ handler[h] = Idle
  /\ id \in Present
  /\ ExpiresAt[rows[id].payload] > now
  /\ Goes(h, IF Approves[policy][rows[id].payload] > 0
             THEN Confirming(id, now) ELSE Rejecting(id))
  /\ UNCHANGED << journalVars, now, rows, killed, policy, live, outbox >>

SetStatus(id, status) == rows' = [rows EXCEPT ![id].status = status]

\* transition_intent to risk_rejected: the policy of this process rejects
\* what an earlier one approved.
RejectStore(h) ==
  /\ handler[h].at = "reject"
  /\ Goes(h, Idle)
  /\ LET id == handler[h].id
     IN IF "risk_rejected" \in TradeSuccessors(rows[id].status)
        THEN /\ SetStatus(id, "risk_rejected")
             /\ Record(<< Event(id, "intent.risk_rejected") >>)
        ELSE UNCHANGED << rows, journal >>
  /\ UNCHANGED << readerVars, now, killed, policy, live, outbox >>

Late(id, t) == rows[id].confirmBy <= t \/ ExpiresAt[rows[id].payload] <= t

\* Seeded fault: the rejected row is written, its event is not.
ConfirmShadowSilently(id, t) ==
  IF Late(id, t) \/ killed
  THEN SetStatus(id, "risk_rejected") /\ UNCHANGED journal
  ELSE /\ SetStatus(id, "shadow_accepted")
       /\ Record(<< Event(id, "intent.manually_confirmed"),
                    Event(id, "intent.shadow_accepted") >>)

\* confirm_intent at time t, of a row that awaits confirmation.
ConfirmShadow(id, t) ==
  IF Late(id, t) \/ killed
  THEN /\ SetStatus(id, "risk_rejected")
       /\ Record(<< Event(id, "intent.risk_rejected") >>)
  ELSE /\ SetStatus(id, "shadow_accepted")
       /\ Record(<< Event(id, "intent.manually_confirmed"),
                    Event(id, "intent.shadow_accepted") >>)

\* confirm_intent_for_execution: a refusal writes nothing.
ConfirmLive(id, t) ==
  IF Late(id, t) \/ killed
  THEN UNCHANGED << rows, journal >>
  ELSE /\ SetStatus(id, "approved")
       /\ Record(<< Event(id, "intent.manually_confirmed"),
                    Event(id, "execution.created") >>)

\* Either, in one transaction.  The clock is read before the lock is taken:
\* t is a moment since the checks.  A row that has left awaiting_confirmation
\* is answered and left alone.
ConfirmStore(h) ==
  /\ handler[h].at = "confirm"
  /\ Goes(h, Idle)
  /\ LET id == handler[h].id
     IN \/ /\ rows[id].status # "awaiting_confirmation"
           /\ UNCHANGED << rows, journal >>
        \/ /\ rows[id].status = "awaiting_confirmation"
           /\ \E t \in handler[h].since .. now :
                IF live THEN ConfirmLive(id, t) ELSE ConfirmShadow(id, t)
  /\ UNCHANGED << readerVars, now, killed, policy, live, outbox >>

-----------------------------------------------------------------------------
(* The rest of the process.                                                *)

\* claim_next_live_execution; LiveExecution has the whole of it.
WorkerClaims(id) ==
  /\ live /\ id \in Present /\ rows[id].status = "approved"
  /\ SetStatus(id, "submitting")
  /\ Record(<< Event(id, "execution.entry_claimed") >>)
  /\ UNCHANGED << readerVars, now, killed, processVars, outbox >>

SwitchEvents ==
  { "control.kill_switch_enabled", "control.kill_switch_disabled" }

Switches == { k \in 1 .. Len(journal) : journal[k].kind \in SwitchEvents }

\* set_kill_switch: an event also when it stays where it was.
SetKillSwitch(enabled) ==
  /\ Cardinality(Switches) < MaxSwitches
  /\ killed' = enabled
  /\ Record(<< Event(Control, IF enabled THEN "control.kill_switch_enabled"
                              ELSE "control.kill_switch_disabled") >>)
  /\ UNCHANGED << readerVars, now, rows, processVars, outbox >>

\* A crash, or a stop, and a start with another policy or in another mode:
\* handlers and the console session end, the database stays.
Restart ==
  /\ \E start \in Starts : policy' = start[1] /\ live' = start[2]
  /\ handler' = [h \in Handlers |-> Idle]
  /\ EndSession
  /\ UNCHANGED << journal, now, rows, killed, outbox >>

Tick ==
  /\ now < MaxTime
  /\ now' = now + 1
  /\ UNCHANGED << journalVars, rows, killed, processVars, outbox >>

Reads ==
  /\ JournalReaderStep
  /\ UNCHANGED << now, rows, killed, processVars, outbox >>

-----------------------------------------------------------------------------
Next ==
  \/ \E h \in Handlers, r \in Requests : SubmitChecked(h, r)
  \/ \E h \in Handlers, id \in Ids : ConfirmChecked(h, id)
  \/ \E h \in Handlers : SubmitStore(h) \/ ConfirmStore(h) \/ RejectStore(h)
  \/ \E id \in Ids : WorkerClaims(id)
  \/ \E enabled \in BOOLEAN : SetKillSwitch(enabled)
  \/ Restart \/ Tick \/ Reads

Spec == Init /\ [][Next]_vars

-----------------------------------------------------------------------------
(* What must hold of the intake.                                           *)

RowsOf(s) == { id \in Present : SignalOf[rows[id].payload] = s }

\* Whatever clients retry, under which keys and intent ids, and however their
\* requests overlap with each other and with restarts: a signal has at most
\* one row, a key has at most one, and a row was received exactly once.
AdmittedOnce ==
  /\ \A s \in Signals : Cardinality(RowsOf(s)) <= 1
  /\ \A key \in Keys : Cardinality(WithKey(key)) <= 1
  /\ \A id \in Ids :
       Cardinality({ k \in 1 .. Len(journal) :
                       journal[k] = Event(id, "intent.received") })
         = (IF id \in Present THEN 1 ELSE 0)

\* A client that was told its intent was created, or existed, can rely on
\* it: the row is there, it is the client's own intent under its own key, and
\* no other request of that signal was told it created one.
AnswersAreDurable ==
  /\ \A r \in Requests :
       outbox[r] \in { "created", "existing" } =>
         \E id \in Present : rows[id].payload = r[1] /\ rows[id].key = r[2]
  /\ \A r1, r2 \in Requests :
       outbox[r1] = "created" /\ outbox[r2] = "created" /\ r1 # r2
         => SignalOf[r1[1]] # SignalOf[r2[1]]

\* The status the events of a row say it has; the last that names one.
StatusOfKind ==
  [ kind \in { "intent.received", "intent.awaiting_confirmation",
               "intent.risk_rejected", "intent.shadow_accepted",
               "execution.created", "execution.entry_claimed" } |->
      CASE kind = "intent.received" -> "received"
        [] kind = "intent.awaiting_confirmation" -> "awaiting_confirmation"
        [] kind = "intent.risk_rejected" -> "risk_rejected"
        [] kind = "intent.shadow_accepted" -> "shadow_accepted"
        [] kind = "execution.created" -> "approved"
        [] kind = "execution.entry_claimed" -> "submitting" ]

LastOf(K) == CHOOSE k \in K : \A j \in K : j <= k

StatusEvents(id) ==
  { k \in 1 .. Len(journal) :
      journal[k].subject = id /\ journal[k].kind \in DOMAIN StatusOfKind }

\* The journal alone, read from cursor zero, gives the table: every change of
\* a status and of the kill switch, on every path that writes one, is in the
\* journal, in the order in which the rows changed.
JournalRebuildsRows ==
  /\ \A id \in Ids :
       IF id \in Present
       THEN rows[id].status =
              StatusOfKind[journal[LastOf(StatusEvents(id))].kind]
       ELSE StatusEvents(id) = {}
  /\ killed <=>
       /\ Switches # {}
       /\ journal[LastOf(Switches)].kind = "control.kill_switch_enabled"

FateOf(status) ==
  CASE status = "awaiting_confirmation" -> "proposed"
    [] status = "risk_rejected" -> "refused"
    [] status = "shadow_accepted" -> "simulated"
    [] status = "approved" -> "accepted"
    [] status = "submitting" -> "entered"

RowOf(s) == rows[CHOOSE id \in RowsOf(s) : TRUE]

Contract == INSTANCE AdmissionContract WITH
  fate   <- [s \in Signals |-> IF RowsOf(s) = {} THEN "unseen"
                               ELSE FateOf(RowOf(s).status)],
  grant  <- [s \in Signals |-> IF RowsOf(s) = {} THEN 0
                               ELSE Granted(RowOf(s))],
  halted <- killed

\* Requests that overlap, are repeated or outlive a restart never decide a
\* signal twice, never change its terms, and never pass the kill switch.
ImplementsContract == Contract!ContractSpec

-----------------------------------------------------------------------------
(* What the documentation says and the code does not do.                   *)

\* README: "Live confirmation revalidates the intent and policy."  What is
\* queued is the notional of the policy the row was admitted under.
ConfirmedUnderPolicy ==
  [][\A id \in Present :
       rows[id].status = "awaiting_confirmation"
         /\ rows'[id].status = "approved" =>
           Granted(rows[id]) <= Approves[policy][rows[id].payload]]_vars

=============================================================================
