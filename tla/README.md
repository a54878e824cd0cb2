# A model of hyperliquid-live-executor

This directory holds TLA+ modules that model the executor, TLC configurations
that check them on small instances, and proofs that the TLA+ proof system
checks for every instance. Paths such as `store.rs:792` are relative to the
crate's `src/` directory; `README:94` is the repository's README.

## The system

The executor is one process over one SQLite database. Strategies submit trade
intents over HTTP, an operator confirms each of them, and, in the live modes, a
worker sends an entry order to Hyperliquid, places exchange-native protection
and closes the position when protection fails. A reader polls the account on
mainnet and halts new entries when what it sees is not explained.

| Component | State | Operations | Meets the others through | What makes it correct |
|---|---|---|---|---|
| Engine (`engine.rs`) | none | submit, confirm | reads the reconciliation row, the last snapshot and the risk policy, then calls one store transaction | a signal is decided once, on terms that never change |
| Store (`store.rs`) | every table | one method per transaction | shared by handlers, worker, reader and operator | the ledgers of intents and executions agree; statuses move along the declared relation |
| Event journal (`store.rs:2068`) | `execution_events` | insert, page | written by every transaction, read by clients and the console | the journal alone rebuilds the tables; no reader skips an event |
| Live worker (`live_execution.rs`) | the execution `run_once` holds | gate, claim, entry, fill, protection, close | the store before and after each call to the exchange | no order twice, one holder per symbol, a protected position is covered |
| Write gateway (`live_gateway.rs`) | none | submit_entry, establish_protection, emergency_close | the exchange; answers are definite or unknown | an outcome is definite only if it is; legs never exceed the fill |
| Reader (`mainnet_read.rs`) | the snapshot under way, a status for the API | poll, backfill, websocket | writes snapshots, fills, updates and the reconciliation row | readiness is recent, and a halt reaches it |
| Reconciliation (`store.rs:1211`) | projections of orders and positions, the row | record a snapshot, force close_only, acknowledge | the row is the gate of the worker and of the engine | an open gate means a reconciled account; close_only is left only by an acknowledgement after clean snapshots |
| Risk (`risk.rs`) | the policy | evaluate_admission | called by the engine | the approved notional is the largest that every limit permits |
| Key vault (`key_vault.rs`) | a file | encrypt, unlock | `main` | no half-written key file, no key replaced |
| Migration (`store.rs:140`) | the schema | migrate | every start | whatever start died, the version tells the truth and nothing is lost |
| Startup (`main.rs`) | none | unlock, migrate, lock, worker loop | counts unresolved executions | the worker starts over no order of an earlier life |
| Kill switch | one row | set | read when an intent is submitted or confirmed | nothing is proposed or accepted while it is on |
| API, console (`api.rs`) | a cursor per session | routes | the engine, the store, the reader's status | answers are durable |
| Order and position statuses (`domain/`) | none | declared relations | no caller yet | |

What is hard here: the handlers, the worker, the reader and the operator
interleave between transactions; a request to the exchange may be lost, be
executed after the worker stopped waiting, or be executed and not answered; the
process may crash between any two steps; facts about the account arrive late
and out of order; a readiness that is computed every few seconds is read at any
time. `PROJECT.json` lists each hazard at its line, with the properties that
would show it going wrong.

## The modules

| Module | Models | Used by |
|---|---|---|
| `TradeStatus` | the status vocabularies and `can_transition_to` | `LiveExecution`, `IntentAdmission` |
| `EventJournal` | the journal, its paging client and the console session | extended by `IntentAdmission` |
| `AdmissionContract` | what the intake promises about a signal | implemented by `IntentAdmission` |
| `IntentAdmission` | clients, engine, confirmations, kill switch, restarts | `MCIntentAdmission`, `IntentAdmissionProofs` |
| `OrderSizing` | validation, risk sizing, legs, coverage: pure operators | extended by `ProtectedEntry`, `OrderSizingProofs` |
| `ProtectedEntry` | one trade in numbers: engine, worker, exchange, market, reader | `MCProtectedEntry`, `ProtectedEntryProofs` |
| `ExecutionContract` | what the live path promises about one account | implemented by `LiveExecution` |
| `LiveExecution` | handlers, worker, gateway, exchange, crashes and restarts | `MCLiveExecution`, `LiveExecutionProofs` |
| `ReconciliationGate` | the reconciliation row, abstractly: mode and clean streak | extended by `LiveExecution` and `MainnetReader`, implemented by `Reconciliation` |
| `Reconciliation` | the reader of one account, its feeds and the row | `MCReconciliation`, `ReconciliationProofs` |
| `MainnetReader` | the reader service in time and the readiness it publishes | `MCMainnetReader`, `MainnetReaderProofs` |
| `KeyVaultFile` | the key file and `encrypt-key` | extended by `ExecutorStartup` |
| `SchemaMigration` | `migrate`, statement by statement | extended by `ExecutorStartup` |
| `ExecutorStartup` | a deployment from an old database to a running executor | `MCExecutorStartup`, `ExecutorStartupProofs` |
| `...Proofs` | theorems about the module of that name | |
| `MC...` | instances for TLC | the configurations |

An intent passes through three of them. `IntentAdmission` takes it from the
client to `approved` and, in one step, to the claim; `LiveExecution` takes it
from the confirmation to the end of its execution, with statuses, retries and
crashes but sizes of one or two lots and arbitrary risk decisions;
`ProtectedEntry` has the numbers and leaves the crashes out. `Reconciliation`
says what the row is, `ReconciliationGate` how it moves, `MainnetReader` what
the API says of it and when.

### IntentAdmission, EventJournal, AdmissionContract

A request is checked by the engine and decided by one transaction of the store,
and is therefore two actions: `SubmitChecked` and `SubmitStore`,
`ConfirmChecked` and `ConfirmStore` or `RejectStore`. Between the two, another
handler, the worker, the operator's switch or the clock may act, and `handler`
keeps what the first has established. `SubmitStore` is the whole of
`submit_shadow_intent`: the key, the signal, the status, the row and its two
events. `outbox` is the client: it asks again until it is answered, and an
answer may be lost. `Restart` starts the process with another policy or in
another mode and ends every handler and session.

`Record` appends to the journal, so a cursor is a place in it. `ReadPage` is a
client that stores `nextCursor` with what it has applied; `SessionTick` is the
console, whose session ends with the first message that cannot be sent.
Readers do not disturb each other, so one at a time stands for all of them.

`AdmissionContract` says what all of this is for: a signal is decided once; its
terms never change; nothing is proposed or accepted while the switch is on; and
what was simulated is not entered.

Abstractions: the reconciliation gate, the age of the last snapshot and the look
at open positions can only refuse a request and change nothing, so a refusal is
a request that was not made; the digest is made of what never changes in a row;
after the claim a row is followed no further (`LiveExecution` does that).

### LiveExecution, ExecutionContract

Every store method is one transaction under one mutex, so it is one action; each
call to the exchange is an action that sends, an action of the exchange that
executes or loses the request, and an action that takes the answer.

- `intent`, `exec`, `older`, `fillRow`, `killSwitch`, `mode`, `streak` are the
  database and survive `Crash`. `older` is the order of `created_at`, which a
  request reads from the clock before it takes the lock: `seen` is what had been
  created by then, and `RecordCreation` may put the new execution before what
  has been created since.
- `wpc`, `wcur`, `reply` are the worker: the point of `run_once` it has reached,
  the intent it holds, and the answer it has not looked at. `hpc`, `hint`,
  `seen` are the HTTP requests being served.
- `inflight`, `sent`, `got`, `held`, `stop` are the exchange: requests that may
  still execute, how often each cloid was sent, what the entry bought, what of
  it is still open, what the resting stop covers.

`CheckGate`, `ClaimExecution` and `CheckPosition` are three steps, as they are
three reads in the code. `FinishLive` is `finish_live_transition`: a `Move`
names the two expected and the two new statuses and whether the account is
forced into close_only; a move whose expectation fails is
`ConcurrentTransition`, which stops the worker, as does `StorageFails` at any
point. `Start` is the lock in `main`.

Abstractions, all on the side of more behaviour:

- a snapshot brings any verdict (`Reconciliation` computes it) and the risk
  decision is arbitrary (`OrderSizing` computes it);
- the engine's look at the open position, the age of the snapshot and the digest
  can only refuse a request, and `HandlerGivesUp` may refuse any;
- an intent expires at any moment while it awaits confirmation; nothing reads the
  deadline later;
- sizes are whole lots; a size that rounds to zero is one way for protection or
  the close to fail;
- the take-profits travel with the stop in one request, whose stop may rest
  although the request was refused.

Assumptions about the exchange: the fills of one IOC become visible together
(`ProtectedEntry` drops this); `user_state` shows the position that is open;
others on the account only reduce exposure and do not cancel the stop. That a
call returns is not assumed: an answer may never come (see Fairness). The
attempt counter, event rows and the protection rows of `live_orders` are left
out: no property is about them.

### OrderSizing, ProtectedEntry

`OrderSizing` has `validate`, `evaluate_admission`, the sizes of the legs and
the coverage the reader computes. Sizes are lots, prices are ticks, money is
lots times ticks; a quotient stays a fraction with a known denominator, since
`Decimal` carries twenty-eight digits. The risk cap is divided by the distance
of the stop, so approved amounts are in units of one part in `Distance(i)`.

`ProtectedEntry` composes them: `Admit` is the engine, `SubmitEntry` to
`EmergencyClose` the worker and gateway, `ExecuteEntry`, `ShowFills` and
`LegFires` the exchange, `PriceMoves` the market, `ReaderPolls` the reader. The
fills become visible one by one, and `ConfirmFill` takes those that the first
look with any shows, as `query_confirmed_fill` does.

Left out: `round_price` (prices are ticks already); the SDK's own rounding of the
entry, which is external and may go either way by one lot; that the reader uses
the entry price when the mid of a coin is missing.

### Reconciliation, ReconciliationGate

`FetchPositions` and `FetchOrders` are answered at different moments and
`Observe` stamps what they brought; `RecordHistory` and `RecordOrderUpdates`
bring any part of the facts the exchange has produced, at any later time or
never. `RecordSnapshot` is the whole transaction of `record_mainnet_snapshot`:
`Project` writes the projections, `NewMode` and `NewStreak` the row.
`ForceCloseOnly` is the worker, `Acknowledge` the operator, `Configure` a start
of the process. The clocks of the exchange and of the process are one clock.
Sizes are numbers where the code compares their text. A stop covers one lot;
side and trigger price are `OrderSizing`'s. `RecoveryStreak` is 3 in the code, and
the count is not followed beyond it: nothing compares it with more.

### MainnetReader

The loop of `start_mainnet_read_service` as a cycle of phases: `fetching` and `history`
take up to their timeouts, `sleeping` takes the poll interval, and the database
takes no time. `shown` is `MainnetReadStatus`, which the loop, the websocket and
nobody else write; the worker and the operator write the row. Ages count to just
beyond what they are compared with. The websocket may fail, stay open and
silent, or bring a message; what a message brings is stored by the feeds of
`Reconciliation`. The five seconds a reconnect waits are not timed. `calm` is a
moment after which the network answers, the account is as it should be, and the
process stays up; liveness is stated for runs in which it comes.

### KeyVaultFile, SchemaMigration, ExecutorStartup

`KeyVaultFile` is `atomic_write_private`, one action per system call, with a
kill between any two and a power loss that cuts short what was not synced and
may lose a name the directory has not been written with. Process ids, which
name the temporary files, are used again. A file is the key it was made from:
cryptography, key parsing and permissions are left out.

`SchemaMigration` is `migrate`: one action per transaction or statement that
commits by itself, from the databases the code tells apart: no database, the
first schema, and versions 1 and 4 to 9. Versions 2 and 3 take the same
branches as 4 does, and their schemas are known only from these branches.
`ExecutorStartup` puts both under one deployment: `Start` needs a whole key if
one is configured, `Ends` is a kill or a failure of a start, `PowerLoss` hits
both. SQLite's own atomicity is taken as given.

## What the runs check

| Run | Instance | Shows |
|---|---|---|
| `admission` | one signal, two intents, two keys, three requests, two handlers, two policies, shadow and live | `AdmittedOnce`, `AnswersAreDurable`, `JournalRebuildsRows`, `CopyFollowsJournal`; refinement of `AdmissionContract` |
| `live_single` | one intent, two handlers, two lots, streak 2 | types, `LedgersAgree`; statuses follow the declared relation; a worker starts over no order that may still execute; refinement of `ExecutionContract` |
| `live_symbol` | two intents of one symbol, two lots | `OneActivePerSymbol`, `OneHolderPerSymbol`, `SentAtMostOnce`; `ProtectedIsCovered`, also beside the stops that ended executions left |
| `live_fair` | two symbols, no reader, fairness | if calls return, a claimed execution is settled and a claimable one is claimed; an outcome in doubt stops the account for good |
| `protection` | 56 intents, two policies, five prices | sizes are the largest the limits permit; the loss at the stop, of the reference price, is bounded by the risk cap and one lot; targets never sell more than was seen; a protected trade is open beyond its stop by no more than the fills not seen; what protection misses is reported |
| `rec_gate` | one coin, one stop, two moments, streak 3 | an open gate means a reconciled account; readers of the gate agree; a reason earns its own clean snapshots; no size is taken over without a recent fill; refinement of `ReconciliationGate` |
| `reader` | the code's own intervals, streak 2 | readiness rests on nothing older than a cycle of timeouts, outlives no failure, follows the row, and comes back |
| `startup` | two commands, every schema the code tells apart, two payments under two hashes | the key file is whole, who was told is right, the version is true, nothing is lost, the executor comes up |
| `doc_closed`, `doc_claimed`, `rec_newpos`, `start_migration` | the smallest that shows it | one statement of the documentation each, which the code does not keep |

### The bounds

`LiveExecution`: two lots are the least at which an entry or a close fills in
part, two intents the least that compete for a symbol, two handlers the least
that race for an intent. The exchange executes each request once at most, so
nothing else needs a bound. `IntentSymmetry` permutes intents of one symbol and
appears in no run with liveness.

`Reconciliation`: `MaxTime` bounds the clock. At two moments a fill is already
newer or older than the last snapshot, and torn and late reads occur.

`IntentAdmission`: the three requests are the ways to send a signal again: as it
was, changed under the same key, changed under another key. `MaxTime` is 2 with
a confirmation offered for 2, so one intent expires before its confirmation does
and one after; `MaxSwitches` is 1, since a second change only lengthens the
journal; the strict policy approves less of one intent and rejects the other.
The journal is bounded by these: no bound of its own. Handlers are symmetric.
Pages of two events are shorter than the journal and longer than one event.

`MainnetReader`: a unit of time is five seconds, the poll interval; the timeout
is 2, staleness 3, the history interval 12. `ReadyIsRecent` has the bounds the
code keeps, and they are tight: published readiness may rest on a snapshot of 25
seconds and an event of 40. The fifteen seconds of the documentation are
`StaleIsNotReady`, which the code does not keep (see below). The streak is 2 for
the size of the state space; `rec_gate` has 3.

`ProtectedEntry`: notionals of about one to five lots, on both sides of every
limit; entries that round either way; prices on each side of the entry, of the
stop and of both targets.

`ExecutorStartup`: two commands are the least that race for the file, and each
id is used again after a death. Two payments, so that one can be lost while the
other is kept.

### Fairness

- `LiveExecution.FairSpec` is weak fairness of the worker where it awaits no call
  of the SDK, or has the answer: the loop in `main` calls `run_once` again as
  soon as it returns (after 250 ms if there was nothing to do), and between two
  awaits nothing blocks it. The calls carry no timeout, so that they return is no
  part of the specification. It is a premise, `CallsReturn`, of the properties
  that need it: at no point of `Awaits` does the worker stay for ever. Without
  it an entry may stay sent and unanswered for ever: `TimeoutIsRepresented`,
  below. Nothing is assumed of the handlers, the
  reader, the operator or the exchange.
- `MainnetReader.FairSpec`: the loop is a task that nothing blocks, with a
  timeout around every request; time passes; and in `calm` the websocket connects
  (the service reconnects for ever) and is fed.
- `ProtectedEntry.FairSpec`: the reader polls for ever, and the exchange does not
  ignore for ever an order whose trigger is reached again and again. Nothing is
  assumed of the worker.
- `ExecutorStartup.FairSpec`: the operator repeats `encrypt-key` until there is a
  key, and a supervisor starts the executor again. Migration is one thread.

### Deadlock

TLC checks it in `admission`, `protection`, `rec_gate`, `reader` and `startup`.
The live runs switch it off: a process that crashed over an unresolved execution
is locked out by the check at startup, and once nothing is left to happen at the
exchange, nothing happens any more. `rec_newpos` stops at its clock.

## What the documentation says and the code does not do

Four statements have a run, whose counterexample is the code's own behaviour:

| Run | Statement | What happens |
|---|---|---|
| `start_migration` | ROADMAP:24, "Restart preserves intents, event cursors, and kill-switch state" | a start of a version 7 database that dies between `ADD COLUMN clean_streak` and the version leaves one that no later start can migrate (`store.rs:260`) |
| `doc_closed` | README:98-100, uncertain outcomes enter reconciliation | an emergency close that fills in part is recorded as closed |
| `doc_claimed` | README:94, claimed once, active executions excluded | a protected execution holds its symbol for ever |
| `rec_newpos` | README:74, a size change without a known fill halts | a position in a coin without a projection is imported |

Nine more are definitions in a section of their own at the end of their modules.
Each is refuted by TLC in the instance named here: it is violated when it is
checked in that configuration. The first four contradict what the documentation
promises outright; a passing run beside each says what the code does keep.

| Definition | Instance | Statement | What happens | Kept instead |
|---|---|---|---|---|
| `LiveExecution.TimeoutIsRepresented` | `live_fair.cfg` | ROADMAP:79, "Rejections and timeouts are represented explicitly"; README:99, uncertain outcomes enter reconciliation | no call of the gateway has a timeout (`live_gateway.rs:29`, `:71`): an entry that was sent and is never answered stays `entry_submitting`, the account is not halted, and the worker waits for ever with everything queued behind it | `ClaimedSettles`, if calls return |
| `ProtectedEntry.ProtectedIsStopped` | `protection.cfg` | ROADMAP:92, "A protected position always has verified exchange-native stop coverage for its open size"; README:97-98, protection from the actual filled size, full coverage proved | the first fills that are visible are taken for all (`live_gateway.rs:211`): later ones are open and have no stop | `ProtectedUpToTheUnseen`, whose slack is these later fills; `UncoveredIsReported` |
| `MainnetReader.StaleIsNotReady` | `reader.cfg` | README:65-66, `/ready` is 503 when the snapshot is older than 15 seconds | its age is looked at once per cycle (`mainnet_read.rs:636`): it may be 25 seconds while ready is published | `ReadyIsRecent`, whose bound is the 25 seconds |
| `LiveExecution.HaltStopsEntries` | `live_single.cfg` | README:74, a discrepancy "immediately halts new entries" | the gate is read, a halt is recorded, and the entry is claimed and sent (`live_execution.rs:111`) | `DoubtStopsUnreadAccount`, for the worker's own halt |
| `LiveExecution.StartResolvesEntries` | `live_single.cfg` | README:61, an unresolved outcome locks startup | an entry that filled before a crash and was never protected does not | `OneHolderPerSymbol` |
| `LiveExecution.SwitchRejectsConfirmation` | `live_single.cfg` | openapi, "atomically rejected by the kill switch" | in live mode the intent goes on awaiting confirmation | the refinement of `AdmissionContract`: nothing is accepted under the switch |
| `IntentAdmission.ConfirmedUnderPolicy` | `admission.cfg` | README:129, confirmation revalidates the policy | it checks that the current policy approves, and queues the notional of the policy the row was admitted under | `AnswersAreDurable` |
| `Reconciliation.BackfillExplains` | `rec_gate.cfg` | README:75, a discrepancy that survives the poll after backfill | a backfilled fill older than the first poll explains nothing | `DriftNeedsFill` |
| `MainnetReader.CloseOnlyIsNotReady` | `reader.cfg` | openapi, `/ready` is 503 when close-only | the mode a poll has found is shown at once, readiness only after the history request | `HaltReachesReady` |

Also seen: a retry is refused, and not answered with its row, once the intent has
expired or the account is halted (`engine.rs:76`); the loss at a stop may exceed
the risk cap by one lot and what slippage costs, which no limit accounts for; a target
whose trigger the mid has passed counts as a stop until it fires; the directory
of the key file is not synced, so a power loss may take a key whose success was
reported; the shares of targets are summed in sixteen bits, so that so many that they
sum to 65636 would pass for 100.

## What is proved

Every safety invariant and every action property of the passing runs is a
theorem, for every value of the constants, and so are the three refinements of
an abstract specification. Each proof module holds the theorems of one module.
TLC checked each inductive invariant on a run's instance first.

The assumptions are those the modules name, and no others: what the constants
are (`LiveAssumption`, `AdmissionAssumption`, `ReconciliationAssumption`), that
the intervals and the recovery streak are positive (`ReaderAssumption`,
`RecoveryStreakAssumption`), that a policy which was loaded validated and that
an intent has the types of its fields (`PolicyAssumption`, `IntentAssumption`),
that pages are not empty (`PageLimitsAssumption`), and that the value standing
for "no file" or "no row" is not a file or a row (`NoFileAssumption`, in
`AdmissionAssumption`). The bounds of the runs (`MaxTime`, `MaxSize`,
`MaxSwitches`) are constants too: the theorems hold for every value of them.

### LiveExecutionProofs

For any finite or infinite sets of intents, symbols and handlers, any size, any
streak, and an account with or without a reader:

| Theorem | Statement |
|---|---|
| `InductiveInvariant` | `Spec => []IInv` |
| `TypeCorrect`, `NoSecondOrder`, `SymbolExclusion`, `SymbolHeldOnce`, `Agreement`, `Protection` | `TypeOK`, `SentAtMostOnce`, `OneActivePerSymbol`, `OneHolderPerSymbol`, `LedgersAgree`, `ProtectedIsCovered`, each from `IInv` |
| `CleanStart`, `LegalTransitions`, `DoubtHalts` | `StartsOverNoOrder`, `LegalTradeTransitions` and `DoubtStopsUnreadAccount`, action properties |
| `Refinement` | `Spec => ImplementsContract` |
| `GateIsShared` | `Spec => GateSpec` |

Why `IInv` is needed: that a protected position is covered depends on the stop
that was verified not having been replaced by a later answer, that the fill row
is what the entry bought, and on no second entry being in flight in the symbol;
that depends on an entry being in flight only under `entry_submitting` or
`entry_unknown`, which depends on which status the worker relies on at each
point and on each cloid having been sent once. `IInv` is the conjunction of
these: `WorkerInv` (the worker owns its execution), `CloidInv` and `SentInv`
(what has been sent, by status and by point), `InflightInv` (where a request can
still be under way), `FlatInv` (an entry about to be sent, or under way, finds
its symbol flat) and `ExposureInv` (rows, fills and stops agree). Lemmas for the
actions of each actor, per part of the invariant, show that each step keeps it;
the action properties and the refinement follow from the invariant, action by
action. `DoubtHalts` needs one invariant more, `HaltInv`: without a reader a
doubtful row and an open gate never stand together, nor does the worker stand
between the gate and the claim while there is one.

### ReconciliationProofs

For any coins, orders, sizes, moments and streak:

| Theorem | Statement |
|---|---|
| `InductiveInvariant` | `Spec => []IInv` |
| `TypeCorrect`, `ReadyIsReconciled`, `ReadersAgree` | `TypeOK`, `ReadyMeansReconciled`, `GateReadsAlike`, from `IInv` |
| `StreakIsEarned`, `NoSilentDrift` | `EachReasonEarnsItsStreak` and `DriftNeedsFill`, action properties |
| `GateRefinement` | `Spec => ImplementsGate` |

`ReadyMeansReconciled` is not inductive: an acknowledgement opens the gate
without looking at the account. `RowInv` says that a run of clean snapshots that
has begun stands for an account that is still accounted for, as an open gate
does; `ClockInv` orders the moments a snapshot leaves behind, which decide what
a fill may explain.

`GateRefinement` and the two theorems named `GateIsShared` compose the system
over the row it shares: `LiveExecution` and `MainnetReader` move mode and streak
only as `ReconciliationGate` allows, with an arbitrary verdict, and
`Reconciliation`, which computes the verdict, moves them only so too.

### IntentAdmissionProofs

For any payloads, keys, signals, policies, handlers, and any lifetime of a
confirmation:

| Theorem | Statement |
|---|---|
| `InductiveInvariant` | `Spec => []IInv` |
| `TypeCorrect`, `Admission`, `DurableAnswers`, `CopyIsPrefix`, `JournalSuffices` | `TypeOK`, `AdmittedOnce`, `AnswersAreDurable`, `CopyFollowsJournal`, `JournalRebuildsRows`, from `IInv` |
| `Refinement` | `Spec => ImplementsContract` |

The argument is about the tables. Whatever a handler checked before it, a step
leaves the tables alone, adds a row, moves one row along, or sets the switch
(`TableStep`), and what holds of rows and journal is proved of those four.
`AdmittedOnce` counts events, which no step can be judged by; `TableInv` says
instead where they are: every row has one event of its arrival, the newest event
that names a status names the one the row has, and no two rows share a signal
or a key. `HandlerInv` is what a handler's checks still establish when its
transaction comes. In the refinement a step that moves a row is a step of one
signal, since a signal has one row (`OneSignal`).

### MainnetReaderProofs

For any intervals and timeouts:

| Theorem | Statement |
|---|---|
| `InductiveInvariant` | `Spec => []IInv` |
| `TypeCorrect`, `RecentReadiness`, `NoFailureOutlived` | `ReaderTypeOK`, `ReadyIsRecent`, `ReadyOutlivesNoFailure`, from `IInv` |
| `GateIsShared` | `Spec => GateSpec` |

`ReadyIsRecent` is a bound over a cycle and readiness is computed at one point
of it: `SnapAgeAt` and `EventAgeAt` say, phase by phase, how old the snapshot and
the last event may be by then.

### OrderSizingProofs, ProtectedEntryProofs

For any intents of the right types, any valid policies, and any prices:

| Theorem | Statement |
|---|---|
| `ApprovedIsGreatest` | an amount exceeds no ceiling exactly if it is not above the approved one |
| `TargetsShareAFill` | what all targets sell of a fill together is no more than the fill |
| `InductiveInvariant` | `Spec => []IInv` |
| `TypeCorrect`, `SizedExactly`, `LossIsBounded`, `TargetsShareTheFill`, `CoveredUpToTheUnseen` | `TypeOK`, `SizedToTheLimit`, `StopLossIsBounded`, `LegsShareTheFill`, and with it `ProtectedUpToTheUnseen` |

`TypeOK` says of what size an order and a leg are; that needs to know that
nothing was bought, seen or placed before its phase (`Untouched`) and that the
decision is the one the engine took of a valid intent (`Decided`).
`ApprovedIsGreatest` makes the four ceilings one; `LossIsBounded` is then
arithmetic about a quotient rounded up; it is about the reference price, and a
worse price of the entry comes on top. `TargetsShareAFill` is about a sum of
any length, and induction over data is out of the prover's reach as a rule that
takes a predicate; the proof takes the least place at which the partial sums
would fail, and shows that they fail at the one before (`PartialSums`). It holds
while the shares do not overflow the sixteen bits they are summed in, and says
nothing beyond.

### ExecutorStartupProofs

For any sets of process ids, intents, payments and hashes, with and without a
key:

| Theorem | Statement |
|---|---|
| `FileInvariant` | `Spec => []FileInv` |
| `WholeKey`, `TrueReport` | `KeyIsWhole` and `WinnerIsTold`, from `FileInv` |
| `SchemaInvariant` | `Spec => []SchemaInv` |
| `TrueStamp`, `NoLoss` | `StampMeansCurrent`, and the action property `NothingIsLost`, from `SchemaInv` |
| `StartupTypes` | `StartupTypeOK`, from both |

`KeyIsWhole` is not inductive: that what is linked was synced depends on the
temporary file of every command being what the last system call of that command
made it, although another process with the same id died before; `TemporaryOf`
says so. `StampMeansCurrent` needs, for each statement of `migrate`, what the
statements before it have settled, and that no database of an old version is
closer to the current schema than its version says in a way that a later
statement would not settle; `SchemaInv` says so.

### Only model-checked

Liveness, which is beyond the proof system: `ClaimedSettles`, `NoStarvation`,
`HaltReachesReady`, `Recovers`, `UncoveredIsReported` and `ComesUp`, the first two
under the premise that calls return. And the statements of the documentation the
code does not keep, of which a counterexample is all there is to show.

## What is not modelled

- The lifecycles of orders and positions in `domain/`: relations that no code
  calls, so there is no writer to check against them.
- `evaluate_pre_trade` and the limits only it reads: no caller.
- The store's `create_intent`: no caller outside tests.
- Cryptography, key parsing and file permissions; routing, headers and
  serialisation of the API; the form of identifiers; the proxy tunnel of the
  websocket and the parsing of the exchange's answers. Each is one caller's input
  or output and holds no state the rest depends on.
- The environment variables `main` reads, and what it asserts of them.

## The plan

Done: every module above, with a proof of every safety invariant, action property
and refinement the runs check. Next, in this order:

1. What ties the modules together, beyond the row: that the intents
   `LiveExecution` starts from are the ones `IntentAdmission` leaves behind, and
   that a worker's step of `ProtectedEntry` is one of `LiveExecution` with the
   sizes forgotten.
2. The safety halves of the liveness properties: for `ClaimedSettles` and `Recovers`,
   a rank that each step of the fair actions decreases, as an action property
   that can be proved.
3. `SizedToTheLimit` for a policy file that changes between two starts, once
   `ProtectedEntry` has restarts.
