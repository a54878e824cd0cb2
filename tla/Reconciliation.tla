--------------------------- MODULE Reconciliation ---------------------------
(***************************************************************************)
(* The mainnet reader of one account and the reconciliation row it keeps.  *)
(* The reader polls positions and open orders, which do not come from one  *)
(* moment, stamps what it has seen, and records it; fills and order        *)
(* updates reach the database on their own, late, in any order or never.   *)
(* A snapshot is compared with the projections of earlier ones: a          *)
(* difference is explained by a fill or an update that is no older than    *)
(* the previous snapshot.  The worker and the operator write the row too.  *)
(***************************************************************************)
EXTENDS Integers, FiniteSets

CONSTANTS
  Coins,            \* the coins of the account
  Oids,             \* orders ever placed; the exchange never reuses an oid
  StopFor,          \* the coin whose position an order protects as a
                    \* reduce-only stop of one lot, or NoCoin
  NoCoin,
  MaxSize,          \* lots of a position (a bound of the model)
  MaxTime,          \* the last moment of the clock (a bound of the model)
  RecoveryStreak    \* clean snapshots an acknowledgement requires (3)

ASSUME ReconciliationAssumption ==
  /\ NoCoin \notin Coins
  /\ StopFor \in [Oids -> Coins \cup {NoCoin}]
  /\ MaxSize \in Nat /\ MaxTime \in Nat
  /\ RecoveryStreak \in Nat \ {0}

VARIABLES
  now,        \* the clock of the exchange and of the process
  pos,        \* lots of the position in each coin, at the exchange
  open,       \* oids of the open orders, at the exchange
  madeFills,  \* fills the exchange has made: << coin, time >>
  madeUpdates,\* order updates it has published: << oid, time >>
  fills,      \* mainnet_fills
  updates,    \* mainnet_order_updates
  orderProj,  \* oids of mainnet_order_projection; rows are never deleted
  posProj,    \* mainnet_position_projection: signed_size, or Untracked
  posAt,      \* its last_seen_at
  latest,     \* the positions and open orders of the newest row of
              \* mainnet_account_snapshots
  row,        \* mainnet_reconciliation_state
  rpc,        \* the reader: what the snapshot under way has fetched
  seenPos, seenOpen,
  stamp       \* and its observed_at, once it has one

worldVars == << now, pos, open, madeFills, madeUpdates >>
projVars  == << orderProj, posProj, posAt, latest, row >>
readerVars == << rpc, seenPos, seenOpen, stamp >>
vars == << worldVars, fills, updates, projVars, readerVars >>

Times == 0 .. MaxTime
Sizes == 0 .. MaxSize
Untracked == -1          \* no row
Never == -1              \* no time

Reasons ==
  { "none", "startup_reconciliation_pending", "unprotected_position",
    "reconciliation_discrepancy_pending", "unknown_exchange_order",
    "unexplained_position_change", "entry_outcome_unknown" }

Row(mode, ready, reason, baselineAt, lastAt, streak) ==
  [ mode |-> mode, ready |-> ready, reason |-> reason,
    baselineAt |-> baselineAt, lastAt |-> lastAt, streak |-> streak ]

NoRow == Row("absent", FALSE, "none", Never, Never, 0)

TypeOK ==
  /\ now \in Times
  /\ pos \in [Coins -> Sizes]
  /\ open \in SUBSET Oids
  /\ madeFills \in SUBSET (Coins \X Times)
  /\ madeUpdates \in SUBSET (Oids \X Times)
  /\ fills \in SUBSET madeFills
  /\ updates \in SUBSET madeUpdates
  /\ orderProj \in SUBSET Oids
  /\ posProj \in [Coins -> Sizes \cup {Untracked}]
  /\ posAt \in [Coins -> Times \cup {Never}]
  /\ latest \in [pos : [Coins -> Sizes], open : SUBSET Oids]
  /\ row \in [mode : { "absent", "normal", "halt_new_entries", "close_only" },
              ready : BOOLEAN, reason : Reasons,
              baselineAt : Times \cup {Never}, lastAt : Times \cup {Never},
              streak : 0 .. RecoveryStreak]
  /\ rpc \in SUBSET { "positions", "orders", "stamp" }
  /\ seenPos \in [Coins -> Sizes]
  /\ seenOpen \in SUBSET Oids
  /\ stamp \in Times

Flat == [c \in Coins |-> 0]

Init ==
  /\ now = 0
  /\ pos \in [Coins -> Sizes] /\ open = {}
  /\ madeFills = {} /\ madeUpdates = {} /\ fills = {} /\ updates = {}
  /\ orderProj = {}
  /\ posProj = [c \in Coins |-> Untracked]
  /\ posAt = [c \in Coins |-> Never]
  /\ latest = [pos |-> Flat, open |-> {}]
  /\ row = NoRow
  /\ rpc = {} /\ seenPos = Flat /\ seenOpen = {} /\ stamp = 0

-----------------------------------------------------------------------------
(* The account at the exchange.                                            *)

Tick ==
  /\ now < MaxTime
  /\ now' = now + 1
  /\ UNCHANGED << pos, open, madeFills, madeUpdates, fills, updates,
                  projVars, readerVars >>

\* Somebody trades, and the fill is made at that moment.
Trade(c, size) ==
  /\ pos[c] # size
  /\ pos' = [pos EXCEPT ![c] = size]
  /\ madeFills' = madeFills \cup { << c, now >> }
  /\ UNCHANGED << now, open, madeUpdates, fills, updates, projVars,
                  readerVars >>

\* An order rests, or goes; either publishes an update.
ChangeOrder(o, becomes) ==
  /\ open' = becomes
  /\ madeUpdates' = madeUpdates \cup { << o, now >> }
  /\ UNCHANGED << now, pos, madeFills, fills, updates, projVars, readerVars >>

PlaceOrder(o) ==
  /\ \A t \in Times : << o, t >> \notin madeUpdates
  /\ ChangeOrder(o, open \cup {o})

RemoveOrder(o) == o \in open /\ ChangeOrder(o, open \ {o})

AccountStep ==
  \/ Tick
  \/ \E c \in Coins, size \in Sizes : Trade(c, size)
  \/ \E o \in Oids : PlaceOrder(o) \/ RemoveOrder(o)

-----------------------------------------------------------------------------
(* The event feeds.                                                        *)

\* Seeded fault: a fill is stored under the time it arrived at.
RecordHistoryOnArrival(batch) ==
  /\ batch # {}
  /\ fills' = fills \cup { << fill[1], now >> : fill \in batch }
  /\ UNCHANGED << worldVars, updates, projVars, readerVars >>

\* record_mainnet_history: from the websocket or from the backfill, which
\* runs after the snapshot of its poll.  INSERT OR IGNORE.
RecordHistory(batch) ==
  /\ batch # {}
  /\ fills' = fills \cup batch
  /\ UNCHANGED << worldVars, updates, projVars, readerVars >>

\* record_mainnet_order_updates: only the websocket brings them.
RecordOrderUpdates(batch) ==
  /\ batch # {}
  /\ updates' = updates \cup batch
  /\ UNCHANGED << worldVars, fills, projVars, readerVars >>

FeedStep ==
  \/ \E batch \in SUBSET (madeFills \ fills) : RecordHistory(batch)
  \/ \E batch \in SUBSET (madeUpdates \ updates) : RecordOrderUpdates(batch)

-----------------------------------------------------------------------------
(* fetch_snapshot: positions and orders are asked for together and         *)
(* answered one by one; the moment it all ends is observed_at.             *)

FetchPositions ==
  /\ row # NoRow
  /\ "positions" \notin rpc
  /\ rpc' = rpc \cup {"positions"}
  /\ seenPos' = pos
  /\ UNCHANGED << worldVars, fills, updates, projVars, seenOpen, stamp >>

FetchOrders ==
  /\ row # NoRow
  /\ "orders" \notin rpc
  /\ rpc' = rpc \cup {"orders"}
  /\ seenOpen' = open
  /\ UNCHANGED << worldVars, fills, updates, projVars, seenPos, stamp >>

Observe ==
  /\ rpc = { "positions", "orders" }
  /\ rpc' = rpc \cup {"stamp"}
  /\ stamp' = now
  /\ UNCHANGED << worldVars, fills, updates, projVars, seenPos, seenOpen >>

\* An error, a mismatch between list and detail, or ten seconds without an
\* answer: nothing is recorded and the next poll starts over.
EndFetch ==
  /\ rpc' = {}
  /\ seenPos' = Flat /\ seenOpen' = {} /\ stamp' = 0

FetchFails ==
  /\ rpc # {}
  /\ EndFetch
  /\ UNCHANGED << worldVars, fills, updates, projVars >>

-----------------------------------------------------------------------------
(* record_mainnet_snapshot, one transaction.                               *)

Baseline == row.baselineAt = Never

\* Does an event of the table still explain something?  last_reconciled_at
\* is zero until there is one.
Fresh(table, key) == \E t \in Times : << key, t >> \in table /\ t >= row.lastAt

UnexplainedOrders ==
  IF Baseline THEN {}
  ELSE { o \in seenOpen : o \notin orderProj /\ ~Fresh(updates, o) }

\* Seeded fault: a fill of the coin explains a change however old it is.
ExplainedByOldFill(c) ==
  \/ Baseline
  \/ posProj[c] \in {Untracked, seenPos[c]}
  \/ \E t \in Times : << c, t >> \in fills

\* A changed position needs a fill in its coin; one without a row never
\* counts as changed.
ExplainedPosition(c) ==
  \/ Baseline
  \/ posProj[c] \in {Untracked, seenPos[c]}
  \/ Fresh(fills, c)

UnexplainedPositions == { c \in Coins : ~ExplainedPosition(c) }

\* evaluate_protection_coverage: stops cover the whole position.
Covered(c) == Cardinality({ o \in seenOpen : StopFor[o] = c }) >= seenPos[c]

UnprotectedPositions == { c \in Coins : ~Covered(c) }

Discrepancy ==
  \/ UnexplainedOrders # {}
  \/ UnexplainedPositions # {}
  \/ UnprotectedPositions # {}

\* Seeded fault: a dirty snapshot does not restart the count.
StreakKept ==
  IF row.mode # "close_only" THEN 0
  ELSE IF ~Discrepancy /\ row.streak < RecoveryStreak THEN row.streak + 1
  ELSE row.streak

\* clean_streak, counted up to what an acknowledgement requires.
NewStreak ==
  IF row.mode # "close_only" \/ Discrepancy THEN 0
  ELSE IF row.streak < RecoveryStreak THEN row.streak + 1
  ELSE row.streak

\* The mode, and the reason for it.
NewMode ==
  IF UnprotectedPositions # {} THEN << "close_only", "unprotected_position" >>
  ELSE IF row.mode = "close_only" THEN << "close_only", row.reason >>
  ELSE IF ~Discrepancy THEN << "normal", "none" >>
  ELSE IF row.mode = "halt_new_entries" /\ ~Baseline
  THEN << "close_only", IF UnexplainedOrders # {} THEN "unknown_exchange_order"
                        ELSE "unexplained_position_change" >>
  ELSE << "halt_new_entries", "reconciliation_discrepancy_pending" >>

\* Explained orders and positions are projected.  A coin that is no longer
\* there and has no row, or a row of size zero, is left alone.
Project ==
  LET gone == { c \in Coins : seenPos[c] = 0 /\ posProj[c] \in {0, Untracked} }
      left == UnexplainedPositions \cup gone
  IN /\ orderProj' = orderProj \cup (seenOpen \ UnexplainedOrders)
     /\ posProj' = [c \in Coins |->
                      IF c \in left THEN posProj[c] ELSE seenPos[c]]
     /\ posAt' = [c \in Coins |-> IF c \in left THEN posAt[c] ELSE stamp]

RecordSnapshot ==
  /\ "stamp" \in rpc
  /\ Project
  /\ row' = Row(NewMode[1], NewMode[1] = "normal", NewMode[2],
                IF Baseline THEN stamp ELSE row.baselineAt, stamp, NewStreak)
  /\ latest' = [pos |-> seenPos, open |-> seenOpen]
  /\ EndFetch
  /\ UNCHANGED << worldVars, fills, updates >>

ReaderStep ==
  FetchPositions \/ FetchOrders \/ Observe \/ FetchFails \/ RecordSnapshot

-----------------------------------------------------------------------------
(* The other writers of the row.                                           *)

\* A start of the process: what the reader had fetched is gone, and
\* configure_mainnet_account adds the row if there is none.
Configure ==
  /\ row' = IF row = NoRow
            THEN Row("halt_new_entries", FALSE,
                     "startup_reconciliation_pending", Never, Never, 0)
            ELSE row
  /\ EndFetch
  /\ UNCHANGED << worldVars, fills, updates, orderProj, posProj, posAt,
                  latest >>

\* Seeded fault: the count goes on where it was.
ForceCloseOnlyKeepsStreak ==
  /\ row' = [row EXCEPT !.mode = "close_only", !.ready = FALSE,
                        !.reason = "entry_outcome_unknown"]
  /\ UNCHANGED << worldVars, fills, updates, orderProj, posProj, posAt,
                  latest, readerVars >>

\* Seeded fault: the flag some readers look at stays up.
ForceCloseOnlyStaysReady ==
  /\ row' = [row EXCEPT !.mode = "close_only",
                        !.reason = "entry_outcome_unknown", !.streak = 0]
  /\ UNCHANGED << worldVars, fills, updates, orderProj, posProj, posAt,
                  latest, readerVars >>

\* finish_live_transition of the worker, with one of its reasons.  It adds
\* the row if there is none.
ForceCloseOnly ==
  /\ row' = [row EXCEPT !.mode = "close_only", !.ready = FALSE,
                        !.reason = "entry_outcome_unknown", !.streak = 0]
  /\ UNCHANGED << worldVars, fills, updates, orderProj, posProj, posAt,
                  latest, readerVars >>

\* Seeded fault: the flag recovery_eligible is shown, not demanded.
AcknowledgeAtOnce(reason) ==
  /\ row.mode = "close_only"
  /\ row.reason = reason
  /\ row' = [row EXCEPT !.mode = "normal", !.ready = TRUE, !.reason = "none",
                        !.streak = 0]
  /\ UNCHANGED << worldVars, fills, updates, orderProj, posProj, posAt,
                  latest, readerVars >>

\* acknowledge_reconciliation_recovery, with the reason the operator read.
Acknowledge(reason) ==
  /\ row.mode = "close_only"
  /\ row.reason = reason
  /\ row.streak >= RecoveryStreak
  /\ row' = [row EXCEPT !.mode = "normal", !.ready = TRUE, !.reason = "none",
                        !.streak = 0]
  /\ UNCHANGED << worldVars, fills, updates, orderProj, posProj, posAt,
                  latest, readerVars >>

ControlStep ==
  \/ Configure
  \/ ForceCloseOnly
  \/ \E reason \in Reasons \ {"none"} : Acknowledge(reason)

-----------------------------------------------------------------------------
Next == AccountStep \/ FeedStep \/ ReaderStep \/ ControlStep

Spec == Init /\ [][Next]_vars

-----------------------------------------------------------------------------
(* What must hold of the row.                                              *)

\* While new entries are admitted, what the database believes of the account
\* is what the last snapshot showed: every open order is projected, every
\* tracked position has the projected size, and every position is covered.
\* It survives any order of dirty snapshots, forced halts, acknowledgements
\* and restarts.
ReadyMeansReconciled ==
  row.ready =>
    /\ latest.open \subseteq orderProj
    /\ \A c \in Coins :
         /\ \/ posProj[c] = latest.pos[c]
            \/ posProj[c] = Untracked /\ latest.pos[c] = 0
         /\ Cardinality({ o \in latest.open : StopFor[o] = c })
              >= latest.pos[c]

\* Whatever wrote close_only, there is a reason the operator can name in an
\* acknowledgement.  And the three readers of the gate, of which one
\* looks at ready, one at mode and one at both, see the same thing.
GateReadsAlike ==
  /\ row.ready <=> row.mode = "normal"
  /\ row.mode = "close_only" => row.reason # "none"

\* A reason is never acknowledged on the strength of clean snapshots that
\* were taken before it appeared: whoever writes a new reason beside
\* close_only, the reader over the worker or the worker over the reader,
\* restarts the count.
EachReasonEarnsItsStreak ==
  [][row'.mode = "close_only" /\ row'.reason # row.reason
       => row'.streak = 0]_vars

\* A position the reader tracks is never taken over at another size without
\* a fill of its coin in the database that is as recent as the snapshot the
\* old size was confirmed in.
DriftNeedsFill ==
  [][\A c \in Coins :
       posProj[c] # Untracked /\ posProj'[c] # posProj[c] =>
         \E t \in Times : << c, t >> \in fills /\ t >= posAt[c]]_vars

\* The gate the worker and the engine are modelled against.
Gate == INSTANCE ReconciliationGate WITH
  mode   <- IF row.mode = "halt_new_entries" /\ Baseline
            THEN "startup" ELSE row.mode,
  streak <- row.streak

\* Verdicts computed from projections, late events and torn snapshots, a
\* worker that forces close_only, restarts and acknowledgements only ever
\* move the row as ReconciliationGate says.
ImplementsGate == Gate!GateSpec

-----------------------------------------------------------------------------
(* What the documentation says and the code does not do.                   *)

\* README: a "position-size change without a known fill, immediately halts
\* new entries".  A position in a coin without a row is imported unasked.
NewPositionNeedsFill ==
  [][\A c \in Coins :
       ~Baseline /\ posProj[c] = Untracked /\ posProj'[c] > 0 /\ row'.ready =>
         \E t \in Times : << c, t >> \in fills]_vars

\* README: the account is close_only "if the discrepancy survives the next
\* poll after event backfill".  A fill that arrives after the first poll is
\* older than that poll and explains nothing any more.
BackfillExplains ==
  [][row.mode = "halt_new_entries" /\ ~Baseline
       /\ row'.reason = "unexplained_position_change" =>
         \E c \in UnexplainedPositions :
           ~ \E t \in Times : << c, t >> \in fills /\ t >= posAt[c]]_vars

=============================================================================
