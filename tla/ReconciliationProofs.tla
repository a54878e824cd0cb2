------------------------ MODULE ReconciliationProofs ------------------------
(***************************************************************************)
(* Theorems about Reconciliation, for every set of coins and orders, every *)
(* size of a position, every moment the clock may reach and every length   *)
(* of the recovery run.                                                    *)
(*                                                                         *)
(* RowInv carries the argument.  An acknowledgement opens the gate without *)
(* looking at the account, so a run of clean snapshots has to stand for an *)
(* account that is still reconciled: Accounted holds while the gate is     *)
(* open or the run has begun.  ClockInv relates the moments a snapshot     *)
(* leaves in the database, which say what a fill may explain.              *)
(***************************************************************************)
EXTENDS Reconciliation, TLAPS

-----------------------------------------------------------------------------
(* The invariant.                                                          *)

\* What the database believes of the account is what the last snapshot showed.
Accounted ==
  /\ latest.open \subseteq orderProj
  /\ \A c \in Coins :
       /\ \/ posProj[c] = latest.pos[c]
          \/ posProj[c] = Untracked /\ latest.pos[c] = 0
       /\ Cardinality({ o \in latest.open : StopFor[o] = c }) >= latest.pos[c]

Rows ==
  [mode : { "absent", "normal", "halt_new_entries", "close_only" },
   ready : BOOLEAN, reason : Reasons,
   baselineAt : Times \cup {Never}, lastAt : Times \cup {Never},
   streak : 0 .. RecoveryStreak]

\* The row: what each writer of it may rely on.
RowInv ==
  /\ GateReadsAlike
  /\ row.mode = "absent" => row = NoRow
  /\ rpc # {} => row # NoRow
  /\ row.ready \/ row.streak > 0 => Accounted

\* A size was last confirmed no later than the last snapshot, which is older
\* than the one under way.
ClockInv ==
  /\ row.lastAt <= now
  /\ "stamp" \in rpc => row.lastAt <= stamp /\ stamp <= now
  /\ \A c \in Coins : posAt[c] <= row.lastAt
  /\ Baseline => \A c \in Coins : posProj[c] = Untracked

IInv == TypeOK /\ RowInv /\ ClockInv

-----------------------------------------------------------------------------
(* The account, the feeds and the requests of the reader leave the row and *)
(* the projections alone.                                                  *)

LEMMA AccountKeeps ==
  ASSUME IInv, AccountStep
  PROVE  IInv'
  <1> USE ReconciliationAssumption
  <1>1. TypeOK'
    <2> USE DEF IInv, TypeOK, Times, Sizes, projVars, readerVars
    <2>1. CASE Tick
      BY <2>1 DEF Tick
    <2>2. ASSUME NEW c \in Coins, NEW size \in Sizes, Trade(c, size)
          PROVE  TypeOK'
      BY <2>2 DEF Trade
    <2>3. ASSUME NEW o \in Oids, PlaceOrder(o) \/ RemoveOrder(o)
          PROVE  TypeOK'
      <3>1. PICK becomes \in SUBSET Oids : ChangeOrder(o, becomes)
        BY <2>3 DEF PlaceOrder, RemoveOrder
      <3>2. /\ open' \in SUBSET Oids
            /\ madeUpdates \subseteq madeUpdates'
            /\ madeUpdates' \in SUBSET (Oids \X Times)
        BY <3>1 DEF ChangeOrder
      <3> QED BY <3>1, <3>2 DEF ChangeOrder
    <2> QED BY <2>1, <2>2, <2>3 DEF AccountStep
  <1>2. /\ UNCHANGED << projVars, readerVars >>
        /\ now' \in Times /\ now <= now'
    BY DEF IInv, TypeOK, Times, AccountStep, Tick, Trade, PlaceOrder,
           RemoveOrder, ChangeOrder
  <1>3. RowInv'
    BY <1>2 DEF IInv, RowInv, GateReadsAlike, Accounted, projVars, readerVars
  <1>4. ClockInv'
    BY <1>2 DEF IInv, TypeOK, ClockInv, Times, Baseline, projVars, readerVars,
       Never
  <1> QED BY <1>1, <1>3, <1>4 DEF IInv

LEMMA FeedKeeps ==
  ASSUME IInv, FeedStep
  PROVE  IInv'
  <1>1. UNCHANGED << worldVars, projVars, readerVars >>
    BY DEF FeedStep, RecordHistory, RecordOrderUpdates
  <1>2. fills' \subseteq madeFills /\ updates' \subseteq madeUpdates
    BY DEF IInv, TypeOK, FeedStep, RecordHistory, RecordOrderUpdates
  <1>3. TypeOK'
    BY <1>1, <1>2 DEF IInv, TypeOK, worldVars, projVars, readerVars
  <1>4. RowInv' /\ ClockInv'
    BY <1>1 DEF IInv, RowInv, GateReadsAlike, Accounted, ClockInv, Baseline,
       worldVars, projVars, readerVars
  <1> QED BY <1>3, <1>4 DEF IInv

LEMMA FetchKeeps ==
  ASSUME IInv, FetchPositions \/ FetchOrders \/ Observe \/ FetchFails
  PROVE  IInv'
  <1> USE ReconciliationAssumption
  <1>1. UNCHANGED << worldVars, fills, updates, projVars >>
    BY DEF FetchPositions, FetchOrders, Observe, FetchFails
  <1>2. /\ rpc' \in SUBSET { "positions", "orders", "stamp" }
        /\ seenPos' \in [Coins -> Sizes] /\ seenOpen' \in SUBSET Oids
        /\ stamp' \in Times
    <2> USE DEF IInv, TypeOK
    <2>1. CASE FetchPositions
      BY <2>1 DEF FetchPositions
    <2>2. CASE FetchOrders
      BY <2>2 DEF FetchOrders
    <2>3. CASE Observe
      BY <2>3 DEF Observe
    <2>4. CASE FetchFails
      BY <2>4 DEF FetchFails, EndFetch, Flat, Sizes, Times
    <2> QED BY <2>1, <2>2, <2>3, <2>4
  <1>3. TypeOK'
    BY <1>1, <1>2 DEF IInv, TypeOK, worldVars, projVars
  <1>4. rpc' # {} => row # NoRow
    BY DEF IInv, RowInv, FetchPositions, FetchOrders, Observe, FetchFails,
           EndFetch
  <1>5. "stamp" \in rpc' => row.lastAt <= stamp' /\ stamp' <= now
    BY DEF IInv, TypeOK, ClockInv, Times, FetchPositions, FetchOrders, Observe,
           FetchFails, EndFetch
  <1>6. RowInv'
    BY <1>1, <1>4 DEF IInv, RowInv, GateReadsAlike, Accounted, projVars
  <1>7. ClockInv'
    BY <1>1, <1>5 DEF IInv, ClockInv, Baseline, worldVars, projVars
  <1> QED BY <1>3, <1>6, <1>7 DEF IInv

-----------------------------------------------------------------------------
(* record_mainnet_snapshot.                                                *)

\* The mode it writes is one of three, and normal only without a discrepancy.
LEMMA ModeWritten ==
  /\ NewMode[1] \in { "normal", "halt_new_entries", "close_only" }
  /\ NewMode[2] \in Reasons \cup {row.reason}
  /\ NewMode[1] = "normal" <=> row.mode # "close_only" /\ ~Discrepancy
  /\ NewMode[1] = "close_only" =>
       \/ NewMode[2] # "none"
       \/ row.mode = "close_only" /\ NewMode[2] = row.reason
  BY DEF NewMode, Reasons, Discrepancy

\* A count of clean snapshots is of clean ones only.
LEMMA StreakWritten ==
  ASSUME TypeOK
  PROVE  /\ NewStreak \in 0 .. RecoveryStreak
         /\ NewStreak > 0 => row.mode = "close_only" /\ ~Discrepancy
  BY ReconciliationAssumption DEF NewStreak, TypeOK

LEMMA ProjectionTypes ==
  ASSUME TypeOK, Project
  PROVE  /\ orderProj' \in SUBSET Oids
         /\ posProj' \in [Coins -> Sizes \cup {Untracked}]
         /\ posAt' \in [Coins -> Times \cup {Never}]
  BY DEF TypeOK, Project

\* Without a discrepancy every order and every coin of the snapshot is
\* projected as it was seen, and covered.
LEMMA CleanIsAccounted ==
  ASSUME TypeOK, RecordSnapshot, ~Discrepancy
  PROVE  Accounted'
  <1>1. latest'.open = seenOpen /\ latest'.pos = seenPos
    BY DEF RecordSnapshot
  <1>2. seenOpen \subseteq orderProj'
    BY DEF RecordSnapshot, Project, Discrepancy
  <1>3. ASSUME NEW c \in Coins
        PROVE  /\ \/ posProj'[c] = seenPos[c]
                  \/ posProj'[c] = Untracked /\ seenPos[c] = 0
               /\ Cardinality({ o \in seenOpen : StopFor[o] = c }) >= seenPos[c]
    <2>1. c \notin UnexplainedPositions /\ c \notin UnprotectedPositions
      BY DEF Discrepancy
    <2>2. Covered(c)
      BY <2>1 DEF UnprotectedPositions
    <2>3. posProj'[c] = IF seenPos[c] = 0 /\ posProj[c] \in {0, Untracked}
                        THEN posProj[c] ELSE seenPos[c]
      BY <2>1 DEF RecordSnapshot, Project
    <2> QED BY <2>2, <2>3 DEF Covered
  <1> QED BY <1>1, <1>2, <1>3 DEF Accounted

LEMMA SnapshotKeeps ==
  ASSUME IInv, RecordSnapshot
  PROVE  IInv'
  <1> USE ReconciliationAssumption
  <1> USE DEF IInv
  <1>1. /\ row'.mode = NewMode[1] /\ row'.ready = (NewMode[1] = "normal")
        /\ row'.reason = NewMode[2] /\ row'.streak = NewStreak
        /\ row'.lastAt = stamp /\ row'.baselineAt \in Times
        /\ row' # NoRow
    <2>1. row' = Row(NewMode[1], NewMode[1] = "normal", NewMode[2],
                    IF Baseline THEN stamp ELSE row.baselineAt, stamp,
                    NewStreak)
      BY DEF RecordSnapshot
    <2>2. (IF Baseline THEN stamp ELSE row.baselineAt) \in Times
      BY DEF TypeOK, Baseline
    <2>3. row' # NoRow
      BY <2>1, ModeWritten DEF Row, NoRow
    <2> QED BY <2>1, <2>2, <2>3 DEF Row
  <1>2. TypeOK'
    <2>1. row' \in Rows
      <3>1. NewMode[1] \in
              { "absent", "normal", "halt_new_entries", "close_only" }
            /\ NewMode[2] \in Reasons /\ NewStreak \in 0 .. RecoveryStreak
        BY ModeWritten, StreakWritten DEF TypeOK
      <3>2. /\ (IF Baseline THEN stamp ELSE row.baselineAt) \in Times
            /\ stamp \in Times
        BY DEF TypeOK, Baseline
      <3> QED BY <3>1, <3>2 DEF RecordSnapshot, Row, Rows
    <2>2. latest' \in [pos : [Coins -> Sizes], open : SUBSET Oids]
      BY DEF RecordSnapshot, TypeOK
    <2>3. /\ rpc' = {} /\ seenPos' \in [Coins -> Sizes] /\ seenOpen' = {}
          /\ stamp' \in Times
      BY DEF RecordSnapshot, EndFetch, Flat, Sizes, Times
    <2>4. UNCHANGED << worldVars, fills, updates >> /\ Project
      BY DEF RecordSnapshot
    <2> QED BY <2>1, <2>2, <2>3, <2>4, ProjectionTypes
           DEF TypeOK, Rows, worldVars
  <1>3. RowInv'
    <2>1. GateReadsAlike'
      BY <1>1, ModeWritten DEF RowInv, GateReadsAlike
    <2>2. row'.mode # "absent"
      BY <1>1, ModeWritten
    <2>3. rpc' = {}
      BY DEF RecordSnapshot, EndFetch
    <2>4. row'.ready \/ row'.streak > 0 => ~Discrepancy
      BY <1>1, ModeWritten, StreakWritten
    <2> QED BY <2>1, <2>2, <2>3, <2>4, CleanIsAccounted DEF RowInv
  <1>4. ClockInv'
    <2>1. row.lastAt <= stamp /\ stamp <= now /\ now' = now
      BY DEF RecordSnapshot, ClockInv, worldVars
    <2>2. ASSUME NEW c \in Coins PROVE posAt'[c] <= stamp
      BY <2>1 DEF RecordSnapshot, Project, ClockInv, TypeOK, Times, Never
    <2>3. ~Baseline'
      BY <1>1 DEF Baseline, Never, Times
    <2>4. rpc' = {}
      BY DEF RecordSnapshot, EndFetch
    <2> QED BY <1>1, <2>1, <2>2, <2>3, <2>4 DEF ClockInv
  <1> QED BY <1>2, <1>3, <1>4

-----------------------------------------------------------------------------
(* The other writers of the row.                                           *)

LEMMA ControlKeeps ==
  ASSUME IInv, ControlStep
  PROVE  IInv'
  <1> USE ReconciliationAssumption
  <1> USE DEF IInv
  <1>1. CASE Configure
    <2>1. row' = IF row = NoRow
                 THEN Row("halt_new_entries", FALSE,
                          "startup_reconciliation_pending", Never, Never, 0)
                 ELSE row
      BY <1>1 DEF Configure
    <2>2. TypeOK'
      BY <1>1, <2>1 DEF Configure, TypeOK, EndFetch, Flat, Sizes, Times,
         worldVars, Row, Reasons
    <2>3. row' # NoRow
      BY <2>1 DEF Row, NoRow
    <2>4. RowInv'
      BY <1>1, <2>1, <2>3 DEF Configure, EndFetch, RowInv, GateReadsAlike,
         Accounted, Row
    <2>5. ClockInv'
      BY <1>1, <2>1 DEF Configure, EndFetch, ClockInv, Baseline, Row, NoRow,
         worldVars
    <2> QED BY <2>2, <2>4, <2>5
  <1>2. CASE ForceCloseOnly
    <2>1. /\ row'.mode = "close_only" /\ row'.ready = FALSE /\ row'.streak = 0
          /\ row'.reason = "entry_outcome_unknown"
          /\ row'.lastAt = row.lastAt /\ row'.baselineAt = row.baselineAt
      BY <1>2 DEF ForceCloseOnly, TypeOK
    <2>2. TypeOK'
      <3>1. row' \in Rows
        <4>1. "entry_outcome_unknown" \in Reasons /\ 0 \in 0 .. RecoveryStreak
          BY DEF Reasons
        <4> QED BY <1>2, <4>1 DEF ForceCloseOnly, TypeOK, Rows
      <3> QED BY <1>2, <3>1
                 DEF ForceCloseOnly, TypeOK, Rows, worldVars, readerVars
    <2>3. row' # NoRow
      BY <2>1 DEF Row, NoRow
    <2>4. RowInv'
      BY <2>1, <2>3 DEF RowInv, GateReadsAlike
    <2>5. ClockInv'
      BY <1>2, <2>1 DEF ForceCloseOnly, ClockInv, Baseline, worldVars,
         readerVars
    <2> QED BY <2>2, <2>4, <2>5
  <1>3. ASSUME NEW reason \in Reasons \ {"none"}, Acknowledge(reason)
        PROVE  IInv'
    <2>1. /\ row'.mode = "normal" /\ row'.ready = TRUE /\ row'.streak = 0
          /\ row'.lastAt = row.lastAt /\ row'.baselineAt = row.baselineAt
      BY <1>3 DEF Acknowledge, TypeOK
    <2>2. TypeOK'
      <3>1. row' \in Rows
        <4>1. "none" \in Reasons /\ 0 \in 0 .. RecoveryStreak
          BY DEF Reasons
        <4> QED BY <1>3, <4>1 DEF Acknowledge, TypeOK, Rows
      <3> QED BY <1>3, <3>1
                 DEF Acknowledge, TypeOK, Rows, worldVars, readerVars
    <2>3. row' # NoRow
      BY <2>1 DEF Row, NoRow
    <2>4. row.streak > 0
      BY <1>3 DEF Acknowledge, TypeOK
    <2>5. Accounted'
      BY <1>3, <2>4 DEF Acknowledge, RowInv, Accounted
    <2>6. RowInv'
      BY <2>1, <2>3, <2>5 DEF RowInv, GateReadsAlike
    <2>7. ClockInv'
      BY <1>3, <2>1 DEF Acknowledge, ClockInv, Baseline, worldVars, readerVars
    <2> QED BY <2>2, <2>6, <2>7
  <1> QED BY <1>1, <1>2, <1>3 DEF ControlStep

-----------------------------------------------------------------------------
(* The theorems.                                                           *)

LEMMA InitIInv ==
  ASSUME Init
  PROVE  IInv
  <1> USE ReconciliationAssumption
  <1>1. TypeOK
    BY DEF Init, TypeOK, Times, Sizes, NoRow, Row, Reasons, Flat
  <1>2. RowInv
    BY DEF Init, RowInv, GateReadsAlike, NoRow, Row
  <1>3. ClockInv
    BY DEF Init, ClockInv, Baseline, NoRow, Row, Never
  <1> QED BY <1>1, <1>2, <1>3 DEF IInv

LEMMA StepIInv ==
  ASSUME IInv, [Next]_vars
  PROVE  IInv'
  <1>1. CASE UNCHANGED vars
    BY <1>1 DEF vars, worldVars, projVars, readerVars, IInv, TypeOK, RowInv,
       GateReadsAlike, Accounted, ClockInv, Baseline
  <1> QED
    BY <1>1, AccountKeeps, FeedKeeps, FetchKeeps, SnapshotKeeps, ControlKeeps
       DEF Next, ReaderStep

\* The row, the projections and the clock stay in step.
THEOREM InductiveInvariant == Spec => []IInv
  BY InitIInv, StepIInv, PTL DEF Spec

\* Every variable of the reader and of its tables keeps its type.
THEOREM TypeCorrect == Spec => []TypeOK
  BY InductiveInvariant, PTL DEF IInv

\* An open gate means a reconciled account: orders projected, sizes as they
\* were last seen, positions covered.
THEOREM ReadyIsReconciled == Spec => []ReadyMeansReconciled
  <1>1. IInv => ReadyMeansReconciled
    BY DEF IInv, RowInv, Accounted, ReadyMeansReconciled
  <1> QED BY <1>1, InductiveInvariant, PTL

\* Readers of ready, of mode and of both see one gate, and whatever closed it
\* has a name an operator can acknowledge.
THEOREM ReadersAgree == Spec => []GateReadsAlike
  BY InductiveInvariant, PTL DEF IInv, RowInv

\* Whoever writes a new reason beside close_only restarts the count of clean
\* snapshots.
THEOREM StreakIsEarned == Spec => EachReasonEarnsItsStreak
  <1>1. ASSUME IInv, [Next]_vars
        PROVE  [row'.mode = "close_only" /\ row'.reason # row.reason
                  => row'.streak = 0]_vars
    <2> SUFFICES ASSUME row'.mode = "close_only", row'.reason # row.reason
                 PROVE  row'.streak = 0
      OBVIOUS
    <2>1. CASE RecordSnapshot
      <3>1. /\ row'.mode = NewMode[1] /\ row'.reason = NewMode[2]
            /\ row'.streak = NewStreak
        BY <2>1 DEF RecordSnapshot, Row
      <3>2. row.mode # "close_only" \/ Discrepancy
        BY <3>1 DEF NewMode, Discrepancy
      <3> QED BY <3>1, <3>2 DEF NewStreak
    <2>2. CASE Configure
      <3>1. row' = row \/ row'.mode = "halt_new_entries"
        BY <2>2 DEF Configure, Row
      <3> QED BY <3>1
    <2>3. CASE ForceCloseOnly
      BY <1>1, <2>3 DEF ForceCloseOnly, IInv, TypeOK
    <2>4. ASSUME NEW reason, Acknowledge(reason)
          PROVE  row'.mode = "normal"
      BY <1>1, <2>4 DEF Acknowledge, IInv, TypeOK
    <2>5. CASE UNCHANGED row
      BY <2>5
    <2> QED
      BY <1>1, <2>1, <2>2, <2>3, <2>4, <2>5
         DEF Next, vars, projVars, AccountStep, Tick, Trade, PlaceOrder,
             RemoveOrder, ChangeOrder, FeedStep, RecordHistory,
             RecordOrderUpdates, ReaderStep, FetchPositions, FetchOrders,
             Observe, FetchFails, ControlStep
  <1> QED BY <1>1, InductiveInvariant, PTL DEF Spec, EachReasonEarnsItsStreak

\* A tracked size is taken over only with a fill of its coin as recent as the
\* snapshot that confirmed the old one.
THEOREM NoSilentDrift == Spec => DriftNeedsFill
  <1>1. ASSUME IInv, [Next]_vars
        PROVE  [\A c \in Coins :
                  posProj[c] # Untracked /\ posProj'[c] # posProj[c] =>
                    \E t \in Times : << c, t >> \in fills /\ t >= posAt[c]]_vars
    <2> SUFFICES ASSUME NEW c \in Coins, posProj[c] # Untracked,
                        posProj'[c] # posProj[c]
                 PROVE  \E t \in Times : << c, t >> \in fills /\ t >= posAt[c]
      OBVIOUS
    <2>1. CASE RecordSnapshot
      <3>1. ~Baseline
        BY <1>1 DEF IInv, ClockInv
      <3>2. c \notin UnexplainedPositions /\ posProj[c] # seenPos[c]
        BY <1>1, <2>1 DEF RecordSnapshot, Project, IInv, TypeOK
      <3>3. Fresh(fills, c)
        BY <3>1, <3>2 DEF UnexplainedPositions, ExplainedPosition
      <3>4. PICK t \in Times : << c, t >> \in fills /\ t >= row.lastAt
        BY <3>3 DEF Fresh
      <3>5. t >= posAt[c]
        <4>1. posAt[c] <= row.lastAt /\ posAt[c] \in Int /\ row.lastAt \in Int
          BY <1>1, ReconciliationAssumption
             DEF IInv, ClockInv, TypeOK, Times, Never
        <4> QED BY <3>4, <4>1, ReconciliationAssumption DEF Times
      <3> QED BY <3>4, <3>5
    <2>2. CASE UNCHANGED posProj
      BY <2>2
    <2> QED
      BY <1>1, <2>1, <2>2
         DEF Next, vars, projVars, AccountStep, Tick, Trade, PlaceOrder,
             RemoveOrder, ChangeOrder, FeedStep, RecordHistory,
             RecordOrderUpdates, ReaderStep, FetchPositions, FetchOrders,
             Observe, FetchFails, ControlStep, Configure, ForceCloseOnly,
             Acknowledge
  <1> QED BY <1>1, InductiveInvariant, PTL DEF Spec, DriftNeedsFill

-----------------------------------------------------------------------------
(* The row implements ReconciliationGate.                                  *)

\* The mode the gate is in.
GateMode == IF row.mode = "halt_new_entries" /\ Baseline
            THEN "startup" ELSE row.mode

\* The verdict of a snapshot.
Verdict == IF UnprotectedPositions # {} THEN "unprotected"
           ELSE IF Discrepancy THEN "discrepancy" ELSE "clean"

LEMMA SnapshotMovesGate ==
  ASSUME IInv, RecordSnapshot
  PROVE  Gate!TakeSnapshot(Verdict)
  <1>1. GateMode # "absent"
    BY DEF IInv, RowInv, RecordSnapshot, GateMode
  <1>2. GateMode = "startup" => Verdict # "discrepancy"
    <2>1. GateMode = "startup" => Baseline
      BY DEF GateMode, IInv, TypeOK
    <2>2. Baseline => UnexplainedOrders = {} /\ UnexplainedPositions = {}
      BY DEF UnexplainedOrders, UnexplainedPositions, ExplainedPosition
    <2> QED BY <2>1, <2>2 DEF Verdict, Discrepancy
  <1>3. /\ row'.mode = NewMode[1] /\ row'.streak = NewStreak
        /\ row'.baselineAt # Never
    <2>1. (IF Baseline THEN stamp ELSE row.baselineAt) # Never
      BY ReconciliationAssumption DEF IInv, TypeOK, Baseline, Times, Never
    <2> QED BY <2>1 DEF RecordSnapshot, Row
  <1>4. GateMode' = NewMode[1]
    BY <1>3 DEF GateMode, Baseline
  <1>5. NewMode[1] = Gate!SnapshotMode(Verdict)
    <2>1. Baseline /\ Discrepancy => UnprotectedPositions # {}
      BY DEF Discrepancy, UnexplainedOrders, UnexplainedPositions,
         ExplainedPosition
    <2>2. UnprotectedPositions # {} => Discrepancy
      BY DEF Discrepancy
    <2> QED BY <2>1, <2>2 DEF NewMode, Verdict, Gate!SnapshotMode
  <1>6. NewStreak = Gate!SnapshotStreak(Verdict)
    <2>1. UnprotectedPositions # {} => Discrepancy
      BY DEF Discrepancy
    <2> QED BY <2>1 DEF NewStreak, Verdict, Gate!SnapshotStreak
  <1> QED
    BY <1>1, <1>2, <1>3, <1>4, <1>5, <1>6
       DEF GateMode, Gate!TakeSnapshot

LEMMA GateStep ==
  ASSUME IInv, [Next]_vars
  PROVE  [Gate!GateNext]_(Gate!gateVars)
  <1>1. CASE RecordSnapshot
    <2>1. Verdict \in Gate!Verdicts
      BY DEF Verdict, Gate!Verdicts
    <2> QED BY <1>1, <2>1, SnapshotMovesGate DEF Gate!GateNext
  <1>2. CASE Configure
    <2>1. CASE row = NoRow
      <3>1. GateMode = "absent" /\ row.streak = 0
        BY <2>1 DEF GateMode, NoRow, Row
      <3>2. GateMode' = "startup" /\ row'.streak = 0
        BY <1>2, <2>1 DEF Configure, GateMode, Baseline, Row
      <3> QED BY <3>1, <3>2 DEF GateMode, Gate!GateNext, Gate!Configure
    <2>2. CASE row # NoRow
      BY <1>2, <2>2 DEF Configure, Gate!gateVars, Baseline
    <2> QED BY <2>1, <2>2
  <1>3. CASE ForceCloseOnly
    <2>1. row'.mode = "close_only" /\ row'.streak = 0
      BY <1>3 DEF ForceCloseOnly, IInv, TypeOK
    <2> QED BY <2>1 DEF Gate!GateNext, Gate!ForceCloseOnly
  <1>4. ASSUME NEW reason, Acknowledge(reason)
        PROVE  Gate!Acknowledge
    <2>1. row'.mode = "normal" /\ row'.streak = 0
      BY <1>4 DEF Acknowledge, IInv, TypeOK
    <2> QED BY <1>4, <2>1 DEF Acknowledge, Gate!Acknowledge
  <1>5. CASE UNCHANGED row
    BY <1>5 DEF Gate!gateVars, Baseline
  <1> QED
    BY <1>1, <1>2, <1>3, <1>4, <1>5
       DEF Next, vars, projVars, AccountStep, Tick, Trade, PlaceOrder,
           RemoveOrder, ChangeOrder, FeedStep, RecordHistory,
           RecordOrderUpdates, ReaderStep, FetchPositions, FetchOrders,
           Observe, FetchFails, ControlStep, Gate!GateNext

\* Verdicts from projections, late events and torn snapshots, forced halts,
\* restarts and acknowledgements move the row only as the gate the worker and
\* the engine are modelled against.
THEOREM GateRefinement == Spec => ImplementsGate
  <1>1. Init => Gate!GateInit
    BY DEF Init, NoRow, Row, Gate!GateInit
  <1> QED
    BY <1>1, GateStep, InductiveInvariant, PTL
       DEF Spec, ImplementsGate, Gate!GateSpec

=============================================================================
