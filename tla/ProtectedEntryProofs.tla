------------------------ MODULE ProtectedEntryProofs ------------------------
(***************************************************************************)
(* The safety of one trade in numbers, for every intent the types allow,   *)
(* every valid policy and every price.  TypeOK is not inductive: that a    *)
(* partial execution cannot undercut what is visible, and that a leg rests *)
(* with the size of this fill and not of an earlier one, need to be told   *)
(* that nothing was bought, seen or placed before its phase (Untouched);   *)
(* the sizes need the decision that is still the one the engine took       *)
(* (Decided).                                                              *)
(***************************************************************************)
EXTENDS ProtectedEntry, OrderSizingProofs

Unordered == { "new", "invalid", "rejected", "admitted" }

\* Nothing is ordered, bought or seen before its phase.
Untouched ==
  /\ phase \in Unordered => ordered = 0
  /\ phase \in Unordered \cup { "sent" } => bought = 0
  /\ phase \in Unordered \cup { "sent", "querying" } =>
       confirmed = 0 /\ resting = NothingRests

\* Whoever got past the engine has a valid intent and the engine's decision.
Decided ==
  /\ phase \in { "new", "invalid" } => decision.status = "none"
  /\ phase \notin { "new", "invalid" } =>
       Valid(intent) /\ decision = Decide(policy, intent)
  /\ phase \notin { "new", "invalid", "rejected" } =>
       decision.status = "approved"

IInv == TypeOK /\ Untouched /\ Decided /\ StoppedUpToTheUnseen

-----------------------------------------------------------------------------
(* The decision.                                                           *)

\* The limits the policy has for the intent: none or one.
Limits(p, i) ==
  IF i.account \in p.accounts THEN LimitsFor(p, i.strategy) ELSE {}

LEMMA OneLimit ==
  ASSUME NEW p, NEW s,
         NEW l \in LimitsFor(p, s), NEW m \in LimitsFor(p, s)
  PROVE  l = m
  BY DEF LimitsFor

LEMMA PolicyLimits ==
  ASSUME NEW p \in Policies, NEW s, NEW l \in LimitsFor(p, s)
  PROVE  LimitsTyped(l) /\ LimitsValid(l)
  BY PolicyAssumption DEF LimitsFor, PolicyValid

\* What Decide answers, for the one limit there is.
LEMMA Decisions ==
  ASSUME NEW p \in Policies, NEW i, Typed(i), Valid(i)
  PROVE  /\ Decide(p, i).status \in { "approved", "rejected" }
         /\ Decide(p, i).status = "approved" =>
              \E l \in Limits(p, i) :
                /\ i.slippage <= l.slippage /\ ~TooFar(i, l)
                /\ Approved(i, l) >= l.min * Distance(i)
                /\ Decide(p, i).notional = Approved(i, l)
         /\ Decide(p, i).status = "rejected" =>
              \A l \in Limits(p, i) :
                \/ i.slippage > l.slippage \/ TooFar(i, l)
                \/ Approved(i, l) < l.min * Distance(i)
  <1>0. \A r : Rejected(r).status = "rejected"
    BY DEF Rejected
  <1>1. CASE i.account \notin p.accounts
    BY <1>0, <1>1 DEF Decide, Limits
  <1>2. CASE i.account \in p.accounts /\ LimitsFor(p, i.strategy) = {}
    BY <1>0, <1>2 DEF Decide, Limits
  <1>3. CASE i.account \in p.accounts /\ LimitsFor(p, i.strategy) # {}
    <2> DEFINE l == CHOOSE l \in LimitsFor(p, i.strategy) : TRUE
    <2>1. /\ Limits(p, i) = LimitsFor(p, i.strategy)
          /\ l \in LimitsFor(p, i.strategy)
      BY <1>3 DEF Limits
    <2>2. \A m \in Limits(p, i) : m = l
      BY <2>1, OneLimit
    <2>3. i.slippage \in Int /\ l.slippage \in Int
      <3> HIDE DEF l
      <3>1. l.slippage \in Nat
        BY <2>1, PolicyLimits DEF LimitsTyped
      <3> QED BY <3>1, TypedFields
    <2>4. Decide(p, i) =
            CASE i.slippage > l.slippage -> Rejected("slippage_limit_exceeded")
              [] i.slippage <= l.slippage /\ TooFar(i, l) ->
                   Rejected("stop_distance_exceeded")
              [] i.slippage <= l.slippage /\ ~TooFar(i, l) ->
                   IF Approved(i, l) < l.min * Distance(i)
                   THEN Rejected("below_minimum_notional")
                   ELSE [status |-> "approved", reason |-> "none",
                         notional |-> Approved(i, l)]
      BY <1>3 DEF Decide
    <2> HIDE DEF l
    <2>5. CASE i.slippage > l.slippage
      <3>1. Decide(p, i) = Rejected("slippage_limit_exceeded")
        BY <2>3, <2>4, <2>5
      <3> QED BY <3>1, <1>0, <2>2, <2>5
    <2>6. CASE i.slippage <= l.slippage /\ TooFar(i, l)
      <3>1. Decide(p, i) = Rejected("stop_distance_exceeded")
        BY <2>3, <2>4, <2>6
      <3> QED BY <3>1, <1>0, <2>2, <2>6
    <2>7. CASE i.slippage <= l.slippage /\ ~TooFar(i, l)
      <3>1. Decide(p, i) = IF Approved(i, l) < l.min * Distance(i)
                           THEN Rejected("below_minimum_notional")
                           ELSE [status |-> "approved", reason |-> "none",
                                 notional |-> Approved(i, l)]
        BY <2>3, <2>4, <2>7
      <3>2. CASE Approved(i, l) < l.min * Distance(i)
        BY <3>1, <3>2, <1>0, <2>2
      <3>3. CASE ~(Approved(i, l) < l.min * Distance(i))
        <4>1. /\ Decide(p, i).status = "approved"
              /\ Decide(p, i).notional = Approved(i, l)
          BY <3>1, <3>3
        <4>2. Approved(i, l) \in Int /\ l.min * Distance(i) \in Int
          <5>1. LimitsTyped(l)
            BY <2>1, PolicyLimits
          <5>2. l.min \in Int
            BY <5>1 DEF LimitsTyped
          <5> QED BY <5>1, <5>2, ApprovedIsGreatest, ValidAmounts
        <4>3. Approved(i, l) >= l.min * Distance(i)
          BY <3>3, <4>2
        <4> QED BY <4>1, <4>3, <2>1, <2>7
      <3> QED BY <3>2, <3>3
    <2> QED BY <2>3, <2>5, <2>6, <2>7
  <1> QED BY <1>1, <1>2, <1>3

\* What each limit permits is what Approved does not exceed.
LEMMA PermittedAmounts ==
  ASSUME NEW p \in Policies, NEW i, Typed(i), Valid(i),
         NEW l \in Limits(p, i), NEW amount \in Int
  PROVE  /\ Approved(i, l) \in Int /\ l.min * Distance(i) \in Int
         /\ i.slippage \in Int /\ l.slippage \in Int
         /\ Permitted(i, l, amount) <=>
              /\ i.slippage <= l.slippage /\ ~TooFar(i, l)
              /\ amount >= l.min * Distance(i)
              /\ amount <= Approved(i, l)
  <1>1. LimitsTyped(l)
    BY PolicyLimits DEF Limits
  <1>2. l.min \in Int
    BY <1>1 DEF LimitsTyped
  <1>3. i.slippage \in Int /\ l.slippage \in Int
    <2>1. l.slippage \in Nat
      BY <1>1 DEF LimitsTyped
    <2> QED BY <2>1, TypedFields
  <1> QED BY <1>1, <1>2, <1>3, ApprovedIsGreatest, ValidAmounts DEF Permitted

\* SizedToTheLimit, of a decision the engine took.
LEMMA DecidedIsSized ==
  ASSUME NEW p \in Policies, NEW i, Typed(i), Valid(i)
  PROVE  /\ Decide(p, i).status = "approved" =>
              \E l \in Limits(p, i) :
                /\ Permitted(i, l, Decide(p, i).notional)
                /\ ~Permitted(i, l, Decide(p, i).notional + 1)
         /\ Decide(p, i).status = "rejected" =>
              \A l \in Limits(p, i) :
                \A amount \in l.min * Distance(i) .. l.max * Distance(i) :
                  ~Permitted(i, l, amount)
  <1>1. ASSUME Decide(p, i).status = "approved"
        PROVE  \E l \in Limits(p, i) :
                 /\ Permitted(i, l, Decide(p, i).notional)
                 /\ ~Permitted(i, l, Decide(p, i).notional + 1)
    <2>1. PICK l \in Limits(p, i) :
                 /\ i.slippage <= l.slippage /\ ~TooFar(i, l)
                 /\ Approved(i, l) >= l.min * Distance(i)
                 /\ Decide(p, i).notional = Approved(i, l)
      BY <1>1, Decisions
    <2>2. Approved(i, l) \in Int
      BY PermittedAmounts
    <2>3. Permitted(i, l, Approved(i, l))
      BY <2>1, <2>2, PermittedAmounts
    <2>4. ~Permitted(i, l, Approved(i, l) + 1)
      BY <2>2, PermittedAmounts
    <2> QED BY <2>1, <2>3, <2>4
  <1>2. ASSUME Decide(p, i).status = "rejected", NEW l \in Limits(p, i),
               NEW amount \in l.min * Distance(i) .. l.max * Distance(i),
               Permitted(i, l, amount)
        PROVE  FALSE
    <2>1. amount \in Int
      OBVIOUS
    <2>2. /\ Approved(i, l) \in Int /\ l.min * Distance(i) \in Int
          /\ i.slippage \in Int /\ l.slippage \in Int
          /\ i.slippage <= l.slippage /\ ~TooFar(i, l)
          /\ amount >= l.min * Distance(i) /\ amount <= Approved(i, l)
      BY <1>2, <2>1, PermittedAmounts
    <2>3. \/ i.slippage > l.slippage \/ TooFar(i, l)
          \/ Approved(i, l) < l.min * Distance(i)
      BY <1>2, Decisions
    <2> HIDE DEF Permitted
    <2> QED BY <2>1, <2>2, <2>3
  <1> QED BY <1>1, <1>2

\* The approved notional is not negative.
LEMMA ApprovedNotional ==
  ASSUME NEW p \in Policies, NEW i, Typed(i), Valid(i),
         Decide(p, i).status = "approved"
  PROVE  /\ Decide(p, i).notional \in Nat
         /\ \A l \in LimitsFor(p, i.strategy) :
              /\ RiskCap(i, l) \in Int
              /\ Decide(p, i).notional <= RiskCap(i, l) * i.reference
  <1>1. PICK l \in Limits(p, i) :
               /\ Approved(i, l) >= l.min * Distance(i)
               /\ Decide(p, i).notional = Approved(i, l)
    BY Decisions
  <1>2. l \in LimitsFor(p, i.strategy) /\ LimitsTyped(l) /\ LimitsValid(l)
    BY PolicyLimits DEF Limits
  <1>3. l.min \in Nat /\ Distance(i) \in Nat
    BY <1>2, ValidAmounts DEF LimitsTyped, LimitsValid
  <1>4. l.min * Distance(i) \in Nat
    BY <1>3
  <1>5. /\ Approved(i, l) \in Int /\ RiskCap(i, l) \in Int
        /\ Approved(i, l) <= RiskCap(i, l) * i.reference
    BY <1>2, ApprovedIsGreatest
  <1>6. \A m \in LimitsFor(p, i.strategy) : m = l
    BY <1>2, OneLimit
  <1> QED BY <1>1, <1>4, <1>5, <1>6

-----------------------------------------------------------------------------
(* The invariant.                                                          *)

LEMMA LegLotsNat ==
  ASSUME NEW i, Typed(i), NEW fill \in Nat, NEW k \in Legs(i)
  PROVE  LegLots(i, fill, k) \in Nat
  <1>1. CASE k = 0
    BY <1>1 DEF LegLots
  <1>2. CASE k # 0
    <2>1. i.targets \in Seq(Target) /\ k \in DOMAIN i.targets
      BY <1>2, TypedFields DEF Legs
    <2>2. i.targets[k] \in Target
      BY <2>1
    <2> DEFINE q == i.targets[k].pct
    <2>3. q \in Nat
      BY <2>2 DEF Target
    <2>4. LegLots(i, fill, k) = (fill * q) \div 100
      BY <1>2 DEF LegLots
    <2> HIDE DEF q
    <2>5. fill * q \in Nat
      BY <2>3
    <2>6. \A x \in Nat : x \div 100 \in Nat
      BY ONLY TRUE
    <2> QED BY <2>4, <2>5, <2>6
  <1> QED BY <1>1, <1>2

LEMMA StopIsALeg ==
  ASSUME NEW i, Typed(i)
  PROVE  0 \in Legs(i)
  BY TypedFields DEF Legs

LEMMA InitHolds == Init => IInv
  <1> SUFFICES ASSUME Init PROVE IInv
    OBVIOUS
  <1> USE DEF Init
  <1>1. TypeOK
    <2>1. phase \in Phases
      BY DEF Phases
    <2>2. /\ resting \in [Legs(intent) -> Nat]
          /\ \A k \in Legs(intent) : resting[k] = 0
      BY DEF NothingRests
    <2> QED BY <2>1, <2>2 DEF TypeOK
  <1>2. Untouched
    BY DEF Untouched
  <1>3. Decided
    BY DEF Decided
  <1>4. StoppedUpToTheUnseen
    BY DEF StoppedUpToTheUnseen
  <1> QED BY <1>1, <1>2, <1>3, <1>4 DEF IInv

\* Whatever reduces the position keeps what is open within what was bought,
\* and what is not stopped no larger than it was.
LEMMA Reducing ==
  ASSUME TypeOK, NEW n \in 0 .. position, NEW legs \in [Legs(intent) -> Nat],
         UNCHANGED << intent, bought, confirmed >>, Reduce(n, legs),
         \A k \in Legs(intent) : legs[k] \in { 0, resting[k] },
         legs[0] = resting[0] \/ n >= resting[0] \/ n = position
  PROVE  /\ position' \in 0 .. bought'
         /\ resting' \in [Legs(intent') -> Nat]
         /\ \A k \in Legs(intent') :
              resting'[k] \in { 0, LegLots(intent', confirmed', k) }
         /\ position <= resting[0] + (bought - confirmed)
              => position' <= resting'[0] + (bought' - confirmed')
  <1>1. /\ position \in Nat /\ bought \in Nat /\ confirmed \in Nat
        /\ position <= bought /\ confirmed <= bought
        /\ position' = position - n
    BY DEF TypeOK, Reduce
  <1>2. 0 \in Legs(intent) /\ resting[0] \in Nat /\ legs[0] \in Nat
    BY IntentAssumption, StopIsALeg DEF TypeOK
  <1>3. CASE position' = 0
    <2>1. resting' = NothingRests
      BY <1>3 DEF Reduce
    <2> QED BY <1>1, <1>2, <1>3, <2>1 DEF NothingRests
  <1>4. CASE position' # 0
    <2>1. resting' = legs
      BY <1>4 DEF Reduce
    <2>2. \A k \in Legs(intent) :
            legs[k] \in { 0, LegLots(intent, confirmed, k) }
      BY DEF TypeOK
    <2>3. position <= resting[0] + (bought - confirmed)
            => position' <= resting'[0] + (bought' - confirmed')
      BY <1>1, <1>2, <1>4, <2>1
    <2> QED BY <1>1, <2>1, <2>2, <2>3
  <1> QED BY <1>3, <1>4

LEMMA StepHolds == IInv /\ [Next]_vars => IInv'
  <1> SUFFICES ASSUME IInv, [Next]_vars PROVE IInv'
    OBVIOUS
  <1> USE DEF IInv
  <1>0. /\ policy \in Policies /\ intent \in Submitted /\ Typed(intent)
        /\ phase \in Phases /\ ordered \in Nat /\ bought \in Nat
        /\ visible \in Nat /\ confirmed \in Nat /\ position \in Nat
        /\ bought <= ordered /\ visible <= bought /\ confirmed <= visible
        /\ position <= bought
    BY IntentAssumption DEF TypeOK
  <1>1. ASSUME Admit PROVE IInv'
    <2> USE <1>1 DEF Admit, exchangeVars, inputs
    <2>1. CASE ~Valid(intent)
      <3>1. /\ phase' = "invalid"
            /\ UNCHANGED << policy, intent, decision, ordered, confirmed,
                            bought, visible, resting, position, price,
                            verdict >>
        BY <2>1
      <3> QED BY <3>1 DEF TypeOK, Phases, Untouched, Unordered, NothingRests,
                          Decided, StoppedUpToTheUnseen
    <2>2. CASE Valid(intent)
      <3>1. /\ decision' = Decide(policy, intent)
            /\ phase' = IF decision'.status = "approved" THEN "admitted"
                        ELSE "rejected"
            /\ UNCHANGED << policy, intent, ordered, confirmed, bought,
                            visible, resting, position, price, verdict >>
        BY <2>2
      <3>2. decision'.status \in { "approved", "rejected" }
        BY <3>1, <2>2, <1>0, Decisions
      <3>3. ordered = 0
        BY DEF Untouched, Unordered
      <3>4. TypeOK'
        BY <3>1, <3>2, <3>3 DEF TypeOK, Phases
      <3> QED BY <3>1, <3>2, <3>4, <2>2
          DEF Untouched, Unordered, NothingRests, Decided,
              StoppedUpToTheUnseen
    <2> QED BY <2>1, <2>2
  <1>2. ASSUME SubmitEntry PROVE IInv'
    <2>1. /\ phase = "admitted" /\ phase' = "sent"
          /\ ordered' \in EntryLots(intent, decision.notional)
          /\ UNCHANGED << policy, intent, decision, confirmed, bought, visible,
                          resting, position, price, verdict >>
      BY <1>2 DEF SubmitEntry, exchangeVars, inputs
    <2>2. ordered' \in Nat
      <3>1. /\ Valid(intent) /\ decision = Decide(policy, intent)
            /\ decision.status = "approved"
        BY <2>1 DEF Decided
      <3>2. decision.notional \in Nat
        BY <3>1, <1>0, ApprovedNotional
      <3> QED BY <2>1, <3>1, <3>2, <1>0, EntryIsWithinALot
    <2>3. bought = 0
      BY <2>1 DEF Untouched, Unordered
    <2>4. TypeOK'
      BY <2>1, <2>2, <2>3, <1>0 DEF TypeOK, Phases
    <2> QED BY <2>1, <2>4
        DEF Untouched, Unordered, NothingRests, Decided, StoppedUpToTheUnseen
  <1>3. ASSUME ConfirmFill PROVE IInv'
    <2>1. /\ phase = "querying" /\ phase' = "protecting"
          /\ confirmed' = visible
          /\ UNCHANGED << policy, intent, decision, ordered, bought, visible,
                          resting, position, price, verdict >>
      BY <1>3 DEF ConfirmFill, exchangeVars, inputs
    <2>2. \A k \in Legs(intent) : resting[k] = 0
      BY <2>1 DEF Untouched, NothingRests
    <2>3. TypeOK'
      BY <2>1, <2>2, <1>0 DEF TypeOK, Phases
    <2> QED BY <2>1, <2>3
        DEF Untouched, Unordered, NothingRests, Decided, StoppedUpToTheUnseen
  <1>4. ASSUME FillNotSeen PROVE IInv'
    <2>1. /\ phase = "querying" /\ phase' \in { "failed", "unknown" }
          /\ UNCHANGED << policy, intent, decision, ordered, confirmed, bought,
                          visible, resting, position, price, verdict >>
      BY <1>4 DEF FillNotSeen, exchangeVars, inputs
    <2>2. TypeOK'
      BY <2>1 DEF TypeOK, Phases
    <2> QED BY <2>1, <2>2
        DEF Untouched, Unordered, NothingRests, Decided, StoppedUpToTheUnseen
  <1>5. ASSUME PlaceLegs PROVE IInv'
    <2>1. /\ phase = "protecting" /\ phase' \in { "verifying", "closing" }
          /\ UNCHANGED << policy, intent, decision, ordered, confirmed, bought,
                          visible, position, price, verdict >>
      BY <1>5 DEF PlaceLegs, inputs
    <2>2. /\ resting' \in [Legs(intent) -> Nat]
          /\ \A k \in Legs(intent) :
               resting'[k] \in { 0, LegLots(intent, confirmed, k) }
      <3>1. CASE UNCHANGED resting
        BY <3>1 DEF TypeOK
      <3>2. ASSUME NEW placed,
                   resting' = [k \in Legs(intent) |->
                                 IF k \in placed /\ position > 0
                                 THEN LegLots(intent, confirmed, k) ELSE 0]
            PROVE  /\ resting' \in [Legs(intent) -> Nat]
                   /\ \A k \in Legs(intent) :
                        resting'[k] \in { 0, LegLots(intent, confirmed, k) }
        <4>1. \A k \in Legs(intent) : LegLots(intent, confirmed, k) \in Nat
          BY <1>0, LegLotsNat
        <4> QED BY <3>2, <4>1
      <3> QED BY <3>1, <3>2, <1>5 DEF PlaceLegs
    <2>3. TypeOK'
      BY <2>1, <2>2 DEF TypeOK, Phases
    <2> QED BY <2>1, <2>3
        DEF Untouched, Unordered, NothingRests, Decided, StoppedUpToTheUnseen
  <1>6. ASSUME VerifyProtection PROVE IInv'
    <2>1. /\ phase = "verifying"
          /\ \/ phase' = "protected" /\ resting[0] >= confirmed
             \/ phase' = "closing"
          /\ UNCHANGED << policy, intent, decision, ordered, confirmed, bought,
                          visible, resting, position, price, verdict >>
      BY <1>6 DEF VerifyProtection, exchangeVars, inputs
    <2>2. TypeOK'
      BY <2>1 DEF TypeOK, Phases
    <2>3. StoppedUpToTheUnseen'
      <3>1. 0 \in Legs(intent) /\ resting[0] \in Nat
        BY <1>0, StopIsALeg DEF TypeOK
      <3> QED BY <2>1, <3>1, <1>0 DEF StoppedUpToTheUnseen
    <2> QED BY <2>1, <2>2, <2>3
        DEF Untouched, Unordered, NothingRests, Decided
  <1>7. ASSUME EmergencyClose PROVE IInv'
    <2>1. /\ phase = "closing" /\ phase' \in { "closed", "unknown" }
          /\ UNCHANGED << policy, intent, decision, ordered, confirmed, bought,
                          visible, price, verdict >>
      BY <1>7 DEF EmergencyClose, inputs
    <2>2. CASE UNCHANGED << position, resting >>
      <3>1. TypeOK'
        BY <2>1, <2>2 DEF TypeOK, Phases
      <3> QED BY <2>1, <2>2, <3>1
          DEF Untouched, Unordered, NothingRests, Decided,
              StoppedUpToTheUnseen
    <2>3. CASE \E n \in 1 .. Min({ confirmed, position }) : Reduce(n, resting)
      <3>1. PICK n \in 1 .. Min({ confirmed, position }) : Reduce(n, resting)
        BY <2>3
      <3>2. n \in 0 .. position
        <4>1. n \in Int /\ n <= Min({ confirmed, position }) /\ n >= 1
          BY <1>0, LeastOfTwo
        <4> QED BY <4>1, <1>0, LeastOfTwo
      <3>3. /\ position' \in 0 .. bought'
            /\ resting' \in [Legs(intent') -> Nat]
            /\ \A k \in Legs(intent') :
                 resting'[k] \in { 0, LegLots(intent', confirmed', k) }
        BY <2>1, <3>1, <3>2, Reducing DEF TypeOK
      <3>4. TypeOK'
        BY <2>1, <3>3 DEF TypeOK, Phases
      <3> QED BY <2>1, <3>4
          DEF Untouched, Unordered, NothingRests, Decided,
              StoppedUpToTheUnseen
    <2> QED BY <1>7, <2>2, <2>3 DEF EmergencyClose
  <1>8. ASSUME ExecuteEntry PROVE IInv'
    <2>1. /\ phase = "sent" /\ phase' = "querying"
          /\ bought' \in 0 .. ordered /\ position' = bought'
          /\ UNCHANGED << policy, intent, decision, ordered, confirmed, visible,
                          resting, price, verdict >>
      BY <1>8 DEF ExecuteEntry, inputs
    <2>2. visible = 0 /\ confirmed = 0
      BY <2>1, <1>0 DEF Untouched
    <2>3. TypeOK'
      BY <2>1, <2>2, <1>0 DEF TypeOK, Phases
    <2> QED BY <2>1, <2>3
        DEF Untouched, Unordered, NothingRests, Decided, StoppedUpToTheUnseen
  <1>9. ASSUME ShowFills PROVE IInv'
    <2>1. /\ visible' \in visible + 1 .. bought
          /\ UNCHANGED << policy, intent, phase, decision, ordered, confirmed,
                          bought, resting, position, price, verdict >>
      BY <1>9 DEF ShowFills, workerVars, inputs
    <2>2. visible' \in 0 .. bought /\ confirmed \in 0 .. visible'
      BY <2>1, <1>0
    <2>3. TypeOK'
      BY <2>1, <2>2 DEF TypeOK
    <2> QED BY <2>1, <2>3
        DEF Untouched, Unordered, NothingRests, Decided, StoppedUpToTheUnseen
  <1>10. ASSUME NEW k \in Legs(intent), LegFires(k) PROVE IInv'
    <2>1. /\ resting[k] > 0
          /\ Reduce(Min({ resting[k], position }), [resting EXCEPT ![k] = 0])
          /\ UNCHANGED << policy, intent, phase, decision, ordered, confirmed,
                          bought, visible, price, verdict >>
      BY <1>10 DEF LegFires, workerVars, inputs
    <2> DEFINE n == Min({ resting[k], position })
               legs == [resting EXCEPT ![k] = 0]
    <2>2. resting \in [Legs(intent) -> Nat] /\ resting[k] \in Nat
      BY DEF TypeOK
    <2>3. n \in 0 .. position /\ (n = position \/ n >= resting[k])
      <3>1. /\ n \in Int
            /\ \A x \in Int : x <= n <=> x <= resting[k] /\ x <= position
        BY <1>0, <2>2, LeastOfTwo
      <3> HIDE DEF n
      <3>2. 0 <= n /\ n <= position
        BY <1>0, <2>2, <3>1
      <3>3. CASE position <= resting[k]
        BY <1>0, <2>2, <3>1, <3>2, <3>3
      <3>4. CASE resting[k] <= position
        BY <1>0, <2>2, <3>1, <3>2, <3>4
      <3> QED BY <1>0, <2>2, <3>1, <3>2, <3>3, <3>4
    <2>4. /\ legs \in [Legs(intent) -> Nat]
          /\ \A j \in Legs(intent) : legs[j] \in { 0, resting[j] }
          /\ legs[0] = resting[0] \/ k = 0
      BY <2>2
    <2> HIDE DEF n, legs
    <2>5. /\ position' \in 0 .. bought'
          /\ resting' \in [Legs(intent') -> Nat]
          /\ \A j \in Legs(intent') :
               resting'[j] \in { 0, LegLots(intent', confirmed', j) }
          /\ position <= resting[0] + (bought - confirmed)
               => position' <= resting'[0] + (bought' - confirmed')
      <3>1. Reduce(n, legs)
        BY <2>1 DEF n, legs
      <3>2. legs[0] = resting[0] \/ n >= resting[0] \/ n = position
        BY <2>3, <2>4
      <3> QED BY <2>1, <2>3, <2>4, <3>1, <3>2, Reducing
    <2>6. TypeOK'
      BY <2>1, <2>5 DEF TypeOK
    <2>7. Untouched'
      <3>1. CASE phase \in Unordered \cup { "sent", "querying" }
        BY <3>1, <2>1 DEF Untouched, NothingRests
      <3>2. CASE phase \notin Unordered \cup { "sent", "querying" }
        BY <3>2, <2>1 DEF Untouched
      <3> QED BY <3>1, <3>2
    <2>8. StoppedUpToTheUnseen'
      BY <2>1, <2>5 DEF StoppedUpToTheUnseen
    <2> QED BY <2>1, <2>6, <2>7, <2>8 DEF Decided
  <1>11. ASSUME UNCHANGED << workerVars, exchangeVars >>, price' \in Prices,
                verdict' \in { "none", "covered", "uncovered" }
         PROVE  IInv'
    <2>1. UNCHANGED << policy, intent, phase, decision, ordered, confirmed,
                       bought, visible, resting, position >>
      BY <1>11 DEF workerVars, exchangeVars, inputs
    <2>2. TypeOK'
      BY <1>11, <2>1 DEF TypeOK
    <2> QED BY <2>1, <2>2
        DEF Untouched, Unordered, NothingRests, Decided, StoppedUpToTheUnseen
  <1>12. CASE PriceMoves
    <2>1. /\ UNCHANGED << workerVars, exchangeVars >> /\ price' \in Prices
          /\ verdict' \in { "none", "covered", "uncovered" }
      BY <1>12 DEF PriceMoves, TypeOK
    <2> QED BY <1>11, <2>1
  <1>13. CASE ReaderPolls
    <2>1. /\ UNCHANGED << workerVars, exchangeVars >> /\ price' \in Prices
          /\ verdict' \in { "none", "covered", "uncovered" }
      BY <1>13 DEF ReaderPolls, TypeOK
    <2> QED BY <1>11, <2>1
  <1>14. CASE UNCHANGED vars
    <2>1. /\ UNCHANGED << workerVars, exchangeVars >> /\ price' \in Prices
          /\ verdict' \in { "none", "covered", "uncovered" }
      BY <1>14 DEF vars, TypeOK
    <2> QED BY <1>11, <2>1
  <1> QED BY <1>1, <1>2, <1>3, <1>4, <1>5, <1>6, <1>7, <1>8, <1>9, <1>10,
             <1>12, <1>13, <1>14
      DEF Next, Worker, AnyLegFires

\* The inductive invariant holds for ever.
THEOREM InductiveInvariant == Spec => []IInv
  BY InitHolds, StepHolds, PTL DEF Spec

-----------------------------------------------------------------------------
(* What follows from it.                                                   *)

\* Every variable keeps its range; a leg rests with the size of its share of
\* the confirmed fill or not at all, and no reduction oversells the position.
THEOREM TypeCorrect == Spec => []TypeOK
  <1>1. IInv => TypeOK
    BY DEF IInv
  <1> QED BY <1>1, InductiveInvariant, PTL

\* evaluate_admission approves the greatest amount every ceiling permits, and
\* rejects only when no amount is permitted.
THEOREM SizedExactly == Spec => []SizedToTheLimit
  <1>1. IInv => SizedToTheLimit
    <2> SUFFICES ASSUME IInv PROVE SizedToTheLimit
      OBVIOUS
    <2>1. CASE phase \in { "new", "invalid" }
      BY <2>1 DEF IInv, Decided, SizedToTheLimit
    <2>2. CASE phase \notin { "new", "invalid" }
      <3>1. /\ policy \in Policies /\ Typed(intent) /\ Valid(intent)
            /\ decision = Decide(policy, intent)
        BY <2>2, IntentAssumption DEF IInv, TypeOK, Decided
      <3> QED BY <3>1, DecidedIsSized DEF SizedToTheLimit, Limits
    <2> QED BY <2>1, <2>2
  <1> QED BY <1>1, InductiveInvariant, PTL

\* Whatever part of the entry executes, a stop that is hit loses, of the
\* reference price, no more than the risk cap and one lot.
THEOREM LossIsBounded == Spec => []StopLossIsBounded
  <1>1. IInv => StopLossIsBounded
    <2> SUFFICES ASSUME IInv, bought > 0,
                        NEW l \in LimitsFor(policy, intent.strategy)
                 PROVE  bought * Distance(intent)
                          <= RiskCap(intent, l) + Distance(intent)
      BY DEF StopLossIsBounded
    <2> DEFINE d == Distance(intent)
               r == intent.reference
               c == RiskCap(intent, l)
               q == decision.notional
    <2>1. /\ policy \in Policies /\ Typed(intent)
          /\ ordered \in Nat /\ bought \in Nat /\ bought <= ordered
          /\ ordered \in EntryLots(intent, q)
      BY IntentAssumption DEF IInv, TypeOK
    <2>2. /\ Valid(intent) /\ decision = Decide(policy, intent)
          /\ decision.status = "approved"
      BY <2>1 DEF IInv, Untouched, Unordered, Decided
    <2>3. d \in Nat /\ d > 0 /\ r \in Nat /\ r > 0
      BY <2>1, <2>2, ValidAmounts
    <2>4. q \in Nat /\ c \in Int /\ q <= c * r
      BY <2>1, <2>2, ApprovedNotional
    <2>5. ordered * (d * r) < q + d * r
      BY <2>1, <2>2, <2>4, EntryIsWithinALot
    <2> HIDE DEF d, r, c, q
    <2>6. bought * d <= c + d
      <3>1. bought * (d * r) <= ordered * (d * r)
        <4>1. d * r \in Nat
          BY <2>3
        <4> QED BY <2>1, <4>1, Scaled
      <3>2. /\ bought * (d * r) = (bought * d) * r
            /\ c * r + d * r = (c + d) * r
        BY <2>1, <2>3, <2>4
      <3>3. (bought * d) * r < (c + d) * r
        <4>1. /\ bought * (d * r) \in Int /\ ordered * (d * r) \in Int
              /\ d * r \in Int /\ c * r \in Int
          BY <2>1, <2>3, <2>4
        <4> QED BY <2>4, <2>5, <3>1, <3>2, <4>1
      <3>4. \A x, y \in Int : x * r < y * r => x <= y
        <4>1. SUFFICES ASSUME NEW x \in Int, NEW y \in Int, ~(x <= y)
                       PROVE  ~(x * r < y * r)
          OBVIOUS
        <4>2. y * r <= x * r /\ x * r \in Int /\ y * r \in Int
          BY <2>3, <4>1, Scaled
        <4> QED BY <4>2
      <3> QED BY <2>1, <2>3, <2>4, <3>3, <3>4
    <2> QED BY <2>6 DEF d, c
  <1> QED BY <1>1, InductiveInvariant, PTL

\* Whatever fill the worker goes by, the targets it places for it together sell
\* no more, while their shares fit the sixteen bits they are summed in.
THEOREM TargetsShareTheFill == Spec => []LegsShareTheFill
  <1>1. IInv => LegsShareTheFill
    <2> SUFFICES ASSUME IInv, PartsTotal(intent) < Words
                 PROVE  Sold(intent, confirmed) <= confirmed
      BY DEF LegsShareTheFill, Sold
    <2>1. Typed(intent) /\ confirmed \in Nat
      BY IntentAssumption DEF IInv, TypeOK
    <2>2. TargetsValid(intent) \/ confirmed = 0
      BY DEF IInv, Untouched, Unordered, Decided, Valid
    <2> QED BY <2>1, <2>2, TargetsShareAFill
  <1> QED BY <1>1, InductiveInvariant, PTL

\* A trade the worker calls protected is uncovered by no more than the fills it
\* did not see, and its targets sell no more than those it did.
THEOREM CoveredUpToTheUnseen == Spec => []ProtectedUpToTheUnseen
  <1>1. IInv => StoppedUpToTheUnseen
    BY DEF IInv
  <1> QED BY <1>1, InductiveInvariant, TargetsShareTheFill, PTL
          DEF ProtectedUpToTheUnseen
=============================================================================
