--------------------------- MODULE ProtectedEntry ---------------------------
(***************************************************************************)
(* One trade in numbers: the intent is sized by the risk policy, its entry *)
(* is ordered and executes in part, its fills become visible one by one,   *)
(* the stop and the targets are derived from the fills seen so far, and    *)
(* the mainnet reader compares what rests with what is open.  The worker,  *)
(* the exchange, the market and the reader interleave.  LiveExecution has  *)
(* the statuses, the retries and the crashes around these steps.           *)
(***************************************************************************)
EXTENDS OrderSizing

CONSTANTS
  Submitted,    \* the intents a strategy may submit
  Policies,     \* risk policies an executor may run with
  Prices        \* prices the market may have

\* Only a policy that validates is loaded; a submitted intent has the types of
\* its fields and nothing more.
ASSUME PolicyAssumption ==
  \A p \in Policies : /\ PolicyValid(p) /\ LimitsTyped(p.default)
                      /\ \A s \in DOMAIN p.strategies :
                           LimitsTyped(p.strategies[s])

ASSUME IntentAssumption == \A i \in Submitted : Typed(i)

VARIABLES
  policy,       \* the policy of this executor
  intent,       \* the intent submitted
  phase,        \* how far the worker is with it
  decision,     \* the persisted risk decision
  ordered,      \* lots of the entry order
  bought,       \* lots it executed
  visible,      \* of these, those user_fills shows
  confirmed,    \* the fill the worker goes by
  resting,      \* lots of each leg that rests at the exchange
  position,     \* lots open
  price,        \* the price of the market
  verdict       \* what the last snapshot of the reader said

inputs == << policy, intent >>
workerVars == << inputs, phase, decision, ordered, confirmed >>
exchangeVars == << bought, visible, resting, position >>
vars == << workerVars, exchangeVars, price, verdict >>

Phases == { "new", "invalid", "rejected", "admitted", "sent", "querying",
            "protecting", "verifying", "protected", "closing", "closed",
            "failed", "unknown" }

TypeOK ==
  /\ policy \in Policies /\ intent \in Submitted
  /\ phase \in Phases
  /\ decision.status \in { "none", "approved", "rejected" }
  /\ ordered \in Nat
  /\ ordered > 0 => ordered \in EntryLots(intent, decision.notional)
  /\ bought \in 0 .. ordered
  /\ visible \in 0 .. bought
  /\ confirmed \in 0 .. visible
  /\ resting \in [Legs(intent) -> Nat]
  /\ \A k \in Legs(intent) :
       resting[k] \in { 0, LegLots(intent, confirmed, k) }
  /\ position \in 0 .. bought
  /\ price \in Prices
  /\ verdict \in { "none", "covered", "uncovered" }

NothingRests == [k \in Legs(intent) |-> 0]

Init ==
  /\ policy \in Policies /\ intent \in Submitted
  /\ phase = "new"
  /\ decision = [status |-> "none", reason |-> "none", notional |-> 0]
  /\ ordered = 0 /\ bought = 0 /\ visible = 0 /\ confirmed = 0
  /\ resting = NothingRests
  /\ position = 0
  /\ price \in Prices
  /\ verdict = "none"

-----------------------------------------------------------------------------
(* The engine and the worker.                                              *)

Admit ==
  /\ phase = "new"
  /\ IF ~Valid(intent) THEN phase' = "invalid" /\ UNCHANGED decision
     ELSE /\ decision' = Decide(policy, intent)
          /\ phase' = IF decision'.status = "approved" THEN "admitted"
                      ELSE "rejected"
  /\ UNCHANGED << inputs, ordered, confirmed, exchangeVars, price, verdict >>

\* submit_entry.
SubmitEntry ==
  /\ phase = "admitted"
  /\ phase' = "sent"
  /\ ordered' \in EntryLots(intent, decision.notional)
  /\ UNCHANGED << inputs, decision, confirmed, exchangeVars, price, verdict >>

\* query_confirmed_fill: the fills that are visible at the first look that
\* shows any.
ConfirmFill ==
  /\ phase = "querying" /\ visible > 0
  /\ confirmed' = visible
  /\ phase' = "protecting"
  /\ UNCHANGED << inputs, decision, ordered, exchangeVars, price, verdict >>

\* A look at the order or at its fills fails, or five looks show no fill: then
\* the status of the order decides, and one that did not fill completely may be
\* called canceled.
FillNotSeen ==
  /\ phase = "querying"
  /\ \/ phase' = "unknown"
     \/ visible = 0 /\ bought < ordered /\ phase' = "failed"
  /\ UNCHANGED << inputs, decision, ordered, confirmed, exchangeVars, price,
                  verdict >>

\* A leg that rounds to zero fails establish_protection before it sends.
LegsTooSmall == \E k \in Legs(intent) : LegLots(intent, confirmed, k) = 0

\* establish_protection: one bulk request.  The exchange may refuse some of the
\* legs, and the answer may be lost.
PlaceLegs ==
  /\ phase = "protecting"
  /\ \/ LegsTooSmall /\ phase' = "closing" /\ UNCHANGED resting
     \/ /\ ~LegsTooSmall
        /\ \E placed \in SUBSET Legs(intent) :
             /\ resting' = [k \in Legs(intent) |->
                              IF k \in placed /\ position > 0
                              THEN LegLots(intent, confirmed, k) ELSE 0]
             /\ phase' \in IF placed = Legs(intent)
                           THEN { "verifying", "closing" } ELSE { "closing" }
  /\ UNCHANGED << inputs, decision, ordered, confirmed, bought, visible,
                  position, price, verdict >>

\* verify_protection: a resting stop of at least the confirmed fill.
VerifyProtection ==
  /\ phase = "verifying"
  /\ \/ resting[0] >= confirmed /\ phase' = "protected"
     \/ phase' = "closing"
  /\ UNCHANGED << inputs, decision, ordered, confirmed, exchangeVars, price,
                  verdict >>

\* Orders are reduce-only: none rests without a position.
Reduce(n, legs) ==
  /\ position' = position - n
  /\ resting' = IF position' = 0 THEN NothingRests ELSE legs

\* Seeded fault: the order is not reduce-only.
EmergencyCloseOutright ==
  /\ phase = "closing"
  /\ Reduce(confirmed, resting)
  /\ phase' \in { "closed", "unknown" }
  /\ UNCHANGED << inputs, decision, ordered, confirmed, bought,
                  visible, price, verdict >>

\* emergency_close: an IOC of the confirmed size, of which any part may fill.
EmergencyClose ==
  /\ phase = "closing"
  /\ \/ /\ position > 0
        /\ \E n \in 1 .. Min({ confirmed, position }) : Reduce(n, resting)
        /\ phase' \in { "closed", "unknown" }
     \/ phase' = "unknown" /\ UNCHANGED << position, resting >>
  /\ UNCHANGED << inputs, decision, ordered, confirmed, bought, visible, price,
                  verdict >>

Worker ==
  \/ Admit \/ SubmitEntry \/ ConfirmFill \/ FillNotSeen \/ PlaceLegs
  \/ VerifyProtection \/ EmergencyClose

-----------------------------------------------------------------------------
(* The exchange and the market.                                            *)

ExecuteEntry ==
  /\ phase = "sent"
  /\ phase' = "querying"
  /\ bought' \in 0 .. ordered
  /\ position' = bought'
  /\ UNCHANGED << inputs, decision, ordered, confirmed, visible, resting,
                  price, verdict >>

ShowFills ==
  /\ visible < bought
  /\ visible' \in visible + 1 .. bought
  /\ UNCHANGED << workerVars, bought, resting, position, price, verdict >>

\* The market has reached the trigger of a leg.
Reached(k) ==
  IF k = 0 THEN ~Worse(intent.side, intent.stop, price)
  ELSE ~Worse(intent.side, price, Trigger(intent, k))

LegFires(k) ==
  /\ resting[k] > 0 /\ Reached(k)
  /\ Reduce(Min({ resting[k], position }), [resting EXCEPT ![k] = 0])
  /\ UNCHANGED << workerVars, bought, visible, price, verdict >>

AnyLegFires == \E k \in Legs(intent) : LegFires(k)

PriceMoves ==
  /\ price' \in Prices \ {price}
  /\ UNCHANGED << workerVars, exchangeVars, verdict >>

-----------------------------------------------------------------------------
\* The reader takes a snapshot.
ReaderPolls ==
  /\ verdict' = IF CoveredLots(intent, resting, price) >= position
                THEN "covered" ELSE "uncovered"
  /\ UNCHANGED << workerVars, exchangeVars, price >>

Next ==
  \/ Worker
  \/ ExecuteEntry \/ ShowFills \/ AnyLegFires \/ PriceMoves
  \/ ReaderPolls

Spec == Init /\ [][Next]_vars

\* The reader polls for ever; the exchange does not leave an order alone whose
\* trigger the market reaches again and again.
Fairness == WF_vars(ReaderPolls) /\ SF_vars(AnyLegFires)

FairSpec == Spec /\ Fairness

-----------------------------------------------------------------------------
\* An amount, in units of 1 / Distance, that every limit permits, one by one.
Permitted(i, l, amount) ==
  /\ i.slippage <= l.slippage
  /\ ~TooFar(i, l)
  /\ amount >= l.min * Distance(i)
  /\ amount <= i.notional * Distance(i) /\ amount <= l.max * Distance(i)
  /\ amount <= i.risk * i.reference /\ amount <= l.risk * i.reference

\* evaluate_admission approves the largest amount that every ceiling of the
\* intent and of the policy permits, and rejects only if there is none.
SizedToTheLimit ==
  LET limits == IF intent.account \in policy.accounts
                THEN LimitsFor(policy, intent.strategy) ELSE {}
  IN /\ decision.status = "approved" =>
          \E l \in limits : /\ Permitted(intent, l, decision.notional)
                            /\ ~Permitted(intent, l, decision.notional + 1)
     /\ decision.status = "rejected" =>
          \A l \in limits :
            \A amount \in l.min * Distance(intent) .. l.max * Distance(intent) :
              ~Permitted(intent, l, amount)

\* What was bought at the reference price loses no more, when the stop is hit,
\* than the risk cap and one lot, to which the SDK may round the order up, for
\* each limit that may have applied.  What slippage costs comes on top: no limit
\* accounts for it.
StopLossIsBounded ==
  bought > 0 =>
    \A l \in LimitsFor(policy, intent.strategy) :
      bought * Distance(intent) <= RiskCap(intent, l) + Distance(intent)

\* However the targets share a fill, together they never sell more than was
\* bought, unless there are so many that their shares overflow sixteen bits.
LegsShareTheFill ==
  PartsTotal(intent) < Words =>
    Total([k \in DOMAIN intent.targets |-> LegLots(intent, confirmed, k)],
          Len(intent.targets)) <= confirmed

\* Of what the worker saw of a trade it calls protected, all that is left open
\* is stopped.
StoppedUpToTheUnseen ==
  phase = "protected" => position <= resting[0] + (bought - confirmed)

\* Protection fits the fill it is for: a protected trade is uncovered by no
\* more than the fills the worker did not see, and the targets sell no more
\* than those it did see.  That is what the code keeps of the stop coverage the
\* documentation promises, of which ProtectedIsStopped is the whole.
ProtectedUpToTheUnseen == StoppedUpToTheUnseen /\ LegsShareTheFill

\* Whatever the worker believes, a position that stays larger than its stop is
\* reported by the reader in the end.  Until a target whose trigger the mid has
\* passed fires, it counts as a stop and can hide that.
UncoveredIsReported ==
  (position > resting[0]) ~> (verdict = "uncovered" \/ position <= resting[0])

-----------------------------------------------------------------------------
(* What the documentation says and the code does not do.                   *)

\* ROADMAP: "A protected position always has verified exchange-native stop
\* coverage for its open size."  The fills of the entry are looked at once,
\* and those that become visible later have no stop.
ProtectedIsStopped == phase = "protected" => position <= resting[0]

=============================================================================
