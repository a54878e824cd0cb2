----------------------------- MODULE OrderSizing -----------------------------
(***************************************************************************)
(* The arithmetic of one trade: what an intent must look like, the size    *)
(* the risk policy allows it, the size of each leg of its protection, and  *)
(* the orders the mainnet reader counts as the stop of a position.         *)
(*                                                                         *)
(* Sizes are whole lots of the exchange, prices whole ticks, and an amount *)
(* of money is lots times ticks.  A quotient stays a fraction: Decimal     *)
(* carries twenty-eight digits.                                            *)
(***************************************************************************)
EXTENDS Integers, Sequences, FiniteSetsExt

Away(a, b) == IF a > b THEN a - b ELSE b - a

\* f[1] + ... + f[n].
Total(f, n) ==
  LET sum[k \in 0 .. n] == IF k = 0 THEN 0 ELSE sum[k - 1] + f[k]
  IN sum[n]

\* The values sixteen bits have.
Words == 65536

\* What Rust's types say of an intent and of a limit of a policy: a share is a
\* u8, basis points are unsigned, and a Decimal may be any number.
Target == [price : Int, pct : 0 .. 255]

Typed(i) ==
  /\ i.side \in { "long", "short" }
  /\ {i.notional, i.reference, i.risk, i.stop} \subseteq Int
  /\ i.slippage \in Nat
  /\ i.targets \in Seq(Target)

LimitsTyped(l) ==
  /\ {l.min, l.max, l.risk} \subseteq Int
  /\ {l.slippage, l.distance} \subseteq Nat

-----------------------------------------------------------------------------
\* TradeIntent::validate, for amounts, prices and targets; shares are summed
\* in sixteen bits.  Names and the validity window are checked there too;
\* IntentAdmission has the window.
PartsTotal(i) ==
  Total([k \in DOMAIN i.targets |-> i.targets[k].pct], Len(i.targets))

TargetsValid(i) ==
  /\ i.targets # << >>
  /\ \A k \in DOMAIN i.targets : i.targets[k].price > 0
  /\ PartsTotal(i) % Words = 100

\* Is price a on the losing side of price b?
Worse(side, a, b) == IF side = "long" THEN a < b ELSE a > b

ExitDirectionValid(i) ==
  /\ Worse(i.side, i.stop, i.reference)
  /\ \A k \in DOMAIN i.targets : Worse(i.side, i.reference, i.targets[k].price)

Valid(i) ==
  /\ i.notional > 0 /\ i.reference > 0
  /\ i.risk > 0 /\ i.risk <= i.notional
  /\ i.slippage \in 1 .. 500
  /\ i.stop > 0
  /\ TargetsValid(i)
  /\ ExitDirectionValid(i)

\* validate_limits, RiskPolicy::validate.
LimitsValid(l) ==
  /\ l.min > 0 /\ l.max >= l.min /\ l.risk > 0
  /\ l.slippage > 0 /\ l.distance > 0

PolicyValid(policy) ==
  /\ policy.accounts # {}
  /\ LimitsValid(policy.default)
  /\ \A s \in DOMAIN policy.strategies : LimitsValid(policy.strategies[s])

-----------------------------------------------------------------------------
(* RiskEngine::evaluate_admission.                                         *)

\* limits_for: none or one.
LimitsFor(policy, strategy) ==
  IF strategy \in DOMAIN policy.strategies THEN { policy.strategies[strategy] }
  ELSE IF policy.open THEN { policy.default } ELSE {}

Distance(i) == Away(i.reference, i.stop)

\* Distances are compared in basis points of the reference price.
TooFar(i, l) == Distance(i) * 10000 > l.distance * i.reference

\* Seeded fault: the ceiling of the policy replaces that of the intent.
RiskCapOfPolicy(i, l) == l.risk

RiskCap(i, l) == Min({ i.risk, l.risk })

\* Seeded fault: the risk cap is left out.
ApprovedByNotional(i, l) ==
  Min({ i.notional * Distance(i), l.max * Distance(i) })

\* The approved notional, in units of 1 / Distance(i): the ceilings, and the
\* risk cap divided by the fraction of the price the stop is away.
Approved(i, l) ==
  Min({ i.notional * Distance(i), l.max * Distance(i),
        RiskCap(i, l) * i.reference })

Rejected(reason) == [status |-> "rejected", reason |-> reason, notional |-> 0]

Decide(policy, i) ==
  IF i.account \notin policy.accounts THEN Rejected("account_not_allowed")
  ELSE IF LimitsFor(policy, i.strategy) = {}
  THEN Rejected("strategy_not_registered")
  ELSE LET l == CHOOSE l \in LimitsFor(policy, i.strategy) : TRUE
       IN CASE i.slippage > l.slippage -> Rejected("slippage_limit_exceeded")
            [] i.slippage <= l.slippage /\ TooFar(i, l) ->
                 Rejected("stop_distance_exceeded")
            [] i.slippage <= l.slippage /\ ~TooFar(i, l) ->
                 IF Approved(i, l) < l.min * Distance(i)
                 THEN Rejected("below_minimum_notional")
                 ELSE [status |-> "approved", reason |-> "none",
                       notional |-> Approved(i, l)]

-----------------------------------------------------------------------------
(* The sizes the gateway orders.                                           *)

\* market_open: notional over reference price; the SDK rounds it to whole lots,
\* one way or the other.
EntryLots(i, notional) ==
  LET exact == Distance(i) * i.reference
  IN { notional \div exact, (notional + exact - 1) \div exact }

\* Leg 0 is the stop, leg k the k-th target.
Legs(i) == 0 .. Len(i.targets)

Trigger(i, k) == IF k = 0 THEN i.stop ELSE i.targets[k].price

\* Seeded fault: a target is rounded to the nearest lot.
LegLotsNearest(i, fill, k) ==
  IF k = 0 THEN fill ELSE (fill * i.targets[k].pct + 50) \div 100

\* establish_protection and round_size: toward zero.
LegLots(i, fill, k) ==
  IF k = 0 THEN fill ELSE (fill * i.targets[k].pct) \div 100

-----------------------------------------------------------------------------
(* The reader's evaluate_protection_coverage for the position of one trade. *)

\* Seeded fault: every reduce-only trigger order of the position counts.
IsStopAnywhere(side, trigger, mid) == TRUE

\* is_stop_for_position: the trigger is on the stop side of the mid.
IsStop(side, trigger, mid) == Worse(side, trigger, mid)

CoveredLots(i, resting, mid) ==
  LET stops == { k \in Legs(i) : IsStop(i.side, Trigger(i, k), mid) }
  IN MapThenSumSet(LAMBDA k : resting[k], stops)

=============================================================================
