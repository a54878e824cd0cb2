-------------------------- MODULE MCProtectedEntry --------------------------
(* Instances of ProtectedEntry for TLC.                                    *)
EXTENDS ProtectedEntry

Closed ==
  [accounts |-> {"main"}, open |-> FALSE,
   default |-> [min |-> 100, max |-> 450, risk |-> 30, slippage |-> 200,
                distance |-> 1500],
   strategies |-> [s \in {"rules", "wide"} |->
     IF s = "rules"
     THEN [min |-> 150, max |-> 320, risk |-> 30, slippage |-> 200,
           distance |-> 1000]
     ELSE [min |-> 100, max |-> 450, risk |-> 60, slippage |-> 100,
           distance |-> 1500]]]

Open ==
  [accounts |-> {"main"}, open |-> TRUE,
   default |-> [min |-> 100, max |-> 210, risk |-> 25, slippage |-> 200,
                distance |-> 1000],
   strategies |-> << >>]

MCPolicies == { Closed, Open }

Shares == { << 100 >>, << 50, 50 >>, << 70, 20 >> }

Exits(side) ==
  IF side = "long" THEN << 105, 110 >> ELSE << 95, 90 >>

Trade(side, account, strategy, notional, risk, slippage, away, shares) ==
  [side |-> side, account |-> account, strategy |-> strategy,
   reference |-> 100, notional |-> notional, risk |-> risk,
   slippage |-> slippage,
   stop |-> IF side = "long" THEN 100 - away ELSE 100 + away,
   targets |-> [k \in DOMAIN shares |->
                  [price |-> Exits(side)[k], pct |-> shares[k]]]]

\* Every combination of amounts and exits for one registered strategy, and one
\* intent for each other way to be refused.
MCSubmitted ==
  { Trade(side, "main", "rules", notional, risk, 200, away, shares) :
      side \in { "long", "short" }, notional \in { 120, 400 },
      risk \in { 15, 50 }, away \in { 5, 10 }, shares \in Shares }
  \cup { Trade("long", "main", "wide", 520, 60, slippage, 15, << 50, 50 >>) :
           slippage \in { 100, 200 } }
  \cup { Trade("long", "main", "rules", 310, 50, 200, 12, << 100 >>),
         Trade("long", "other", "rules", 310, 50, 200, 10, << 100 >>),
         Trade("long", "main", "guest", 310, 50, 200, 10, << 100 >>),
         Trade("long", "main", "rules", 310, 320, 200, 10, << 100 >>),
         Trade("long", "main", "rules", 310, 50, 501, 10, << 100 >>),
         Trade("long", "main", "rules", 310, 50, 200, -5, << 100 >>) }

MCPrices == { 84, 93, 100, 107, 116 }
=============================================================================
