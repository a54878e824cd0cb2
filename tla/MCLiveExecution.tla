-------------------------- MODULE MCLiveExecution --------------------------
(* Instances of LiveExecution for TLC.                                     *)
EXTENDS LiveExecution, TLC

CONSTANTS i1, i2, BTC, ETH

\* Every intent competes for the one symbol.
OneSymbol == [i \in Intents |-> BTC]

\* Every intent has a symbol of its own.
OwnSymbol == [i \in Intents |-> IF i = i1 THEN BTC ELSE ETH]

IntentSymmetry == Permutations(Intents)

=============================================================================
