------------------------- MODULE ExecutionContract -------------------------
(***************************************************************************)
(* What the live path promises about one account, without saying how:      *)
(* a confirmed intent is queued, takes its symbol for itself, sends at     *)
(* most one entry, and ends protected, released or locked.  An outcome     *)
(* nobody can prove locks the intent for good and halts the account, and   *)
(* only an operator lifts the halt.  LiveExecution implements it.          *)
(***************************************************************************)
CONSTANTS Intents, Symbols, SymbolOf

VARIABLES
  phase,      \* what has become of each intent
  entries,    \* how many entry orders were sent for each intent
  halted,     \* the account is close_only
  switch      \* the kill switch

vars == << phase, entries, halted, switch >>

Phases == { "none", "queued", "working", "protected", "released", "locked" }

\* The phases in which an intent has its symbol for itself.
Owning == { "working", "protected", "locked" }

ContractInit ==
  /\ phase = [i \in Intents |-> "none"]
  /\ entries = [i \in Intents |-> 0]
  /\ halted = FALSE
  /\ switch = FALSE

Become(i, p) == phase' = [phase EXCEPT ![i] = p]

\* Nothing is queued under the kill switch.
Queue(i) ==
  /\ phase[i] = "none" /\ ~switch
  /\ Become(i, "queued")
  /\ UNCHANGED << entries, halted, switch >>

Take(i) ==
  /\ phase[i] = "queued"
  /\ \A j \in Intents \ {i} :
       SymbolOf[j] = SymbolOf[i] => phase[j] \notin Owning
  /\ Become(i, "working")
  /\ UNCHANGED << entries, halted, switch >>

\* The one entry order of an intent.
Enter(i) ==
  /\ phase[i] = "working" /\ entries[i] = 0
  /\ entries' = [entries EXCEPT ![i] = 1]
  /\ UNCHANGED << phase, halted, switch >>

Protect(i) ==
  /\ phase[i] = "working" /\ entries[i] = 1
  /\ Become(i, "protected")
  /\ UNCHANGED << entries, halted, switch >>

\* The intent ends without a position to watch; a halt may come with it.
Release(i) ==
  /\ phase[i] = "working"
  /\ Become(i, "released")
  /\ halted' \in { halted, TRUE }
  /\ UNCHANGED << entries, switch >>

Lock(i) ==
  /\ phase[i] = "working"
  /\ Become(i, "locked")
  /\ halted' = TRUE
  /\ UNCHANGED << entries, switch >>

Halt ==
  /\ halted' = TRUE
  /\ UNCHANGED << phase, entries, switch >>

Lift ==
  /\ halted' = FALSE
  /\ UNCHANGED << phase, entries, switch >>

Flip ==
  /\ switch' = ~switch
  /\ UNCHANGED << phase, entries, halted >>

ContractNext ==
  \/ \E i \in Intents :
       Queue(i) \/ Take(i) \/ Enter(i) \/ Protect(i) \/ Release(i) \/ Lock(i)
  \/ Halt \/ Lift \/ Flip

ContractSpec == ContractInit /\ [][ContractNext]_vars

=============================================================================
