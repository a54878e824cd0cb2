-------------------------- MODULE AdmissionContract -------------------------
(***************************************************************************)
(* What the intake promises about a signal, however often, under however   *)
(* many keys and intent ids and across however many restarts it is sent:   *)
(* it is decided once, on terms that never change afterwards; nothing is   *)
(* proposed or accepted while the kill switch is on; and what was only     *)
(* simulated is never entered.                                             *)
(***************************************************************************)
EXTENDS Naturals

CONSTANTS
  Signals,
  Grants     \* notionals the risk policies grant; 0 is none

VARIABLES
  fate,      \* what became of each signal
  grant,     \* the notional it was admitted with
  halted     \* the kill switch

contractVars == << fate, grant, halted >>

Fates == { "unseen", "proposed", "refused", "simulated", "accepted",
           "entered" }

ContractInit ==
  /\ fate = [s \in Signals |-> "unseen"]
  /\ grant = [s \in Signals |-> 0]
  /\ halted \in BOOLEAN

Becomes(s, f, n) ==
  /\ fate' = [fate EXCEPT ![s] = f]
  /\ grant' = [grant EXCEPT ![s] = n]
  /\ UNCHANGED halted

\* A signal is seen for the first time, and proposed to the operator on terms
\* of its own or refused; a refused signal keeps the terms it was refused on.
Decide(s) ==
  /\ fate[s] = "unseen"
  /\ \/ \E n \in Grants : Becomes(s, "refused", n)
     \/ ~halted /\ \E n \in Grants \ {0} : Becomes(s, "proposed", n)

\* The operator, the clock, the switch or a later policy settles it.
Settle(s) ==
  /\ fate[s] = "proposed"
  /\ \/ Becomes(s, "refused", grant[s])
     \/ ~halted /\ \E f \in { "simulated", "accepted" } :
                      Becomes(s, f, grant[s])

Enter(s) ==
  /\ fate[s] = "accepted"
  /\ Becomes(s, "entered", grant[s])

Switch == halted' = ~halted /\ UNCHANGED << fate, grant >>

ContractNext == Switch \/ \E s \in Signals : Decide(s) \/ Settle(s) \/ Enter(s)

ContractSpec == ContractInit /\ [][ContractNext]_contractVars

=============================================================================
