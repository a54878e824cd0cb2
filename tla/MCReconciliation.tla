-------------------------- MODULE MCReconciliation --------------------------
(* Instances of Reconciliation for TLC.                                    *)
EXTENDS Reconciliation

CONSTANTS stopOrder, otherOrder, BTC

\* One order protects the position, the other does not.
OneStop == [o \in Oids |-> IF o = stopOrder THEN BTC ELSE NoCoin]

=============================================================================
