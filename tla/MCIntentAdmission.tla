------------------------- MODULE MCIntentAdmission --------------------------
(* Instances of IntentAdmission for TLC.                                   *)
EXTENDS IntentAdmission, TLC

CONSTANTS i1, i2, s1, k1, k2, first, resent, loose, strict, h1, h2

\* One signal composed twice, with different intent ids and expiries.
MCIdOf == first :> i1 @@ resent :> i2
MCSignalOf == first :> s1 @@ resent :> s1
MCExpiresAt == first :> 1 @@ resent :> 3

\* Sent again as it is, sent again under the key, or under another key.
MCRequests == { << first, k1 >>, << resent, k1 >>, << resent, k2 >> }

\* The strict policy approves less of one intent and rejects the other.
MCApproves == loose :> (first :> 2 @@ resent :> 2)
           @@ strict :> (first :> 0 @@ resent :> 1)

MCStarts == { << loose, FALSE >>, << strict, TRUE >> }

MCSymmetry == Permutations({h1, h2})

=============================================================================
