----------------------------- MODULE MCCheckout -----------------------------
(* One stall and small sets of businesses, attempts and workers. *)
EXTENDS Checkout, TLC

CONSTANTS b1, b2, k1, k2, o1, a1, a2, w1, w2

OneBusiness == {b1}
TwoBusinesses == {b1, b2}
OneKey == {k1}
OneOffer == {o1}
OneAttempt == {a1}
TwoAttempts == {a1, a2}
OneWorker == {w1}
TwoWorkers == {w1, w2}
Paid == {1}
PaidOrFree == {0, 1}

Symmetric == Permutations(Business) \cup Permutations(Attempt) \cup Permutations(Worker)
=============================================================================
