--------------------------- MODULE MCMemberships ---------------------------
(* A founder and two others, two invitation rows. *)
EXTENDS Memberships, TLC

CONSTANTS founder, u1, u2, i1, i2

MCUser == {founder, u1, u2}
MCInvitation == {i1, i2}

Symmetric == Permutations({u1, u2}) \cup Permutations(MCInvitation)
=============================================================================
