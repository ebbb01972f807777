------------------------------- MODULE MCStalls -------------------------------
(* Two parts that share no state, one at a time: the reservations of a date (two
   businesses, two stalls, one paid price, two requests each) and taking part in
   it (two requests at a time, one account of the business, two question lists).
   The second part's requests, question lists and restrictions are named like
   the first one's businesses, request keys and stalls, so that one symmetry
   serves both. *)
EXTENDS Reservations, Participation

CONSTANTS b1, b2, k1, k2, o1, o2

MCBusiness == {b1, b2}
MCRequestKey == {k1, k2}
MCOffer == {o1, o2}
MCPrice == {1}

Entering == {"submit", "approve", "acquire_hold"}
MCMix == {Entering \cup {"archive_market", "create_restriction"},
          {"submit", "create_restriction", "revoke_restriction"},
          Entering \cup {"configure_intake", "update_occurrence", "cancel_occurrence",
                         "withdraw", "reject"}}

MCWindow == {<<0, 1>>}

Symmetric == Permutations(MCBusiness) \cup Permutations(MCRequestKey) \cup Permutations(MCOffer)

VARIABLE part

stallsVars == <<part, holdVars, vars>>

(* While the reservations run, taking part has one of its beginnings. *)
StallsInit ==
  /\ part \in {"holds", "participation"}
  /\ HoldInit /\ Init
  /\ part = "holds" => "archive_market" \in asked_for /\ intake.version = 0

StallsNext ==
  /\ UNCHANGED part
  /\ \/ part = "holds" /\ HoldNext /\ UNCHANGED vars
     \/ part = "participation" /\ Next /\ UNCHANGED holdVars

StallsSpec == StallsInit /\ [][StallsNext]_stallsVars
=============================================================================
