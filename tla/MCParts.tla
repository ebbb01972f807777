------------------------------- MODULE MCParts --------------------------------
(* Five parts that share no state, one at a time: a run chooses a part and
   the others stay as they began.  Two sales and three payments; a founder,
   two others and two invitations, of an organization and of a vendor
   business; two requests, a vendor and two bookings for one unit; two
   workers and two events.  The parts share their model values, so that
   exchanging two is a symmetry of whichever runs. *)
EXTENDS StallSale, Memberships, VendorTeam, LegacyBookings, StripeEvents, TLC

CONSTANTS
  x1, x2,      \* sales, invitations, legacy requests, workers
  y1, y2,      \* users, legacy bookings, events
  p1, p2, p3,  \* payments, a profile
  founder, v1

Xs == {x1, x2}
Ys == {y1, y2}
MCPayment == {p1, p2, p3}
MCUser == {founder} \cup Ys
MCVendor == {v1}
MCProfile == {p1}

Symmetric == Permutations(Xs) \cup Permutations(Ys)

VARIABLE part

partsVars == <<part, saleVars, vars, businessVars, legacyVars, eventVars>>

(* A team may begin in several ways; while another part runs, in one. *)
PartsInit ==
  /\ part \in {"sale", "team", "business", "legacy", "events"}
  /\ Init /\ TeamInit /\ create_business /\ LegacyInit /\ EventInit
  /\ part # "team" => kind = "organization" /\ active = User
  /\ part # "business" => enabled = Person /\ confirmed = Person

PartsNext ==
  /\ UNCHANGED part
  /\ \/ /\ part = "sale" /\ Next
        /\ UNCHANGED <<vars, businessVars, legacyVars, eventVars>>
     \/ /\ part = "team" /\ TeamNext
        /\ UNCHANGED <<saleVars, businessVars, legacyVars, eventVars>>
     \/ /\ part = "business" /\ BusinessNext
        /\ UNCHANGED <<saleVars, vars, legacyVars, eventVars>>
     \/ /\ part = "legacy" /\ LegacyNext
        /\ UNCHANGED <<saleVars, vars, businessVars, eventVars>>
     \/ /\ part = "events" /\ EventNext
        /\ UNCHANGED <<saleVars, vars, businessVars, legacyVars>>

PartsSpec == PartsInit /\ [][PartsNext]_partsVars
=============================================================================
