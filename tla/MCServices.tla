------------------------------ MODULE MCServices ------------------------------
(* Two parts that share no state, one at a time: the plan of a date, and the
   search for markets.  Two managers, one vendor business, and versions with
   few stalls; two markets, of which one has two dates, and two searches:
   across the antimeridian, and around a place for a word. *)
EXTENDS MCLayouts, Discovery

AMarket(words, zone, place) ==
  [status |-> "PUBLISHED", market_type |-> "POPUP", words |-> words, zone |-> zone, place |-> place]

MCListing ==
  {AMarket({"tea"}, 0, [lat |-> 0, lng |-> 176]),
   AMarket({}, 1, [lat |-> 1, lng |-> -176]),
   AMarket({"tea"}, 0, None)}

ADate(m, t, status) == [market |-> m, starts_at |-> t, ends_at |-> t + 1, status |-> status]

MCRow ==
  {ADate(m, t, "SCHEDULED") : m \in Market, t \in {0, 1}}
    \cup {ADate(m, 0, "CANCELED") : m \in Market}

NoFilters ==
  [q |-> None, market_type |-> None, date_from |-> None, date_to |-> None,
   bbox |-> None, near |-> None]

MCFilters ==
  {[NoFilters EXCEPT !.bbox = [south |-> -10, north |-> 10, west |-> 170, east |-> -170],
                     !.date_to = 1],
   [NoFilters EXCEPT !.near = [lat |-> 0, lng |-> 175, radius_km |-> 10], !.q = "tea"]}

MCLocalDate(zone, t) == t + zone

(* One kilometer is a degree, and the way goes along the two axes. *)
MCDistance(near, p) ==
  LET north == IF p.lat > near.lat THEN p.lat - near.lat ELSE near.lat - p.lat
      east == IF p.lng > near.lng THEN p.lng - near.lng ELSE near.lng - p.lng
  IN  north + (IF east <= 180 THEN east ELSE 360 - east)

MCDegrees(near) == near.radius_km

VARIABLE part

servicesVars == <<part, vars, discoveryVars>>

(* While the other part runs, the search is one of many. *)
ServicesInit ==
  /\ part \in {"plans", "search"}
  /\ Init /\ DiscoveryInit
  /\ \A o \in Occurrence : calendar[o].market = IF o = 3 THEN 2 ELSE o
  /\ part = "plans" =>
       /\ query.q # None
       /\ \A m \in Market : listing[m].place = None
       /\ \A o \in Occurrence : calendar[o].starts_at = 0 /\ calendar[o].status = "SCHEDULED"

ServicesNext ==
  /\ UNCHANGED part
  /\ \/ part = "plans" /\ Next /\ UNCHANGED discoveryVars
     \/ part = "search" /\ DiscoveryNext /\ UNCHANGED vars

ServicesSpec == ServicesInit /\ [][ServicesNext]_servicesVars
=============================================================================
