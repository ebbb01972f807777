----------------------------- MODULE Discovery ------------------------------
(***************************************************************************)
(* The server's side of the market search (backend/markets/discovery.py):  *)
(* which markets a search finds, in which order, its pages, and the map.   *)
(*                                                                         *)
(* A visitor searches, follows next_cursor and asks for the map, while     *)
(* organizers change markets and dates.  A page takes two queries, first   *)
(* the markets and then their next dates; each sees what is committed.     *)
(*                                                                         *)
(* Coordinates are whole degrees, with what a radius spans and distances   *)
(* given as constants; texts are the words they contain.                   *)
(***************************************************************************)
EXTENDS Integers, FiniteSets, Sequences

CONSTANTS
  Market,           \* ids of markets
  Occurrence,       \* ids of dates
  Listing,          \* what the row of a market may say
  Row,              \* what the row of a date may say
  Filters,          \* what visitors search for
  None,             \* an absent filter, place, page or cursor
  LocalDate(_, _),  \* the calendar date of an instant in a time zone
  Distance(_, _),   \* from the center of a search to a place
  Dlat(_),          \* how many degrees the radius of a search spans north
  Dlng(_),          \* and how many east
  LIST_DEFAULT_LIMIT, LIST_MAX_LIMIT,
  MAP_MAX_MARKERS,
  Limits,           \* the limits that clients ask for
  LastMoment        \* the last instant a run looks at

\* The meridian of 180 degrees has two longitudes and the code compares
\* numbers; no market is taken to lie exactly there.
Location == [lat : -90..90, lng : -179..179]

\* Ids are numbers; only finitely many rows exist.
DiscoveryIds ==
  /\ Market \subseteq Nat /\ IsFiniteSet(Market)
  /\ Limits \subseteq Int
  /\ {LIST_DEFAULT_LIMIT, LIST_MAX_LIMIT, MAP_MAX_MARKERS} \subseteq Nat \ {0}
  /\ LastMoment \in Nat

\* The table's check constraints; the zone and the market of a row aside.
DiscoveryRows ==
  /\ \A l \in Listing : l.place \in Location \cup {None}
  /\ \A d \in Row : d.market \in Market /\ d.starts_at \in Int /\ d.ends_at \in Int
  /\ None \notin Location \cup Nat

\* build_filters has refused every other box and circle.
DiscoveryFilters ==
  \A f \in Filters :
    /\ f.bbox # None => /\ {f.bbox.south, f.bbox.north} \subseteq -90..90
                        /\ {f.bbox.west, f.bbox.east} \subseteq -180..180
                        /\ f.bbox.south <= f.bbox.north
    /\ f.near # None => /\ f.near.lat \in -90..90 /\ f.near.lng \in -180..180
                        /\ f.near.radius_km \in Nat \ {0}
                        /\ Dlat(f.near) \in Nat /\ Dlng(f.near) \in Nat
                        /\ \A p \in Location : Distance(f.near, p) \in Nat

\* near_prefilter_q computes Dlng for this: a circle that reaches no pole lies
\* within as many degrees of its center's meridian, on either side.
CirclesAreNarrow ==
  \A f \in Filters : f.near # None =>
    \A p \in Location :
      /\ -90 < f.near.lat - Dlat(f.near) /\ f.near.lat + Dlat(f.near) < 90
      /\ Distance(f.near, p) <= f.near.radius_km
      => \E turn \in {-360, 0, 360} : -Dlng(f.near) <= p.lng + turn - f.near.lng
                                   /\ p.lng + turn - f.near.lng <= Dlng(f.near)

ASSUME DiscoveryAssumption ==
  DiscoveryIds /\ DiscoveryRows /\ DiscoveryFilters /\ CirclesAreNarrow

VARIABLES
  listing,    \* the markets
  calendar,   \* their dates
  moment,     \* the time the requests read
  query,      \* what the visitor searches for
  cursor,     \* the next page's offset; None at the end
  shown,      \* the markets of the pages so far, in order
  page,       \* what the first query of the request under way found
  marks,      \* the map's answer
  changed     \* whether a row changed or a date ended since the first page

discoveryVars == <<listing, calendar, moment, query, cursor, shown, page, marks, changed>>

rowVars == <<listing, calendar, moment>>

-----------------------------------------------------------------------------
(* The area of a search *)

wrap(x) == ((x + 180) % 360) - 180

\* Mutant: a box never crosses the antimeridian.
longitude_q_Flat(west, east, x) == west <= x /\ x <= east

longitude_q(west, east, x) ==
  IF west <= east THEN west <= x /\ x <= east ELSE west <= x \/ x <= east

bbox_q(box, p) ==
  box.south <= p.lat /\ p.lat <= box.north /\ longitude_q(box.west, box.east, p.lng)

near_prefilter_q(near, p) ==
  LET south == near.lat - Dlat(near)
      north == near.lat + Dlat(near)
      west  == near.lng - Dlng(near)
      east  == near.lng + Dlng(near)
  IN  /\ south <= p.lat /\ p.lat <= north
      /\ \/ south <= -90 \/ north >= 90 \/ Dlng(near) >= 180
         \/ longitude_q(IF west < -180 THEN wrap(west) ELSE west,
                        IF east > 180 THEN wrap(east) ELSE east, p.lng)

-----------------------------------------------------------------------------
(* What a search finds, and in which order *)

matching_occurrences(f, t) ==
  {o \in Occurrence :
     LET d == calendar[o]
         local_date == LocalDate(listing[d.market].zone, d.starts_at)
     IN  /\ d.status = "SCHEDULED" /\ d.ends_at > t
         /\ f.date_from # None => local_date >= f.date_from
         /\ f.date_to # None => local_date <= f.date_to}

Dates(f, t, m) == {o \in matching_occurrences(f, t) : calendar[o].market = m}

eligible_markets(f, t) ==
  {m \in Market :
     LET l == listing[m]
     IN  /\ l.status = "PUBLISHED"
         /\ Dates(f, t, m) # {}
         /\ f.q # None => f.q \in l.words
         /\ f.market_type # None => f.market_type = l.market_type
         /\ f.bbox # None => l.place # None /\ bbox_q(f.bbox, l.place)
         /\ f.near # None => /\ l.place # None
                             /\ near_prefilter_q(f.near, l.place)
                             /\ Distance(f.near, l.place) <= f.near.radius_km}

\* The first of k's dates starts before every one of m's.
StartsEarlier(f, t, k, m) ==
  \E o \in Dates(f, t, k) : \A p \in Dates(f, t, m) : calendar[o].starts_at < calendar[p].starts_at

distance_km(f, m) == IF f.near = None THEN 0 ELSE Distance(f.near, listing[m].place)

\* Mutant: two markets that are equally near and start at once are in no order.
Precedes_NoId(f, t, k, m) ==
  \/ distance_km(f, k) < distance_km(f, m)
  \/ distance_km(f, k) = distance_km(f, m) /\ StartsEarlier(f, t, k, m)

Precedes(f, t, k, m) ==
  \/ distance_km(f, k) < distance_km(f, m)
  \/ /\ distance_km(f, k) = distance_km(f, m)
     /\ \/ StartsEarlier(f, t, k, m)
        \/ ~StartsEarlier(f, t, m, k) /\ k < m

\* Every list of these markets that the database may return: each once, and
\* in order.
Sorted(found, f, t) ==
  {s \in [1..Cardinality(found) -> found] :
     /\ \A m \in found : \E i \in DOMAIN s : s[i] = m
     /\ \A i, j \in DOMAIN s : i < j => s[i] # s[j] /\ ~Precedes(f, t, s[j], s[i])}

-----------------------------------------------------------------------------
(* The visitor *)

DiscoveryInit ==
  /\ listing \in [Market -> Listing]
  /\ calendar \in [Occurrence -> Row]
  /\ moment = 0
  /\ query \in Filters
  /\ cursor = 0
  /\ shown = <<>>
  /\ page = None
  /\ marks = None
  /\ changed = FALSE

page_limit(limit) ==
  LET n == IF limit = 0 THEN LIST_DEFAULT_LIMIT ELSE limit
  IN  IF n < 1 THEN 1 ELSE IF n > LIST_MAX_LIMIT THEN LIST_MAX_LIMIT ELSE n

\* Another search, or the same one again.
Search(f) ==
  /\ page = None
  /\ query' = f
  /\ cursor' = 0
  /\ shown' = <<>>
  /\ marks' = None
  /\ changed' = FALSE
  /\ UNCHANGED <<rowVars, page>>

\* search_page up to the second query.
search_page(limit) ==
  /\ page = None
  /\ cursor # None
  /\ \E s \in Sorted(eligible_markets(query, moment), query, moment) :
       LET last == cursor + page_limit(limit)
           has_more == Len(s) > last
       IN  page' = [markets |-> SubSeq(s, cursor + 1, IF has_more THEN last ELSE Len(s)),
                    next |-> IF has_more THEN last ELSE None, now |-> moment]
  /\ UNCHANGED <<rowVars, query, cursor, shown, marks, changed>>

\* preview_occurrences and the answer, which needs a date of every market.
discover_markets ==
  /\ page # None
  /\ \A i \in DOMAIN page.markets : Dates(query, page.now, page.markets[i]) # {}
  /\ shown' = shown \o page.markets
  /\ cursor' = page.next
  /\ page' = None
  /\ UNCHANGED <<rowVars, query, marks, changed>>

\* The last date of a market found was cancelled or moved meanwhile: the
\* request fails, and the visitor may ask for this page again.
PageFails ==
  /\ page # None
  /\ \E i \in DOMAIN page.markets : Dates(query, page.now, page.markets[i]) = {}
  /\ page' = None
  /\ UNCHANGED <<rowVars, query, cursor, shown, marks, changed>>

Placed(f, t) == {m \in eligible_markets(f, t) : listing[m].place # None}

\* discover_map: the first markets that have a place.  Their next dates, which
\* the api reads afterwards by their ids, are never deleted: it finds them.
map_markers ==
  /\ query.bbox # None \/ query.near # None
  /\ marks = None
  /\ \E s \in Sorted(Placed(query, moment), query, moment) :
       LET truncated == Len(s) > MAP_MAX_MARKERS
       IN  marks' = [items |-> SubSeq(s, 1, IF truncated THEN MAP_MAX_MARKERS ELSE Len(s)),
                     total |-> IF truncated THEN None ELSE Len(s),
                     truncated |-> truncated, now |-> moment]
  /\ UNCHANGED <<rowVars, query, cursor, shown, page, changed>>

\* If there were more, a second query counts them.
count_markers ==
  /\ marks # None
  /\ marks.total = None
  /\ marks' = [marks EXCEPT !.total = Cardinality(Placed(query, marks.now))]
  /\ UNCHANGED <<rowVars, query, cursor, shown, page, changed>>

-----------------------------------------------------------------------------
(* Organizers and time *)

\* Any operation of markets/services.py on the row of a market.
ChangeMarket(m, l) ==
  /\ listing[m] # l
  /\ listing' = [listing EXCEPT ![m] = l]
  /\ changed' = TRUE
  /\ UNCHANGED <<calendar, moment, query, cursor, shown, page, marks>>

\* A date is made (a cancelled row stands for none), moved or cancelled.
ChangeDate(o, d) ==
  /\ calendar[o] # d
  /\ calendar[o].market = d.market
  /\ calendar' = [calendar EXCEPT ![o] = d]
  /\ changed' = TRUE
  /\ UNCHANGED <<listing, moment, query, cursor, shown, page, marks>>

MomentPasses ==
  /\ moment < LastMoment
  /\ moment' = moment + 1
  /\ changed' = (changed \/ \E o \in Occurrence : /\ calendar[o].status = "SCHEDULED"
                                                  /\ calendar[o].ends_at = moment')
  /\ UNCHANGED <<listing, calendar, query, cursor, shown, page, marks>>

DiscoveryNext ==
  \/ \E f \in Filters : Search(f)
  \/ \E limit \in Limits : search_page(limit)
  \/ discover_markets
  \/ PageFails
  \/ map_markers
  \/ count_markers
  \/ \E m \in Market, l \in Listing : ChangeMarket(m, l)
  \/ \E o \in Occurrence, d \in Row : ChangeDate(o, d)
  \/ MomentPasses

DiscoverySpec == DiscoveryInit /\ [][DiscoveryNext]_discoveryVars

-----------------------------------------------------------------------------
(* Properties *)

\* Going east from the box's western edge one comes to the place before its
\* eastern edge.
InBox(box, p) ==
  LET span == IF box.west <= box.east THEN box.east - box.west ELSE box.east - box.west + 360
  IN  box.south <= p.lat /\ p.lat <= box.north /\ (p.lng - box.west) % 360 <= span

\* As near as was asked, and no further north or south than the prefilter
\* takes the radius to reach.
InCircle(near, p) ==
  /\ Distance(near, p) <= near.radius_km
  /\ -Dlat(near) <= p.lat - near.lat /\ p.lat - near.lat <= Dlat(near)

\* What the module's docstring promises to find.
Wanted(m) ==
  /\ listing[m].status = "PUBLISHED"
  /\ \E o \in Occurrence : calendar[o].market = m /\ o \in matching_occurrences(query, moment)
  /\ query.q # None => query.q \in listing[m].words
  /\ query.market_type # None => query.market_type = listing[m].market_type
  /\ query.bbox # None => listing[m].place # None /\ InBox(query.bbox, listing[m].place)
  /\ query.near # None => listing[m].place # None /\ InCircle(query.near, listing[m].place)

\* As long as no market or date changes, whoever follows the cursors to the end
\* sees every market the search is about, also across the antimeridian, each
\* once and in order, whatever the limits; and no page fails.
PagesAreWhole ==
  ~changed =>
    /\ cursor = None => \A m \in Market : (\E i \in DOMAIN shown : shown[i] = m) <=> Wanted(m)
    /\ \A i, j \in DOMAIN shown : i < j =>
         shown[i] # shown[j] /\ ~Precedes(query, moment, shown[j], shown[i])
    /\ page # None => \A i \in DOMAIN page.markets : Dates(query, page.now, page.markets[i]) # {}

\* "One query path shared by list and map results": as long as nothing changes,
\* the map shows the first markets of the list and counts them all.
MapShowsTheList ==
  ~changed /\ cursor = None /\ marks # None =>
    /\ marks.truncated <=> Len(shown) > MAP_MAX_MARKERS
    /\ marks.items = SubSeq(shown, 1, Len(marks.items))
    /\ Len(marks.items) = IF marks.truncated THEN MAP_MAX_MARKERS ELSE Len(shown)
    /\ marks.total \in {None, Len(shown)}
=============================================================================
