---------------------------- MODULE ScreensProofs -----------------------------
(***************************************************************************)
(* Two web pages and what is behind them, for any texts and areas, any     *)
(* plans, markets and requests: the search page keeps the newest results,  *)
(* the plan editor and the server agree on which plans are sound, and the  *)
(* pages and the map of a search show one list, whole and in order.        *)
(***************************************************************************)
EXTENDS SearchScreen, PlanEditor, Discovery, FiniteSetTheorems, SequenceTheorems, TLAPS

-----------------------------------------------------------------------------
(* The search page *)

\* Once the effects have run, what they started is what the page is drawn
\* with; and what is under way was asked for by what they started last: an
\* effect that runs again aborts what it asked before.
OnlyTheNewestIsAsked ==
  /\ ~drawn => started = [list |-> ListKey, map |-> MapKey]
  /\ \A c \in calls :
       /\ c.kind \in {"list", "more", "map"}
       /\ c.key = IF c.kind = "map" THEN started.map ELSE started.list

ResultsHaveKeys == list # NoResults => "key" \in DOMAIN list

SearchInv == OnlyTheNewestIsAsked /\ ResultsHaveKeys

LEMMA SearchStarts == SearchInit => SearchInv
  BY DEF SearchInit, SearchInv, OnlyTheNewestIsAsked, ResultsHaveKeys

\* An action of the user comes between two drawings and, unless it changes
\* nothing the effects look at, draws the page again.
LEMMA UserActs ==
  ASSUME SearchInv, UNCHANGED <<started, calls, list>>,
         drawn' \/ (~drawn /\ UNCHANGED <<drawn, filters, near, viewport, attempts>>)
  PROVE  SearchInv'
BY DEF SearchInv, OnlyTheNewestIsAsked, ResultsHaveKeys, ListKey, MapKey

LEMMA EffectsStep ==
  ASSUME SearchInv, Effects
  PROVE  SearchInv'
<1> DEFINE newList == started.list # ListKey
           newMap == started.map # MapKey
<1>1. /\ UNCHANGED <<ListKey, MapKey, list>>
      /\ started' = [list |-> ListKey, map |-> MapKey]
  BY DEF Effects, ListKey, MapKey
<1>2. ASSUME NEW c \in calls'
      PROVE  /\ c.kind \in {"list", "more", "map"}
             /\ c.key = IF c.kind = "map" THEN MapKey ELSE ListKey
  <2>1. CASE c = [kind |-> "list", key |-> ListKey] \/ c = [kind |-> "map", key |-> MapKey]
    BY <2>1
  <2>2. CASE /\ c \in calls
             /\ c \notin Aborted((IF newList THEN {"list", "more"} ELSE {})
                                  \cup IF newMap THEN {"map"} ELSE {})
    <3>1. /\ newList => c.kind \notin {"list", "more"}
          /\ newMap => c.kind # "map"
      BY <2>2 DEF Aborted
    <3> QED
      BY <2>2, <3>1 DEF SearchInv, OnlyTheNewestIsAsked
  <2> QED
    BY <1>2, <2>1, <2>2 DEF Effects
<1>3. started'.list = ListKey' /\ started'.map = MapKey'
  BY <1>1
<1> QED
  BY <1>1, <1>2, <1>3 DEF SearchInv, OnlyTheNewestIsAsked, ResultsHaveKeys

\* Requests leave; what is added was asked for by what was started last.
LEMMA CallsChange ==
  ASSUME SearchInv, UNCHANGED <<drawn, started, filters, near, viewport, attempts>>,
         \A c \in calls' : c \in calls \/ (c.kind = "more" /\ c.key = started.list)
  PROVE  OnlyTheNewestIsAsked'
BY DEF SearchInv, OnlyTheNewestIsAsked, ListKey, MapKey

LEMMA MoreKeepsKey ==
  ASSUME ResultsHaveKeys, NEW c \in calls, MoreArrives(c), list # NoResults
  PROVE  /\ list'.key = list.key /\ list' # NoResults
         /\ "key" \in DOMAIN list'
<1>1. CASE UNCHANGED list
  BY <1>1 DEF ResultsHaveKeys
<1>2. CASE \E next \in Next_page(c.page) :
             list' = [list EXCEPT !.pages = Append(list.pages, c.page), !.next = next]
  <2>1. PICK next : list' = [list EXCEPT !.pages = Append(list.pages, c.page), !.next = next]
    BY <1>2
  <2>2. DOMAIN list' = DOMAIN list /\ list'["key"] = list["key"]
    BY <2>1 DEF ResultsHaveKeys
  <2>3. "key" \in DOMAIN list' /\ "key" \notin DOMAIN NoResults
    BY <2>2 DEF ResultsHaveKeys, NoResults
  <2> QED
    BY <2>2, <2>3
<1> QED
  BY <1>1, <1>2 DEF MoreArrives

LEMMA SearchStep ==
  ASSUME SearchInv, [SearchNext]_searchVars
  PROVE  SearchInv'
<1>1. ASSUME NEW text \in Text, Type(text) PROVE SearchInv'
  BY <1>1, UserActs DEF Type
<1>2. ASSUME NEW box \in Box, handleViewport(box) PROVE SearchInv'
  BY <1>2, UserActs DEF handleViewport
<1>3. ASSUME Submit \/ clearAll \/ clearNear \/ searchThisArea \/ tryAgain PROVE SearchInv'
  BY <1>3, UserActs DEF Submit, clearAll, clearNear, searchThisArea, tryAgain
<1>4. ASSUME locateMe PROVE SearchInv'
  BY <1>4, UserActs DEF locateMe
<1>5. ASSUME Located PROVE SearchInv'
  <2>1. CASE drawn' = TRUE
    BY <1>5, <2>1, UserActs DEF Located
  <2>2. CASE UNCHANGED <<near, url, drawn>>
    BY <1>5, <2>2 DEF Located, SearchInv, OnlyTheNewestIsAsked, ResultsHaveKeys, ListKey, MapKey
  <2> QED
    BY <1>5, <2>1, <2>2 DEF Located
<1>6. ASSUME loadMore PROVE SearchInv'
  <2>1. started.list = ListKey
    BY <1>6 DEF loadMore, SearchInv, OnlyTheNewestIsAsked
  <2>2. OnlyTheNewestIsAsked'
    BY <1>6, <2>1, CallsChange DEF loadMore
  <2> QED
    BY <1>6, <2>2 DEF loadMore, SearchInv, ResultsHaveKeys
<1>7. ASSUME DebounceEnds PROVE SearchInv'
  BY <1>7 DEF DebounceEnds, SearchInv, OnlyTheNewestIsAsked, ResultsHaveKeys, ListKey, MapKey
<1>8. ASSUME NavigationEnds PROVE SearchInv'
  BY <1>8, UserActs DEF NavigationEnds
<1>9. ASSUME Effects PROVE SearchInv'
  BY <1>9, EffectsStep
<1>10. ASSUME NEW c \in calls, ListArrives(c) PROVE SearchInv'
  <2>1. OnlyTheNewestIsAsked'
    BY <1>10, CallsChange DEF ListArrives
  <2>2. ResultsHaveKeys'
    BY <1>10 DEF ListArrives, ResultsHaveKeys
  <2> QED
    BY <2>1, <2>2 DEF SearchInv
<1>11. ASSUME NEW c \in calls, MoreArrives(c) PROVE SearchInv'
  <2>1. OnlyTheNewestIsAsked'
    BY <1>11, CallsChange DEF MoreArrives
  <2>2. CASE list = NoResults
    BY <1>11, <2>1, <2>2 DEF MoreArrives, SearchInv, ResultsHaveKeys, NoResults
  <2>3. CASE list # NoResults
    BY <1>11, <2>1, <2>3, MoreKeepsKey DEF SearchInv, ResultsHaveKeys
  <2> QED
    BY <2>2, <2>3
<1>12. ASSUME NEW c \in calls, MapArrives(c) PROVE SearchInv'
  <2>1. OnlyTheNewestIsAsked'
    BY <1>12, CallsChange DEF MapArrives
  <2> QED
    BY <1>12, <2>1 DEF MapArrives, SearchInv, ResultsHaveKeys
<1>13. CASE UNCHANGED searchVars
  BY <1>13 DEF searchVars, SearchInv, OnlyTheNewestIsAsked, ResultsHaveKeys, ListKey, MapKey
<1> QED
  BY <1>1, <1>2, <1>3, <1>4, <1>5, <1>6, <1>7, <1>8, <1>9, <1>10, <1>11, <1>12, <1>13
     DEF SearchNext

\* An answer to the list's or the map's request is the newest one's.
LEMMA NewerStay ==
  ASSUME SearchInv, [SearchNext]_searchVars
  PROVE  /\ Current /\ started.list = ListKey /\ ListKey' = ListKey => Current'
         /\ MapCurrent /\ started.map = MapKey /\ MapKey' = MapKey => MapCurrent'
<1>1. ASSUME NEW c \in calls, ListArrives(c)
      PROVE  list'.key = started.list /\ list' # NoResults /\ UNCHANGED markers
  <2>1. c.key = started.list
    BY <1>1 DEF ListArrives, Calls, SearchInv, OnlyTheNewestIsAsked
  <2>2. list'.key = c.key /\ list'.status # "none"
    BY <1>1 DEF ListArrives
  <2> QED
    BY <1>1, <2>1, <2>2 DEF ListArrives, NoResults
<1>2. ASSUME NEW c \in calls, MapArrives(c)
      PROVE  markers' = started.map /\ UNCHANGED list
  BY <1>2 DEF MapArrives, Calls, SearchInv, OnlyTheNewestIsAsked
<1>3. ASSUME NEW c \in calls, MoreArrives(c), Current
      PROVE  list'.key = list.key /\ list' # NoResults
  BY <1>3, MoreKeepsKey DEF Current, SearchInv
<1>4. ASSUME NEW c \in calls, MoreArrives(c)
      PROVE  UNCHANGED markers
  BY <1>4 DEF MoreArrives
<1>5. ASSUME ~\E c \in calls : ListArrives(c) \/ MoreArrives(c) \/ MapArrives(c)
      PROVE  UNCHANGED <<list, markers>>
  BY <1>5 DEF SearchNext, Type, handleViewport, Submit, clearAll, locateMe, Located, clearNear,
       searchThisArea, tryAgain, loadMore, DebounceEnds, NavigationEnds, Effects, searchVars
<1> QED
  BY <1>1, <1>2, <1>3, <1>4, <1>5 DEF Current, MapCurrent

\* Results that are shown for the page's search stay until its search changes:
\* app/markets/DiscoveryClient.tsx aborts the request it started before.
THEOREM ResultsStayShown == SearchSpec => NewerResultsStay
<1>1. SearchInit => SearchInv
  BY SearchStarts
<1>2. SearchInv /\ [SearchNext]_searchVars => SearchInv'
  BY SearchStep
<1>3. SearchInv /\ [SearchNext]_searchVars
        => [/\ Current /\ started.list = ListKey /\ ListKey' = ListKey => Current'
            /\ MapCurrent /\ started.map = MapKey /\ MapKey' = MapKey => MapCurrent']_searchVars
  BY NewerStay
<1> QED
  BY <1>1, <1>2, <1>3, PTL DEF SearchSpec, NewerResultsStay

-----------------------------------------------------------------------------
(* The sweep *)

Canvas == [width : Int, height : Int]
Stall == [x : Int, y : Int, width : Int, height : Int,
          label : Label \cup {NoLabel}, id : Nat]

\* Two stalls that overlap are compared, whatever lies between them in the
\* sweep's order: each of those starts before the first one's right side.
LEMMA OverlapsAreFound ==
  ASSUME NEW stalls \in Seq(Stall), NEW i \in DOMAIN stalls, NEW j \in DOMAIN stalls,
         Before(stalls, i, j), overlaps(stalls[i], stalls[j])
  PROVE  <<i, j>> \in overlapping_pairs(stalls)
<1>1. \A k \in DOMAIN stalls : stalls[k] \in Stall
  OBVIOUS
<1>2. \A k \in DOMAIN stalls : stalls[k].x \in Int /\ stalls[k].width \in Int
  BY <1>1 DEF Stall
<1>3. ASSUME NEW k \in DOMAIN stalls,
             Before(stalls, i, k), k = j \/ Before(stalls, k, j)
      PROVE  stalls[k].x < right(stalls[i])
  BY <1>2, <1>3, SMT DEF Before, overlaps, right
<1> QED
  BY <1>3 DEF overlapping_pairs

\* The sweep over sorted edges (layouts/geometry.py, overlapping_pairs) finds
\* something exactly when two stalls overlap, for any number of stalls.
THEOREM SweepIsExact ==
  ASSUME NEW stalls \in Seq(Stall)
  PROVE  overlapping_pairs(stalls) = {}
           <=> \A i, j \in DOMAIN stalls : i # j => ~overlaps(stalls[i], stalls[j])
<1>1. \A k \in DOMAIN stalls : stalls[k] \in Stall
  OBVIOUS
<1>2. /\ DOMAIN stalls \subseteq Int
      /\ \A k \in DOMAIN stalls : stalls[k].x \in Int
  BY <1>1 DEF Stall
<1>3. ASSUME overlapping_pairs(stalls) = {},
             NEW i \in DOMAIN stalls, NEW j \in DOMAIN stalls, i # j,
             overlaps(stalls[i], stalls[j])
      PROVE  FALSE
  <2>1. Before(stalls, i, j) \/ Before(stalls, j, i)
    BY <1>2, <1>3, SMT DEF Before
  <2>2. overlaps(stalls[j], stalls[i])
    BY <1>3 DEF overlaps
  <2> QED
    BY <1>3, <2>1, <2>2, OverlapsAreFound
<1>4. ASSUME \A i, j \in DOMAIN stalls : i # j => ~overlaps(stalls[i], stalls[j])
      PROVE  overlapping_pairs(stalls) = {}
  <2> SUFFICES ASSUME NEW p \in overlapping_pairs(stalls) PROVE FALSE
    OBVIOUS
  <2>1. /\ p[1] \in DOMAIN stalls /\ p[2] \in DOMAIN stalls
        /\ Before(stalls, p[1], p[2]) /\ overlaps(stalls[p[1]], stalls[p[2]])
    BY DEF overlapping_pairs
  <2>2. p[1] # p[2]
    BY <1>2, <2>1, SMT DEF Before
  <2> QED
    BY <1>4, <2>1, <2>2
<1> QED
  BY <1>3, <1>4

\* A draft in which the screen sees no problem is well drawn to the server too.
LEMMA DrawingsAgree ==
  ASSUME NEW stalls \in Seq(Stall), NEW canvas, ~draftProblems(canvas, stalls)
  PROVE  WellDrawn(canvas, stalls)
BY SweepIsExact DEF draftProblems, WellDrawn

-----------------------------------------------------------------------------
(* The rows that are written *)

\* Each row is one of the listed stalls, and no stall makes two rows: the
\* old rows keep their places, the new ones come after them.
LEMMA RowsAreTheStalls ==
  ASSUME NEW stalls \in Seq(Stall), plan.rows \in Seq(Stall),
         check_stall_ids(stalls), NEW rows \in Rows(stalls)
  PROVE  /\ rows \in Seq(Stall)
         /\ DOMAIN plan.rows \subseteq DOMAIN rows
         /\ \E of \in [DOMAIN rows -> DOMAIN stalls] :
              /\ \A i, j \in DOMAIN rows : of[i] = of[j] => i = j
              /\ \A i \in DOMAIN rows : rows[i] = [stalls[of[i]] EXCEPT !.id = i]
<1> DEFINE L == Len(plan.rows)
           n == Cardinality(New(stalls))
           old == [i \in DOMAIN plan.rows |->
                     CHOOSE s \in {stalls[k] : k \in DOMAIN stalls} : s.id = i]
<1>1. PICK new \in [1..n -> New(stalls)] :
        /\ \A j, k \in DOMAIN new : j < k => new[j] < new[k]
        /\ rows = old \o [k \in DOMAIN new |-> [stalls[new[k]] EXCEPT !.id = Len(old) + k]]
  BY DEF Rows
<1>2. /\ L \in Nat /\ DOMAIN plan.rows = 1..L
      /\ \A k \in DOMAIN stalls : stalls[k] \in Stall /\ stalls[k].id \in Nat
      /\ DOMAIN stalls \subseteq Nat
  <2>1. L \in Nat /\ DOMAIN plan.rows = 1..L
    OBVIOUS
  <2>2. \A k \in DOMAIN stalls : stalls[k] \in Stall
    OBVIOUS
  <2>3. \A s \in Stall : s.id \in Nat
    BY DEF Stall
  <2>4. DOMAIN stalls \subseteq Nat
    OBVIOUS
  <2> QED
    BY <2>1, <2>2, <2>3, <2>4
<1>3. n \in Nat
  <2>1. DOMAIN stalls = 1..Len(stalls) /\ Len(stalls) \in Nat
    OBVIOUS
  <2>2. IsFiniteSet(DOMAIN stalls)
    BY <2>1, FS_Interval
  <2>3. New(stalls) \in SUBSET DOMAIN stalls
    BY DEF New
  <2> QED
    BY <2>2, <2>3, FS_Subset, FS_CardinalityType
<1>4. \A i \in 1..L : \E k \in DOMAIN stalls : stalls[k].id = i
  BY <1>2 DEF check_stall_ids, Known
<1> DEFINE place == [i \in 1..L |-> CHOOSE k \in DOMAIN stalls : stalls[k].id = i]
<1>5. \A i \in 1..L : place[i] \in DOMAIN stalls /\ stalls[place[i]].id = i
  BY <1>4
<1>6. \A i \in 1..L : old[i] \in Stall /\ old[i] = stalls[place[i]] /\ old[i].id = i
  <2> SUFFICES ASSUME NEW i \in 1..L
               PROVE  old[i] \in Stall /\ old[i] = stalls[place[i]] /\ old[i].id = i
    OBVIOUS
  <2>1. old[i] \in {stalls[k] : k \in DOMAIN stalls} /\ old[i].id = i
    BY <1>2, <1>4
  <2>2. PICK k \in DOMAIN stalls : old[i] = stalls[k] /\ stalls[k].id = i
    BY <2>1
  <2>3. k = place[i]
    BY <1>2, <1>5, <2>2 DEF check_stall_ids, NoId
  <2> QED
    BY <1>2, <2>1, <2>2, <2>3
<1> DEFINE added == [k \in DOMAIN new |-> [stalls[new[k]] EXCEPT !.id = Len(old) + k]]
<1>7. old \in Seq(Stall) /\ Len(old) = L
  <2>1. old \in [1..L -> Stall]
    BY <1>2, <1>6
  <2> HIDE DEF old, L
  <2> QED
    BY <1>2, <2>1
<1>8. \A k \in 1..n : /\ new[k] \in DOMAIN stalls /\ stalls[new[k]].id = NoId
                      /\ added[k] = [stalls[new[k]] EXCEPT !.id = L + k]
                      /\ added[k] \in Stall
  <2> SUFFICES ASSUME NEW k \in 1..n
               PROVE  /\ new[k] \in DOMAIN stalls /\ stalls[new[k]].id = NoId
                      /\ added[k] = [stalls[new[k]] EXCEPT !.id = L + k]
                      /\ added[k] \in Stall
    OBVIOUS
  <2>1. new[k] \in DOMAIN stalls /\ stalls[new[k]].id = NoId
    BY DEF New
  <2>2. added[k] = [stalls[new[k]] EXCEPT !.id = L + k]
    BY <1>7
  <2>3. L + k \in Nat /\ stalls[new[k]] \in Stall
    BY <1>2, <1>3, <2>1
  <2> HIDE DEF added, L
  <2>4. added[k] \in Stall
    BY <2>2, <2>3 DEF Stall
  <2> QED
    BY <2>1, <2>2, <2>4
<1>9. added \in Seq(Stall) /\ Len(added) = n
  <2>1. added \in [1..n -> Stall]
    BY <1>8
  <2> HIDE DEF added, n
  <2> QED
    BY <1>3, <2>1
<1>10. rows = old \o added
  BY <1>1
<1> HIDE DEF old, added, place, L, n
<1>11. /\ rows \in Seq(Stall) /\ DOMAIN rows = 1..(L + n)
       /\ \A i \in 1..L : rows[i] = old[i]
       /\ \A k \in 1..n : rows[L + k] = added[k]
  <2>1. rows \in Seq(Stall) /\ Len(rows) = L + n
    BY <1>7, <1>9, <1>10, ConcatProperties
  <2>2. \A i \in 1..L : rows[i] = old[i]
    BY <1>2, <1>3, <1>7, <1>9, <1>10
  <2>3. ASSUME NEW k \in 1..n PROVE rows[L + k] = added[k]
    <3>1. L + k \in 1..(L + n) /\ ~(L + k <= L) /\ (L + k) - L = k
      BY <1>2, <1>3
    <3>2. rows[L + k] = added[(L + k) - L]
      BY <1>2, <1>3, <1>7, <1>9, <1>10, <3>1
    <3> QED
      BY <3>1, <3>2
  <2> QED
    BY <2>1, <2>2, <2>3
<1> DEFINE of == [i \in DOMAIN rows |-> IF i <= L THEN place[i] ELSE new[i - L]]
<1>12. \A i \in DOMAIN rows : i \in 1..L \/ (i - L \in 1..n /\ i = L + (i - L) /\ ~(i <= L))
  BY <1>2, <1>3, <1>11
<1>13. ASSUME NEW i \in DOMAIN rows
       PROVE  of[i] \in DOMAIN stalls /\ rows[i] = [stalls[of[i]] EXCEPT !.id = i]
  <2>1. CASE i \in 1..L
    <3>1. of[i] = place[i] /\ rows[i] = stalls[place[i]] /\ stalls[place[i]].id = i
          /\ place[i] \in DOMAIN stalls
      BY <1>2, <1>5, <1>6, <1>11, <2>1
    <3>2. [stalls[place[i]] EXCEPT !.id = i] = stalls[place[i]]
      BY <1>2, <3>1 DEF Stall
    <3> QED
      BY <3>1, <3>2
  <2>2. CASE i - L \in 1..n /\ i = L + (i - L) /\ ~(i <= L)
    <3>1. of[i] = new[i - L]
      BY <2>2
    <3>2. PICK k \in 1..n : k = i - L
      BY <2>2
    <3>3. rows[i] = added[k] /\ i = L + k
      BY <1>11, <2>2, <3>2
    <3> QED
      BY <1>8, <3>1, <3>2, <3>3
  <2> QED
    BY <1>12, <2>1, <2>2
<1>14. ASSUME NEW i \in DOMAIN rows, NEW j \in DOMAIN rows, of[i] = of[j]
       PROVE  i = j
  <2>1. \A k \in 1..L : of[k] = place[k] /\ stalls[of[k]].id = k /\ k # NoId
    BY <1>2, <1>3, <1>5, <1>11 DEF NoId
  <2>2. \A k \in DOMAIN rows \ 1..L :
          k - L \in 1..n /\ of[k] = new[k - L] /\ stalls[of[k]].id = NoId
    BY <1>8, <1>12
  <2>3. CASE i \in 1..L /\ j \in 1..L
    BY <1>14, <2>1, <2>3
  <2>4. CASE i \in 1..L /\ j \notin 1..L
    <3>1. stalls[of[i]].id # NoId /\ stalls[of[j]].id = NoId
      BY <2>1, <2>2, <2>4
    <3> QED
      BY <1>14, <3>1
  <2>6. CASE i \notin 1..L /\ j \in 1..L
    <3>1. stalls[of[j]].id # NoId /\ stalls[of[i]].id = NoId
      BY <2>1, <2>2, <2>6
    <3> QED
      BY <1>14, <3>1
  <2>5. CASE i \notin 1..L /\ j \notin 1..L
    <3>1. PICK a \in 1..n, b \in 1..n : a = i - L /\ b = j - L
      BY <2>2, <2>5
    <3>2. new[a] = new[b] /\ new[a] \in Nat
      BY <1>2, <1>8, <1>14, <2>2, <2>5, <3>1
    <3>3. a = b
      BY <1>1, <1>3, <3>1, <3>2, SMT
    <3> QED
      BY <1>2, <1>11, <1>3, <3>1, <3>3
  <2> QED
    BY <2>3, <2>4, <2>5, <2>6
<1>15. DOMAIN plan.rows \subseteq DOMAIN rows
  BY <1>2, <1>3, <1>11
<1>16. of \in [DOMAIN rows -> DOMAIN stalls]
  BY <1>13
<1> HIDE DEF of
<1> QED
  BY <1>11, <1>13, <1>14, <1>15, <1>16

\* While the index checks row by row, two labels that meet in it differ for the
\* server: what is renamed is parked first, and the new labels all differ.
LEMMA ClashesAreTheIndexs ==
  ASSUME NEW old, NEW rows, DOMAIN old \subseteq DOMAIN rows, CasefoldDiffers(rows),
         NEW p \in Clashes(old, rows)
  PROVE  casefold(p[1]) # casefold(p[2])
<1> DEFINE Indexed(done) == IF done = DOMAIN old THEN DOMAIN rows
                            ELSE done \cup (DOMAIN old \ Parked(old, rows))
           LabelOf(i, done) == IF i \in DOMAIN old \ done THEN old[i].label ELSE rows[i].label
<1>1. PICK done \in SUBSET DOMAIN old : \E i, j \in Indexed(done) :
        i # j /\ p = <<LabelOf(i, done), LabelOf(j, done)>>
  BY DEF Clashes
<1>2. PICK i \in Indexed(done), j \in Indexed(done) :
        i # j /\ p = <<LabelOf(i, done), LabelOf(j, done)>>
  BY <1>1
<1>3. ASSUME NEW k \in Indexed(done)
      PROVE  k \in DOMAIN rows /\ casefold(LabelOf(k, done)) = casefold(rows[k].label)
  <2>1. CASE k \in DOMAIN old \ done
    <3>1. k \notin Parked(old, rows) /\ k \in DOMAIN rows
      BY <1>3, <2>1
    <3> QED
      BY <2>1, <3>1 DEF Parked
  <2>2. CASE k \notin DOMAIN old \ done
    BY <1>3, <2>2
  <2> QED
    BY <2>1, <2>2
<1>4. casefold(rows[i].label) # casefold(rows[j].label)
  BY <1>2, <1>3 DEF CasefoldDiffers
<1>5. p[1] = LabelOf(i, done) /\ p[2] = LabelOf(j, done)
  BY <1>2
<1> HIDE DEF Indexed, LabelOf
<1>6. casefold(p[1]) = casefold(rows[i].label) /\ casefold(p[2]) = casefold(rows[j].label)
  BY <1>3, <1>5
<1> QED
  BY <1>4, <1>6

\* What passes both checks is written: the rows have the ids of their places,
\* they are apart and inside the canvas.
Apart(rows) ==
  /\ \A i \in DOMAIN rows : rows[i].label \in Label \ ServerOnly
  /\ \A i, j \in DOMAIN rows :
       i # j => /\ ~overlaps(rows[i], rows[j])
               /\ casefold(rows[i].label) # casefold(rows[j].label)

Inside(canvas, rows) == \A i \in DOMAIN rows : fits(rows[i], canvas)

IdsArePlaces(rows) == \A i \in DOMAIN rows : rows[i].id = i

LEMMA CheckedPlansAreSound ==
  ASSUME NEW stalls \in Seq(Stall), NEW canvas, check_plan_of(canvas, stalls)
  PROVE  Apart(stalls) /\ Inside(canvas, stalls)
<1>1. \A s \in DOMAIN stalls : stalls[s].label \in Label \ ServerOnly
  <2>1. \A s \in DOMAIN stalls : stalls[s].label \in Label \cup {NoLabel}
    <3>1. \A s \in DOMAIN stalls : stalls[s] \in Stall
      OBVIOUS
    <3> QED
      BY <3>1 DEF Stall
  <2> QED
    BY <2>1 DEF check_plan_of, WithinLimits, WellDrawn
<1>2. \A i, j \in DOMAIN stalls :
        i # j => /\ ~overlaps(stalls[i], stalls[j])
                /\ casefold(stalls[i].label) # casefold(stalls[j].label)
  BY SweepIsExact DEF check_plan_of, WellDrawn, CasefoldDiffers
<1>3. Inside(canvas, stalls)
  BY DEF check_plan_of, WellDrawn, Inside
<1> QED
  BY <1>1, <1>2, <1>3 DEF Apart

LEMMA WrittenRowsAreSound ==
  ASSUME NEW stalls \in Seq(Stall), NEW canvas \in Canvas, plan.rows \in Seq(Stall),
         check_stall_ids(stalls), check_plan_of(canvas, stalls), NEW rows \in Rows(stalls)
  PROVE  /\ rows \in Seq(Stall)
         /\ Apart(rows) /\ Inside(canvas, rows)
         /\ IdsArePlaces(rows)
         /\ \A p \in Clashes(plan.rows, rows) : casefold(p[1]) # casefold(p[2])
<1>1. PICK of \in [DOMAIN rows -> DOMAIN stalls] :
        /\ \A i, j \in DOMAIN rows : of[i] = of[j] => i = j
        /\ \A i \in DOMAIN rows : rows[i] = [stalls[of[i]] EXCEPT !.id = i]
  BY RowsAreTheStalls
<1>2. rows \in Seq(Stall) /\ DOMAIN plan.rows \subseteq DOMAIN rows
  BY RowsAreTheStalls
<1> DEFINE Same(r, s, i) ==
      /\ r.x = s.x /\ r.y = s.y /\ r.width = s.width /\ r.height = s.height
      /\ r.label = s.label /\ r.id = i
<1>3. \A s \in Stall : \A i : Same([s EXCEPT !.id = i], s, i)
  BY DEF Stall
<1>4. \A i \in DOMAIN rows : of[i] \in DOMAIN stalls /\ Same(rows[i], stalls[of[i]], i)
  <2> HIDE DEF Same
  <2> SUFFICES ASSUME NEW i \in DOMAIN rows
               PROVE  of[i] \in DOMAIN stalls /\ Same(rows[i], stalls[of[i]], i)
    OBVIOUS
  <2>1. of[i] \in DOMAIN stalls /\ stalls[of[i]] \in Stall
    BY <1>1
  <2>2. rows[i] = [stalls[of[i]] EXCEPT !.id = i]
    BY <1>1
  <2> QED
    BY <1>3, <2>1, <2>2, Zenon
<1>5. Apart(stalls) /\ Inside(canvas, stalls)
  BY CheckedPlansAreSound
<1>6. Inside(canvas, rows)
  BY <1>4, <1>5 DEF Inside, fits, right, bottom
<1>7. Apart(rows)
  <2>1. \A i \in DOMAIN rows : rows[i].label \in Label \ ServerOnly
    BY <1>4, <1>5 DEF Apart
  <2>2. ASSUME NEW i \in DOMAIN rows, NEW j \in DOMAIN rows, i # j
        PROVE  /\ ~overlaps(rows[i], rows[j])
               /\ casefold(rows[i].label) # casefold(rows[j].label)
    <3>1. /\ ~overlaps(stalls[of[i]], stalls[of[j]])
          /\ casefold(stalls[of[i]].label) # casefold(stalls[of[j]].label)
      BY <1>1, <1>5, <2>2 DEF Apart
    <3>2. rows[i].label = stalls[of[i]].label /\ rows[j].label = stalls[of[j]].label
      BY <1>4
    <3>3. ~overlaps(rows[i], rows[j])
      BY <1>4, <3>1 DEF overlaps, right, bottom
    <3> QED
      BY <3>1, <3>2, <3>3
  <2> QED
    BY <2>1, <2>2 DEF Apart
<1>8. IdsArePlaces(rows)
  BY <1>4 DEF IdsArePlaces
<1>9. CasefoldDiffers(rows)
  BY <1>7 DEF Apart, CasefoldDiffers
<1> QED
  BY <1>2, <1>6, <1>7, <1>8, <1>9, ClashesAreTheIndexs

-----------------------------------------------------------------------------
(* The invariant *)

Version == [canvas : Canvas, rows : Seq(Stall), revision : Nat]
Sent == [stage : {"sent"}, revision : Nat, canvas : Canvas, stalls : Seq(Stall), checked : BOOLEAN]
Reasons == {"expected", "limit", "duplicate", "index", "surprise"}
Requests == {NoCall} \cup Sent \cup [stage : {"refused"}, reason : Reasons]
            \cup [stage : {"written", "saved"}, version : Version]

\* A copy of the plan: the plan itself, unless it is of an earlier revision.
IsCopy(v) ==
  /\ v \in Version
  /\ v.revision <= plan.revision
  /\ v.revision = plan.revision => v = plan

PlanIsSound ==
  /\ plan \in Version
  /\ Apart(plan.rows)
  /\ plan.revision > 1 => Inside(plan.canvas, plan.rows)
  /\ IdsArePlaces(plan.rows)

\* What is edited, and what was sent when the screen saw no problem, lists
\* the plan's rows as long as it was made on the plan's revision.
DraftFits ==
  /\ draft \in [canvas : Canvas, stalls : Seq(Stall)]
  /\ saved.revision = plan.revision => check_stall_ids(draft.stalls)

CallFits(r) ==
  /\ r \in Requests
  /\ r.stage = "sent" =>
       /\ r.revision <= plan.revision
       /\ r.checked /\ RevisionFits(r) =>
            check_stall_ids(r.stalls) /\ ~draftProblems(r.canvas, r.stalls)
  /\ r.stage = "refused" => r.reason # "surprise"
  /\ r.stage \in {"written", "saved"} => IsCopy(r.version)

CallsFit ==
  /\ DOMAIN call = Call
  /\ \A c \in Call : CallFits(call[c])

EditorInv ==
  /\ PlanIsSound
  /\ IsCopy(saved)
  /\ row # NoRow => IsCopy(row)
  /\ DraftFits
  /\ CallsFit

\* The rows of a sound plan list themselves.
LEMMA OwnRowsFit ==
  ASSUME PlanIsSound
  PROVE  check_stall_ids(plan.rows)
<1>1. \A i \in DOMAIN plan.rows : i # NoId /\ plan.rows[i].id = i
  BY DEF PlanIsSound, IdsArePlaces, Version, NoId
<1> QED
  BY <1>1 DEF check_stall_ids, Known

LEMMA EditorStarts == EditorInit => EditorInv
<1> SUFFICES ASSUME EditorInit PROVE EditorInv
  OBVIOUS
<1> DEFINE Sizes == [width : CanvasSide, height : CanvasSide]
           Drawn(n) == [1..n -> [x : Position, y : Position, width : Side, height : Side,
                                 label : Label, id : 1..n]]
<1>1. PICK canvas \in Sizes, checked \in Sizes, n \in 0..StartStalls : \E rows \in Drawn(n) :
        /\ \A i \in 1..n : rows[i].id = i
        /\ check_plan_of(checked, rows) /\ LowerDiffers(rows)
        /\ plan = [canvas |-> canvas, rows |-> rows, revision |-> 1]
  BY DEF EditorInit
<1>2. PICK rows \in Drawn(n) :
        /\ \A i \in 1..n : rows[i].id = i
        /\ check_plan_of(checked, rows) /\ LowerDiffers(rows)
        /\ plan = [canvas |-> canvas, rows |-> rows, revision |-> 1]
  BY <1>1
<1>3. canvas \in Canvas /\ n \in Nat
  <2>1. n \in Nat
    OBVIOUS
  <2>2. CanvasSide \subseteq Int
    BY EditorAssumption
  <2>3. canvas \in Sizes
    OBVIOUS
  <2> QED
    BY ONLY <2>1, <2>2, <2>3 DEF Canvas
<1>4. rows \in Seq(Stall) /\ DOMAIN rows = 1..n
  <2>1. \A s \in [x : Position, y : Position, width : Side, height : Side,
                  label : Label, id : 1..n] : s \in Stall
    <3>1. Position \subseteq Int /\ Side \subseteq Int /\ 1..n \subseteq Nat
          /\ Label \subseteq Label \cup {NoLabel}
      BY <1>3, EditorAssumption
    <3> QED
      BY ONLY <3>1 DEF Stall
  <2>2. rows \in [1..n -> Stall]
    BY <1>2, <2>1
  <2> QED
    BY <1>3, <2>2
<1>5. plan = [canvas |-> canvas, rows |-> rows, revision |-> 1]
  BY <1>2
<1> HIDE DEF Sizes, Drawn
<1>6. plan \in Version /\ plan.canvas = canvas /\ plan.rows = rows /\ plan.revision = 1
  BY <1>3, <1>4, <1>5 DEF Version
<1>8. Apart(rows) /\ IdsArePlaces(rows)
  BY <1>2, <1>4, CheckedPlansAreSound DEF IdsArePlaces
<1>9. PlanIsSound
  BY <1>6, <1>8 DEF PlanIsSound
<1>10. IsCopy(saved) /\ row = NoRow
  BY <1>6 DEF EditorInit, IsCopy, Version
<1>11. DraftFits
  <2>1. draft = [canvas |-> plan.canvas, stalls |-> plan.rows]
    BY DEF EditorInit, toDraft
  <2> QED
    BY <1>6, <1>9, <2>1, OwnRowsFit DEF DraftFits, Version
<1>12. CallsFit
  BY DEF EditorInit, CallsFit, CallFits, Requests, NoCall
<1> QED
  BY <1>9, <1>10, <1>11, <1>12 DEF EditorInv

-----------------------------------------------------------------------------
(* Its steps *)

LEMMA IdsKept ==
  ASSUME NEW a \in Seq(Stall), NEW b \in Seq(Stall), DOMAIN a \subseteq DOMAIN b,
         \A k \in DOMAIN a : b[k].id = a[k].id,
         \A k \in DOMAIN b \ DOMAIN a : b[k].id = NoId,
         check_stall_ids(a)
  PROVE  check_stall_ids(b)
<1>1. Known(b) = Known(a)
  BY DEF Known
<1>2. \A i, j \in DOMAIN b : b[i].id = b[j].id /\ b[i].id # NoId => i = j
  BY DEF check_stall_ids
<1> QED
  BY <1>1, <1>2 DEF check_stall_ids

\* An edit leaves the ids alone; a stall that is added has none.
LEMMA DraftEdited ==
  ASSUME EditorInv, UNCHANGED <<plan, saved, call, row>>,
         draft' \in [canvas : Canvas, stalls : Seq(Stall)],
         DOMAIN draft.stalls \subseteq DOMAIN draft'.stalls,
         \A k \in DOMAIN draft.stalls : draft'.stalls[k].id = draft.stalls[k].id,
         \A k \in DOMAIN draft'.stalls \ DOMAIN draft.stalls : draft'.stalls[k].id = NoId
  PROVE  EditorInv'
<1>1. DraftFits'
  <2>1. draft.stalls \in Seq(Stall) /\ draft'.stalls \in Seq(Stall)
    BY DEF EditorInv, DraftFits
  <2>2. check_stall_ids(draft.stalls) => check_stall_ids(draft'.stalls)
    BY <2>1, IdsKept
  <2> QED
    BY <2>2 DEF EditorInv, DraftFits, check_stall_ids
<1>2. PlanIsSound' /\ IsCopy(saved)' /\ (row # NoRow => IsCopy(row))'
  BY DEF EditorInv, PlanIsSound, IsCopy
<1>3. CallsFit'
  BY DEF EditorInv, CallsFit, CallFits, IsCopy, RevisionFits, check_stall_ids
<1> QED
  BY <1>1, <1>2, <1>3 DEF EditorInv

LEMMA UpdateStep ==
  ASSUME EditorInv, NEW s \in DOMAIN draft.stalls, update(s)
  PROVE  EditorInv'
<1> DEFINE old == draft.stalls[s]
<1>1. draft \in [canvas : Canvas, stalls : Seq(Stall)] /\ old \in Stall
      /\ draft.canvas \in Canvas
  BY DEF EditorInv, DraftFits
<1>2. ASSUME NEW field \in {"x", "y"}, NEW c \in Position
      PROVE  [old EXCEPT ![field] = c] \in Stall /\ [old EXCEPT ![field] = c].id = old.id
  <2>1. c \in Int
    BY EditorAssumption
  <2> QED
    BY <1>1, <2>1 DEF Stall
<1>3. ASSUME NEW field \in {"width", "height"}, NEW c \in Side
      PROVE  [old EXCEPT ![field] = c] \in Stall /\ [old EXCEPT ![field] = c].id = old.id
  <2>1. c \in Int
    BY EditorAssumption
  <2> QED
    BY <1>1, <2>1 DEF Stall
<1>4. ASSUME NEW l \in Label \cup {NoLabel}
      PROVE  [old EXCEPT !.label = l] \in Stall /\ [old EXCEPT !.label = l].id = old.id
  BY <1>1 DEF Stall
<1>5. ASSUME NEW d \in {<<-1, 0>>, <<1, 0>>, <<0, -1>>, <<0, 1>>}
      PROVE  LET r == clampPosition(old, draft.canvas, old.x + d[1], old.y + d[2])
             IN  r \in Stall /\ r.id = old.id
  <2>1. \A a, b \in Int : MinOf(a, b) \in Int /\ MaxOf(a, b) \in Int
    BY DEF MinOf, MaxOf
  <2>2. /\ old.x + d[1] \in Int /\ old.y + d[2] \in Int
        /\ draft.canvas.width - old.width \in Int /\ draft.canvas.height - old.height \in Int
    <3>1. d[1] \in Int /\ d[2] \in Int
      BY <1>5
    <3>2. /\ old.x \in Int /\ old.y \in Int /\ old.width \in Int /\ old.height \in Int
          /\ draft.canvas.width \in Int /\ draft.canvas.height \in Int
      BY <1>1 DEF Stall, Canvas
    <3> HIDE DEF old
    <3> QED
      BY <3>1, <3>2
  <2> DEFINE x == MinOf(MaxOf(0, old.x + d[1]), MaxOf(0, draft.canvas.width - old.width))
             y == MinOf(MaxOf(0, old.y + d[2]), MaxOf(0, draft.canvas.height - old.height))
  <2>3. x \in Int /\ y \in Int
    <3>1. 0 \in Int
      OBVIOUS
    <3> QED
      BY <2>1, <2>2, <3>1, Zenon
  <2>4. clampPosition(old, draft.canvas, old.x + d[1], old.y + d[2])
          = [old EXCEPT !.x = x, !.y = y]
    BY DEF clampPosition
  <2> HIDE DEF x, y
  <2>5. [old EXCEPT !.x = x, !.y = y] \in Stall /\ [old EXCEPT !.x = x, !.y = y].id = old.id
    BY <1>1, <2>3 DEF Stall
  <2> QED
    BY <2>4, <2>5
<1>6. PICK r : r \in Stall /\ r.id = old.id /\ draft' = [draft EXCEPT !.stalls[s] = r]
  <2> DEFINE Becomes(r) == draft' = [draft EXCEPT !.stalls[s] = r]
  <2>1. CASE \E field \in {"x", "y"}, c \in Position : Becomes([old EXCEPT ![field] = c])
    BY <1>2, <2>1
  <2>2. CASE \E field \in {"width", "height"}, c \in Side : Becomes([old EXCEPT ![field] = c])
    BY <1>3, <2>2
  <2>3. CASE \E l \in Label \cup {NoLabel} : Becomes([old EXCEPT !.label = l])
    BY <1>4, <2>3
  <2>4. CASE \E d \in {<<-1, 0>>, <<1, 0>>, <<0, -1>>, <<0, 1>>} :
               Becomes(clampPosition(old, draft.canvas, old.x + d[1], old.y + d[2]))
    BY <1>5, <2>4
  <2> QED
    BY <2>1, <2>2, <2>3, <2>4 DEF update
<1> HIDE DEF old
<1>7. /\ draft' \in [canvas : Canvas, stalls : Seq(Stall)]
      /\ DOMAIN draft'.stalls = DOMAIN draft.stalls
      /\ \A k \in DOMAIN draft.stalls :
           draft'.stalls[k] = IF k = s THEN r ELSE draft.stalls[k]
  <2>1. /\ draft'.canvas = draft.canvas /\ draft' = [canvas |-> draft'.canvas, stalls |-> draft'.stalls]
        /\ draft'.stalls = [draft.stalls EXCEPT ![s] = r]
    BY <1>1, <1>6
  <2>2. draft.stalls \in Seq(Stall)
    BY <1>1
  <2>3. draft'.stalls \in Seq(Stall)
    BY <1>6, <2>1, <2>2
  <2> QED
    BY <1>1, <2>1, <2>2, <2>3
<1> QED
  BY <1>6, <1>7, DraftEdited DEF update, old

LEMMA ResizeStep ==
  ASSUME EditorInv, resize
  PROVE  EditorInv'
<1>1. draft \in [canvas : Canvas, stalls : Seq(Stall)]
  BY DEF EditorInv, DraftFits
<1>2. PICK side \in {"width", "height"}, c \in CanvasSide :
        draft' = [draft EXCEPT !.canvas[side] = c]
  BY DEF resize
<1>3. c \in Int
  BY EditorAssumption
<1>4. draft' = [canvas |-> [draft.canvas EXCEPT ![side] = c], stalls |-> draft.stalls]
  BY <1>1, <1>2
<1>5. [draft.canvas EXCEPT ![side] = c] \in Canvas
  BY <1>1, <1>3 DEF Canvas
<1> QED
  BY <1>1, <1>4, <1>5, DraftEdited DEF resize

LEMMA AddStep ==
  ASSUME EditorInv, addStall
  PROVE  EditorInv'
<1>1. draft \in [canvas : Canvas, stalls : Seq(Stall)]
  BY DEF EditorInv, DraftFits
<1> DEFINE canvas == draft.canvas
           size == MaxOf(1, (MinOf(canvas.width, canvas.height) + 3) \div 6)
<1>2. PICK p \in freeSpot(canvas, draft.stalls, size), l \in Label :
        draft' = [draft EXCEPT !.stalls = Append(@, NewStall(p[1], p[2], size, l))]
  BY DEF addStall
<1>3. size \in Int
  BY <1>1 DEF MaxOf, MinOf, Canvas
<1>4. p[1] \in Int /\ p[2] \in Int
  <2>1. p \in (0..canvas.width) \X (0..canvas.height)
    BY <1>2 DEF freeSpot
  <2> QED
    BY <1>1, <2>1 DEF Canvas
<1> HIDE DEF size, canvas
<1> DEFINE new == NewStall(p[1], p[2], size, l)
<1>5. new \in Stall /\ new.id = NoId
  BY <1>3, <1>4 DEF NewStall, Stall, NoId
<1> HIDE DEF new
<1>6. draft' = [canvas |-> draft.canvas, stalls |-> Append(draft.stalls, new)]
  BY <1>1, <1>2 DEF new
<1>7. draft.stalls \in Seq(Stall)
  BY <1>1
<1>8. /\ draft'.stalls \in Seq(Stall)
      /\ DOMAIN draft'.stalls = DOMAIN draft.stalls \cup {Len(draft.stalls) + 1}
      /\ \A k \in DOMAIN draft.stalls : draft'.stalls[k] = draft.stalls[k]
      /\ draft'.stalls[Len(draft.stalls) + 1] = new
  BY <1>5, <1>6, <1>7
<1> QED
  BY <1>1, <1>5, <1>6, <1>8, DraftEdited DEF addStall

\* The screen takes a copy of the plan and starts its draft from it.
LEMMA CopyTaken ==
  ASSUME EditorInv, UNCHANGED plan, IsCopy(saved'), draft' = toDraft(saved'), CallsFit',
         (row # NoRow => IsCopy(row))'
  PROVE  EditorInv'
<1>1. saved'.revision = plan.revision => check_stall_ids(draft'.stalls)
  <2>1. draft'.stalls = saved'.rows
    BY DEF toDraft
  <2> QED
    BY <2>1, OwnRowsFit DEF EditorInv, IsCopy
<1>2. draft' \in [canvas : Canvas, stalls : Seq(Stall)]
  BY DEF toDraft, IsCopy, Version
<1>3. DraftFits'
  BY <1>1, <1>2 DEF DraftFits, check_stall_ids
<1>4. PlanIsSound' /\ IsCopy(saved)'
  BY DEF EditorInv, PlanIsSound, IsCopy
<1> QED
  BY <1>3, <1>4 DEF EditorInv

\* A request is sent, answered, lost or given up.
LEMMA OneCallChanges ==
  ASSUME EditorInv, UNCHANGED plan, NEW c \in Call, NEW r, CallFits(r),
         call' = [call EXCEPT ![c] = r]
  PROVE  CallsFit'
<1>1. DOMAIN call' = Call /\ \A d \in Call : call'[d] = IF d = c THEN r ELSE call[d]
  BY DEF EditorInv, CallsFit
<1>2. \A d \in Call : CallFits(call'[d])
  BY <1>1 DEF EditorInv, CallsFit
<1> QED
  BY <1>1, <1>2 DEF CallsFit, CallFits, IsCopy, RevisionFits, check_stall_ids

LEMMA OnlyCalls ==
  ASSUME EditorInv, UNCHANGED <<plan, saved, draft>>, CallsFit', row' = row \/ IsCopy(row')
  PROVE  EditorInv'
BY DEF EditorInv, PlanIsSound, IsCopy, DraftFits, check_stall_ids

LEMMA NoCallFits == CallFits(NoCall)
  BY DEF CallFits, NoCall, Requests

LEMMA RefusalsFit ==
  ASSUME NEW reason \in Reasons, reason # "surprise"
  PROVE  CallFits(Refusal(reason))
<1> DEFINE r == Refusal(reason)
<1>1. r.stage = "refused" /\ r.reason = reason /\ r \in Requests
  BY DEF Refusal, Requests
<1> HIDE DEF r
<1> QED
  BY <1>1 DEF CallFits, r

LEMMA SendStep ==
  ASSUME EditorInv, NEW c \in Call, save(c) \/ SendUnchecked(c)
  PROVE  EditorInv'
<1>1. PICK checked \in BOOLEAN :
        /\ call' = [call EXCEPT ![c] = Payload("sent", checked)]
        /\ checked => ~draftProblems(draft.canvas, draft.stalls)
        /\ UNCHANGED <<plan, saved, draft, row>>
  BY DEF save, SendUnchecked
<1> DEFINE r == Payload("sent", checked)
<1>2. /\ r \in Sent /\ r.stage = "sent" /\ r.checked = checked
      /\ r.revision = saved.revision /\ r.canvas = draft.canvas /\ r.stalls = draft.stalls
  BY DEF Payload, Sent, EditorInv, DraftFits, IsCopy, Version
<1> HIDE DEF r
<1>4. CallFits(r)
  BY <1>1, <1>2 DEF CallFits, Requests, EditorInv, IsCopy, DraftFits, RevisionFits
<1>5. CallsFit'
  BY <1>1, <1>4, OneCallChanges DEF r
<1> QED
  BY <1>1, <1>5, OnlyCalls

\* A copy whose rows are read again is a copy still: either they were not
\* written since, or its revision is an old one.
LEMMA ReadAgain ==
  ASSUME EditorInv, NEW v, IsCopy(v)
  PROVE  IsCopy([v EXCEPT !.rows = plan.rows])
<1> DEFINE w == [v EXCEPT !.rows = plan.rows]
<1>1. /\ v \in Version /\ plan \in Version
      /\ v.revision = plan.revision => v = plan
  BY DEF EditorInv, PlanIsSound, IsCopy
<1>2. w \in Version /\ w.revision = v.revision /\ (v = plan => w = plan)
  BY <1>1 DEF Version
<1> HIDE DEF w
<1> QED
  BY <1>1, <1>2 DEF IsCopy, w

LEMMA LoadStep ==
  ASSUME EditorInv, LoadRow \/ LoadStalls
  PROVE  EditorInv'
<1>1. CASE LoadRow
  <2>1. IsCopy(row')
    BY <1>1 DEF LoadRow, EditorInv, PlanIsSound, IsCopy, Version
  <2>2. CallsFit'
    BY <1>1 DEF LoadRow, EditorInv, CallsFit, CallFits, IsCopy, RevisionFits, check_stall_ids
  <2> QED
    BY <1>1, <2>1, <2>2, OnlyCalls DEF LoadRow
<1>2. CASE LoadStalls
  <2>1. IsCopy(saved')
    BY <1>2, ReadAgain DEF LoadStalls, EditorInv
  <2>2. CallsFit'
    BY <1>2 DEF LoadStalls, EditorInv, CallsFit, CallFits, IsCopy, RevisionFits, check_stall_ids
  <2>3. (row # NoRow => IsCopy(row))'
    BY <1>2 DEF LoadStalls, NoRow
  <2> QED
    BY <1>2, <2>1, <2>2, <2>3, CopyTaken DEF LoadStalls
<1> QED
  BY <1>1, <1>2

LEMMA DiscardStep ==
  ASSUME EditorInv, discard
  PROVE  EditorInv'
<1>1. CallsFit' /\ (row # NoRow => IsCopy(row))' /\ IsCopy(saved')
  BY DEF discard, EditorInv, CallsFit, CallFits, IsCopy, RevisionFits, check_stall_ids
<1> QED
  BY <1>1, CopyTaken DEF discard

LEMMA AnswerStep ==
  ASSUME EditorInv, NEW c \in Call, Answered(c)
  PROVE  EditorInv'
<1>1. CallsFit'
  BY NoCallFits, OneCallChanges DEF Answered
<1>2. CASE busy = c /\ call[c].stage = "saved"
  <2>1. IsCopy(saved')
    BY <1>2 DEF Answered, EditorInv, CallsFit, CallFits
  <2>2. (row # NoRow => IsCopy(row))'
    BY DEF Answered, EditorInv, IsCopy
  <2> QED
    BY <1>1, <1>2, <2>1, <2>2, CopyTaken DEF Answered
<1>3. CASE UNCHANGED <<saved, draft>>
  BY <1>1, <1>3, OnlyCalls DEF Answered
<1> QED
  BY <1>2, <1>3 DEF Answered

LEMMA LostStep ==
  ASSUME EditorInv, NEW c \in Call, Unreachable(c) \/ Vanishes(c)
  PROVE  EditorInv'
<1>1. PICK r : CallFits(r) /\ call' = [call EXCEPT ![c] = r]
  BY NoCallFits DEF Unreachable, Vanishes, EditorInv, CallsFit
<1>2. UNCHANGED <<plan, saved, draft, row>>
  BY DEF Unreachable, Vanishes
<1>3. CallsFit'
  BY <1>1, <1>2, OneCallChanges
<1> QED
  BY <1>2, <1>3, OnlyCalls

\* A request that the screen checked is not refused for what the screen looks at.
LEMMA RefuseStep ==
  ASSUME EditorInv, NEW c \in Call, Refuse(c)
  PROVE  EditorInv'
<1> DEFINE r == call[c]
           reason == Reason(r)
<1>1. CallFits(r) /\ r.stage = "sent" /\ r \in Sent
  BY DEF Refuse, EditorInv, CallsFit, CallFits, Requests, NoCall
<1>2. reason \in Reasons /\ reason # "surprise"
  <2>1. CASE ~r.checked \/ ~RevisionFits(r)
    BY <2>1 DEF Reason, Reasons
  <2>2. CASE r.checked /\ RevisionFits(r)
    <3>1. check_stall_ids(r.stalls) /\ ~draftProblems(r.canvas, r.stalls)
      BY <1>1, <2>2 DEF CallFits
    <3>2. WellDrawn(r.canvas, r.stalls)
      BY <1>1, <3>1, DrawingsAgree DEF Sent
    <3>3. ~\E i, j \in DOMAIN r.stalls :
             i # j /\ toLowerCase(r.stalls[i].label) = toLowerCase(r.stalls[j].label)
      BY <3>1 DEF draftProblems
    <3> HIDE DEF r
    <3>4. reason = IF CasefoldDiffers(r.stalls) THEN "limit" ELSE "duplicate"
      BY <2>2, <3>1, <3>2, <3>3 DEF Reason
    <3> QED
      BY <3>4 DEF Reasons
  <2> QED
    BY <2>1, <2>2
<1>3. call' = [call EXCEPT ![c] = Refusal(reason)] /\ UNCHANGED <<plan, saved, draft, row>>
  BY DEF Refuse
<1> HIDE DEF r, reason
<1>4. CallFits(Refusal(reason))
  BY <1>2, RefusalsFit
<1>5. CallsFit'
  BY <1>3, <1>4, OneCallChanges
<1> QED
  BY <1>3, <1>5, OnlyCalls

\* A write makes a new revision, so every copy, draft and request that was
\* there is of an earlier one.
LEMMA PlanWritten ==
  ASSUME EditorInv, NEW c \in Call, NEW canvas \in Canvas, NEW rows \in Seq(Stall),
         Apart(rows), Inside(canvas, rows), IdsArePlaces(rows),
         plan' = [revision |-> plan.revision + 1, canvas |-> canvas, rows |-> rows],
         call' = [call EXCEPT ![c] = [stage |-> "written", version |-> plan']],
         UNCHANGED <<saved, draft, row>>
  PROVE  EditorInv'
<1>1. plan \in Version
  BY DEF EditorInv, PlanIsSound
<1>7. /\ plan' \in Version /\ plan'.revision = plan.revision + 1 /\ plan.revision \in Nat
      /\ plan'.canvas = canvas /\ plan'.rows = rows
  BY <1>1 DEF Version
<1>8. PlanIsSound'
  BY <1>7 DEF PlanIsSound
<1>9. ASSUME NEW v, IsCopy(v)
      PROVE  v \in Version /\ v.revision < plan'.revision /\ v.revision <= plan'.revision
             /\ v.revision # plan'.revision
  BY <1>7, <1>9 DEF IsCopy, Version
<1>10. IsCopy(saved)' /\ (row # NoRow => IsCopy(row))'
  BY <1>9 DEF EditorInv, IsCopy
<1>11. DraftFits'
  BY <1>9 DEF EditorInv, DraftFits
<1>12. ASSUME NEW d \in Call, d # c
       PROVE  CallFits(call[d])'
  <2>1. call'[d] = call[d] /\ CallFits(call[d])
    BY <1>12 DEF EditorInv, CallsFit
  <2>2. call[d].stage = "sent" => call[d].revision <= plan'.revision /\ call[d].revision # plan'.revision
    <3>1. call[d].stage = "sent" => call[d].revision \in Nat /\ call[d].revision <= plan.revision
      BY <2>1 DEF CallFits, Requests, Sent, NoCall
    <3> QED
      BY <1>7, <3>1
  <2>3. call[d].stage \in {"written", "saved"} =>
          call[d].version \in Version /\ call[d].version.revision <= plan'.revision
            /\ call[d].version.revision # plan'.revision
    BY <1>9, <2>1 DEF CallFits
  <2> QED
    BY <2>1, <2>2, <2>3 DEF CallFits, RevisionFits, IsCopy
<1>13. CallFits(call[c])'
  <2>1. call'[c] = [stage |-> "written", version |-> plan']
    BY DEF EditorInv, CallsFit
  <2>2. call'[c].stage = "written" /\ call'[c].version = plan' /\ call'[c] \in Requests
    BY <1>7, <2>1 DEF Requests
  <2>3. plan'.revision <= plan'.revision
    BY <1>7
  <2> QED
    BY <1>7, <2>2, <2>3 DEF CallFits, IsCopy
<1>14. CallsFit'
  <2>1. DOMAIN call' = Call
    BY DEF EditorInv, CallsFit
  <2> QED
    BY <1>12, <1>13, <2>1 DEF CallsFit
<1> QED
  BY <1>8, <1>10, <1>11, <1>14 DEF EditorInv

LEMMA WriteStep ==
  ASSUME EditorInv, NEW c \in Call, write_stalls(c)
  PROVE  EditorInv'
<1> DEFINE r == call[c]
<1>1. CallFits(r) /\ r.stage = "sent" /\ plan.rows \in Seq(Stall)
  BY DEF write_stalls, EditorInv, CallsFit, PlanIsSound, Version
<1>2. r.stalls \in Seq(Stall) /\ r.canvas \in Canvas
  BY <1>1 DEF CallFits, Requests, Sent, NoCall
<1>3. check_stall_ids(r.stalls) /\ check_plan_of(r.canvas, r.stalls)
  BY DEF write_stalls, Refused
<1>4. UNCHANGED <<saved, draft, row>>
  BY DEF write_stalls
<1> DEFINE Undone(rows) ==
      \E p \in Clashes(plan.rows, rows) :
        /\ call' = [call EXCEPT ![c] = Refusal(
             IF casefold(p[1]) = casefold(p[2]) THEN "surprise" ELSE "index")]
        /\ UNCHANGED plan
<1>5. PICK rows \in Rows(r.stalls) :
        \/ Undone(rows)
        \/ /\ plan' = [revision |-> plan.revision + 1, canvas |-> r.canvas, rows |-> rows]
           /\ call' = [call EXCEPT ![c] = [stage |-> "written", version |-> plan']]
  BY DEF write_stalls
<1>6. /\ rows \in Seq(Stall) /\ Apart(rows) /\ Inside(r.canvas, rows) /\ IdsArePlaces(rows)
      /\ \A p \in Clashes(plan.rows, rows) : casefold(p[1]) # casefold(p[2])
  BY <1>1, <1>2, <1>3, WrittenRowsAreSound
<1> HIDE DEF r
<1>7. CASE Undone(rows)
  <2>1. call' = [call EXCEPT ![c] = Refusal("index")] /\ UNCHANGED plan
    BY <1>6, <1>7
  <2>2. CallFits(Refusal("index"))
    BY RefusalsFit DEF Reasons
  <2>3. CallsFit'
    BY <2>1, <2>2, OneCallChanges
  <2> QED
    BY <1>4, <2>1, <2>3, OnlyCalls
<1> HIDE DEF Undone
<1>8. CASE /\ plan' = [revision |-> plan.revision + 1, canvas |-> r.canvas, rows |-> rows]
           /\ call' = [call EXCEPT ![c] = [stage |-> "written", version |-> plan']]
  BY <1>2, <1>4, <1>6, <1>8, PlanWritten
<1> QED
  BY <1>5, <1>7, <1>8

LEMMA ReadStep ==
  ASSUME EditorInv, NEW c \in Call, ReadSaved(c)
  PROVE  EditorInv'
<1> DEFINE v == [call[c].version EXCEPT !.rows = plan.rows]
           r == [stage |-> "saved", version |-> v]
<1>1. CallFits(call[c]) /\ call[c].stage = "written"
  BY DEF ReadSaved, EditorInv, CallsFit
<1>2. IsCopy(v)
  BY <1>1, ReadAgain DEF CallFits
<1>3. call' = [call EXCEPT ![c] = r] /\ UNCHANGED <<plan, saved, draft, row>>
  BY DEF ReadSaved
<1> HIDE DEF v
<1>4. r.stage = "saved" /\ r.version = v /\ r \in Requests
  BY <1>2 DEF Requests, IsCopy
<1> HIDE DEF r
<1>5. CallFits(r)
  BY <1>2, <1>4 DEF CallFits
<1>6. CallsFit'
  BY <1>3, <1>5, OneCallChanges
<1> QED
  BY <1>3, <1>6, OnlyCalls

LEMMA EditorStep ==
  ASSUME EditorInv, [EditorNext]_editorVars
  PROVE  EditorInv'
<1>1. ASSUME NEW s \in DOMAIN draft.stalls, update(s)
      PROVE  EditorInv'
  BY <1>1, UpdateStep
<1>2. ASSUME resize \/ addStall \/ discard \/ LoadRow \/ LoadStalls
      PROVE  EditorInv'
  BY <1>2, ResizeStep, AddStep, DiscardStep, LoadStep
<1>3. ASSUME NEW c \in Call,
             save(c) \/ SendUnchecked(c) \/ Answered(c) \/ Unreachable(c) \/ Vanishes(c)
               \/ Refuse(c) \/ write_stalls(c) \/ ReadSaved(c)
      PROVE  EditorInv'
  BY <1>3, SendStep, AnswerStep, LostStep, RefuseStep, WriteStep, ReadStep
<1>4. CASE UNCHANGED editorVars
  BY <1>4, OnlyCalls DEF editorVars, EditorInv, CallsFit, CallFits, IsCopy, RevisionFits,
       check_stall_ids
<1> QED
  BY <1>1, <1>2, <1>3, <1>4 DEF EditorNext

\* Whatever is sent, stored stalls are apart and, once saved, inside the canvas,
\* and a draft the screen lets through is refused only for what the screen does
\* not look at or compares otherwise, for any three ways to compare labels:
\* layouts/geometry.py check_plan, layouts/services.py save_version.
THEOREM StoredPlansAreSound == EditorSpec => []SavedPlansAreSound
<1>1. EditorInit => EditorInv
  BY EditorStarts
<1>2. EditorInv /\ [EditorNext]_editorVars => EditorInv'
  BY EditorStep
<1>3. EditorInv => SavedPlansAreSound
  BY DEF EditorInv, PlanIsSound, Apart, Inside, CallsFit, CallFits, SavedPlansAreSound
<1> QED
  BY <1>1, <1>2, <1>3, PTL DEF EditorSpec

\* A screen with the server's revision has the server's plan, for any number
\* of requests on their way: layouts/services.py save_version, VersionEditor.tsx.
THEOREM ScreensKnowTheirPlan == EditorSpec => []ScreenKnowsItsPlan
<1>1. EditorInit => EditorInv
  BY EditorStarts
<1>2. EditorInv /\ [EditorNext]_editorVars => EditorInv'
  BY EditorStep
<1>3. EditorInv => ScreenKnowsItsPlan
  BY DEF EditorInv, IsCopy, ScreenKnowsItsPlan
<1> QED
  BY <1>1, <1>2, <1>3, PTL DEF EditorSpec

-----------------------------------------------------------------------------
(* The server's search *)

\* Comparing longitudes as numbers finds what lies east of one edge and west
\* of the other, also in a box that crosses the antimeridian.
LEMMA LongitudesMeet ==
  ASSUME NEW w \in -180..180, NEW e \in -180..180, NEW x \in -179..179
  PROVE  longitude_q(w, e, x)
           <=> (x - w) % 360 <= IF w <= e THEN e - w ELSE e - w + 360
<1>1. (x - w) % 360 = IF x >= w THEN x - w ELSE x - w + 360
  OBVIOUS
<1> QED
  BY <1>1 DEF longitude_q

\* No more than D degrees from L to x, on either side.
Within(L, D, x) ==
  /\ L \in -180..180 /\ D \in 0..179 /\ x \in -179..179
  /\ \E turn \in {-360, 0, 360} : -D <= x + turn - L /\ x + turn - L <= D

PrefilterTakes(L, D, x) ==
  longitude_q(IF L - D < -180 THEN wrap(L - D) ELSE L - D,
              IF L + D > 180 THEN wrap(L + D) ELSE L + D, x)

\* The prefilter loses no market of the circle, also across the antimeridian
\* and around a pole.
LEMMA PrefilterIsWide ==
  ASSUME NEW L, NEW D, NEW x, Within(L, D, x)
  PROVE  PrefilterTakes(L, D, x)
<1>0. PICK turn \in {-360, 0, 360} :
        /\ L \in -180..180 /\ D \in 0..179 /\ x \in -179..179
        /\ -D <= x + turn - L /\ x + turn - L <= D
  BY DEF Within
<1>1. L - D < -180 => wrap(L - D) = L - D + 360
  BY <1>0 DEF wrap
<1>2. L + D > 180 => wrap(L + D) = L + D - 360
  BY <1>0 DEF wrap
<1>3. CASE L - D < -180
  <2>1. ~(L + D > 180) /\ L - D + 360 > L + D
    BY <1>0, <1>3
  <2>2. x >= L - D + 360 \/ x <= L + D
    BY <1>0, <1>3
  <2> QED
    BY <1>0, <1>1, <1>3, <2>1, <2>2 DEF longitude_q, PrefilterTakes
<1>4. CASE L + D > 180
  <2>1. ~(L - D < -180) /\ L - D > L + D - 360
    BY <1>0, <1>4
  <2>2. x >= L - D \/ x <= L + D - 360
    BY <1>0, <1>4
  <2> QED
    BY <1>0, <1>2, <1>4, <2>1, <2>2 DEF longitude_q, PrefilterTakes
<1>5. CASE L - D >= -180 /\ L + D <= 180
  <2>1. turn = 0
    BY <1>0, <1>5
  <2> QED
    BY <1>0, <1>5, <2>1 DEF longitude_q, PrefilterTakes
<1> QED
  BY <1>0, <1>3, <1>4, <1>5

LEMMA CirclesAreFound ==
  ASSUME NEW f \in Filters, f.near # None, NEW p \in Location
  PROVE  near_prefilter_q(f.near, p) /\ Distance(f.near, p) <= f.near.radius_km
           <=> InCircle(f.near, p)
<1> DEFINE n == f.near
<1>1. n.lat \in -90..90 /\ n.lng \in -180..180 /\ Dlat(n) \in Nat /\ Dlng(n) \in Nat
  BY DiscoveryAssumption DEF DiscoveryFilters
<1>2. p.lat \in -90..90 /\ p.lng \in -179..179
  BY DEF Location
<1>3. n.lat - Dlat(n) <= p.lat /\ p.lat <= n.lat + Dlat(n)
        <=> -Dlat(n) <= p.lat - n.lat /\ p.lat - n.lat <= Dlat(n)
  <2>1. \A a, d, x \in Int : a - d <= x /\ x <= a + d <=> -d <= x - a /\ x - a <= d
    OBVIOUS
  <2>2. n.lat \in Int /\ Dlat(n) \in Int /\ p.lat \in Int
    BY <1>1, <1>2
  <2> HIDE DEF n
  <2> QED
    BY <2>1, <2>2
<1>4. ASSUME Distance(n, p) <= n.radius_km,
             ~(n.lat - Dlat(n) <= -90), ~(n.lat + Dlat(n) >= 90), ~(Dlng(n) >= 180)
      PROVE  longitude_q(IF n.lng - Dlng(n) < -180 THEN wrap(n.lng - Dlng(n)) ELSE n.lng - Dlng(n),
                         IF n.lng + Dlng(n) > 180 THEN wrap(n.lng + Dlng(n)) ELSE n.lng + Dlng(n),
                         p.lng)
  <2>1. \E turn \in {-360, 0, 360} : /\ -Dlng(n) <= p.lng + turn - n.lng
                                    /\ p.lng + turn - n.lng <= Dlng(n)
    <3>1. -90 < n.lat - Dlat(n) /\ n.lat + Dlat(n) < 90
      BY <1>1, <1>4
    <3> QED
      BY <3>1, <1>4, DiscoveryAssumption DEF CirclesAreNarrow
  <2>2. n.lng \in -180..180 /\ p.lng \in -179..179
    BY <1>1, <1>2
  <2>3. Dlng(n) \in 0..179
    BY <1>1, <1>4
  <2>4. Within(n.lng, Dlng(n), p.lng)
    <3> HIDE DEF n
    <3> QED  BY <2>1, <2>2, <2>3 DEF Within
  <2> QED
    BY <2>4, PrefilterIsWide DEF PrefilterTakes
<1> QED
  BY <1>3, <1>4 DEF near_prefilter_q, InCircle

DiscoveryTypeOK ==
  /\ listing \in [Market -> Listing]
  /\ calendar \in [Occurrence -> Row]
  /\ moment \in Nat
  /\ query \in Filters
  /\ cursor \in Nat \cup {None}
  /\ shown \in Seq(Market)
  /\ page # None =>
       page \in [markets : Seq(Market), next : Nat \cup {None}, now : Nat]
  /\ marks # None =>
       marks \in [items : Seq(Market), total : Nat \cup {None}, truncated : BOOLEAN, now : Nat]
  /\ changed \in BOOLEAN

\* What the query finds is what the search is about.
LEMMA WantedAreFound ==
  ASSUME DiscoveryTypeOK
  PROVE  \A m \in Market : m \in eligible_markets(query, moment) <=> Wanted(m)
<1> SUFFICES ASSUME NEW m \in Market
             PROVE  m \in eligible_markets(query, moment) <=> Wanted(m)
  OBVIOUS
<1> DEFINE p == listing[m].place
<1>1. p \in Location \cup {None}
  BY DiscoveryAssumption DEF DiscoveryTypeOK, DiscoveryRows
<1>2. query.near # None /\ p # None =>
        (near_prefilter_q(query.near, p) /\ Distance(query.near, p) <= query.near.radius_km
           <=> InCircle(query.near, p))
  BY <1>1, CirclesAreFound DEF DiscoveryTypeOK
<1>3. query.bbox # None /\ p # None => (bbox_q(query.bbox, p) <=> InBox(query.bbox, p))
  <2> SUFFICES ASSUME query.bbox # None, p # None
               PROVE  bbox_q(query.bbox, p) <=> InBox(query.bbox, p)
    OBVIOUS
  <2>1. query.bbox.west \in -180..180 /\ query.bbox.east \in -180..180
    BY DiscoveryAssumption DEF DiscoveryTypeOK, DiscoveryFilters
  <2>2. p.lng \in -179..179
    BY <1>1 DEF Location
  <2>3. longitude_q(query.bbox.west, query.bbox.east, p.lng)
          <=> (p.lng - query.bbox.west) % 360
                <= IF query.bbox.west <= query.bbox.east
                   THEN query.bbox.east - query.bbox.west
                   ELSE query.bbox.east - query.bbox.west + 360
    <3> HIDE DEF p
    <3> QED  BY <2>1, <2>2, LongitudesMeet
  <2> QED
    BY <2>3 DEF bbox_q, InBox
<1>4. Dates(query, moment, m) # {}
        <=> \E o \in Occurrence : calendar[o].market = m /\ o \in matching_occurrences(query, moment)
  BY DEF Dates, matching_occurrences
<1> HIDE DEF p
<1> QED
  BY <1>2, <1>3, <1>4 DEF eligible_markets, Wanted, p

\* "Deterministically ordered": of two markets found, one comes first.
LEMMA OneComesFirst ==
  ASSUME DiscoveryTypeOK, NEW t \in Nat,
         NEW k \in eligible_markets(query, t), NEW m \in eligible_markets(query, t), k # m
  PROVE  Precedes(query, t, k, m) <=> ~Precedes(query, t, m, k)
<1>1. k \in Nat /\ m \in Nat
  BY DiscoveryAssumption DEF eligible_markets, DiscoveryIds
<1>2. distance_km(query, k) \in Nat /\ distance_km(query, m) \in Nat
  BY DiscoveryAssumption DEF distance_km, eligible_markets, DiscoveryFilters, DiscoveryRows, DiscoveryTypeOK
<1>3. ~(StartsEarlier(query, t, k, m) /\ StartsEarlier(query, t, m, k))
  <2> SUFFICES ASSUME NEW o \in Dates(query, t, k), NEW p \in Dates(query, t, m),
                      \A q \in Dates(query, t, m) : calendar[o].starts_at < calendar[q].starts_at,
                      \A q \in Dates(query, t, k) : calendar[p].starts_at < calendar[q].starts_at
               PROVE  FALSE
    BY DEF StartsEarlier
  <2>1. calendar[o].starts_at \in Int /\ calendar[p].starts_at \in Int
    BY DiscoveryAssumption DEF DiscoveryRows, DiscoveryTypeOK, Dates, matching_occurrences
  <2> QED
    BY <2>1
<1> QED
  BY <1>1, <1>2, <1>3 DEF Precedes

\* The list q has the n elements of E, each once and in the order R.
Lists(q, n, E, R) ==
  /\ q \in [1..n -> E]
  /\ \A m \in E : \E i \in 1..n : q[i] = m
  /\ \A i, j \in 1..n : i < j => q[i] # q[j] /\ <<q[j], q[i]>> \notin R

\* A list in which each element comes first of all that follow it has every
\* element at the place that counts those before it.
LEMMA OneOrder ==
  ASSUME NEW E, NEW n \in Nat, NEW R,
         \A k, m \in E : k # m => (<<k, m>> \in R <=> <<m, k>> \notin R),
         NEW r, Lists(r, n, E, R), NEW s, Lists(s, n, E, R)
  PROVE  r = s
<1> DEFINE Ahead(m) == {k \in E \ {m} : <<k, m>> \in R}
<1>1. ASSUME NEW q \in [1..n -> E], \A m \in E : \E i \in 1..n : q[i] = m,
             \A i, j \in 1..n : i < j => q[i] # q[j] /\ <<q[j], q[i]>> \notin R,
             NEW i \in 1..n
      PROVE  Cardinality(Ahead(q[i])) = i - 1
  <2> DEFINE h == [j \in 1..(i - 1) |-> q[j]]
  <2>1. \A j \in 1..(i - 1) : q[j] \in Ahead(q[i])
    <3> TAKE j \in 1..(i - 1)
    <3>1. j \in 1..n /\ j < i
      OBVIOUS
    <3>2. q[j] # q[i] /\ <<q[i], q[j]>> \notin R /\ q[j] \in E /\ q[i] \in E
      BY <1>1, <3>1
    <3> QED
      BY <3>2
  <2>2. \A k \in Ahead(q[i]) : \E j \in 1..(i - 1) : q[j] = k
    <3> TAKE k \in Ahead(q[i])
    <3>1. PICK j \in 1..n : q[j] = k
      BY <1>1
    <3>2. j # i /\ <<q[j], q[i]>> \in R
      BY <3>1
    <3>3. ~(i < j)
      BY <1>1, <3>2
    <3> QED
      BY <3>1, <3>2, <3>3
  <2>3. h \in [1..(i - 1) -> Ahead(q[i])]
    BY <2>1
  <2>4. \A a, b \in 1..(i - 1) : h[a] = h[b] => a = b
    <3> TAKE a, b \in 1..(i - 1)
    <3>1. a \in 1..n /\ b \in 1..n
      OBVIOUS
    <3>2. a < b => q[a] # q[b]
      BY <1>1, <3>1
    <3>3. b < a => q[b] # q[a]
      BY <1>1, <3>1
    <3> QED
      BY <3>2, <3>3
  <2> HIDE DEF Ahead
  <2>5. h \in Surjection(1..(i - 1), Ahead(q[i])) /\ h \in Injection(1..(i - 1), Ahead(q[i]))
    BY <2>2, <2>3, <2>4 DEF Surjection, Injection, IsInjective
  <2>6. IsFiniteSet(1..(i - 1)) /\ Cardinality(1..(i - 1)) = i - 1
    BY FS_Interval
  <2> QED
    BY <2>5, <2>6, FS_Surjection
<1>3. r \in [1..n -> E] /\ s \in [1..n -> E]
  BY DEF Lists
<1>2. \A i \in 1..n : r[i] = s[i]
  <2> TAKE i \in 1..n
  <2>1. r[i] \in E
    BY <1>3
  <2>2. PICK j \in 1..n : s[j] = r[i]
    BY <2>1 DEF Lists
  <2>3. Cardinality(Ahead(r[i])) = i - 1
    <3> HIDE DEF Ahead
    <3> QED  BY <1>1 DEF Lists
  <2>4. Cardinality(Ahead(s[j])) = j - 1
    <3> HIDE DEF Ahead
    <3> QED  BY <1>1 DEF Lists
  <2> QED
    BY <2>2, <2>3, <2>4
<1> QED
  BY <1>2, <1>3

LEMMA OneList ==
  ASSUME DiscoveryTypeOK, NEW t \in Nat,
         NEW r \in Sorted(eligible_markets(query, t), query, t),
         NEW s \in Sorted(eligible_markets(query, t), query, t)
  PROVE  r = s
<1> DEFINE E == eligible_markets(query, t)
           n == Cardinality(E)
           R == {e \in E \X E : Precedes(query, t, e[1], e[2])}
<1>1. n \in Nat
  <2>1. E \in SUBSET Market
    BY DEF eligible_markets
  <2> HIDE DEF E
  <2> QED
    BY <2>1, DiscoveryAssumption, FS_Subset, FS_CardinalityType DEF DiscoveryIds
<1>2. \A k, m \in E : <<k, m>> \in R <=> Precedes(query, t, k, m)
  <2> HIDE DEF E
  <2> QED
    OBVIOUS
<1>3. \A k, m \in E : k # m => (<<k, m>> \in R <=> <<m, k>> \notin R)
  BY <1>2, OneComesFirst
<1>4. ASSUME NEW q \in Sorted(E, query, t)
      PROVE  Lists(q, n, E, R)
  <2>1. q \in [1..n -> E] /\ DOMAIN q = 1..n
    BY <1>4 DEF Sorted
  <2> HIDE DEF R, n, E
  <2> QED
    BY <1>2, <1>4, <2>1 DEF Sorted, n, Lists
<1> HIDE DEF R, n
<1>5. Lists(r, n, E, R) /\ Lists(s, n, E, R)
  BY <1>4
<1> HIDE DEF E
<1> QED
  BY <1>1, <1>3, <1>5, OneOrder

\* The list under way: any, before the first page or the map was asked for.
Fresh == cursor = 0 /\ shown = <<>> /\ page = None /\ marks = None

TheList == Sorted(eligible_markets(query, moment), query, moment)

\* The answer to a request of time t still is the answer.
AsOf(t) == matching_occurrences(query, t) = matching_occurrences(query, moment)

\* The pages cut s at the cursors.
PagesFollow(s) ==
  /\ cursor = None => shown = s
  /\ cursor # None => cursor \in 0..Len(s) /\ shown = SubSeq(s, 1, cursor)
  /\ page # None =>
       /\ cursor # None
       /\ AsOf(page.now)
       /\ page.next = None => page.markets = SubSeq(s, cursor + 1, Len(s))
       /\ page.next # None => /\ page.next \in cursor..Len(s)
                              /\ page.markets = SubSeq(s, cursor + 1, page.next)

\* The map shows the first markets of s.
MarksFollow(s) ==
  marks # None =>
    /\ query.bbox # None \/ query.near # None
    /\ AsOf(marks.now)
    /\ marks.truncated <=> Len(s) > MAP_MAX_MARKERS
    /\ marks.items = SubSeq(s, 1, IF marks.truncated THEN MAP_MAX_MARKERS ELSE Len(s))
    /\ marks.total \in {None, Len(s)}

\* Until something changes there is one list that all answers are parts of.
DiscoveryInv ==
  /\ DiscoveryTypeOK
  /\ ~changed => Fresh \/ \E s \in TheList : PagesFollow(s) /\ MarksFollow(s)

LEMMA ListsAreSequences ==
  ASSUME NEW f, NEW t, NEW E \in SUBSET Market, NEW s \in Sorted(E, f, t)
  PROVE  /\ s \in Seq(Market)
         /\ Len(s) = Cardinality(E) /\ Len(s) \in Nat
         /\ DOMAIN s = 1..Len(s)
         /\ \A i \in 1..Len(s) : s[i] \in E
         /\ \A m \in E : \E i \in 1..Len(s) : s[i] = m
         /\ \A i, j \in 1..Len(s) : i < j => s[i] # s[j] /\ ~Precedes(f, t, s[j], s[i])
<1> DEFINE n == Cardinality(E)
<1>1. n \in Nat
  BY DiscoveryAssumption, FS_Subset, FS_CardinalityType DEF DiscoveryIds
<1>2. s \in [1..n -> E] /\ DOMAIN s = 1..n
  BY DEF Sorted
<1> HIDE DEF n
<1>3. s \in [1..n -> Market]
  BY <1>2
<1>4. s \in Seq(Market)
  BY <1>1, <1>3, SeqDef
<1>5. Len(s) = n
  BY <1>1, <1>2, <1>4, LenProperties
<1> QED
  BY <1>1, <1>2, <1>4, <1>5 DEF Sorted, n

\* The markets found and their order depend on the time by the dates only.
LEMMA SameDatesSameList ==
  ASSUME NEW f, NEW t, NEW u, matching_occurrences(f, t) = matching_occurrences(f, u)
  PROVE  /\ eligible_markets(f, t) = eligible_markets(f, u)
         /\ Placed(f, t) = Placed(f, u)
         /\ \A E : Sorted(E, f, t) = Sorted(E, f, u)
<1>1. \A m : Dates(f, t, m) = Dates(f, u, m)
  BY DEF Dates
<1>2. eligible_markets(f, t) = eligible_markets(f, u)
  BY <1>1 DEF eligible_markets
<1>3. \A k, m : Precedes(f, t, k, m) <=> Precedes(f, u, k, m)
  BY <1>1 DEF Precedes, StartsEarlier
<1> QED
  BY <1>2, <1>3 DEF Placed, Sorted

LEMMA CirclesHavePlaces ==
  ASSUME NEW t, query.bbox # None \/ query.near # None
  PROVE  Placed(query, t) = eligible_markets(query, t)
BY DEF Placed, eligible_markets

LEMMA SameRowsSameList ==
  ASSUME UNCHANGED <<listing, calendar, moment, query>>
  PROVE  /\ TheList' = TheList
         /\ \A t : AsOf(t)' <=> AsOf(t)
         /\ \A t : Placed(query, t)' = Placed(query, t)
<1>1. \A t : matching_occurrences(query, t)' = matching_occurrences(query, t)
  BY DEF matching_occurrences
<1>2. \A t, m : Dates(query, t, m)' = Dates(query, t, m)
  BY <1>1 DEF Dates
<1>3. \A t : eligible_markets(query, t)' = eligible_markets(query, t)
  BY <1>2 DEF eligible_markets
<1>4. \A t, k, m : Precedes(query, t, k, m)' <=> Precedes(query, t, k, m)
  BY <1>2 DEF Precedes, StartsEarlier, distance_km
<1>5. \A t, E : Sorted(E, query, t)' = Sorted(E, query, t)
  BY <1>4 DEF Sorted
<1>6. eligible_markets(query, moment)' = eligible_markets(query, moment)
  BY <1>3
<1>7. TheList' = TheList
  BY <1>5, <1>6 DEF TheList
<1>8. \A t : AsOf(t)' <=> AsOf(t)
  BY <1>1 DEF AsOf
<1> QED
  BY <1>3, <1>7, <1>8 DEF Placed

\* While time alone passes, a search is answered alike until one of the dates
\* that are on ends.
LEMMA DatesEndOneByOne ==
  ASSUME NEW f, NEW t \in Nat, calendar \in [Occurrence -> Row],
         ~\E o \in Occurrence : calendar[o].status = "SCHEDULED" /\ calendar[o].ends_at = t + 1
  PROVE  matching_occurrences(f, t + 1) = matching_occurrences(f, t)
<1>1. \A o \in Occurrence : calendar[o].ends_at \in Int
  BY DiscoveryAssumption DEF DiscoveryRows
<1>2. \A o \in Occurrence : calendar[o].status = "SCHEDULED" =>
        (calendar[o].ends_at > t + 1 <=> calendar[o].ends_at > t)
  BY <1>1
<1> QED
  BY <1>2 DEF matching_occurrences

LEMMA DiscoveryInitInv == DiscoveryInit => DiscoveryInv
<1> SUFFICES ASSUME DiscoveryInit PROVE DiscoveryInv
  OBVIOUS
<1>1. <<>> \in Seq(Market)
  BY EmptySeq
<1> QED
  BY <1>1 DEF DiscoveryInit, DiscoveryInv, DiscoveryTypeOK, Fresh

LEMMA LimitsArePositive ==
  ASSUME NEW limit \in Limits
  PROVE  page_limit(limit) \in Nat \ {0}
BY DiscoveryAssumption DEF page_limit, DiscoveryIds

LEMMA SearchPageInv ==
  ASSUME DiscoveryInv, NEW limit \in Limits, search_page(limit)
  PROVE  DiscoveryInv'
<1> DEFINE n == page_limit(limit)
<1>1. n \in Nat \ {0}
  BY LimitsArePositive
<1> HIDE DEF n
<1>2. DiscoveryTypeOK /\ cursor \in Nat /\ page = None
  BY DEF DiscoveryInv, DiscoveryTypeOK, search_page
<1>3. UNCHANGED <<listing, calendar, moment, query, cursor, shown, marks, changed>>
  BY DEF search_page, rowVars
<1>4. PICK s \in TheList :
        page' = [markets |-> SubSeq(s, cursor + 1, IF Len(s) > cursor + n THEN cursor + n ELSE Len(s)),
                 next |-> IF Len(s) > cursor + n THEN cursor + n ELSE None, now |-> moment]
  BY DEF search_page, TheList, n
<1>5. /\ s \in Seq(Market) /\ Len(s) \in Nat /\ DOMAIN s = 1..Len(s)
      /\ \A i \in 1..Len(s) : s[i] \in Market
  <2>1. eligible_markets(query, moment) \in SUBSET Market
    BY DEF eligible_markets
  <2> QED
    BY <2>1, ListsAreSequences DEF TheList
<1> DEFINE b == IF Len(s) > cursor + n THEN cursor + n ELSE Len(s)
<1>6. SubSeq(s, cursor + 1, b) \in Seq(Market)
  <2>1. b \in Int /\ cursor + 1 \in Int /\ \A i \in cursor + 1..b : i \in 1..Len(s)
    BY <1>1, <1>2, <1>5
  <2> HIDE DEF b
  <2>2. \A i \in cursor + 1..b : s[i] \in Market
    BY <2>1, <1>5
  <2> QED
    BY <2>1, <2>2, SubSeqProperties
<1>7. DiscoveryTypeOK'
  BY <1>1, <1>2, <1>3, <1>4, <1>6 DEF DiscoveryTypeOK
<1>8. TheList' = TheList /\ \A t : AsOf(t)' <=> AsOf(t)
  BY <1>3, SameRowsSameList
<1>10. AsOf(page.now)'
  BY <1>3, <1>4 DEF AsOf
<1>11. /\ page'.next = None => page'.markets = SubSeq(s, cursor + 1, Len(s))
       /\ page'.next # None => /\ page'.next = cursor + n
                               /\ Len(s) > cursor + n
                               /\ page'.markets = SubSeq(s, cursor + 1, cursor + n)
  <2>1. cursor + n # None
    BY <1>1, <1>2, DiscoveryAssumption DEF DiscoveryRows
  <2> QED
    BY <1>4, <2>1
<1>12. cursor + n \in Nat /\ cursor + n > cursor
  BY <1>1, <1>2
<1>9. ASSUME ~changed' PROVE \E r \in TheList' : PagesFollow(r)' /\ MarksFollow(r)'
  <2>1. ~changed
    BY <1>3, <1>9
  <2>2. PagesFollow(s)' /\ MarksFollow(s)'
    <3>1. CASE Fresh
      <4>1. cursor' = 0 /\ shown' = <<>> /\ marks' = None /\ SubSeq(s, 1, 0) = <<>>
        BY <3>1, <1>3, SubSeqEmpty DEF Fresh
      <4>2. 0 # None
        BY DiscoveryAssumption DEF DiscoveryRows
      <4>3. page'.next # None => page'.next \in 0..Len(s)
        BY <4>1, <1>2, <1>3, <1>5, <1>11, <1>12
      <4> QED
        BY <4>1, <4>2, <4>3, <1>3, <1>5, <1>10, <1>11 DEF PagesFollow, MarksFollow
    <3>2. CASE \E r \in TheList : PagesFollow(r) /\ MarksFollow(r)
      <4>1. PICK r \in TheList : PagesFollow(r) /\ MarksFollow(r)
        BY <3>2
      <4>2. r = s
        BY <4>1, <1>2, OneList DEF TheList, DiscoveryTypeOK
      <4>3. MarksFollow(s)'
        BY <4>1, <4>2, <1>3, <1>8 DEF MarksFollow
      <4>4. PagesFollow(s)'
        <5>1. cursor # None /\ cursor \in 0..Len(s) /\ shown = SubSeq(s, 1, cursor)
          BY <4>1, <4>2, <1>2, DiscoveryAssumption DEF PagesFollow, DiscoveryRows
        <5>2. page'.next # None => page'.next \in cursor..Len(s)
          BY <1>2, <1>5, <1>11, <1>12
        <5> QED
          BY <5>1, <5>2, <1>3, <1>10, <1>11 DEF PagesFollow
      <4> QED
        BY <4>3, <4>4
    <3> QED
      BY <2>1, <3>1, <3>2 DEF DiscoveryInv
  <2> QED
    BY <2>1, <2>2, <1>8
<1> QED
  BY <1>7, <1>9 DEF DiscoveryInv

LEMMA TheListIsASequence ==
  ASSUME NEW s \in TheList
  PROVE  /\ s \in Seq(Market) /\ Len(s) \in Nat /\ DOMAIN s = 1..Len(s)
         /\ Len(s) = Cardinality(eligible_markets(query, moment))
         /\ \A i \in 1..Len(s) : s[i] \in eligible_markets(query, moment)
         /\ \A i \in 1..Len(s) : s[i] \in Market
         /\ \A m \in eligible_markets(query, moment) : \E i \in 1..Len(s) : s[i] = m
         /\ \A i, j \in 1..Len(s) : i < j =>
              s[i] # s[j] /\ ~Precedes(query, moment, s[j], s[i])
<1>1. eligible_markets(query, moment) \in SUBSET Market
  BY DEF eligible_markets
<1> QED
  BY <1>1, ListsAreSequences DEF TheList

LEMMA DiscoverMarketsInv ==
  ASSUME DiscoveryInv, discover_markets
  PROVE  DiscoveryInv'
<1>1. /\ UNCHANGED <<listing, calendar, moment, query, marks, changed>>
      /\ page # None /\ page' = None /\ shown' = shown \o page.markets /\ cursor' = page.next
  BY DEF discover_markets, rowVars
<1>2. /\ DiscoveryTypeOK
      /\ page.markets \in Seq(Market) /\ page.next \in Nat \cup {None} /\ shown \in Seq(Market)
  BY <1>1 DEF DiscoveryInv, DiscoveryTypeOK
<1>3. DiscoveryTypeOK'
  <2>1. shown' \in Seq(Market)
    BY <1>1, <1>2, ConcatProperties
  <2> QED
    BY <2>1, <1>1, <1>2 DEF DiscoveryTypeOK
<1>4. TheList' = TheList /\ \A t : AsOf(t)' <=> AsOf(t)
  BY <1>1, SameRowsSameList
<1>5. ASSUME ~changed' PROVE \E s \in TheList' : PagesFollow(s)' /\ MarksFollow(s)'
  <2>1. PICK s \in TheList : PagesFollow(s) /\ MarksFollow(s)
    BY <1>1, <1>5 DEF DiscoveryInv, Fresh
  <2>2. s \in Seq(Market) /\ Len(s) \in Nat
    BY TheListIsASequence
  <2>3. MarksFollow(s)'
    BY <2>1, <1>1, <1>4 DEF MarksFollow
  <2>4. cursor # None /\ cursor \in 0..Len(s) /\ shown = SubSeq(s, 1, cursor)
    BY <2>1, <1>1 DEF PagesFollow
  <2>5. CASE page.next = None
    <3>1. page.markets = SubSeq(s, cursor + 1, Len(s))
      BY <2>1, <2>5, <1>1 DEF PagesFollow
    <3>2. shown' = SubSeq(s, 1, Len(s))
      <4>1. 1 \in 1..Len(s) + 1 /\ cursor \in 1 - 1..Len(s) /\ Len(s) \in cursor..Len(s)
        BY <2>2, <2>4
      <4> QED
        BY <4>1, <3>1, <2>2, <2>4, <1>1, ConcatAdjacentSubSeq
    <3>3. shown' = s
      BY <3>2, <2>2, SubSeqFull
    <3> QED
      BY <3>3, <2>3, <2>5, <1>1, <1>4 DEF PagesFollow
  <2>6. CASE page.next # None
    <3>1. page.next \in cursor..Len(s) /\ page.markets = SubSeq(s, cursor + 1, page.next)
      BY <2>1, <2>6, <1>1 DEF PagesFollow
    <3>2. shown' = SubSeq(s, 1, page.next)
      <4>1. 1 \in 1..Len(s) + 1 /\ cursor \in 1 - 1..Len(s) /\ page.next \in cursor..Len(s)
        BY <2>2, <2>4, <3>1
      <4> QED
        BY <4>1, <3>1, <2>2, <2>4, <1>1, ConcatAdjacentSubSeq
    <3>3. page.next \in 0..Len(s)
      BY <3>1, <2>2, <2>4
    <3> QED
      BY <3>2, <3>3, <2>3, <2>6, <1>1, <1>4 DEF PagesFollow
  <2> QED
    BY <2>5, <2>6
<1> QED
  BY <1>3, <1>5 DEF DiscoveryInv

LEMMA PageFailsInv ==
  ASSUME DiscoveryInv, PageFails
  PROVE  DiscoveryInv'
<1>1. /\ UNCHANGED <<listing, calendar, moment, query, cursor, shown, marks, changed>>
      /\ page # None /\ page' = None
  BY DEF PageFails, rowVars
<1>2. DiscoveryTypeOK'
  BY <1>1 DEF DiscoveryInv, DiscoveryTypeOK
<1>3. TheList' = TheList /\ \A t : AsOf(t)' <=> AsOf(t)
  BY <1>1, SameRowsSameList
<1>4. ASSUME ~changed' PROVE \E s \in TheList' : PagesFollow(s)' /\ MarksFollow(s)'
  <2>1. PICK s \in TheList : PagesFollow(s) /\ MarksFollow(s)
    BY <1>1, <1>4 DEF DiscoveryInv, Fresh
  <2>2. PagesFollow(s)'
    BY <2>1, <1>1 DEF PagesFollow
  <2>3. MarksFollow(s)'
    BY <2>1, <1>1, <1>3 DEF MarksFollow
  <2> QED
    BY <2>2, <2>3, <1>3
<1> QED
  BY <1>2, <1>4 DEF DiscoveryInv

LEMMA MapMarkersInv ==
  ASSUME DiscoveryInv, map_markers
  PROVE  DiscoveryInv'
<1>1. /\ UNCHANGED <<listing, calendar, moment, query, cursor, shown, page, changed>>
      /\ query.bbox # None \/ query.near # None
      /\ marks = None
  BY DEF map_markers, rowVars
<1>2. Placed(query, moment) = eligible_markets(query, moment)
  BY <1>1, CirclesHavePlaces
<1>3. PICK s \in TheList :
        LET truncated == Len(s) > MAP_MAX_MARKERS
        IN  marks' = [items |-> SubSeq(s, 1, IF truncated THEN MAP_MAX_MARKERS ELSE Len(s)),
                      total |-> IF truncated THEN None ELSE Len(s),
                      truncated |-> truncated, now |-> moment]
  BY <1>2 DEF map_markers, TheList
<1>4. /\ s \in Seq(Market) /\ Len(s) \in Nat /\ \A i \in 1..Len(s) : s[i] \in Market
      /\ MAP_MAX_MARKERS \in Nat
  BY TheListIsASequence, DiscoveryAssumption DEF DiscoveryIds
<1> DEFINE truncated == Len(s) > MAP_MAX_MARKERS
           b == IF truncated THEN MAP_MAX_MARKERS ELSE Len(s)
<1>5. SubSeq(s, 1, b) \in Seq(Market)
  <2>1. b \in Int /\ \A i \in 1..b : i \in 1..Len(s)
    BY <1>4
  <2> HIDE DEF b
  <2>2. \A i \in 1..b : s[i] \in Market
    BY <2>1, <1>4
  <2> QED
    BY <2>1, <2>2, SubSeqProperties
<1>6. /\ marks'.items = SubSeq(s, 1, b) /\ marks'.truncated = truncated
      /\ marks'.total = (IF truncated THEN None ELSE Len(s)) /\ marks'.now = moment
  BY <1>3
<1>7. DiscoveryTypeOK'
  <2>1. moment \in Nat
    BY DEF DiscoveryInv, DiscoveryTypeOK
  <2>2. marks' \in [items : Seq(Market), total : Nat \cup {None}, truncated : BOOLEAN, now : Nat]
    BY <2>1, <1>3, <1>4, <1>5
  <2> QED
    BY <2>2, <1>1 DEF DiscoveryInv, DiscoveryTypeOK
<1>8. TheList' = TheList /\ \A t : AsOf(t)' <=> AsOf(t)
  BY <1>1, SameRowsSameList
<1>9. MarksFollow(s)'
  <2>1. AsOf(marks.now)'
    BY <1>1, <1>6 DEF AsOf
  <2>2. marks'.truncated <=> Len(s) > MAP_MAX_MARKERS
    BY <1>6
  <2>3. marks'.items = SubSeq(s, 1, IF marks'.truncated THEN MAP_MAX_MARKERS ELSE Len(s))
    BY <1>6
  <2>4. marks'.total \in {None, Len(s)}
    BY <1>6
  <2> HIDE DEF b, truncated
  <2> QED
    BY <2>1, <2>2, <2>3, <2>4, <1>1 DEF MarksFollow
<1>10. ASSUME ~changed' PROVE \E r \in TheList' : PagesFollow(r)' /\ MarksFollow(r)'
  <2>1. PagesFollow(s)'
    <3>1. CASE Fresh
      <4>1. cursor' = 0 /\ shown' = <<>> /\ page' = None /\ SubSeq(s, 1, 0) = <<>> /\ 0 # None
        BY <3>1, <1>1, SubSeqEmpty, DiscoveryAssumption DEF Fresh, DiscoveryRows
      <4> QED
        BY <4>1, <1>4 DEF PagesFollow
    <3>2. CASE \E r \in TheList : PagesFollow(r) /\ MarksFollow(r)
      <4>1. PICK r \in TheList : PagesFollow(r)
        BY <3>2
      <4>2. r = s
        BY <4>1, OneList DEF TheList, DiscoveryInv, DiscoveryTypeOK
      <4> QED
        BY <4>1, <4>2, <1>1, <1>8 DEF PagesFollow
    <3> QED
      BY <1>1, <1>10, <3>1, <3>2 DEF DiscoveryInv
  <2> QED
    BY <2>1, <1>8, <1>9
<1> QED
  BY <1>7, <1>10 DEF DiscoveryInv

LEMMA CountMarkersInv ==
  ASSUME DiscoveryInv, count_markers
  PROVE  DiscoveryInv'
<1>1. /\ UNCHANGED <<listing, calendar, moment, query, cursor, shown, page, changed>>
      /\ marks # None
      /\ marks' = [marks EXCEPT !.total = Cardinality(Placed(query, marks.now))]
  BY DEF count_markers, rowVars
<1>2. marks \in [items : Seq(Market), total : Nat \cup {None}, truncated : BOOLEAN, now : Nat]
  BY <1>1 DEF DiscoveryInv, DiscoveryTypeOK
<1>3. Cardinality(Placed(query, marks.now)) \in Nat
  <2>1. Placed(query, marks.now) \in SUBSET Market
    BY DEF Placed, eligible_markets
  <2> QED
    BY <2>1, DiscoveryAssumption, FS_Subset, FS_CardinalityType DEF DiscoveryIds
<1>4. /\ marks'.items = marks.items /\ marks'.truncated = marks.truncated
      /\ marks'.now = marks.now /\ marks'.total = Cardinality(Placed(query, marks.now))
      /\ marks' \in [items : Seq(Market), total : Nat \cup {None}, truncated : BOOLEAN, now : Nat]
  BY <1>1, <1>2, <1>3
<1>5. DiscoveryTypeOK'
  BY <1>1, <1>4 DEF DiscoveryInv, DiscoveryTypeOK
<1>6. TheList' = TheList /\ \A t : AsOf(t)' <=> AsOf(t)
  BY <1>1, SameRowsSameList
<1>7. ASSUME ~changed' PROVE \E s \in TheList' : PagesFollow(s)' /\ MarksFollow(s)'
  <2>1. PICK s \in TheList : PagesFollow(s) /\ MarksFollow(s)
    BY <1>1, <1>7 DEF DiscoveryInv, Fresh
  <2>2. PagesFollow(s)'
    BY <2>1, <1>1, <1>6 DEF PagesFollow
  <2>3. Cardinality(Placed(query, marks.now)) = Len(s)
    <3>1. /\ matching_occurrences(query, marks.now) = matching_occurrences(query, moment)
          /\ query.bbox # None \/ query.near # None
      BY <2>1, <1>1 DEF MarksFollow, AsOf
    <3>2. Placed(query, marks.now) = eligible_markets(query, moment)
      BY <3>1, SameDatesSameList, CirclesHavePlaces
    <3> QED
      BY <3>2, TheListIsASequence
  <2>4. MarksFollow(s)'
    BY <2>1, <2>3, <1>1, <1>4, <1>6 DEF MarksFollow
  <2> QED
    BY <2>2, <2>4, <1>6
<1> QED
  BY <1>5, <1>7 DEF DiscoveryInv

LEMMA MomentPassesInv ==
  ASSUME DiscoveryInv, MomentPasses
  PROVE  DiscoveryInv'
<1>1. /\ UNCHANGED <<listing, calendar, query, cursor, shown, page, marks>>
      /\ moment' = moment + 1
      /\ changed' = (changed \/ \E o \in Occurrence : /\ calendar[o].status = "SCHEDULED"
                                                      /\ calendar[o].ends_at = moment')
  BY DEF MomentPasses
<1>2. DiscoveryTypeOK /\ moment \in Nat
  BY DEF DiscoveryInv, DiscoveryTypeOK
<1>3. DiscoveryTypeOK'
  BY <1>1, <1>2 DEF DiscoveryTypeOK
<1>4. ASSUME ~changed' PROVE Fresh' \/ \E s \in TheList' : PagesFollow(s)' /\ MarksFollow(s)'
  <2>1. ~changed
    BY <1>1, <1>2, <1>4 DEF DiscoveryTypeOK
  <2>2. matching_occurrences(query, moment + 1) = matching_occurrences(query, moment)
    BY <1>1, <1>2, <1>4, DatesEndOneByOne DEF DiscoveryTypeOK
  <2>3. \A t : matching_occurrences(query, t)' = matching_occurrences(query, t)
    BY <1>1 DEF matching_occurrences
  <2>4. \A t : AsOf(t)' <=> AsOf(t)
    <3>1. matching_occurrences(query, moment)' = matching_occurrences(query, moment)
      BY <2>2, <2>3, <1>1
    <3> QED
      BY <3>1, <2>3 DEF AsOf
  <2>5. TheList' = TheList
    <3>1. \A t, m : Dates(query, t, m)' = Dates(query, t, m)
      BY <2>3, <1>1 DEF Dates
    <3>2. \A t : eligible_markets(query, t)' = eligible_markets(query, t)
      BY <3>1, <1>1 DEF eligible_markets
    <3>3. \A t, k, m : Precedes(query, t, k, m)' <=> Precedes(query, t, k, m)
      BY <3>1, <1>1 DEF Precedes, StartsEarlier, distance_km
    <3>4. \A t, E : Sorted(E, query, t)' = Sorted(E, query, t)
      BY <3>3 DEF Sorted
    <3>5. TheList' = Sorted(eligible_markets(query, moment + 1), query, moment + 1)
      BY <3>2, <3>4, <1>1 DEF TheList
    <3> QED
      BY <3>5, <2>2, SameDatesSameList DEF TheList
  <2>6. Fresh => Fresh'
    BY <1>1 DEF Fresh
  <2>7. ASSUME NEW s \in TheList, PagesFollow(s), MarksFollow(s)
        PROVE  PagesFollow(s)' /\ MarksFollow(s)'
    <3>1. PagesFollow(s)'
      BY <2>4, <2>7, <1>1 DEF PagesFollow
    <3>2. MarksFollow(s)'
      BY <2>4, <2>7, <1>1 DEF MarksFollow
    <3> QED
      BY <3>1, <3>2
  <2> QED
    BY <2>1, <2>5, <2>6, <2>7 DEF DiscoveryInv
<1> QED
  BY <1>3, <1>4 DEF DiscoveryInv

LEMMA DiscoveryNextInv == DiscoveryInv /\ [DiscoveryNext]_discoveryVars => DiscoveryInv'
<1> SUFFICES ASSUME DiscoveryInv, [DiscoveryNext]_discoveryVars
             PROVE  DiscoveryInv'
  OBVIOUS
<1>1. ASSUME NEW f \in Filters, Search(f) PROVE DiscoveryInv'
  <2>1. <<>> \in Seq(Market)
    BY EmptySeq
  <2> QED
    BY <1>1, <2>1 DEF Search, DiscoveryInv, DiscoveryTypeOK, Fresh, rowVars
<1>2. ASSUME NEW limit \in Limits, search_page(limit) PROVE DiscoveryInv'
  BY <1>2, SearchPageInv
<1>3. CASE discover_markets
  BY <1>3, DiscoverMarketsInv
<1>4. CASE PageFails
  BY <1>4, PageFailsInv
<1>5. CASE map_markers
  BY <1>5, MapMarkersInv
<1>6. CASE count_markers
  BY <1>6, CountMarkersInv
<1>7. ASSUME NEW m \in Market, NEW l \in Listing, ChangeMarket(m, l) PROVE DiscoveryInv'
  <2>1. listing' \in [Market -> Listing]
    BY <1>7 DEF ChangeMarket, DiscoveryInv, DiscoveryTypeOK
  <2> QED
    BY <1>7, <2>1 DEF ChangeMarket, DiscoveryInv, DiscoveryTypeOK
<1>8. ASSUME NEW o \in Occurrence, NEW d \in Row, ChangeDate(o, d) PROVE DiscoveryInv'
  <2>1. calendar' \in [Occurrence -> Row]
    BY <1>8 DEF ChangeDate, DiscoveryInv, DiscoveryTypeOK
  <2> QED
    BY <1>8, <2>1 DEF ChangeDate, DiscoveryInv, DiscoveryTypeOK
<1>9. CASE MomentPasses
  BY <1>9, MomentPassesInv
<1>10. CASE UNCHANGED discoveryVars
  <2>1. UNCHANGED <<listing, calendar, moment, query, cursor, shown, page, marks, changed>>
    BY <1>10 DEF discoveryVars
  <2>2. DiscoveryTypeOK'
    BY <2>1 DEF DiscoveryInv, DiscoveryTypeOK
  <2>3. TheList' = TheList /\ \A t : AsOf(t)' <=> AsOf(t)
    BY <2>1, SameRowsSameList
  <2>4. \A s : PagesFollow(s) /\ MarksFollow(s) => PagesFollow(s)' /\ MarksFollow(s)'
    BY <2>1, <2>3 DEF PagesFollow, MarksFollow
  <2>5. Fresh => Fresh'
    BY <2>1 DEF Fresh
  <2> QED
    BY <2>1, <2>2, <2>3, <2>4, <2>5 DEF DiscoveryInv
<1> QED
  BY <1>1, <1>2, <1>3, <1>4, <1>5, <1>6, <1>7, <1>8, <1>9, <1>10 DEF DiscoveryNext

LEMMA WholePages ==
  ASSUME DiscoveryInv
  PROVE  PagesAreWhole
<1> SUFFICES ASSUME ~changed
             PROVE  /\ cursor = None => \A m \in Market : (\E i \in DOMAIN shown : shown[i] = m) <=> Wanted(m)
                    /\ \A i, j \in DOMAIN shown : i < j =>
                         shown[i] # shown[j] /\ ~Precedes(query, moment, shown[j], shown[i])
                    /\ page # None => \A i \in DOMAIN page.markets :
                                        Dates(query, page.now, page.markets[i]) # {}
  BY DEF PagesAreWhole
<1>1. CASE Fresh
  <2>1. cursor # None /\ DOMAIN shown = {} /\ page = None
    BY <1>1, DiscoveryAssumption DEF Fresh, DiscoveryRows
  <2> QED
    BY <2>1
<1>2. CASE \E s \in TheList : PagesFollow(s)
  <2>1. PICK s \in TheList : PagesFollow(s)
    BY <1>2
  <2>2. /\ s \in Seq(Market) /\ Len(s) \in Nat /\ DOMAIN s = 1..Len(s)
        /\ \A i \in 1..Len(s) : s[i] \in eligible_markets(query, moment)
        /\ \A m \in eligible_markets(query, moment) : \E i \in 1..Len(s) : s[i] = m
        /\ \A i, j \in 1..Len(s) : i < j =>
              s[i] # s[j] /\ ~Precedes(query, moment, s[j], s[i])
    BY TheListIsASequence
  <2>3. cursor = None => \A m \in Market : (\E i \in DOMAIN shown : shown[i] = m) <=> Wanted(m)
    <3>1. cursor = None => shown = s
      BY <2>1 DEF PagesFollow
    <3>2. \A m \in Market : m \in eligible_markets(query, moment) <=> Wanted(m)
      BY WantedAreFound DEF DiscoveryInv
    <3> QED
      BY <2>2, <3>1, <3>2
  <2>4. \A i \in DOMAIN shown : i \in 1..Len(s) /\ shown[i] = s[i]
    <3>1. CASE cursor = None
      BY <3>1, <2>1, <2>2 DEF PagesFollow
    <3>2. CASE cursor # None
      <4>1. cursor \in 0..Len(s) /\ shown = SubSeq(s, 1, cursor)
        BY <3>2, <2>1 DEF PagesFollow
      <4>2. \A i \in 1..cursor : s[i] \in Market
        BY <4>1, <2>2, ElementOfSeq
      <4>3. /\ shown \in Seq(Market) /\ Len(shown) = cursor
            /\ \A i \in 1..cursor : shown[i] = s[i]
        <5>1. /\ SubSeq(s, 1, cursor) \in Seq(Market)
              /\ Len(SubSeq(s, 1, cursor)) = IF 1 <= cursor THEN cursor - 1 + 1 ELSE 0
              /\ \A i \in 1..cursor - 1 + 1 : SubSeq(s, 1, cursor)[i] = s[1 + i - 1]
          BY <4>1, <4>2, SubSeqProperties
        <5> QED
          BY <5>1, <4>1
      <4> QED
        BY <4>1, <4>3, <2>2, LenProperties
    <3> QED
      BY <3>1, <3>2
  <2>5. ASSUME page # None, NEW i \in DOMAIN page.markets
        PROVE  Dates(query, page.now, page.markets[i]) # {}
    <3>1. /\ cursor # None /\ cursor \in 0..Len(s) /\ AsOf(page.now)
          /\ page.markets \in Seq(Market)
      BY <2>1, <2>5 DEF PagesFollow, DiscoveryInv, DiscoveryTypeOK
    <3>2. PICK b \in cursor..Len(s) : page.markets = SubSeq(s, cursor + 1, b)
      <4>1. Len(s) \in cursor..Len(s)
        BY <3>1, <2>2
      <4> QED
        BY <4>1, <2>1, <2>5 DEF PagesFollow
    <3>3. page.markets[i] \in eligible_markets(query, moment)
      <4>1. \A k \in cursor + 1..b : s[k] \in eligible_markets(query, moment)
        BY <3>1, <3>2, <2>2
      <4>2. cursor + 1 \in Int /\ b \in Int
        BY <3>1, <3>2
      <4>3. page.markets \in Seq(eligible_markets(query, moment))
        BY <4>1, <4>2, <3>2, SubSeqProperties
      <4> QED
        BY <4>3, <2>5, ElementOfSeq, LenProperties
    <3>4. Dates(query, moment, page.markets[i]) # {}
      BY <3>3 DEF eligible_markets
    <3> QED
      BY <3>1, <3>4 DEF Dates, AsOf
  <2> QED
    BY <2>2, <2>3, <2>4, <2>5
<1> QED
  BY <1>1, <1>2 DEF DiscoveryInv

LEMMA MapAndList ==
  ASSUME DiscoveryInv
  PROVE  MapShowsTheList
<1> SUFFICES ASSUME ~changed, cursor = None, marks # None
             PROVE  /\ marks.truncated <=> Len(shown) > MAP_MAX_MARKERS
                    /\ marks.items = SubSeq(shown, 1, Len(marks.items))
                    /\ Len(marks.items) = IF marks.truncated THEN MAP_MAX_MARKERS ELSE Len(shown)
                    /\ marks.total \in {None, Len(shown)}
  BY DEF MapShowsTheList
<1>1. PICK s \in TheList : PagesFollow(s) /\ MarksFollow(s)
  BY DEF DiscoveryInv, Fresh
<1>2. /\ shown = s
      /\ marks.truncated <=> Len(s) > MAP_MAX_MARKERS
      /\ marks.items = SubSeq(s, 1, IF marks.truncated THEN MAP_MAX_MARKERS ELSE Len(s))
      /\ marks.total \in {None, Len(s)}
  BY <1>1 DEF PagesFollow, MarksFollow
<1>3. s \in Seq(Market) /\ Len(s) \in Nat /\ MAP_MAX_MARKERS \in Nat /\ \A i \in 1..Len(s) : s[i] \in Market
  BY TheListIsASequence, DiscoveryAssumption DEF DiscoveryIds
<1> DEFINE b == IF marks.truncated THEN MAP_MAX_MARKERS ELSE Len(s)
<1>4. b \in Nat /\ b <= Len(s)
  BY <1>2, <1>3
<1>5. Len(SubSeq(s, 1, b)) = b
  <2> HIDE DEF b
  <2>1. \A i \in 1..b : s[i] \in Market
    BY <1>3, <1>4
  <2>2. Len(SubSeq(s, 1, b)) = IF 1 <= b THEN b - 1 + 1 ELSE 0
    BY <1>4, <2>1, SubSeqProperties
  <2> QED
    BY <1>4, <2>2
<1> QED
  BY <1>2, <1>5

LEMMA DiscoveryIsSound == DiscoverySpec => []DiscoveryInv
BY DiscoveryInitInv, DiscoveryNextInv, PTL DEF DiscoverySpec

\* Until a market or a date changes, whoever follows next_cursor to its end
\* sees exactly the markets the filters of build_filters ask for, each once, in
\* order, and no page fails (backend/markets/discovery.py, api.py).
THEOREM WholeSearches == DiscoverySpec => []PagesAreWhole
BY DiscoveryIsSound, WholePages, PTL

\* "One query path shared by list and map results": discover_map shows the
\* first markets of discover_markets' list and counts them all.
THEOREM OneQueryPath == DiscoverySpec => []MapShowsTheList
BY DiscoveryIsSound, MapAndList, PTL
=============================================================================
