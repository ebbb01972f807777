----------------------------- MODULE SearchScreen -----------------------------
(***************************************************************************)
(* The market search page (frontend/src/app/markets): a search text typed  *)
(* into a debounced field, filters that live in the page's address, the    *)
(* device's location, the list with its pages and the map's markers.       *)
(*                                                                         *)
(* What the page asks for, what it shows and what is under way differ:     *)
(* changing the address is a navigation that ends later, effects run       *)
(* after the page was drawn, a callback keeps the filters of the drawing   *)
(* that made it, and an answer may arrive at any time until its request    *)
(* is aborted.                                                             *)
(***************************************************************************)
EXTENDS Integers, Sequences, FiniteSets

CONSTANTS
  Text,       \* what may be typed; one of them is NoText
  Box,        \* areas of the map
  NoText, Nothing,
  MaxPage,    \* a search has at most this many pages
  MaxAttempt  \* a run presses "Try again" this often

ASSUME SearchAssumption ==
  /\ NoText \in Text
  /\ Nothing \notin Box
  /\ MaxPage \in Nat \ {0} /\ MaxAttempt \in Nat

VARIABLES
  typed,     \* queryInput
  timer,     \* what the debounce will put into the address, or Nothing
  url,       \* the filters of the last router.replace
  filters,   \* the filters the page was drawn with
  near,      \* whether the device's location is used
  locating,  \* the filters locateMe was drawn with, or Nothing
  viewport,  \* the map's area, or Nothing
  attempts,
  drawn,     \* the page was drawn and its effects have not run yet
  started,   \* the list's and the map's query that effects last started
  calls,     \* requests not answered and not aborted
  list,      \* the list's results
  markers    \* the map's results

searchVars == <<typed, timer, url, filters, near, locating, viewport, attempts,
                drawn, started, calls, list, markers>>

NoFilters == [q |-> NoText, area |-> Nothing]
NoResults == [status |-> "none"]   \* the list was never answered

\* listKey and mapQuery; the map's area takes the place of the filters'.
ListKey == <<filters, near, attempts>>
MapKey == IF viewport = Nothing THEN Nothing
          ELSE <<[filters EXCEPT !.area = viewport], near>>

Current == list # NoResults /\ list.key = ListKey
MapCurrent == markers # Nothing /\ MapKey # Nothing /\ markers = MapKey

Calls(kind) == {c \in calls : c.kind = kind}

updateFilters(from) == url' = from

-----------------------------------------------------------------------------
(* What the user does.  React runs the effects of one drawing before it    *)
(* handles the next action.                                                *)

Type(text) ==
  /\ ~drawn
  /\ text # typed
  /\ typed' = text
  /\ drawn' = TRUE
  /\ UNCHANGED <<timer, url, filters, near, locating, viewport, attempts, started, calls, list, markers>>

Submit ==
  /\ ~drawn
  /\ updateFilters([filters EXCEPT !.q = typed])
  /\ UNCHANGED <<typed, timer, filters, near, locating, viewport, attempts, drawn, started, calls, list, markers>>

clearAll ==
  /\ ~drawn
  /\ typed' = NoText
  /\ near' = FALSE
  /\ updateFilters(NoFilters)
  /\ drawn' = TRUE
  /\ UNCHANGED <<timer, filters, locating, viewport, attempts, started, calls, list, markers>>

locateMe ==
  /\ ~drawn
  /\ locating = Nothing /\ ~near
  /\ locating' = filters
  /\ UNCHANGED <<typed, timer, url, filters, near, viewport, attempts, drawn, started, calls, list, markers>>

\* The position arrives, or is refused.
Located ==
  /\ locating # Nothing
  /\ locating' = Nothing
  /\ \/ /\ near' = TRUE
        /\ drawn' = TRUE
        /\ IF locating.area # Nothing
           THEN updateFilters([locating EXCEPT !.area = Nothing]) ELSE UNCHANGED url
     \/ UNCHANGED <<near, url, drawn>>
  /\ UNCHANGED <<typed, timer, filters, viewport, attempts, started, calls, list, markers>>

clearNear ==
  /\ ~drawn
  /\ near
  /\ near' = FALSE
  /\ drawn' = TRUE
  /\ UNCHANGED <<typed, timer, url, filters, locating, viewport, attempts, started, calls, list, markers>>

handleViewport(box) ==
  /\ ~drawn
  /\ viewport # box
  /\ viewport' = box
  /\ drawn' = TRUE
  /\ UNCHANGED <<typed, timer, url, filters, near, locating, attempts, started, calls, list, markers>>

searchThisArea ==
  /\ ~drawn
  /\ viewport # Nothing /\ viewport # filters.area
  /\ near' = FALSE
  /\ updateFilters([filters EXCEPT !.area = viewport])
  /\ drawn' = TRUE
  /\ UNCHANGED <<typed, timer, filters, locating, viewport, attempts, started, calls, list, markers>>

tryAgain ==
  /\ ~drawn
  /\ Current /\ list.status = "error"
  /\ attempts < MaxAttempt
  /\ attempts' = attempts + 1
  /\ drawn' = TRUE
  /\ UNCHANGED <<typed, timer, url, filters, near, locating, viewport, started, calls, list, markers>>

loadMore ==
  /\ ~drawn
  /\ Current /\ list.next # 0
  /\ Calls("more") = {}   \* the button is disabled meanwhile
  /\ calls' = calls \cup {[kind |-> "more", key |-> ListKey, page |-> list.next]}
  /\ UNCHANGED <<typed, timer, url, filters, near, locating, viewport, attempts, drawn, started, list, markers>>

-----------------------------------------------------------------------------
(* The page itself *)

DebounceEnds ==
  /\ timer # Nothing
  /\ updateFilters(timer)
  /\ timer' = Nothing
  /\ UNCHANGED <<typed, filters, near, locating, viewport, attempts, drawn, started, calls, list, markers>>

NavigationEnds ==
  /\ ~drawn
  /\ filters # url
  /\ filters' = url
  /\ drawn' = TRUE
  /\ UNCHANGED <<typed, timer, url, near, locating, viewport, attempts, started, calls, list, markers>>

\* Mutant: the earlier request is left alone.
Aborted_None(kinds) == {}

Aborted(kinds) == {c \in calls : c.kind \in kinds}

\* An effect runs again when what it depends on has changed: it ends the
\* timer or the request it started before and starts another.
Effects ==
  /\ drawn
  /\ drawn' = FALSE
  /\ timer' = IF typed = filters.q THEN Nothing ELSE [filters EXCEPT !.q = typed]
  /\ LET newList == started.list # ListKey
         newMap == started.map # MapKey
     IN calls' = (calls \ Aborted((IF newList THEN {"list", "more"} ELSE {})
                                   \cup IF newMap THEN {"map"} ELSE {}))
                 \cup (IF newList THEN {[kind |-> "list", key |-> ListKey]} ELSE {})
                 \cup IF newMap /\ MapKey # Nothing
                      THEN {[kind |-> "map", key |-> MapKey]} ELSE {}
  /\ started' = [list |-> ListKey, map |-> MapKey]
  /\ UNCHANGED <<typed, url, filters, near, locating, viewport, attempts, list, markers>>

-----------------------------------------------------------------------------
(* Answers *)

\* search_page: the offset of the next page, if there is more.
Next_page(page) == {0} \cup (IF page < MaxPage THEN {page + 1} ELSE {})

ListArrives(c) ==
  /\ c \in Calls("list")
  /\ calls' = calls \ {c}
  /\ \/ \E next \in Next_page(1) :
          list' = [key |-> c.key, status |-> "ready", pages |-> <<1>>, next |-> next]
     \/ list' = [key |-> c.key, status |-> "error", pages |-> <<>>, next |-> 0]
  /\ UNCHANGED <<typed, timer, url, filters, near, locating, viewport, attempts, drawn, started, markers>>

MoreArrives(c) ==
  /\ c \in Calls("more")
  /\ calls' = calls \ {c}
  /\ \/ /\ list.key = c.key
        /\ \E next \in Next_page(c.page) :
             list' = [list EXCEPT !.pages = Append(list.pages, c.page), !.next = next]
     \/ UNCHANGED list   \* another search's, or it failed
  /\ UNCHANGED <<typed, timer, url, filters, near, locating, viewport, attempts, drawn, started, markers>>

MapArrives(c) ==
  /\ c \in Calls("map")
  /\ calls' = calls \ {c}
  /\ markers' = c.key   \* with its markers, or with an error
  /\ UNCHANGED <<typed, timer, url, filters, near, locating, viewport, attempts, drawn, started, list>>

SearchInit ==
  /\ filters \in [q : Text, area : {Nothing} \cup Box]
  /\ url = filters
  /\ typed = filters.q
  /\ timer = Nothing
  /\ near = FALSE
  /\ locating = Nothing
  /\ viewport = Nothing
  /\ attempts = 0
  /\ drawn = TRUE
  /\ started = [list |-> Nothing, map |-> Nothing]
  /\ calls = {}
  /\ list = NoResults
  /\ markers = Nothing

SearchNext ==
  \/ \E text \in Text : Type(text)
  \/ \E box \in Box : handleViewport(box)
  \/ Submit \/ clearAll \/ locateMe \/ Located \/ clearNear
  \/ searchThisArea \/ tryAgain \/ loadMore
  \/ DebounceEnds \/ NavigationEnds \/ Effects
  \/ \E c \in calls : ListArrives(c) \/ MoreArrives(c) \/ MapArrives(c)

SearchSpec == SearchInit /\ [][SearchNext]_searchVars

-----------------------------------------------------------------------------
\* Once the page shows the results of its search, on the list or on the map,
\* nothing takes them away but a newer search: no answer to an older request
\* replaces them, whatever the order in which answers arrive.  This says nothing
\* of the moment after a drawing for a new search, before its effect has aborted
\* the older requests and started its own: started is then behind the key.
NewerResultsStay ==
  [][/\ Current /\ started.list = ListKey /\ ListKey' = ListKey => Current'
     /\ MapCurrent /\ started.map = MapKey /\ MapKey' = MapKey => MapCurrent']_searchVars
=============================================================================
