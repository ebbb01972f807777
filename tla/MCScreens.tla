------------------------------ MODULE MCScreens -------------------------------
(* Three parts behind the web pages that share no state, one at a time: a
   market's dates (days of three hours, a zone without and one with a clock
   change), the search page (one text, one area) and the editor of a plan (four
   labels, a canvas of up to two by two, two calls; it starts with its stalls in
   the first row). *)
EXTENDS MarketDates, SearchScreen, PlanEditor

CONSTANTS text, box, A, B, C, X

MCZone == {[offset |-> 0, day |-> 0, hour |-> 0, jump |-> 0],
           [offset |-> 1, day |-> 8, hour |-> 1, jump |-> 1]}
MCRule ==
  {[interval_weeks |-> n, weekdays |-> w, start_date |-> 1, end_date |-> e,
    local_start |-> 0, local_end |-> h] :
     n \in {1, 2}, w \in {{2}, {1, 2}}, e \in {8, 15}, h \in {1, 2}}
MCInstant == {3, 24}

MCText == {NoText, text}
MCBox == {box}
MCLabel == {A, B, C, X}
MCPosition == {-1, 0, 1}

(* A and B are one label to the server and two to the screen, B and C are one
   to the index alone, and X only the server refuses. *)
AsWritten(label) == label
MCCasefold(label) == IF label = B THEN A ELSE label
MCLower(label) == IF label = C THEN B ELSE label

VARIABLE part

screensVars == <<part, dateVars, searchVars, editorVars>>

(* Where a part begins in several ways and another one runs, in one. *)
ScreensInit ==
  /\ part \in {"dates", "search", "editor"}
  /\ DatesInit /\ SearchInit /\ EditorInit
  /\ part # "dates" => ~place.venue /\ place.zone.jump = 0
  /\ part # "search" => filters = NoFilters
  /\ part # "editor" =>
       plan.rows = <<>> /\ plan.canvas = [width |-> 1, height |-> 1]
  /\ \A i \in DOMAIN plan.rows : plan.rows[i].y = 0

ScreensNext ==
  /\ UNCHANGED part
  /\ \/ /\ part = "dates" /\ DatesNext
        /\ UNCHANGED <<searchVars, editorVars>>
     \/ /\ part = "search" /\ SearchNext
        /\ UNCHANGED <<dateVars, editorVars>>
     \/ /\ part = "editor" /\ EditorNext
        /\ UNCHANGED <<dateVars, searchVars>>

ScreensSpec == ScreensInit /\ [][ScreensNext]_screensVars
=============================================================================
