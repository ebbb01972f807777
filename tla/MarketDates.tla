----------------------------- MODULE MarketDates -----------------------------
(***************************************************************************)
(* One market with its event dates and weekly series (backend/markets).    *)
(* Every operation locks the market's row first, so each is one step.      *)
(***************************************************************************)
EXTENDS Recurrence, Sequences, TLC

CONSTANTS
  Zone,      \* timezones a market can have
  Rule,      \* series definitions organizers ask for
  Instant,   \* start times organizers choose for a single date
  MaxDates,  \* how many dates a run makes
  LastTime   \* the last instant a run looks at

ASSUME DatesAssumption ==
  /\ Zone \subseteq Zones /\ Rule \subseteq Rules
  /\ Instant \subseteq Int
  /\ MaxDates \in Nat /\ LastTime \in Nat

VARIABLES
  place,   \* the market: status, timezone, and whether its venue is complete
  dates,   \* its EventOccurrence rows in the order they were made
  series,  \* its RecurrenceSeries rows
  clock

dateVars == <<place, dates, series, clock>>

NoSlot == -1000   \* series_slot_start of a date made by hand
NoSeries == [interval_weeks |-> 0]

NewDate(starts, ends, of, slot) ==
  [starts |-> starts, ends |-> ends, status |-> "SCHEDULED", series |-> of, slot |-> slot]

NotArchived == place.status # "ARCHIVED"

-----------------------------------------------------------------------------
(* The market *)

\* The local times of scheduled dates would shift.
MayMove(zone) == zone = place.zone \/ dates = <<>>

update_market(zone, venue) ==
  /\ NotArchived
  /\ MayMove(zone)
  /\ place.status = "PUBLISHED" => venue
  /\ place' = [place EXCEPT !.zone = zone, !.venue = venue]
  /\ UNCHANGED <<dates, series, clock>>

publish_market ==
  /\ place.status = "DRAFT"
  /\ place.venue
  /\ \E i \in DOMAIN dates : dates[i].status = "SCHEDULED" /\ dates[i].ends > clock
  /\ place' = [place EXCEPT !.status = "PUBLISHED"]
  /\ UNCHANGED <<dates, series, clock>>

archive_market ==
  /\ NotArchived
  /\ place' = [place EXCEPT !.status = "ARCHIVED"]
  /\ UNCHANGED <<dates, series, clock>>

-----------------------------------------------------------------------------
(* Dates *)

Free(starts, but) == \A i \in DOMAIN dates \ but : dates[i].starts # starts

create_occurrence(starts, ends) ==
  /\ NotArchived
  /\ starts < ends
  /\ Len(dates) < MaxDates
  /\ Free(starts, {})
  /\ dates' = Append(dates, NewDate(starts, ends, NoSeries, NoSlot))
  /\ UNCHANGED <<place, series, clock>>

\* Mutant: a moved date takes its new start as its slot.
Moved_WithSlot(i, starts, ends) ==
  [dates[i] EXCEPT !.starts = starts, !.ends = ends,
                   !.slot = IF dates[i].series = NoSeries THEN @ ELSE starts]

\* The slot stays the one the date was generated for.
Moved(i, starts, ends) == [dates[i] EXCEPT !.starts = starts, !.ends = ends]

update_occurrence(i, starts, ends) ==
  /\ NotArchived
  /\ dates[i].status = "SCHEDULED"
  /\ starts < ends
  /\ Free(starts, {i})
  /\ dates' = [dates EXCEPT ![i] = Moved(i, starts, ends)]
  /\ UNCHANGED <<place, series, clock>>

cancel_occurrence(i) ==
  /\ NotArchived
  /\ dates[i].status = "SCHEDULED"
  /\ dates' = [dates EXCEPT ![i].status = "CANCELLED"]
  /\ UNCHANGED <<place, series, clock>>

-----------------------------------------------------------------------------
(* Series *)

RowsOf(rule) == {i \in DOMAIN dates : dates[i].series = rule}

\* Mutant: a slot is missing when no date of the series starts then.
Missing_ByStart(rule) ==
  {s \in build_slots(rule, place.zone) : \A i \in RowsOf(rule) : dates[i].starts # s.starts}

Missing(rule) ==
  {s \in build_slots(rule, place.zone) : \A i \in RowsOf(rule) : dates[i].slot # s.starts}

\* The same definition is the same series: repeating a request makes the
\* missing dates only, and a clash undoes all of it.
create_series(rule) ==
  LET missing == Missing(rule)
  IN /\ NotArchived
     /\ validate_rule(rule, place.zone, clock)
     /\ can_build(rule, place.zone)
     /\ Len(dates) + Cardinality(missing) <= MaxDates
     /\ \A s \in missing : Free(s.starts, {})
     /\ \E order \in [1..Cardinality(missing) -> missing] :
          /\ \A j, k \in DOMAIN order : j < k => order[j].starts < order[k].starts
          /\ dates' = dates \o [j \in DOMAIN order |->
                 NewDate(order[j].starts, order[j].ends, rule, order[j].starts)]
     /\ series' = series \cup {rule}
     /\ UNCHANGED <<place, clock>>

DatesTick ==
  /\ clock < LastTime
  /\ clock' = clock + 1
  /\ UNCHANGED <<place, dates, series>>

-----------------------------------------------------------------------------
DatesInit ==
  /\ place \in [status : {"DRAFT"}, zone : Zone, venue : BOOLEAN]
  /\ dates = <<>>
  /\ series = {}
  /\ clock = 0

DatesNext ==
  \/ \E zone \in Zone, venue \in BOOLEAN : update_market(zone, venue)
  \/ publish_market
  \/ archive_market
  \/ \E t \in Instant : create_occurrence(t, t + 1)
  \/ \E i \in DOMAIN dates :
       \/ \E t \in Instant : update_occurrence(i, t, t + 1)
       \/ cancel_occurrence(i)
  \/ \E rule \in Rule : create_series(rule)
  \/ DatesTick

DatesSpec == DatesInit /\ [][DatesNext]_dateVars

-----------------------------------------------------------------------------
(* Properties *)

\* A series has exactly one date for every slot of its definition in the
\* market's timezone, whatever was moved or cancelled since and however often
\* the request was repeated; and what the rule says holds in that timezone:
\* the slots are on its weekdays, whole intervals apart, and end after they
\* start, also across a clock change.
SeriesAreWhole ==
  \A rule \in series :
    /\ {dates[i].slot : i \in RowsOf(rule)} = {s.starts : s \in build_slots(rule, place.zone)}
    /\ \A i, j \in RowsOf(rule) : dates[i].slot = dates[j].slot => i = j
    /\ Cardinality(RowsOf(rule)) = Cardinality(local_dates(rule))
    /\ \A s \in build_slots(rule, place.zone) : s.starts < s.ends
    /\ \A c, d \in local_dates(rule) :
         rule.interval_weeks = 1 \/ c \div 7 = d \div 7
           \/ (c \div 7 - d \div 7) % rule.interval_weeks = 0

\* Dates are never removed, a date never changes its slot or series, and a
\* cancelled one never changes at all: repeating the series request does not
\* bring it back.
DatesStay ==
  [][\A i \in DOMAIN dates :
       /\ i \in DOMAIN dates'
       /\ dates'[i].slot = dates[i].slot /\ dates'[i].series = dates[i].series
       /\ dates[i].status = "CANCELLED" => dates'[i] = dates[i]]_dateVars
=============================================================================
