------------------------------ MODULE Recurrence ------------------------------
(***************************************************************************)
(* Weekly recurrence (backend/markets/recurrence.py).                      *)
(*                                                                         *)
(* Days are numbered and day 0 is a Monday; a day has DayLength hours.  A  *)
(* zone has one clock change: from hour `hour' of day `day' on its offset  *)
(* grows by `jump', so that hour is skipped (1) or repeated (-1).          *)
(***************************************************************************)
EXTENDS Integers, FiniteSets

CONSTANTS
  DayLength,       \* hours in a day
  MaxOccurrences,  \* MARKET_SERIES_MAX_OCCURRENCES
  MaxDays          \* MARKET_SERIES_MAX_DAYS

ASSUME RecurrenceAssumption ==
  /\ DayLength \in Nat \ {0, 1}   \* a clock change is shorter than a day
  /\ MaxOccurrences \in Nat
  /\ MaxDays \in Nat

Zones == [offset : Int, day : Int, hour : Int, jump : {-1, 0, 1}]

Rules == [interval_weeks : Int, weekdays : SUBSET Int, start_date : Int, end_date : Int,
          local_start : Int, local_end : Int]

IsoWeekday(day) == (day % 7) + 1

-----------------------------------------------------------------------------
(* Local time to instants *)

Unclear(day, hour, zone) == zone.jump # 0 /\ day = zone.day /\ hour = zone.hour

AfterChange(day, hour, zone) ==
  day > zone.day \/ (day = zone.day /\ hour > zone.hour)

\* The instant of a local time that exists once.
to_instant(day, hour, zone) ==
  day * DayLength + hour
    - (zone.offset + (IF AfterChange(day, hour, zone) THEN zone.jump ELSE 0))

-----------------------------------------------------------------------------
(* The rule *)

validate_rule(rule, zone, now) ==
  /\ rule.interval_weeks \in 1..12
  /\ rule.weekdays # {} /\ rule.weekdays \subseteq 1..7
  /\ rule.start_date <= rule.end_date
  /\ to_instant(rule.start_date + 1, 0, zone) > now   \* it is not a past day
  /\ rule.end_date - rule.start_date < MaxDays
  /\ rule.local_start < rule.local_end

\* The days on the rule's weekdays, in every interval_weeks-th week counted
\* from the Monday of the week that contains start_date.
local_dates(rule) ==
  LET first_monday == rule.start_date - (IsoWeekday(rule.start_date) - 1)
  IN {day \in rule.start_date..rule.end_date :
        /\ ((day - first_monday) \div 7) % rule.interval_weeks = 0
        /\ IsoWeekday(day) \in rule.weekdays}

\* No date falls on a skipped or repeated hour; nothing is shifted silently.
can_build(rule, zone) ==
  /\ Cardinality(local_dates(rule)) \in 1..MaxOccurrences
  /\ \A day \in local_dates(rule) :
       ~Unclear(day, rule.local_start, zone) /\ ~Unclear(day, rule.local_end, zone)

build_slots(rule, zone) ==
  {[starts |-> to_instant(day, rule.local_start, zone),
    ends   |-> to_instant(day, rule.local_end, zone)] : day \in local_dates(rule)}
=============================================================================
