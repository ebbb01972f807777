-------------------------- MODULE MarketDatesProofs ---------------------------
(***************************************************************************)
(* A market's dates are not lost and its series are whole, for any zones,  *)
(* rules, start times and number of dates.                                 *)
(***************************************************************************)
EXTENDS MarketDates, FiniteSetTheorems, FunctionTheorems, TLAPS

-----------------------------------------------------------------------------
(* Local times and instants *)

\* The same hour of a later day is a later instant, in every zone: the clock
\* changes by less than a day.
LEMMA LaterDayLater ==
  ASSUME NEW zone \in Zones, NEW hour \in Int, NEW c \in Int, NEW d \in Int, c < d
  PROVE  to_instant(c, hour, zone) < to_instant(d, hour, zone)
<1> DEFINE L == DayLength
           jc == IF AfterChange(c, hour, zone) THEN zone.jump ELSE 0
           jd == IF AfterChange(d, hour, zone) THEN zone.jump ELSE 0
<1>1. L \in Nat /\ L >= 2 /\ zone.offset \in Int /\ zone.jump \in {-1, 0, 1} /\ zone.day \in Int
      /\ zone.hour \in Int
  BY RecurrenceAssumption DEF Zones
<1>2. jc \in Int /\ jd \in Int /\ jd - jc <= 1
  BY <1>1, SMT DEF AfterChange
<1>3. (d - c) * L >= L
  BY <1>1, SMT
<1>4. c * L \in Int /\ d * L \in Int /\ d * L - c * L >= L
  BY <1>1, <1>3, SMT
<1>5. /\ to_instant(c, hour, zone) = c * L + hour - (zone.offset + jc)
      /\ to_instant(d, hour, zone) = d * L + hour - (zone.offset + jd)
  BY DEF to_instant
<1> HIDE DEF L, jc, jd
<1> QED
  BY <1>1, <1>2, <1>4, <1>5, SMT

\* So the days of a rule have instants of their own.
LEMMA OneInstantPerDay ==
  ASSUME NEW zone \in Zones, NEW hour \in Int, NEW c \in Int, NEW d \in Int,
         to_instant(c, hour, zone) = to_instant(d, hour, zone)
  PROVE  c = d
<1>1. c < d \/ d < c \/ c = d
  OBVIOUS
<1>2. to_instant(c, hour, zone) \in Int
  BY RecurrenceAssumption DEF to_instant, Zones
<1> QED
  BY <1>1, <1>2, LaterDayLater, SMT

LEMMA InstantIsInt ==
  ASSUME NEW zone \in Zones, NEW hour \in Int, NEW day \in Int
  PROVE  to_instant(day, hour, zone) \in Int
BY RecurrenceAssumption, SMT DEF to_instant, Zones

\* Two local times of one day that both exist once keep their order.
LEMMA EndsAfterItStarts ==
  ASSUME NEW zone \in Zones, NEW day \in Int, NEW from \in Int, NEW to \in Int, from < to,
         ~Unclear(day, from, zone), ~Unclear(day, to, zone)
  PROVE  to_instant(day, from, zone) < to_instant(day, to, zone)
<1> DEFINE base == day * DayLength
           jf == IF AfterChange(day, from, zone) THEN zone.jump ELSE 0
           jt == IF AfterChange(day, to, zone) THEN zone.jump ELSE 0
<1>1. base \in Int /\ zone.offset \in Int /\ zone.jump \in {-1, 0, 1} /\ zone.day \in Int
      /\ zone.hour \in Int
  BY RecurrenceAssumption DEF Zones
<1>2. jf \in Int /\ jt \in Int /\ (jt - jf <= 0 \/ (jt - jf = 1 /\ to - from >= 2))
  BY <1>1, SMT DEF AfterChange, Unclear
<1>3. /\ to_instant(day, from, zone) = base + from - (zone.offset + jf)
      /\ to_instant(day, to, zone) = base + to - (zone.offset + jt)
  BY DEF to_instant
<1> HIDE DEF base, jf, jt
<1> QED
  BY <1>1, <1>2, <1>3, SMT

\* The weeks of a rule's days are whole intervals apart.
LEMMA WholeIntervals ==
  ASSUME NEW rule \in Rules, rule.interval_weeks \in 1..12,
         NEW c \in local_dates(rule), NEW d \in local_dates(rule)
  PROVE  (c \div 7 - d \div 7) % rule.interval_weeks = 0
<1> DEFINE first == rule.start_date - (IsoWeekday(rule.start_date) - 1)
           n == rule.interval_weeks
           x == c \div 7 - first \div 7
           y == d \div 7 - first \div 7
<1>1. rule.start_date \in Int /\ n \in 1..12 /\ c \in Int /\ d \in Int
  BY DEF Rules, local_dates
<1>2. first \in Int /\ first % 7 = 0
  BY <1>1, SMT DEF IsoWeekday
<1>3. ((c - first) \div 7) % n = 0 /\ ((d - first) \div 7) % n = 0
  BY DEF local_dates
<1> HIDE DEF first, n
<1>4. (c - first) \div 7 = x /\ (d - first) \div 7 = y /\ x \in Int /\ y \in Int
      /\ x - y = c \div 7 - d \div 7
  BY <1>1, <1>2, SMT
<1>5. x % n = 0 /\ y % n = 0
  BY <1>3, <1>4
<1> HIDE DEF x, y
<1>6. (x - y) % n = 0
  BY <1>1, <1>4, <1>5, SMTT(60)
<1> QED
  BY <1>4, <1>6 DEF n

-----------------------------------------------------------------------------
(* The invariant of a market's dates *)

Place == [status : {"DRAFT", "PUBLISHED", "ARCHIVED"}, zone : Zone, venue : BOOLEAN]
DateRow == [starts : Int, ends : Int, status : {"SCHEDULED", "CANCELLED"},
            series : Rule \cup {NoSeries}, slot : Int]

DatesTypeOK ==
  /\ place \in Place
  /\ dates \in Seq(DateRow)
  /\ series \subseteq Rule
  /\ clock \in Nat

\* What create_series required of a rule stays true of it: the zone its days
\* were turned into instants with does not change once there are dates.
SeriesWereChecked ==
  \A rule \in series :
    /\ rule.interval_weeks \in 1..12
    /\ rule.local_start < rule.local_end
    /\ can_build(rule, place.zone)

RowsHaveSeries == \A i \in DOMAIN dates : dates[i].series \in series \cup {NoSeries}

SlotsAreFilled ==
  \A rule \in series :
    /\ {dates[i].slot : i \in RowsOf(rule)} = {s.starts : s \in build_slots(rule, place.zone)}
    /\ \A i, j \in RowsOf(rule) : dates[i].slot = dates[j].slot => i = j

StartsDiffer == \A i, j \in DOMAIN dates : dates[i].starts = dates[j].starts => i = j

DatesInv ==
  /\ DatesTypeOK
  /\ SeriesWereChecked
  /\ RowsHaveSeries
  /\ SlotsAreFilled
  /\ StartsDiffer

\* DatesStay, of one step.
DatesKept ==
  \A i \in DOMAIN dates :
    /\ i \in DOMAIN dates'
    /\ dates'[i].slot = dates[i].slot /\ dates'[i].series = dates[i].series
    /\ dates[i].status = "CANCELLED" => dates'[i] = dates[i]

LEMMA DatesStart == DatesInit => DatesInv
<1> SUFFICES ASSUME DatesInit PROVE DatesInv
  OBVIOUS
<1>1. DatesTypeOK
  BY DEF DatesInit, DatesTypeOK, Place
<1>2. series = {} /\ DOMAIN dates = {}
  BY DEF DatesInit
<1> QED
  BY <1>1, <1>2 DEF DatesInv, SeriesWereChecked, RowsHaveSeries, SlotsAreFilled, StartsDiffer

\* A rule that was checked is not the rule of the dates made by hand.
LEMMA ChecksAreOfRules ==
  ASSUME NEW rule, rule.interval_weeks \in 1..12
  PROVE  rule # NoSeries
BY DEF NoSeries

\* Rows that came or changed without a series touch no series.
LEMMA SeriesKept ==
  ASSUME DatesInv, DatesTypeOK', DatesKept, series' = series, place'.zone = place.zone,
         \A i \in DOMAIN dates' \ DOMAIN dates : dates'[i].series = NoSeries
  PROVE  SeriesWereChecked' /\ RowsHaveSeries' /\ SlotsAreFilled'
<1>1. SeriesWereChecked'
  BY DEF DatesInv, SeriesWereChecked
<1>2. RowsHaveSeries'
  BY DEF DatesInv, RowsHaveSeries, DatesKept
<1>3. ASSUME NEW rule \in series
      PROVE  RowsOf(rule)' = RowsOf(rule)
  <2>1. rule # NoSeries
    BY ChecksAreOfRules DEF DatesInv, SeriesWereChecked
  <2> QED
    BY <2>1 DEF RowsOf, DatesKept
<1>4. \A i \in DOMAIN dates : dates'[i].slot = dates[i].slot
  BY DEF DatesKept
<1>5. SlotsAreFilled'
  <2> SUFFICES ASSUME NEW rule \in series
               PROVE  /\ {dates'[i].slot : i \in RowsOf(rule)'}
                            = {s.starts : s \in build_slots(rule, place.zone)}
                      /\ \A i, j \in RowsOf(rule)' : dates'[i].slot = dates'[j].slot => i = j
    BY DEF SlotsAreFilled
  <2>1. \A i \in RowsOf(rule) : dates'[i].slot = dates[i].slot
    BY <1>4 DEF RowsOf
  <2>2. {dates'[i].slot : i \in RowsOf(rule)'} = {dates[i].slot : i \in RowsOf(rule)}
    BY <1>3, <2>1
  <2> QED
    BY <1>3, <2>1, <2>2 DEF DatesInv, SlotsAreFilled
<1> QED
  BY <1>1, <1>2, <1>5

\* A series has dates: the zone of a market without dates may change.
LEMMA NoDatesNoSeries ==
  ASSUME DatesInv, dates = <<>>
  PROVE  series = {}
<1> SUFFICES ASSUME NEW rule \in series PROVE FALSE
  OBVIOUS
<1>1. RowsOf(rule) = {}
  BY DEF RowsOf
<1>2. build_slots(rule, place.zone) = {}
  <2>1. {dates[i].slot : i \in RowsOf(rule)} = {}
    BY <1>1
  <2>2. {s.starts : s \in build_slots(rule, place.zone)} = {}
    BY <2>1 DEF DatesInv, SlotsAreFilled
  <2> QED
    BY <2>2
<1>3. local_dates(rule) = {}
  BY <1>2 DEF build_slots
<1>4. Cardinality(local_dates(rule)) \in 1..MaxOccurrences
  BY DEF DatesInv, SeriesWereChecked, can_build
<1> QED
  BY <1>3, <1>4, FS_EmptySet, RecurrenceAssumption, SMT

\* A date is added, or one of those there is changed.
LEMMA OneDateMade ==
  ASSUME DatesInv, NEW starts \in Int, NEW ends \in Int, create_occurrence(starts, ends)
  PROVE  DatesInv' /\ DatesKept
<1> DEFINE row == NewDate(starts, ends, NoSeries, NoSlot)
<1>1. row \in DateRow /\ row.starts = starts /\ row.series = NoSeries
  BY DEF NewDate, DateRow, NoSlot
<1>2. dates \in Seq(DateRow) /\ dates' = Append(dates, row)
  BY DEF DatesInv, DatesTypeOK, create_occurrence
<1> HIDE DEF row
<1>3. /\ dates' \in Seq(DateRow)
      /\ DOMAIN dates' = DOMAIN dates \cup {Len(dates) + 1}
      /\ \A i \in DOMAIN dates : dates'[i] = dates[i]
      /\ dates'[Len(dates) + 1] = row
      /\ Len(dates) + 1 \notin DOMAIN dates
  BY <1>1, <1>2
<1>4. DatesTypeOK'
  BY <1>3 DEF DatesInv, DatesTypeOK, create_occurrence
<1>5. DatesKept
  BY <1>3 DEF DatesKept
<1>6. SeriesWereChecked' /\ RowsHaveSeries' /\ SlotsAreFilled'
  BY <1>1, <1>3, <1>4, <1>5, SeriesKept DEF create_occurrence
<1>7. StartsDiffer'
  BY <1>1, <1>3 DEF DatesInv, StartsDiffer, create_occurrence, Free
<1> QED
  BY <1>4, <1>5, <1>6, <1>7 DEF DatesInv

LEMMA OneDateChanged ==
  ASSUME DatesInv, NEW i \in DOMAIN dates, NEW row \in DateRow,
         row.slot = dates[i].slot, row.series = dates[i].series,
         dates[i].status # "CANCELLED", \A j \in DOMAIN dates \ {i} : dates[j].starts # row.starts,
         dates' = [dates EXCEPT ![i] = row], UNCHANGED <<place, series, clock>>
  PROVE  DatesInv' /\ DatesKept
<1>1. /\ dates' \in Seq(DateRow) /\ DOMAIN dates' = DOMAIN dates
      /\ \A j \in DOMAIN dates : dates'[j] = IF j = i THEN row ELSE dates[j]
  BY DEF DatesInv, DatesTypeOK
<1>2. DatesTypeOK'
  BY <1>1 DEF DatesInv, DatesTypeOK
<1>3. DatesKept
  BY <1>1 DEF DatesKept
<1>4. SeriesWereChecked' /\ RowsHaveSeries' /\ SlotsAreFilled'
  BY <1>1, <1>2, <1>3, SeriesKept
<1>5. StartsDiffer'
  BY <1>1 DEF DatesInv, StartsDiffer
<1> QED
  BY <1>2, <1>3, <1>4, <1>5 DEF DatesInv

-----------------------------------------------------------------------------
(* Making a series *)

\* The sorted list of a finite set, which has as many places, has every
\* member and each once.
LEMMA SortedListIsWhole ==
  ASSUME NEW S, IsFiniteSet(S), \A s \in S : s.starts \in Int,
         NEW order \in [1..Cardinality(S) -> S],
         \A j, k \in DOMAIN order : j < k => order[j].starts < order[k].starts
  PROVE  /\ \A s \in S : \E j \in DOMAIN order : order[j] = s
         /\ \A j, k \in DOMAIN order : order[j].starts = order[k].starts => j = k
<1> DEFINE n == Cardinality(S)
<1>1. n \in Nat
  BY FS_CardinalityType
<1>2. IsFiniteSet(1..n) /\ Cardinality(1..n) = n
  BY <1>1, FS_Interval
<1>3. \A j, k \in 1..n : order[j].starts = order[k].starts => j = k
  <2> SUFFICES ASSUME NEW j \in 1..n, NEW k \in 1..n, order[j].starts = order[k].starts
               PROVE  j = k
    OBVIOUS
  <2>1. order[j].starts \in Int /\ order[k].starts \in Int
    OBVIOUS
  <2>2. j < k \/ k < j \/ j = k
    BY <1>1
  <2> QED
    BY <2>1, <2>2
<1>4. order \in Injection(1..n, S)
  BY <1>3, Fun_IsInj
<1>5. order \in Surjection(1..n, S)
  BY <1>2, <1>4, FS_Injection
<1>6. \A s \in S : \E j \in 1..n : order[j] = s
  <2> HIDE DEF n
  <2> QED
    BY <1>5 DEF Surjection
<1>7. DOMAIN order = 1..n
  OBVIOUS
<1> HIDE DEF n
<1> QED
  BY <1>3, <1>6, <1>7

LEMMA SlotsAreFinite ==
  ASSUME NEW rule \in Rules, NEW zone \in Zones
  PROVE  /\ IsFiniteSet(local_dates(rule)) /\ local_dates(rule) \subseteq Int
         /\ IsFiniteSet(build_slots(rule, zone))
         /\ \A s \in build_slots(rule, zone) : s.starts \in Int /\ s.ends \in Int
<1>1. rule.start_date \in Int /\ rule.end_date \in Int
      /\ rule.local_start \in Int /\ rule.local_end \in Int
  BY DEF Rules
<1>2. local_dates(rule) \subseteq rule.start_date..rule.end_date
  BY DEF local_dates
<1>3. IsFiniteSet(local_dates(rule)) /\ local_dates(rule) \subseteq Int
  <2>1. IsFiniteSet(rule.start_date..rule.end_date)
    BY <1>1, FS_Interval
  <2>2. local_dates(rule) \in SUBSET (rule.start_date..rule.end_date)
    BY <1>2
  <2>3. rule.start_date..rule.end_date \subseteq Int
    BY <1>1
  <2> QED
    BY <2>1, <2>2, <2>3, FS_Subset, Zenon
<1> DEFINE Slot(day) == [starts |-> to_instant(day, rule.local_start, zone),
                         ends   |-> to_instant(day, rule.local_end, zone)]
<1>4. build_slots(rule, zone) = {Slot(day) : day \in local_dates(rule)}
  BY DEF build_slots
<1>5. IsFiniteSet(build_slots(rule, zone))
  <2> DEFINE slot == [day \in local_dates(rule) |-> Slot(day)]
  <2> HIDE DEF Slot
  <2>1. slot \in Surjection(local_dates(rule), build_slots(rule, zone))
    BY <1>4, Fun_IsSurj
  <2> QED
    BY <1>3, <2>1, FS_Surjection
<1>6. \A day \in local_dates(rule) : Slot(day).starts \in Int /\ Slot(day).ends \in Int
  BY <1>1, <1>3, InstantIsInt
<1> QED
  BY <1>3, <1>4, <1>5, <1>6

\* The dates a series gets are as many as are missing, each at its slot.
LEMMA SeriesMade ==
  ASSUME DatesInv, NEW rule \in Rule, create_series(rule)
  PROVE  DatesInv' /\ DatesKept
<1> DEFINE missing == Missing(rule)
           n == Cardinality(missing)
           slots == build_slots(rule, place.zone)
<1>1. rule \in Rules /\ place.zone \in Zones /\ dates \in Seq(DateRow)
  BY DatesAssumption DEF DatesInv, DatesTypeOK, Place
<1>2. /\ IsFiniteSet(missing) /\ n \in Nat /\ missing \subseteq slots
      /\ \A s \in missing : s.starts \in Int /\ s.ends \in Int
      /\ \A s \in missing, i \in RowsOf(rule) : dates[i].slot # s.starts
  <2>1. IsFiniteSet(slots) /\ \A s \in slots : s.starts \in Int /\ s.ends \in Int
    BY <1>1, SlotsAreFinite
  <2>2. missing \in SUBSET slots
    BY DEF Missing
  <2>3. IsFiniteSet(missing)
    BY <2>1, <2>2, FS_Subset
  <2> QED
    BY <2>1, <2>2, <2>3, FS_CardinalityType DEF Missing
<1>3. PICK order \in [1..n -> missing] :
        /\ \A j, k \in DOMAIN order : j < k => order[j].starts < order[k].starts
        /\ dates' = dates \o [j \in DOMAIN order |->
               NewDate(order[j].starts, order[j].ends, rule, order[j].starts)]
  BY DEF create_series
<1>4. /\ \A s \in missing : \E j \in 1..n : order[j] = s
      /\ \A j, k \in 1..n : order[j].starts = order[k].starts => j = k
  BY <1>2, <1>3, SortedListIsWhole
<1> DEFINE made == [j \in DOMAIN order |->
              NewDate(order[j].starts, order[j].ends, rule, order[j].starts)]
           L == Len(dates)
<1>5. /\ made \in Seq(DateRow) /\ Len(made) = n
      /\ \A j \in 1..n : /\ made[j].starts = order[j].starts /\ made[j].slot = order[j].starts
                         /\ made[j].series = rule
  <2>1. \A j \in 1..n : /\ made[j] \in DateRow
                        /\ made[j].starts = order[j].starts /\ made[j].slot = order[j].starts
                        /\ made[j].series = rule
    BY <1>2 DEF NewDate, DateRow
  <2>2. made \in [1..n -> DateRow]
    BY <2>1
  <2> HIDE DEF made, n
  <2>3. made \in Seq(DateRow) /\ Len(made) = n
    BY <1>2, <2>2
  <2> QED
    BY <2>1, <2>3
<1>6. dates' = dates \o made
  BY <1>3
<1> HIDE DEF made, missing, n, slots
<1>7. /\ dates' \in Seq(DateRow) /\ DOMAIN dates = 1..L /\ L \in Nat
      /\ DOMAIN dates' = 1..(L + n)
      /\ \A i \in 1..L : dates'[i] = dates[i]
      /\ \A j \in 1..n : dates'[L + j] = made[j]
  BY <1>1, <1>2, <1>5, <1>6
<1>8. \A i \in DOMAIN dates' : i \in DOMAIN dates \/ (\E j \in 1..n : i = L + j)
  <2> SUFFICES ASSUME NEW i \in 1..(L + n), i \notin 1..L PROVE \E j \in 1..n : i = L + j
    BY <1>7
  <2>1. i - L \in 1..n /\ i = L + (i - L)
    BY <1>2, <1>7
  <2> QED
    BY <2>1
<1>9. \A j \in 1..n : L + j \in DOMAIN dates' /\ L + j \notin DOMAIN dates
  BY <1>2, <1>7
<1>10. DatesKept
  <2>1. DOMAIN dates \subseteq DOMAIN dates'
    BY <1>2, <1>7
  <2> QED
    BY <1>7, <2>1 DEF DatesKept
<1>11. DatesTypeOK' /\ series' = series \cup {rule} /\ place' = place
  BY <1>7 DEF DatesInv, DatesTypeOK, create_series
<1>12. SeriesWereChecked'
  BY <1>11 DEF DatesInv, SeriesWereChecked, create_series, validate_rule
<1>13. RowsHaveSeries'
  <2>1. \A i \in DOMAIN dates : dates'[i].series \in series \cup {NoSeries}
    BY <1>7 DEF DatesInv, RowsHaveSeries
  <2>2. \A j \in 1..n : dates'[L + j].series = rule
    BY <1>5, <1>7
  <2> QED
    BY <1>8, <1>11, <2>1, <2>2 DEF RowsHaveSeries
<1>14. StartsDiffer'
  <2>1. \A j \in 1..n, i \in 1..L : dates[i].starts # made[j].starts
    <3>1. \A s \in missing : Free(s.starts, {})
      BY DEF create_series, missing
    <3>2. \A j \in 1..n : order[j] \in missing /\ made[j].starts = order[j].starts
      BY <1>3, <1>5
    <3> QED
      BY <1>7, <3>1, <3>2 DEF Free
  <2>2. \A j, k \in 1..n : made[j].starts = made[k].starts => j = k
    BY <1>4, <1>5
  <2> SUFFICES ASSUME NEW a \in DOMAIN dates', NEW b \in DOMAIN dates',
                      dates'[a].starts = dates'[b].starts
               PROVE  a = b
    BY DEF StartsDiffer
  <2>3. CASE a \in DOMAIN dates /\ b \in DOMAIN dates
    BY <1>7, <2>3 DEF DatesInv, StartsDiffer
  <2>4. CASE a \in DOMAIN dates /\ b \notin DOMAIN dates
    BY <1>7, <1>8, <2>1, <2>4
  <2>5. CASE a \notin DOMAIN dates /\ b \in DOMAIN dates
    BY <1>7, <1>8, <2>1, <2>5
  <2>6. CASE a \notin DOMAIN dates /\ b \notin DOMAIN dates
    BY <1>7, <1>8, <2>2, <2>6
  <2> QED
    BY <2>3, <2>4, <2>5, <2>6
<1> DEFINE Filled(r) ==
      /\ {dates[i].slot : i \in RowsOf(r)} = {s.starts : s \in build_slots(r, place.zone)}
      /\ \A i, j \in RowsOf(r) : dates[i].slot = dates[j].slot => i = j
<1>15. /\ {dates[i].slot : i \in RowsOf(rule)} \subseteq {s.starts : s \in slots}
       /\ \A i, j \in RowsOf(rule) : dates[i].slot = dates[j].slot => i = j
  <2>1. CASE rule \in series
    BY <2>1 DEF DatesInv, SlotsAreFilled, slots
  <2>2. CASE rule \notin series
    <3>1. rule # NoSeries
      BY ChecksAreOfRules DEF create_series, validate_rule
    <3>2. RowsOf(rule) = {}
      BY <2>2, <3>1 DEF DatesInv, RowsHaveSeries, RowsOf
    <3> QED
      BY <3>2
  <2> QED
    BY <2>1, <2>2
<1>16. RowsOf(rule)' = RowsOf(rule) \cup {L + j : j \in 1..n}
  <2>1. ASSUME NEW i \in RowsOf(rule)'
        PROVE  i \in RowsOf(rule) \/ i \in {L + j : j \in 1..n}
    BY <1>7, <1>8 DEF RowsOf
  <2>2. RowsOf(rule) \subseteq RowsOf(rule)'
    BY <1>10, <1>7 DEF RowsOf, DatesKept
  <2>3. {L + j : j \in 1..n} \subseteq RowsOf(rule)'
    BY <1>5, <1>7, <1>9 DEF RowsOf
  <2> QED
    BY <2>1, <2>2, <2>3
<1>17. Filled(rule)'
  <2>1. ASSUME NEW i \in RowsOf(rule)
        PROVE  dates'[i].slot = dates[i].slot
    BY <1>10 DEF RowsOf, DatesKept
  <2>2. \A j \in 1..n : dates'[L + j].slot = order[j].starts /\ order[j] \in missing
    BY <1>3, <1>5, <1>7
  <2>3. {dates'[i].slot : i \in RowsOf(rule)'} \subseteq {s.starts : s \in slots}
    <3> SUFFICES ASSUME NEW i \in RowsOf(rule)'
                 PROVE  dates'[i].slot \in {s.starts : s \in slots}
      OBVIOUS
    <3>1. CASE i \in RowsOf(rule)
      BY <1>15, <2>1, <3>1
    <3>2. CASE i \in {L + j : j \in 1..n}
      BY <1>2, <2>2, <3>2
    <3> QED
      BY <1>16, <3>1, <3>2
  <2>4. {s.starts : s \in slots} \subseteq {dates'[i].slot : i \in RowsOf(rule)'}
    <3> SUFFICES ASSUME NEW s \in slots
                 PROVE  \E i \in RowsOf(rule)' : dates'[i].slot = s.starts
      OBVIOUS
    <3>1. CASE s \in missing
      <4>1. PICK j \in 1..n : order[j] = s
        BY <1>4, <3>1
      <4> QED
        BY <1>16, <2>2, <4>1
    <3>2. CASE s \notin missing
      <4>1. PICK i \in RowsOf(rule) : dates[i].slot = s.starts
        BY <3>2 DEF missing, Missing, slots
      <4> QED
        BY <1>16, <2>1, <4>1
    <3> QED
      BY <3>1, <3>2
  <2>5. ASSUME NEW a \in RowsOf(rule)', NEW b \in RowsOf(rule)', dates'[a].slot = dates'[b].slot
        PROVE  a = b
    <3>1. CASE a \in RowsOf(rule) /\ b \in RowsOf(rule)
      BY <1>15, <2>1, <2>5, <3>1
    <3>2. CASE a \in RowsOf(rule) /\ b \in {L + j : j \in 1..n}
      <4>1. PICK j \in 1..n : b = L + j
        BY <3>2
      <4>2. dates[a].slot # order[j].starts
        BY <1>2, <2>2, <3>2
      <4> QED
        BY <2>1, <2>2, <2>5, <3>2, <4>1, <4>2
    <3>3. CASE a \in {L + j : j \in 1..n} /\ b \in RowsOf(rule)
      <4>1. PICK j \in 1..n : a = L + j
        BY <3>3
      <4>2. dates[b].slot # order[j].starts
        BY <1>2, <2>2, <3>3
      <4> QED
        BY <2>1, <2>2, <2>5, <3>3, <4>1, <4>2
    <3>4. CASE a \in {L + j : j \in 1..n} /\ b \in {L + j : j \in 1..n}
      BY <1>4, <2>2, <2>5, <3>4
    <3> QED
      BY <1>16, <3>1, <3>2, <3>3, <3>4
  <2> QED
    BY <1>11, <2>3, <2>4, <2>5 DEF slots
<1>18. ASSUME NEW r \in series, r # rule PROVE Filled(r)'
  <2>1. RowsOf(r)' = RowsOf(r)
    BY <1>5, <1>7, <1>8, <1>18, <1>10 DEF RowsOf, DatesKept
  <2>2. \A i \in RowsOf(r) : dates'[i].slot = dates[i].slot
    BY <1>10 DEF RowsOf, DatesKept
  <2>3. {dates'[i].slot : i \in RowsOf(r)} = {dates[i].slot : i \in RowsOf(r)}
    BY <2>2
  <2> QED
    BY <1>11, <2>1, <2>2, <2>3 DEF DatesInv, SlotsAreFilled
<1>19. SlotsAreFilled'
  BY <1>11, <1>17, <1>18 DEF SlotsAreFilled
<1> QED
  BY <1>10, <1>11, <1>12, <1>13, <1>14, <1>19 DEF DatesInv

LEMMA DatesStayPut ==
  ASSUME DatesInv, UNCHANGED <<dates, series>>, place' \in Place, clock' \in Nat,
         place'.zone = place.zone \/ series = {}
  PROVE  DatesInv' /\ DatesKept
<1>1. DatesTypeOK' /\ RowsHaveSeries' /\ StartsDiffer' /\ DatesKept
  BY DEF DatesInv, DatesTypeOK, RowsHaveSeries, StartsDiffer, DatesKept
<1>2. SeriesWereChecked'
  BY DEF DatesInv, SeriesWereChecked
<1>3. \A rule : RowsOf(rule)' = RowsOf(rule)
  BY DEF RowsOf
<1>4. SlotsAreFilled'
  <2>1. CASE series = {}
    BY <2>1 DEF SlotsAreFilled
  <2>2. CASE place'.zone = place.zone
    BY <1>3, <2>2 DEF DatesInv, SlotsAreFilled
  <2> QED
    BY <2>1, <2>2
<1> QED
  BY <1>1, <1>2, <1>4 DEF DatesInv

LEMMA DatesStep ==
  ASSUME DatesInv, [DatesNext]_dateVars
  PROVE  DatesInv' /\ [DatesKept]_dateVars
<1> USE DEF DatesInv
<1>1. ASSUME NEW zone \in Zone, NEW venue \in BOOLEAN, update_market(zone, venue)
      PROVE  DatesInv' /\ DatesKept
  <2>1. place' \in Place /\ place'.zone = zone /\ UNCHANGED <<dates, series>> /\ clock' \in Nat
    BY <1>1 DEF update_market, DatesTypeOK, Place
  <2>2. zone = place.zone \/ series = {}
    BY <1>1, NoDatesNoSeries DEF update_market, MayMove
  <2> QED
    BY <2>1, <2>2, DatesStayPut
<1>2. ASSUME publish_market \/ archive_market
      PROVE  DatesInv' /\ DatesKept
  <2>1. place' \in Place /\ place'.zone = place.zone /\ UNCHANGED <<dates, series>> /\ clock' \in Nat
    BY <1>2 DEF publish_market, archive_market, DatesTypeOK, Place
  <2> QED
    BY <2>1, DatesStayPut
<1>3. ASSUME NEW t \in Instant, create_occurrence(t, t + 1)
      PROVE  DatesInv' /\ DatesKept
  <2>1. PICK s, e \in Int : create_occurrence(s, e)
    BY <1>3, DatesAssumption
  <2> QED
    BY <2>1, OneDateMade
<1>4. ASSUME NEW i \in DOMAIN dates, NEW t \in Instant, update_occurrence(i, t, t + 1)
      PROVE  DatesInv' /\ DatesKept
  <2>1. PICK s, e \in Int : update_occurrence(i, s, e)
    BY <1>4, DatesAssumption
  <2>2. dates[i] \in DateRow
    BY DEF DatesTypeOK
  <2>3. /\ Moved(i, s, e) \in DateRow /\ Moved(i, s, e).starts = s
        /\ Moved(i, s, e).slot = dates[i].slot /\ Moved(i, s, e).series = dates[i].series
    BY <2>2 DEF Moved, DateRow
  <2> QED
    BY <2>1, <2>3, OneDateChanged DEF update_occurrence, Free
<1>5. ASSUME NEW i \in DOMAIN dates, cancel_occurrence(i)
      PROVE  DatesInv' /\ DatesKept
  <2> DEFINE row == [dates[i] EXCEPT !.status = "CANCELLED"]
  <2>1. dates[i] \in DateRow
    BY DEF DatesTypeOK
  <2>2. /\ row \in DateRow /\ row.starts = dates[i].starts
        /\ row.slot = dates[i].slot /\ row.series = dates[i].series
    BY <2>1 DEF DateRow
  <2>3. dates' = [dates EXCEPT ![i] = row]
    BY <1>5 DEF cancel_occurrence
  <2>4. \A j \in DOMAIN dates \ {i} : dates[j].starts # row.starts
    BY <2>2 DEF StartsDiffer
  <2> HIDE DEF row
  <2> QED
    BY <1>5, <2>2, <2>3, <2>4, OneDateChanged DEF cancel_occurrence
<1>6. ASSUME NEW rule \in Rule, create_series(rule)
      PROVE  DatesInv' /\ DatesKept
  BY <1>6, SeriesMade
<1>7. ASSUME DatesTick
      PROVE  DatesInv' /\ DatesKept
  BY <1>7, DatesStayPut DEF DatesTick, DatesTypeOK
<1>8. ASSUME UNCHANGED dateVars
      PROVE  DatesInv'
  BY <1>8, DatesStayPut DEF dateVars, DatesTypeOK
<1> HIDE DEF DatesInv
<1>9. ASSUME DatesNext
      PROVE  DatesInv' /\ DatesKept
  BY <1>1, <1>2, <1>3, <1>4, <1>5, <1>6, <1>7, <1>9 DEF DatesNext
<1> QED
  BY <1>8, <1>9

\* A series has as many dates as its rule has days: both are as many as the
\* slots' instants.
LEMMA AsManyDatesAsDays ==
  ASSUME DatesInv, NEW rule \in series
  PROVE  Cardinality(RowsOf(rule)) = Cardinality(local_dates(rule))
<1> DEFINE zone == place.zone
           days == local_dates(rule)
           instants == {s.starts : s \in build_slots(rule, zone)}
           start == [day \in days |-> to_instant(day, rule.local_start, zone)]
           slot == [i \in RowsOf(rule) |-> dates[i].slot]
<1>1. rule \in Rules /\ zone \in Zones
  BY DatesAssumption DEF DatesInv, DatesTypeOK, Place
<1>2. IsFiniteSet(days) /\ days \subseteq Int /\ rule.local_start \in Int
  BY <1>1, SlotsAreFinite DEF Rules
<1>3. instants = {to_instant(day, rule.local_start, zone) : day \in days}
  <2> DEFINE Slot(day) == [starts |-> to_instant(day, rule.local_start, zone),
                           ends   |-> to_instant(day, rule.local_end, zone)]
  <2>1. build_slots(rule, zone) = {Slot(day) : day \in days}
    BY DEF build_slots
  <2>2. \A day \in days : Slot(day).starts = to_instant(day, rule.local_start, zone)
    OBVIOUS
  <2> HIDE DEF Slot, days
  <2> QED
    BY <2>1, <2>2
<1>4. start \in Bijection(days, instants)
  <2>1. start \in [days -> instants] /\ \A t \in instants : \E d \in days : start[d] = t
    BY <1>3
  <2>2. \A c, d \in days : start[c] = start[d] => c = d
    BY <1>1, <1>2, OneInstantPerDay
  <2> HIDE DEF start, instants, days
  <2> QED
    BY <2>1, <2>2, Fun_IsBij
<1>5. slot \in Bijection(RowsOf(rule), instants)
  <2>1. /\ {dates[i].slot : i \in RowsOf(rule)} = instants
        /\ \A i, j \in RowsOf(rule) : dates[i].slot = dates[j].slot => i = j
    BY DEF DatesInv, SlotsAreFilled
  <2> HIDE DEF instants
  <2>2. slot \in [RowsOf(rule) -> instants]
    BY <2>1
  <2>3. \A t \in instants : \E i \in RowsOf(rule) : slot[i] = t
    BY <2>1
  <2>4. \A i, j \in RowsOf(rule) : slot[i] = slot[j] => i = j
    BY <2>1
  <2> HIDE DEF slot
  <2> QED
    BY <2>2, <2>3, <2>4, Fun_IsBij
<1> HIDE DEF days, instants, start, slot
<1>6. ExistsBijection(days, instants) /\ ExistsBijection(RowsOf(rule), instants)
  BY <1>4, <1>5 DEF ExistsBijection
<1>7. IsFiniteSet(instants) /\ Cardinality(instants) = Cardinality(days)
  BY <1>2, <1>6, FS_Bijection
<1>8. ExistsBijection(instants, RowsOf(rule))
  BY <1>6, Fun_ExistsBijSymmetric
<1>9. Cardinality(RowsOf(rule)) = Cardinality(instants)
  BY <1>7, <1>8, FS_Bijection
<1> QED
  BY <1>7, <1>9 DEF days

LEMMA WholeSeries ==
  ASSUME DatesInv
  PROVE  SeriesAreWhole
<1> SUFFICES ASSUME NEW rule \in series
             PROVE  /\ \A s \in build_slots(rule, place.zone) : s.starts < s.ends
                    /\ \A c, d \in local_dates(rule) :
                         rule.interval_weeks = 1 \/ c \div 7 = d \div 7
                           \/ (c \div 7 - d \div 7) % rule.interval_weeks = 0
  BY AsManyDatesAsDays DEF SeriesAreWhole, DatesInv, SlotsAreFilled
<1>1. rule \in Rules /\ place.zone \in Zones
  BY DatesAssumption DEF DatesInv, DatesTypeOK, Place
<1>2. rule.interval_weeks \in 1..12 /\ rule.local_start < rule.local_end
      /\ can_build(rule, place.zone)
  BY DEF DatesInv, SeriesWereChecked
<1>3. ASSUME NEW day \in local_dates(rule)
      PROVE  to_instant(day, rule.local_start, place.zone)
               < to_instant(day, rule.local_end, place.zone)
  <2>1. day \in Int /\ rule.local_start \in Int /\ rule.local_end \in Int
    BY <1>1, SlotsAreFinite DEF Rules
  <2> QED
    BY <1>1, <1>2, <2>1, EndsAfterItStarts DEF can_build
<1> QED
  BY <1>1, <1>2, <1>3, WholeIntervals DEF build_slots

\* A series has one date for every slot of its rule, in the market's zone:
\* markets/services.py create_series, markets/recurrence.py build_slots.
THEOREM SeriesHaveTheirDates == DatesSpec => []SeriesAreWhole
<1>1. DatesInit => DatesInv
  BY DatesStart
<1>2. DatesInv /\ [DatesNext]_dateVars => DatesInv'
  BY DatesStep
<1>3. DatesInv => SeriesAreWhole
  BY WholeSeries
<1> QED
  BY <1>1, <1>2, <1>3, PTL DEF DatesSpec

\* A date keeps its slot and series, and a cancelled one stays as it is:
\* markets/services.py update_occurrence, cancel_occurrence, create_series.
THEOREM DatesAreNotLost == DatesSpec => DatesStay
<1>1. DatesInit => DatesInv
  BY DatesStart
<1>2. DatesInv /\ [DatesNext]_dateVars => DatesInv' /\ [DatesKept]_dateVars
  BY DatesStep
<1> QED
  BY <1>1, <1>2, PTL DEF DatesSpec, DatesStay, DatesKept

\* No two dates of a market start at the same time, made one by one, moved
\* or made by a series: what the check in markets/services.py keeps.
THEOREM StartsAreDistinct == DatesSpec => []StartsDiffer
<1>1. DatesInit => DatesInv
  BY DatesStart
<1>2. DatesInv /\ [DatesNext]_dateVars => DatesInv'
  BY DatesStep
<1>3. DatesInv => StartsDiffer
  BY DEF DatesInv
<1> QED
  BY <1>1, <1>2, <1>3, PTL DEF DatesSpec
=============================================================================
