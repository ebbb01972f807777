-------------------------- MODULE DateLayoutsProofs --------------------------
(* What is proved of DateLayouts for every set of managers, businesses and
   stalls, every number of versions and every bound on revisions. *)
EXTENDS DateLayouts, ReservationsProofs, FiniteSetTheorems

-----------------------------------------------------------------------------
(* What the reservations do to a date, as far as its layout is concerned *)

Shown(r) == StatusShown(hold[r])

\* No row but a new one starts to exist or to occupy, and none changes stalls.
Fades ==
  /\ \A r \in Reservation : hold'[r].status # "NONE" =>
       hold[r].status # "NONE" /\ hold'[r].offer = hold[r].offer
  /\ \A r \in Reservation : Shown(r)' \in Occupying => Shown(r) \in Occupying

\* Replacing existing rows by existing rows of the same stall.
Follows(old, new) ==
  \A r \in Reservation : new[r].status # "NONE" =>
    old[r].status # "NONE" /\ new[r].offer = old[r].offer

LEMMA FollowsPut ==
  ASSUME NEW rows, WellFormed(rows), NEW r \in Reservation, NEW row,
         rows[r].status # "NONE", row.offer = rows[r].offer
  PROVE  Follows(rows, [rows EXCEPT ![r] = row])
BY DEF Follows, WellFormed

\* Within a transaction no row starts to exist or changes stalls.
LEMMA TransactionFollows ==
  ASSUME NEW rows, WellFormed(rows), NEW r \in Reservation
  PROVE  /\ \A until \in Nat : rows[r].status = "HELD" => Follows(rows, MarkPaymentPending(rows, r, until))
         /\ \A endHold \in BOOLEAN : Follows(rows, ClearPaymentPending(rows, r, endHold))
         /\ rows[r].status = "HELD" => Follows(rows, ConfirmLocked(rows, r))
         /\ Follows(rows, ReleasedRows(rows, r))
         /\ Follows(rows, ExpireLapsed(rows))
<1> Follows(rows, rows) /\ rows[r] \in HoldRow
  BY DEF Follows, WellFormed
<1>1. ASSUME NEW until \in Nat, rows[r].status = "HELD"
      PROVE  Follows(rows, MarkPaymentPending(rows, r, until))
  <2> DEFINE end == LaterOf(rows[r].expires, until)
             row == [rows[r] EXCEPT !.pending = TRUE, !.expires = end]
  <2> HIDE DEF end
  <2>1. row.offer = rows[r].offer
    BY DEF HoldRow
  <2>2. MarkPaymentPending(rows, r, until) = [rows EXCEPT ![r] = row]
    BY DEF MarkPaymentPending, end
  <2> HIDE DEF row
  <2>3. Follows(rows, [rows EXCEPT ![r] = row])
    BY <1>1, <2>1, FollowsPut
  <2> QED
    BY <2>2, <2>3
<1>2. ASSUME NEW endHold \in BOOLEAN
      PROVE  Follows(rows, ClearPaymentPending(rows, r, endHold))
  <2> DEFINE end == IF rows[r].status = "HELD" /\ (endHold \/ rows[r].expires <= now)
                    THEN "EXPIRED" ELSE rows[r].status
             row == [rows[r] EXCEPT !.pending = FALSE, !.status = end]
  <2>1. rows[r].pending =>
          ClearPaymentPending(rows, r, endHold) = [rows EXCEPT ![r] = row]
    BY DEF ClearPaymentPending
  <2> HIDE DEF end
  <2>2. row.offer = rows[r].offer
    BY DEF HoldRow
  <2>3. rows[r].pending => rows[r].status # "NONE"
    BY DEF WellFormed
  <2>4. ~rows[r].pending => ClearPaymentPending(rows, r, endHold) = rows
    BY DEF ClearPaymentPending
  <2> HIDE DEF row
  <2> QED
    BY <2>1, <2>2, <2>3, <2>4, FollowsPut
<1>3. ASSUME rows[r].status = "HELD"
      PROVE  Follows(rows, ConfirmLocked(rows, r))
  BY <1>3, FollowsPut DEF ConfirmLocked, HoldRow
<1>4. Follows(rows, ReleasedRows(rows, r))
  BY FollowsPut DEF ReleasedRows, HoldRow
<1>5. Follows(rows, ExpireLapsed(rows))
  BY ExpireLapsedRow DEF Follows, Lapsed
<1> QED
  BY <1>1, <1>2, <1>3, <1>4, <1>5

\* A transaction that narrows the switched rows lets the date fade.
LEMMA TransactionFades ==
  ASSUME HoldTypeOK, UNCHANGED now,
         Follows(ExpireLapsed(hold), hold'), Narrows(ExpireLapsed(hold), hold')
  PROVE  Fades
<1>1. WellFormed(hold)
  BY DEF HoldTypeOK, WellFormed
<1>2. Follows(hold, ExpireLapsed(hold))
  BY <1>1, ExpireLapsedRow DEF Follows, Lapsed
<1>3. ASSUME NEW r \in Reservation, hold'[r].status # "NONE"
      PROVE  hold[r].status # "NONE" /\ hold'[r].offer = hold[r].offer
  BY <1>2, <1>3 DEF Follows
<1>4. ASSUME NEW r \in Reservation, Shown(r)' \in Occupying
      PROVE  Shown(r) \in Occupying
  <2>1. hold'[r].status \in Occupying
    BY <1>4 DEF Shown, StatusShown, Occupying
  <2>2. ExpireLapsed(hold)[r].status \in Occupying
    BY <2>1 DEF Narrows, Occupies
  <2> QED
    BY <2>2, ShownIsSwitched DEF Shown
<1> QED
  BY <1>3, <1>4 DEF Fades

\* Whatever happens to the reservations, but for a new one, the date fades.
LEMMA HoldStepFades ==
  ASSUME HoldTypeOK, HoldStep
  PROVE  HoldTypeOK' /\ Fades
<1> USE HoldAssumption
<1> DEFINE rows == ExpireLapsed(hold)
<1>0. WellFormed(hold) /\ WellFormed(rows) /\ now \in Nat
  BY ExpireLapsedWellFormed DEF HoldTypeOK, WellFormed
<1> Narrows(rows, rows) /\ Follows(rows, rows)
  BY DEF Narrows, Follows
<1>1. ASSUME NEW r \in Reservation, ReleaseHold(r)
      PROVE  HoldTypeOK' /\ Fades
  <2>1. HoldTypeOK'
    BY <1>1, HoldTypeStep DEF HoldNext
  <2>2. hold' = ReleasedRows(rows, r) /\ UNCHANGED now
    BY <1>1 DEF ReleaseHold
  <2> HIDE DEF rows
  <2>3. Follows(rows, hold') /\ Narrows(rows, hold')
    BY <1>0, <2>2, TransactionFollows, TransactionNarrows
  <2> QED
    BY <2>1, <2>2, <2>3, TransactionFades DEF rows
<1>2. ASSUME NEW r \in Reservation, StartPayment(r, now + HoldFor)
      PROVE  HoldTypeOK' /\ Fades
  <2>1. /\ hold' = MarkPaymentPending(rows, r, now + HoldFor) /\ UNCHANGED now
        /\ rows[r].status = "HELD" /\ now + HoldFor \in Nat
    BY <1>0, <1>2 DEF StartPayment
  <2> HIDE DEF rows
  <2>2. WellFormed(hold')
    BY <1>0, <2>1, MarkWellFormed
  <2>3. HoldTypeOK'
    BY <2>1, <2>2 DEF HoldTypeOK, WellFormed
  <2>4. Follows(rows, hold') /\ Narrows(rows, hold')
    BY <1>0, <2>1, TransactionFollows, TransactionNarrows
  <2> QED
    BY <2>1, <2>3, <2>4, TransactionFades DEF rows
<1>3. ASSUME NEW r \in Reservation, NEW endHold \in BOOLEAN, EndPayment(r, endHold)
      PROVE  HoldTypeOK' /\ Fades
  <2>1. HoldTypeOK'
    BY <1>3, HoldTypeStep DEF HoldNext
  <2>2. hold' = ClearPaymentPending(rows, r, endHold) /\ UNCHANGED now
    BY <1>3 DEF EndPayment
  <2> HIDE DEF rows
  <2>3. Follows(rows, hold') /\ Narrows(rows, hold')
    BY <1>0, <2>2, TransactionFollows, TransactionNarrows
  <2> QED
    BY <2>1, <2>2, <2>3, TransactionFades DEF rows
<1>4. ASSUME NEW r \in Reservation, ConfirmHold(r)
      PROVE  HoldTypeOK' /\ Fades
  <2>1. HoldTypeOK'
    BY <1>4, HoldTypeStep DEF HoldNext
  <2>2. hold' = ConfirmLocked(rows, r) /\ rows[r].status = "HELD" /\ UNCHANGED now
    BY <1>4 DEF ConfirmHold
  <2> HIDE DEF rows
  <2>3. Follows(rows, hold') /\ Narrows(rows, hold')
    BY <1>0, <2>2, TransactionFollows, TransactionNarrows DEF Occupies, Occupying
  <2> QED
    BY <2>1, <2>2, <2>3, TransactionFades DEF rows
<1>5. CASE ExpireHolds
  <2>1. HoldTypeOK'
    BY <1>5, HoldTypeStep DEF HoldNext
  <2>2. hold' = rows /\ UNCHANGED now
    BY <1>5 DEF ExpireHolds
  <2> QED
    BY <2>1, <2>2, TransactionFades
<1>6. CASE Tick
  <2>1. HoldTypeOK'
    BY <1>6, HoldTypeStep DEF HoldNext
  <2>2. hold' = hold /\ now' = now + 1
    BY <1>6 DEF Tick
  <2>3. ASSUME NEW r \in Reservation, Shown(r)' \in Occupying
        PROVE  Shown(r) \in Occupying
    <3>1. hold[r].expires \in Nat
      BY DEF HoldTypeOK, HoldRow
    <3> QED
      BY <1>0, <2>2, <2>3, <3>1 DEF Shown, StatusShown, Occupying
  <2> QED
    BY <2>1, <2>2, <2>3 DEF Fades
<1> QED
  BY <1>1, <1>2, <1>3, <1>4, <1>5, <1>6 DEF HoldStep

-----------------------------------------------------------------------------
(* The invariant *)

VersionRow == [canvas : Nat, plan : Plan, revision : Nat, locked : BOOLEAN]
Offers == UNION {[D -> OfferRow] : D \in SUBSET Offer}
DeskRow == [screen : Screen , number : Nat, revision : Nat,
            canvas : Nat, plan : Plan, offers : Offers]

LayoutTypeOK ==
  /\ version \in [Number -> VersionRow]
  /\ copying \in [source : Nat, canvas : Nat]
  /\ copying # NoCopy => copying.source \in Number
  /\ layout \in [version : 0..MaxVersion, revision : Nat, published : BOOLEAN]
  /\ offer \in Offers
  /\ desk \in [Manager -> DeskRow]

\* Versions are numbered without gaps.
Numbered == \E k \in 0..MaxVersion : \A n \in Number : version[n].revision > 0 <=> n <= k

\* What a date, an offer or a reservation refers to is a locked version, and
\* an offer is for one of its stalls.
UsedAreLocked ==
  /\ \A n \in Number : version[n].locked => version[n].revision > 0
  /\ layout.revision = 0 => layout.version = 0
  /\ layout.version # 0 => version[layout.version].locked
  /\ \A r \in Reservation :
       hold[r].status # "NONE" => hold[r].offer \in Offer /\ version[hold[r].offer[1]].locked
  /\ \A o \in DOMAIN offer : version[o[1]].locked /\ version[o[1]].plan[o[2]] > 0

\* What occupies a stall is an enabled offer of the selected version.
OccupiedAreOffered ==
  \A r \in Reservation :
    Shown(r) \in Occupying =>
      /\ hold[r].offer \in DOMAIN offer
      /\ hold[r].offer[1] = layout.version
      /\ offer[hold[r].offer].enabled

\* A revision stands for what was on the screen when it was read.
VersionScreens ==
  \A m \in Manager :
    desk[m].screen \in {"version_row", "version"} =>
      /\ desk[m].number \in Number
      /\ version[desk[m].number].revision > 0
      /\ desk[m].revision <= version[desk[m].number].revision
      /\ desk[m].revision = version[desk[m].number].revision =>
           /\ desk[m].canvas = version[desk[m].number].canvas
           /\ desk[m].screen = "version" => desk[m].plan = version[desk[m].number].plan

DateScreens ==
  \A m \in Manager :
    desk[m].screen \in {"date_row", "date"} =>
      /\ desk[m].revision <= layout.revision
      /\ desk[m].revision = layout.revision =>
           /\ desk[m].number = layout.version
           /\ desk[m].screen = "date" => desk[m].offers = current_offers

LayoutInv ==
  /\ HoldTypeOK
  /\ LayoutTypeOK
  /\ Numbered
  /\ UsedAreLocked
  /\ OccupiedAreOffered
  /\ VersionScreens
  /\ DateScreens

-----------------------------------------------------------------------------
(* Rows of the tables and of the screens *)

IsDesk(e, screen, number, revision, canvas, plan, offers) ==
  /\ e \in DeskRow
  /\ e.screen = screen /\ e.number = number /\ e.revision = revision
  /\ e.canvas = canvas /\ e.plan = plan /\ e.offers = offers

IsVersion(w, canvas, plan, revision, locked) ==
  /\ w \in VersionRow
  /\ w.canvas = canvas /\ w.plan = plan /\ w.revision = revision /\ w.locked = locked

\* What a desk's fields are after the changes the screens make to it.
LEMMA DeskFields ==
  ASSUME NEW d \in DeskRow, NEW s \in Screen, NEW n \in Nat, NEW v \in Nat, NEW c \in Nat,
         NEW p \in Plan, NEW f \in Offers
  PROVE  /\ IsDesk([d EXCEPT !.screen = s, !.plan = p],
                   s, d.number, d.revision, d.canvas, p, d.offers)
         /\ IsDesk([d EXCEPT !.screen = s, !.offers = f],
                   s, d.number, d.revision, d.canvas, d.plan, f)
         /\ IsDesk([d EXCEPT !.canvas = c, !.plan = p, !.revision = v],
                   d.screen, d.number, v, c, p, d.offers)
         /\ IsDesk([d EXCEPT !.number = n, !.revision = v, !.offers = f],
                   d.screen, n, v, d.canvas, d.plan, f)
         /\ IsDesk([d EXCEPT !.screen = s, !.number = n, !.revision = v, !.canvas = c],
                   s, n, v, c, d.plan, d.offers)
         /\ IsDesk([d EXCEPT !.screen = s, !.number = n, !.revision = v],
                   s, n, v, d.canvas, d.plan, d.offers)
<1>1. \A r \in DeskRow : IsDesk([r EXCEPT !.screen = s, !.plan = p],
                                s, r.number, r.revision, r.canvas, p, r.offers)
  BY Zenon DEF DeskRow, IsDesk
<1>2. \A r \in DeskRow : IsDesk([r EXCEPT !.screen = s, !.offers = f],
                                s, r.number, r.revision, r.canvas, r.plan, f)
  BY Zenon DEF DeskRow, IsDesk
<1>3. \A r \in DeskRow : IsDesk([r EXCEPT !.canvas = c, !.plan = p, !.revision = v],
                                r.screen, r.number, v, c, p, r.offers)
  BY Zenon DEF DeskRow, IsDesk
<1>4. \A r \in DeskRow : IsDesk([r EXCEPT !.number = n, !.revision = v, !.offers = f],
                                r.screen, n, v, r.canvas, r.plan, f)
  BY Zenon DEF DeskRow, IsDesk
<1>5. \A r \in DeskRow :
        IsDesk([r EXCEPT !.screen = s, !.number = n, !.revision = v, !.canvas = c],
               s, n, v, c, r.plan, r.offers)
  BY ZenonT(30) DEF DeskRow, IsDesk
<1>6. \A r \in DeskRow : IsDesk([r EXCEPT !.screen = s, !.number = n, !.revision = v],
                                s, n, v, r.canvas, r.plan, r.offers)
  BY Zenon DEF DeskRow, IsDesk
<1> QED
  BY <1>1, <1>2, <1>3, <1>4, <1>5, <1>6

\* The screen everybody begins with.
LEMMA EmptyDeskIsARow ==
  EmptyDesk \in DeskRow /\ EmptyDesk.screen = "none" /\ <<>> \in Offers
<1>1. Bare \in Plan
  BY DEF Bare, Plan
<1>2. <<>> \in Offers
  <2>1. <<>> \in [{} -> OfferRow]
    OBVIOUS
  <2> QED
    BY <2>1 DEF Offers
<1>3. "none" \in Screen
  BY DEF Screen
<1> QED
  BY <1>1, <1>2, <1>3 DEF EmptyDesk, DeskRow

\* The version rows the operations write.
LEMMA VersionFields ==
  \A v \in VersionRow :
    /\ \A c \in Nat, p \in Plan, k \in Nat :
         IsVersion([v EXCEPT !.canvas = c, !.plan = p, !.revision = k], c, p, k, v.locked)
    /\ IsVersion([v EXCEPT !.locked = TRUE], v.canvas, v.plan, v.revision, TRUE)
  BY Zenon DEF VersionRow, IsVersion

\* The versions that exist are the first ones.
LEMMA LastNumberIs ==
  ASSUME LayoutTypeOK, Numbered
  PROVE  /\ LastNumber \in 0..MaxVersion
         /\ \A n \in Number : version[n].revision > 0 <=> n <= LastNumber
<1>1. PICK k \in 0..MaxVersion : \A n \in Number : version[n].revision > 0 <=> n <= k
  BY DEF Numbered
<1>2. MaxVersion \in Nat
  BY LayoutAssumption
<1>3. {n \in Number : version[n].revision > 0} = 1..k
  BY <1>1, <1>2 DEF Number
<1>4. LastNumber = k
  <2>1. Cardinality(1..k) = k
    BY <1>2, FS_Interval
  <2> QED
    BY <1>3, <2>1 DEF LastNumber
<1> QED
  BY <1>1, <1>4

\* What a manager reads of a version's offers are offers.
LEMMA OffersOnAreOffers ==
  ASSUME LayoutTypeOK, NEW n
  PROVE  OffersOn(n) \in Offers
<1>1. PICK D \in SUBSET Offer : offer \in [D -> OfferRow]
  BY DEF LayoutTypeOK, Offers
<1>2. {p \in DOMAIN offer : p[1] = n} \in SUBSET Offer
  BY <1>1
<1>3. OffersOn(n) \in [{p \in DOMAIN offer : p[1] = n} -> OfferRow]
  BY <1>1 DEF OffersOn
<1> QED
  BY <1>2, <1>3 DEF Offers

\* A manager's screen is replaced and the others stay.
LEMMA DeskPut ==
  ASSUME LayoutTypeOK, NEW m \in Manager, NEW d \in DeskRow, desk' = [desk EXCEPT ![m] = d]
  PROVE  /\ desk' \in [Manager -> DeskRow]
         /\ desk'[m] = d
         /\ \A p \in Manager : p # m => desk'[p] = desk[p]
BY DEF LayoutTypeOK

\* What a step that only looks must show: that it reads what it stands for.
LEMMA LookStep ==
  ASSUME LayoutInv, UNCHANGED <<version, copying, layout, offer, hold, now>>,
         NEW m \in Manager, NEW d \in DeskRow, desk' = [desk EXCEPT ![m] = d],
         d.screen \in {"version_row", "version"} =>
           /\ d.number \in Number
           /\ version[d.number].revision > 0
           /\ d.revision <= version[d.number].revision
           /\ d.revision = version[d.number].revision =>
                /\ d.canvas = version[d.number].canvas
                /\ d.screen = "version" => d.plan = version[d.number].plan,
         d.screen \in {"date_row", "date"} =>
           /\ d.revision <= layout.revision
           /\ d.revision = layout.revision =>
                /\ d.number = layout.version
                /\ d.screen = "date" => d.offers = current_offers
  PROVE  LayoutInv'
<1>1. /\ desk' \in [Manager -> DeskRow]
      /\ desk'[m] = d
      /\ \A p \in Manager : p # m => desk'[p] = desk[p]
  BY DeskPut DEF LayoutInv
<1>2. LayoutTypeOK'
  BY <1>1 DEF LayoutInv, LayoutTypeOK
<1>3. VersionScreens'
  <2> SUFFICES ASSUME NEW p \in Manager, desk'[p].screen \in {"version_row", "version"}
               PROVE  /\ desk'[p].number \in Number
                      /\ version[desk'[p].number].revision > 0
                      /\ desk'[p].revision <= version[desk'[p].number].revision
                      /\ desk'[p].revision = version[desk'[p].number].revision =>
                           /\ desk'[p].canvas = version[desk'[p].number].canvas
                           /\ desk'[p].screen = "version" =>
                                desk'[p].plan = version[desk'[p].number].plan
    BY DEF VersionScreens
  <2>1. CASE p = m
    BY <1>1, <2>1
  <2>2. CASE p # m
    BY <1>1, <2>2 DEF LayoutInv, VersionScreens
  <2> QED
    BY <2>1, <2>2
<1>4. DateScreens'
  <2> SUFFICES ASSUME NEW p \in Manager, desk'[p].screen \in {"date_row", "date"}
               PROVE  /\ desk'[p].revision <= layout.revision
                      /\ desk'[p].revision = layout.revision =>
                           /\ desk'[p].number = layout.version
                           /\ desk'[p].screen = "date" => desk'[p].offers = current_offers
    BY DEF DateScreens, current_offers, OffersOn
  <2>1. CASE p = m
    BY <1>1, <2>1
  <2>2. CASE p # m
    BY <1>1, <2>2 DEF LayoutInv, DateScreens
  <2> QED
    BY <2>1, <2>2
<1>5. HoldTypeOK' /\ Numbered' /\ UsedAreLocked' /\ OccupiedAreOffered'
  BY DEF LayoutInv, HoldTypeOK, Numbered, UsedAreLocked, OccupiedAreOffered, Shown, StatusShown
<1> QED
  BY <1>2, <1>3, <1>4, <1>5 DEF LayoutInv

LEMMA OpenVersionStep ==
  ASSUME LayoutInv, NEW m \in Manager, NEW n \in Number, OpenVersion(m, n), UNCHANGED holdVars
  PROVE  LayoutInv'
<1> DEFINE d == [EmptyDesk EXCEPT !.screen = "version_row", !.number = n,
                   !.revision = version[n].revision, !.canvas = version[n].canvas]
<1>1. version[n] \in VersionRow /\ n \in Nat /\ "version_row" \in Screen
  BY LayoutAssumption DEF LayoutInv, LayoutTypeOK, Number, Screen
<1>2. version[n].revision \in Nat /\ version[n].canvas \in Nat
  BY <1>1 DEF VersionRow
<1>3. d \in DeskRow /\ d.screen = "version_row" /\ d.number = n
      /\ d.revision = version[n].revision /\ d.canvas = version[n].canvas
  <2>1. EmptyDesk \in DeskRow /\ EmptyDesk.plan \in Plan /\ <<>> \in Offers
    BY EmptyDeskIsARow DEF DeskRow
  <2>2. IsDesk(d, "version_row", n, version[n].revision, version[n].canvas,
               EmptyDesk.plan, EmptyDesk.offers)
    BY <1>1, <1>2, <2>1, DeskFields
  <2> QED
    BY <2>2 DEF IsDesk
<1>4. version[n].revision > 0
  <2>1. n <= LastNumber
    BY LayoutAssumption DEF OpenVersion, LayoutInv, LastNumber
  <2> QED
    BY <2>1, LastNumberIs DEF LayoutInv
<1>5. desk' = [desk EXCEPT ![m] = d] /\ UNCHANGED <<version, copying, layout, offer, hold, now>>
  BY DEF OpenVersion, holdVars
<1> HIDE DEF d
<1>6. /\ d.screen \notin {"date_row", "date"} /\ d.screen # "version"
      /\ d.revision <= version[d.number].revision
  BY <1>2, <1>3
<1> QED
  BY <1>3, <1>4, <1>5, <1>6, LookStep

LEMMA ReadStallsStep ==
  ASSUME LayoutInv, NEW m \in Manager, ReadStalls(m), UNCHANGED holdVars
  PROVE  LayoutInv'
<1> DEFINE p == version[desk[m].number].plan
           d == [desk[m] EXCEPT !.screen = "version", !.plan = p]
<1>1. /\ desk[m].screen = "version_row" /\ desk[m] \in DeskRow
      /\ desk[m].number \in Number
      /\ version[desk[m].number].revision > 0
      /\ desk[m].revision <= version[desk[m].number].revision
      /\ desk[m].revision = version[desk[m].number].revision =>
           desk[m].canvas = version[desk[m].number].canvas
  BY DEF LayoutInv, LayoutTypeOK, VersionScreens, ReadStalls
<1>2. p \in Plan /\ "version" \in Screen
  <2>1. version[desk[m].number] \in VersionRow
    BY <1>1 DEF LayoutInv, LayoutTypeOK
  <2> QED
    BY <2>1 DEF VersionRow, Screen
<1>3. desk' = [desk EXCEPT ![m] = d] /\ UNCHANGED <<version, copying, layout, offer, hold, now>>
  BY Zenon DEF ReadStalls, holdVars, LayoutInv, LayoutTypeOK
<1>4. IsDesk(d, "version", desk[m].number, desk[m].revision, desk[m].canvas, p, desk[m].offers)
  <2> HIDE DEF p
  <2>1. desk[m].number \in Nat /\ desk[m].revision \in Nat /\ desk[m].offers \in Offers
    BY <1>1 DEF DeskRow
  <2> QED
    BY <1>1, <1>2, <2>1, DeskFields
<1>5. p = version[desk[m].number].plan
  OBVIOUS
<1> HIDE DEF p, d
<1> QED
  BY <1>1, <1>3, <1>4, <1>5, LookStep DEF IsDesk

LEMMA OpenDateStep ==
  ASSUME LayoutInv, NEW m \in Manager, OpenDate(m), UNCHANGED holdVars
  PROVE  LayoutInv'
<1> DEFINE d == [EmptyDesk EXCEPT
                   !.screen = "date_row", !.number = layout.version, !.revision = layout.revision]
<1>1. layout.version \in Nat /\ layout.revision \in Nat /\ "date_row" \in Screen
  BY LayoutAssumption DEF LayoutInv, LayoutTypeOK, Screen
<1>2. d \in DeskRow /\ d.screen = "date_row" /\ d.number = layout.version
      /\ d.revision = layout.revision
  <2>1. EmptyDesk \in DeskRow /\ EmptyDesk.plan \in Plan /\ <<>> \in Offers
    BY EmptyDeskIsARow DEF DeskRow
  <2>2. IsDesk(d, "date_row", layout.version, layout.revision, EmptyDesk.canvas,
               EmptyDesk.plan, EmptyDesk.offers)
    BY <1>1, <2>1, DeskFields
  <2> QED
    BY <2>2 DEF IsDesk
<1>3. desk' = [desk EXCEPT ![m] = d] /\ UNCHANGED <<version, copying, layout, offer, hold, now>>
  BY DEF OpenDate, holdVars
<1> HIDE DEF d
<1>4. /\ d.screen \notin {"version_row", "version"} /\ d.screen # "date"
      /\ d.revision <= layout.revision
  BY <1>1, <1>2
<1> QED
  BY <1>2, <1>3, <1>4, LookStep

LEMMA ReadOffersStep ==
  ASSUME LayoutInv, NEW m \in Manager, ReadOffers(m), UNCHANGED holdVars
  PROVE  LayoutInv'
<1> DEFINE f == OffersOn(desk[m].number)
           d == [desk[m] EXCEPT !.screen = "date", !.offers = f]
<1>1. /\ desk[m].screen = "date_row" /\ desk[m] \in DeskRow
      /\ desk[m].revision <= layout.revision
      /\ desk[m].revision = layout.revision => desk[m].number = layout.version
  BY DEF LayoutInv, LayoutTypeOK, DateScreens, ReadOffers
<1>2. f \in Offers /\ "date" \in Screen
  BY OffersOnAreOffers DEF LayoutInv, Screen
<1>3. desk' = [desk EXCEPT ![m] = d] /\ UNCHANGED <<version, copying, layout, offer, hold, now>>
  BY Zenon DEF ReadOffers, holdVars, LayoutInv, LayoutTypeOK
<1>4. IsDesk(d, "date", desk[m].number, desk[m].revision, desk[m].canvas, desk[m].plan, f)
  <2> HIDE DEF f
  <2>1. desk[m].number \in Nat /\ desk[m].revision \in Nat /\ desk[m].plan \in Plan
    BY <1>1 DEF DeskRow
  <2> QED
    BY <1>1, <1>2, <2>1, DeskFields
<1>5. desk[m].number = layout.version => f = current_offers
  BY DEF current_offers
<1> HIDE DEF f, d
<1> QED
  BY <1>1, <1>3, <1>4, <1>5, LookStep DEF IsDesk

-----------------------------------------------------------------------------
(* Versions *)

\* A new version takes the next number, which nothing refers to yet.
LEMMA AddVersionStep ==
  ASSUME LayoutInv, NEW c \in Nat, NEW p \in Plan, AddVersion(c, p),
         UNCHANGED <<layout, offer, desk, hold, now>>,
         copying' = copying \/ copying' = NoCopy
  PROVE  LayoutInv'
<1> DEFINE N == LastNumber + 1
           row == [canvas |-> c, plan |-> p, revision |-> 1, locked |-> FALSE]
<1>1. /\ N \in Number /\ MaxVersion \in Nat /\ LastNumber \in 0..MaxVersion
      /\ \A n \in Number : version[n].revision > 0 <=> n <= LastNumber
  BY LayoutAssumption, LastNumberIs DEF LayoutInv, AddVersion, Number
<1>2. version' = [version EXCEPT ![N] = row]
  BY DEF AddVersion
<1>3. row \in VersionRow /\ row.revision = 1
  BY DEF VersionRow
<1> HIDE DEF row
<1>4. /\ version' \in [Number -> VersionRow]
      /\ version'[N] = row
      /\ \A n \in Number : n # N => version'[n] = version[n]
  BY <1>1, <1>2, <1>3 DEF LayoutInv, LayoutTypeOK
<1>5. ~(version[N].revision > 0)
  BY <1>1
<1> HIDE DEF N
<1>6. LayoutTypeOK'
  <2>1. copying' \in [source : Nat, canvas : Nat] /\ (copying' # NoCopy => copying'.source \in Number)
    BY DEF LayoutInv, LayoutTypeOK, NoCopy
  <2> QED
    BY <1>4, <2>1 DEF LayoutInv, LayoutTypeOK
<1>7. Numbered'
  <2>1. N \in 0..MaxVersion /\ \A n \in Number : n <= N <=> n <= LastNumber \/ n = N
    BY <1>1 DEF N, Number
  <2>2. ASSUME NEW n \in Number
        PROVE  version'[n].revision > 0 <=> n <= N
    <3>1. CASE n = N
      BY <1>3, <1>4, <2>1, <3>1
    <3>2. CASE n # N
      BY <1>1, <1>4, <2>1, <3>2
    <3> QED
      BY <3>1, <3>2
  <2> QED
    BY <2>1, <2>2 DEF Numbered
<1>8. \A n \in Number : version[n].locked => n # N
  BY <1>5 DEF LayoutInv, UsedAreLocked
<1>9. \A n \in Number : version[n].locked => version'[n] = version[n]
  BY <1>4, <1>8
<1>10. \A o \in Offer : o[1] \in Number
  BY LayoutAssumption DEF Number
<1>11. UsedAreLocked'
  <2>1. ASSUME NEW n \in Number, version'[n].locked
        PROVE  version'[n].revision > 0
    BY <1>3, <1>4, <2>1 DEF LayoutInv, UsedAreLocked
  <2>2. layout.version # 0 => version'[layout.version].locked
    <3>1. layout.version # 0 => layout.version \in Number
      BY <1>1 DEF LayoutInv, LayoutTypeOK, Number
    <3> QED
      BY <1>9, <3>1 DEF LayoutInv, UsedAreLocked
  <2>3. ASSUME NEW r \in Reservation, hold[r].status # "NONE"
        PROVE  hold[r].offer \in Offer /\ version'[hold[r].offer[1]].locked
    BY <1>9, <1>10, <2>3 DEF LayoutInv, UsedAreLocked
  <2>4. ASSUME NEW o \in DOMAIN offer
        PROVE  version'[o[1]].locked /\ version'[o[1]].plan[o[2]] > 0
    <3>1. o \in Offer
      BY DEF LayoutInv, LayoutTypeOK, Offers
    <3> QED
      BY <1>9, <1>10, <3>1 DEF LayoutInv, UsedAreLocked
  <2>5. layout.revision = 0 => layout.version = 0
    BY DEF LayoutInv, UsedAreLocked
  <2> QED
    BY <2>1, <2>2, <2>3, <2>4, <2>5 DEF UsedAreLocked
<1>12. VersionScreens'
  <2> SUFFICES ASSUME NEW m \in Manager, desk[m].screen \in {"version_row", "version"}
               PROVE  version'[desk[m].number] = version[desk[m].number]
    BY DEF VersionScreens, LayoutInv
  <2>1. desk[m].number \in Number /\ version[desk[m].number].revision > 0
    BY DEF VersionScreens, LayoutInv
  <2> QED
    BY <1>4, <1>5, <2>1
<1>13. HoldTypeOK' /\ OccupiedAreOffered' /\ DateScreens'
  BY DEF LayoutInv, HoldTypeOK, OccupiedAreOffered, DateScreens, Shown, StatusShown,
         current_offers, OffersOn
<1> QED
  BY <1>6, <1>7, <1>11, <1>12, <1>13 DEF LayoutInv

LEMMA CreateVersionStep ==
  ASSUME LayoutInv, NEW c \in Canvas, NEW p \in Plan, create_version(c, p), UNCHANGED holdVars
  PROVE  LayoutInv'
<1>1. c \in Nat
  BY LayoutAssumption
<1> QED
  BY <1>1, AddVersionStep DEF create_version, holdVars

LEMMA CopyStallsStep ==
  ASSUME LayoutInv, CopyStalls, UNCHANGED holdVars
  PROVE  LayoutInv'
<1>1. copying.source \in Number /\ copying.canvas \in Nat
  BY DEF LayoutInv, LayoutTypeOK, CopyStalls
<1>2. version[copying.source].plan \in Plan
  BY <1>1 DEF LayoutInv, LayoutTypeOK, VersionRow
<1> QED
  BY <1>1, <1>2, AddVersionStep DEF CopyStalls, holdVars

\* Beginning a copy or giving it up changes nothing else.
LEMMA CopyingStep ==
  ASSUME LayoutInv, UNCHANGED holdVars, CopyFails \/ \E n \in Number : CopyRow(n)
  PROVE  LayoutInv'
<1>1. copying' \in [source : Nat, canvas : Nat] /\ (copying' # NoCopy => copying'.source \in Number)
  <2>1. CASE CopyFails
    BY <2>1 DEF CopyFails, NoCopy
  <2>2. ASSUME NEW n \in Number, CopyRow(n)
        PROVE  /\ copying' \in [source : Nat, canvas : Nat]
               /\ copying' # NoCopy => copying'.source \in Number
    <3>1. n \in Nat /\ version[n].canvas \in Nat
      BY LayoutAssumption DEF LayoutInv, LayoutTypeOK, VersionRow, Number
    <3> QED
      BY <2>2, <3>1 DEF CopyRow
  <2> QED
    BY <2>1, <2>2
<1>2. UNCHANGED <<version, layout, offer, desk, hold, now>>
  BY DEF CopyFails, CopyRow, holdVars
<1>3. LayoutTypeOK'
  BY <1>1, <1>2 DEF LayoutInv, LayoutTypeOK
<1> QED
  BY <1>2, <1>3 DEF LayoutInv, HoldTypeOK, Numbered, UsedAreLocked, OccupiedAreOffered,
     VersionScreens, DateScreens, Shown, StatusShown, current_offers, OffersOn

\* A save makes a new revision of a version nothing depends on, and the other
\* managers' screens become stale.
LEMMA SaveVersionStep ==
  ASSUME LayoutInv, NEW m \in Manager, NEW c \in Canvas, NEW p \in Plan,
         save_version(m, c, p), UNCHANGED holdVars
  PROVE  LayoutInv'
<1> DEFINE n == desk[m].number
           k == version[n].revision + 1
           row == Saved(n, c, p)
           d == [desk[m] EXCEPT !.canvas = c, !.plan = p, !.revision = k]
<1>1. /\ n \in Number /\ version[n] \in VersionRow /\ desk[m] \in DeskRow
      /\ desk[m].screen = "version" /\ version[n].revision > 0
      /\ c \in Nat /\ ~version[n].locked
  BY LayoutAssumption DEF LayoutInv, LayoutTypeOK, VersionScreens, save_version
<1>2. version[n].revision \in Nat /\ k \in Nat /\ k > version[n].revision
  BY <1>1 DEF VersionRow
<1>3. row = [version[n] EXCEPT !.canvas = c, !.plan = p, !.revision = k]
  BY DEF Saved
<1>4. n \in Nat
  BY <1>1, LayoutAssumption DEF Number
<1> HIDE DEF k
<1>5. IsVersion(row, c, p, k, version[n].locked)
  <2>1. IsVersion([version[n] EXCEPT !.canvas = c, !.plan = p, !.revision = k],
                  c, p, k, version[n].locked)
    BY <1>1, <1>2, VersionFields, Zenon
  <2> QED
    BY <1>3, <2>1, Zenon
<1>6. version' = [version EXCEPT ![n] = row]
  BY DEF save_version
<1> HIDE DEF row
<1>7. /\ version' \in [Number -> VersionRow]
      /\ version'[n] = row
      /\ \A i \in Number : i # n => version'[i] = version[i]
  BY <1>1, <1>5, <1>6 DEF LayoutInv, LayoutTypeOK, IsVersion
<1>8. desk' = [desk EXCEPT ![m] = d]
  <2>1. version'[n].revision = k
    BY <1>5, <1>7 DEF IsVersion
  <2>2. desk' = [desk EXCEPT ![m] = [desk[m] EXCEPT !.canvas = c, !.plan = p,
                                                    !.revision = version'[n].revision]]
    <3>1. desk' = [desk EXCEPT ![m].canvas = c, ![m].plan = p, ![m].revision = version'[n].revision]
      BY Zenon DEF save_version
    <3>2. desk \in [Manager -> DeskRow]
      BY DEF LayoutInv, LayoutTypeOK
    <3> QED
      BY <3>1, <3>2, ZenonT(60)
  <2> QED
    BY <2>1, <2>2, Zenon
<1>9. IsDesk(d, "version", n, k, c, p, desk[m].offers)
  <2>1. "version" \in Screen /\ desk[m].offers \in Offers
    BY <1>1 DEF Screen, DeskRow
  <2>2. IsDesk(d, desk[m].screen, desk[m].number, k, c, p, desk[m].offers)
    BY <1>1, <1>2, <1>4, <2>1, DeskFields, Zenon
  <2> QED
    BY <1>1, <2>2, Zenon
<1> HIDE DEF d
<1>10. /\ desk' \in [Manager -> DeskRow]
       /\ desk'[m] = d
       /\ \A q \in Manager : q # m => desk'[q] = desk[q]
  BY <1>8, <1>9, DeskPut DEF IsDesk, LayoutInv
<1>11. UNCHANGED <<copying, layout, offer, hold, now>>
  BY DEF save_version, holdVars
<1> HIDE DEF n
<1>12. LayoutTypeOK'
  BY <1>7, <1>10, <1>11 DEF LayoutInv, LayoutTypeOK
<1>13. Numbered'
  <2>1. \A i \in Number : version'[i].revision > 0 <=> version[i].revision > 0
    BY <1>1, <1>2, <1>5, <1>7 DEF IsVersion
  <2> QED
    BY <2>1 DEF LayoutInv, Numbered
<1>14. \A i \in Number : version[i].locked => version'[i] = version[i]
  BY <1>1, <1>7
<1>15. \A o \in Offer : o[1] \in Number
  BY LayoutAssumption DEF Number
<1>16. UsedAreLocked'
  <2>1. ASSUME NEW i \in Number, version'[i].locked
        PROVE  version'[i].revision > 0
    BY <1>1, <1>5, <1>7, <2>1 DEF LayoutInv, UsedAreLocked, IsVersion
  <2>2. layout.version # 0 => version'[layout.version].locked
    <3>1. layout.version # 0 => layout.version \in Number
      BY LayoutAssumption DEF LayoutInv, LayoutTypeOK, Number
    <3> QED
      BY <1>14, <3>1 DEF LayoutInv, UsedAreLocked
  <2>3. ASSUME NEW r \in Reservation, hold[r].status # "NONE"
        PROVE  hold[r].offer \in Offer /\ version'[hold[r].offer[1]].locked
    BY <1>14, <1>15, <2>3 DEF LayoutInv, UsedAreLocked
  <2>4. ASSUME NEW o \in DOMAIN offer
        PROVE  version'[o[1]].locked /\ version'[o[1]].plan[o[2]] > 0
    <3>1. o \in Offer
      BY DEF LayoutInv, LayoutTypeOK, Offers
    <3> QED
      BY <1>14, <1>15, <3>1 DEF LayoutInv, UsedAreLocked
  <2>5. layout.revision = 0 => layout.version = 0
    BY DEF LayoutInv, UsedAreLocked
  <2> QED
    BY <1>11, <2>1, <2>2, <2>3, <2>4, <2>5 DEF UsedAreLocked
<1>17. VersionScreens'
  <2> SUFFICES ASSUME NEW q \in Manager, desk'[q].screen \in {"version_row", "version"}
               PROVE  /\ desk'[q].number \in Number
                      /\ version'[desk'[q].number].revision > 0
                      /\ desk'[q].revision <= version'[desk'[q].number].revision
                      /\ desk'[q].revision = version'[desk'[q].number].revision =>
                           /\ desk'[q].canvas = version'[desk'[q].number].canvas
                           /\ desk'[q].screen = "version" =>
                                desk'[q].plan = version'[desk'[q].number].plan
    BY DEF VersionScreens
  <2>1. CASE q = m
    BY <1>1, <1>2, <1>5, <1>7, <1>9, <1>10, <2>1 DEF IsDesk, IsVersion
  <2>2. CASE q # m
    <3>1. /\ desk[q].number \in Number
          /\ version[desk[q].number].revision > 0
          /\ desk[q].revision <= version[desk[q].number].revision
          /\ desk[q].revision = version[desk[q].number].revision =>
               /\ desk[q].canvas = version[desk[q].number].canvas
               /\ desk[q].screen = "version" => desk[q].plan = version[desk[q].number].plan
      BY <1>10, <2>2 DEF LayoutInv, VersionScreens
    <3>2. CASE desk[q].number # n
      BY <1>7, <1>10, <2>2, <3>1, <3>2
    <3>3. CASE desk[q].number = n
      <4>1. desk[q].revision \in Nat /\ version'[n].revision = k
        BY <1>5, <1>7 DEF LayoutInv, LayoutTypeOK, DeskRow, IsVersion
      <4> QED
        BY <1>1, <1>2, <1>10, <2>2, <3>1, <3>3, <4>1
    <3> QED
      BY <3>2, <3>3
  <2> QED
    BY <2>1, <2>2
<1>18. DateScreens'
  <2>1. ASSUME NEW q \in Manager, desk'[q].screen \in {"date_row", "date"}
        PROVE  q # m
    BY <1>9, <1>10, <2>1 DEF IsDesk
  <2>2. current_offers' = current_offers
    BY <1>11 DEF current_offers, OffersOn
  <2> QED
    BY <1>10, <1>11, <2>1, <2>2 DEF LayoutInv, DateScreens
<1>19. HoldTypeOK' /\ OccupiedAreOffered'
  BY <1>11 DEF LayoutInv, HoldTypeOK, OccupiedAreOffered, Shown, StatusShown
<1> QED
  BY <1>12, <1>13, <1>16, <1>17, <1>18, <1>19 DEF LayoutInv

-----------------------------------------------------------------------------
(* The date's layout *)

LEMMA PublishStep ==
  ASSUME LayoutInv, unpublish_date_layout \/ \E m \in Manager : publish_date_layout(m),
         UNCHANGED holdVars
  PROVE  LayoutInv'
<1>1. layout \in [version : 0..MaxVersion, revision : Nat, published : BOOLEAN]
  BY DEF LayoutInv, LayoutTypeOK
<1>2. /\ layout' \in [version : 0..MaxVersion, revision : Nat, published : BOOLEAN]
      /\ layout'.version = layout.version /\ layout'.revision = layout.revision
  <2>1. \A b \in BOOLEAN, l \in [version : 0..MaxVersion, revision : Nat, published : BOOLEAN] :
          LET e == [l EXCEPT !.published = b] IN
          /\ e \in [version : 0..MaxVersion, revision : Nat, published : BOOLEAN]
          /\ e.version = l.version /\ e.revision = l.revision
    BY Zenon
  <2> QED
    BY <1>1, <2>1, Zenon DEF publish_date_layout, unpublish_date_layout
<1>3. UNCHANGED <<version, copying, offer, desk, hold, now>>
  BY DEF publish_date_layout, unpublish_date_layout, holdVars
<1>4. LayoutTypeOK'
  BY <1>2, <1>3 DEF LayoutInv, LayoutTypeOK
<1> QED
  BY <1>2, <1>3, <1>4 DEF LayoutInv, HoldTypeOK, Numbered, UsedAreLocked, OccupiedAreOffered,
     VersionScreens, DateScreens, Shown, StatusShown, current_offers, OffersOn

\* What is shown as occupied blocks its stall.
LEMMA ShownBlocks ==
  ASSUME HoldTypeOK, NEW r \in Reservation, Shown(r) \in Occupying
  PROVE  Blocks(hold[r]) /\ hold[r].offer \in Occupied
<1>1. hold[r] \in HoldRow /\ now \in Nat
  BY HoldAssumption DEF HoldTypeOK
<1>2. Blocks(hold[r])
  BY <1>1 DEF Shown, StatusShown, Occupying, Blocks, HoldRow
<1> QED
  BY <1>2 DEF Occupied

\* The offers of a locked version are for its stalls, so saving them all
\* leaves none of another save behind.
LEMMA SavedOffers ==
  ASSUME LayoutInv, NEW n \in Number, NEW new \in [StallsOf(n) -> OfferRow], write_offers(new)
  PROVE  /\ new \in Offers /\ offer' \in Offers
         /\ DOMAIN offer' = DOMAIN offer \cup StallsOf(n)
         /\ \A o \in DOMAIN offer' :
              offer'[o] = IF o \in StallsOf(n) THEN new[o] ELSE offer[o]
         /\ OffersOn(n)' = new
<1>1. StallsOf(n) \in SUBSET Offer
  BY LayoutAssumption DEF StallsOf, Number
<1>2. PICK D \in SUBSET Offer : offer \in [D -> OfferRow]
  BY DEF LayoutInv, LayoutTypeOK, Offers
<1>3. new \in Offers
  BY <1>1 DEF Offers
<1>4. /\ DOMAIN offer' = DOMAIN offer \cup StallsOf(n)
      /\ \A o \in DOMAIN offer' : offer'[o] = IF o \in StallsOf(n) THEN new[o] ELSE offer[o]
      /\ offer' = [o \in DOMAIN offer \cup StallsOf(n) |->
                     IF o \in StallsOf(n) THEN new[o] ELSE offer[o]]
  BY DEF write_offers
<1>5. offer' \in [D \cup StallsOf(n) -> OfferRow]
  BY <1>2, <1>4
<1>6. offer' \in Offers
  BY <1>1, <1>5 DEF Offers
<1>7. ASSUME NEW o \in DOMAIN offer'
      PROVE  o[1] = n <=> o \in StallsOf(n)
  <2>1. CASE o \in StallsOf(n)
    BY <2>1 DEF StallsOf
  <2>2. CASE o \notin StallsOf(n)
    <3>1. o \in DOMAIN offer /\ o \in Number \X Slot
      BY <1>2, <1>4, <2>2, LayoutAssumption DEF Number
    <3>2. version[o[1]].plan[o[2]] > 0
      BY <3>1 DEF LayoutInv, UsedAreLocked
    <3> QED
      BY <2>2, <3>1, <3>2 DEF StallsOf
  <2> QED
    BY <2>1, <2>2
<1>8. {p \in DOMAIN offer' : p[1] = n} = StallsOf(n)
  BY <1>4, <1>7
<1>9. OffersOn(n)' = new
  BY <1>4, <1>8 DEF OffersOn
<1> QED
  BY <1>3, <1>4, <1>6, <1>9

LEMMA SaveDateLayoutStep ==
  ASSUME LayoutInv, NEW m \in Manager, NEW n \in Number, NEW new \in [StallsOf(n) -> OfferRow],
         save_date_layout(m, n, new), UNCHANGED holdVars
  PROVE  LayoutInv'
<1> DEFINE k == layout.revision + 1
           row == [version[n] EXCEPT !.locked = TRUE]
           d == [desk[m] EXCEPT !.number = n, !.revision = k, !.offers = new]
           L == [version : 0..MaxVersion, revision : Nat, published : BOOLEAN]
<1>1. /\ version[n] \in VersionRow /\ desk[m] \in DeskRow /\ layout \in L
      /\ desk[m].screen = "date" /\ desk[m].revision = layout.revision
      /\ n \in 0..MaxVersion /\ n \in Nat /\ n # 0
  BY LayoutAssumption DEF LayoutInv, LayoutTypeOK, save_date_layout, Editable, Number
<1>2. layout.revision \in Nat /\ k \in Nat /\ k > layout.revision /\ k # 0
  BY <1>1
<1>3. version[n].revision > 0
  <2>1. n <= LastNumber
    BY <1>1, LastNumberIs DEF save_date_layout, HasStalls, LayoutInv
  <2> QED
    BY <2>1, LastNumberIs DEF LayoutInv
<1>4. /\ new \in Offers /\ offer' \in Offers
      /\ DOMAIN offer' = DOMAIN offer \cup StallsOf(n)
      /\ \A o \in DOMAIN offer' : offer'[o] = IF o \in StallsOf(n) THEN new[o] ELSE offer[o]
      /\ OffersOn(n)' = new
  BY SavedOffers DEF save_date_layout
<1>5. UNCHANGED <<copying, hold, now>>
  BY DEF save_date_layout, holdVars
<1> HIDE DEF k
<1>6. layout' \in L /\ layout'.version = n /\ layout'.revision = k
  <2>1. layout' = [layout EXCEPT !.version = n, !.revision = k]
    BY Zenon DEF save_date_layout, k
  <2>2. \A l \in L : LET e == [l EXCEPT !.version = n, !.revision = k] IN
                     e \in L /\ e.version = n /\ e.revision = k
    BY <1>1, <1>2, Zenon
  <2> QED
    BY <1>1, <2>1, <2>2, Zenon
<1>7. IsVersion(row, version[n].canvas, version[n].plan, version[n].revision, TRUE)
  BY <1>1, VersionFields, Zenon
<1>8. version' = [version EXCEPT ![n] = row]
  BY Zenon DEF save_date_layout, LockVersion, LayoutInv, LayoutTypeOK
<1> HIDE DEF row
<1>9. /\ version' \in [Number -> VersionRow]
      /\ \A i \in Number :
           /\ version'[i].canvas = version[i].canvas /\ version'[i].plan = version[i].plan
           /\ version'[i].revision = version[i].revision
           /\ version'[i].locked <=> version[i].locked \/ i = n
  BY <1>7, <1>8 DEF LayoutInv, LayoutTypeOK, IsVersion
<1>10. desk' = [desk EXCEPT ![m] = d]
  <2>1. desk' = [desk EXCEPT ![m].number = n, ![m].revision = k, ![m].offers = new]
    BY <1>6, Zenon DEF save_date_layout
  <2>2. desk \in [Manager -> DeskRow]
    BY DEF LayoutInv, LayoutTypeOK
  <2> QED
    BY <2>1, <2>2, ZenonT(60)
<1>11. IsDesk(d, "date", n, k, desk[m].canvas, desk[m].plan, new)
  <2>1. "date" \in Screen /\ desk[m].plan \in Plan
    BY <1>1 DEF Screen, DeskRow
  <2>2. IsDesk(d, desk[m].screen, n, k, desk[m].canvas, desk[m].plan, new)
    BY <1>1, <1>2, <1>4, <2>1, DeskFields, Zenon
  <2> QED
    BY <1>1, <2>2, Zenon
<1> HIDE DEF d
<1>12. /\ desk' \in [Manager -> DeskRow]
       /\ desk'[m] = d
       /\ \A q \in Manager : q # m => desk'[q] = desk[q]
  BY <1>10, <1>11, DeskPut DEF IsDesk, LayoutInv
<1>13. LayoutTypeOK'
  BY <1>4, <1>5, <1>6, <1>9, <1>12 DEF LayoutInv, LayoutTypeOK
<1>14. Numbered'
  BY <1>9 DEF LayoutInv, Numbered
<1>15. \A o \in Offer : o[1] \in Number
  BY LayoutAssumption DEF Number
<1>16. UsedAreLocked'
  <2>1. ASSUME NEW i \in Number, version'[i].locked
        PROVE  version'[i].revision > 0
    BY <1>3, <1>9, <2>1 DEF LayoutInv, UsedAreLocked
  <2>2. layout'.version # 0 /\ version'[layout'.version].locked /\ layout'.revision # 0
    BY <1>1, <1>2, <1>6, <1>9
  <2>3. ASSUME NEW r \in Reservation, hold[r].status # "NONE"
        PROVE  hold[r].offer \in Offer /\ version'[hold[r].offer[1]].locked
    BY <1>9, <1>15, <2>3 DEF LayoutInv, UsedAreLocked
  <2>4. ASSUME NEW o \in DOMAIN offer'
        PROVE  version'[o[1]].locked /\ version'[o[1]].plan[o[2]] > 0
    <3>1. CASE o \in StallsOf(n)
      <4>1. o[1] = n /\ version[n].plan[o[2]] > 0
        BY <3>1 DEF StallsOf
      <4> QED
        BY <1>9, <4>1
    <3>2. CASE o \notin StallsOf(n)
      <4>1. o \in DOMAIN offer /\ o \in Offer
        BY <1>4, <3>2 DEF LayoutInv, LayoutTypeOK, Offers
      <4> QED
        BY <1>9, <1>15, <4>1 DEF LayoutInv, UsedAreLocked
    <3> QED
      BY <3>1, <3>2
  <2> QED
    BY <1>5, <2>1, <2>2, <2>3, <2>4 DEF UsedAreLocked
<1>17. OccupiedAreOffered'
  <2> SUFFICES ASSUME NEW r \in Reservation, Shown(r) \in Occupying
               PROVE  /\ hold[r].offer \in DOMAIN offer'
                      /\ hold[r].offer[1] = n
                      /\ offer'[hold[r].offer].enabled
    BY <1>5, <1>6 DEF OccupiedAreOffered, Shown, StatusShown
  <2>1. /\ hold[r].offer \in DOMAIN offer
        /\ hold[r].offer[1] = layout.version
        /\ offer[hold[r].offer].enabled
    BY DEF LayoutInv, OccupiedAreOffered
  <2>2. hold[r].offer \in Occupied
    BY ShownBlocks DEF LayoutInv
  <2>3. layout.version = n
    <3>1. layout.version \in Number
      BY <1>15, <2>1 DEF LayoutInv, LayoutTypeOK, Offers
    <3>2. layout.version # 0
      BY <3>1, LayoutAssumption DEF Number
    <3>3. layout.revision > 0
      BY <1>2, <3>2 DEF LayoutInv, UsedAreLocked
    <3> QED
      BY <2>2, <3>3 DEF save_date_layout, protect_reserved_offers
  <2>4. hold[r].offer \in StallsOf(n) => new[hold[r].offer].enabled
    BY <2>2 DEF save_date_layout, protect_reserved_offers
  <2> QED
    BY <1>4, <2>1, <2>3, <2>4
<1>18. VersionScreens'
  <2>1. ASSUME NEW q \in Manager, desk'[q].screen \in {"version_row", "version"}
        PROVE  q # m
    BY <1>11, <1>12, <2>1 DEF IsDesk
  <2> QED
    BY <1>9, <1>12, <2>1 DEF LayoutInv, VersionScreens
<1>19. DateScreens'
  <2> SUFFICES ASSUME NEW q \in Manager, desk'[q].screen \in {"date_row", "date"}
               PROVE  /\ desk'[q].revision <= k
                      /\ desk'[q].revision = k =>
                           /\ desk'[q].number = n
                           /\ desk'[q].screen = "date" => desk'[q].offers = OffersOn(n)'
    BY <1>6 DEF DateScreens, current_offers, OffersOn
  <2>1. CASE q = m
    BY <1>2, <1>4, <1>11, <1>12, <2>1 DEF IsDesk
  <2>2. CASE q # m
    <3>1. desk'[q] = desk[q] /\ desk[q].revision <= layout.revision /\ desk[q].revision \in Nat
      BY <1>12, <2>2 DEF LayoutInv, LayoutTypeOK, DateScreens, DeskRow
    <3> QED
      BY <1>2, <3>1
  <2> QED
    BY <2>1, <2>2
<1>20. HoldTypeOK'
  BY <1>5 DEF LayoutInv, HoldTypeOK
<1> QED
  BY <1>13, <1>14, <1>16, <1>17, <1>18, <1>19, <1>20 DEF LayoutInv

-----------------------------------------------------------------------------
(* The date's reservations *)

LEMMA HoldStepKeeps ==
  ASSUME LayoutInv, HoldStep
  PROVE  LayoutInv'
<1>1. HoldTypeOK' /\ Fades
  BY HoldStepFades DEF LayoutInv
<1>2. UNCHANGED <<version, copying, layout, offer, desk>>
  BY DEF HoldStep, layoutVars
<1>3. UsedAreLocked' /\ OccupiedAreOffered'
  <2>1. ASSUME NEW r \in Reservation, hold'[r].status # "NONE"
        PROVE  hold'[r].offer \in Offer /\ version'[hold'[r].offer[1]].locked
    BY <1>1, <1>2, <2>1 DEF Fades, LayoutInv, UsedAreLocked
  <2>2. ASSUME NEW r \in Reservation, Shown(r)' \in Occupying
        PROVE  hold'[r].offer = hold[r].offer /\ Shown(r) \in Occupying
    <3>1. hold'[r].status # "NONE"
      BY <2>2 DEF Shown, StatusShown, Occupying
    <3> QED
      BY <1>1, <2>2, <3>1 DEF Fades
  <2>3. OccupiedAreOffered'
    BY <1>2, <2>2 DEF LayoutInv, OccupiedAreOffered
  <2> QED
    BY <1>2, <2>1, <2>3 DEF LayoutInv, UsedAreLocked
<1>4. LayoutTypeOK' /\ Numbered' /\ VersionScreens' /\ DateScreens'
  BY <1>2 DEF LayoutInv, LayoutTypeOK, Numbered, VersionScreens, DateScreens,
     current_offers, OffersOn
<1> QED
  BY <1>1, <1>3, <1>4 DEF LayoutInv

LEMMA TakeStallStep ==
  ASSUME LayoutInv, NEW b \in Business, NEW key \in RequestKey, NEW o \in Offer,
         TakeStall(b, key, o)
  PROVE  LayoutInv'
<1> DEFINE p == offer[o].price
           q == <<b, key>>
           rows == ExpireLapsed(hold)
           row == [status |-> "HELD", offer |-> o, price |-> p,
                   expires |-> now + HoldFor, pending |-> FALSE]
<1>1. AcquireHold(b, key, o, p) /\ UNCHANGED <<version, copying, layout, offer, desk>>
      /\ o[1] = layout.version /\ o \in DOMAIN offer /\ offer[o].enabled
  BY DEF TakeStall, Offered, layoutVars
<1>2. p \in Price
  <2>1. offer[o] \in OfferRow
    BY <1>1 DEF LayoutInv, LayoutTypeOK, Offers
  <2> QED
    BY <2>1 DEF OfferRow
<1> HIDE DEF p
<1>3. HoldTypeOK'
  BY <1>1, <1>2, HoldTypeStep DEF HoldNext, LayoutInv
<1>4. hold' = [rows EXCEPT ![q] = row] /\ now' = now
  BY <1>1 DEF AcquireHold
<1>5. /\ WellFormed(hold) /\ rows \in [Reservation -> HoldRow] /\ q \in Reservation
      /\ \A r \in Reservation : rows[r].status # "NONE" =>
           hold[r].status # "NONE" /\ rows[r].offer = hold[r].offer
  <2>1. WellFormed(hold)
    BY DEF LayoutInv, HoldTypeOK, WellFormed
  <2>2. Follows(hold, rows)
    BY <2>1, ExpireLapsedRow DEF Follows, Lapsed
  <2> QED
    BY <2>1, <2>2, ExpireLapsedWellFormed DEF WellFormed, Follows, Reservation
<1>6. row.status = "HELD" /\ row.offer = o
  OBVIOUS
<1>7. ASSUME NEW r \in Reservation, r # q, Shown(r)' \in Occupying
      PROVE  Shown(r) \in Occupying /\ hold'[r].offer = hold[r].offer
  <2>1. hold'[r] = rows[r] /\ rows[r].status = Shown(r) /\ rows[r].offer = hold[r].offer
    BY <1>4, <1>5, <1>7, ShownIsSwitched DEF LayoutInv, Shown
  <2>2. hold'[r].status \in Occupying
    BY <1>7 DEF Shown, StatusShown, Occupying
  <2> QED
    BY <2>1, <2>2
<1> HIDE DEF row, rows
<1>8. UsedAreLocked'
  <2>1. ASSUME NEW r \in Reservation, hold'[r].status # "NONE"
        PROVE  hold'[r].offer \in Offer /\ version[hold'[r].offer[1]].locked
    <3>1. CASE r = q
      BY <1>1, <1>4, <1>5, <1>6, <3>1 DEF LayoutInv, UsedAreLocked
    <3>2. CASE r # q
      BY <1>4, <1>5, <2>1, <3>2 DEF LayoutInv, UsedAreLocked
    <3> QED
      BY <3>1, <3>2
  <2> QED
    BY <1>1, <2>1 DEF LayoutInv, UsedAreLocked
<1>9. OccupiedAreOffered'
  <2> SUFFICES ASSUME NEW r \in Reservation, Shown(r)' \in Occupying
               PROVE  /\ hold'[r].offer \in DOMAIN offer
                      /\ hold'[r].offer[1] = layout.version
                      /\ offer[hold'[r].offer].enabled
    BY <1>1 DEF OccupiedAreOffered
  <2>1. CASE r = q
    BY <1>1, <1>4, <1>5, <1>6, <2>1
  <2>2. CASE r # q
    BY <1>7, <2>2 DEF LayoutInv, OccupiedAreOffered
  <2> QED
    BY <2>1, <2>2
<1>10. LayoutTypeOK' /\ Numbered' /\ VersionScreens' /\ DateScreens'
  BY <1>1 DEF LayoutInv, LayoutTypeOK, Numbered, VersionScreens, DateScreens,
     current_offers, OffersOn
<1> QED
  BY <1>3, <1>8, <1>9, <1>10 DEF LayoutInv

-----------------------------------------------------------------------------
(* The theorems *)

LEMMA LayoutInitially == Init => LayoutInv
<1> SUFFICES ASSUME Init PROVE LayoutInv
  OBVIOUS
<1>1. HoldTypeOK
  BY HoldAssumption DEF Init, HoldInit, HoldTypeOK, HoldRow, HoldStatus, NoHold
<1>2. NoVersion \in VersionRow /\ NoVersion.revision = 0 /\ ~NoVersion.locked
  <2>1. Bare \in Plan
    BY DEF Bare, Plan
  <2> QED
    BY <2>1 DEF NoVersion, VersionRow
<1>3. LayoutTypeOK
  <2>1. 0 \in 0..MaxVersion
    BY LayoutAssumption
  <2> QED
    BY <1>2, <2>1, EmptyDeskIsARow DEF Init, LayoutTypeOK, NoCopy
<1>4. Numbered
  <2>1. 0 \in 0..MaxVersion /\ \A n \in Number : ~(n <= 0)
    BY LayoutAssumption DEF Number
  <2>2. \A n \in Number : ~(version[n].revision > 0)
    BY <1>2 DEF Init
  <2> QED
    BY <2>1, <2>2 DEF Numbered
<1>5. UsedAreLocked /\ OccupiedAreOffered
  <2>1. DOMAIN offer = {}
    BY DEF Init
  <2>2. \A r \in Reservation : hold[r].status = "NONE"
    BY DEF Init, HoldInit, NoHold
  <2> QED
    BY <1>2, <2>1, <2>2 DEF Init, UsedAreLocked, OccupiedAreOffered, Shown, StatusShown, Occupying
<1>6. VersionScreens /\ DateScreens
  BY EmptyDeskIsARow DEF Init, VersionScreens, DateScreens
<1> QED
  BY <1>1, <1>3, <1>4, <1>5, <1>6 DEF LayoutInv

LEMMA LayoutSteps == LayoutInv /\ [Next]_vars => LayoutInv'
<1> SUFFICES ASSUME LayoutInv, [Next]_vars PROVE LayoutInv'
  OBVIOUS
<1>1. CASE LayoutStep
  BY <1>1, CreateVersionStep, CopyingStep, CopyStallsStep, PublishStep, OpenVersionStep,
     ReadStallsStep, OpenDateStep, ReadOffersStep, SaveVersionStep, SaveDateLayoutStep
     DEF LayoutStep
<1>2. ASSUME NEW b \in Business, NEW key \in RequestKey, NEW o \in Offer, TakeStall(b, key, o)
      PROVE  LayoutInv'
  BY <1>2, TakeStallStep
<1>3. CASE HoldStep
  BY <1>3, HoldStepKeeps
<1>4. CASE UNCHANGED vars
  BY <1>4 DEF vars, layoutVars, holdVars, LayoutInv, LayoutTypeOK, HoldTypeOK, Numbered,
     UsedAreLocked, OccupiedAreOffered, VersionScreens, DateScreens, Shown, StatusShown,
     current_offers, OffersOn
<1> QED
  BY <1>1, <1>2, <1>3, <1>4 DEF Next

\* The invariant above holds of every run, whatever the managers, versions,
\* businesses and stalls.
LEMMA LayoutsAreSound == Spec => []LayoutInv
  BY LayoutInitially, LayoutSteps, PTL DEF Spec

\* A stall that is held, paid for or booked stays an enabled offer of the
\* date's layout: layouts/services.py, _protect_reserved_offers, under the
\* date's lock.
THEOREM OccupiedStaysOffered == Spec => []OccupiedStallsAreOffered
<1>1. LayoutInv => OccupiedStallsAreOffered
  BY DEF LayoutInv, OccupiedAreOffered, OccupiedStallsAreOffered, Shown, current_offers, OffersOn
<1> QED
  BY <1>1, LayoutsAreSound, PTL

\* What the steps do to versions and to the date's offers.
LEMMA WhatIsWritten ==
  ASSUME LayoutInv, [Next]_vars
  PROVE  \/ UNCHANGED <<version, current_offers>>
         \/ UNCHANGED current_offers /\ \E c, p : AddVersion(c, p)
         \/ UNCHANGED current_offers /\ \E m \in Manager, c \in Canvas, p \in Plan : save_version(m, c, p)
         \/ \E m \in Manager, n \in Number : \E new \in [StallsOf(n) -> OfferRow] :
              save_date_layout(m, n, new)
<1>1. CASE LayoutStep
  <2>1. ASSUME NEW c \in Canvas, NEW p \in Plan, create_version(c, p)
        PROVE  UNCHANGED current_offers /\ AddVersion(c, p)
    BY <2>1 DEF create_version, current_offers, OffersOn
  <2>2. CASE CopyStalls
    BY <2>2 DEF CopyStalls, current_offers, OffersOn
  <2>3. ASSUME NEW m \in Manager, NEW c \in Canvas, NEW p \in Plan, save_version(m, c, p)
        PROVE  UNCHANGED current_offers
    BY <2>3 DEF save_version, current_offers, OffersOn
  <2>4. CASE unpublish_date_layout \/ \E m \in Manager : publish_date_layout(m)
    <3>1. layout'.version = layout.version /\ UNCHANGED <<version, offer>>
      BY <2>4 DEF unpublish_date_layout, publish_date_layout, LayoutInv, LayoutTypeOK
    <3> QED
      BY <3>1 DEF current_offers, OffersOn
  <2>5. CASE CopyFails \/ \E n \in Number : CopyRow(n)
    BY <2>5 DEF CopyFails, CopyRow, current_offers, OffersOn
  <2>6. ASSUME NEW m \in Manager,
               ReadStalls(m) \/ OpenDate(m) \/ ReadOffers(m) \/ \E n \in Number : OpenVersion(m, n)
        PROVE  UNCHANGED <<version, current_offers>>
    BY <2>6 DEF ReadStalls, OpenDate, ReadOffers, OpenVersion, current_offers, OffersOn
  <2> QED
    BY <1>1, <2>1, <2>2, <2>3, <2>4, <2>5, <2>6 DEF LayoutStep
<1>2. CASE UNCHANGED layoutVars
  BY <1>2 DEF layoutVars, current_offers, OffersOn
<1> QED
  BY <1>1, <1>2 DEF Next, TakeStall, HoldStep, vars

\* A new version and a save of one leave every other version as it is.
LEMMA OtherVersionsStay ==
  ASSUME LayoutInv, NEW n \in Number, version[n].revision > 0
  PROVE  /\ \A c, p : AddVersion(c, p) => version'[n] = version[n]
         /\ \A m \in Manager, c \in Canvas, p \in Plan :
              save_version(m, c, p) /\ n # desk[m].number => version'[n] = version[n]
         /\ \A m \in Manager, i \in Number : \A new \in [StallsOf(i) -> OfferRow] :
              save_date_layout(m, i, new) =>
                version'[n].plan = version[n].plan /\ version'[n].canvas = version[n].canvas
<1>1. n <= LastNumber /\ LastNumber \in Nat /\ n \in Nat
  BY LastNumberIs, LayoutAssumption DEF LayoutInv, Number
<1>2. n # LastNumber + 1
  BY <1>1
<1>3. version \in [Number -> VersionRow] /\ version[n] \in VersionRow
  BY DEF LayoutInv, LayoutTypeOK
<1>4. ASSUME NEW c, NEW p, AddVersion(c, p)
      PROVE  version'[n] = version[n]
  BY <1>2, <1>3, <1>4 DEF AddVersion
<1>5. ASSUME NEW m \in Manager, NEW c \in Canvas, NEW p \in Plan, save_version(m, c, p),
             n # desk[m].number
      PROVE  version'[n] = version[n]
  BY <1>3, <1>5 DEF save_version
<1>6. ASSUME NEW m \in Manager, NEW i \in Number, NEW new \in [StallsOf(i) -> OfferRow],
             save_date_layout(m, i, new)
      PROVE  version'[n].plan = version[n].plan /\ version'[n].canvas = version[n].canvas
  <2>1. version' = [version EXCEPT ![i].locked = TRUE]
    BY <1>6 DEF save_date_layout, LockVersion
  <2> QED
    BY <1>3, <2>1 DEF VersionRow
<1> QED
  BY <1>4, <1>5, <1>6

\* The plan of a version that a date has selected, or a reservation names,
\* never changes: layouts/services.py locks the version when a date saves it
\* and refuses to save a locked version.
THEOREM UsedPlansAreFinal == Spec => UsedPlansStay
<1> DEFINE Stays ==
      \A n \in Number :
        \/ layout.version = n
        \/ \E r \in Reservation : hold[r].status # "NONE" /\ hold[r].offer[1] = n
        => version'[n].plan = version[n].plan /\ version'[n].canvas = version[n].canvas
<1>1. LayoutInv /\ [Next]_vars => Stays
  <2> SUFFICES ASSUME LayoutInv, [Next]_vars, NEW n \in Number,
                      \/ layout.version = n
                      \/ \E r \in Reservation : hold[r].status # "NONE" /\ hold[r].offer[1] = n
               PROVE  version'[n].plan = version[n].plan /\ version'[n].canvas = version[n].canvas
    OBVIOUS
  <2>1. n # 0
    BY LayoutAssumption DEF Number
  <2>2. version[n].locked /\ version[n].revision > 0
    BY <2>1 DEF LayoutInv, UsedAreLocked
  <2>3. ASSUME NEW m \in Manager, NEW c \in Canvas, NEW p \in Plan, save_version(m, c, p)
        PROVE  n # desk[m].number
    BY <2>2, <2>3 DEF save_version
  <2> QED
    BY <2>2, <2>3, WhatIsWritten, OtherVersionsStay
<1>2. Stays => [Stays]_vars
  OBVIOUS
<1> QED
  BY <1>1, LayoutsAreSound, PTL DEF Spec, UsedPlansStay

\* Nobody writes over a version or over a date's offers without having seen
\* what they replace, however many managers have them open: the revisions of
\* layouts/services.py.
THEOREM EditsAreSeen == Spec => NothingIsOverwrittenUnseen
<1> DEFINE Seen ==
     /\ \A n \in 1..LastNumber :
          \/ version'[n].plan = version[n].plan /\ version'[n].canvas = version[n].canvas
          \/ \E m \in Manager :
               desk[m].screen = "version" /\ desk[m].number = n /\
               desk[m].plan = version[n].plan /\ desk[m].canvas = version[n].canvas
     /\ \/ current_offers' = current_offers
        \/ \E m \in Manager :
             desk[m].screen = "date" /\ desk[m].number = layout.version /\
             desk[m].offers = current_offers
<1>1. LayoutInv /\ [Next]_vars => Seen
  <2> SUFFICES ASSUME LayoutInv, [Next]_vars PROVE Seen
    OBVIOUS
  <2>1. ASSUME NEW n \in 1..LastNumber
        PROVE  \/ version'[n].plan = version[n].plan /\ version'[n].canvas = version[n].canvas
               \/ \E m \in Manager :
                    desk[m].screen = "version" /\ desk[m].number = n /\
                    desk[m].plan = version[n].plan /\ desk[m].canvas = version[n].canvas
    <3>1. n \in Number /\ version[n].revision > 0
      BY LastNumberIs, LayoutAssumption DEF LayoutInv, Number
    <3>2. ASSUME NEW m \in Manager, NEW c \in Canvas, NEW p \in Plan, save_version(m, c, p),
                 n = desk[m].number
          PROVE  desk[m].screen = "version" /\ desk[m].number = n /\
                 desk[m].plan = version[n].plan /\ desk[m].canvas = version[n].canvas
      BY <3>2 DEF save_version, LayoutInv, VersionScreens
    <3> QED
      BY <3>1, <3>2, WhatIsWritten, OtherVersionsStay
  <2>2. \/ current_offers' = current_offers
        \/ \E m \in Manager :
             desk[m].screen = "date" /\ desk[m].number = layout.version /\
             desk[m].offers = current_offers
    <3>1. ASSUME NEW m \in Manager, NEW n \in Number, NEW new \in [StallsOf(n) -> OfferRow],
                 save_date_layout(m, n, new)
          PROVE  desk[m].screen = "date" /\ desk[m].number = layout.version /\
                 desk[m].offers = current_offers
      BY <3>1 DEF save_date_layout, Editable, LayoutInv, DateScreens
    <3> QED
      BY <3>1, WhatIsWritten
  <2> QED
    BY <2>1, <2>2
<1>2. Seen => [Seen]_vars
  OBVIOUS
<1> QED
  BY <1>1, LayoutsAreSound, PTL DEF Spec, NothingIsOverwrittenUnseen

\* What a date publishes is what the manager who published it had on the
\* screen: publish_date_layout asks for the revision they loaded.
THEOREM PublishedWasSeen == Spec => PublishedAsSeen
<1> DEFINE Seen ==
      layout'.published /\ ~layout.published =>
        \E m \in Manager :
          desk[m].screen = "date" /\ desk[m].number = layout.version /\
          desk[m].offers = current_offers'
<1>1. LayoutInv /\ [Next]_vars => Seen
  <2> SUFFICES ASSUME LayoutInv, [Next]_vars, layout'.published, ~layout.published
               PROVE  \E m \in Manager :
                        desk[m].screen = "date" /\ desk[m].number = layout.version /\
                        desk[m].offers = current_offers'
    OBVIOUS
  <2>1. layout \in [version : 0..MaxVersion, revision : Nat, published : BOOLEAN]
    BY DEF LayoutInv, LayoutTypeOK
  <2>2. ASSUME NEW m \in Manager, publish_date_layout(m)
        PROVE  desk[m].screen = "date" /\ desk[m].number = layout.version /\
               desk[m].offers = current_offers'
    <3>1. layout'.version = layout.version /\ offer' = offer
      BY <2>1, <2>2 DEF publish_date_layout
    <3>2. current_offers' = current_offers
      BY <3>1 DEF current_offers, OffersOn
    <3>3. layout.revision <= layout.revision
      BY <2>1
    <3> QED
      BY <2>2, <3>2, <3>3 DEF publish_date_layout, LayoutInv, DateScreens
  <2>3. ASSUME NEW m \in Manager, NEW n \in Number, NEW new \in [StallsOf(n) -> OfferRow],
               save_date_layout(m, n, new)
        PROVE  FALSE
    <3>1. layout' = [layout EXCEPT !.version = n, !.revision = layout.revision + 1]
      BY <2>3, Zenon DEF save_date_layout
    <3>2. layout'.published = layout.published
      BY <2>1, <3>1
    <3> QED
      BY <3>2
  <2>4. ~unpublish_date_layout
    BY <2>1 DEF unpublish_date_layout
  <2>5. ~UNCHANGED layout
    OBVIOUS
  <2>6. CASE LayoutStep
    BY <2>2, <2>3, <2>4, <2>5, <2>6 DEF LayoutStep, create_version, CopyRow, CopyStalls,
       CopyFails, OpenVersion, ReadStalls, OpenDate, ReadOffers, save_version
  <2> QED
    BY <2>5, <2>6 DEF Next, TakeStall, HoldStep, vars, layoutVars
<1>2. Seen => [Seen]_vars
  OBVIOUS
<1> QED
  BY <1>1, LayoutsAreSound, PTL DEF Spec, PublishedAsSeen

-----------------------------------------------------------------------------
(* The date's reservations among its layouts *)

LEMMA StepsAreHoldSteps ==
  ASSUME LayoutInv, [Next]_vars
  PROVE  [HoldNext]_holdVars
<1>1. ASSUME NEW b \in Business, NEW k \in RequestKey, NEW o \in Offer, TakeStall(b, k, o)
      PROVE  HoldNext
  <2>1. offer[o].price \in Price
    BY <1>1 DEF TakeStall, Offered, LayoutInv, LayoutTypeOK, Offers, OfferRow
  <2> QED
    BY <1>1, <2>1 DEF TakeStall, HoldNext
<1>2. ASSUME NEW r \in Reservation, StartPayment(r, now + HoldFor)
      PROVE  HoldNext
  <2>1. now + HoldFor \in 0..MaxTime + HoldFor
    BY HoldAssumption DEF LayoutInv, HoldTypeOK
  <2> QED
    BY <1>2, <2>1 DEF HoldNext
<1>3. ASSUME HoldStep PROVE HoldNext
  BY <1>2, <1>3 DEF HoldStep, HoldNext
<1> QED
  BY <1>1, <1>3 DEF Next, LayoutStep, vars, holdVars

\* What happens to the reservations of a date while managers edit, copy, select
\* and publish its layouts is always one of the operations of
\* reservations/services.py, so what is proved of the reservations alone holds
\* of them here.
THEOREM LayoutsUseHolds == Spec => HoldSpec
<1>1. Init => HoldInit
  BY DEF Init
<1>2. LayoutInv /\ [Next]_vars => [HoldNext]_holdVars
  BY StepsAreHoldSteps
<1> QED
  BY <1>1, <1>2, LayoutsAreSound, PTL DEF Spec, HoldSpec

\* No stall of the date has two occupants and no business two stalls, whatever
\* layout services do to the offers meanwhile.
THEOREM OfferedStallsAreExclusive == Spec => [](OneOccupantPerStall /\ OneStallPerBusiness)
  BY LayoutsUseHolds, StallsAreExclusive, BusinessesHaveOneStall, PTL

-----------------------------------------------------------------------------
(* Places.  Every write of a plan is checked (check_plan), except a copy, which
   takes over the stalls of a version as they are at that moment. *)

\* No two stalls of a version stand in the same place.
Apart(plan) == \A s, t \in Slot : plan[s] = plan[t] /\ plan[s] > 0 => s = t

PlansKeepApart == \A n \in Number : Apart(version[n].plan)

\* Where the stall of a reservation stands.
PlaceOf(r) == version[hold[r].offer[1]].plan[hold[r].offer[2]]

\* Never two vendors in one place of the market on one date.
PlacesAreHeldOnce ==
  \A q, r \in Reservation :
    /\ StatusShown(hold[q]) \in Occupying
    /\ StatusShown(hold[r]) \in Occupying
    /\ PlaceOf(q) = PlaceOf(r)
    => q = r

LEMMA PlansKeepApartStep ==
  ASSUME LayoutInv, PlansKeepApart, [Next]_vars
  PROVE  PlansKeepApart'
<1>1. version \in [Number -> VersionRow]
  BY DEF LayoutInv, LayoutTypeOK
<1>2. ASSUME NEW n \in Number, NEW row, Apart(row.plan), version' = [version EXCEPT ![n] = row]
      PROVE  PlansKeepApart'
  <2>1. \A i \in Number : version'[i] = IF i = n THEN row ELSE version[i]
    BY <1>1, <1>2
  <2> QED
    BY <1>2, <2>1 DEF PlansKeepApart, Apart
<1>3. ASSUME NEW c, NEW p, AddVersion(c, p), Apart(p)
      PROVE  PlansKeepApart'
  <2> DEFINE row == [canvas |-> c, plan |-> p, revision |-> 1, locked |-> FALSE]
             last == LastNumber + 1
  <2>1. Apart(row.plan)
    BY <1>3 DEF Apart
  <2>2. version' = [version EXCEPT ![last] = row]
    BY <1>3 DEF AddVersion
  <2>3. last \in Number
    BY <1>3, LastNumberIs, LayoutAssumption DEF AddVersion, Number, LayoutInv
  <2> HIDE DEF row, last
  <2> QED
    BY <1>2, <2>1, <2>2, <2>3
<1>4. ASSUME NEW c \in Canvas, NEW p \in Plan, create_version(c, p)
      PROVE  PlansKeepApart'
  BY <1>3, <1>4 DEF create_version, check_plan, Apart
<1>5. CASE CopyStalls
  <2>1. copying.source \in Number
    BY <1>5 DEF CopyStalls, LayoutInv, LayoutTypeOK
  <2> QED
    BY <1>3, <1>5, <2>1 DEF CopyStalls, PlansKeepApart
<1>6. ASSUME NEW m \in Manager, NEW c \in Canvas, NEW p \in Plan, save_version(m, c, p)
      PROVE  PlansKeepApart'
  <2> DEFINE n == desk[m].number
  <2>1. n \in Number /\ version[n] \in VersionRow /\ c \in Nat
    BY <1>1, <1>6, LayoutAssumption DEF save_version, LayoutInv, VersionScreens
  <2>2. Saved(n, c, p).plan = p
    <3>1. version[n].revision + 1 \in Nat
      BY <2>1 DEF VersionRow
    <3> DEFINE k == version[n].revision + 1
    <3>2. Saved(n, c, p) = [version[n] EXCEPT !.canvas = c, !.plan = p, !.revision = k]
      BY DEF Saved
    <3> HIDE DEF k
    <3>3. k \in Nat
      BY <3>1 DEF k
    <3>4. IsVersion([version[n] EXCEPT !.canvas = c, !.plan = p, !.revision = k],
                    c, p, k, version[n].locked)
      BY <2>1, <3>3, VersionFields, Zenon
    <3> QED
      BY <3>2, <3>4, Zenon DEF IsVersion
  <2>3. version' = [version EXCEPT ![n] = Saved(n, c, p)]
    BY <1>6 DEF save_version
  <2>4. Apart(Saved(n, c, p).plan)
    BY <1>6, <2>2 DEF save_version, check_plan, Apart
  <2> QED
    BY <1>2, <2>1, <2>3, <2>4
<1>7. ASSUME NEW m \in Manager, NEW n \in Number, NEW new \in [StallsOf(n) -> OfferRow],
             save_date_layout(m, n, new)
      PROVE  PlansKeepApart'
  <2> DEFINE row == [version[n] EXCEPT !.locked = TRUE]
  <2>1. row.plan = version[n].plan
    BY <1>1, VersionFields, Zenon DEF IsVersion
  <2>2. version' = [version EXCEPT ![n] = row]
    BY <1>1, <1>7, Zenon DEF save_date_layout, LockVersion
  <2>3. Apart(row.plan)
    BY <2>1 DEF PlansKeepApart
  <2> HIDE DEF row
  <2> QED
    BY <1>2, <2>2, <2>3
<1>8. CASE UNCHANGED version
  BY <1>8 DEF PlansKeepApart
<1>9. CASE LayoutStep
  BY <1>4, <1>5, <1>6, <1>7, <1>8, <1>9 DEF LayoutStep, CopyRow, CopyFails,
     unpublish_date_layout, OpenVersion, ReadStalls, OpenDate, ReadOffers, publish_date_layout
<1> QED
  BY <1>8, <1>9 DEF Next, TakeStall, HoldStep, vars, layoutVars

\* No two vendors are ever promised the same place of the market on one date:
\* check_plan keeps the stalls of a version apart, also in every copy of it,
\* every occupied stall is one of the version the date uses, and a stall has
\* one occupant.
THEOREM OneVendorPerPlace == Spec => []PlacesAreHeldOnce
<1>1. Init => PlansKeepApart
  <2>1. \A s \in Slot : Bare[s] = 0
    BY DEF Bare
  <2>2. Init => \A n \in Number : version[n].plan = Bare
    BY DEF Init, NoVersion
  <2>3. Apart(Bare)
    BY <2>1 DEF Apart
  <2> QED
    BY <2>2, <2>3 DEF PlansKeepApart
<1>2. LayoutInv /\ PlansKeepApart /\ [Next]_vars => PlansKeepApart'
  BY PlansKeepApartStep
<1>3. LayoutInv /\ PlansKeepApart /\ OneOccupantPerStall => PlacesAreHeldOnce
  <2> SUFFICES ASSUME LayoutInv, PlansKeepApart, OneOccupantPerStall,
                      NEW q \in Reservation, NEW r \in Reservation,
                      Shown(q) \in Occupying, Shown(r) \in Occupying, PlaceOf(q) = PlaceOf(r)
               PROVE  q = r
    BY DEF PlacesAreHeldOnce, Shown
  <2> DEFINE o == hold[q].offer
             p == hold[r].offer
  <2>1. o \in DOMAIN offer /\ p \in DOMAIN offer /\ o[1] = p[1]
    BY DEF LayoutInv, OccupiedAreOffered
  <2>2. o \in Number \X Slot /\ p \in Number \X Slot
    BY <2>1, LayoutAssumption DEF LayoutInv, LayoutTypeOK, Offers, Number
  <2>3. version[o[1]].plan[o[2]] > 0
    BY <2>1 DEF LayoutInv, UsedAreLocked
  <2>4. o[2] = p[2]
    BY <2>1, <2>2, <2>3 DEF PlansKeepApart, Apart, PlaceOf
  <2>5. o = p
    BY <2>1, <2>2, <2>4
  <2>6. hold[q].status \in Occupying /\ hold[r].status \in Occupying
    BY DEF Shown, StatusShown, Occupying
  <2> QED
    BY <2>5, <2>6 DEF OneOccupantPerStall
<1> QED
  BY <1>1, <1>2, <1>3, LayoutsAreSound, OfferedStallsAreExclusive, PTL DEF Spec
=============================================================================
