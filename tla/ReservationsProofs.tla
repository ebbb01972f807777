------------------------- MODULE ReservationsProofs -------------------------
(* What is proved of Reservations for every set of businesses, request keys
   and stalls, every price and every duration. *)
EXTENDS Reservations, TLAPS

\* The rows of a table in which only HELD rows await a payment.
WellFormed(rows) ==
  /\ rows \in [Reservation -> HoldRow]
  /\ \A r \in Reservation : rows[r].pending => rows[r].status = "HELD"

\* A well-formed row put in the place of another keeps the table well formed.
LEMMA PutRow ==
  ASSUME NEW rows, WellFormed(rows), NEW r \in Reservation,
         NEW row \in HoldRow, row.pending => row.status = "HELD"
  PROVE  WellFormed([rows EXCEPT ![r] = row])
BY DEF WellFormed

\* What a lock does to the date's rows: a row keeps its stall, price, expiry
\* and payment mark, and changes status only from HELD to EXPIRED.
LEMMA ExpireLapsedRow ==
  ASSUME NEW rows, WellFormed(rows), NEW r \in Reservation
  PROVE  /\ ExpireLapsed(rows)[r] \in HoldRow
         /\ ExpireLapsed(rows)[r].offer = rows[r].offer
         /\ ExpireLapsed(rows)[r].price = rows[r].price
         /\ ExpireLapsed(rows)[r].expires = rows[r].expires
         /\ ExpireLapsed(rows)[r].pending = rows[r].pending
         /\ Lapsed(rows[r]) => ExpireLapsed(rows)[r].status = "EXPIRED"
         /\ ~Lapsed(rows[r]) => ExpireLapsed(rows)[r] = rows[r]
<1>1. rows[r] \in HoldRow
  BY DEF WellFormed
<1>2. ExpireLapsed(rows)[r] = IF Lapsed(rows[r]) THEN [rows[r] EXCEPT !.status = "EXPIRED"]
                              ELSE rows[r]
  BY DEF ExpireLapsed
<1>. QED
  BY <1>1, <1>2 DEF HoldRow, HoldStatus

LEMMA ExpireLapsedWellFormed ==
  ASSUME NEW rows, WellFormed(rows)
  PROVE  WellFormed(ExpireLapsed(rows))
<1>1. ExpireLapsed(rows) \in [Reservation -> HoldRow]
  <2>1. \A r \in Reservation : ExpireLapsed(rows)[r] \in HoldRow
    BY ExpireLapsedRow
  <2>. QED
    BY <2>1 DEF ExpireLapsed
<1>2. ASSUME NEW r \in Reservation, ExpireLapsed(rows)[r].pending
      PROVE  ExpireLapsed(rows)[r].status = "HELD"
  BY <1>2, ExpireLapsedRow DEF WellFormed, Lapsed
<1>. QED
  BY <1>1, <1>2 DEF WellFormed

LEMMA MarkWellFormed ==
  ASSUME NEW rows, WellFormed(rows), NEW r \in Reservation, NEW until \in Nat,
         rows[r].status = "HELD"
  PROVE  WellFormed(MarkPaymentPending(rows, r, until))
<1>. DEFINE end == LaterOf(rows[r].expires, until)
            row == [rows[r] EXCEPT !.pending = TRUE, !.expires = end]
<1>1. rows[r] \in HoldRow
  BY DEF WellFormed
<1>2. end \in Nat
  BY <1>1 DEF HoldRow, LaterOf
<1>. HIDE DEF end
<1>3. row \in HoldRow /\ row.status = "HELD"
  BY <1>1, <1>2 DEF HoldRow
<1>4. MarkPaymentPending(rows, r, until) = [rows EXCEPT ![r] = row]
  BY DEF MarkPaymentPending, end
<1>. HIDE DEF row
<1>5. WellFormed([rows EXCEPT ![r] = row])
  BY <1>3, PutRow
<1>. QED
  BY <1>4, <1>5

LEMMA ClearWellFormed ==
  ASSUME NEW rows, WellFormed(rows), NEW r \in Reservation, NEW endHold \in BOOLEAN
  PROVE  WellFormed(ClearPaymentPending(rows, r, endHold))
<1>. DEFINE end == IF rows[r].status = "HELD" /\ (endHold \/ rows[r].expires <= now)
                   THEN "EXPIRED" ELSE rows[r].status
            row == [rows[r] EXCEPT !.pending = FALSE, !.status = end]
<1>1. rows[r] \in HoldRow
  BY DEF WellFormed
<1>2. end \in HoldStatus
  BY <1>1 DEF HoldRow, HoldStatus
<1>. HIDE DEF end
<1>3. row \in HoldRow /\ ~row.pending
  BY <1>1, <1>2 DEF HoldRow
<1>4. rows[r].pending =>
        ClearPaymentPending(rows, r, endHold) = [rows EXCEPT ![r] = row]
  BY DEF ClearPaymentPending, WellFormed, end
<1>. HIDE DEF row
<1>5. ~rows[r].pending => ClearPaymentPending(rows, r, endHold) = rows
  BY DEF ClearPaymentPending
<1>. QED
  BY <1>3, <1>4, <1>5, PutRow

LEMMA ConfirmWellFormed ==
  ASSUME NEW rows, WellFormed(rows), NEW r \in Reservation
  PROVE  WellFormed(ConfirmLocked(rows, r))
<1>. DEFINE row == [rows[r] EXCEPT !.status = "CONFIRMED", !.pending = FALSE]
<1>1. row \in HoldRow /\ (row.pending => row.status = "HELD")
  BY DEF WellFormed, HoldRow, HoldStatus
<1>. QED
  BY <1>1, PutRow DEF ConfirmLocked

LEMMA ReleaseWellFormed ==
  ASSUME NEW rows, WellFormed(rows), NEW r \in Reservation, ~rows[r].pending
  PROVE  WellFormed(ReleasedRows(rows, r))
<1>. DEFINE row == [rows[r] EXCEPT !.status = "RELEASED"]
<1>1. row \in HoldRow /\ (row.pending => row.status = "HELD")
  BY DEF WellFormed, HoldRow, HoldStatus
<1>. QED
  BY <1>1, PutRow DEF ReleasedRows

\* Every step of the date keeps the rows well formed.
LEMMA HoldTypeStep ==
  ASSUME HoldTypeOK, [HoldNext]_holdVars
  PROVE  HoldTypeOK'
<1>. USE HoldAssumption
<1>. DEFINE rows == ExpireLapsed(hold)
<1>0. WellFormed(hold) /\ WellFormed(rows) /\ now \in 0..MaxTime
  BY ExpireLapsedWellFormed DEF HoldTypeOK, WellFormed
<1>. SUFFICES WellFormed(hold)' /\ now' \in 0..MaxTime
  BY DEF HoldTypeOK, WellFormed
<1>. HIDE DEF rows
<1>1. ASSUME NEW b \in Business, NEW k \in RequestKey, NEW o \in Offer, ReplayHold(b, k, o)
      PROVE  WellFormed(hold') /\ now' = now
  BY <1>0, <1>1 DEF ReplayHold, rows
<1>2. ASSUME NEW b \in Business, NEW k \in RequestKey, NEW o \in Offer, NEW p \in Price,
             AcquireHold(b, k, o, p)
      PROVE  WellFormed(hold') /\ now' = now
  <2>. DEFINE row == [status |-> "HELD", offer |-> o, price |-> p,
                      expires |-> now + HoldFor, pending |-> FALSE]
  <2>1. row \in HoldRow /\ (row.pending => row.status = "HELD")
    BY <1>0 DEF HoldRow, HoldStatus
  <2>2. <<b, k>> \in Reservation /\ hold' = [rows EXCEPT ![<<b, k>>] = row] /\ now' = now
    BY <1>2 DEF AcquireHold, Reservation, rows
  <2>. QED
    BY <1>0, <2>1, <2>2, PutRow
<1>3. ASSUME NEW r \in Reservation, ReleaseHold(r)
      PROVE  WellFormed(hold') /\ now' = now
  BY <1>0, <1>3, ReleaseWellFormed DEF ReleaseHold, Releasable, rows
<1>4. ASSUME NEW r \in Reservation, NEW until \in 0..MaxTime + HoldFor, StartPayment(r, until)
      PROVE  WellFormed(hold') /\ now' = now
  BY <1>0, <1>4, MarkWellFormed DEF StartPayment, rows
<1>5. ASSUME NEW r \in Reservation, NEW endHold \in BOOLEAN, EndPayment(r, endHold)
      PROVE  WellFormed(hold') /\ now' = now
  BY <1>0, <1>5, ClearWellFormed DEF EndPayment, rows
<1>6. ASSUME NEW r \in Reservation, ConfirmHold(r)
      PROVE  WellFormed(hold') /\ now' = now
  BY <1>0, <1>6, ConfirmWellFormed DEF ConfirmHold, rows
<1>7. ASSUME ExpireHolds
      PROVE  WellFormed(hold') /\ now' = now
  BY <1>0, <1>7 DEF ExpireHolds, rows
<1>8. ASSUME Tick
      PROVE  WellFormed(hold') /\ now' \in 0..MaxTime
  BY <1>0, <1>8 DEF Tick
<1>9. CASE UNCHANGED holdVars
  BY <1>0, <1>9 DEF holdVars
<1>10. WellFormed(hold') /\ now' \in 0..MaxTime
  BY <1>0, <1>1, <1>2, <1>3, <1>4, <1>5, <1>6, <1>7, <1>8, <1>9 DEF HoldNext
<1>. QED
  BY <1>10 DEF WellFormed

\* Every row is always well formed, and only a HELD row awaits a payment.
THEOREM HoldsAreWellFormed == HoldSpec => []HoldTypeOK
<1>1. HoldInit => HoldTypeOK
  BY HoldAssumption
     DEF HoldInit, HoldTypeOK, HoldRow, HoldStatus, NoHold
<1>2. HoldTypeOK /\ [HoldNext]_holdVars => HoldTypeOK'
  BY HoldTypeStep
<1>. QED
  BY <1>1, <1>2, PTL DEF HoldSpec

-----------------------------------------------------------------------------
(* Exclusivity.  The argument: apart from acquire_hold, no transaction makes a
   row occupy a stall that did not occupy the same stall before; acquire_hold
   adds one row after checking every occupying row under the lock. *)

Occupies(rows, r) == rows[r].status \in Occupying

\* No two occupying rows share a stall or a business.
Exclusive(rows) ==
  \A q, r \in Reservation :
    /\ Occupies(rows, q)
    /\ Occupies(rows, r)
    /\ rows[q].offer = rows[r].offer \/ q[1] = r[1]
    => q = r

\* Every row that occupies a stall in the new table occupied it in the old one.
Narrows(old, new) ==
  \A r \in Reservation :
    Occupies(new, r) => Occupies(old, r) /\ new[r].offer = old[r].offer

LEMMA NarrowsExclusive ==
  ASSUME NEW old, NEW new, Exclusive(old), Narrows(old, new)
  PROVE  Exclusive(new)
BY DEF Exclusive, Narrows

LEMMA NarrowsTransitive ==
  ASSUME NEW first, NEW second, NEW third,
         Narrows(first, second), Narrows(second, third)
  PROVE  Narrows(first, third)
BY DEF Narrows

\* What replacing one row must satisfy for the table to narrow.
LEMMA NarrowsPut ==
  ASSUME NEW rows, WellFormed(rows), NEW r \in Reservation, NEW row,
         row.status \in Occupying =>
           rows[r].status \in Occupying /\ row.offer = rows[r].offer
  PROVE  Narrows(rows, [rows EXCEPT ![r] = row])
BY DEF Narrows, Occupies, WellFormed

LEMMA ExpireLapsedNarrows ==
  ASSUME NEW rows, WellFormed(rows)
  PROVE  Narrows(rows, ExpireLapsed(rows))
BY ExpireLapsedRow DEF Narrows, Occupies, Occupying

LEMMA TransactionNarrows ==
  ASSUME NEW rows, WellFormed(rows), NEW r \in Reservation
  PROVE  /\ \A until \in Nat : Narrows(rows, MarkPaymentPending(rows, r, until))
         /\ \A endHold \in BOOLEAN : Narrows(rows, ClearPaymentPending(rows, r, endHold))
         /\ Occupies(rows, r) => Narrows(rows, ConfirmLocked(rows, r))
         /\ Narrows(rows, ReleasedRows(rows, r))
<1>. Narrows(rows, rows) /\ rows[r] \in HoldRow
  BY DEF Narrows, WellFormed
<1>1. ASSUME NEW until \in Nat
      PROVE  Narrows(rows, MarkPaymentPending(rows, r, until))
  <2>. DEFINE end == LaterOf(rows[r].expires, until)
              row == [rows[r] EXCEPT !.pending = TRUE, !.expires = end]
  <2>. HIDE DEF end
  <2>1. row.status = rows[r].status /\ row.offer = rows[r].offer
    BY DEF HoldRow
  <2>2. MarkPaymentPending(rows, r, until) = [rows EXCEPT ![r] = row]
    BY DEF MarkPaymentPending, end
  <2>3. Narrows(rows, [rows EXCEPT ![r] = row])
    BY <2>1, NarrowsPut
  <2>. QED
    BY <2>2, <2>3
<1>2. ASSUME NEW endHold \in BOOLEAN
      PROVE  Narrows(rows, ClearPaymentPending(rows, r, endHold))
  <2>. DEFINE end == IF rows[r].status = "HELD" /\ (endHold \/ rows[r].expires <= now)
                     THEN "EXPIRED" ELSE rows[r].status
              row == [rows[r] EXCEPT !.pending = FALSE, !.status = end]
  <2>1. end \in Occupying => end = rows[r].status
    BY DEF Occupying
  <2>2. rows[r].pending =>
          ClearPaymentPending(rows, r, endHold) = [rows EXCEPT ![r] = row]
    BY DEF ClearPaymentPending
  <2>. HIDE DEF end
  <2>3. row.status = end /\ row.offer = rows[r].offer
    BY DEF HoldRow
  <2>4. ~rows[r].pending => ClearPaymentPending(rows, r, endHold) = rows
    BY DEF ClearPaymentPending
  <2>. HIDE DEF row
  <2>. QED
    BY <2>1, <2>2, <2>3, <2>4, NarrowsPut
<1>3. ASSUME Occupies(rows, r)
      PROVE  Narrows(rows, ConfirmLocked(rows, r))
  BY <1>3, NarrowsPut DEF ConfirmLocked, Occupies, HoldRow
<1>4. Narrows(rows, ReleasedRows(rows, r))
  BY NarrowsPut DEF ReleasedRows, Occupying, HoldRow
<1>. QED
  BY <1>1, <1>2, <1>3, <1>4

\* A row taken under the check of CanTake keeps the table exclusive.
LEMMA TakeExclusive ==
  ASSUME NEW rows, WellFormed(rows), Exclusive(rows),
         NEW b \in Business, NEW k \in RequestKey, NEW o \in Offer, CanTake(rows, b, o),
         NEW row \in HoldRow, row.offer = o
  PROVE  Exclusive([rows EXCEPT ![<<b, k>>] = row])
<1>. DEFINE new == [rows EXCEPT ![<<b, k>>] = row]
<1>. SUFFICES ASSUME NEW q \in Reservation, NEW r \in Reservation,
                     Occupies(new, q), Occupies(new, r),
                     new[q].offer = new[r].offer \/ q[1] = r[1],
                     q # r
              PROVE  FALSE
  BY DEF Exclusive
<1>1. \A p \in Reservation : p # <<b, k>> => new[p] = rows[p]
  BY DEF WellFormed
<1>2. new[<<b, k>>] = row /\ <<b, k>>[1] = b
  BY DEF WellFormed, Reservation
<1>3. CASE q # <<b, k>> /\ r # <<b, k>>
  BY <1>1, <1>3 DEF Exclusive, Occupies
<1>4. CASE q = <<b, k>>
  BY <1>1, <1>2, <1>4 DEF CanTake, Occupies
<1>5. CASE r = <<b, k>>
  BY <1>1, <1>2, <1>5 DEF CanTake, Occupies
<1>. QED
  BY <1>3, <1>4, <1>5

LEMMA ExclusiveStep ==
  ASSUME HoldTypeOK, Exclusive(hold), [HoldNext]_holdVars
  PROVE  Exclusive(hold')
<1>. USE HoldAssumption
<1>. DEFINE rows == ExpireLapsed(hold)
<1>0. WellFormed(hold) /\ WellFormed(rows) /\ Narrows(hold, rows) /\ Exclusive(rows)
  <2>1. WellFormed(hold)
    BY DEF HoldTypeOK, WellFormed
  <2>. QED
    BY <2>1, ExpireLapsedWellFormed, ExpireLapsedNarrows, NarrowsExclusive
<1>1. now \in Nat
  BY DEF HoldTypeOK
<1>. HIDE DEF rows
<1>. SUFFICES ASSUME ~Narrows(rows, hold'), ~Narrows(hold, hold')
              PROVE  Exclusive(hold')
  BY <1>0, NarrowsExclusive
<1>2. Narrows(rows, rows) /\ Narrows(hold, hold)
  BY DEF Narrows
<1>3. ASSUME NEW b \in Business, NEW k \in RequestKey, NEW o \in Offer, ReplayHold(b, k, o)
      PROVE  FALSE
  BY <1>2, <1>3 DEF ReplayHold, rows
<1>4. ASSUME NEW b \in Business, NEW k \in RequestKey, NEW o \in Offer, NEW p \in Price,
             AcquireHold(b, k, o, p)
      PROVE  Exclusive(hold')
  <2>. DEFINE row == [status |-> "HELD", offer |-> o, price |-> p,
                      expires |-> now + HoldFor, pending |-> FALSE]
  <2>1. row \in HoldRow /\ row.offer = o
    BY <1>1 DEF HoldRow, HoldStatus
  <2>2. CanTake(rows, b, o) /\ hold' = [rows EXCEPT ![<<b, k>>] = row]
    BY <1>4 DEF AcquireHold, rows
  <2>. HIDE DEF row
  <2>. QED
    BY <1>0, <2>1, <2>2, TakeExclusive
<1>5. ASSUME NEW r \in Reservation, ReleaseHold(r)
      PROVE  FALSE
  BY <1>0, <1>5, TransactionNarrows DEF ReleaseHold, rows
<1>6. ASSUME NEW r \in Reservation, NEW until \in 0..MaxTime + HoldFor, StartPayment(r, until)
      PROVE  FALSE
  BY <1>0, <1>6, TransactionNarrows DEF StartPayment, rows
<1>7. ASSUME NEW r \in Reservation, NEW endHold \in BOOLEAN, EndPayment(r, endHold)
      PROVE  FALSE
  BY <1>0, <1>7, TransactionNarrows DEF EndPayment, rows
<1>8. ASSUME NEW r \in Reservation, ConfirmHold(r)
      PROVE  FALSE
  BY <1>0, <1>8, TransactionNarrows DEF ConfirmHold, rows, Occupies, Occupying
<1>9. ASSUME ExpireHolds
      PROVE  FALSE
  BY <1>2, <1>9 DEF ExpireHolds, rows
<1>10. ASSUME Tick \/ UNCHANGED holdVars
       PROVE  FALSE
  BY <1>2, <1>10 DEF Tick, holdVars
<1>. QED
  BY <1>3, <1>4, <1>5, <1>6, <1>7, <1>8, <1>9, <1>10 DEF HoldNext

\* acquire_hold's check under the date's lock keeps the occupying rows
\* exclusive, whatever the businesses, requests, prices and durations.
LEMMA RowsStayExclusive == HoldSpec => []Exclusive(hold)
<1>. DEFINE Inv == HoldTypeOK /\ Exclusive(hold)
<1>1. HoldInit => Exclusive(hold)
  BY DEF HoldInit, Exclusive, Occupies, Occupying, NoHold
<1>2. Inv /\ [HoldNext]_holdVars => Exclusive(hold)'
  BY ExclusiveStep DEF Exclusive, Occupies
<1>. QED
  BY <1>1, <1>2, HoldsAreWellFormed, PTL DEF HoldSpec

\* No stall is ever held or confirmed by two reservations: the partial unique
\* index on the offer never has to refuse what reservations/services.py inserts.
THEOREM StallsAreExclusive == HoldSpec => []OneOccupantPerStall
<1>1. Exclusive(hold) => OneOccupantPerStall
  BY DEF Exclusive, Occupies, OneOccupantPerStall
<1>. QED
  BY <1>1, RowsStayExclusive, PTL

\* No business ever holds or has booked two stalls of a date, however many
\* requests it repeats or sends at once: nor does the partial unique index on
\* the business and date have to refuse one.
THEOREM BusinessesHaveOneStall == HoldSpec => []OneStallPerBusiness
<1>1. Exclusive(hold) => OneStallPerBusiness
  BY DEF Exclusive, Occupies, OneStallPerBusiness
<1>. QED
  BY <1>1, RowsStayExclusive, PTL

-----------------------------------------------------------------------------
(* What is shown.  The read side and the switched rows agree, so nothing that
   is shown as ended is HELD once the date's lock is taken, and nothing but a
   HELD row, or a new one, is ever written. *)

Ends == {"EXPIRED", "RELEASED", "CONFIRMED"}

\* Once the lapsed rows are switched, a row's status is the one members see.
LEMMA ShownIsSwitched ==
  ASSUME HoldTypeOK, NEW r \in Reservation
  PROVE  /\ ExpireLapsed(hold)[r].status = StatusShown(hold[r])
         /\ ExpireLapsed(hold)[r].offer = hold[r].offer
         /\ ExpireLapsed(hold)[r].price = hold[r].price
         /\ hold[r] \in HoldRow
         /\ hold[r].pending => StatusShown(hold[r]) = "HELD"
<1>1. WellFormed(hold)
  BY DEF HoldTypeOK, WellFormed
<1>2. hold[r] \in HoldRow /\ (hold[r].pending => hold[r].status = "HELD")
  BY DEF HoldTypeOK
<1>3. ExpireLapsed(hold)[r] =
        IF Lapsed(hold[r]) THEN [hold[r] EXCEPT !.status = "EXPIRED"] ELSE hold[r]
  BY DEF ExpireLapsed
<1>4. [hold[r] EXCEPT !.status = "EXPIRED"].status = "EXPIRED"
  BY <1>2, Zenon DEF HoldRow
<1>5. ExpireLapsed(hold)[r].status = StatusShown(hold[r])
  BY <1>3, <1>4, Zenon DEF Lapsed, StatusShown
<1>6. hold[r].pending => StatusShown(hold[r]) = "HELD"
  BY <1>2, Zenon DEF StatusShown
<1> QED
  BY <1>1, <1>2, <1>5, <1>6, ExpireLapsedRow

\* A stall shown as available is free for every business shown no stall of its
\* own: reservations/services.py, occupying and _expire_lapsed.
THEOREM AvailableMeansFree == HoldSpec => []AvailableStallsCanBeTaken
<1>1. HoldTypeOK => AvailableStallsCanBeTaken
  <2> SUFFICES ASSUME HoldTypeOK, NEW o \in ShownAvailable, NEW b \in Business,
                      \A r \in Reservation : r[1] = b => StatusShown(hold[r]) \notin Occupying,
                      NEW r \in Reservation, ExpireLapsed(hold)[r].status \in Occupying
               PROVE  r[1] # b /\ ExpireLapsed(hold)[r].offer # o
    BY DEF AvailableStallsCanBeTaken, CanTake
  <2>1. StatusShown(hold[r]) \in Occupying /\ ExpireLapsed(hold)[r].offer = hold[r].offer
    BY ShownIsSwitched
  <2>2. hold[r] \in HoldRow /\ now \in Nat
    BY HoldAssumption DEF HoldTypeOK
  <2>3. Blocks(hold[r])
    BY <2>1, <2>2, SMT DEF StatusShown, Blocks, Occupying, HoldRow
  <2>4. hold[r].offer # o
    BY <2>3 DEF ShownAvailable
  <2> QED
    BY <2>1, <2>4
<1> QED
  BY <1>1, HoldsAreWellFormed, PTL

\* No step writes a row that is shown as ended, except to switch it.
LEMMA EndedRowsStay ==
  ASSUME HoldTypeOK, [HoldNext]_holdVars, NEW r \in Reservation, StatusShown(hold[r]) \in Ends
  PROVE  /\ hold'[r] = hold[r] \/ hold'[r] = ExpireLapsed(hold)[r]
         /\ now' = now \/ now' = now + 1
<1> DEFINE rows == ExpireLapsed(hold)
<1>0. /\ rows[r].status \in Ends /\ ~hold[r].pending /\ ~rows[r].pending
      /\ rows \in [Reservation -> HoldRow] /\ WellFormed(hold) /\ WellFormed(rows)
  <2>1. WellFormed(hold)
    BY DEF HoldTypeOK, WellFormed
  <2>2. WellFormed(rows)
    BY <2>1, ExpireLapsedWellFormed
  <2>3. rows[r].status \in Ends /\ ~hold[r].pending
    BY ShownIsSwitched DEF Ends
  <2> QED
    BY <2>1, <2>2, <2>3 DEF WellFormed, Ends
<1> HIDE DEF rows
<1>1. ASSUME NEW b \in Business, NEW k \in RequestKey, NEW o \in Offer, ReplayHold(b, k, o)
      PROVE  hold'[r] = rows[r] /\ now' = now
  BY <1>1 DEF ReplayHold, rows
<1>2. ASSUME NEW b \in Business, NEW k \in RequestKey, NEW o \in Offer, NEW p \in Price,
             AcquireHold(b, k, o, p)
      PROVE  hold'[r] = rows[r] /\ now' = now
  <2>1. /\ rows[<<b, k>>].status = "NONE" /\ now' = now
        /\ hold' = [rows EXCEPT ![<<b, k>>] = [status |-> "HELD", offer |-> o, price |-> p,
                                               expires |-> now + HoldFor, pending |-> FALSE]]
    BY <1>2 DEF AcquireHold, rows
  <2>2. r # <<b, k>>
    BY <1>0, <2>1 DEF Ends
  <2> QED
    BY <1>0, <2>1, <2>2, Zenon
<1>3. ASSUME NEW q \in Reservation, ReleaseHold(q)
      PROVE  hold'[r] = rows[r] /\ now' = now
  <2>1. hold' = ReleasedRows(rows, q) /\ now' = now
    BY <1>3 DEF ReleaseHold, rows
  <2>2. rows[q].status = "HELD" => r # q
    BY <1>0 DEF Ends
  <2> QED
    BY <1>0, <2>1, <2>2, Zenon DEF ReleasedRows
<1>4. ASSUME NEW q \in Reservation, NEW until \in 0..MaxTime + HoldFor, StartPayment(q, until)
      PROVE  hold'[r] = rows[r] /\ now' = now
  <2>1. hold' = MarkPaymentPending(rows, q, until) /\ rows[q].status = "HELD" /\ now' = now
    BY <1>4 DEF StartPayment, rows
  <2>2. r # q
    BY <1>0, <2>1 DEF Ends
  <2> QED
    BY <1>0, <2>1, <2>2, Zenon DEF MarkPaymentPending
<1>5. ASSUME NEW q \in Reservation, NEW endHold \in BOOLEAN, EndPayment(q, endHold)
      PROVE  hold'[r] = rows[r] /\ now' = now
  <2>1. hold' = ClearPaymentPending(rows, q, endHold) /\ hold[q].pending /\ now' = now
    BY <1>5 DEF EndPayment, rows
  <2>2. r # q
    BY <1>0, <2>1
  <2> QED
    BY <1>0, <2>1, <2>2, Zenon DEF ClearPaymentPending
<1>6. ASSUME NEW q \in Reservation, ConfirmHold(q)
      PROVE  hold'[r] = rows[r] /\ now' = now
  <2>1. hold' = ConfirmLocked(rows, q) /\ rows[q].status = "HELD" /\ now' = now
    BY <1>6 DEF ConfirmHold, rows
  <2>2. r # q
    BY <1>0, <2>1 DEF Ends
  <2> QED
    BY <1>0, <2>1, <2>2, Zenon DEF ConfirmLocked
<1>7. CASE ExpireHolds
  BY <1>7 DEF ExpireHolds, rows
<1>8. CASE Tick
  BY <1>8 DEF Tick
<1>9. CASE UNCHANGED holdVars
  BY <1>9 DEF holdVars
<1> QED
  BY <1>1, <1>2, <1>3, <1>4, <1>5, <1>6, <1>7, <1>8, <1>9 DEF HoldNext, rows

\* What was shown as expired, released or confirmed is never shown otherwise
\* again, and keeps its stall and price: no transaction of
\* reservations/services.py and no passing of time revives it.
THEOREM EndsAreFinal == HoldSpec => ShownEndIsFinal
<1> DEFINE Stays == \A r \in Reservation :
      StatusShown(hold[r]) \in {"EXPIRED", "RELEASED", "CONFIRMED"} =>
        /\ StatusShown(hold[r])' = StatusShown(hold[r])
        /\ hold'[r].offer = hold[r].offer
        /\ hold'[r].price = hold[r].price
<1>1. HoldTypeOK /\ [HoldNext]_holdVars => Stays
  <2> SUFFICES ASSUME HoldTypeOK, [HoldNext]_holdVars, NEW r \in Reservation,
                      StatusShown(hold[r]) \in Ends
               PROVE  /\ StatusShown(hold[r])' = StatusShown(hold[r])
                      /\ hold'[r].offer = hold[r].offer
                      /\ hold'[r].price = hold[r].price
    BY DEF Ends
  <2> DEFINE rows == ExpireLapsed(hold)
  <2>1. /\ rows[r].status = StatusShown(hold[r]) /\ rows[r].offer = hold[r].offer
        /\ rows[r].price = hold[r].price /\ hold[r] \in HoldRow
    BY ShownIsSwitched
  <2>2. hold'[r] = hold[r] \/ hold'[r] = rows[r]
    BY EndedRowsStay
  <2>3. now' >= now /\ now \in Nat /\ now' \in Nat /\ hold[r].expires \in Nat
    BY <2>1, EndedRowsStay, HoldAssumption, SMT DEF HoldTypeOK, HoldRow
  <2> HIDE DEF rows
  <2>4. CASE hold'[r] = hold[r]
    BY <2>3, <2>4, SMT DEF StatusShown, Ends
  <2>5. CASE hold'[r] = rows[r]
    BY <2>1, <2>5, Zenon DEF StatusShown, Ends
  <2> QED
    BY <2>2, <2>4, <2>5
<1>2. Stays => [Stays]_holdVars
  OBVIOUS
<1> QED
  BY <1>1, HoldsAreWellFormed, PTL DEF HoldSpec, ShownEndIsFinal
=============================================================================
