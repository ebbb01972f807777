--------------------------- MODULE CheckoutProofs ---------------------------
(* What is proved of Checkout for every set of businesses, attempts and
   workers, and all times. *)
EXTENDS Checkout, ReservationsProofs

-----------------------------------------------------------------------------
(* What a payment's transaction does to the reservation rows *)

\* Row by row, what each trusted operation leaves.
LEMMA RowsAfter ==
  ASSUME NEW rows, WellFormed(rows), NEW r \in Reservation
  PROVE  /\ \A until \in Nat : LET new == MarkPaymentPending(rows, r, until) IN
              /\ \A q \in Reservation : q # r => new[q] = rows[q]
              /\ new[r].pending /\ new[r].price = rows[r].price /\ new[r].status = rows[r].status
         /\ \A endHold \in BOOLEAN : LET new == ClearPaymentPending(rows, r, endHold) IN
              /\ \A q \in Reservation : q # r => new[q] = rows[q]
              /\ ~new[r].pending /\ new[r].price = rows[r].price
              /\ new[r].status = rows[r].status \/ (rows[r].status = "HELD" /\ new[r].status = "EXPIRED")
         /\ LET new == ConfirmLocked(rows, r) IN
              /\ \A q \in Reservation : q # r => new[q] = rows[q]
              /\ ~new[r].pending /\ new[r].price = rows[r].price /\ new[r].status = "CONFIRMED"
         /\ LET new == ReleasedRows(rows, r) IN
              /\ \A q \in Reservation : q # r => new[q] = rows[q]
              /\ new[r].pending = rows[r].pending /\ new[r].price = rows[r].price
              /\ new[r].status = rows[r].status \/ (rows[r].status = "HELD" /\ new[r].status = "RELEASED")
<1>0. rows \in [Reservation -> HoldRow] /\ rows[r] \in HoldRow
  BY DEF WellFormed
<1>1. ASSUME NEW until \in Nat
      PROVE  LET new == MarkPaymentPending(rows, r, until) IN
              /\ \A q \in Reservation : q # r => new[q] = rows[q]
              /\ new[r].pending /\ new[r].price = rows[r].price /\ new[r].status = rows[r].status
  <2> DEFINE end == LaterOf(rows[r].expires, until)
             row == [rows[r] EXCEPT !.pending = TRUE, !.expires = end]
  <2>1. MarkPaymentPending(rows, r, until) = [rows EXCEPT ![r] = row]
    BY DEF MarkPaymentPending
  <2> HIDE DEF end
  <2>2. row.pending /\ row.price = rows[r].price /\ row.status = rows[r].status
    BY <1>0 DEF HoldRow
  <2> HIDE DEF row
  <2> QED
    BY <1>0, <2>1, <2>2
<1>2. ASSUME NEW endHold \in BOOLEAN
      PROVE  LET new == ClearPaymentPending(rows, r, endHold) IN
              /\ \A q \in Reservation : q # r => new[q] = rows[q]
              /\ ~new[r].pending /\ new[r].price = rows[r].price
              /\ new[r].status = rows[r].status \/ (rows[r].status = "HELD" /\ new[r].status = "EXPIRED")
  <2> DEFINE end == IF rows[r].status = "HELD" /\ (endHold \/ rows[r].expires <= now)
                    THEN "EXPIRED" ELSE rows[r].status
             row == [rows[r] EXCEPT !.pending = FALSE, !.status = end]
  <2>1. rows[r].pending => ClearPaymentPending(rows, r, endHold) = [rows EXCEPT ![r] = row]
    BY DEF ClearPaymentPending
  <2>2. ~rows[r].pending => ClearPaymentPending(rows, r, endHold) = rows
    BY DEF ClearPaymentPending
  <2>3. end = rows[r].status \/ (rows[r].status = "HELD" /\ end = "EXPIRED")
    BY Zenon
  <2> HIDE DEF end
  <2>4. ~row.pending /\ row.price = rows[r].price /\ row.status = end
    BY <1>0 DEF HoldRow
  <2> HIDE DEF row
  <2>5. CASE rows[r].pending
    <3>1. ClearPaymentPending(rows, r, endHold) = [rows EXCEPT ![r] = row]
      BY <2>1, <2>5
    <3> QED
      BY <1>0, <2>3, <2>4, <3>1
  <2>6. CASE ~rows[r].pending
    BY <2>2, <2>6
  <2> QED
    BY <2>5, <2>6
<1>3. LET new == ConfirmLocked(rows, r) IN
        /\ \A q \in Reservation : q # r => new[q] = rows[q]
        /\ ~new[r].pending /\ new[r].price = rows[r].price /\ new[r].status = "CONFIRMED"
  <2> DEFINE row == [rows[r] EXCEPT !.status = "CONFIRMED", !.pending = FALSE]
  <2>1. ConfirmLocked(rows, r) = [rows EXCEPT ![r] = row]
    BY DEF ConfirmLocked
  <2>2. ~row.pending /\ row.price = rows[r].price /\ row.status = "CONFIRMED"
    BY <1>0 DEF HoldRow
  <2> HIDE DEF row
  <2> QED
    BY <1>0, <2>1, <2>2
<1>4. LET new == ReleasedRows(rows, r) IN
        /\ \A q \in Reservation : q # r => new[q] = rows[q]
        /\ new[r].pending = rows[r].pending /\ new[r].price = rows[r].price
        /\ new[r].status = rows[r].status \/ (rows[r].status = "HELD" /\ new[r].status = "RELEASED")
  <2> DEFINE row == [rows[r] EXCEPT !.status = "RELEASED"]
  <2>1. row.pending = rows[r].pending /\ row.price = rows[r].price /\ row.status = "RELEASED"
    BY <1>0 DEF HoldRow
  <2>2. ReleasedRows(rows, r) = IF rows[r].status = "HELD" THEN [rows EXCEPT ![r] = row] ELSE rows
    BY DEF ReleasedRows
  <2> HIDE DEF row
  <2>3. CASE rows[r].status = "HELD"
    <3>1. ReleasedRows(rows, r) = [rows EXCEPT ![r] = row]
      BY <2>2, <2>3
    <3> QED
      BY <1>0, <2>1, <2>3, <3>1
  <2>4. CASE rows[r].status # "HELD"
    BY <2>2, <2>4
  <2> QED
    BY <2>3, <2>4
<1> QED
  BY <1>1, <1>2, <1>3, <1>4

\* The locked rows, which every transaction starts from.
LEMMA LockedRowsAre ==
  ASSUME HoldTypeOK
  PROVE  /\ WellFormed(hold) /\ WellFormed(LockedRows)
         /\ \A r \in Reservation :
              /\ LockedRows[r].pending = hold[r].pending
              /\ LockedRows[r].price = hold[r].price
              /\ \/ LockedRows[r].status = hold[r].status
                 \/ hold[r].status = "HELD" /\ LockedRows[r].status = "EXPIRED"
<1>1. WellFormed(hold)
  BY DEF HoldTypeOK, WellFormed
<1> QED
  BY <1>1, ExpireLapsedRow, ExpireLapsedWellFormed DEF LockedRows, Lapsed

-----------------------------------------------------------------------------
(* The invariant of the locks *)

\* A worker has what its step is about.
Busy(v) ==
  /\ v.step \notin {"idle", "finish", "release"} =>
       v.att \in Attempt /\ attempt[v.att].status # "NONE"
  /\ v.step \in {"finish", "release"} => v.res \in Reservation
  /\ v.step = "refund" => v.seen \in UnresolvedRefund
  /\ v.step = "refundError" => v.seen \in UnresolvedRefund \cup {"FAILED"}

\* An attempt is for a reservation that costs something, a refund for an attempt.
AttemptsAreFor ==
  \A a \in Attempt :
    /\ attempt[a].status # "NONE" =>
         /\ attempt[a].res \in Reservation
         /\ hold[attempt[a].res].status # "NONE"
         /\ hold[attempt[a].res].price # 0
    /\ attempt[a].status = "NONE" =>
         attempt[a].res = None /\ ~attempt[a].opened /\ refund[a].status = "NONE"

\* The unique index payments_one_live_attempt_per_reservation.
OneLiveAttempt ==
  \A a, b \in Attempt :
    /\ attempt[a].res = attempt[b].res
    /\ attempt[a].status \in Live
    /\ attempt[b].status \in Live
    => a = b

\* The inductive invariant of the locks: who is busy, and what is locked for it.
LockInv ==
  /\ TypeOK
  /\ \A w \in Worker : Busy(worker[w])
  /\ AttemptsAreFor
  /\ OneLiveAttempt
  /\ PendingIffUnresolved

-----------------------------------------------------------------------------
(* Moving a worker *)

\* What a call can be answered.
Seen == SessionState \cup PaybackState \cup RefundStatus

\* A worker row, field by field.
IsWorker(v, step, task, att, res, seen) ==
  /\ v \in WorkerRow
  /\ v.step = step /\ v.task = task /\ v.att = att /\ v.res = res /\ v.seen = seen

\* Replacing the fields of a worker row leaves a row with those fields.
LEMMA WorkerFields ==
  ASSUME NEW v \in WorkerRow, NEW s \in Step, NEW t \in Task, NEW x \in Seen,
         NEW a \in Attempt \cup {None}, NEW r \in Reservation \cup {None}
  PROVE  /\ IsWorker([v EXCEPT !.step = s, !.seen = x], s, v.task, v.att, v.res, x)
         /\ IsWorker([v EXCEPT !.step = s, !.task = t], s, t, v.att, v.res, v.seen)
         /\ IsWorker([v EXCEPT !.step = s, !.seen = x, !.task = t], s, t, v.att, v.res, x)
         /\ IsWorker([v EXCEPT !.step = s, !.att = a, !.seen = x], s, v.task, a, v.res, x)
         /\ IsWorker([v EXCEPT !.step = s, !.task = t, !.att = a, !.res = r], s, t, a, r, v.seen)
<1>1. \A u \in WorkerRow : IsWorker([u EXCEPT !.step = s, !.seen = x], s, u.task, u.att, u.res, x)
  BY Zenon DEF WorkerRow, IsWorker, Seen
<1>2. \A u \in WorkerRow : IsWorker([u EXCEPT !.step = s, !.task = t], s, t, u.att, u.res, u.seen)
  BY Zenon DEF WorkerRow, IsWorker
<1>3. \A u \in WorkerRow :
        IsWorker([u EXCEPT !.step = s, !.seen = x, !.task = t], s, t, u.att, u.res, x)
  BY Zenon DEF WorkerRow, IsWorker, Seen
<1>4. \A u \in WorkerRow :
        IsWorker([u EXCEPT !.step = s, !.att = a, !.seen = x], s, u.task, a, u.res, x)
  BY Zenon DEF WorkerRow, IsWorker, Seen
<1>5. \A u \in WorkerRow :
        IsWorker([u EXCEPT !.step = s, !.task = t, !.att = a, !.res = r], s, t, a, r, u.seen)
  BY ZenonT(30) DEF WorkerRow, IsWorker
<1> QED
  BY <1>1, <1>2, <1>3, <1>4, <1>5

\* The idle row is a worker row.
LEMMA IdleIsAWorker == IsWorker(Idle, "idle", "sync", None, None, "none")
  BY DEF Idle, IsWorker, WorkerRow, Step, Task, SessionState

\* Only one worker moves.
Alone(w) ==
  /\ worker' \in [Worker -> WorkerRow]
  /\ \A v \in Worker : v # w => worker'[v] = worker[v]

\* Replacing one worker's row.
LEMMA WorkerPut ==
  ASSUME worker \in [Worker -> WorkerRow], NEW w \in Worker, NEW v \in WorkerRow,
         worker' = [worker EXCEPT ![w] = v]
  PROVE  Alone(w) /\ worker'[w] = v
BY DEF Alone

\* GoWith moves one worker, with what it was answered.
LEMMA GoWithDoes ==
  ASSUME worker \in [Worker -> WorkerRow], NEW w \in Worker, NEW s \in Step, NEW x \in Seen,
         GoWith(w, s, x)
  PROVE  /\ Alone(w)
         /\ IsWorker(worker'[w], s, worker[w].task, worker[w].att, worker[w].res, x)
<1> DEFINE v == [worker[w] EXCEPT !.step = s, !.seen = x]
<1>1. worker' = [worker EXCEPT ![w] = v]
  BY Zenon DEF GoWith
<1>2. IsWorker(v, s, worker[w].task, worker[w].att, worker[w].res, x)
  <2>1. worker[w] \in WorkerRow /\ "sync" \in Task
    BY DEF Task
  <2> QED
    BY <2>1, WorkerFields, Zenon
<1>3. v \in WorkerRow
  BY <1>2 DEF IsWorker
<1> HIDE DEF v
<1> QED
  BY <1>1, <1>2, <1>3, WorkerPut

\* Go moves one worker, which was answered nothing.
LEMMA GoDoes ==
  ASSUME worker \in [Worker -> WorkerRow], NEW w \in Worker, NEW s \in Step, Go(w, s)
  PROVE  /\ Alone(w)
         /\ IsWorker(worker'[w], s, worker[w].task, worker[w].att, worker[w].res, "none")
<1>1. "none" \in Seen
  BY DEF Seen, SessionState
<1> QED
  BY <1>1, GoWithDoes DEF Go

\* Rest leaves one worker idle.
LEMMA RestDoes ==
  ASSUME worker \in [Worker -> WorkerRow], NEW w \in Worker, Rest(w)
  PROVE  Alone(w) /\ worker'[w] = Idle
<1>1. Idle \in WorkerRow
  BY IdleIsAWorker DEF IsWorker
<1> QED
  BY <1>1, WorkerPut DEF Rest

\* Assign gives one worker an attempt and a reservation.
LEMMA AssignDoes ==
  ASSUME worker \in [Worker -> WorkerRow], NEW w \in Worker, NEW s \in Step, NEW t \in Task,
         NEW a \in Attempt \cup {None}, NEW r \in Reservation \cup {None}, Assign(w, s, t, a, r)
  PROVE  Alone(w) /\ IsWorker(worker'[w], s, t, a, r, "none")
<1> DEFINE v == [Idle EXCEPT !.step = s, !.task = t, !.att = a, !.res = r]
<1>1. worker' = [worker EXCEPT ![w] = v]
  BY DEF Assign
<1>2. IsWorker(v, s, t, a, r, "none")
  <2>1. Idle \in WorkerRow /\ Idle.seen = "none" /\ "none" \in Seen
    BY IdleIsAWorker DEF IsWorker, Seen, SessionState
  <2>2. IsWorker(v, s, t, a, r, Idle.seen)
    BY <2>1, WorkerFields, Zenon
  <2> QED
    BY <2>1, <2>2, Zenon
<1>3. v \in WorkerRow
  BY <1>2 DEF IsWorker
<1> HIDE DEF v
<1> QED
  BY <1>1, <1>2, <1>3, WorkerPut

\* What follows a sync: rest, the session's expiry, or the end of a cancel.
LEMMA EndSyncDoes ==
  ASSUME worker \in [Worker -> WorkerRow], NEW w \in Worker,
         Row(w).res \in Reservation, EndSync(w)
  PROVE  /\ Alone(w)
         /\ \/ worker'[w] = Idle
            \/ /\ IsWorker(worker'[w], "expire", "cancel", Att(w), worker[w].res, "none")
               /\ Row(w).status = "OPEN"
            \/ IsWorker(worker'[w], "finish", "cancelled", None, Row(w).res, "none")
<1>1. CASE Rest(w)
  BY <1>1, RestDoes
<1>2. CASE worker[w].task = "cancel" /\ Row(w).status = "OPEN" /\ Go(w, "expire")
  <2>1. "expire" \in Step
    BY DEF Step
  <2> QED
    BY <1>2, <2>1, GoDoes DEF Att
<1>3. CASE Assign(w, "finish", "cancelled", None, Row(w).res)
  <2>1. "finish" \in Step /\ "cancelled" \in Task
    BY DEF Step, Task
  <2> QED
    BY <1>3, <2>1, AssignDoes
<1> QED
  BY <1>1, <1>2, <1>3 DEF EndSync

-----------------------------------------------------------------------------
(* What the steps do to the database *)

\* An attempt row, field by field.
IsAttempt(e, res, status, fulfillment, opened, expires) ==
  /\ e \in AttemptRow
  /\ e.res = res /\ e.status = status /\ e.fulfillment = fulfillment
  /\ e.opened = opened /\ e.expires = expires

\* The statuses of payments/models.py, and that of a row not made yet.
AttemptStatus == {"NONE", "CREATING", "OPEN", "SUCCEEDED", "EXPIRED", "CANCELED", "FAILED"}

\* Replacing the fields of an attempt row leaves a row with those fields.
LEMMA AttemptFields ==
  ASSUME NEW e \in AttemptRow, NEW s \in AttemptStatus, NEW f \in {"", "FULFILLED", "UNFULFILLED"},
         NEW o \in BOOLEAN, NEW r \in Reservation \cup {None}, NEW x \in Nat
  PROVE  /\ IsAttempt([e EXCEPT !.status = s], e.res, s, e.fulfillment, e.opened, e.expires)
         /\ IsAttempt([e EXCEPT !.status = s, !.opened = o], e.res, s, e.fulfillment, o, e.expires)
         /\ IsAttempt([e EXCEPT !.status = s, !.fulfillment = f], e.res, s, f, e.opened, e.expires)
         /\ IsAttempt([e EXCEPT !.res = r, !.status = s, !.expires = x],
                      r, s, e.fulfillment, e.opened, x)
<1>1. \A d \in AttemptRow :
        IsAttempt([d EXCEPT !.status = s], d.res, s, d.fulfillment, d.opened, d.expires)
  BY Zenon DEF AttemptRow, IsAttempt, AttemptStatus
<1>2. \A d \in AttemptRow :
        IsAttempt([d EXCEPT !.status = s, !.opened = o], d.res, s, d.fulfillment, o, d.expires)
  BY Zenon DEF AttemptRow, IsAttempt, AttemptStatus
<1>3. \A d \in AttemptRow :
        IsAttempt([d EXCEPT !.status = s, !.fulfillment = f], d.res, s, f, d.opened, d.expires)
  BY Zenon DEF AttemptRow, IsAttempt, AttemptStatus
<1>4. \A d \in AttemptRow :
        IsAttempt([d EXCEPT !.res = r, !.status = s, !.expires = x],
                  r, s, d.fulfillment, d.opened, x)
  BY ZenonT(30) DEF AttemptRow, IsAttempt, AttemptStatus
<1> QED
  BY <1>1, <1>2, <1>3, <1>4

\* The row not made yet is an attempt row.
LEMMA NoAttemptIsAnAttempt == IsAttempt(NoAttempt, None, "NONE", "", FALSE, 0)
  BY DEF NoAttempt, IsAttempt, AttemptRow

\* Only one attempt changes.
Only(a) ==
  /\ attempt' \in [Attempt -> AttemptRow]
  /\ \A b \in Attempt : b # a => attempt'[b] = attempt[b]

\* Replacing one attempt's row.
LEMMA AttemptPut ==
  ASSUME attempt \in [Attempt -> AttemptRow], NEW a \in Attempt, NEW e \in AttemptRow,
         attempt' = [attempt EXCEPT ![a] = e]
  PROVE  Only(a) /\ attempt'[a] = e
BY DEF Only

\* _prepare_attempt: an attempt is made and the hold locked for its payment.
Begins(r, a) ==
  /\ LockedRows[r].status = "HELD" /\ LockedRows[r].price # 0
  /\ \A b \in Attempt : attempt[b].res = r => attempt[b].status \notin Live
  /\ attempt[a].status = "NONE"
  /\ now + SessionFor <= MaxTime
  /\ Only(a) /\ IsAttempt(attempt'[a], r, "CREATING", "", FALSE, now + SessionFor)
  /\ hold' = MarkPaymentPending(LockedRows, r, now + SessionFor)
  /\ UNCHANGED <<now, booking, refund>>

\* _create_session: the attempt's session was created.
Opens(a) ==
  /\ attempt[a].status = "CREATING"
  /\ Only(a) /\ IsAttempt(attempt'[a], attempt[a].res, "OPEN", attempt[a].fulfillment,
                          TRUE, attempt[a].expires)
  /\ UNCHANGED <<now, hold, booking, refund>>

\* _close_attempt: an unresolved attempt ends and the hold is unlocked.
Closes(a, s) ==
  /\ attempt[a].status \in Unresolved
  /\ Only(a) /\ IsAttempt(attempt'[a], attempt[a].res, s, attempt[a].fulfillment,
                          attempt[a].opened, attempt[a].expires)
  /\ hold' = ClearPaymentPending(LockedRows, attempt[a].res, FALSE)
  /\ UNCHANGED <<now, booking, refund>>

\* _record_paid: the payment of an attempt gets its stall.
Books(a) ==
  LET r == attempt[a].res IN
  /\ attempt[a].status \in Unresolved
  /\ LockedRows[r].status = "HELD" /\ LockedRows[r].pending
  /\ Only(a) /\ IsAttempt(attempt'[a], r, "SUCCEEDED", "FULFILLED",
                          attempt[a].opened, attempt[a].expires)
  /\ hold' = ConfirmLocked(LockedRows, r)
  /\ booking' = [booking EXCEPT ![r] = a]
  /\ UNCHANGED <<now, refund>>

\* _record_paid: the payment of an attempt gets no stall and is owed back.
Falls(a) ==
  LET r == attempt[a].res IN
  /\ attempt[a].status \notin {"NONE", "SUCCEEDED"}
  /\ \A b \in Attempt : attempt[b].res = r /\ b # a => attempt[b].status \notin Live
  /\ Only(a) /\ IsAttempt(attempt'[a], r, "SUCCEEDED", "UNFULFILLED",
                          attempt[a].opened, attempt[a].expires)
  /\ hold' = IF attempt[a].status \in Unresolved
             THEN ClearPaymentPending(LockedRows, r, TRUE) ELSE LockedRows
  /\ refund' = [refund EXCEPT ![a].status = "REQUESTED"]
  /\ UNCHANGED <<now, booking>>

\* confirm_free: a reservation that costs nothing is confirmed without a payment.
Frees(r) ==
  /\ booking[r] = None
  /\ LockedRows[r].price = 0
  /\ LockedRows[r].status = "HELD"
  /\ hold' = ConfirmLocked(LockedRows, r)
  /\ booking' = [booking EXCEPT ![r] = Free]
  /\ UNCHANGED <<now, attempt, refund>>

\* process_refund records how the refund of an attempt went.
Repays(a) ==
  /\ attempt[a].status # "NONE"
  /\ refund' \in [Attempt -> RefundRow]
  /\ \A b \in Attempt : b # a => refund'[b] = refund[b]
  /\ UNCHANGED <<now, hold, attempt, booking>>

\* Vendors take and release holds, and time passes.
Holds ==
  /\ \/ ExpireHolds \/ Tick
     \/ \E b \in Business, k \in RequestKey, o \in Offer, p \in Price : AcquireHold(b, k, o, p)
     \/ \E r \in Reservation : ReleaseHold(r)
  /\ UNCHANGED <<attempt, booking, refund>>

\* A transaction that only locked the rows, lapsed ones being closed.
Locks == hold' = LockedRows /\ UNCHANGED <<now, attempt, booking, refund>>

\* A step that leaves the database as it is.
Nothing == UNCHANGED <<now, dbVars>>

\* All a step can do to the database.
Effect ==
  \/ Nothing \/ Locks \/ Holds
  \/ \E r \in Reservation : Frees(r)
  \/ \E a \in Attempt : \E r \in Reservation : Begins(r, a)
  \/ \E a \in Attempt : Opens(a) \/ Books(a) \/ Falls(a) \/ Repays(a)
  \/ \E a \in Attempt, s \in {"FAILED", "EXPIRED", "CANCELED"} : Closes(a, s)

\* The rows the actions name.
LEMMA Working ==
  ASSUME LockInv, NEW w \in Worker, worker[w].step \notin {"idle", "finish", "release"}
  PROVE  /\ Att(w) \in Attempt /\ Row(w) = attempt[Att(w)] /\ Row(w) \in AttemptRow
         /\ Row(w).status # "NONE" /\ Row(w).res \in Reservation
  BY DEF LockInv, TypeOK, Busy, Att, Row, AttemptsAreFor

\* Closing an attempt that ended in the meantime only locks.
LEMMA CloseEffect ==
  ASSUME LockInv, NEW w \in Worker, worker[w].step \notin {"idle", "finish", "release"},
         NEW s \in {"FAILED", "EXPIRED", "CANCELED"}, Close(w, s), UNCHANGED <<now, booking, refund>>
  PROVE  Locks \/ Closes(Att(w), s)
<1> DEFINE a == Att(w)
<1>1. a \in Attempt /\ attempt \in [Attempt -> AttemptRow] /\ attempt[a] \in AttemptRow
  BY Working DEF LockInv, TypeOK
<1>2. CASE attempt[a].status \notin Unresolved
  BY <1>2 DEF Close, Locks
<1>3. CASE attempt[a].status \in Unresolved
  <2> DEFINE e == [attempt[a] EXCEPT !.status = s]
  <2>1. attempt' = [attempt EXCEPT ![a] = e] /\ hold' = ClearPaymentPending(LockedRows, attempt[a].res, FALSE)
    BY <1>1, <1>3 DEF Close
  <2>2. IsAttempt(e, attempt[a].res, s, attempt[a].fulfillment, attempt[a].opened, attempt[a].expires)
    <3>1. s \in AttemptStatus /\ TRUE \in BOOLEAN /\ 0 \in Nat /\ "" \in {"", "FULFILLED", "UNFULFILLED"}
          /\ None \in Reservation \cup {None}
      BY DEF AttemptStatus
    <3> QED
      BY <1>1, <3>1, AttemptFields, Zenon
  <2>3. e \in AttemptRow
    BY <2>2 DEF IsAttempt
  <2> HIDE DEF e
  <2>4. Only(a) /\ attempt'[a] = e
    BY <1>1, <2>1, <2>3, AttemptPut
  <2> QED
    BY <1>3, <2>1, <2>2, <2>4 DEF Closes
<1> QED
  BY <1>2, <1>3

\* BeginCheckout begins an attempt.
LEMMA BeginCheckoutEffect ==
  ASSUME LockInv, NEW w \in Worker, NEW r \in Reservation, NEW a \in Attempt,
         BeginCheckout(w, r, a)
  PROVE  Begins(r, a)
<1> DEFINE u == now + SessionFor
           e == [NoAttempt EXCEPT !.res = r, !.status = "CREATING", !.expires = u]
<1>1. now \in Nat /\ u \in Nat /\ u <= MaxTime /\ attempt \in [Attempt -> AttemptRow]
  BY CheckoutAssumption, HoldAssumption DEF LockInv, TypeOK, HoldTypeOK, BeginCheckout
<1>2. attempt' = [attempt EXCEPT ![a] = e] /\ hold' = MarkPaymentPending(LockedRows, r, u)
  BY DEF BeginCheckout
<1> HIDE DEF u
<1>3. IsAttempt(e, r, "CREATING", "", FALSE, u)
  <2>1. /\ "CREATING" \in AttemptStatus /\ TRUE \in BOOLEAN /\ r \in Reservation \cup {None}
        /\ "" \in {"", "FULFILLED", "UNFULFILLED"}
    BY DEF AttemptStatus
  <2>2. NoAttempt \in AttemptRow /\ NoAttempt.fulfillment = "" /\ NoAttempt.opened = FALSE
    BY NoAttemptIsAnAttempt DEF IsAttempt
  <2>3. IsAttempt(e, r, "CREATING", NoAttempt.fulfillment, NoAttempt.opened, u)
    BY <1>1, <2>1, <2>2, AttemptFields, Zenon
  <2> QED
    BY <2>2, <2>3, Zenon
<1>4. e \in AttemptRow
  BY <1>3 DEF IsAttempt
<1> HIDE DEF e
<1>5. Only(a) /\ attempt'[a] = e
  BY <1>1, <1>2, <1>4, AttemptPut
<1> QED
  BY <1>1, <1>2, <1>3, <1>5 DEF Begins, BeginCheckout, AttemptsOf, u

\* RecordOpened opens the attempt, if it is still being created.
LEMMA RecordOpenedEffect ==
  ASSUME LockInv, NEW w \in Worker, RecordOpened(w)
  PROVE  Nothing \/ Opens(Att(w))
<1> DEFINE a == Att(w)
           e == [attempt[a] EXCEPT !.status = "OPEN", !.opened = TRUE]
<1>1. /\ a \in Attempt /\ attempt \in [Attempt -> AttemptRow] /\ attempt[a] \in AttemptRow
      /\ Row(w) = attempt[a]
  BY Working DEF LockInv, TypeOK, RecordOpened, At
<1>2. CASE attempt[a].status # "CREATING"
  BY <1>1, <1>2 DEF RecordOpened, Nothing, dbVars
<1>3. CASE attempt[a].status = "CREATING"
  <2>1. attempt' = [attempt EXCEPT ![a] = e]
    <3>1. attempt' = [attempt EXCEPT ![a].status = "OPEN", ![a].opened = TRUE]
      BY <1>1, <1>3 DEF RecordOpened
    <3> QED
      BY <1>1, <3>1, Zenon
  <2>2. IsAttempt(e, attempt[a].res, "OPEN", attempt[a].fulfillment, TRUE, attempt[a].expires)
    <3>1. "OPEN" \in AttemptStatus /\ TRUE \in BOOLEAN /\ 0 \in Nat
          /\ "" \in {"", "FULFILLED", "UNFULFILLED"} /\ None \in Reservation \cup {None}
      BY DEF AttemptStatus
    <3> QED
      BY <1>1, <3>1, AttemptFields, Zenon
  <2>3. e \in AttemptRow
    BY <2>2 DEF IsAttempt
  <2> HIDE DEF e
  <2>4. Only(a) /\ attempt'[a] = e
    BY <1>1, <2>1, <2>3, AttemptPut
  <2> QED
    BY <1>3, <2>2, <2>4 DEF Opens, RecordOpened
<1> QED
  BY <1>2, <1>3

\* The row of a payment that was taken.
LEMMA SucceededIs ==
  ASSUME attempt \in [Attempt -> AttemptRow], NEW a \in Attempt,
         NEW f \in {"FULFILLED", "UNFULFILLED"}, attempt' = Succeeded(a, f)
  PROVE  Only(a) /\ IsAttempt(attempt'[a], attempt[a].res, "SUCCEEDED", f,
                              attempt[a].opened, attempt[a].expires)
<1> DEFINE e == [attempt[a] EXCEPT !.status = "SUCCEEDED", !.fulfillment = f]
<1>1. attempt' = [attempt EXCEPT ![a] = e]
  <2>1. attempt' = [attempt EXCEPT ![a].status = "SUCCEEDED", ![a].fulfillment = f]
    BY DEF Succeeded
  <2> QED
    BY <2>1, Zenon
<1>2. IsAttempt(e, attempt[a].res, "SUCCEEDED", f, attempt[a].opened, attempt[a].expires)
  <2>1. "SUCCEEDED" \in AttemptStatus /\ TRUE \in BOOLEAN /\ 0 \in Nat /\ attempt[a] \in AttemptRow
        /\ f \in {"", "FULFILLED", "UNFULFILLED"} /\ None \in Reservation \cup {None}
    BY DEF AttemptStatus
  <2> QED
    BY <2>1, AttemptFields, Zenon
<1>3. e \in AttemptRow
  BY <1>2 DEF IsAttempt
<1> HIDE DEF e
<1> QED
  BY <1>1, <1>2, <1>3, AttemptPut

\* A payment that is recorded is booked, or has no stall to book.
LEMMA PaidEffect ==
  ASSUME LockInv, NEW w \in Worker, PaidBooked(w) \/ PaidUnfulfilled(w)
  PROVE  (PaidBooked(w) /\ Books(Att(w))) \/ (PaidUnfulfilled(w) /\ Falls(Att(w)))
<1> DEFINE a == Att(w)
<1>1. /\ a \in Attempt /\ attempt \in [Attempt -> AttemptRow] /\ attempt[a].status # "NONE"
  BY Working DEF LockInv, TypeOK, PaidBooked, PaidUnfulfilled, At, Row
<1>2. CASE PaidBooked(w)
  <2>1. attempt' = Succeeded(a, "FULFILLED")
    BY <1>2 DEF PaidBooked
  <2>2. Only(a) /\ IsAttempt(attempt'[a], attempt[a].res, "SUCCEEDED", "FULFILLED",
                             attempt[a].opened, attempt[a].expires)
    BY <1>1, <2>1, SucceededIs
  <2> QED
    BY <1>2, <2>2 DEF PaidBooked, Books
<1>3. CASE PaidUnfulfilled(w)
  <2>1. attempt' = Succeeded(a, "UNFULFILLED")
    BY <1>3 DEF PaidUnfulfilled
  <2>2. Only(a) /\ IsAttempt(attempt'[a], attempt[a].res, "SUCCEEDED", "UNFULFILLED",
                             attempt[a].opened, attempt[a].expires)
    BY <1>1, <2>1, SucceededIs
  <2> QED
    BY <1>1, <1>3, <2>2 DEF PaidUnfulfilled, Falls, OtherLive, AttemptsOf
<1> QED
  BY <1>2, <1>3

\* Recording a refund, or its failure, changes that refund alone.
LEMMA RefundEffect ==
  ASSUME LockInv, NEW w \in Worker, RecordRefund(w) \/ RecordRefundError(w)
  PROVE  /\ Repays(Att(w))
         /\ RecordRefund(w) /\ refund[Att(w)].status \in UnresolvedRefund =>
              refund'[Att(w)] = [status |-> RecordedAs(worker[w].seen), known |-> TRUE]
         /\ RecordRefund(w) /\ refund[Att(w)].status \notin UnresolvedRefund =>
              refund'[Att(w)] = refund[Att(w)]
         /\ RecordRefundError(w) => refund'[Att(w)].status = worker[w].seen
<1> DEFINE a == Att(w)
<1>1. /\ a \in Attempt /\ attempt[a].status # "NONE" /\ refund \in [Attempt -> RefundRow]
      /\ UNCHANGED <<now, hold, attempt, booking>>
  BY Working DEF LockInv, TypeOK, RecordRefund, RecordRefundError, At, Row
<1>2. CASE RecordRefund(w)
  <2> DEFINE e == [status |-> RecordedAs(worker[w].seen), known |-> TRUE]
  <2>1. e \in RefundRow
    BY DEF RecordedAs, RefundRow, RefundStatus
  <2>2. refund' = IF refund[a].status \in UnresolvedRefund THEN [refund EXCEPT ![a] = e] ELSE refund
    BY <1>2 DEF RecordRefund
  <2>3. ~RecordRefundError(w)
    BY <1>2 DEF RecordRefund, RecordRefundError, At
  <2> HIDE DEF e
  <2>4. CASE refund[a].status \in UnresolvedRefund
    BY <1>1, <1>2, <2>1, <2>2, <2>3, <2>4 DEF Repays, e
  <2>5. CASE refund[a].status \notin UnresolvedRefund
    BY <1>1, <1>2, <2>2, <2>3, <2>5 DEF Repays
  <2> QED
    BY <2>4, <2>5
<1>3. CASE RecordRefundError(w)
  <2>1. worker[w].seen \in RefundStatus
    BY <1>3 DEF LockInv, Busy, RecordRefundError, At, UnresolvedRefund, RefundStatus
  <2>2. refund' = [refund EXCEPT ![a].status = worker[w].seen]
    BY <1>3 DEF RecordRefundError
  <2>3. \A e \in RefundRow : LET d == [e EXCEPT !.status = worker[w].seen] IN
                             d \in RefundRow /\ d.status = worker[w].seen
    BY <2>1, Zenon DEF RefundRow
  <2>4. ~RecordRefund(w)
    BY <1>3 DEF RecordRefund, RecordRefundError, At
  <2>5. refund' \in [Attempt -> RefundRow] /\ refund'[a].status = worker[w].seen
        /\ \A b \in Attempt : b # a => refund'[b] = refund[b]
    BY <1>1, <2>2, <2>3
  <2> QED
    BY <1>1, <2>4, <2>5 DEF Repays
<1> QED
  BY <1>2, <1>3

\* Releasing a cancelled hold is the vendor's own release.
LEMMA ReleaseEffect ==
  ASSUME LockInv, NEW w \in Worker, ReleaseCancelled(w)
  PROVE  Nothing \/ Holds
<1>1. worker[w].res \in Reservation
  BY DEF LockInv, Busy, ReleaseCancelled, At
<1> QED
  BY <1>1 DEF ReleaseCancelled, Nothing, dbVars, holdVars, Holds

\* Every step has one of these effects.
LEMMA Effects ==
  ASSUME LockInv, [Next]_vars
  PROVE  Effect
<1>1. ASSUME NEW w \in Worker, Take(w)
      PROVE  Effect
  BY <1>1, BeginCheckoutEffect
     DEF Take, ResumeCheckout, SyncAttempt, ProcessRefund, CancelCheckout, Effect, Locks, Nothing
<1>2. ASSUME NEW w \in Worker, Work(w)
      PROVE  Effect
  <2> USE DEF Effect
  <2>1. CASE \/ CreateAnswered(w) \/ CreateRefused(w) \/ CreateUnknown(w) \/ ReadAttempt(w)
             \/ RetrieveSession(w) \/ RetrieveIntent(w) \/ ApplyWaiting(w) \/ PaidCollides(w)
             \/ Settle(w) \/ RefundAnswered(w) \/ RefundRefused(w) \/ ExpireAnswered(w)
             \/ ExpireRefused(w) \/ FinishCancel(w)
    BY <2>1 DEF CreateAnswered, CreateRefused, CreateUnknown, ReadAttempt, RetrieveSession,
       RetrieveIntent, ApplyWaiting, PaidCollides, Settle, RefundAnswered, RefundRefused,
       ExpireAnswered, ExpireRefused, FinishCancel, Nothing
  <2>2. CASE RecordOpened(w)
    BY <2>2, RecordOpenedEffect, Working DEF RecordOpened, At
  <2>3. CASE CreateFailed(w) \/ ApplyExpired(w) \/ ApplyUnpaid(w) \/ CloseCanceled(w)
    BY <2>3, CloseEffect, Working DEF CreateFailed, ApplyExpired, ApplyUnpaid, CloseCanceled, At
  <2>4. CASE PaidAlready(w)
    BY <2>4 DEF PaidAlready, Locks
  <2>5. CASE PaidBooked(w) \/ PaidUnfulfilled(w)
    BY <2>5, PaidEffect, Working DEF PaidBooked, PaidUnfulfilled, At
  <2>6. CASE RecordRefund(w) \/ RecordRefundError(w)
    BY <2>6, RefundEffect, Working DEF RecordRefund, RecordRefundError, At
  <2>7. CASE ReleaseCancelled(w)
    BY <2>7, ReleaseEffect
  <2> QED
    BY <1>2, <2>1, <2>2, <2>3, <2>4, <2>5, <2>6, <2>7 DEF Work
<1>3. ASSUME NEW w \in Worker, Fail(w)
      PROVE  Effect
  BY <1>3 DEF Fail, RetrieveFailed, RefundUnknown, ExpireUnknown, Stop, Effect, Nothing
<1>4. ASSUME NEW a \in Attempt, Stripe(a)
      PROVE  Effect
  BY <1>4 DEF Stripe, Pay, PayDelayed, DelayedEnds, SessionExpires, RefundEnds, Effect, Nothing
<1>5. ASSUME NEW r \in Reservation, ReleaseStall(r) \/ ConfirmFree(r)
      PROVE  Effect
  BY <1>5 DEF ReleaseStall, ConfirmFree, Effect, Holds, Frees
<1>6. CASE AcquireStall \/ ExpireStalls \/ TimePasses
  BY <1>6 DEF AcquireStall, ExpireStalls, TimePasses, Effect, Holds
<1>7. CASE UNCHANGED vars
  BY <1>7 DEF vars, Effect, Nothing
<1> QED
  BY <1>1, <1>2, <1>3, <1>4, <1>5, <1>6, <1>7 DEF Next

-----------------------------------------------------------------------------
(* The locks follow the attempts, and every effect on the reservations is one
   of the trusted operations *)

\* The types of what the database keeps for payments.
DbTypeOK ==
  /\ HoldTypeOK
  /\ attempt \in [Attempt -> AttemptRow]
  /\ booking \in [Reservation -> Attempt \cup {None, Free}]
  /\ refund \in [Attempt -> RefundRow]

\* An attempt, once made, stays and stays for its reservation.
Persist ==
  \A a \in Attempt : attempt[a].status # "NONE" =>
    attempt'[a].status # "NONE" /\ attempt'[a].res = attempt[a].res

\* A reservation, once made, keeps its price.
PriceStays ==
  \A r \in Reservation : hold[r].status # "NONE" =>
    hold'[r].status # "NONE" /\ hold'[r].price = hold[r].price

\* The rows are locked, and one of them is replaced by the named operation.
LEMMA LocksHold ==
  ASSUME LockInv, hold' = LockedRows, UNCHANGED now
  PROVE  [HoldNext]_holdVars /\ PriceStays /\ (\A r \in Reservation : hold'[r].pending = hold[r].pending)
<1>1. \A r \in Reservation : hold'[r].pending = hold[r].pending
  BY LockedRowsAre DEF LockInv, TypeOK
<1>2. PriceStays
  BY LockedRowsAre DEF LockInv, TypeOK, PriceStays
<1>3. CASE \E r \in Reservation : Lapsed(hold[r])
  BY <1>1, <1>2, <1>3 DEF HoldNext, ExpireHolds, LockedRows
<1>4. CASE \A r \in Reservation : ~Lapsed(hold[r])
  <2>1. hold' = hold
    BY <1>4 DEF LockedRows, ExpireLapsed, LockInv, TypeOK, HoldTypeOK
  <2> QED
    BY <1>1, <1>2, <2>1 DEF holdVars
<1> QED
  BY <1>3, <1>4

\* Only a reservation with an unresolved attempt awaits a payment, which makes
\* the end of a checkout an EndPayment.
LEMMA BeginsHold ==
  ASSUME LockInv, NEW r \in Reservation, NEW a \in Attempt, Begins(r, a)
  PROVE  /\ [HoldNext]_holdVars /\ PriceStays
         /\ \A q \in Reservation : hold'[q].pending <=> hold[q].pending \/ q = r
         /\ hold'[r].price # 0 /\ hold'[r].status # "NONE"
<1> DEFINE u == now + SessionFor
<1>1. now \in Nat /\ u \in 0..MaxTime + HoldFor /\ u > now /\ u \in Nat
  <2>1. SessionFor \in Nat /\ SessionFor > 0 /\ MaxTime \in Nat /\ HoldFor \in Nat
    BY CheckoutAssumption, HoldAssumption
  <2>2. now \in 0..MaxTime /\ now + SessionFor <= MaxTime
    BY DEF LockInv, TypeOK, HoldTypeOK, Begins
  <2> QED
    BY <2>1, <2>2
<1>2. ~hold[r].pending
  BY DEF LockInv, PendingIffUnresolved, AttemptsOf, Begins, Live
<1>3. hold' = MarkPaymentPending(LockedRows, r, u) /\ UNCHANGED now
  BY DEF Begins
<1>4. LockedRows[r].status = "HELD" /\ LockedRows[r].price # 0 /\ ~LockedRows[r].pending
  BY <1>2, LockedRowsAre DEF Begins, LockInv, TypeOK
<1>5. StartPayment(r, u)
  BY <1>1, <1>3, <1>4 DEF StartPayment, LockedRows
<1> HIDE DEF u
<1>6. HoldNext
  BY <1>1, <1>5 DEF HoldNext
<1>7. /\ \A q \in Reservation : q # r => hold'[q] = LockedRows[q]
      /\ hold'[r].pending /\ hold'[r].price = LockedRows[r].price
      /\ hold'[r].status = LockedRows[r].status
  BY <1>1, <1>3, RowsAfter, LockedRowsAre DEF LockInv, TypeOK
<1>8. \A q \in Reservation : /\ LockedRows[q].pending = hold[q].pending
                             /\ LockedRows[q].price = hold[q].price
                             /\ hold[q].status # "NONE" => LockedRows[q].status # "NONE"
  BY LockedRowsAre DEF LockInv, TypeOK
<1>9. \A q \in Reservation : hold'[q].pending <=> hold[q].pending \/ q = r
  BY <1>7, <1>8
<1>10. PriceStays
  BY <1>7, <1>8 DEF PriceStays
<1> QED
  BY <1>4, <1>6, <1>7, <1>9, <1>10

\* The end of a checkout.
LEMMA ClearsHold ==
  ASSUME LockInv, NEW r \in Reservation, hold[r].pending, NEW end \in BOOLEAN,
         hold' = ClearPaymentPending(LockedRows, r, end), UNCHANGED now
  PROVE  /\ [HoldNext]_holdVars /\ PriceStays
         /\ \A q \in Reservation : hold'[q].pending <=> hold[q].pending /\ q # r
<1>1. HoldNext
  BY DEF HoldNext, EndPayment, LockedRows
<1>2. /\ \A q \in Reservation : q # r => hold'[q] = LockedRows[q]
      /\ ~hold'[r].pending /\ hold'[r].price = LockedRows[r].price
      /\ LockedRows[r].status # "NONE" => hold'[r].status # "NONE"
  BY RowsAfter, LockedRowsAre DEF LockInv, TypeOK
<1>3. \A q \in Reservation : /\ LockedRows[q].pending = hold[q].pending
                             /\ LockedRows[q].price = hold[q].price
                             /\ hold[q].status # "NONE" => LockedRows[q].status # "NONE"
  BY LockedRowsAre DEF LockInv, TypeOK
<1>4. \A q \in Reservation : hold'[q].pending <=> hold[q].pending /\ q # r
  BY <1>2, <1>3
<1>5. PriceStays
  BY <1>2, <1>3 DEF PriceStays
<1> QED
  BY <1>1, <1>4, <1>5

\* A confirmation.
LEMMA ConfirmsHold ==
  ASSUME LockInv, NEW r \in Reservation, LockedRows[r].status = "HELD",
         hold' = ConfirmLocked(LockedRows, r), UNCHANGED now
  PROVE  /\ [HoldNext]_holdVars /\ PriceStays
         /\ \A q \in Reservation : hold'[q].pending <=> hold[q].pending /\ q # r
<1>1. HoldNext
  BY DEF HoldNext, ConfirmHold, LockedRows
<1>2. /\ \A q \in Reservation : q # r => hold'[q] = LockedRows[q]
      /\ ~hold'[r].pending /\ hold'[r].price = LockedRows[r].price
      /\ hold'[r].status = "CONFIRMED"
  BY RowsAfter, LockedRowsAre DEF LockInv, TypeOK
<1>3. \A q \in Reservation : /\ LockedRows[q].pending = hold[q].pending
                             /\ LockedRows[q].price = hold[q].price
                             /\ hold[q].status # "NONE" => LockedRows[q].status # "NONE"
  BY LockedRowsAre DEF LockInv, TypeOK
<1>4. \A q \in Reservation : hold'[q].pending <=> hold[q].pending /\ q # r
  BY <1>2, <1>3
<1>5. PriceStays
  BY <1>2, <1>3 DEF PriceStays
<1> QED
  BY <1>1, <1>4, <1>5

\* What vendors do to their holds, and time, moves no payment lock.
LEMMA HoldsHold ==
  ASSUME LockInv, Holds
  PROVE  /\ [HoldNext]_holdVars /\ PriceStays
         /\ \A q \in Reservation : hold'[q].pending <=> hold[q].pending
<1>0. \A q \in Reservation : /\ LockedRows[q].pending = hold[q].pending
                             /\ LockedRows[q].price = hold[q].price
                             /\ hold[q].status # "NONE" => LockedRows[q].status # "NONE"
                             /\ LockedRows[q].status = "NONE" => ~hold[q].pending
  BY LockedRowsAre DEF LockInv, TypeOK, HoldTypeOK
<1>1. CASE ExpireHolds
  BY <1>0, <1>1 DEF ExpireHolds, LockedRows, HoldNext, PriceStays
<1>2. CASE Tick
  BY <1>2 DEF Tick, HoldNext, PriceStays
<1>3. ASSUME NEW b \in Business, NEW k \in RequestKey, NEW o \in Offer, NEW p \in Price,
             AcquireHold(b, k, o, p)
      PROVE  /\ [HoldNext]_holdVars /\ PriceStays
             /\ \A q \in Reservation : hold'[q].pending <=> hold[q].pending
  <2> DEFINE new == [status |-> "HELD", offer |-> o, price |-> p,
                     expires |-> now + HoldFor, pending |-> FALSE]
  <2>1. hold' = [LockedRows EXCEPT ![<<b, k>>] = new] /\ LockedRows[<<b, k>>].status = "NONE"
    BY <1>3 DEF AcquireHold, LockedRows
  <2>2. <<b, k>> \in Reservation /\ LockedRows \in [Reservation -> HoldRow]
    BY LockedRowsAre DEF LockInv, TypeOK, WellFormed, Reservation
  <2>3. new.pending = FALSE
    OBVIOUS
  <2> HIDE DEF new
  <2>4. \A q \in Reservation : hold'[q].pending <=> hold[q].pending
    BY <1>0, <2>1, <2>2, <2>3
  <2>5. PriceStays
    BY <1>0, <2>1, <2>2 DEF PriceStays
  <2>6. HoldNext
    BY <1>3 DEF HoldNext
  <2> QED
    BY <2>4, <2>5, <2>6
<1>4. ASSUME NEW r \in Reservation, ReleaseHold(r)
      PROVE  /\ [HoldNext]_holdVars /\ PriceStays
             /\ \A q \in Reservation : hold'[q].pending <=> hold[q].pending
  <2>1. hold' = ReleasedRows(LockedRows, r)
    BY <1>4 DEF ReleaseHold, LockedRows
  <2>2. /\ \A q \in Reservation : q # r => hold'[q] = LockedRows[q]
        /\ hold'[r].pending = LockedRows[r].pending /\ hold'[r].price = LockedRows[r].price
        /\ LockedRows[r].status # "NONE" => hold'[r].status # "NONE"
    BY <2>1, RowsAfter, LockedRowsAre DEF LockInv, TypeOK
  <2>3. \A q \in Reservation : hold'[q].pending <=> hold[q].pending
    BY <1>0, <2>2
  <2>4. PriceStays
    BY <1>0, <2>2 DEF PriceStays
  <2>5. HoldNext
    BY <1>4 DEF HoldNext
  <2> QED
    BY <2>3, <2>4, <2>5
<1> QED
  BY <1>1, <1>2, <1>3, <1>4 DEF Holds

\* Each effect changes the reservations as a trusted operation does, and keeps
\* the locks with the attempts.
DbStep ==
  /\ [HoldNext]_holdVars
  /\ DbTypeOK'
  /\ Persist
  /\ PriceStays
  /\ AttemptsAreFor'
  /\ OneLiveAttempt'
  /\ PendingIffUnresolved'

\* Only the reservations change, and no payment lock.
LEMMA SameAttempts ==
  ASSUME LockInv, UNCHANGED <<attempt, refund>>, booking' \in [Reservation -> Attempt \cup {None, Free}],
         [HoldNext]_holdVars, PriceStays,
         \A r \in Reservation : hold'[r].pending <=> hold[r].pending
  PROVE  DbStep
<1>1. HoldTypeOK'
  BY HoldTypeStep DEF LockInv, TypeOK
<1>2. DbTypeOK' /\ Persist
  BY <1>1 DEF DbTypeOK, LockInv, TypeOK, Persist
<1>3. AttemptsAreFor'
  BY DEF LockInv, AttemptsAreFor, PriceStays
<1>4. OneLiveAttempt' /\ PendingIffUnresolved'
  BY DEF LockInv, OneLiveAttempt, PendingIffUnresolved, AttemptsOf
<1> QED
  BY <1>2, <1>3, <1>4 DEF DbStep

\* A beginning checkout.
LEMMA BeginsStep ==
  ASSUME LockInv, NEW r \in Reservation, NEW a \in Attempt, Begins(r, a)
  PROVE  DbStep
<1>1. /\ [HoldNext]_holdVars /\ PriceStays
      /\ \A q \in Reservation : hold'[q].pending <=> hold[q].pending \/ q = r
      /\ hold'[r].price # 0 /\ hold'[r].status # "NONE"
  BY BeginsHold
<1>2. /\ Only(a) /\ attempt'[a].res = r /\ attempt'[a].status = "CREATING"
      /\ attempt[a].status = "NONE" /\ attempt[a].res = None
      /\ UNCHANGED <<booking, refund>>
  BY DEF Begins, IsAttempt, LockInv, AttemptsAreFor
<1>3. HoldTypeOK'
  BY <1>1, HoldTypeStep DEF LockInv, TypeOK
<1>4. DbTypeOK'
  BY <1>2, <1>3 DEF DbTypeOK, LockInv, TypeOK, Only
<1>5. Persist
  BY <1>2 DEF Persist, Only
<1>6. None \notin Reservation
  BY CheckoutAssumption
<1>7. AttemptsAreFor'
  BY <1>1, <1>2 DEF LockInv, AttemptsAreFor, PriceStays, Only
<1>8. OneLiveAttempt'
  BY <1>2 DEF LockInv, OneLiveAttempt, Begins, Only
<1>9. PendingIffUnresolved'
  BY <1>1, <1>2, <1>6 DEF LockInv, PendingIffUnresolved, AttemptsOf, Only, Unresolved
<1> QED
  BY <1>1, <1>4, <1>5, <1>7, <1>8, <1>9 DEF DbStep

\* An opened session moves no lock.
LEMMA OpensStep ==
  ASSUME LockInv, NEW a \in Attempt, Opens(a)
  PROVE  DbStep
<1>1. /\ Only(a) /\ attempt'[a].res = attempt[a].res /\ attempt'[a].status = "OPEN"
      /\ attempt[a].status = "CREATING" /\ UNCHANGED <<now, hold, booking, refund>>
  BY DEF Opens, IsAttempt
<1>2. DbTypeOK' /\ Persist /\ PriceStays /\ [HoldNext]_holdVars
  BY <1>1 DEF DbTypeOK, LockInv, TypeOK, HoldTypeOK, Only, Persist, PriceStays, holdVars
<1>3. AttemptsAreFor' /\ OneLiveAttempt' /\ PendingIffUnresolved'
  BY <1>1 DEF LockInv, AttemptsAreFor, OneLiveAttempt, PendingIffUnresolved, AttemptsOf, Only,
     Live, Unresolved
<1> QED
  BY <1>2, <1>3 DEF DbStep

\* An unresolved attempt of a locked reservation ends.
LEMMA EndsStep ==
  ASSUME LockInv, NEW a \in Attempt, attempt[a].status \in Unresolved,
         Only(a), attempt'[a].res = attempt[a].res,
         attempt'[a].status \in {"SUCCEEDED", "FAILED", "EXPIRED", "CANCELED"},
         [HoldNext]_holdVars, PriceStays, HoldTypeOK',
         \A q \in Reservation : hold'[q].pending <=> hold[q].pending /\ q # attempt[a].res,
         booking' \in [Reservation -> Attempt \cup {None, Free}], refund' \in [Attempt -> RefundRow],
         \A b \in Attempt : b # a => refund'[b] = refund[b]
  PROVE  DbStep
<1>1. attempt[a].status # "NONE" /\ attempt[a].status \in Live /\ attempt'[a].status # "NONE"
  BY DEF Unresolved, Live
<1>2. DbTypeOK' /\ Persist
  BY <1>1 DEF DbTypeOK, Only, Persist
<1>3. AttemptsAreFor'
  BY <1>1 DEF LockInv, AttemptsAreFor, PriceStays, Only
<1>4. OneLiveAttempt'
  BY <1>1 DEF LockInv, OneLiveAttempt, Only
<1>5. PendingIffUnresolved'
  <2> SUFFICES ASSUME NEW r \in Reservation
               PROVE  hold'[r].pending <=>
                        \E b \in Attempt : attempt'[b].res = r /\ attempt'[b].status \in Unresolved
    BY DEF PendingIffUnresolved, AttemptsOf
  <2>1. hold[r].pending <=> \E b \in Attempt : attempt[b].res = r /\ attempt[b].status \in Unresolved
    BY DEF LockInv, PendingIffUnresolved, AttemptsOf
  <2>2. attempt'[a].status \notin Unresolved
    BY DEF Unresolved
  <2>3. \A b \in Attempt : b # a => attempt'[b] = attempt[b]
    BY DEF Only
  <2>4. CASE r # attempt[a].res
    BY <2>1, <2>2, <2>3, <2>4
  <2>5. CASE r = attempt[a].res
    <3>1. ASSUME NEW b \in Attempt, attempt[b].res = r, attempt[b].status \in Unresolved
          PROVE  b = a
      BY <1>1, <2>5, <3>1 DEF LockInv, OneLiveAttempt, Live
    <3> QED
      BY <2>2, <2>3, <2>5, <3>1
  <2> QED
    BY <2>4, <2>5
<1> QED
  BY <1>2, <1>3, <1>4, <1>5 DEF DbStep

\* An ended checkout unlocks its hold.
LEMMA ClosesStep ==
  ASSUME LockInv, NEW a \in Attempt, NEW s \in {"FAILED", "EXPIRED", "CANCELED"}, Closes(a, s)
  PROVE  DbStep
<1>1. attempt[a].res \in Reservation /\ attempt[a].status \in Unresolved
  BY DEF Closes, LockInv, AttemptsAreFor, Unresolved
<1>2. hold[attempt[a].res].pending
  BY <1>1 DEF LockInv, PendingIffUnresolved, AttemptsOf
<1>3. /\ [HoldNext]_holdVars /\ PriceStays
      /\ \A q \in Reservation : hold'[q].pending <=> hold[q].pending /\ q # attempt[a].res
  BY <1>1, <1>2, ClearsHold DEF Closes
<1>4. HoldTypeOK'
  BY <1>3, HoldTypeStep DEF LockInv, TypeOK
<1>5. /\ Only(a) /\ attempt'[a].res = attempt[a].res /\ attempt'[a].status = s
      /\ UNCHANGED <<booking, refund>>
  BY DEF Closes, IsAttempt
<1> QED
  BY <1>1, <1>3, <1>4, <1>5, EndsStep DEF LockInv, TypeOK

\* A booked payment confirms its stall.
LEMMA BooksStep ==
  ASSUME LockInv, NEW a \in Attempt, Books(a)
  PROVE  DbStep
<1>1. attempt[a].res \in Reservation /\ attempt[a].status \in Unresolved
  BY DEF Books, LockInv, AttemptsAreFor, Unresolved
<1>2. /\ [HoldNext]_holdVars /\ PriceStays
      /\ \A q \in Reservation : hold'[q].pending <=> hold[q].pending /\ q # attempt[a].res
  BY <1>1, ConfirmsHold DEF Books
<1>3. HoldTypeOK'
  BY <1>2, HoldTypeStep DEF LockInv, TypeOK
<1>4. /\ Only(a) /\ attempt'[a].res = attempt[a].res /\ attempt'[a].status = "SUCCEEDED"
      /\ UNCHANGED refund /\ booking' \in [Reservation -> Attempt \cup {None, Free}]
  BY <1>1 DEF Books, IsAttempt, LockInv, TypeOK
<1> QED
  BY <1>1, <1>2, <1>3, <1>4, EndsStep DEF LockInv, TypeOK

\* A payment without a stall ends its hold.
LEMMA FallsStep ==
  ASSUME LockInv, NEW a \in Attempt, Falls(a)
  PROVE  DbStep
<1>1. /\ attempt[a].res \in Reservation /\ attempt[a].status # "NONE"
      /\ Only(a) /\ attempt'[a].res = attempt[a].res /\ attempt'[a].status = "SUCCEEDED"
      /\ UNCHANGED <<booking, now>>
  BY DEF Falls, IsAttempt, LockInv, AttemptsAreFor
<1>2. refund' \in [Attempt -> RefundRow] /\ \A b \in Attempt : b # a => refund'[b] = refund[b]
  <2>1. refund \in [Attempt -> RefundRow] /\ refund' = [refund EXCEPT ![a].status = "REQUESTED"]
    BY DEF Falls, LockInv, TypeOK
  <2>2. \A e \in RefundRow : [e EXCEPT !.status = "REQUESTED"] \in RefundRow
    BY DEF RefundRow, RefundStatus
  <2> QED
    BY <2>1, <2>2
<1>3. CASE attempt[a].status \in Unresolved
  <2>1. hold[attempt[a].res].pending
    BY <1>1, <1>3 DEF LockInv, PendingIffUnresolved, AttemptsOf
  <2>2. /\ [HoldNext]_holdVars /\ PriceStays
        /\ \A q \in Reservation : hold'[q].pending <=> hold[q].pending /\ q # attempt[a].res
    BY <1>1, <1>3, <2>1, ClearsHold DEF Falls
  <2>3. HoldTypeOK'
    BY <2>2, HoldTypeStep DEF LockInv, TypeOK
  <2> QED
    BY <1>1, <1>2, <1>3, <2>2, <2>3, EndsStep DEF LockInv, TypeOK
<1>4. CASE attempt[a].status \notin Unresolved
  <2>1. hold' = LockedRows
    BY <1>4 DEF Falls
  <2>2. /\ [HoldNext]_holdVars /\ PriceStays
        /\ \A q \in Reservation : hold'[q].pending = hold[q].pending
    BY <1>1, <2>1, LocksHold
  <2>3. HoldTypeOK'
    BY <2>2, HoldTypeStep DEF LockInv, TypeOK
  <2>4. DbTypeOK' /\ Persist
    BY <1>1, <1>2, <2>3 DEF DbTypeOK, LockInv, TypeOK, Only, Persist
  <2>5. AttemptsAreFor'
    BY <1>1, <1>2, <2>2 DEF LockInv, AttemptsAreFor, PriceStays, Only
  <2>6. OneLiveAttempt'
    BY <1>1 DEF LockInv, OneLiveAttempt, Only, Falls
  <2>7. PendingIffUnresolved'
    BY <1>1, <1>4, <2>2 DEF LockInv, PendingIffUnresolved, AttemptsOf, Only, Unresolved
  <2> QED
    BY <2>2, <2>4, <2>5, <2>6, <2>7 DEF DbStep
<1> QED
  BY <1>3, <1>4

\* A free stall had no lock.
LEMMA FreesStep ==
  ASSUME LockInv, NEW r \in Reservation, Frees(r)
  PROVE  DbStep
<1>1. ~hold[r].pending
  <2>1. hold[r].price = 0
    BY LockedRowsAre DEF Frees, LockInv, TypeOK
  <2> QED
    BY <2>1 DEF LockInv, PendingIffUnresolved, AttemptsOf, AttemptsAreFor, Unresolved
<1>2. /\ [HoldNext]_holdVars /\ PriceStays
      /\ \A q \in Reservation : hold'[q].pending <=> hold[q].pending /\ q # r
  BY ConfirmsHold DEF Frees
<1>3. booking' \in [Reservation -> Attempt \cup {None, Free}] /\ UNCHANGED <<attempt, refund>>
  BY DEF Frees, LockInv, TypeOK
<1> QED
  BY <1>1, <1>2, <1>3, SameAttempts

\* Each effect is such a step.
LEMMA EffectStep ==
  ASSUME LockInv, Effect
  PROVE  DbStep
<1>1. CASE Nothing
  BY <1>1, SameAttempts DEF Nothing, dbVars, LockInv, TypeOK, holdVars, PriceStays
<1>2. CASE Locks
  BY <1>2, LocksHold, SameAttempts DEF Locks, LockInv, TypeOK
<1>3. CASE Holds
  BY <1>3, HoldsHold, SameAttempts DEF Holds, LockInv, TypeOK
<1>4. ASSUME NEW a \in Attempt, Repays(a)
      PROVE  DbStep
  <2>1. DbTypeOK' /\ Persist /\ PriceStays /\ [HoldNext]_holdVars
    BY <1>4 DEF Repays, DbTypeOK, LockInv, TypeOK, HoldTypeOK, Persist, PriceStays, holdVars
  <2>2. AttemptsAreFor' /\ OneLiveAttempt' /\ PendingIffUnresolved'
    BY <1>4 DEF Repays, LockInv, AttemptsAreFor, OneLiveAttempt, PendingIffUnresolved, AttemptsOf
  <2> QED
    BY <2>1, <2>2 DEF DbStep
<1> QED
  BY <1>1, <1>2, <1>3, <1>4, FreesStep, BeginsStep, OpensStep, BooksStep, FallsStep, ClosesStep
     DEF Effect
-----------------------------------------------------------------------------
(* Stripe's side and the workers keep their types *)

\* A session or refund of Stripe changes only to a state it can have.
LEMMA StripeTypes ==
  ASSUME LockInv, [Next]_vars
  PROVE  session' \in [Attempt -> SessionState] /\ payback' \in [Attempt -> PaybackState]
<1>0. session \in [Attempt -> SessionState] /\ payback \in [Attempt -> PaybackState]
  BY DEF LockInv, TypeOK
<1> DEFINE Same == UNCHANGED stripeVars
           Opened(a) == session' \in {session, AfterCreate(a)} /\ UNCHANGED payback
           Set(a) == /\ \E s \in {"refused", "expired", "paid", "settling", "unpaid"} :
                          session' = [session EXCEPT ![a] = s]
                     /\ UNCHANGED payback
           Paid(a) == UNCHANGED session /\ payback' \in AfterRefund(a) \cup {payback}
           PaidSet(a) == /\ \E s \in {"refused", "succeeded", "failed", "canceled"} :
                              payback' = [payback EXCEPT ![a] = s]
                         /\ UNCHANGED session
<1>1. ASSUME NEW w \in Worker, Take(w)
      PROVE  Same
  BY <1>1 DEF Take, ResumeCheckout, BeginCheckout, SyncAttempt, ProcessRefund, CancelCheckout, stripeVars
<1>2. ASSUME NEW w \in Worker, Work(w)
      PROVE  Same \/ Opened(Att(w)) \/ Set(Att(w)) \/ Paid(Att(w)) \/ PaidSet(Att(w))
  <2>1. CASE CreateAnswered(w) \/ CreateUnknown(w)
    BY <2>1 DEF CreateAnswered, CreateUnknown
  <2>2. CASE CreateRefused(w) \/ ExpireAnswered(w)
    BY <2>2, Zenon DEF CreateRefused, ExpireAnswered, stripeVars
  <2>3. CASE RefundAnswered(w)
    BY <2>3 DEF RefundAnswered
  <2>4. CASE RefundRefused(w)
    BY <2>4, Zenon DEF RefundRefused, stripeVars
  <2>5. CASE ReleaseCancelled(w)
    BY <2>5 DEF ReleaseCancelled, stripeVars
  <2>6. CASE \/ RecordOpened(w) \/ CreateFailed(w) \/ ReadAttempt(w)
             \/ RetrieveSession(w) \/ RetrieveIntent(w)
             \/ ApplyExpired(w) \/ ApplyUnpaid(w) \/ ApplyWaiting(w)
             \/ PaidAlready(w) \/ PaidBooked(w) \/ PaidUnfulfilled(w) \/ PaidCollides(w)
             \/ Settle(w) \/ RecordRefund(w) \/ RecordRefundError(w)
             \/ ExpireRefused(w) \/ CloseCanceled(w) \/ FinishCancel(w)
    BY <2>6 DEF RecordOpened, CreateFailed, ReadAttempt, RetrieveSession, RetrieveIntent,
       ApplyExpired, ApplyUnpaid, ApplyWaiting, PaidAlready, PaidBooked, PaidUnfulfilled,
       PaidCollides, Settle, RecordRefund, RecordRefundError, ExpireRefused, CloseCanceled,
       FinishCancel, stripeVars
  <2> QED
    BY <1>2, <2>1, <2>2, <2>3, <2>4, <2>5, <2>6 DEF Work
<1>3. ASSUME NEW w \in Worker, Fail(w)
      PROVE  Same \/ Set(Att(w)) \/ Paid(Att(w))
  BY <1>3 DEF Fail, RetrieveFailed, RefundUnknown, ExpireUnknown, Stop, stripeVars
<1>4. ASSUME NEW a \in Attempt, Stripe(a)
      PROVE  Set(a) \/ PaidSet(a)
  BY <1>4, Zenon DEF Stripe, Pay, PayDelayed, DelayedEnds, SessionExpires, RefundEnds
<1>5. ASSUME NEW r \in Reservation, ReleaseStall(r) \/ ConfirmFree(r)
      PROVE  Same
  BY <1>5 DEF ReleaseStall, ConfirmFree, stripeVars
<1>6. ASSUME AcquireStall \/ ExpireStalls \/ TimePasses
      PROVE  Same
  BY <1>6 DEF AcquireStall, ExpireStalls, TimePasses, stripeVars
<1>7. ASSUME UNCHANGED vars
      PROVE  Same
  BY <1>7 DEF vars
<1>8. Same \/ \E a : Opened(a) \/ Set(a) \/ Paid(a) \/ PaidSet(a)
  <2> HIDE DEF Same, Opened, Set, Paid, PaidSet
  <2> QED
    BY <1>1, <1>2, <1>3, <1>4, <1>5, <1>6, <1>7 DEF Next
<1>9. ASSUME NEW a, Opened(a) \/ Set(a)
      PROVE  session' \in [Attempt -> SessionState] /\ UNCHANGED payback
  BY <1>0, <1>9 DEF AfterCreate, SessionState
<1>10. ASSUME NEW a, Paid(a) \/ PaidSet(a)
      PROVE  payback' \in [Attempt -> PaybackState] /\ UNCHANGED session
  BY <1>0, <1>10 DEF AfterRefund, PaybackState
<1> HIDE DEF Opened, Set, Paid, PaidSet
<1> QED
  BY <1>0, <1>8, <1>9, <1>10 DEF stripeVars

\* Whatever a worker that moved has become, it is busy with a real attempt or
\* reservation; the others still are.
Moved(w) ==
  /\ Alone(w)
  /\ Busy(worker[w])'

\* Workers stay busy with attempts and reservations that exist.
LEMMA BusyStays ==
  ASSUME LockInv, Persist, UNCHANGED worker \/ \E w \in Worker : Moved(w)
  PROVE  worker' \in [Worker -> WorkerRow] /\ \A w \in Worker : Busy(worker[w])'
<1>1. \A w \in Worker : worker'[w] = worker[w] => Busy(worker[w])'
  BY DEF LockInv, Persist, Busy
<1>2. CASE UNCHANGED worker
  BY <1>1, <1>2 DEF LockInv, TypeOK
<1>3. ASSUME NEW w \in Worker, Moved(w)
      PROVE  worker' \in [Worker -> WorkerRow] /\ \A v \in Worker : Busy(worker[v])'
  BY <1>1, <1>3 DEF Moved, Alone
<1> QED
  BY <1>2, <1>3

\* The steps that need no more than an attempt.
Going == Step \ {"idle", "finish", "release", "refund", "refundError"}

\* A worker that goes on with its attempt.
LEMMA GoesOn ==
  ASSUME LockInv, Persist, NEW w \in Worker, worker[w].step \notin {"idle", "finish", "release"},
         NEW s \in Going, NEW t, NEW r, NEW x, Alone(w), IsWorker(worker'[w], s, t, Att(w), r, x)
  PROVE  Moved(w)
<1>1. Att(w) \in Attempt /\ attempt'[Att(w)].status # "NONE"
  BY Working DEF Persist, Row
<1> QED
  BY <1>1 DEF Moved, Busy, IsWorker, Going

\* A worker that goes on with what it was answered.
LEMMA GoesWith ==
  ASSUME LockInv, Persist, NEW w \in Worker, worker[w].step \notin {"idle", "finish", "release"},
         NEW s \in Going, NEW x \in Seen, GoWith(w, s, x)
  PROVE  Moved(w)
<1>1. Alone(w) /\ IsWorker(worker'[w], s, worker[w].task, Att(w), worker[w].res, x)
  BY GoWithDoes DEF LockInv, TypeOK, Going, Att
<1> QED
  BY <1>1, GoesOn

\* A worker that goes on, answered nothing.
LEMMA Goes ==
  ASSUME LockInv, Persist, NEW w \in Worker, worker[w].step \notin {"idle", "finish", "release"},
         NEW s \in Going, Go(w, s)
  PROVE  Moved(w)
  BY GoesWith DEF Go, Seen, SessionState

\* A worker that has nothing left to do.
LEMMA Rests ==
  ASSUME LockInv, NEW w \in Worker, Rest(w)
  PROVE  Moved(w)
<1>1. Alone(w) /\ worker'[w].step = "idle"
  BY RestDoes, IdleIsAWorker DEF LockInv, TypeOK, IsWorker
<1> QED
  BY <1>1 DEF Moved, Busy

\* A worker that is given an attempt, or a reservation whose hold to release.
LEMMA Assigned ==
  ASSUME LockInv, NEW w \in Worker, NEW t \in Task,
         \/ \E s \in Going, a \in Attempt : Assign(w, s, t, a, None) /\ attempt'[a].status # "NONE"
         \/ \E r \in Reservation : Assign(w, "finish", t, None, r)
  PROVE  Moved(w)
<1>1. ASSUME NEW s \in Going, NEW a \in Attempt, Assign(w, s, t, a, None), attempt'[a].status # "NONE"
      PROVE  Moved(w)
  <2>1. Alone(w) /\ IsWorker(worker'[w], s, t, a, None, "none")
    BY <1>1, AssignDoes DEF LockInv, TypeOK, Going
  <2> QED
    BY <1>1, <2>1 DEF Moved, Busy, IsWorker, Going
<1>2. ASSUME NEW r \in Reservation, Assign(w, "finish", t, None, r)
      PROVE  Moved(w)
  <2>1. Alone(w) /\ IsWorker(worker'[w], "finish", t, None, r, "none")
    BY <1>2, AssignDoes DEF LockInv, TypeOK, Step
  <2> QED
    BY <2>1 DEF Moved, Busy, IsWorker
<1> QED
  BY <1>1, <1>2

\* A worker at the end of a sync.
LEMMA EndsSync ==
  ASSUME LockInv, Persist, NEW w \in Worker, worker[w].step \notin {"idle", "finish", "release"},
         EndSync(w)
  PROVE  Moved(w)
<1>1. CASE Rest(w)
  BY <1>1, Rests
<1>2. CASE Go(w, "expire")
  BY <1>2, Goes DEF Going, Step
<1>3. CASE Assign(w, "finish", "cancelled", None, Row(w).res)
  <2>1. Row(w).res \in Reservation /\ "cancelled" \in Task
    BY Working DEF Task
  <2> QED
    BY <1>3, <2>1, Assigned
<1> QED
  BY <1>1, <1>2, <1>3 DEF EndSync
\* A worker that takes up an operation.
LEMMA TakeMoves ==
  ASSUME LockInv, Persist, NEW w \in Worker, Take(w)
  PROVE  Moved(w)
<1> {"create", "created", "expire"} \subseteq Going /\ {"start", "sync", "cancel", "cancelled"} \subseteq Task
  BY DEF Going, Step, Task
<1>1. ASSUME NEW a \in Attempt, attempt[a].status # "NONE", NEW s \in Going, NEW t \in Task,
             Assign(w, s, t, a, None)
      PROVE  Moved(w)
  BY <1>1, Assigned DEF Persist
<1>2. ASSUME NEW a \in Attempt, ResumeCheckout(w, a) \/ SyncAttempt(w, a)
      PROVE  Moved(w)
  <2>1. attempt[a].status = "NONE" => ~attempt[a].opened
    BY DEF LockInv, AttemptsAreFor
  <2> QED
    BY <1>1, <1>2, <2>1 DEF ResumeCheckout, SyncAttempt, Unresolved
<1>3. ASSUME NEW a \in Attempt, NEW r \in Reservation, BeginCheckout(w, r, a)
      PROVE  Moved(w)
  <2>0. Begins(r, a)
    BY <1>3, BeginCheckoutEffect
  <2>1. attempt'[a].status = "CREATING"
    BY <2>0 DEF Begins, IsAttempt
  <2>2. Assign(w, "create", "start", a, None)
    BY <1>3 DEF BeginCheckout
  <2> QED
    BY <2>1, <2>2, Assigned
<1>4. ASSUME NEW a \in Attempt, ProcessRefund(w, a)
      PROVE  Moved(w)
  <2> DEFINE v == [Idle EXCEPT !.step = "refund", !.att = a, !.seen = refund[a].status]
  <2>1. worker' = [worker EXCEPT ![w] = v] /\ refund[a].status \in UnresolvedRefund
    BY <1>4 DEF ProcessRefund
  <2>2. IsWorker(v, "refund", Idle.task, a, Idle.res, refund[a].status)
    <3>1. Idle \in WorkerRow /\ "refund" \in Step /\ refund[a].status \in Seen
      BY <2>1, IdleIsAWorker DEF IsWorker, Step, Seen, UnresolvedRefund, RefundStatus
    <3> QED
      BY <3>1, WorkerFields, Zenon DEF Task
  <2>3. v \in WorkerRow
    BY <2>2 DEF IsWorker
  <2> HIDE DEF v
  <2>4. Alone(w) /\ worker'[w] = v
    BY <2>1, <2>3, WorkerPut DEF LockInv, TypeOK
  <2>5. attempt[a].status # "NONE"
    BY <2>1 DEF LockInv, AttemptsAreFor, UnresolvedRefund
  <2> QED
    BY <2>1, <2>2, <2>4, <2>5 DEF Moved, Busy, IsWorker, Persist
<1>5. ASSUME NEW r \in Reservation, CancelCheckout(w, r)
      PROVE  Moved(w)
  <2>1. CASE Assign(w, "finish", "cancelled", None, r)
    BY <2>1, Assigned
  <2>2. ASSUME NEW a \in Attempt, attempt[a].status \in Unresolved,
               Assign(w, "create", "cancel", a, None) \/ Assign(w, "expire", "cancel", a, None)
        PROVE  Moved(w)
    BY <1>1, <2>2 DEF Unresolved
  <2> QED
    BY <1>5, <2>1, <2>2 DEF CancelCheckout, AttemptsOf, Unresolved
<1> QED
  BY <1>2, <1>3, <1>4, <1>5 DEF Take

\* A worker that is answered, or records an answer.
LEMMA WorkMoves ==
  ASSUME LockInv, Persist, session' \in [Attempt -> SessionState], payback' \in [Attempt -> PaybackState],
         NEW w \in Worker, Work(w)
  PROVE  Moved(w)
<1> DEFINE On == worker[w].step \notin {"idle", "finish", "release"}
<1>0. {"create", "opened", "fail", "created", "retrieve", "intent", "apply", "settled",
       "expire", "cancel", "refunded"} \subseteq Going
  BY DEF Going, Step
<1>1. CASE CreateAnswered(w)
  <2>1. On /\ GoWith(w, "opened", session'[Att(w)]) /\ session'[Att(w)] \in Seen
    BY <1>1, Working DEF CreateAnswered, At, Seen
  <2> QED
    BY <1>0, <2>1, GoesWith
<1>2. CASE CreateRefused(w) \/ CreateUnknown(w) \/ CreateFailed(w)
  BY <1>0, <1>2, Goes, Rests DEF CreateRefused, CreateUnknown, CreateFailed, At
<1>3. CASE RecordOpened(w)
  <2>1. On
    BY <1>3 DEF RecordOpened, At
  <2>2. CASE Rest(w)
    BY <2>2, Rests
  <2>3. CASE worker' = [worker EXCEPT ![w].step = "created", ![w].seen = "none",
                                      ![w].task = IF @ = "start" THEN "sync" ELSE @]
    <3> DEFINE t == IF worker[w].task = "start" THEN "sync" ELSE worker[w].task
               v == [worker[w] EXCEPT !.step = "created", !.seen = "none", !.task = t]
    <3>1. worker[w] \in WorkerRow /\ worker \in [Worker -> WorkerRow] /\ t \in Task
      BY DEF LockInv, TypeOK, WorkerRow, Task
    <3>2. worker' = [worker EXCEPT ![w] = v]
      BY <2>3, <3>1, ZenonT(60)
    <3> HIDE DEF t
    <3>3. IsWorker(v, "created", t, worker[w].att, worker[w].res, "none")
      <4>1. "created" \in Step /\ "none" \in Seen
        BY DEF Step, Seen, SessionState
      <4> QED
        BY <3>1, <4>1, WorkerFields, Zenon
    <3>4. v \in WorkerRow
      BY <3>3 DEF IsWorker
    <3> HIDE DEF v
    <3>5. Alone(w) /\ worker'[w] = v
      BY <3>1, <3>2, <3>4, WorkerPut
    <3> QED
      BY <1>0, <2>1, <3>3, <3>5, GoesOn DEF Att
  <2> QED
    BY <1>3, <2>2, <2>3 DEF RecordOpened
<1>4. CASE ReadAttempt(w)
  BY <1>0, <1>4, Goes, EndsSync DEF ReadAttempt, At
<1>5. CASE RetrieveSession(w) \/ RetrieveIntent(w)
  <2>1. On /\ session[Att(w)] \in Seen /\ worker[w].seen \in Seen /\ "unpaid" \in Seen
    BY <1>5, Working DEF RetrieveSession, RetrieveIntent, At, Seen, LockInv, TypeOK, WorkerRow, SessionState
  <2> QED
    BY <1>0, <1>5, <2>1, GoesWith DEF RetrieveSession, RetrieveIntent
<1>6. CASE ApplyExpired(w) \/ ApplyUnpaid(w) \/ ApplyWaiting(w) \/ PaidAlready(w)
           \/ PaidBooked(w) \/ PaidUnfulfilled(w)
  <2>1. On /\ Go(w, "settled")
    BY <1>6 DEF ApplyExpired, ApplyUnpaid, ApplyWaiting, PaidAlready, PaidBooked, PaidUnfulfilled, At
  <2> QED
    BY <1>0, <2>1, Goes
<1>7. CASE PaidCollides(w)
  BY <1>7, Rests DEF PaidCollides
<1>8. CASE Settle(w)
  <2>1. On
    BY <1>8 DEF Settle, At
  <2>2. CASE refund[Att(w)].status \in UnresolvedRefund /\ GoWith(w, "refund", refund[Att(w)].status)
    <3>1. "refund" \in Step /\ refund[Att(w)].status \in Seen /\ worker \in [Worker -> WorkerRow]
      BY <2>2 DEF Step, Seen, UnresolvedRefund, RefundStatus, LockInv, TypeOK
    <3>2. Alone(w) /\ IsWorker(worker'[w], "refund", worker[w].task, worker[w].att,
                               worker[w].res, refund[Att(w)].status)
      BY <2>2, <3>1, GoWithDoes
    <3> QED
      BY <2>1, <2>2, <3>2, Working DEF Moved, Busy, IsWorker, Persist, Att, Row
  <2> QED
    BY <1>8, <2>1, <2>2, EndsSync DEF Settle
<1>9. CASE RefundAnswered(w)
  <2>1. On /\ GoWith(w, "refunded", payback'[Att(w)]) /\ payback'[Att(w)] \in Seen
    BY <1>9, Working DEF RefundAnswered, At, Seen
  <2> QED
    BY <1>0, <2>1, GoesWith
<1>10. CASE RefundRefused(w)
  <2>1. On /\ GoWith(w, "refundError", "FAILED")
    BY <1>10 DEF RefundRefused, At
  <2>2. "refundError" \in Step /\ "FAILED" \in Seen /\ worker \in [Worker -> WorkerRow]
    BY DEF Step, Seen, RefundStatus, LockInv, TypeOK
  <2>3. Alone(w) /\ IsWorker(worker'[w], "refundError", worker[w].task, worker[w].att,
                             worker[w].res, "FAILED")
    BY <2>1, <2>2, GoWithDoes
  <2> QED
    BY <2>1, <2>3, Working DEF Moved, Busy, IsWorker, Persist, Att, Row
<1>11. CASE RecordRefund(w) \/ RecordRefundError(w)
  BY <1>11, EndsSync DEF RecordRefund, RecordRefundError, At
<1>12. CASE ExpireAnswered(w)
  BY <1>0, <1>12, Goes DEF ExpireAnswered, At
<1>13. CASE ExpireRefused(w)
  <2> DEFINE v == [worker[w] EXCEPT !.step = "created", !.task = "cancelled"]
  <2>1. On /\ worker \in [Worker -> WorkerRow] /\ worker[w] \in WorkerRow
    BY <1>13 DEF ExpireRefused, At, LockInv, TypeOK
  <2>2. worker' = [worker EXCEPT ![w] = v]
    <3>1. worker' = [worker EXCEPT ![w].step = "created", ![w].task = "cancelled"]
      BY <1>13 DEF ExpireRefused
    <3> QED
      BY <2>1, <3>1, Zenon
  <2>3. IsWorker(v, "created", "cancelled", worker[w].att, worker[w].res, worker[w].seen)
    <3>1. "created" \in Step /\ "cancelled" \in Task /\ "none" \in Seen
      BY DEF Step, Task, Seen, SessionState
    <3> QED
      BY <2>1, <3>1, WorkerFields, Zenon
  <2>4. v \in WorkerRow
    BY <2>3 DEF IsWorker
  <2> HIDE DEF v
  <2>5. Alone(w) /\ worker'[w] = v
    BY <2>1, <2>2, <2>4, WorkerPut
  <2> QED
    BY <1>0, <2>1, <2>3, <2>5, GoesOn DEF Att
<1>14. CASE CloseCanceled(w)
  <2>1. Assign(w, "finish", "cancelled", None, Row(w).res) /\ Row(w).res \in Reservation
    BY <1>14, Working DEF CloseCanceled, At
  <2> QED
    BY <2>1, Assigned DEF Task
<1>15. CASE FinishCancel(w)
  <2>1. CASE Rest(w)
    BY <2>1, Rests
  <2>2. CASE Go(w, "release")
    <3>1. "release" \in Step /\ worker[w].res \in Reservation /\ worker \in [Worker -> WorkerRow]
      BY <1>15 DEF Step, FinishCancel, At, LockInv, Busy, TypeOK
    <3>2. Alone(w) /\ IsWorker(worker'[w], "release", worker[w].task, worker[w].att,
                               worker[w].res, "none")
      BY <2>2, <3>1, GoDoes
    <3> QED
      BY <3>1, <3>2 DEF Moved, Busy, IsWorker
  <2> QED
    BY <1>15, <2>1, <2>2 DEF FinishCancel
<1>16. CASE ReleaseCancelled(w)
  BY <1>16, Rests DEF ReleaseCancelled
<1> QED
  BY <1>1, <1>2, <1>3, <1>4, <1>5, <1>6, <1>7, <1>8, <1>9, <1>10, <1>11, <1>12, <1>13, <1>14,
     <1>15, <1>16 DEF Work

\* A worker whose call goes unanswered, or that stops.
LEMMA FailMoves ==
  ASSUME LockInv, Persist, NEW w \in Worker, Fail(w)
  PROVE  Moved(w)
<1>1. CASE RetrieveFailed(w)
  BY <1>1, EndsSync DEF RetrieveFailed
<1>2. CASE RefundUnknown(w)
  <2>1. /\ At(w, "refund") /\ GoWith(w, "refundError", worker[w].seen)
        /\ worker[w].seen \in UnresolvedRefund
    BY <1>2 DEF RefundUnknown, At, LockInv, Busy
  <2>2. "refundError" \in Step /\ worker[w].seen \in Seen /\ worker \in [Worker -> WorkerRow]
    BY <2>1 DEF Step, Seen, RefundStatus, UnresolvedRefund, LockInv, TypeOK
  <2>3. Alone(w) /\ IsWorker(worker'[w], "refundError", worker[w].task, worker[w].att,
                             worker[w].res, worker[w].seen)
    BY <2>1, <2>2, GoWithDoes
  <2> QED
    BY <2>1, <2>3, Working DEF Moved, Busy, IsWorker, Persist, Att, Row, At
<1>3. CASE ExpireUnknown(w) \/ Stop(w)
  BY <1>3, Rests DEF ExpireUnknown, Stop
<1> QED
  BY <1>1, <1>2, <1>3 DEF Fail

\* The invariant is kept, and the reservations move as trusted operations move
\* them.
LEMMA LockStep ==
  ASSUME LockInv, [Next]_vars
  PROVE  LockInv' /\ [HoldNext]_holdVars /\ Effect
<1>1. Effect /\ DbStep
  BY Effects, EffectStep
<1>2. session' \in [Attempt -> SessionState] /\ payback' \in [Attempt -> PaybackState]
  BY StripeTypes
<1>3. UNCHANGED worker \/ \E w \in Worker : Moved(w)
  <2>1. ASSUME NEW w \in Worker, Take(w) \/ Work(w) \/ Fail(w)
        PROVE  Moved(w)
    BY <1>1, <1>2, <2>1, TakeMoves, WorkMoves, FailMoves DEF DbStep
  <2>2. ASSUME NEW a \in Attempt, Stripe(a)
        PROVE  UNCHANGED worker
    BY <2>2 DEF Stripe, Pay, PayDelayed, DelayedEnds, SessionExpires, RefundEnds
  <2>3. ASSUME NEW r \in Reservation, ReleaseStall(r) \/ ConfirmFree(r)
        PROVE  UNCHANGED worker
    BY <2>3 DEF ReleaseStall, ConfirmFree
  <2>4. AcquireStall \/ ExpireStalls \/ TimePasses => UNCHANGED worker
    BY DEF AcquireStall, ExpireStalls, TimePasses
  <2>5. UNCHANGED vars => UNCHANGED worker
    BY DEF vars
  <2> QED
    BY <2>1, <2>2, <2>3, <2>4, <2>5 DEF Next
<1>4. worker' \in [Worker -> WorkerRow] /\ \A w \in Worker : Busy(worker[w])'
  BY <1>1, <1>3, BusyStays DEF DbStep
<1>5. TypeOK'
  BY <1>1, <1>2, <1>4 DEF DbStep, DbTypeOK, TypeOK
<1> QED
  BY <1>1, <1>4, <1>5 DEF DbStep, LockInv

\* Nothing is locked at first.
LEMMA LockInit ==
  ASSUME Init
  PROVE  LockInv
<1>1. HoldTypeOK
  BY HoldAssumption DEF Init, HoldInit, HoldTypeOK, HoldRow, HoldStatus, NoHold
<1>2. /\ attempt \in [Attempt -> AttemptRow]
      /\ \A a \in Attempt : attempt[a].status = "NONE" /\ attempt[a].res = None /\ ~attempt[a].opened
  BY NoAttemptIsAnAttempt DEF Init, IsAttempt
<1>3. /\ refund \in [Attempt -> RefundRow] /\ \A a \in Attempt : refund[a].status = "NONE"
      /\ booking \in [Reservation -> Attempt \cup {None, Free}]
      /\ session \in [Attempt -> SessionState] /\ payback \in [Attempt -> PaybackState]
  BY DEF Init, NoRefund, RefundRow, RefundStatus, SessionState, PaybackState
<1>4. worker \in [Worker -> WorkerRow] /\ \A w \in Worker : worker[w].step = "idle"
  BY IdleIsAWorker DEF Init, IsWorker
<1>5. \A r \in Reservation : ~hold[r].pending
  BY DEF Init, HoldInit, NoHold
<1>6. TypeOK
  BY <1>1, <1>2, <1>3, <1>4 DEF TypeOK
<1>7. \A w \in Worker : Busy(worker[w])
  BY <1>4 DEF Busy
<1>8. AttemptsAreFor
  BY <1>2, <1>3 DEF AttemptsAreFor
<1>9. OneLiveAttempt /\ PendingIffUnresolved
  BY <1>2, <1>5 DEF OneLiveAttempt, PendingIffUnresolved, AttemptsOf, Live, Unresolved
<1> QED
  BY <1>6, <1>7, <1>8, <1>9 DEF LockInv

\* The locks' invariant.
LEMMA LocksInvariant == Spec => []LockInv
<1>1. Init => LockInv
  BY LockInit
<1>2. LockInv /\ [Next]_vars => LockInv'
  BY LockStep
<1> QED
  BY <1>1, <1>2, PTL DEF Spec

-----------------------------------------------------------------------------
(* Theorems *)

\* Whatever fails or interleaves, every row of payments and reservations, what
\* Stripe keeps and what each worker is doing stay well formed.
THEOREM CheckoutTypes == Spec => []TypeOK
<1>1. LockInv => TypeOK
  BY DEF LockInv
<1> QED
  BY <1>1, LocksInvariant, PTL

\* payments/services.py sets and clears a reservation's payment lock exactly
\* with its attempts: a hold waits for a payment while, and only while, one of
\* its attempts is CREATING or OPEN.
THEOREM LocksFollowAttempts == Spec => []PendingIffUnresolved
<1>1. LockInv => PendingIffUnresolved
  BY DEF LockInv
<1> QED
  BY <1>1, LocksInvariant, PTL

\* What payments does to the reservations is always one of the operations
\* reservations/services.py trusts its callers with, called as it expects, so
\* what is proved of the reservations alone holds of them here.
THEOREM PaymentsUseHolds == Spec => HoldSpec
<1>1. Init => HoldInit
  BY DEF Init
<1>2. LockInv /\ [Next]_vars => [HoldNext]_holdVars
  BY LockStep
<1> QED
  BY <1>1, <1>2, LocksInvariant, PTL DEF Spec, HoldSpec

\* No two stalls of one date and business, and no two businesses in one stall,
\* whatever checkouts do.
THEOREM SoldStallsAreExclusive == Spec => [](OneOccupantPerStall /\ OneStallPerBusiness)
  BY PaymentsUseHolds, StallsAreExclusive, BusinessesHaveOneStall, PTL

\* No handler, webhook or reconcile pass of payments/services.py brings an
\* ended attempt back to life, or changes it at all, except that a payment
\* Stripe reports for it is recorded as one without a stall.
THEOREM AttemptsEndOnce == Spec => EndedAttemptsStay
<1> DEFINE Stay == \A a \in Attempt :
      attempt[a].status \in {"SUCCEEDED", "FAILED"} \cup Closed =>
        \/ attempt'[a] = attempt[a]
        \/ /\ attempt[a].status # "SUCCEEDED"
           /\ attempt'[a].status = "SUCCEEDED"
           /\ attempt'[a].fulfillment = "UNFULFILLED"
<1>1. LockInv /\ [Next]_vars => Stay
  <2> SUFFICES ASSUME Effect, NEW a \in Attempt,
                      attempt[a].status \in {"SUCCEEDED", "FAILED", "EXPIRED", "CANCELED"}
               PROVE  \/ attempt'[a] = attempt[a]
                      \/ /\ attempt[a].status # "SUCCEEDED"
                         /\ attempt'[a].status = "SUCCEEDED"
                         /\ attempt'[a].fulfillment = "UNFULFILLED"
    BY LockStep DEF Closed
  <2>1. CASE UNCHANGED attempt
    BY <2>1
  <2>2. ASSUME NEW b \in Attempt, NEW r \in Reservation, Begins(r, b)
        PROVE  attempt'[a] = attempt[a]
    BY <2>2 DEF Begins, Only
  <2>3. ASSUME NEW b \in Attempt, Opens(b) \/ Books(b) \/ \E s \in {"FAILED", "EXPIRED", "CANCELED"} : Closes(b, s)
        PROVE  attempt'[a] = attempt[a]
    BY <2>3 DEF Opens, Books, Closes, Only, Unresolved
  <2>4. ASSUME NEW b \in Attempt, Falls(b)
        PROVE  \/ attempt'[a] = attempt[a]
               \/ /\ attempt[a].status # "SUCCEEDED"
                  /\ attempt'[a].status = "SUCCEEDED"
                  /\ attempt'[a].fulfillment = "UNFULFILLED"
    BY <2>4 DEF Falls, Only, IsAttempt
  <2> QED
    BY <2>1, <2>2, <2>3, <2>4 DEF Effect, Nothing, Locks, Holds, Frees, Repays, dbVars
<1>2. Stay => [Stay]_vars
  OBVIOUS
<1> QED
  BY <1>1, LocksInvariant, PTL DEF Spec, EndedAttemptsStay
-----------------------------------------------------------------------------
(* The invariant of the money.  What holds only of a Stripe that never reports
   an expired session as paid, and keeps refusing a key it refused, says so. *)

\* What the two assumptions say of Stripe.
Sound == RefusalIsFinal /\ ~LatePayment

\* The session can no longer be paid.
NeverPaid(a) ==
  \/ session[a] \in {"expired", "unpaid", "refused"}
  \/ session[a] = "none" /\ now >= attempt[a].expires

\* The attempt's row, booking, refund and Stripe's payment agree.
AttemptMoney(a) ==
  /\ attempt[a].status = "SUCCEEDED" <=> attempt[a].fulfillment # ""
  /\ attempt[a].status = "SUCCEEDED" => session[a] = "paid"
  /\ attempt[a].fulfillment = "FULFILLED" => booking[attempt[a].res] = a
  /\ attempt[a].fulfillment = "UNFULFILLED" => refund[a].status # "NONE"
  /\ attempt[a].fulfillment # "UNFULFILLED" => refund[a] = NoRefund /\ payback[a] = "none"
  /\ refund[a].status = "SUCCEEDED" => payback[a] = "succeeded"

\* The attempt's row and Stripe's session agree.
AttemptSession(a) ==
  /\ attempt[a].status = "CREATING" => ~attempt[a].opened
  /\ attempt[a].status = "OPEN" => attempt[a].opened
  /\ attempt[a].opened => session[a] \notin {"none", "refused"}
  /\ session[a] \in {"settling", "paid", "unpaid"} => attempt[a].opened
  /\ session[a] = "open" => now < attempt[a].expires + AbandonAfter
  /\ Sound /\ attempt[a].status \in {"EXPIRED", "CANCELED", "FAILED"} => NeverPaid(a)

\* A stall is confirmed with its booking, which a payment stands for.
Booked(r) ==
  /\ booking[r] # None <=> hold[r].status = "CONFIRMED"
  /\ booking[r] = Free => hold[r].price = 0
  /\ booking[r] \in Attempt =>
       attempt[booking[r]].res = r /\ attempt[booking[r]].fulfillment = "FULFILLED"

\* What a worker was told still holds when it acts on it.
Knows(v) ==
  /\ v.step = "create" /\ Abandoned(v.att) =>
       (Sound => session[v.att] \in {"none", "expired", "refused"})
  /\ v.step = "opened" => session[v.att] \notin {"none", "refused"}
  /\ v.step = "fail" => (Sound => NeverPaid(v.att))
  /\ v.step \in {"intent", "apply"} =>
       /\ v.seen \in {"paid", "unpaid"} => session[v.att] = v.seen
       /\ v.seen = "expired" => (Sound => session[v.att] = "expired")
  /\ v.step = "cancel" => (Sound => session[v.att] = "expired")
  /\ v.step \in {"refund", "refunded", "refundError"} =>
       attempt[v.att].fulfillment = "UNFULFILLED"
  /\ v.step = "refunded" /\ v.seen = "succeeded" => payback[v.att] = "succeeded"

\* The inductive invariant of the money.
MoneyInv ==
  /\ LockInv
  /\ \A a \in Attempt : AttemptMoney(a) /\ AttemptSession(a)
  /\ \A r \in Reservation : Booked(r)
  /\ \A w \in Worker : Knows(worker[w])

\* What the answers of Stripe, the vendor and time can do to a session, and to
\* a refund.
SessionMove(a) ==
  \/ session'[a] = session[a]
  \/ session[a] = "none" /\ now < attempt[a].expires /\ session'[a] = "open"
  \/ session[a] \in {"none", "refused"} /\ RefusalIsFinal /\ session'[a] = "refused"
  \/ session[a] = "open" /\ session'[a] = "expired"
  \/ /\ attempt[a].opened
     /\ session[a] = "open" \/ (LatePayment /\ session[a] = "expired")
     /\ session'[a] = "paid"
  \/ attempt[a].opened /\ session[a] = "open" /\ session'[a] = "settling"
  \/ session[a] = "settling" /\ session'[a] \in {"paid", "unpaid"}

\* Stripe settles a refund it was asked for.
PaybackMove(a) ==
  \/ payback'[a] = payback[a]
  \/ /\ attempt[a].fulfillment = "UNFULFILLED"
     /\ payback[a] \in {"none", "refused"}
     /\ payback'[a] \in {"pending", "succeeded", "refused"}
  \/ payback[a] = "pending" /\ payback'[a] \in {"succeeded", "failed", "canceled"}

\* What Stripe's side does in one step.
StripeMove ==
  /\ session' \in [Attempt -> SessionState] /\ payback' \in [Attempt -> PaybackState]
  /\ \A a \in Attempt : SessionMove(a) /\ PaybackMove(a)
  /\ \/ UNCHANGED stripeVars
     \/ \E a \in Attempt : \A b \in Attempt : b # a => session'[b] = session[b] /\ payback'[b] = payback[b]

\* While Stripe's side changes, the database does not.
LEMMA StripeMoves ==
  ASSUME MoneyInv, [Next]_vars
  PROVE  StripeMove /\ (UNCHANGED stripeVars \/ Nothing)
<1>0. /\ session' \in [Attempt -> SessionState] /\ payback' \in [Attempt -> PaybackState]
      /\ session \in [Attempt -> SessionState] /\ payback \in [Attempt -> PaybackState]
  BY StripeTypes DEF MoneyInv, LockInv, TypeOK
<1> DEFINE Put(a, s) == session' = [session EXCEPT ![a] = s] /\ UNCHANGED <<now, dbVars, payback>>
           Pays(a, s) == payback' = [payback EXCEPT ![a] = s] /\ UNCHANGED <<now, dbVars, session>>
           Good == StripeMove /\ (UNCHANGED stripeVars \/ Nothing)
<1>1. UNCHANGED stripeVars => Good
  BY <1>0 DEF StripeMove, SessionMove, PaybackMove, stripeVars
<1>2. ASSUME NEW a \in Attempt, NEW s, Put(a, s), session'[a] = s => SessionMove(a)
      PROVE  Good
  <2>1. session'[a] = s /\ (\A b \in Attempt : b # a => session'[b] = session[b])
        /\ UNCHANGED payback /\ Nothing
    BY <1>0, <1>2 DEF Nothing
  <2> QED
    BY <1>0, <1>2, <2>1 DEF StripeMove, SessionMove, PaybackMove
<1>3. ASSUME NEW a \in Attempt, NEW s, Pays(a, s), payback'[a] = s => PaybackMove(a)
      PROVE  Good
  <2>1. payback'[a] = s /\ (\A b \in Attempt : b # a => payback'[b] = payback[b])
        /\ UNCHANGED session /\ Nothing
    BY <1>0, <1>3 DEF Nothing
  <2> QED
    BY <1>0, <1>3, <2>1 DEF StripeMove, SessionMove, PaybackMove
<1>4. ASSUME NEW w \in Worker, Work(w) \/ Fail(w)
      PROVE  Good
  <2> DEFINE a == Att(w)
  <2>1. worker[w].step \in {"create", "refund", "expire"} => a \in Attempt
    BY Working DEF MoneyInv
  <2>2. worker[w].step = "refund" => attempt[a].fulfillment = "UNFULFILLED"
    BY DEF MoneyInv, Knows, Att
  <2>3. CASE CreateAnswered(w) \/ (CreateUnknown(w) /\ session' # session)
    <3>1. /\ a \in Attempt /\ Creates(a) /\ session' = AfterCreate(a)
          /\ UNCHANGED <<now, dbVars, payback>>
      BY <2>1, <2>3 DEF CreateAnswered, CreateUnknown, At
    <3>2. CASE session[a] = "none"
      <4>1. Put(a, "open") /\ now < attempt[a].expires
        BY <3>1, <3>2 DEF AfterCreate, Creates
      <4> QED
        BY <1>2, <3>1, <3>2, <4>1 DEF SessionMove
    <3>3. CASE session[a] # "none"
      BY <1>1, <3>1, <3>3 DEF AfterCreate, stripeVars
    <3> QED
      BY <3>2, <3>3
  <2>4. CASE CreateRefused(w)
    <3>1. CASE RefusalIsFinal
      <4>1. Put(a, "refused") /\ session[a] \in {"none", "refused"} /\ a \in Attempt
        BY <2>1, <2>4, <3>1, Zenon DEF CreateRefused, At
      <4> QED
        BY <1>2, <3>1, <4>1 DEF SessionMove
    <3>2. CASE ~RefusalIsFinal
      BY <1>1, <2>4, <3>2 DEF CreateRefused, stripeVars
    <3> QED
      BY <3>1, <3>2
  <2>5. CASE ExpireAnswered(w) \/ ExpireUnknown(w)
    <3>1. Put(a, "expired") /\ session[a] = "open" /\ a \in Attempt
      BY <2>1, <2>5 DEF ExpireAnswered, ExpireUnknown, At
    <3> QED
      BY <1>2, <3>1 DEF SessionMove
  <2>6. CASE RefundAnswered(w) \/ (RefundUnknown(w) /\ payback' # payback)
    <3>1. /\ a \in Attempt /\ Refunds(a) /\ payback' \in AfterRefund(a)
          /\ UNCHANGED <<now, dbVars, session>> /\ attempt[a].fulfillment = "UNFULFILLED"
      BY <2>1, <2>2, <2>6 DEF RefundAnswered, RefundUnknown, At
    <3>2. CASE payback[a] = "none"
      <4>1. \E s \in {"pending", "succeeded"} : Pays(a, s)
        BY <3>1, <3>2, Zenon DEF AfterRefund
      <4> QED
        BY <1>3, <3>1, <3>2, <4>1 DEF PaybackMove
    <3>3. CASE payback[a] # "none"
      BY <1>1, <3>1, <3>3 DEF AfterRefund, stripeVars
    <3> QED
      BY <3>2, <3>3
  <2>7. CASE RefundRefused(w)
    <3>1. CASE RefusalIsFinal
      <4>1. /\ Pays(a, "refused") /\ payback[a] \in {"none", "refused"} /\ a \in Attempt
            /\ attempt[a].fulfillment = "UNFULFILLED"
        BY <2>1, <2>2, <2>7, <3>1, Zenon DEF RefundRefused, At
      <4> QED
        BY <1>3, <4>1 DEF PaybackMove
    <3>2. CASE ~RefusalIsFinal
      BY <1>1, <2>7, <3>2 DEF RefundRefused, stripeVars
    <3> QED
      BY <3>1, <3>2
  <2>8. CASE CreateUnknown(w) /\ session' = session
    BY <1>1, <2>8 DEF CreateUnknown, stripeVars
  <2>9. CASE RefundUnknown(w) /\ payback' = payback
    BY <1>1, <2>9 DEF RefundUnknown, stripeVars
  <2>10. CASE \/ RecordOpened(w) \/ CreateFailed(w) \/ ReadAttempt(w)
              \/ RetrieveSession(w) \/ RetrieveIntent(w)
              \/ ApplyExpired(w) \/ ApplyUnpaid(w) \/ ApplyWaiting(w)
              \/ PaidAlready(w) \/ PaidBooked(w) \/ PaidUnfulfilled(w) \/ PaidCollides(w)
              \/ Settle(w) \/ RecordRefund(w) \/ RecordRefundError(w)
              \/ ExpireRefused(w) \/ CloseCanceled(w) \/ FinishCancel(w) \/ ReleaseCancelled(w)
              \/ RetrieveFailed(w) \/ Stop(w)
    <3>1. UNCHANGED stripeVars
      BY <2>10 DEF RecordOpened, CreateFailed, ReadAttempt, RetrieveSession, RetrieveIntent,
         ApplyExpired, ApplyUnpaid, ApplyWaiting, PaidAlready, PaidBooked, PaidUnfulfilled,
         PaidCollides, Settle, RecordRefund, RecordRefundError, ExpireRefused, CloseCanceled,
         FinishCancel, ReleaseCancelled, RetrieveFailed, Stop, stripeVars
    <3> QED
      BY <1>1, <3>1
  <2> QED
    BY <1>4, <2>3, <2>4, <2>5, <2>6, <2>7, <2>8, <2>9, <2>10 DEF Work, Fail
<1>5. ASSUME NEW a \in Attempt, Stripe(a)
      PROVE  Good
  <2>1. CASE Pay(a)
    <3>1. /\ Put(a, "paid") /\ attempt[a].opened
          /\ session[a] = "open" \/ (LatePayment /\ session[a] = "expired")
      BY <2>1, Zenon DEF Pay
    <3> QED
      BY <1>2, <3>1 DEF SessionMove
  <2>2. CASE PayDelayed(a)
    BY <1>2, <2>2 DEF PayDelayed, SessionMove
  <2>3. CASE DelayedEnds(a)
    <3>1. session[a] = "settling" /\ \E s \in {"paid", "unpaid"} : Put(a, s)
      BY <2>3, Zenon DEF DelayedEnds
    <3> QED
      BY <1>2, <3>1 DEF SessionMove
  <2>4. CASE SessionExpires(a)
    BY <1>2, <2>4 DEF SessionExpires, SessionMove
  <2>5. CASE RefundEnds(a)
    <3>1. payback[a] = "pending" /\ \E s \in {"succeeded", "failed", "canceled"} : Pays(a, s)
      BY <2>5, Zenon DEF RefundEnds
    <3> QED
      BY <1>3, <3>1 DEF PaybackMove
  <2> QED
    BY <1>5, <2>1, <2>2, <2>3, <2>4, <2>5 DEF Stripe
<1>6. ASSUME NEW w \in Worker, Take(w)
      PROVE  UNCHANGED stripeVars
  BY <1>6 DEF Take, ResumeCheckout, BeginCheckout, SyncAttempt, ProcessRefund, CancelCheckout, stripeVars
<1>7. ASSUME NEW r \in Reservation, ReleaseStall(r) \/ ConfirmFree(r)
      PROVE  UNCHANGED stripeVars
  BY <1>7 DEF ReleaseStall, ConfirmFree, stripeVars
<1>8. AcquireStall \/ ExpireStalls \/ TimePasses \/ UNCHANGED vars => UNCHANGED stripeVars
  BY DEF AcquireStall, ExpireStalls, TimePasses, stripeVars, vars
<1> HIDE DEF Good
<1>9. Good
  BY <1>1, <1>4, <1>5, <1>6, <1>7, <1>8 DEF Next
<1> QED
  BY <1>9 DEF Good

\* No reservation of the named attempt changes for nothing: each effect, with
\* what the worker that has it knows.
Timely ==
  \A a \in Attempt :
    session[a] = "open" \/ (\E w \in Worker : At(w, "create") /\ Att(w) = a)
      => now' = now \/ now' < attempt[a].expires + AbandonAfter

\* The effects, each with what made the step take it.
Cause ==
  \/ Nothing \/ Locks
  \/ Holds /\ Timely
  \/ \E r \in Reservation : Frees(r)
  \/ \E a \in Attempt : \E r \in Reservation : Begins(r, a)
  \/ \E a \in Attempt : Opens(a) /\ session[a] \notin {"none", "refused"}
  \/ \E a \in Attempt : (Books(a) \/ Falls(a)) /\ session[a] = "paid"
  \/ \E a \in Attempt :
       /\ Repays(a)
       /\ attempt[a].fulfillment = "UNFULFILLED"
       /\ refund'[a].status # "NONE"
       /\ refund'[a].status = "SUCCEEDED" => payback[a] = "succeeded"
  \/ \E a \in Attempt, s \in {"FAILED", "EXPIRED", "CANCELED"} :
       Closes(a, s) /\ (Sound => NeverPaid(a))

\* Every step has a cause: what its worker was told is still so.
LEMMA Causes ==
  ASSUME MoneyInv, [Next]_vars
  PROVE  Cause
<1> USE DEF Cause
<1>0. LockInv
  BY DEF MoneyInv
<1>1. ASSUME NEW w \in Worker, Take(w)
      PROVE  Cause
  BY <1>0, <1>1, BeginCheckoutEffect
     DEF Take, ResumeCheckout, SyncAttempt, ProcessRefund, CancelCheckout, Locks, Nothing
<1>2. ASSUME NEW w \in Worker, Work(w)
      PROVE  Cause
  <2> DEFINE a == Att(w)
  <2>0. Knows(worker[w]) /\ a = worker[w].att
    BY DEF MoneyInv, Att
  <2>1. CASE \/ CreateAnswered(w) \/ CreateRefused(w) \/ CreateUnknown(w) \/ ReadAttempt(w)
             \/ RetrieveSession(w) \/ RetrieveIntent(w) \/ ApplyWaiting(w) \/ PaidCollides(w)
             \/ Settle(w) \/ RefundAnswered(w) \/ RefundRefused(w) \/ ExpireAnswered(w)
             \/ ExpireRefused(w) \/ FinishCancel(w)
    BY <2>1 DEF CreateAnswered, CreateRefused, CreateUnknown, ReadAttempt, RetrieveSession,
       RetrieveIntent, ApplyWaiting, PaidCollides, Settle, RefundAnswered, RefundRefused,
       ExpireAnswered, ExpireRefused, FinishCancel, Nothing
  <2>2. CASE RecordOpened(w)
    <3>1. a \in Attempt /\ session[a] \notin {"none", "refused"}
      BY <1>0, <2>0, <2>2, Working DEF RecordOpened, At, Knows
    <3> QED
      BY <1>0, <2>2, <3>1, RecordOpenedEffect
  <2>3. CASE CreateFailed(w) \/ ApplyExpired(w) \/ ApplyUnpaid(w) \/ CloseCanceled(w)
    <3>1. a \in Attempt /\ (Sound => NeverPaid(a))
      BY <1>0, <2>0, <2>3, Working
         DEF CreateFailed, ApplyExpired, ApplyUnpaid, CloseCanceled, At, Knows, NeverPaid
    <3>2. Locks \/ \E s \in {"FAILED", "EXPIRED", "CANCELED"} : Closes(a, s)
      BY <1>0, <2>3, CloseEffect DEF CreateFailed, ApplyExpired, ApplyUnpaid, CloseCanceled, At
    <3> QED
      BY <3>1, <3>2
  <2>4. CASE PaidAlready(w)
    BY <2>4 DEF PaidAlready, Locks
  <2>5. CASE PaidBooked(w) \/ PaidUnfulfilled(w)
    <3>1. a \in Attempt /\ session[a] = "paid"
      BY <1>0, <2>0, <2>5, Working DEF PaidBooked, PaidUnfulfilled, At, Knows
    <3> QED
      BY <1>0, <2>5, <3>1, PaidEffect
  <2>6. CASE RecordRefund(w) \/ RecordRefundError(w)
    <3>1. a \in Attempt /\ attempt[a].fulfillment = "UNFULFILLED" /\ AttemptMoney(a)
      BY <1>0, <2>0, <2>6, Working DEF RecordRefund, RecordRefundError, At, Knows, MoneyInv
    <3>2. Repays(a)
      BY <1>0, <2>6, RefundEffect
    <3>3. /\ refund'[a].status # "NONE"
          /\ refund'[a].status = "SUCCEEDED" => payback[a] = "succeeded"
      <4>1. CASE RecordRefundError(w)
        <5>1. worker[w].seen \in {"REQUESTED", "PENDING", "FAILED"}
          BY <1>0, <4>1 DEF LockInv, Busy, UnresolvedRefund, RecordRefundError, At
        <5>2. refund'[a].status = worker[w].seen
          BY <1>0, <4>1, RefundEffect
        <5> QED
          BY <5>1, <5>2
      <4>2. CASE RecordRefund(w) /\ refund[a].status \notin UnresolvedRefund
        <5>1. refund'[a] = refund[a]
          BY <1>0, <4>2, RefundEffect
        <5> QED
          BY <3>1, <5>1 DEF AttemptMoney
      <4>3. CASE RecordRefund(w) /\ refund[a].status \in UnresolvedRefund
        <5>1. refund'[a].status = RecordedAs(worker[w].seen)
          <6>1. refund'[a] = [status |-> RecordedAs(worker[w].seen), known |-> TRUE]
            BY <1>0, <4>3, RefundEffect
          <6> QED
            BY <6>1
        <5>2. worker[w].seen = "succeeded" => payback[a] = "succeeded"
          BY <2>0, <4>3 DEF RecordRefund, At, Knows
        <5> QED
          BY <5>1, <5>2 DEF RecordedAs
      <4> QED
        BY <2>6, <4>1, <4>2, <4>3
    <3> QED
      BY <3>1, <3>2, <3>3
  <2>7. CASE ReleaseCancelled(w)
    <3>1. ReleaseCancelled(w) => Nothing \/ (Holds /\ now' = now)
      BY <1>0, ReleaseEffect DEF ReleaseCancelled, ReleaseHold, holdVars
    <3> QED
      BY <2>7, <3>1 DEF Timely
  <2> QED
    BY <1>2, <2>1, <2>2, <2>3, <2>4, <2>5, <2>6, <2>7 DEF Work
<1>3. ASSUME NEW w \in Worker, Fail(w)
      PROVE  Cause
  BY <1>3 DEF Fail, RetrieveFailed, RefundUnknown, ExpireUnknown, Stop, Nothing
<1>4. ASSUME NEW a \in Attempt, Stripe(a)
      PROVE  Cause
  BY <1>4 DEF Stripe, Pay, PayDelayed, DelayedEnds, SessionExpires, RefundEnds, Nothing
<1>5. ASSUME NEW r \in Reservation, ReleaseStall(r) \/ ConfirmFree(r)
      PROVE  Cause
  <2>1. CASE ReleaseStall(r)
    BY <2>1 DEF ReleaseStall, Holds, Timely, ReleaseHold
  <2>2. CASE ConfirmFree(r)
    BY <2>2 DEF ConfirmFree, Frees
  <2> QED
    BY <1>5, <2>1, <2>2
<1>6. CASE AcquireStall \/ ExpireStalls
  BY <1>6 DEF AcquireStall, ExpireStalls, Holds, Timely, AcquireHold, ExpireHolds
<1>7. CASE TimePasses
  BY <1>7 DEF TimePasses, Holds, Timely
<1>8. CASE UNCHANGED vars
  BY <1>8 DEF vars, Nothing
<1> QED
  BY <1>1, <1>2, <1>3, <1>4, <1>5, <1>6, <1>7, <1>8 DEF Next

-----------------------------------------------------------------------------
(* The money's invariant is kept *)

\* An attempt, once made, keeps its reservation and expiry; once opened, once
\* paid, it stays so.
Keeps ==
  \A a \in Attempt :
    /\ attempt[a].status # "NONE" =>
         /\ attempt'[a].status # "NONE"
         /\ attempt'[a].res = attempt[a].res
         /\ attempt'[a].expires = attempt[a].expires
    /\ attempt[a].opened => attempt'[a].opened
    /\ attempt[a].status = "SUCCEEDED" => attempt'[a] = attempt[a]

\* No effect undoes that.
LEMMA AttemptsKeep ==
  ASSUME LockInv, Cause
  PROVE  Keeps
<1>0. \A a \in Attempt : attempt[a].status = "NONE" => ~attempt[a].opened
  BY DEF LockInv, AttemptsAreFor
<1>1. CASE UNCHANGED attempt
  BY <1>1 DEF Keeps
<1>2. ASSUME NEW a \in Attempt, NEW r \in Reservation, Begins(r, a)
      PROVE  Keeps
  BY <1>0, <1>2 DEF Begins, Only, Keeps
<1>3. ASSUME NEW a \in Attempt,
             Only(a), attempt[a].status \notin {"NONE", "SUCCEEDED"}, attempt'[a].status # "NONE",
             attempt'[a].res = attempt[a].res, attempt'[a].expires = attempt[a].expires,
             attempt[a].opened => attempt'[a].opened
      PROVE  Keeps
  BY <1>3 DEF Only, Keeps
<1>4. ASSUME NEW a \in Attempt, Opens(a) \/ Books(a) \/ Falls(a)
      PROVE  Keeps
  BY <1>3, <1>4 DEF Opens, Books, Falls, IsAttempt, Unresolved
<1>5. ASSUME NEW a \in Attempt, NEW s \in {"FAILED", "EXPIRED", "CANCELED"}, Closes(a, s)
      PROVE  Keeps
  BY <1>3, <1>5 DEF Closes, IsAttempt, Unresolved
<1> QED
  BY <1>1, <1>2, <1>4, <1>5 DEF Cause, Nothing, Locks, Holds, Frees, Repays, dbVars

\* Stripe's answers, with the database as it is.
LEMMA SessionMoneyStep ==
  ASSUME MoneyInv, StripeMove, Nothing
  PROVE  /\ \A a \in Attempt : (AttemptMoney(a) /\ AttemptSession(a))'
         /\ \A r \in Reservation : Booked(r)'
<1>0. UNCHANGED <<now, hold, attempt, booking, refund>>
  BY DEF Nothing, dbVars
<1>1. ASSUME NEW a \in Attempt
      PROVE  (AttemptMoney(a) /\ AttemptSession(a))'
  <2>1. AttemptMoney(a) /\ AttemptSession(a) /\ SessionMove(a) /\ PaybackMove(a)
    BY DEF MoneyInv, StripeMove
  <2>2. AttemptMoney(a)'
    BY <1>0, <2>1 DEF AttemptMoney, SessionMove, PaybackMove
  <2>3. now \in Nat /\ attempt[a].expires \in Nat /\ AbandonAfter \in Nat
        /\ attempt[a].opened \in BOOLEAN
    <3>1. AbandonAfter \in Nat /\ MaxTime \in Nat
      BY CheckoutAssumption, HoldAssumption
    <3>2. now \in 0..MaxTime /\ attempt[a] \in AttemptRow
      BY DEF MoneyInv, LockInv, TypeOK, HoldTypeOK
    <3>3. attempt[a].expires \in Nat /\ attempt[a].opened \in BOOLEAN
      BY <3>2 DEF AttemptRow
    <3> QED
      BY <3>1, <3>2, <3>3
  <2>4. now < attempt[a].expires => now < attempt[a].expires + AbandonAfter
    BY <2>3
  <2>5. NeverPaid(a) => attempt[a].opened \/ session[a] # "open"
    BY DEF NeverPaid
  <2>6. Sound /\ NeverPaid(a) => NeverPaid(a)'
    BY <1>0, <2>1, <2>3 DEF NeverPaid, SessionMove, Sound
  <2>7. AttemptSession(a)'
    BY <1>0, <2>1, <2>4, <2>6 DEF AttemptSession, SessionMove, Sound
  <2> QED
    BY <2>2, <2>7
<1>2. ASSUME NEW r \in Reservation
      PROVE  Booked(r)'
  BY <1>0 DEF MoneyInv, Booked
<1> QED
  BY <1>1, <1>2

\* Confirmed rows: what the operations of each effect do to them.
LEMMA ConfirmedRows ==
  ASSUME LockInv, NEW r \in Reservation
  PROVE  /\ LockedRows[r].status = "CONFIRMED" <=> hold[r].status = "CONFIRMED"
         /\ ~Lapsed(hold[r]) \/ hold[r].status = "HELD"
         /\ LockedRows[r].status = "HELD" => hold[r].status = "HELD"
         /\ \A q \in Reservation, u \in Nat :
              MarkPaymentPending(LockedRows, q, u)[r].status = "CONFIRMED" <=> hold[r].status = "CONFIRMED"
         /\ \A q \in Reservation, end \in BOOLEAN :
              ClearPaymentPending(LockedRows, q, end)[r].status = "CONFIRMED" <=> hold[r].status = "CONFIRMED"
         /\ \A q \in Reservation :
              /\ ConfirmLocked(LockedRows, q)[r].status = "CONFIRMED" <=> hold[r].status = "CONFIRMED" \/ q = r
              /\ ReleasedRows(LockedRows, q)[r].status = "CONFIRMED" <=> hold[r].status = "CONFIRMED"
<1>1. WellFormed(LockedRows) /\ \A q \in Reservation :
        LockedRows[q].status = hold[q].status
          \/ (hold[q].status = "HELD" /\ LockedRows[q].status = "EXPIRED")
  BY LockedRowsAre DEF LockInv, TypeOK
<1>2. /\ LockedRows[r].status = "CONFIRMED" <=> hold[r].status = "CONFIRMED"
      /\ LockedRows[r].status = "HELD" => hold[r].status = "HELD"
  BY <1>1
<1>3. ASSUME NEW q \in Reservation
      PROVE  /\ \A u \in Nat :
                  MarkPaymentPending(LockedRows, q, u)[r].status = "CONFIRMED" <=> hold[r].status = "CONFIRMED"
             /\ \A end \in BOOLEAN :
                  ClearPaymentPending(LockedRows, q, end)[r].status = "CONFIRMED" <=> hold[r].status = "CONFIRMED"
             /\ ConfirmLocked(LockedRows, q)[r].status = "CONFIRMED" <=> hold[r].status = "CONFIRMED" \/ q = r
             /\ ReleasedRows(LockedRows, q)[r].status = "CONFIRMED" <=> hold[r].status = "CONFIRMED"
  <2>1. CASE q = r
    BY <1>1, <1>2, <2>1, RowsAfter
  <2>2. CASE q # r
    BY <1>1, <1>2, <2>2, RowsAfter
  <2> QED
    BY <2>1, <2>2
<1> QED
  BY <1>2, <1>3 DEF Lapsed

\* A stall becomes confirmed only as its booking is written.
LEMMA ConfirmedStep ==
  ASSUME LockInv, Effect, NEW r \in Reservation
  PROVE  \/ /\ booking'[r] = booking[r]
            /\ hold'[r].status = "CONFIRMED" <=> hold[r].status = "CONFIRMED"
         \/ /\ Frees(r) /\ booking'[r] = Free /\ hold'[r].status = "CONFIRMED"
            /\ hold[r].status # "CONFIRMED"
         \/ /\ \E a \in Attempt : Books(a) /\ attempt[a].res = r /\ booking'[r] = a
            /\ hold'[r].status = "CONFIRMED" /\ hold[r].status # "CONFIRMED"
<1> DEFINE Kept == /\ booking'[r] = booking[r]
                   /\ hold'[r].status = "CONFIRMED" <=> hold[r].status = "CONFIRMED"
<1>0. booking \in [Reservation -> Attempt \cup {None, Free}]
  BY DEF LockInv, TypeOK
<1>1. CASE Nothing \/ Locks \/ \E a \in Attempt : Opens(a) \/ Repays(a)
  <2>1. (hold' = hold \/ hold' = LockedRows) /\ booking' = booking
    BY <1>1 DEF Nothing, dbVars, Locks, Opens, Repays
  <2>2. LockedRows[r].status = "CONFIRMED" <=> hold[r].status = "CONFIRMED"
    BY ConfirmedRows
  <2> QED
    BY <2>1, <2>2
<1>2. ASSUME NEW q \in Reservation, Frees(q)
      PROVE  Kept \/ (q = r /\ booking'[r] = Free /\ hold'[r].status = "CONFIRMED"
                        /\ hold[r].status # "CONFIRMED")
  BY <1>0, <1>2, ConfirmedRows DEF Frees
<1>3. ASSUME NEW a \in Attempt, NEW q \in Reservation, Begins(q, a)
      PROVE  Kept
  <2>1. now + SessionFor \in Nat
    BY CheckoutAssumption, HoldAssumption DEF LockInv, TypeOK, HoldTypeOK
  <2> QED
    BY <1>3, <2>1, ConfirmedRows DEF Begins
<1>4. ASSUME NEW a \in Attempt, NEW s \in {"FAILED", "EXPIRED", "CANCELED"}, Closes(a, s)
      PROVE  Kept
  <2>1. attempt[a].res \in Reservation
    BY <1>4 DEF Closes, Unresolved, LockInv, AttemptsAreFor
  <2> QED
    BY <1>4, <2>1, ConfirmedRows DEF Closes
<1>5. ASSUME NEW a \in Attempt, Falls(a)
      PROVE  Kept
  <2>1. attempt[a].res \in Reservation
    BY <1>5 DEF Falls, LockInv, AttemptsAreFor
  <2> QED
    BY <1>5, <2>1, ConfirmedRows DEF Falls
<1>6. ASSUME NEW a \in Attempt, Books(a)
      PROVE  Kept \/ (attempt[a].res = r /\ booking'[r] = a /\ hold'[r].status = "CONFIRMED"
                        /\ hold[r].status # "CONFIRMED")
  <2>1. attempt[a].res \in Reservation
    BY <1>6 DEF Books, Unresolved, LockInv, AttemptsAreFor
  <2> QED
    BY <1>0, <1>6, <2>1, ConfirmedRows DEF Books
<1>7. CASE Holds
  <2>1. ASSUME NEW b \in Business, NEW k \in RequestKey, NEW o \in Offer, NEW p \in Price,
               AcquireHold(b, k, o, p)
        PROVE  hold'[r].status = "CONFIRMED" <=> hold[r].status = "CONFIRMED"
    <3> DEFINE new == [status |-> "HELD", offer |-> o, price |-> p,
                       expires |-> now + HoldFor, pending |-> FALSE]
    <3>1. hold' = [LockedRows EXCEPT ![<<b, k>>] = new] /\ LockedRows[<<b, k>>].status = "NONE"
      BY <2>1 DEF AcquireHold, LockedRows
    <3>2. LockedRows \in [Reservation -> HoldRow] /\ new.status = "HELD"
      BY LockedRowsAre DEF LockInv, TypeOK, WellFormed
    <3> HIDE DEF new
    <3> QED
      BY <3>1, <3>2, ConfirmedRows
  <2>2. ASSUME NEW q \in Reservation, ReleaseHold(q)
        PROVE  hold'[r].status = "CONFIRMED" <=> hold[r].status = "CONFIRMED"
    BY <2>2, ConfirmedRows DEF ReleaseHold, LockedRows
  <2>3. ExpireHolds \/ Tick => (hold'[r].status = "CONFIRMED" <=> hold[r].status = "CONFIRMED")
    BY ConfirmedRows DEF ExpireHolds, LockedRows, Tick
  <2> QED
    BY <1>7, <2>1, <2>2, <2>3 DEF Holds
<1> QED
  BY <1>1, <1>2, <1>3, <1>4, <1>5, <1>6, <1>7 DEF Effect

\* What the program does to the database while Stripe's side stays.
LEMMA DbMoneyStep ==
  ASSUME MoneyInv, Effect, Cause, UNCHANGED stripeVars, now \in Nat, now' \in Nat, now' >= now
  PROVE  /\ \A a \in Attempt : (AttemptMoney(a) /\ AttemptSession(a))'
         /\ \A r \in Reservation : Booked(r)'
<1>0. LockInv /\ Keeps /\ PriceStays /\ UNCHANGED <<session, payback>>
  BY AttemptsKeep, EffectStep DEF MoneyInv, DbStep, stripeVars
<1>1. ASSUME NEW r \in Reservation
      PROVE  Booked(r)'
  <2>1. Booked(r) /\ booking[r] \in Attempt \cup {None, Free} /\ booking'[r] \in Attempt \cup {None, Free}
        /\ None \notin Attempt /\ Free \notin Attempt /\ Free # None
    BY EffectStep, CheckoutAssumption DEF MoneyInv, LockInv, TypeOK, DbStep, DbTypeOK
  <2>2. CASE booking'[r] = booking[r] /\ (hold'[r].status = "CONFIRMED" <=> hold[r].status = "CONFIRMED")
    <3>1. booking[r] = Free => hold'[r].price = 0
      <4>1. booking[r] = Free => hold[r].status = "CONFIRMED" /\ hold[r].price = 0
        BY <2>1 DEF Booked
      <4> QED
        BY <1>0, <4>1 DEF PriceStays
    <3>2. booking[r] \in Attempt => attempt'[booking[r]] = attempt[booking[r]]
      BY <1>0, <2>1 DEF Keeps, Booked, MoneyInv, AttemptMoney
    <3> QED
      BY <2>1, <2>2, <3>1, <3>2 DEF Booked
  <2>3. CASE Frees(r) /\ booking'[r] = Free /\ hold'[r].status = "CONFIRMED"
    <3>1. hold[r].price = 0 /\ hold[r].status # "NONE"
      BY <1>0, <2>3, LockedRowsAre DEF Frees, LockInv, TypeOK
    <3> QED
      BY <1>0, <2>1, <2>3, <3>1 DEF Booked, PriceStays
  <2>4. ASSUME NEW a \in Attempt, Books(a), attempt[a].res = r, booking'[r] = a,
               hold'[r].status = "CONFIRMED"
        PROVE  Booked(r)'
    <3>1. attempt'[a].res = r /\ attempt'[a].fulfillment = "FULFILLED"
      BY <2>4 DEF Books, IsAttempt
    <3> QED
      BY <2>1, <2>4, <3>1 DEF Booked
  <2> QED
    BY <1>0, <2>2, <2>3, <2>4, ConfirmedStep
\* An attempt nothing happened to.
<1>2. ASSUME NEW a \in Attempt, attempt'[a] = attempt[a], refund'[a] = refund[a],
             session[a] = "open" => now' = now \/ now' < attempt[a].expires + AbandonAfter
      PROVE  (AttemptMoney(a) /\ AttemptSession(a))'
  <2>1. AttemptMoney(a) /\ AttemptSession(a)
    BY DEF MoneyInv
  <2>2. attempt[a].fulfillment = "FULFILLED" => booking'[attempt[a].res] = a
    <3>1. ASSUME attempt[a].fulfillment = "FULFILLED"
          PROVE  booking'[attempt[a].res] = a
      <4>1. attempt[a].res \in Reservation /\ booking[attempt[a].res] = a /\ a # None
        BY <1>0, <2>1, <3>1, CheckoutAssumption DEF AttemptMoney, LockInv, AttemptsAreFor
      <4>2. Booked(attempt[a].res)
        BY <4>1 DEF MoneyInv
      <4>3. hold[attempt[a].res].status = "CONFIRMED"
        BY <4>1, <4>2 DEF Booked
      <4> QED
        BY <1>0, <4>1, <4>3, ConfirmedStep
    <3> QED
      BY <3>1
  <2>3. AttemptMoney(a)'
    BY <1>0, <1>2, <2>1, <2>2 DEF AttemptMoney
  <2>4. NeverPaid(a) => NeverPaid(a)'
    <3>1. attempt[a].expires \in Nat
      BY <1>0 DEF LockInv, TypeOK, AttemptRow
    <3> QED
      BY <1>0, <1>2, <3>1 DEF NeverPaid
  <2>5. AttemptSession(a)'
    BY <1>0, <1>2, <2>1, <2>4 DEF AttemptSession
  <2> QED
    BY <2>3, <2>5
<1> DEFINE Others(a) == \A b \in Attempt : b # a => attempt'[b] = attempt[b] /\ refund'[b] = refund[b]
<1>3. ASSUME NEW a \in Attempt, Others(a), now' = now, (AttemptMoney(a) /\ AttemptSession(a))'
      PROVE  \A b \in Attempt : (AttemptMoney(b) /\ AttemptSession(b))'
  BY <1>2, <1>3
<1>4. ASSUME NEW a \in Attempt
      PROVE  /\ AttemptMoney(a) /\ AttemptSession(a)
             /\ attempt[a].status = "NONE" =>
                  ~attempt[a].opened /\ attempt[a].fulfillment = "" /\ refund[a].status = "NONE"
             /\ attempt[a].expires \in Nat /\ attempt[a].opened \in BOOLEAN
             /\ refund[a].status = "NONE" => attempt[a].fulfillment # "UNFULFILLED"
  BY <1>0 DEF MoneyInv, AttemptMoney, LockInv, AttemptsAreFor, TypeOK, AttemptRow
<1>5. ASSUME Nothing \/ Locks \/ (\E r \in Reservation : Frees(r)) \/ (Holds /\ Timely)
      PROVE  \A b \in Attempt : (AttemptMoney(b) /\ AttemptSession(b))'
  <2>1. UNCHANGED <<attempt, refund>> /\ (now' = now \/ Timely)
    BY <1>5 DEF Nothing, Locks, Frees, Holds, dbVars
  <2> QED
    BY <1>2, <2>1 DEF Timely
<1>6. ASSUME NEW a \in Attempt, NEW r \in Reservation, Begins(r, a)
      PROVE  \A b \in Attempt : (AttemptMoney(b) /\ AttemptSession(b))'
  <2>1. /\ Others(a) /\ now' = now /\ refund'[a] = refund[a]
        /\ attempt[a].status = "NONE" /\ attempt'[a].status = "CREATING"
        /\ attempt'[a].fulfillment = "" /\ attempt'[a].opened = FALSE
        /\ attempt'[a].expires = now + SessionFor
    BY <1>6 DEF Begins, Only, IsAttempt
  <2>2. SessionFor \in Nat /\ SessionFor > 0 /\ AbandonAfter \in Nat /\ AbandonAfter > 0
    BY CheckoutAssumption
  <2>3. now' < attempt'[a].expires + AbandonAfter
    <3>1. now < (now + SessionFor) + AbandonAfter
      BY <2>2
    <3> QED
      BY <2>1, <3>1, Zenon
  <2>4. AttemptMoney(a)'
    BY <1>0, <1>4, <2>1 DEF AttemptMoney
  <2>5. AttemptSession(a)'
    BY <1>0, <1>4, <2>1, <2>3 DEF AttemptSession
  <2> QED
    BY <1>3, <2>1, <2>4, <2>5
<1>7. ASSUME NEW a \in Attempt, Opens(a), session[a] \notin {"none", "refused"}
      PROVE  \A b \in Attempt : (AttemptMoney(b) /\ AttemptSession(b))'
  <2>1. /\ Others(a) /\ now' = now /\ refund'[a] = refund[a] /\ booking' = booking
        /\ attempt[a].status = "CREATING" /\ attempt'[a].status = "OPEN"
        /\ attempt'[a].fulfillment = attempt[a].fulfillment /\ attempt'[a].opened = TRUE
        /\ attempt'[a].expires = attempt[a].expires /\ attempt'[a].res = attempt[a].res
    BY <1>7 DEF Opens, Only, IsAttempt
  <2>2. AttemptMoney(a)'
    <3>1. /\ attempt[a].status # "SUCCEEDED" /\ attempt[a].fulfillment = ""
          /\ attempt'[a].status # "SUCCEEDED" /\ attempt'[a].fulfillment = ""
      BY <1>4, <2>1 DEF AttemptMoney
    <3> QED
      BY <1>0, <1>4, <2>1, <3>1 DEF AttemptMoney
  <2>3. AttemptSession(a)'
    BY <1>0, <1>4, <1>7, <2>1 DEF AttemptSession
  <2> QED
    BY <1>3, <2>1, <2>2, <2>3
<1>8. ASSUME NEW a \in Attempt, NEW s \in {"FAILED", "EXPIRED", "CANCELED"}, Closes(a, s),
             Sound => NeverPaid(a)
      PROVE  \A b \in Attempt : (AttemptMoney(b) /\ AttemptSession(b))'
  <2>1. /\ Others(a) /\ now' = now /\ refund'[a] = refund[a] /\ booking' = booking
        /\ attempt[a].status \in {"CREATING", "OPEN"} /\ attempt'[a].status = s
        /\ attempt'[a].fulfillment = attempt[a].fulfillment /\ attempt'[a].opened = attempt[a].opened
        /\ attempt'[a].expires = attempt[a].expires /\ attempt'[a].res = attempt[a].res
    BY <1>8 DEF Closes, Only, IsAttempt, Unresolved
  <2>2. AttemptMoney(a)'
    <3>1. /\ attempt[a].status # "SUCCEEDED" /\ attempt[a].fulfillment = ""
          /\ attempt'[a].status # "SUCCEEDED" /\ attempt'[a].fulfillment = ""
      BY <1>4, <2>1 DEF AttemptMoney
    <3> QED
      BY <1>0, <1>4, <2>1, <3>1 DEF AttemptMoney
  <2>3. Sound => NeverPaid(a)'
    BY <1>0, <1>8, <2>1 DEF NeverPaid
  <2>4. AttemptSession(a)'
    BY <1>0, <1>4, <2>1, <2>3 DEF AttemptSession
  <2> QED
    BY <1>3, <2>1, <2>2, <2>4
<1>9. ASSUME NEW a \in Attempt, Books(a) \/ Falls(a), session[a] = "paid"
      PROVE  \A b \in Attempt : (AttemptMoney(b) /\ AttemptSession(b))'
  <2>1. /\ Only(a) /\ now' = now
        /\ attempt[a].status \notin {"NONE", "SUCCEEDED"} /\ attempt'[a].status = "SUCCEEDED"
        /\ attempt'[a].opened = attempt[a].opened /\ attempt'[a].res = attempt[a].res
        /\ attempt[a].res \in Reservation
    BY <1>0, <1>9 DEF Books, Falls, IsAttempt, Unresolved, LockInv, AttemptsAreFor
  <2>2. /\ refund[a] = NoRefund /\ payback[a] = "none" /\ attempt[a].fulfillment = ""
        /\ refund \in [Attempt -> RefundRow] /\ booking \in [Reservation -> Attempt \cup {None, Free}]
    BY <1>0, <1>4, <2>1 DEF AttemptMoney, LockInv, TypeOK
  <2>3. AttemptSession(a)'
    BY <1>0, <1>4, <1>9, <2>1 DEF AttemptSession
  <2>4. CASE Books(a)
    <3>1. /\ attempt'[a].fulfillment = "FULFILLED" /\ refund' = refund
          /\ booking' = [booking EXCEPT ![attempt[a].res] = a]
      BY <2>4 DEF Books, IsAttempt
    <3>2. booking'[attempt'[a].res] = a
      BY <2>1, <2>2, <3>1
    <3>3. AttemptMoney(a)'
      <4>1. refund'[a] = NoRefund /\ NoRefund.status = "NONE" /\ payback'[a] = "none"
            /\ session'[a] = "paid"
        BY <1>0, <1>9, <2>2, <3>1 DEF NoRefund
      <4> QED
        BY <2>1, <3>1, <3>2, <4>1 DEF AttemptMoney
    <3> QED
      BY <1>3, <2>1, <2>3, <3>1, <3>3 DEF Only
  <2>5. CASE Falls(a)
    <3>1. /\ attempt'[a].fulfillment = "UNFULFILLED"
          /\ refund' = [refund EXCEPT ![a].status = "REQUESTED"]
      BY <2>5 DEF Falls, IsAttempt
    <3>2. /\ \A b \in Attempt : b # a => refund'[b] = refund[b]
          /\ refund'[a] = [refund[a] EXCEPT !.status = "REQUESTED"]
      BY <2>2, <3>1
    <3>3. refund'[a].status = "REQUESTED"
      BY <2>2, <3>2 DEF NoRefund
    <3>4. AttemptMoney(a)'
      BY <1>0, <1>9, <2>1, <2>2, <3>1, <3>3 DEF AttemptMoney
    <3> QED
      BY <1>3, <2>1, <2>3, <3>2, <3>4 DEF Only
  <2> QED
    BY <1>9, <2>4, <2>5
<1>10. ASSUME NEW a \in Attempt, Repays(a), attempt[a].fulfillment = "UNFULFILLED",
              refund'[a].status # "NONE", refund'[a].status = "SUCCEEDED" => payback[a] = "succeeded"
      PROVE  \A b \in Attempt : (AttemptMoney(b) /\ AttemptSession(b))'
  <2>1. Others(a) /\ now' = now /\ attempt' = attempt /\ booking' = booking
    BY <1>10 DEF Repays
  <2>2. AttemptMoney(a)'
    BY <1>0, <1>4, <1>10, <2>1 DEF AttemptMoney
  <2>3. AttemptSession(a)'
    BY <1>0, <1>4, <2>1 DEF AttemptSession, NeverPaid
  <2> QED
    BY <1>3, <2>1, <2>2, <2>3
<1>11. \A a \in Attempt : (AttemptMoney(a) /\ AttemptSession(a))'
  BY <1>5, <1>6, <1>7, <1>8, <1>9, <1>10 DEF Cause
<1> QED
  BY <1>1, <1>11

-----------------------------------------------------------------------------
(* What the workers know *)

\* A session that cannot be paid stays so, and what was paid or opened is.
LEMMA SessionsStay ==
  ASSUME MoneyInv, Cause, StripeMove, UNCHANGED stripeVars \/ Nothing,
         now \in Nat, now' \in Nat, now' >= now, NEW a \in Attempt, attempt[a].status # "NONE"
  PROVE  /\ Sound /\ NeverPaid(a) => NeverPaid(a)'
         /\ Sound /\ session[a] = "expired" => session'[a] = "expired"
         /\ Sound /\ session[a] \in {"none", "expired", "refused"} /\ now >= attempt[a].expires =>
              session'[a] \in {"none", "expired", "refused"}
         /\ session[a] \in {"paid", "unpaid"} => session'[a] = session[a]
         /\ session[a] \notin {"none", "refused"} => session'[a] \notin {"none", "refused"}
         /\ payback[a] = "succeeded" => payback'[a] = "succeeded"
         /\ attempt[a].fulfillment = "UNFULFILLED" => attempt'[a].fulfillment = "UNFULFILLED"
<1>0. /\ SessionMove(a) /\ PaybackMove(a) /\ Keeps /\ AttemptSession(a) /\ AttemptMoney(a)
      /\ attempt[a].expires \in Nat
  BY AttemptsKeep DEF StripeMove, MoneyInv, LockInv, TypeOK, AttemptRow
<1>1. attempt'[a].expires = attempt[a].expires
  BY <1>0 DEF Keeps
<1>2. session[a] \in {"none", "refused"} => ~attempt[a].opened
  BY <1>0 DEF AttemptSession
<1>3. now >= attempt[a].expires => ~(now < attempt[a].expires) /\ now' >= attempt'[a].expires
  BY <1>0, <1>1
<1>4. /\ Sound /\ session[a] = "expired" => session'[a] = "expired"
      /\ session[a] \in {"paid", "unpaid"} => session'[a] = session[a]
      /\ session[a] \notin {"none", "refused"} => session'[a] \notin {"none", "refused"}
      /\ payback[a] = "succeeded" => payback'[a] = "succeeded"
  BY <1>0 DEF SessionMove, PaybackMove, Sound
<1>5. Sound /\ session[a] \in {"none", "expired", "refused"} /\ now >= attempt[a].expires =>
        session'[a] \in {"none", "expired", "refused"}
  BY <1>0, <1>3 DEF SessionMove, Sound
<1>6. Sound /\ NeverPaid(a) => NeverPaid(a)'
  BY <1>0, <1>3 DEF SessionMove, Sound, NeverPaid
<1>7. attempt[a].fulfillment = "UNFULFILLED" => attempt'[a].fulfillment = "UNFULFILLED"
  BY <1>0 DEF AttemptMoney, Keeps
<1> QED
  BY <1>4, <1>5, <1>6, <1>7

\* The facts a step starts from.
Stepping ==
  /\ MoneyInv /\ Cause /\ StripeMove
  /\ UNCHANGED stripeVars \/ Nothing
  /\ now \in Nat /\ now' \in Nat /\ now' >= now

\* What a worker knows stays true while others work.
LEMMA KnowsStays ==
  ASSUME Stepping, NEW w \in Worker, worker'[w] = worker[w], now' = now \/ (Timely /\ UNCHANGED attempt)
  PROVE  Knows(worker[w])'
<1> DEFINE a == worker[w].att
<1>1. CASE worker[w].step \in {"idle", "finish", "release"}
  BY <1>1 DEF Knows
<1>2. CASE worker[w].step \notin {"idle", "finish", "release"}
  <2>1. a \in Attempt /\ attempt[a].status # "NONE" /\ Knows(worker[w]) /\ attempt[a].expires \in Nat
    BY <1>2 DEF Stepping, MoneyInv, LockInv, Busy, TypeOK, AttemptRow
  <2>2. attempt'[a].expires = attempt[a].expires
    BY <2>1, AttemptsKeep DEF Stepping, MoneyInv, Keeps
  <2>3. AbandonAfter \in Nat
    BY CheckoutAssumption
  <2>4. worker[w].step = "create" /\ Abandoned(a)' => Abandoned(a) /\ now >= attempt[a].expires
    <3>1. CASE now' = now
      BY <2>1, <2>2, <2>3, <3>1 DEF Abandoned, Stepping
    <3>2. CASE Timely /\ now' # now
      BY <2>1, <2>2, <2>3, <3>2 DEF Abandoned, Stepping, Timely, At, Att
    <3> QED
      BY <3>1, <3>2
  <2>5. /\ Sound /\ NeverPaid(a) => NeverPaid(a)'
        /\ Sound /\ session[a] = "expired" => session'[a] = "expired"
        /\ Sound /\ session[a] \in {"none", "expired", "refused"} /\ now >= attempt[a].expires =>
              session'[a] \in {"none", "expired", "refused"}
        /\ session[a] \in {"paid", "unpaid"} => session'[a] = session[a]
        /\ session[a] \notin {"none", "refused"} => session'[a] \notin {"none", "refused"}
        /\ payback[a] = "succeeded" => payback'[a] = "succeeded"
        /\ attempt[a].fulfillment = "UNFULFILLED" => attempt'[a].fulfillment = "UNFULFILLED"
    BY <2>1, SessionsStay DEF Stepping
  <2> QED
    BY <2>1, <2>4, <2>5 DEF Knows
<1> QED
  BY <1>1, <1>2

\* Steps at which a worker knows nothing in particular.
Ignorant == {"idle", "created", "retrieve", "settled", "expire", "finish", "release"}

\* At such a step there is nothing to know.
LEMMA IgnorantKnows ==
  ASSUME NEW w \in Worker, worker'[w].step \in Ignorant
  PROVE  Knows(worker[w])'
  BY DEF Knows, Ignorant

\* Moves to such a step.
LEMMA ToIgnorant ==
  ASSUME LockInv, NEW w \in Worker,
         \/ Rest(w)
         \/ \E s \in Step \cap Ignorant :
              \/ Go(w, s)
              \/ \E t \in Task : \/ \E a \in Attempt : Assign(w, s, t, a, None)
                                 \/ \E r \in Reservation : Assign(w, s, t, None, r)
         \/ EndSync(w) /\ worker[w].step \notin {"idle", "finish", "release"}
  PROVE  Knows(worker[w])'
<1>0. worker \in [Worker -> WorkerRow]
  BY DEF LockInv, TypeOK
<1>1. CASE Rest(w)
  <2>1. worker'[w].step = "idle"
    BY <1>0, <1>1, RestDoes, IdleIsAWorker DEF IsWorker
  <2> QED
    BY <2>1, IgnorantKnows DEF Ignorant
<1>2. ASSUME NEW s \in Step \cap Ignorant, Go(w, s)
      PROVE  Knows(worker[w])'
  <2>1. worker'[w].step = s
    BY <1>0, <1>2, GoDoes DEF IsWorker
  <2> QED
    BY <2>1, IgnorantKnows
<1>3. ASSUME NEW s \in Step \cap Ignorant, NEW t \in Task, NEW a \in Attempt \cup {None},
             NEW r \in Reservation \cup {None}, Assign(w, s, t, a, r)
      PROVE  Knows(worker[w])'
  <2>1. worker'[w].step = s
    BY <1>0, <1>3, AssignDoes DEF IsWorker
  <2> QED
    BY <2>1, IgnorantKnows
<1>4. CASE EndSync(w) /\ worker[w].step \notin {"idle", "finish", "release"}
  <2>1. Row(w).res \in Reservation
    BY <1>4, Working
  <2>2. worker'[w].step \in {"idle", "expire", "finish"}
    BY <1>0, <1>4, <2>1, EndSyncDoes, IdleIsAWorker DEF IsWorker
  <2> QED
    BY <2>2, IgnorantKnows DEF Ignorant
<1> QED
  BY <1>1, <1>2, <1>3, <1>4

\* A worker that takes up an attempt knows that, if it may be given up, it has
\* no session anybody can pay.
LEMMA TakeKnows ==
  ASSUME Stepping, NEW w \in Worker, Take(w)
  PROVE  Knows(worker[w])'
<1>0. LockInv /\ worker \in [Worker -> WorkerRow]
      /\ {"created", "expire", "finish"} \subseteq Step \cap Ignorant
      /\ {"start", "sync", "cancel", "cancelled"} \subseteq Task /\ "create" \in Step
  BY DEF Stepping, MoneyInv, LockInv, TypeOK, Step, Ignorant, Task
<1>1. ASSUME NEW a \in Attempt, attempt[a].status = "CREATING", NEW t \in Task,
             Assign(w, "create", t, a, None), UNCHANGED <<now, attempt, session>>
      PROVE  Knows(worker[w])'
  <2>1. worker'[w].step = "create" /\ worker'[w].att = a
    BY <1>0, <1>1, AssignDoes DEF IsWorker
  <2>2. AttemptSession(a) /\ session[a] \in SessionState
    BY <1>0 DEF Stepping, MoneyInv, LockInv, TypeOK
  <2>3. now \in Nat /\ attempt[a].expires \in Nat /\ AbandonAfter \in Nat
    BY <1>0, CheckoutAssumption DEF Stepping, LockInv, TypeOK, AttemptRow
  <2>4. Abandoned(a) => session[a] \in {"none", "expired", "refused"}
    BY <1>1, <2>2, <2>3 DEF AttemptSession, Abandoned, SessionState
  <2> QED
    BY <1>1, <2>1, <2>4 DEF Knows, Abandoned
<1>2. ASSUME NEW a \in Attempt, ResumeCheckout(w, a) \/ SyncAttempt(w, a)
      PROVE  Knows(worker[w])'
  BY <1>0, <1>1, <1>2, ToIgnorant DEF ResumeCheckout, SyncAttempt, stripeVars, dbVars
<1>3. ASSUME NEW a \in Attempt, NEW r \in Reservation, BeginCheckout(w, r, a)
      PROVE  Knows(worker[w])'
  <2>1. Begins(r, a)
    BY <1>0, <1>3, BeginCheckoutEffect
  <2>2. Assign(w, "create", "start", a, None)
    BY <1>3 DEF BeginCheckout
  <2>3. worker'[w].step = "create" /\ worker'[w].att = a
    BY <1>0, <2>2, AssignDoes DEF IsWorker
  <2>4. now' = now /\ attempt'[a].expires = now + SessionFor
    BY <2>1 DEF Begins, IsAttempt
  <2>5. now < (now + SessionFor) + AbandonAfter
    <3>1. SessionFor \in Nat /\ AbandonAfter \in Nat /\ SessionFor > 0 /\ now \in Nat
      BY CheckoutAssumption DEF Stepping
    <3> QED
      BY <3>1
  <2>6. ~(now >= (now + SessionFor) + AbandonAfter)
    <3>1. SessionFor \in Nat /\ AbandonAfter \in Nat /\ now \in Nat
      BY CheckoutAssumption DEF Stepping
    <3> QED
      BY <2>5, <3>1
  <2>7. ~(now' >= attempt'[a].expires + AbandonAfter)
    BY <2>4, <2>6, Zenon
  <2> QED
    BY <2>3, <2>7 DEF Knows, Abandoned
<1>4. ASSUME NEW a \in Attempt, ProcessRefund(w, a)
      PROVE  Knows(worker[w])'
  <2> DEFINE v == [Idle EXCEPT !.step = "refund", !.att = a, !.seen = refund[a].status]
  <2>1. /\ worker' = [worker EXCEPT ![w] = v] /\ refund[a].status \in UnresolvedRefund
        /\ UNCHANGED attempt
    BY <1>4 DEF ProcessRefund, dbVars
  <2>2. worker'[w] = v
    BY <1>0, <2>1
  <2>3. v.step = "refund" /\ v.att = a
    BY DEF Idle
  <2>4. attempt[a].fulfillment = "UNFULFILLED"
    <3>1. AttemptMoney(a) /\ refund[a].status # "NONE"
      BY <2>1 DEF Stepping, MoneyInv, UnresolvedRefund
    <3>2. NoRefund.status = "NONE"
      BY DEF NoRefund
    <3>3. attempt[a].fulfillment # "UNFULFILLED" => refund[a] = NoRefund
      BY <3>1 DEF AttemptMoney
    <3> QED
      BY <3>1, <3>2, <3>3, Zenon
  <2> HIDE DEF v
  <2> QED
    BY <2>1, <2>2, <2>3, <2>4 DEF Knows
<1>5. ASSUME NEW r \in Reservation, CancelCheckout(w, r)
      PROVE  Knows(worker[w])'
  BY <1>0, <1>1, <1>5, ToIgnorant DEF CancelCheckout, AttemptsOf, stripeVars, dbVars
<1> QED
  BY <1>2, <1>3, <1>4, <1>5 DEF Take

\* A worker that is answered knows what it was answered.
LEMMA WorkKnows ==
  ASSUME Stepping, NEW w \in Worker, Work(w)
  PROVE  Knows(worker[w])'
<1> DEFINE a == Att(w)
           On == worker[w].step \notin {"idle", "finish", "release"}
<1>0. /\ LockInv /\ worker \in [Worker -> WorkerRow] /\ Knows(worker[w]) /\ a = worker[w].att
      /\ Ignorant \subseteq Step
      /\ {"opened", "fail", "intent", "apply", "cancel", "refund", "refunded", "refundError"} \subseteq Step
  BY DEF Stepping, MoneyInv, LockInv, TypeOK, Step, Ignorant, Att
<1>1. On => a \in Attempt /\ attempt[a].status # "NONE" /\ attempt[a].expires \in Nat
  BY <1>0, Working DEF Row, AttemptRow
<1>2. ASSUME NEW s \in Step, NEW x \in Seen, GoWith(w, s, x)
      PROVE  worker'[w].step = s /\ worker'[w].att = a /\ worker'[w].seen = x
  BY <1>0, <1>2, GoWithDoes DEF IsWorker
<1>3. "none" \in Seen /\ "unpaid" \in Seen /\ "FAILED" \in Seen
  BY DEF Seen, SessionState, RefundStatus
<1>4. CASE CreateAnswered(w)
  <2>1. /\ On /\ Creates(a) /\ session' = AfterCreate(a) /\ GoWith(w, "opened", session'[a])
    BY <1>4 DEF CreateAnswered, At
  <2>2. session'[a] \in Seen /\ session'[a] \notin {"none", "refused"}
    BY <1>0, <1>1, <2>1 DEF Creates, AfterCreate, LockInv, TypeOK, Seen, Stepping, StripeMove
  <2>3. worker'[w].step = "opened" /\ worker'[w].att = a
    BY <1>0, <1>2, <2>1, <2>2
  <2> QED
    BY <2>2, <2>3 DEF Knows
<1>5. CASE CreateRefused(w)
  <2>1. On /\ GoWith(w, "fail", "none")
    BY <1>5 DEF CreateRefused, At, Go
  <2>2. worker'[w].step = "fail" /\ worker'[w].att = a
    BY <1>0, <1>2, <1>3, <2>1
  <2>3. Sound => session'[a] = "refused"
    BY <1>0, <1>1, <1>5, <2>1 DEF CreateRefused, Sound, LockInv, TypeOK
  <2> QED
    BY <2>2, <2>3 DEF Knows, NeverPaid
<1>6. CASE CreateUnknown(w)
  <2>1. On /\ At(w, "create")
    BY <1>6 DEF CreateUnknown, At
  <2>2. CASE Abandoned(a) /\ GoWith(w, "fail", "none")
    <3>1. worker'[w].step = "fail" /\ worker'[w].att = a
      BY <1>0, <1>2, <1>3, <2>2
    <3>2. now \in Nat /\ attempt[a].expires \in Nat /\ AbandonAfter \in Nat
      BY <1>1, <2>1, CheckoutAssumption DEF Stepping
    <3>3. now >= attempt[a].expires
      BY <2>2, <3>2 DEF Abandoned
    <3>4. Sound => NeverPaid(a)
      BY <1>0, <2>1, <2>2, <3>3 DEF Knows, At, NeverPaid
    <3>5. ASSUME NEW b \in Attempt, b = a, Sound
          PROVE  NeverPaid(b)'
      BY <1>1, <2>1, <3>4, <3>5, SessionsStay DEF Stepping
    <3>6. Sound => NeverPaid(worker[w].att)'
      BY <1>1, <2>1, <3>1, <3>5
    <3> QED
      BY <3>1, <3>6 DEF Knows
  <2>3. CASE Rest(w) \/ Go(w, "created")
    BY <1>0, <2>3, ToIgnorant DEF Ignorant
  <2> QED
    BY <1>6, <2>2, <2>3 DEF CreateUnknown, Go
<1>7. CASE RecordOpened(w)
  <2>1. CASE Rest(w)
    BY <1>0, <2>1, ToIgnorant
  <2>2. CASE worker' = [worker EXCEPT ![w].step = "created", ![w].seen = "none",
                                      ![w].task = IF @ = "start" THEN "sync" ELSE @]
    <3> DEFINE t == IF worker[w].task = "start" THEN "sync" ELSE worker[w].task
               v == [worker[w] EXCEPT !.step = "created", !.seen = "none", !.task = t]
    <3>1. worker[w] \in WorkerRow
      BY <1>0
    <3>2. worker' = [worker EXCEPT ![w] = v]
      BY <1>0, <2>2, <3>1, ZenonT(60)
    <3> HIDE DEF t
    <3>3. v.step = "created"
      BY <3>1 DEF WorkerRow
    <3> HIDE DEF v
    <3>4. worker'[w].step = "created"
      BY <1>0, <3>2, <3>3
    <3> QED
      BY <3>4, IgnorantKnows DEF Ignorant
  <2> QED
    BY <1>7, <2>1, <2>2 DEF RecordOpened
<1>8. CASE CreateFailed(w) \/ ReadAttempt(w) \/ ApplyExpired(w) \/ ApplyUnpaid(w) \/ ApplyWaiting(w)
           \/ PaidAlready(w) \/ PaidBooked(w) \/ PaidUnfulfilled(w) \/ PaidCollides(w)
           \/ FinishCancel(w) \/ ReleaseCancelled(w) \/ RecordRefund(w) \/ RecordRefundError(w)
  <2>1. {"created", "retrieve", "settled", "release"} \subseteq Step \cap Ignorant
    BY DEF Step, Ignorant
  <2>2. \/ Rest(w) \/ (EndSync(w) /\ On)
        \/ Go(w, "created") \/ Go(w, "retrieve") \/ Go(w, "settled") \/ Go(w, "release")
    BY <1>8 DEF CreateFailed, ReadAttempt, ApplyExpired, ApplyUnpaid, ApplyWaiting, PaidAlready,
       PaidBooked, PaidUnfulfilled, PaidCollides, FinishCancel, ReleaseCancelled, RecordRefund,
       RecordRefundError, At
  <2> QED
    BY <1>0, <2>1, <2>2, ToIgnorant
<1>9. CASE RetrieveSession(w) \/ RetrieveIntent(w)
  <2>1. On /\ UNCHANGED session /\ session[a] \in SessionState /\ worker[w].seen \in Seen
    BY <1>0, <1>1, <1>9
       DEF RetrieveSession, RetrieveIntent, At, stripeVars, LockInv, TypeOK, WorkerRow, Seen
  <2>2. CASE RetrieveSession(w)
    <3>1. PICK s \in {"intent", "apply"} : GoWith(w, s, session[a])
      BY <2>2 DEF RetrieveSession
    <3>2. worker'[w].step = s /\ worker'[w].att = a /\ worker'[w].seen = session[a]
      BY <1>0, <1>2, <2>1, <3>1 DEF Seen
    <3> QED
      BY <2>1, <3>2 DEF Knows
  <2>3. CASE RetrieveIntent(w)
    <3>1. /\ At(w, "intent")
          /\ GoWith(w, "apply", IF session[a] = "unpaid" THEN "unpaid" ELSE worker[w].seen)
      BY <2>3 DEF RetrieveIntent
    <3>2. /\ worker'[w].step = "apply" /\ worker'[w].att = a
          /\ worker'[w].seen = IF session[a] = "unpaid" THEN "unpaid" ELSE worker[w].seen
      BY <1>0, <1>2, <1>3, <2>1, <3>1
    <3> QED
      BY <1>0, <2>1, <3>1, <3>2 DEF Knows, At
  <2> QED
    BY <1>9, <2>2, <2>3
<1>10. CASE Settle(w)
  <2>1. On /\ UNCHANGED attempt
    BY <1>10 DEF Settle, At, dbVars
  <2>2. CASE /\ Row(w).fulfillment = "UNFULFILLED" /\ refund[a].status \in UnresolvedRefund
             /\ GoWith(w, "refund", refund[a].status)
    <3>1. worker'[w].step = "refund" /\ worker'[w].att = a
      BY <1>0, <1>2, <2>2 DEF Seen, UnresolvedRefund, RefundStatus
    <3> QED
      BY <2>1, <2>2, <3>1 DEF Knows, Row
  <2>3. CASE EndSync(w)
    BY <1>0, <2>1, <2>3, ToIgnorant
  <2> QED
    BY <1>10, <2>2, <2>3 DEF Settle
<1>11. CASE RefundAnswered(w)
  <2>1. On /\ At(w, "refund") /\ UNCHANGED attempt /\ GoWith(w, "refunded", payback'[a])
    BY <1>11 DEF RefundAnswered, At, dbVars
  <2>2. payback'[a] \in Seen
    BY <1>1, <2>1 DEF Stepping, StripeMove, Seen
  <2>3. worker'[w].step = "refunded" /\ worker'[w].att = a /\ worker'[w].seen = payback'[a]
    BY <1>0, <1>2, <2>1, <2>2
  <2> QED
    BY <1>0, <2>1, <2>3 DEF Knows, At
<1>12. CASE RefundRefused(w)
  <2>1. At(w, "refund") /\ UNCHANGED attempt /\ GoWith(w, "refundError", "FAILED")
    BY <1>12 DEF RefundRefused, dbVars
  <2>2. worker'[w].step = "refundError" /\ worker'[w].att = a
    BY <1>0, <1>2, <1>3, <2>1
  <2> QED
    BY <1>0, <2>1, <2>2 DEF Knows, At
<1>13. CASE ExpireAnswered(w)
  <2>1. On /\ session' = [session EXCEPT ![a] = "expired"] /\ GoWith(w, "cancel", "none")
    BY <1>13 DEF ExpireAnswered, At, Go
  <2>2. worker'[w].step = "cancel" /\ worker'[w].att = a
    BY <1>0, <1>2, <1>3, <2>1
  <2>3. session'[a] = "expired"
    BY <1>0, <1>1, <2>1 DEF LockInv, TypeOK
  <2> QED
    BY <2>2, <2>3 DEF Knows
<1>14. CASE ExpireRefused(w)
  <2>1. worker'[w].step = "created"
    <3>1. worker' = [worker EXCEPT ![w].step = "created", ![w].task = "cancelled"]
      BY <1>14 DEF ExpireRefused
    <3>2. worker[w] \in WorkerRow
      BY <1>0
    <3>3. worker'[w] = [worker[w] EXCEPT !.step = "created", !.task = "cancelled"]
      BY <1>0, <3>1, Zenon
    <3> QED
      BY <3>2, <3>3 DEF WorkerRow
  <2> QED
    BY <2>1, IgnorantKnows DEF Ignorant
<1>15. CASE CloseCanceled(w)
  <2>1. Assign(w, "finish", "cancelled", None, Row(w).res) /\ Row(w).res \in Reservation
    BY <1>0, <1>15, Working DEF CloseCanceled, At
  <2> QED
    BY <1>0, <2>1, ToIgnorant DEF Ignorant, Task
<1> QED
  BY <1>4, <1>5, <1>6, <1>7, <1>8, <1>9, <1>10, <1>11, <1>12, <1>13, <1>14, <1>15 DEF Work

\* A worker whose call goes unanswered knows no more than before.
LEMMA FailKnows ==
  ASSUME Stepping, NEW w \in Worker, Fail(w)
  PROVE  Knows(worker[w])'
<1>0. LockInv /\ worker \in [Worker -> WorkerRow] /\ Knows(worker[w])
  BY DEF Stepping, MoneyInv, LockInv, TypeOK
<1>1. CASE RetrieveFailed(w) \/ ExpireUnknown(w) \/ Stop(w)
  BY <1>0, <1>1, ToIgnorant DEF RetrieveFailed, ExpireUnknown, Stop
<1>2. CASE RefundUnknown(w)
  <2>1. At(w, "refund") /\ UNCHANGED attempt /\ GoWith(w, "refundError", worker[w].seen)
    BY <1>2 DEF RefundUnknown, dbVars
  <2>2. worker[w].seen \in Seen /\ "refundError" \in Step
    BY <1>0 DEF WorkerRow, Seen, Step
  <2>3. worker'[w].step = "refundError" /\ worker'[w].att = worker[w].att
    BY <1>0, <2>1, <2>2, GoWithDoes DEF IsWorker
  <2> QED
    BY <1>0, <2>1, <2>3 DEF Knows, At
<1> QED
  BY <1>1, <1>2 DEF Fail

\* The money's invariant is kept by every step.
LEMMA MoneyStep ==
  ASSUME MoneyInv, [Next]_vars
  PROVE  MoneyInv'
<1>1. LockInv /\ LockInv' /\ Effect /\ [HoldNext]_holdVars
  BY LockStep DEF MoneyInv
<1>2. StripeMove /\ (UNCHANGED stripeVars \/ Nothing) /\ Cause
  BY StripeMoves, Causes
<1>3. now \in Nat /\ now' \in Nat
  BY <1>1, HoldAssumption DEF LockInv, TypeOK, HoldTypeOK
<1>4. now' = now \/ (Timely /\ UNCHANGED attempt)
  BY <1>2 DEF Cause, Nothing, Locks, Holds, Frees, Begins, Opens, Books, Falls, Repays, Closes
<1>5. now' = now \/ now' = now + 1
  BY <1>1 DEF Effect, Nothing, Locks, Holds, ExpireHolds, Tick, AcquireHold, ReleaseHold,
     Frees, Begins, Opens, Books, Falls, Repays, Closes
<1>6. now' >= now
  BY <1>3, <1>5
<1>7. Stepping
  BY <1>2, <1>3, <1>6 DEF Stepping
<1>8. /\ \A a \in Attempt : (AttemptMoney(a) /\ AttemptSession(a))'
      /\ \A r \in Reservation : Booked(r)'
  BY <1>1, <1>2, <1>3, <1>6, SessionMoneyStep, DbMoneyStep
<1>9. \A w \in Worker : Knows(worker[w])'
  <2>1. ASSUME NEW w \in Worker, worker'[w] = worker[w]
        PROVE  Knows(worker[w])'
    BY <1>4, <1>7, <2>1, KnowsStays
  <2>2. ASSUME NEW w \in Worker, Take(w) \/ Work(w) \/ Fail(w)
        PROVE  Knows(worker[w])' /\ \A v \in Worker : v # w => worker'[v] = worker[v]
    <3>1. Moved(w)
      BY <1>1, <1>2, <2>2, EffectStep, TakeMoves, WorkMoves, FailMoves DEF DbStep, StripeMove
    <3>2. Knows(worker[w])'
      BY <1>7, <2>2, TakeKnows, WorkKnows, FailKnows
    <3> QED
      BY <3>1, <3>2 DEF Moved, Alone
  <2>3. ASSUME NEW a \in Attempt, Stripe(a)
        PROVE  UNCHANGED worker
    BY <2>3 DEF Stripe, Pay, PayDelayed, DelayedEnds, SessionExpires, RefundEnds
  <2>4. ASSUME NEW r \in Reservation, ReleaseStall(r) \/ ConfirmFree(r)
        PROVE  UNCHANGED worker
    BY <2>4 DEF ReleaseStall, ConfirmFree
  <2>5. AcquireStall \/ ExpireStalls \/ TimePasses \/ UNCHANGED vars => UNCHANGED worker
    BY DEF AcquireStall, ExpireStalls, TimePasses, vars
  <2>6. \/ UNCHANGED worker
        \/ \E w \in Worker : Knows(worker[w])' /\ \A v \in Worker : v # w => worker'[v] = worker[v]
    BY <2>2, <2>3, <2>4, <2>5 DEF Next
  <2> QED
    BY <2>1, <2>6
<1> QED
  BY <1>1, <1>8, <1>9 DEF MoneyInv

\* No money has moved at first.
LEMMA MoneyInit ==
  ASSUME Init
  PROVE  MoneyInv
<1>1. LockInv
  BY LockInit
<1>2. \A a \in Attempt : /\ attempt[a] = NoAttempt /\ refund[a] = NoRefund
                         /\ session[a] = "none" /\ payback[a] = "none"
  BY DEF Init
<1>3. NoAttempt.status = "NONE" /\ NoAttempt.fulfillment = "" /\ NoAttempt.opened = FALSE
      /\ NoRefund.status = "NONE"
  BY DEF NoAttempt, NoRefund
<1>4. \A a \in Attempt : AttemptMoney(a) /\ AttemptSession(a)
  BY <1>2, <1>3 DEF AttemptMoney, AttemptSession
<1>5. \A r \in Reservation : booking[r] = None /\ hold[r].status = "NONE"
  BY DEF Init, HoldInit, NoHold
<1>6. \A r \in Reservation : Booked(r)
  BY <1>5, CheckoutAssumption DEF Booked
<1>7. \A w \in Worker : worker[w].step = "idle"
  BY IdleIsAWorker DEF Init, IsWorker
<1>8. \A w \in Worker : Knows(worker[w])
  BY <1>7 DEF Knows
<1> QED
  BY <1>1, <1>4, <1>6, <1>8 DEF MoneyInv

\* The money's invariant.
LEMMA MoneyInvariant == Spec => []MoneyInv
<1>1. Init => MoneyInv
  BY MoneyInit
<1>2. MoneyInv /\ [Next]_vars => MoneyInv'
  BY MoneyStep
<1> QED
  BY <1>1, <1>2, PTL DEF Spec

-----------------------------------------------------------------------------
(* Theorems about the money *)

\* payments/services.py never confirms a stall without a booking or books one
\* it does not confirm, and a paid stall's booking is backed by a payment
\* Stripe took for it and nobody refunds, whatever Stripe answers and however
\* late it reports.
THEOREM StallsAreBookedForMoney == Spec => []BookingsArePaid
<1>1. MoneyInv => BookingsArePaid
  <2> SUFFICES ASSUME MoneyInv, NEW r \in Reservation
               PROVE  /\ booking[r] # None <=> hold[r].status = "CONFIRMED"
                      /\ booking[r] = Free => hold[r].price = 0 /\ AttemptsOf(r) = {}
                      /\ booking[r] \in Attempt =>
                           /\ attempt[booking[r]].res = r
                           /\ attempt[booking[r]].fulfillment = "FULFILLED"
                           /\ session[booking[r]] = "paid"
                           /\ refund[booking[r]] = NoRefund
                           /\ payback[booking[r]] = "none"
    BY DEF BookingsArePaid
  <2>1. Booked(r) /\ None \notin Reservation
    BY CheckoutAssumption DEF MoneyInv
  <2>2. hold[r].price = 0 => AttemptsOf(r) = {}
    BY <2>1 DEF MoneyInv, LockInv, AttemptsAreFor, AttemptsOf
  <2>3. booking[r] \in Attempt => AttemptMoney(booking[r])
    BY DEF MoneyInv
  <2> QED
    BY <2>1, <2>2, <2>3 DEF Booked, AttemptMoney
<1> QED
  BY <1>1, MoneyInvariant, PTL

\* A refund process_refund records as SUCCEEDED was done by Stripe, and money
\* goes back only for a payment that got no stall.
THEOREM RefundsWereMade == Spec => []RefundsAreReal
<1>1. MoneyInv => RefundsAreReal
  BY DEF MoneyInv, AttemptMoney, RefundsAreReal
<1> QED
  BY <1>1, MoneyInvariant, PTL

\* What the two assumptions about Stripe add: an attempt somebody can pay, or
\* has paid, is live.
LEMMA PaidAreLive ==
  ASSUME MoneyInv, Sound, NEW a \in Attempt,
         attempt[a].opened, session[a] \in {"open", "settling", "paid"}
  PROVE  /\ attempt[a].status \in {"OPEN", "SUCCEEDED"}
         /\ attempt[a].status = "SUCCEEDED" => session[a] = "paid"
<1>1. AttemptMoney(a) /\ AttemptSession(a) /\ attempt[a] \in AttemptRow
  BY DEF MoneyInv, LockInv, TypeOK
<1>2. attempt[a].status \in {"NONE", "CREATING", "OPEN", "SUCCEEDED", "EXPIRED", "CANCELED", "FAILED"}
  BY <1>1 DEF AttemptRow
<1>3. ~NeverPaid(a)
  BY DEF NeverPaid
<1>4. attempt[a].status # "NONE"
  BY DEF MoneyInv, LockInv, AttemptsAreFor
<1> QED
  BY <1>1, <1>2, <1>3, <1>4 DEF AttemptMoney, AttemptSession

\* "A payable session never loses its stall" (reservations/models.py), when
\* Stripe never reports an expired session as paid and keeps refusing a key it
\* refused once.
THEOREM PayableStallsAreKept == RefusalIsFinal /\ ~LatePayment => (Spec => []PayableKeepsStall)
<1> SUFFICES ASSUME RefusalIsFinal /\ ~LatePayment
             PROVE  Spec => []PayableKeepsStall
  OBVIOUS
<1>1. MoneyInv => PayableKeepsStall
  <2> SUFFICES ASSUME MoneyInv, NEW a \in Attempt, Payable(a)
               PROVE  /\ attempt[a].status = "OPEN"
                      /\ hold[attempt[a].res].status = "HELD"
                      /\ hold[attempt[a].res].pending
    BY DEF PayableKeepsStall
  <2>1. attempt[a].status = "OPEN"
    BY PaidAreLive DEF Payable, Sound
  <2>2. attempt[a].res \in Reservation
    BY <2>1 DEF MoneyInv, LockInv, AttemptsAreFor
  <2>3. hold[attempt[a].res].pending
    BY <2>1, <2>2 DEF MoneyInv, LockInv, PendingIffUnresolved, AttemptsOf, Unresolved
  <2>4. hold[attempt[a].res].status = "HELD"
    BY <2>2, <2>3 DEF MoneyInv, LockInv, TypeOK, HoldTypeOK
  <2> QED
    BY <2>1, <2>3, <2>4
<1> QED
  BY <1>1, MoneyInvariant, PTL

\* Under the same assumptions no reservation has two sessions that are paid or
\* can still be: the vendor is charged at most once.
THEOREM NobodyPaysTwice == RefusalIsFinal /\ ~LatePayment => (Spec => []ChargedOnce)
<1> SUFFICES ASSUME RefusalIsFinal /\ ~LatePayment
             PROVE  Spec => []ChargedOnce
  OBVIOUS
<1>1. MoneyInv => ChargedOnce
  <2> SUFFICES ASSUME MoneyInv, NEW a \in Attempt, NEW b \in Attempt,
                      attempt[a].res = attempt[b].res,
                      Payable(a) \/ session[a] = "paid", Payable(b) \/ session[b] = "paid"
               PROVE  a = b
    BY DEF ChargedOnce
  <2>1. ASSUME NEW c \in Attempt, Payable(c) \/ session[c] = "paid"
        PROVE  attempt[c].status \in Live
    <3>1. attempt[c].opened /\ session[c] \in {"open", "settling", "paid"}
      BY <2>1 DEF MoneyInv, AttemptSession, Payable
    <3> QED
      BY <3>1, PaidAreLive DEF Sound, Live, Unresolved
  <2> QED
    BY <2>1 DEF MoneyInv, LockInv, OneLiveAttempt
<1> QED
  BY <1>1, MoneyInvariant, PTL

\* Under the same assumptions money Stripe took is never forgotten: its attempt
\* is still looked at by reconcile, or has its booking or its refund.
THEOREM MoneyIsTracked == RefusalIsFinal /\ ~LatePayment => (Spec => []PaymentsAreTracked)
<1> SUFFICES ASSUME RefusalIsFinal /\ ~LatePayment
             PROVE  Spec => []PaymentsAreTracked
  OBVIOUS
<1>1. MoneyInv => PaymentsAreTracked
  <2> SUFFICES ASSUME MoneyInv, NEW a \in Attempt, session[a] = "paid"
               PROVE  \/ attempt[a].status = "OPEN"
                      \/ attempt[a].fulfillment = "FULFILLED" /\ booking[attempt[a].res] = a
                      \/ attempt[a].fulfillment = "UNFULFILLED" /\ refund[a].status # "NONE"
    BY DEF PaymentsAreTracked
  <2>1. AttemptMoney(a) /\ AttemptSession(a)
    BY DEF MoneyInv
  <2>2. attempt[a].status \in {"OPEN", "SUCCEEDED"}
    BY <2>1, PaidAreLive DEF AttemptSession, Sound
  <2>3. attempt[a].fulfillment \in {"", "FULFILLED", "UNFULFILLED"}
    BY DEF MoneyInv, LockInv, TypeOK, AttemptRow
  <2> QED
    BY <2>1, <2>2, <2>3 DEF AttemptMoney
<1> QED
  BY <1>1, MoneyInvariant, PTL

-----------------------------------------------------------------------------
(* Checkout implements the sale *)

\* The sale a row is, at a time.
ShownAt(row, t) ==
  IF row.status = "HELD" /\ row.expires <= t /\ ~row.pending THEN "EXPIRED" ELSE row.status

\* The sale a row stands for.
View(row, t) ==
  CASE row.pending -> "paying"
    [] ShownAt(row, t) = "HELD" /\ ~row.pending -> "held"
    [] ShownAt(row, t) = "CONFIRMED" -> "sold"
    [] ShownAt(row, t) \in {"EXPIRED", "RELEASED"} -> "over"
    [] OTHER -> "none"

\* SaleOf reads nothing but its row and the time.
LEMMA SaleIsView ==
  ASSUME NEW r \in Reservation
  PROVE  SaleOf(r) = View(hold[r], now) /\ SaleOf(r)' = View(hold'[r], now')
  BY DEF SaleOf, StatusShown, View, ShownAt

\* Each row stands for one sale.
LEMMA Views ==
  ASSUME NEW row \in HoldRow, row.pending => row.status = "HELD", NEW t \in Nat
  PROVE  /\ row.pending => View(row, t) = "paying"
         /\ ~row.pending =>
              /\ row.status = "HELD" /\ row.expires > t => View(row, t) = "held"
              /\ row.status = "HELD" /\ row.expires <= t => View(row, t) = "over"
              /\ row.status \in {"EXPIRED", "RELEASED"} => View(row, t) = "over"
              /\ row.status = "CONFIRMED" => View(row, t) = "sold"
              /\ row.status = "NONE" => View(row, t) = "none"
<1>1. row.status \in HoldStatus /\ row.expires \in Nat /\ row.pending \in BOOLEAN
  BY DEF HoldRow
<1>2. CASE row.pending
  <2>1. ShownAt(row, t) = "HELD"
    BY <1>2 DEF ShownAt
  <2> QED
    BY <1>2, <2>1, Zenon DEF View
<1>3. CASE ~row.pending
  <2>1. row.status # "HELD" => ShownAt(row, t) = row.status
    BY DEF ShownAt
  <2>2. row.status = "HELD" /\ row.expires > t => ShownAt(row, t) = "HELD"
    BY <1>1 DEF ShownAt
  <2>3. row.status = "HELD" /\ row.expires <= t => ShownAt(row, t) = "EXPIRED"
    BY <1>3 DEF ShownAt
  <2> QED
    BY <1>3, <2>1, <2>2, <2>3 DEF View
<1> QED
  BY <1>2, <1>3

\* A row that was at most switched is the same sale; so is a held row that was
\* not due.
LEMMA SameSale ==
  ASSUME LockInv, LockInv', NEW r \in Reservation, now' = now,
         hold'[r] = hold[r] \/ hold'[r] = LockedRows[r]
  PROVE  SaleOf(r)' = SaleOf(r)
<1>1. hold[r] \in HoldRow /\ (hold[r].pending => hold[r].status = "HELD") /\ now \in Nat
  BY HoldAssumption DEF LockInv, TypeOK, HoldTypeOK
<1>2. CASE hold'[r] = hold[r]
  BY <1>2, SaleIsView
<1>3. CASE hold'[r] = LockedRows[r] /\ ~Lapsed(hold[r])
  BY <1>3, SaleIsView, LockedRowsAre, ExpireLapsedRow DEF LockInv, TypeOK, LockedRows
<1>4. CASE hold'[r] = LockedRows[r] /\ Lapsed(hold[r])
  <2>1. LockedRows[r] \in HoldRow /\ LockedRows[r].status = "EXPIRED" /\ ~LockedRows[r].pending
    BY <1>4, LockedRowsAre, ExpireLapsedRow DEF LockInv, TypeOK, LockedRows, Lapsed
  <2>2. View(LockedRows[r], now) = "over"
    BY <1>1, <2>1, Views
  <2>3. View(hold[r], now) = "over"
    BY <1>1, <1>4, Views DEF Lapsed
  <2> QED
    BY <1>4, <2>2, <2>3, SaleIsView
<1> QED
  BY <1>2, <1>3, <1>4

\* The sale of a reservation, from the row as it was locked.
LEMMA LockedSale ==
  ASSUME LockInv, NEW r \in Reservation
  PROVE  /\ LockedRows[r].status = "HELD" /\ ~LockedRows[r].pending => SaleOf(r) = "held"
         /\ LockedRows[r].pending <=> hold[r].pending
         /\ hold[r].pending => SaleOf(r) = "paying" /\ LockedRows[r] = hold[r]
         /\ LockedRows[r].status = "NONE" => SaleOf(r) = "none"
         /\ LockedRows[r] \in HoldRow
<1>1. hold[r] \in HoldRow /\ (hold[r].pending => hold[r].status = "HELD") /\ now \in Nat
      /\ hold[r].expires \in Nat
  BY HoldAssumption DEF LockInv, TypeOK, HoldTypeOK, HoldRow
<1>2. /\ LockedRows[r] \in HoldRow /\ LockedRows[r].pending = hold[r].pending
      /\ Lapsed(hold[r]) => LockedRows[r].status = "EXPIRED"
      /\ ~Lapsed(hold[r]) => LockedRows[r] = hold[r]
  BY LockedRowsAre, ExpireLapsedRow DEF LockInv, TypeOK, LockedRows
<1>3. CASE Lapsed(hold[r])
  BY <1>2, <1>3 DEF Lapsed
<1>4. CASE ~Lapsed(hold[r])
  <2>1. hold[r].status = "HELD" /\ ~hold[r].pending => hold[r].expires > now
    BY <1>1, <1>4 DEF Lapsed
  <2> QED
    BY <1>1, <1>2, <1>4, <2>1, Views, SaleIsView
<1> QED
  BY <1>3, <1>4

\* The sale's steps, from what they change.
Others(s) == \A r \in Reservation : r # s => SaleOf(r)' = SaleOf(r)
SameOf == \A a \in Attempt : attempt'[a].res = attempt[a].res
SameMoney == \A a \in Attempt : MoneyOf(a)' = MoneyOf(a)
OtherMoney(p) == \A a \in Attempt : a # p => MoneyOf(a)' = MoneyOf(a)

\* If no row changes its sale, and no money moves, the sale stands still.
LEMMA SaleStutters ==
  ASSUME \A r \in Reservation : SaleOf(r)' = SaleOf(r), SameOf, SameMoney
  PROVE  UNCHANGED Sales!saleVars
  BY DEF Sales!saleVars, SameOf, SameMoney

\* One reservation changes and no money moves.
LEMMA StallMoves ==
  ASSUME NEW s \in Reservation, Others(s), SameOf, SameMoney,
         \/ SaleOf(s) = "none" /\ SaleOf(s)' = "held"
         \/ SaleOf(s) = "held" /\ SaleOf(s)' = "over"
         \/ SaleOf(s) = "held" /\ SaleOf(s)' = "sold" /\ AttemptsOf(s) = {}
         \/ /\ SaleOf(s) = "paying" /\ SaleOf(s)' \in {"held", "over"}
            /\ \A a \in AttemptsOf(s) : MoneyOf(a) # "taken"
  PROVE  Sales!Next
<1> DEFINE st == [r \in Reservation |-> SaleOf(r)]
           of == [a \in Attempt |-> attempt[a].res]
           mo == [a \in Attempt |-> MoneyOf(a)]
<1>1. of' = of /\ mo' = mo
  BY DEF SameOf, SameMoney
<1>2. st' = [st EXCEPT ![s] = SaleOf(s)']
  BY DEF Others
<1>3. st[s] = SaleOf(s)
  OBVIOUS
<1>4. CASE SaleOf(s) = "none" /\ SaleOf(s)' = "held"
  BY <1>1, <1>2, <1>3, <1>4 DEF Sales!Next, Sales!Hold
<1>5. CASE SaleOf(s) = "held" /\ SaleOf(s)' = "over"
  <2>1. st' = [r \in Reservation |-> IF r \in {s} THEN "over" ELSE st[r]]
    BY <1>2, <1>5
  <2>2. {s} \in SUBSET Reservation /\ \A r \in {s} : st[r] = "held"
    BY <1>5
  <2>3. Sales!Lapse({s})
    BY <1>1, <2>1, <2>2 DEF Sales!Lapse
  <2> QED
    BY <2>2, <2>3 DEF Sales!Next
<1>6. CASE SaleOf(s) = "held" /\ SaleOf(s)' = "sold" /\ AttemptsOf(s) = {}
  <2>1. Sales!PaymentsOf(s) = {}
    BY <1>6 DEF Sales!PaymentsOf, AttemptsOf
  <2>2. Sales!SellFree(s)
    BY <1>1, <1>2, <1>3, <1>6, <2>1 DEF Sales!SellFree
  <2> QED
    BY <2>2 DEF Sales!Next
<1>7. CASE /\ SaleOf(s) = "paying" /\ SaleOf(s)' \in {"held", "over"}
           /\ \A a \in AttemptsOf(s) : MoneyOf(a) # "taken"
  <2>1. \A q \in Sales!PaymentsOf(s) : mo[q] # "taken"
    BY <1>7 DEF Sales!PaymentsOf, AttemptsOf
  <2>2. Sales!StopPaying(s)
    BY <1>1, <1>2, <1>3, <1>7, <2>1 DEF Sales!StopPaying
  <2> QED
    BY <2>2 DEF Sales!Next
<1> QED
  BY <1>4, <1>5, <1>6, <1>7

\* One payment moves.
LEMMA MoneyMoves ==
  ASSUME NEW s \in Reservation, NEW p \in Attempt, attempt'[p].res = s,
         \A a \in Attempt : a # p => attempt'[a].res = attempt[a].res,
         Others(s), OtherMoney(p),
         \/ /\ attempt[p].res = None /\ SaleOf(s) = "held" /\ SaleOf(s)' = "paying"
            /\ MoneyOf(p)' = MoneyOf(p)
         \/ /\ attempt[p].res = s /\ SaleOf(s) = "paying" /\ SaleOf(s)' = "paying"
            /\ MoneyOf(p) = "none" /\ MoneyOf(p)' = "taken"
            /\ \A a \in AttemptsOf(s) : MoneyOf(a) # "taken"
         \/ /\ attempt[p].res = s /\ SaleOf(s) = "paying" /\ MoneyOf(p) = "taken"
            /\ <<SaleOf(s)', MoneyOf(p)'>> \in {<<"sold", "kept">>, <<"over", "owed">>}
         \/ /\ attempt[p].res = s /\ SaleOf(s)' = SaleOf(s)
            /\ MoneyOf(p) = "owed" /\ MoneyOf(p)' = "returned"
  PROVE  Sales!Next
<1> DEFINE st == [r \in Reservation |-> SaleOf(r)]
           of == [a \in Attempt |-> attempt[a].res]
           mo == [a \in Attempt |-> MoneyOf(a)]
<1>1. /\ of' = [of EXCEPT ![p] = s]
      /\ attempt[p].res = s => of' = of
  OBVIOUS
<1>2. st' = [st EXCEPT ![s] = SaleOf(s)'] /\ (SaleOf(s)' = SaleOf(s) => st' = st)
  BY DEF Others
<1>3. mo' = [mo EXCEPT ![p] = MoneyOf(p)'] /\ (MoneyOf(p)' = MoneyOf(p) => mo' = mo)
  BY DEF OtherMoney
<1>4. st[s] = SaleOf(s) /\ of[p] = attempt[p].res /\ mo[p] = MoneyOf(p)
  OBVIOUS
<1>5. CASE /\ attempt[p].res = None /\ SaleOf(s) = "held" /\ SaleOf(s)' = "paying"
           /\ MoneyOf(p)' = MoneyOf(p)
  <2>1. Sales!BeginPaying(s, p)
    BY <1>1, <1>2, <1>3, <1>4, <1>5 DEF Sales!BeginPaying
  <2> QED
    BY <2>1 DEF Sales!Next
<1>6. CASE /\ attempt[p].res = s /\ SaleOf(s) = "paying" /\ SaleOf(s)' = "paying"
           /\ MoneyOf(p) = "none" /\ MoneyOf(p)' = "taken"
           /\ \A a \in AttemptsOf(s) : MoneyOf(a) # "taken"
  <2>1. \A q \in Sales!PaymentsOf(s) : mo[q] # "taken"
    BY <1>6 DEF Sales!PaymentsOf, AttemptsOf
  <2>2. Sales!Charge(s, p)
    BY <1>1, <1>2, <1>3, <1>4, <1>6, <2>1 DEF Sales!Charge
  <2> QED
    BY <2>2 DEF Sales!Next
<1>7. CASE /\ attempt[p].res = s /\ SaleOf(s) = "paying" /\ MoneyOf(p) = "taken"
           /\ <<SaleOf(s)', MoneyOf(p)'>> \in {<<"sold", "kept">>, <<"over", "owed">>}
  <2>1. Sales!Sell(s, p) \/ Sales!Fall(s, p)
    BY <1>1, <1>2, <1>3, <1>4, <1>7 DEF Sales!Sell, Sales!Fall
  <2> QED
    BY <2>1 DEF Sales!Next
<1>8. CASE /\ attempt[p].res = s /\ SaleOf(s)' = SaleOf(s)
           /\ MoneyOf(p) = "owed" /\ MoneyOf(p)' = "returned"
  <2>1. Sales!GiveBack(p)
    BY <1>1, <1>2, <1>3, <1>4, <1>8 DEF Sales!GiveBack
  <2> QED
    BY <2>1 DEF Sales!Next
<1> QED
  BY <1>5, <1>6, <1>7, <1>8

\* Money is undecided only for an attempt that is still live.
LEMMA TakenIsOpen ==
  ASSUME MoneyInv, Sound, NEW a \in Attempt
  PROVE  /\ session[a] = "paid" => attempt[a].opened /\ attempt[a].status \in {"OPEN", "SUCCEEDED"}
         /\ session[a] = "paid" /\ attempt[a].status = "OPEN" => MoneyOf(a) = "taken"
         /\ session[a] # "paid" => MoneyOf(a) = "none"
         /\ MoneyOf(a) = "taken" => session[a] = "paid" /\ attempt[a].status = "OPEN"
         /\ session[a] = "paid" /\ attempt[a].fulfillment = "UNFULFILLED" =>
              MoneyOf(a) = IF payback[a] = "succeeded" THEN "returned" ELSE "owed"
<1>1. AttemptMoney(a) /\ AttemptSession(a) /\ attempt[a].fulfillment \in {"", "FULFILLED", "UNFULFILLED"}
  BY DEF MoneyInv, LockInv, TypeOK, AttemptRow
<1>2. session[a] = "paid" => attempt[a].opened /\ attempt[a].status \in {"OPEN", "SUCCEEDED"}
  BY <1>1, PaidAreLive DEF AttemptSession
<1>3. attempt[a].status = "OPEN" => attempt[a].fulfillment = ""
  BY <1>1 DEF AttemptMoney
<1>4. CASE session[a] # "paid"
  <2>1. payback[a] = "none"
    BY <1>1, <1>4 DEF AttemptMoney
  <2> QED
    BY <1>4, <2>1, Zenon DEF MoneyOf
<1>5. CASE session[a] = "paid" /\ attempt[a].fulfillment = ""
  <2>1. payback[a] = "none" /\ attempt[a].status = "OPEN"
    BY <1>1, <1>2, <1>5 DEF AttemptMoney
  <2> QED
    BY <1>2, <1>5, <2>1 DEF MoneyOf
<1>6. CASE session[a] = "paid" /\ attempt[a].fulfillment = "FULFILLED"
  <2>1. payback[a] = "none"
    BY <1>1, <1>6 DEF AttemptMoney
  <2> QED
    BY <1>2, <1>3, <1>6, <2>1 DEF MoneyOf
<1>7. CASE session[a] = "paid" /\ attempt[a].fulfillment = "UNFULFILLED"
  BY <1>2, <1>3, <1>7 DEF MoneyOf
<1> QED
  BY <1>1, <1>4, <1>5, <1>6, <1>7

\* No money is taken for a reservation whose one live attempt is not paid.
LEMMA NoneTaken ==
  ASSUME MoneyInv, Sound, NEW a \in Attempt, attempt[a].status \in Live, session[a] # "paid"
  PROVE  \A b \in AttemptsOf(attempt[a].res) : MoneyOf(b) # "taken"
<1> SUFFICES ASSUME NEW b \in Attempt, attempt[b].res = attempt[a].res, MoneyOf(b) = "taken"
             PROVE  FALSE
  BY DEF AttemptsOf
<1>1. session[b] = "paid" /\ attempt[b].status \in Live
  BY TakenIsOpen DEF Live, Unresolved
<1> QED
  BY <1>1 DEF MoneyInv, LockInv, OneLiveAttempt

\* An attempt that kept its row, session and refund kept its money.
LEMMA MoneyStays ==
  ASSUME NEW a \in Attempt, attempt'[a].fulfillment = attempt[a].fulfillment,
         session'[a] = session[a], payback'[a] = payback[a]
  PROVE  MoneyOf(a)' = MoneyOf(a)
  BY DEF MoneyOf

\* Stripe takes or returns one payment's money, or nothing a sale shows.
LEMMA StripeSale ==
  ASSUME MoneyInv, MoneyInv', Sound, StripeMove, Nothing
  PROVE  Sales!Next \/ UNCHANGED Sales!saleVars
<1>1. UNCHANGED <<now, hold, attempt>>
  BY DEF Nothing, dbVars
<1>2. (\A r \in Reservation : SaleOf(r)' = SaleOf(r)) /\ SameOf
  BY <1>1, SaleIsView DEF SameOf
<1>3. CASE UNCHANGED stripeVars
  BY <1>1, <1>2, <1>3, MoneyStays, SaleStutters DEF stripeVars, SameMoney
<1>4. ASSUME NEW a \in Attempt,
             \A b \in Attempt : b # a => session'[b] = session[b] /\ payback'[b] = payback[b]
      PROVE  Sales!Next \/ UNCHANGED Sales!saleVars
  <2>1. OtherMoney(a)
    BY <1>1, <1>4, MoneyStays DEF OtherMoney
  <2>2. SessionMove(a) /\ PaybackMove(a) /\ AttemptMoney(a) /\ AttemptSession(a)
    BY DEF StripeMove, MoneyInv
  <2>3. CASE MoneyOf(a)' = MoneyOf(a)
    BY <1>2, <2>1, <2>3, SaleStutters DEF OtherMoney, SameMoney
  <2>4. CASE session[a] # "paid" /\ session'[a] = "paid"
    <3>1. attempt[a].opened /\ session[a] \in {"open", "settling"}
      BY <2>2, <2>4 DEF SessionMove, AttemptSession, Sound
    <3>2. attempt[a].status = "OPEN"
      BY <2>4, <3>1, PaidAreLive
    <3>3. attempt[a].fulfillment = ""
      BY <2>2, <3>2 DEF AttemptMoney
    <3>4. MoneyOf(a) = "none"
      BY <2>4, TakenIsOpen
    <3>5. MoneyOf(a)' = "taken"
      <4>1. payback[a] = "none" /\ payback'[a] = payback[a]
        BY <2>2, <3>3 DEF AttemptMoney, PaybackMove
      <4> QED
        BY <1>1, <2>4, <3>3, <4>1, Zenon DEF MoneyOf
    <3>6. attempt[a].res \in Reservation /\ hold[attempt[a].res].pending
      BY <3>2 DEF MoneyInv, LockInv, AttemptsAreFor, PendingIffUnresolved, AttemptsOf, Unresolved
    <3>7. SaleOf(attempt[a].res) = "paying"
      BY <3>6, LockedSale DEF MoneyInv
    <3>8. \A b \in AttemptsOf(attempt[a].res) : MoneyOf(b) # "taken"
      BY <2>4, <3>2, NoneTaken DEF Live, Unresolved
    <3> QED
      BY <1>1, <1>2, <2>1, <3>4, <3>5, <3>6, <3>7, <3>8, MoneyMoves DEF Others
  <2>5. CASE session[a] # "paid" /\ session'[a] # "paid"
    <3>1. payback[a] = "none" /\ payback'[a] = "none"
      BY <2>2, <2>5 DEF AttemptMoney, PaybackMove
    <3>2. MoneyOf(a) = "none" /\ MoneyOf(a)' = "none"
      BY <2>5, <3>1, Zenon DEF MoneyOf
    <3> QED
      BY <2>3, <3>2
  <2>6. CASE session[a] = "paid"
    <3>1. session'[a] = "paid"
      BY <2>2, <2>6 DEF SessionMove
    <3>2. CASE payback'[a] = payback[a]
      BY <1>1, <2>3, <2>6, <3>1, <3>2, MoneyStays
    <3>3. CASE payback'[a] # payback[a]
      <4>1. attempt[a].fulfillment = "UNFULFILLED" /\ payback[a] # "succeeded"
        BY <2>2, <3>3 DEF PaybackMove, AttemptMoney
      <4>2. MoneyOf(a) = "owed"
        BY <2>6, <4>1, TakenIsOpen
      <4>3. MoneyOf(a)' \in {"owed", "returned"}
        BY <1>1, <3>1, <4>1 DEF MoneyOf
      <4>4. attempt[a].res \in Reservation
        BY <4>1, <2>2 DEF AttemptMoney, MoneyInv, LockInv, AttemptsAreFor
      <4> QED
        BY <1>1, <1>2, <2>1, <2>3, <4>2, <4>3, <4>4, MoneyMoves DEF Others
    <3> QED
      BY <3>2, <3>3
  <2> QED
    BY <2>4, <2>5, <2>6
<1> QED
  BY <1>3, <1>4 DEF StripeMove

\* Vendors' holds, and time: one sale begins or ends, or those due all lapse.
LEMMA HoldsSale ==
  ASSUME MoneyInv, MoneyInv', Sound, Holds, UNCHANGED stripeVars
  PROVE  Sales!Next \/ UNCHANGED Sales!saleVars
<1>0. LockInv /\ LockInv' /\ now \in Nat /\ now' \in Nat
  BY HoldAssumption DEF MoneyInv, LockInv, TypeOK, HoldTypeOK
<1>1. SameOf /\ SameMoney /\ UNCHANGED attempt
  BY MoneyStays DEF Holds, SameOf, SameMoney, stripeVars
<1>2. CASE ExpireHolds
  BY <1>0, <1>1, <1>2, SameSale, SaleStutters DEF ExpireHolds, LockedRows
<1>3. CASE Tick
  <2> DEFINE S == {r \in Reservation : SaleOf(r)' # SaleOf(r)}
             st == [r \in Reservation |-> SaleOf(r)]
  <2>1. ASSUME NEW r \in Reservation, SaleOf(r)' # SaleOf(r)
        PROVE  SaleOf(r) = "held" /\ SaleOf(r)' = "over"
    <3>1. /\ hold[r] \in HoldRow /\ (hold[r].pending => hold[r].status = "HELD")
          /\ hold'[r] = hold[r] /\ now' = now + 1
      BY <1>0, <1>3 DEF LockInv, TypeOK, HoldTypeOK, Tick
    <3>2. SaleOf(r) = View(hold[r], now) /\ SaleOf(r)' = View(hold[r], now')
      BY <3>1, SaleIsView
    <3>3. hold[r].status \in {"NONE", "HELD", "EXPIRED", "RELEASED", "CONFIRMED"} /\ hold[r].expires \in Nat
      BY <3>1 DEF HoldRow, HoldStatus
    <3>4. hold[r].status = "HELD" /\ ~hold[r].pending
      BY <1>0, <2>1, <3>1, <3>2, <3>3, Views
    <3>5. ~(hold[r].expires <= now) /\ hold[r].expires <= now'
      <4>1. CASE hold[r].expires <= now
        <5>1. hold[r].expires <= now'
          BY <1>0, <3>1, <3>3, <4>1
        <5> QED
          BY <1>0, <2>1, <3>1, <3>2, <3>4, <4>1, <5>1, Views
      <4>2. CASE ~(hold[r].expires <= now) /\ ~(hold[r].expires <= now')
        <5>1. hold[r].expires > now /\ hold[r].expires > now'
          BY <1>0, <3>3, <4>2
        <5> QED
          BY <1>0, <2>1, <3>1, <3>2, <3>4, <5>1, Views
      <4> QED
        BY <4>1, <4>2
    <3>6. hold[r].expires > now
      BY <1>0, <3>3, <3>5
    <3> QED
      BY <1>0, <3>1, <3>2, <3>4, <3>5, <3>6, Views
  <2>2. st' = [r \in Reservation |-> IF r \in S THEN "over" ELSE st[r]] /\ \A r \in S : st[r] = "held"
    BY <2>1
  <2>3. [a \in Attempt |-> attempt[a].res]' = [a \in Attempt |-> attempt[a].res]
        /\ [a \in Attempt |-> MoneyOf(a)]' = [a \in Attempt |-> MoneyOf(a)]
    BY <1>1 DEF SameMoney
  <2>4. S \in SUBSET Reservation
    OBVIOUS
  <2> HIDE DEF S
  <2>5. Sales!Lapse(S)
    BY <2>2, <2>3 DEF Sales!Lapse
  <2> QED
    BY <2>4, <2>5 DEF Sales!Next
<1>4. ASSUME NEW b \in Business, NEW k \in RequestKey, NEW o \in Offer, NEW p \in Price,
             AcquireHold(b, k, o, p)
      PROVE  Sales!Next
  <2> DEFINE r == <<b, k>>
             new == [status |-> "HELD", offer |-> o, price |-> p,
                     expires |-> now + HoldFor, pending |-> FALSE]
  <2>1. hold' = [LockedRows EXCEPT ![r] = new] /\ LockedRows[r].status = "NONE" /\ now' = now
    BY <1>4 DEF AcquireHold, LockedRows
  <2>2. r \in Reservation /\ LockedRows \in [Reservation -> HoldRow]
    BY <1>0, LockedRowsAre DEF LockInv, TypeOK, WellFormed, Reservation
  <2>3. new.status = "HELD" /\ ~new.pending /\ new.expires = now + HoldFor
    OBVIOUS
  <2> HIDE DEF new, r
  <2>4. hold'[r] = new /\ \A q \in Reservation : q # r => hold'[q] = LockedRows[q]
    BY <2>1, <2>2
  <2>5. hold'[r] \in HoldRow
    BY <1>0, <2>2 DEF LockInv, TypeOK, HoldTypeOK
  <2>6. now + HoldFor > now
    BY <1>0, HoldAssumption
  <2>7. View(new, now) = "held"
    BY <1>0, <2>3, <2>4, <2>5, <2>6, Views
  <2>8. SaleOf(r)' = "held" /\ SaleOf(r) = "none"
    BY <1>0, <2>1, <2>2, <2>4, <2>7, SaleIsView, LockedSale
  <2>9. Others(r)
    BY <1>0, <2>1, <2>4, SameSale DEF Others
  <2> QED
    BY <1>1, <2>2, <2>8, <2>9, StallMoves
<1>5. ASSUME NEW r \in Reservation, ReleaseHold(r)
      PROVE  Sales!Next \/ UNCHANGED Sales!saleVars
  <2>1. hold' = ReleasedRows(LockedRows, r) /\ now' = now /\ ~LockedRows[r].pending
    BY <1>5 DEF ReleaseHold, LockedRows, Releasable
  <2>2. WellFormed(LockedRows)
    BY <1>0, LockedRowsAre DEF LockInv, TypeOK
  <2>3. \A q \in Reservation : q # r => hold'[q] = LockedRows[q]
    BY <2>1, <2>2, RowsAfter
  <2>4. Others(r)
    BY <1>0, <2>1, <2>3, SameSale DEF Others
  <2>5. CASE LockedRows[r].status # "HELD"
    <3>1. hold'[r] = LockedRows[r]
      BY <2>1, <2>5 DEF ReleasedRows
    <3>2. SaleOf(r)' = SaleOf(r)
      BY <1>0, <2>1, <3>1, SameSale
    <3> QED
      BY <1>1, <2>4, <3>2, SaleStutters DEF Others
  <2>6. CASE LockedRows[r].status = "HELD"
    <3>1. hold'[r].status = "RELEASED" /\ ~hold'[r].pending /\ hold'[r] \in HoldRow
      <4>1. hold' = [LockedRows EXCEPT ![r] = [LockedRows[r] EXCEPT !.status = "RELEASED"]]
        BY <2>1, <2>6 DEF ReleasedRows
      <4>2. LockedRows[r] \in HoldRow /\ LockedRows \in [Reservation -> HoldRow]
        BY <2>2 DEF WellFormed
      <4>3. \A e \in HoldRow : LET d == [e EXCEPT !.status = "RELEASED"] IN
                               d.status = "RELEASED" /\ d.pending = e.pending /\ d \in HoldRow
        BY Zenon DEF HoldRow, HoldStatus
      <4> QED
        BY <2>1, <4>1, <4>2, <4>3
    <3>2. View(hold'[r], now') = "over"
      BY <1>0, <3>1, Views
    <3>3. SaleOf(r) = "held" /\ SaleOf(r)' = "over"
      BY <1>0, <2>1, <2>6, <3>2, SaleIsView, LockedSale
    <3> QED
      BY <1>1, <2>4, <3>3, StallMoves
  <2> QED
    BY <2>5, <2>6
<1> QED
  BY <1>2, <1>3, <1>4, <1>5 DEF Holds

\* The row the beginning of a checkout leaves, with the others as they were.
LEMMA MarkedRow ==
  ASSUME NEW rows, WellFormed(rows), NEW r \in Reservation, NEW until \in Nat, NEW after,
         after = MarkPaymentPending(rows, r, until)
  PROVE  after[r].pending /\ \A q \in Reservation : q # r => after[q] = rows[q]
<1>1. LET new == MarkPaymentPending(rows, r, until)
      IN  new[r].pending /\ \A q \in Reservation : q # r => new[q] = rows[q]
  BY RowsAfter
<1> QED
  BY <1>1

\* The row the end of a checkout leaves.
LEMMA ClearedRow ==
  ASSUME NEW rows, WellFormed(rows), NEW r \in Reservation, NEW endHold \in BOOLEAN, NEW after,
         after = ClearPaymentPending(rows, r, endHold)
  PROVE  /\ ~after[r].pending
         /\ after[r].status = rows[r].status
            \/ (rows[r].status = "HELD" /\ after[r].status = "EXPIRED")
         /\ \A q \in Reservation : q # r => after[q] = rows[q]
<1>1. LET new == ClearPaymentPending(rows, r, endHold)
      IN  /\ ~new[r].pending
          /\ new[r].status = rows[r].status
             \/ (rows[r].status = "HELD" /\ new[r].status = "EXPIRED")
          /\ \A q \in Reservation : q # r => new[q] = rows[q]
  BY RowsAfter
<1> QED
  BY <1>1

\* What payments does: a checkout begins or ends, a stall is sold or the money
\* for it owed.
LEMMA PaymentSale ==
  ASSUME MoneyInv, MoneyInv', Sound, Effect, Cause, UNCHANGED stripeVars, ~Holds
  PROVE  Sales!Next \/ UNCHANGED Sales!saleVars
<1>0. LockInv /\ LockInv' /\ now \in Nat /\ WellFormed(LockedRows) /\ UNCHANGED <<session, payback>>
      /\ None \notin Reservation
  BY HoldAssumption, LockedRowsAre, CheckoutAssumption
     DEF MoneyInv, LockInv, TypeOK, HoldTypeOK, stripeVars
\* A row of the date's that is not the named one is the same sale.
<1>1. ASSUME NEW r \in Reservation, now' = now,
             \A q \in Reservation : q # r => hold'[q] = LockedRows[q]
      PROVE  Others(r)
  BY <1>0, <1>1, SameSale DEF Others
<1>2. ASSUME UNCHANGED attempt
      PROVE  SameOf /\ SameMoney
  BY <1>0, <1>2, MoneyStays DEF SameOf, SameMoney
<1>3. ASSUME NEW a \in Attempt, Only(a)
      PROVE  OtherMoney(a) /\ \A b \in Attempt : b # a => attempt'[b].res = attempt[b].res
  BY <1>0, <1>3, MoneyStays DEF Only, OtherMoney
<1>4. ASSUME NEW a \in Attempt, Only(a), attempt'[a].res = attempt[a].res,
             attempt'[a].fulfillment = attempt[a].fulfillment
      PROVE  SameOf /\ SameMoney
  BY <1>0, <1>3, <1>4, MoneyStays DEF SameOf, SameMoney, OtherMoney
<1>5. CASE Nothing \/ Locks \/ \E a \in Attempt : Repays(a)
  <2>1. UNCHANGED <<now, attempt>> /\ (hold' = hold \/ hold' = LockedRows)
    BY <1>5 DEF Nothing, dbVars, Locks, Repays
  <2>2. \A r \in Reservation : SaleOf(r)' = SaleOf(r)
    BY <1>0, <2>1, SameSale
  <2> QED
    BY <1>2, <2>1, <2>2, SaleStutters
<1>6. ASSUME NEW r \in Reservation, Frees(r)
      PROVE  Sales!Next
  <2>1. /\ LockedRows[r].status = "HELD" /\ LockedRows[r].price = 0
        /\ hold' = ConfirmLocked(LockedRows, r) /\ UNCHANGED <<now, attempt>>
    BY <1>6 DEF Frees
  <2>2. /\ hold'[r].status = "CONFIRMED" /\ ~hold'[r].pending
        /\ \A q \in Reservation : q # r => hold'[q] = LockedRows[q]
    BY <1>0, <2>1, RowsAfter
  <2>3. hold'[r] \in HoldRow
    BY <1>0 DEF LockInv, TypeOK, HoldTypeOK
  <2>4. SaleOf(r)' = "sold"
    BY <1>0, <2>1, <2>2, <2>3, Views, SaleIsView
  <2>5. AttemptsOf(r) = {} /\ hold[r].price = 0
    <3>1. hold[r].price = 0
      BY <1>0, <2>1, LockedRowsAre DEF LockInv, TypeOK
    <3> QED
      BY <1>0, <3>1 DEF LockInv, AttemptsAreFor, AttemptsOf
  <2>6. ~hold[r].pending
    BY <1>0, <2>5 DEF LockInv, PendingIffUnresolved
  <2>7. SaleOf(r) = "held"
    BY <1>0, <2>1, <2>6, LockedSale
  <2> QED
    BY <1>1, <1>2, <2>1, <2>2, <2>4, <2>5, <2>7, StallMoves
<1>7. ASSUME NEW r \in Reservation, NEW a \in Attempt, Begins(r, a)
      PROVE  Sales!Next
  <2>1. /\ LockedRows[r].status = "HELD" /\ attempt[a].status = "NONE" /\ attempt[a].res = None
        /\ hold' = MarkPaymentPending(LockedRows, r, now + SessionFor) /\ now' = now
        /\ Only(a) /\ attempt'[a].res = r /\ attempt'[a].fulfillment = ""
    BY <1>0, <1>7 DEF Begins, IsAttempt, LockInv, AttemptsAreFor
  <2>2. now + SessionFor \in Nat
    BY <1>0, CheckoutAssumption
  <2>3. hold'[r].pending /\ \A q \in Reservation : q # r => hold'[q] = LockedRows[q]
    <3>1. WellFormed(LockedRows)
      BY <1>0
    <3>2. \E until \in Nat : hold' = MarkPaymentPending(LockedRows, r, until)
      BY <2>1, <2>2, Zenon
    <3> QED
      BY <3>1, <3>2, MarkedRow
  <2>4. hold'[r] \in HoldRow /\ hold'[r].status = "HELD"
    BY <1>0, <2>3 DEF LockInv, TypeOK, HoldTypeOK
  <2>5. SaleOf(r)' = "paying"
    BY <1>0, <2>1, <2>3, <2>4, Views, SaleIsView
  <2>6. ~hold[r].pending
    BY <1>0, <1>7 DEF Begins, LockInv, PendingIffUnresolved, AttemptsOf, Live
  <2>7. SaleOf(r) = "held"
    BY <1>0, <2>1, <2>6, LockedSale
  <2>8. attempt[a].fulfillment = ""
    BY <2>1 DEF MoneyInv, AttemptMoney
  <2>9. MoneyOf(a)' = MoneyOf(a)
    BY <1>0, <2>1, <2>8, MoneyStays
  <2> QED
    BY <1>1, <1>3, <2>1, <2>3, <2>5, <2>7, <2>9, MoneyMoves
<1>8. ASSUME NEW a \in Attempt, Opens(a)
      PROVE  UNCHANGED Sales!saleVars
  <2>1. /\ Only(a) /\ attempt'[a].res = attempt[a].res
        /\ attempt'[a].fulfillment = attempt[a].fulfillment /\ UNCHANGED <<now, hold>>
    BY <1>8 DEF Opens, IsAttempt
  <2>2. \A r \in Reservation : SaleOf(r)' = SaleOf(r)
    BY <2>1, SaleIsView
  <2> QED
    BY <1>4, <2>1, <2>2, SaleStutters
\* The reservation of an unresolved attempt is being paid.
<1>9. ASSUME NEW a \in Attempt, attempt[a].status \in Unresolved
      PROVE  /\ attempt[a].res \in Reservation /\ hold[attempt[a].res].pending
             /\ SaleOf(attempt[a].res) = "paying"
             /\ LockedRows[attempt[a].res].pending /\ LockedRows[attempt[a].res].status = "HELD"
  <2>1. attempt[a].res \in Reservation /\ hold[attempt[a].res].pending
    BY <1>0, <1>9 DEF LockInv, AttemptsAreFor, Unresolved, PendingIffUnresolved, AttemptsOf
  <2>2. hold[attempt[a].res].status = "HELD"
    BY <1>0, <2>1 DEF LockInv, TypeOK, HoldTypeOK
  <2> QED
    BY <1>0, <2>1, <2>2, LockedSale
<1>10. ASSUME NEW a \in Attempt, NEW s \in {"FAILED", "EXPIRED", "CANCELED"}, Closes(a, s),
              Sound => NeverPaid(a)
       PROVE  Sales!Next
  <2> DEFINE r == attempt[a].res
  <2>1. /\ attempt[a].status \in Unresolved /\ hold' = ClearPaymentPending(LockedRows, r, FALSE)
        /\ Only(a) /\ attempt'[a].res = r /\ attempt'[a].fulfillment = attempt[a].fulfillment
        /\ now' = now
    BY <1>10 DEF Closes, IsAttempt
  <2>2. r \in Reservation /\ SaleOf(r) = "paying"
    BY <1>9, <2>1
  <2>3. /\ \A q \in Reservation : q # r => hold'[q] = LockedRows[q]
        /\ ~hold'[r].pending /\ hold'[r].status \in {"HELD", "EXPIRED"}
    <3>1. WellFormed(LockedRows)
      BY <1>0
    <3>2. \E end \in BOOLEAN : hold' = ClearPaymentPending(LockedRows, r, end)
      BY <2>1, Zenon
    <3>3. /\ ~hold'[r].pending
          /\ hold'[r].status = LockedRows[r].status
             \/ (LockedRows[r].status = "HELD" /\ hold'[r].status = "EXPIRED")
          /\ \A q \in Reservation : q # r => hold'[q] = LockedRows[q]
      BY <2>2, <3>1, <3>2, ClearedRow
    <3> QED
      BY <1>9, <2>1, <3>3
  <2>4. hold'[r] \in HoldRow /\ hold'[r].expires \in Nat
    BY <1>0, <2>2 DEF LockInv, TypeOK, HoldTypeOK, HoldRow
  <2>5. hold'[r].expires > now \/ hold'[r].expires <= now
    BY <1>0, <2>4
  <2>6. View(hold'[r], now) \in {"held", "over"}
    BY <1>0, <2>3, <2>4, <2>5, Views
  <2>7. session[a] # "paid" /\ attempt[a].status \in Live
    BY <1>10, <2>1 DEF NeverPaid, Live
  <2>8. \A b \in AttemptsOf(r) : MoneyOf(b) # "taken"
    BY <2>7, NoneTaken
  <2>9. SameOf /\ SameMoney
    BY <1>4, <2>1
  <2>10. Others(r)
    BY <1>1, <2>1, <2>2, <2>3
  <2>11. \E q \in Reservation : /\ q = r /\ Others(q) /\ SaleOf(q) = "paying"
                                /\ SaleOf(q)' \in {"held", "over"}
                                /\ \A b \in AttemptsOf(q) : MoneyOf(b) # "taken"
    <3>1. \A q \in Reservation : SaleOf(q)' = View(hold'[q], now)
      BY <2>1, SaleIsView
    <3> QED
      BY <2>2, <2>6, <2>8, <2>10, <3>1
  <2> QED
    BY <2>9, <2>11, StallMoves
<1>11. ASSUME NEW a \in Attempt, Books(a) \/ Falls(a), session[a] = "paid", NEW r \in Reservation,
              r = attempt[a].res
       PROVE  Sales!Next
  <2>1. attempt[a].status \in Unresolved
    <3>1. attempt[a].status \in {"OPEN", "SUCCEEDED"}
      BY <1>11, TakenIsOpen
    <3> QED
      BY <1>11, <3>1 DEF Books, Falls, Unresolved
  <2>2. attempt[a].status = "OPEN" /\ MoneyOf(a) = "taken"
    BY <1>11, <2>1, TakenIsOpen DEF Unresolved
  <2>3. SaleOf(r) = "paying" /\ LockedRows[r].pending /\ LockedRows[r].status = "HELD"
    BY <1>9, <1>11, <2>1
  <2>4. AttemptMoney(a) /\ attempt[a].fulfillment = ""  /\ payback[a] = "none"
    BY <2>2 DEF MoneyInv, AttemptMoney
  <2>5. Only(a) /\ attempt'[a].res = r /\ now' = now
    BY <1>11 DEF Books, Falls, IsAttempt
  <2>6. hold'[r] \in HoldRow /\ now' \in Nat
    BY <1>0, <2>5 DEF LockInv, TypeOK, HoldTypeOK
  <2>7. CASE Books(a)
    <3>1. hold' = ConfirmLocked(LockedRows, r) /\ attempt'[a].fulfillment = "FULFILLED"
      BY <1>11, <2>7 DEF Books, IsAttempt
    <3>2. /\ hold'[r].status = "CONFIRMED" /\ ~hold'[r].pending
          /\ \A q \in Reservation : q # r => hold'[q] = LockedRows[q]
      BY <1>0, <3>1, RowsAfter
    <3>3. SaleOf(r)' = "sold"
      BY <2>6, <3>2, Views, SaleIsView
    <3>4. MoneyOf(a)' = "kept"
      BY <1>0, <1>11, <2>4, <3>1, Zenon DEF MoneyOf
    <3>5. Others(r) /\ OtherMoney(a)
      BY <1>1, <1>3, <2>5, <3>2
    <3> QED
      BY <1>3, <1>11, <2>2, <2>3, <2>5, <3>3, <3>4, <3>5, MoneyMoves
  <2>8. CASE Falls(a)
    <3>1. hold' = ClearPaymentPending(LockedRows, r, TRUE) /\ attempt'[a].fulfillment = "UNFULFILLED"
      BY <1>11, <2>1, <2>8 DEF Falls, IsAttempt
    <3>2. /\ ~hold'[r].pending
          /\ \A q \in Reservation : q # r => hold'[q] = LockedRows[q]
      <4>1. WellFormed(LockedRows)
        BY <1>0
      <4>2. \E end \in BOOLEAN : hold' = ClearPaymentPending(LockedRows, r, end)
        BY <3>1, Zenon
      <4> QED
        BY <4>1, <4>2, ClearedRow
    <3>3. hold'[r].status = "EXPIRED"
      <4>1. LockedRows \in [Reservation -> HoldRow]
        BY <1>0 DEF WellFormed
      <4>2. hold'[r] = [LockedRows[r] EXCEPT !.pending = FALSE, !.status = "EXPIRED"]
        BY <2>3, <3>1, <4>1 DEF ClearPaymentPending
      <4> QED
        BY <4>1, <4>2 DEF HoldRow
    <3>4. SaleOf(r)' = "over"
      BY <2>6, <3>2, <3>3, Views, SaleIsView
    <3>5. MoneyOf(a)' = "owed"
      BY <1>0, <1>11, <2>4, <3>1 DEF MoneyOf
    <3>6. Others(r) /\ OtherMoney(a)
      BY <1>1, <1>3, <2>5, <3>2
    <3> QED
      BY <1>3, <1>11, <2>2, <2>3, <2>5, <3>4, <3>5, <3>6, MoneyMoves
  <2> QED
    BY <1>11, <2>7, <2>8
<1>12. ASSUME NEW a \in Attempt, Books(a) \/ Falls(a), session[a] = "paid"
       PROVE  Sales!Next
  <2>1. attempt[a].res \in Reservation
    BY <1>0, <1>12 DEF Books, Falls, Unresolved, LockInv, AttemptsAreFor
  <2> QED
    BY <1>11, <1>12, <2>1
<1> QED
  BY <1>5, <1>6, <1>7, <1>8, <1>10, <1>12 DEF Cause

\* Whatever fails or interleaves, checkouts, webhooks, refunds and reconcile go
\* through the sale of StallSale: a stall is sold only for money taken while it
\* was kept for its payer, and otherwise that money is owed back.  Assumed is
\* that Stripe never reports an expired session as paid and keeps refusing a
\* key it refused once.
THEOREM CheckoutIsASale == RefusalIsFinal /\ ~LatePayment => (Spec => ImplementsSale)
<1> SUFFICES ASSUME RefusalIsFinal /\ ~LatePayment
             PROVE  Spec => ImplementsSale
  OBVIOUS
<1>0. Sound
  BY DEF Sound
<1>1. Init => Sales!Init
  <2> SUFFICES ASSUME Init
               PROVE  Sales!Init
    OBVIOUS
  <2>1. LockInv /\ MoneyInv /\ now \in Nat
    BY LockInit, MoneyInit, HoldAssumption DEF LockInv, TypeOK, HoldTypeOK
  <2>2. \A r \in Reservation : SaleOf(r) = "none"
    <3>1. \A r \in Reservation : hold[r] \in HoldRow /\ hold[r].status = "NONE" /\ ~hold[r].pending
      BY <2>1 DEF Init, HoldInit, NoHold, LockInv, TypeOK, HoldTypeOK
    <3> QED
      BY <2>1, <3>1, Views, SaleIsView
  <2>3. \A a \in Attempt : attempt[a].res = None /\ MoneyOf(a) = "none"
    BY <1>0, <2>1, TakenIsOpen, NoAttemptIsAnAttempt DEF Init, IsAttempt
  <2> QED
    BY <2>2, <2>3 DEF Sales!Init
<1>2. MoneyInv /\ MoneyInv' /\ [Next]_vars => [Sales!Next]_(Sales!saleVars)
  <2> SUFFICES ASSUME MoneyInv, MoneyInv', [Next]_vars
               PROVE  Sales!Next \/ UNCHANGED Sales!saleVars
    OBVIOUS
  <2>1. Effect /\ Cause /\ StripeMove /\ (UNCHANGED stripeVars \/ Nothing)
    BY LockStep, Causes, StripeMoves DEF MoneyInv
  <2>2. CASE Nothing
    BY <1>0, <2>1, <2>2, StripeSale
  <2>3. CASE UNCHANGED stripeVars /\ Holds
    BY <1>0, <2>3, HoldsSale
  <2>4. CASE UNCHANGED stripeVars /\ ~Holds
    BY <1>0, <2>1, <2>4, PaymentSale
  <2> QED
    BY <2>1, <2>2, <2>3, <2>4
<1> QED
  BY <1>1, <1>2, MoneyInvariant, PTL DEF Spec, ImplementsSale, Sales!Spec
=============================================================================
