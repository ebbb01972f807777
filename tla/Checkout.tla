------------------------------ MODULE Checkout ------------------------------
(***************************************************************************)
(* Paying for a held stall through Stripe Checkout (backend/payments).     *)
(*                                                                         *)
(* Stripe is never called while a lock is held: an operation is a short    *)
(* transaction that records intent, a provider call, and a short           *)
(* transaction that records the outcome.  A worker is one request handler, *)
(* webhook delivery or reconcile pass; it keeps only what it has read or   *)
(* been answered, and other workers run between any two of its steps.  A   *)
(* worker may die anywhere.                                                *)
(***************************************************************************)
EXTENDS Reservations

CONSTANTS
  Attempt,        \* primary keys of payment attempts
  Worker,
  None,           \* no attempt, no reservation
  Free,           \* the "attempt" of a free stall's booking
  MaxAttempts,    \* CHECKOUT_MAX_ATTEMPTS
  SessionFor,     \* CHECKOUT_SESSION_SECONDS
  AbandonAfter,   \* ABANDON_CREATING_AFTER
  RefusalIsFinal, \* Stripe keeps refusing an idempotency key it refused once
  LatePayment     \* Stripe may report an expired session as paid after all

ASSUME CheckoutAssumption ==
  /\ None \notin Attempt \cup Reservation
  /\ Free \notin Attempt \cup {None}
  /\ {MaxAttempts, SessionFor, AbandonAfter} \subseteq Nat \ {0}
  /\ {RefusalIsFinal, LatePayment} \subseteq BOOLEAN

VARIABLES
  attempt,   \* PaymentAttempt rows
  booking,   \* per reservation: the attempt its booking records, Free or None
  refund,    \* the one compensating Refund row an attempt may have
  session,   \* Stripe: the Checkout Session and intent of an attempt's key
  payback,   \* Stripe: the refund of an attempt's payment
  worker     \* what each worker is doing

dbVars == <<hold, attempt, booking, refund>>
stripeVars == <<session, payback>>
vars == <<now, dbVars, stripeVars, worker>>

Unresolved == {"CREATING", "OPEN"}

Live == Unresolved \cup {"SUCCEEDED"}
Closed == {"EXPIRED", "CANCELED"}

\* Mutant: a refund Stripe accepted is taken for a finished one.
UnresolvedRefund_Forgets == {"REQUESTED"}

UnresolvedRefund == {"REQUESTED", "PENDING"}

AttemptRow ==
  [res: Reservation \cup {None},
   status: {"NONE", "CREATING", "OPEN", "SUCCEEDED", "EXPIRED", "CANCELED", "FAILED"},
   fulfillment: {"", "FULFILLED", "UNFULFILLED"},
   opened: BOOLEAN,    \* the session's id and URL are stored
   expires: Nat]

NoAttempt == [res |-> None, status |-> "NONE", fulfillment |-> "",
              opened |-> FALSE, expires |-> 0]

RefundStatus == {"NONE", "REQUESTED", "PENDING", "SUCCEEDED", "FAILED", "CANCELED"}
RefundRow == [status: RefundStatus, known: BOOLEAN]   \* known: stripe_refund_id is stored

NoRefund == [status |-> "NONE", known |-> FALSE]

\* "settling" is complete but unpaid while a delayed method settles, "unpaid"
\* complete after it failed, "refused" a key refused for good.
SessionState == {"none", "open", "settling", "paid", "unpaid", "expired", "refused"}
PaybackState == {"none", "pending", "succeeded", "failed", "canceled", "refused"}

Step == {"idle", "create", "opened", "fail", "created", "retrieve", "intent", "apply",
         "settled", "expire", "cancel", "finish", "release",
         "refund", "refunded", "refundError"}
Task == {"start", "sync", "cancel", "cancelled"}

WorkerRow == [step: Step, task: Task, att: Attempt \cup {None},
              res: Reservation \cup {None},
              seen: SessionState \cup PaybackState \cup RefundStatus]

Idle == [step |-> "idle", task |-> "sync", att |-> None, res |-> None, seen |-> "none"]

AttemptsOf(r) == {a \in Attempt : attempt[a].res = r}

\* Mutant: the row is read without switching lapsed holds first.
LockedRows_Lapsed == hold

\* Transactions of payments lock the reservation's date, then its row.
LockedRows == ExpireLapsed(hold)

-----------------------------------------------------------------------------
(* Moving a worker *)

GoWith(w, step, seen) == worker' = [worker EXCEPT ![w].step = step, ![w].seen = seen]
Go(w, step) == GoWith(w, step, "none")
Rest(w) == worker' = [worker EXCEPT ![w] = Idle]
Assign(w, step, task, a, r) ==
  worker' = [worker EXCEPT ![w] =
               [Idle EXCEPT !.step = step, !.task = task, !.att = a, !.res = r]]

At(w, step) == worker[w].step = step
Att(w) == worker[w].att
Row(w) == attempt[Att(w)]

\* What follows a sync: nothing, or the rest of cancel_checkout, which expires
\* a session that is still open and otherwise looks at the reservation.
EndSync(w) ==
  \/ worker[w].task \in {"start", "sync"} /\ Rest(w)
  \/ worker[w].task = "cancel" /\ Row(w).status = "CREATING" /\ Rest(w)
  \/ worker[w].task = "cancel" /\ Row(w).status = "OPEN" /\ Go(w, "expire")
  \/ /\ worker[w].task = "cancelled" \/ Row(w).status \notin Unresolved
     /\ worker[w].task \in {"cancel", "cancelled"}
     /\ Assign(w, "finish", "cancelled", None, Row(w).res)

-----------------------------------------------------------------------------
(* start_checkout *)

\* A live attempt is used again: one still being created is resumed, one past
\* its expiry is synced, any other is returned as it is.
ResumeCheckout(w, a) ==
  /\ At(w, "idle")
  /\ hold' = LockedRows
  /\ \/ /\ attempt[a].status = "CREATING"
        /\ Assign(w, "create", "start", a, None)
     \/ /\ attempt[a].status = "OPEN"
        /\ attempt[a].expires <= now
        /\ Assign(w, "created", "sync", a, None)
  /\ UNCHANGED <<now, attempt, booking, refund, stripeVars>>

\* _prepare_attempt.  The horizon leaves room for the attempt to be abandoned.
BeginCheckout(w, r, a) ==
  LET until == now + SessionFor IN
  /\ At(w, "idle")
  /\ until + AbandonAfter <= MaxTime
  /\ LockedRows[r].status = "HELD"
  /\ LockedRows[r].price # 0
  /\ \A b \in AttemptsOf(r) : attempt[b].status \notin Live
  /\ Cardinality(AttemptsOf(r)) < MaxAttempts
  /\ attempt[a].status = "NONE"
  /\ attempt' = [attempt EXCEPT ![a] =
                   [NoAttempt EXCEPT !.res = r, !.status = "CREATING", !.expires = until]]
  /\ hold' = MarkPaymentPending(LockedRows, r, until)
  /\ Assign(w, "create", "start", a, None)
  /\ UNCHANGED <<now, booking, refund, stripeVars>>

-----------------------------------------------------------------------------
(* _create_session: the call, made by a worker that read the attempt as     *)
(* CREATING, and what is recorded of its answer.                            *)

\* Stripe answers a key it knows with that key's session, and a new key with
\* a new session unless the expiry asked for has passed.
Creates(a) == session[a] # "refused" /\ (session[a] = "none" => now < attempt[a].expires)
AfterCreate(a) == IF session[a] = "none" THEN [session EXCEPT ![a] = "open"] ELSE session

CreateAnswered(w) ==
  /\ At(w, "create")
  /\ Creates(Att(w))
  /\ session' = AfterCreate(Att(w))
  /\ GoWith(w, "opened", AfterCreate(Att(w))[Att(w)])
  /\ UNCHANGED <<now, dbVars, payback>>

\* A definitive error: "nothing was created".
CreateRefused(w) ==
  /\ At(w, "create")
  /\ session[Att(w)] \in {"none", "refused"}
  /\ session' = IF RefusalIsFinal THEN [session EXCEPT ![Att(w)] = "refused"] ELSE session
  /\ Go(w, "fail")
  /\ UNCHANGED <<now, dbVars, payback>>

\* Mutant: given up at the session's expiry, without a margin.
Abandoned_AtExpiry(a) == now >= attempt[a].expires

\* Mutant: never given up.
Abandoned_Never(a) == FALSE

Abandoned(a) == now >= attempt[a].expires + AbandonAfter

\* A timeout or server error: the session may or may not have been created.
CreateUnknown(w) ==
  /\ At(w, "create")
  /\ \/ UNCHANGED session
     \/ Creates(Att(w)) /\ session' = AfterCreate(Att(w))
  /\ IF Abandoned(Att(w)) THEN Go(w, "fail")
     ELSE IF worker[w].task = "start" THEN Rest(w) ELSE Go(w, "created")
  /\ UNCHANGED <<now, dbVars, payback>>

\* Locks only the attempt.
RecordOpened(w) ==
  /\ At(w, "opened")
  /\ attempt' = IF Row(w).status = "CREATING"
                THEN [attempt EXCEPT ![Att(w)].status = "OPEN", ![Att(w)].opened = TRUE]
                ELSE attempt
  /\ IF worker[w].task = "start" /\ worker[w].seen = "open"
     THEN Rest(w)
     ELSE worker' = [worker EXCEPT ![w].step = "created", ![w].seen = "none",
                                   ![w].task = IF @ = "start" THEN "sync" ELSE @]
  /\ UNCHANGED <<now, hold, booking, refund, stripeVars>>

\* Mutant: the reservation's payment lock is not released.
Close_LeavesPending(w, status) ==
  /\ attempt' = IF Row(w).status \in Unresolved
                THEN [attempt EXCEPT ![Att(w)].status = status] ELSE attempt
  /\ hold' = LockedRows

\* Mutant: what was read before the lock decides.
Close_Stale(w, status) ==
  /\ attempt' = [attempt EXCEPT ![Att(w)].status = status, ![Att(w)].fulfillment = ""]
  /\ hold' = ClearPaymentPending(LockedRows, Row(w).res, FALSE)

\* _close_attempt: an unresolved attempt ended without payment.
Close(w, status) ==
  LET a == Att(w) IN
  IF attempt[a].status \in Unresolved
  THEN /\ attempt' = [attempt EXCEPT ![a].status = status]
       /\ hold' = ClearPaymentPending(LockedRows, attempt[a].res, FALSE)
  ELSE /\ hold' = LockedRows
       /\ UNCHANGED attempt

\* The create was refused, or abandoned.
CreateFailed(w) ==
  /\ At(w, "fail")
  /\ Close(w, "FAILED")
  /\ IF worker[w].task = "start" THEN Rest(w) ELSE Go(w, "created")
  /\ UNCHANGED <<now, booking, refund, stripeVars>>

-----------------------------------------------------------------------------
(* sync_attempt: asked for by webhooks, reconcile and "check again" *)

AskAgain == Unresolved \cup Closed

SyncAttempt(w, a) ==
  /\ At(w, "idle")
  /\ attempt[a].status \in Unresolved \/ attempt[a].opened
  /\ \/ attempt[a].status = "CREATING" /\ Assign(w, "create", "sync", a, None)
     \/ attempt[a].status # "CREATING" /\ Assign(w, "created", "sync", a, None)
  /\ UNCHANGED <<now, dbVars, stripeVars>>

\* The attempt is read (again, if a session was just created for it).
ReadAttempt(w) ==
  /\ At(w, "created")
  /\ \/ Row(w).status = "CREATING" /\ EndSync(w)
     \/ Row(w).status \in AskAgain \ {"CREATING"} /\ Go(w, "retrieve")
     \/ Row(w).status \notin AskAgain /\ Go(w, "settled")
  /\ UNCHANGED <<now, dbVars, stripeVars>>

RetrieveSession(w) ==
  /\ At(w, "retrieve")
  /\ GoWith(w, IF session[Att(w)] \in {"settling", "unpaid", "paid"} THEN "intent" ELSE "apply",
            session[Att(w)])
  /\ UNCHANGED <<now, dbVars, stripeVars>>

\* Mutant: a payment still being processed is taken for a failed one.
RetrieveIntent_Hasty(w) ==
  /\ At(w, "intent")
  /\ GoWith(w, "apply", IF session[Att(w)] = "paid" THEN worker[w].seen ELSE "unpaid")
  /\ UNCHANGED <<now, dbVars, stripeVars>>

\* A second call: a delayed payment may have failed since the session was
\* read.  If it succeeded since, the session read is still the unpaid one.
RetrieveIntent(w) ==
  /\ At(w, "intent")
  /\ GoWith(w, "apply", IF session[Att(w)] = "unpaid" THEN "unpaid" ELSE worker[w].seen)
  /\ UNCHANGED <<now, dbVars, stripeVars>>

\* Only last_error is recorded, and the attempt returned as saved.
RetrieveFailed(w) ==
  /\ worker[w].step \in {"retrieve", "intent"}
  /\ EndSync(w)
  /\ UNCHANGED <<now, dbVars, stripeVars>>

\* _apply_session, unpaid: expired, failed, or nothing to decide yet.
ApplyExpired(w) ==
  /\ At(w, "apply")
  /\ worker[w].seen = "expired"
  /\ Close(w, "EXPIRED")
  /\ Go(w, "settled")
  /\ UNCHANGED <<now, booking, refund, stripeVars>>

ApplyUnpaid(w) ==
  /\ At(w, "apply")
  /\ worker[w].seen = "unpaid"
  /\ Close(w, "FAILED")
  /\ Go(w, "settled")
  /\ UNCHANGED <<now, booking, refund, stripeVars>>

ApplyWaiting(w) ==
  /\ At(w, "apply")
  /\ worker[w].seen \in {"open", "settling"}
  /\ Go(w, "settled")
  /\ UNCHANGED <<now, dbVars, stripeVars>>

\* _record_paid: already recorded by a duplicate or concurrent delivery.
PaidAlready(w) ==
  /\ At(w, "apply")
  /\ worker[w].seen = "paid"
  /\ Row(w).status = "SUCCEEDED"
  /\ hold' = LockedRows
  /\ Go(w, "settled")
  /\ UNCHANGED <<now, attempt, booking, refund, stripeVars>>

Succeeded(a, fulfillment) ==
  [attempt EXCEPT ![a].status = "SUCCEEDED", ![a].fulfillment = fulfillment]

\* The payment proves itself, its attempt is still open, its hold still waits
\* for it and its vendor may still take part: the stall is booked.
PaidBooked(w) ==
  LET a == Att(w)
      r == attempt[a].res
  IN
  /\ At(w, "apply")
  /\ worker[w].seen = "paid"
  /\ attempt[a].status \in Unresolved
  /\ LockedRows[r].status = "HELD" /\ LockedRows[r].pending
  /\ hold' = ConfirmLocked(LockedRows, r)
  /\ attempt' = Succeeded(a, "FULFILLED")
  /\ booking' = [booking EXCEPT ![r] = a]
  /\ Go(w, "settled")
  /\ UNCHANGED <<now, refund, stripeVars>>

\* Saving a second live attempt of a reservation violates the unique index
\* payments_one_live_attempt_per_reservation.
OtherLive(a) == \E b \in AttemptsOf(attempt[a].res) : b # a /\ attempt[b].status \in Live

\* For any other reason the payment is kept as unfulfilled, with its refund.
PaidUnfulfilled(w) ==
  LET a == Att(w)
      r == attempt[a].res
  IN
  /\ At(w, "apply")
  /\ worker[w].seen = "paid"
  /\ attempt[a].status # "SUCCEEDED"
  /\ ~OtherLive(a)
  /\ hold' = IF attempt[a].status \in Unresolved
             THEN ClearPaymentPending(LockedRows, r, TRUE) ELSE LockedRows
  /\ attempt' = Succeeded(a, "UNFULFILLED")
  /\ refund' = [refund EXCEPT ![a].status = "REQUESTED"]
  /\ Go(w, "settled")
  /\ UNCHANGED <<now, booking, stripeVars>>

\* The transaction fails on the unique index and the worker with it.
PaidCollides(w) ==
  /\ At(w, "apply")
  /\ worker[w].seen = "paid"
  /\ Row(w).status # "SUCCEEDED"
  /\ OtherLive(Att(w))
  /\ Rest(w)
  /\ UNCHANGED <<now, dbVars, stripeVars>>

-----------------------------------------------------------------------------
(* process_refund: after a sync, on refund events and by reconcile *)

\* The worker remembers the status it read.
ProcessRefund(w, a) ==
  /\ At(w, "idle")
  /\ refund[a].status \in UnresolvedRefund
  /\ worker' = [worker EXCEPT ![w] =
                  [Idle EXCEPT !.step = "refund", !.att = a, !.seen = refund[a].status]]
  /\ UNCHANGED <<now, dbVars, stripeVars>>

\* The end of sync_attempt: an unfulfilled payment's refund is processed.
Settle(w) ==
  /\ At(w, "settled")
  /\ IF Row(w).fulfillment = "UNFULFILLED" /\ refund[Att(w)].status \in UnresolvedRefund
     THEN GoWith(w, "refund", refund[Att(w)].status)
     ELSE EndSync(w)
  /\ UNCHANGED <<now, dbVars, stripeVars>>

\* Stripe answers: the refund its key created, new or as it is by now.
Refunds(a) == payback[a] # "refused"
AfterRefund(a) ==
  IF payback[a] = "none"
  THEN {[payback EXCEPT ![a] = s] : s \in {"pending", "succeeded"}}
  ELSE {payback}

RefundAnswered(w) ==
  /\ At(w, "refund")
  /\ Refunds(Att(w))
  /\ payback' \in AfterRefund(Att(w))
  /\ GoWith(w, "refunded", payback'[Att(w)])
  /\ UNCHANGED <<now, dbVars, session>>

\* An outright refusal, of a refund whose id is not known yet: an operator
\* must look at it.
RefundRefused(w) ==
  /\ At(w, "refund")
  /\ ~refund[Att(w)].known
  /\ payback[Att(w)] \in {"none", "refused"}
  /\ payback' = IF RefusalIsFinal THEN [payback EXCEPT ![Att(w)] = "refused"] ELSE payback
  /\ GoWith(w, "refundError", "FAILED")
  /\ UNCHANGED <<now, dbVars, session>>

RefundUnknown(w) ==
  /\ At(w, "refund")
  /\ \/ UNCHANGED payback
     \/ Refunds(Att(w)) /\ payback' \in AfterRefund(Att(w))
  /\ GoWith(w, "refundError", worker[w].seen)
  /\ UNCHANGED <<now, dbVars, session>>

\* Mutant: an accepted refund is recorded as done.
RecordedAs_Early(s) ==
  IF s = "failed" THEN "FAILED" ELSE IF s = "canceled" THEN "CANCELED" ELSE "SUCCEEDED"

RecordedAs(s) ==
  CASE s = "succeeded" -> "SUCCEEDED"
    [] s = "failed" -> "FAILED"
    [] s = "canceled" -> "CANCELED"
    [] OTHER -> "PENDING"

\* _record_refund, with the refund's row locked.
RecordRefund(w) ==
  /\ At(w, "refunded")
  /\ refund' = IF refund[Att(w)].status \in UnresolvedRefund
               THEN [refund EXCEPT ![Att(w)] = [status |-> RecordedAs(worker[w].seen),
                                                known |-> TRUE]]
               ELSE refund
  /\ EndSync(w)
  /\ UNCHANGED <<now, hold, attempt, booking, stripeVars>>

\* The error path: an unconditional update without a lock, which writes back
\* the status the worker read before its call, or FAILED.
RecordRefundError(w) ==
  /\ At(w, "refundError")
  /\ refund' = [refund EXCEPT ![Att(w)].status = worker[w].seen]
  /\ EndSync(w)
  /\ UNCHANGED <<now, hold, attempt, booking, stripeVars>>

-----------------------------------------------------------------------------
(* cancel_checkout *)

\* The unresolved attempt is found without a lock; without one the hold is
\* released as it is.
CancelCheckout(w, r) ==
  /\ At(w, "idle")
  /\ hold[r].status # "NONE"
  /\ \/ \E a \in AttemptsOf(r) :
          \/ attempt[a].status = "CREATING" /\ Assign(w, "create", "cancel", a, None)
          \/ attempt[a].status = "OPEN" /\ Assign(w, "expire", "cancel", a, None)
     \/ /\ \A a \in AttemptsOf(r) : attempt[a].status \notin Unresolved
        /\ Assign(w, "finish", "cancelled", None, r)
  /\ UNCHANGED <<now, dbVars, stripeVars>>

\* Mutant: the session is given up here but not at Stripe.
ExpireAnswered_LocalOnly(w) ==
  /\ At(w, "expire")
  /\ session[Att(w)] = "open"
  /\ Go(w, "cancel")
  /\ UNCHANGED <<now, dbVars, stripeVars>>

ExpireAnswered(w) ==
  /\ At(w, "expire")
  /\ session[Att(w)] = "open"
  /\ session' = [session EXCEPT ![Att(w)] = "expired"]
  /\ Go(w, "cancel")
  /\ UNCHANGED <<now, dbVars, payback>>

\* A definitive error: already complete or expired, so find out which.
ExpireRefused(w) ==
  /\ At(w, "expire")
  /\ session[Att(w)] # "open"
  /\ worker' = [worker EXCEPT ![w].step = "created", ![w].task = "cancelled"]
  /\ UNCHANGED <<now, dbVars, stripeVars>>

\* The answer was lost after Stripe acted.  (An answer lost before is a
\* worker that stops.)
ExpireUnknown(w) ==
  /\ At(w, "expire")
  /\ session[Att(w)] = "open"
  /\ session' = [session EXCEPT ![Att(w)] = "expired"]
  /\ Rest(w)
  /\ UNCHANGED <<now, dbVars, payback>>

CloseCanceled(w) ==
  /\ At(w, "cancel")
  /\ Close(w, "CANCELED")
  /\ Assign(w, "finish", "cancelled", None, Row(w).res)
  /\ UNCHANGED <<now, booking, refund, stripeVars>>

\* The reservation is read again, without a lock.
FinishCancel(w) ==
  LET row == hold[worker[w].res] IN
  /\ At(w, "finish")
  /\ IF row.status = "HELD" /\ ~row.pending THEN Go(w, "release") ELSE Rest(w)
  /\ UNCHANGED <<now, dbVars, stripeVars>>

\* Refused if a new checkout has started since.
ReleaseCancelled(w) ==
  LET r == worker[w].res IN
  /\ At(w, "release")
  /\ \/ ReleaseHold(r)
     \/ ~Releasable(LockedRows, r) /\ UNCHANGED holdVars
  /\ Rest(w)
  /\ UNCHANGED <<attempt, booking, refund, stripeVars>>

-----------------------------------------------------------------------------
(* One transaction each: holds, free stalls, a worker that stops *)

AcquireStall ==
  /\ \E b \in Business, k \in RequestKey, o \in Offer, p \in Price : AcquireHold(b, k, o, p)
  /\ UNCHANGED <<attempt, booking, refund, stripeVars, worker>>

ReleaseStall(r) ==
  /\ ReleaseHold(r)
  /\ UNCHANGED <<attempt, booking, refund, stripeVars, worker>>

ExpireStalls ==
  /\ ExpireHolds
  /\ UNCHANGED <<attempt, booking, refund, stripeVars, worker>>

\* Mutant: the price is not looked at.
ConfirmFree_AnyPrice(r) ==
  /\ booking[r] = None
  /\ LockedRows[r].status = "HELD"
  /\ hold' = ConfirmLocked(LockedRows, r)
  /\ booking' = [booking EXCEPT ![r] = Free]
  /\ UNCHANGED <<now, attempt, refund, stripeVars, worker>>

\* confirm_free; a second call finds the booking and returns it.
ConfirmFree(r) ==
  /\ booking[r] = None
  /\ LockedRows[r].price = 0
  /\ LockedRows[r].status = "HELD"
  /\ hold' = ConfirmLocked(LockedRows, r)
  /\ booking' = [booking EXCEPT ![r] = Free]
  /\ UNCHANGED <<now, attempt, refund, stripeVars, worker>>

\* The worker's process is killed, between two steps or during a call: what it
\* has committed stays.
Stop(w) ==
  /\ ~At(w, "idle")
  /\ Rest(w)
  /\ UNCHANGED <<now, dbVars, stripeVars>>

\* Stripe expires an open session within AbandonAfter of its expiry, and a
\* create call takes seconds, so it is answered before its attempt may be
\* abandoned.
TimePasses ==
  /\ Tick
  /\ \A a \in Attempt :
       \/ session[a] = "open"
       \/ \E w \in Worker : At(w, "create") /\ Att(w) = a
       => now' < attempt[a].expires + AbandonAfter
  /\ UNCHANGED <<attempt, booking, refund, stripeVars, worker>>

-----------------------------------------------------------------------------
(* Stripe and the paying vendor *)

\* Only a session whose URL was stored can be paid: nobody else has the URL.
Pay(a) ==
  /\ attempt[a].opened
  /\ session[a] = "open" \/ (LatePayment /\ session[a] = "expired")
  /\ session' = [session EXCEPT ![a] = "paid"]
  /\ UNCHANGED <<now, dbVars, payback, worker>>

PayDelayed(a) ==
  /\ attempt[a].opened
  /\ session[a] = "open"
  /\ session' = [session EXCEPT ![a] = "settling"]
  /\ UNCHANGED <<now, dbVars, payback, worker>>

DelayedEnds(a) ==
  /\ session[a] = "settling"
  /\ \E s \in {"paid", "unpaid"} : session' = [session EXCEPT ![a] = s]
  /\ UNCHANGED <<now, dbVars, payback, worker>>

SessionExpires(a) ==
  /\ session[a] = "open"
  /\ attempt[a].expires <= now
  /\ session' = [session EXCEPT ![a] = "expired"]
  /\ UNCHANGED <<now, dbVars, payback, worker>>

RefundEnds(a) ==
  /\ payback[a] = "pending"
  /\ \E s \in {"succeeded", "failed", "canceled"} : payback' = [payback EXCEPT ![a] = s]
  /\ UNCHANGED <<now, dbVars, session, worker>>

-----------------------------------------------------------------------------
Init ==
  /\ HoldInit
  /\ attempt = [a \in Attempt |-> NoAttempt]
  /\ booking = [r \in Reservation |-> None]
  /\ refund = [a \in Attempt |-> NoRefund]
  /\ session = [a \in Attempt |-> "none"]
  /\ payback = [a \in Attempt |-> "none"]
  /\ worker = [w \in Worker |-> Idle]

\* A worker takes up an operation.
Take(w) ==
  \/ \E a \in Attempt :
       \/ ResumeCheckout(w, a)
       \/ \E r \in Reservation : BeginCheckout(w, r, a)
       \/ SyncAttempt(w, a)
       \/ ProcessRefund(w, a)
  \/ \E r \in Reservation : CancelCheckout(w, r)

\* A worker gets an answer or records one.
Work(w) ==
  \/ CreateAnswered(w) \/ CreateRefused(w) \/ CreateUnknown(w) \/ RecordOpened(w) \/ CreateFailed(w)
  \/ ReadAttempt(w) \/ RetrieveSession(w) \/ RetrieveIntent(w)
  \/ ApplyExpired(w) \/ ApplyUnpaid(w) \/ ApplyWaiting(w)
  \/ PaidAlready(w) \/ PaidBooked(w) \/ PaidUnfulfilled(w) \/ PaidCollides(w)
  \/ Settle(w) \/ RefundAnswered(w) \/ RefundRefused(w)
  \/ RecordRefund(w) \/ RecordRefundError(w)
  \/ ExpireAnswered(w) \/ ExpireRefused(w) \/ CloseCanceled(w)
  \/ FinishCancel(w) \/ ReleaseCancelled(w)

\* A worker's call ends without an answer, or the worker stops.
Fail(w) ==
  \/ RetrieveFailed(w) \/ RefundUnknown(w) \/ ExpireUnknown(w)
  \/ Stop(w)

Stripe(a) ==
  Pay(a) \/ PayDelayed(a) \/ DelayedEnds(a) \/ SessionExpires(a) \/ RefundEnds(a)

Next ==
  \/ \E w \in Worker : Take(w) \/ Work(w) \/ Fail(w)
  \/ \E a \in Attempt : Stripe(a)
  \/ \E r \in Reservation : ReleaseStall(r) \/ ConfirmFree(r)
  \/ AcquireStall \/ ExpireStalls \/ TimePasses

Spec == Init /\ [][Next]_vars

\* Fairness.  Time passes, and now and then no create call is in flight (a call
\* takes seconds; TimePasses waits for it).  Stripe expires sessions and ends
\* delayed payments and refunds.  A worker goes on with what it began.  From
\* some time on calls are answered and workers do not stop, except that
\* creating a session may fail for ever.  (A worker with nothing left to do
\* rests, which looks like stopping; such a step is work.)
Fairness ==
  /\ SF_vars(TimePasses)
  /\ []<>(\A w \in Worker : ~At(w, "create"))
  /\ WF_vars(\E a \in Attempt : SessionExpires(a) \/ DelayedEnds(a) \/ RefundEnds(a))
  /\ \A w \in Worker : WF_vars(Work(w))
  /\ <>[][\A w \in Worker : Fail(w) => Work(w)]_vars

FairSpec == Spec /\ Fairness

-----------------------------------------------------------------------------
(* Properties *)

TypeOK ==
  /\ HoldTypeOK
  /\ attempt \in [Attempt -> AttemptRow]
  /\ booking \in [Reservation -> Attempt \cup {None, Free}]
  /\ refund \in [Attempt -> RefundRow]
  /\ session \in [Attempt -> SessionState]
  /\ payback \in [Attempt -> PaybackState]
  /\ worker \in [Worker -> WorkerRow]

\* A hold waits for a payment exactly while one of its attempts is unresolved,
\* so no stall stays locked after its checkout ended and none is given away
\* while a checkout may still be paid.
PendingIffUnresolved ==
  \A r \in Reservation :
    hold[r].pending <=> \E a \in AttemptsOf(r) : attempt[a].status \in Unresolved

\* The session can still end paid by someone who has its URL.
Payable(a) == attempt[a].opened /\ session[a] \in {"open", "settling"}

\* "A payable session never loses its stall" (reservations/models.py).
PayableKeepsStall ==
  \A a \in Attempt : Payable(a) =>
    /\ attempt[a].status = "OPEN"
    /\ hold[attempt[a].res].status = "HELD"
    /\ hold[attempt[a].res].pending

\* A reservation is charged at most once: never two sessions of it that are
\* paid, or can still be.
ChargedOnce ==
  \A a, b \in Attempt :
    /\ attempt[a].res = attempt[b].res
    /\ Payable(a) \/ session[a] = "paid"
    /\ Payable(b) \/ session[b] = "paid"
    => a = b

\* A stall is confirmed exactly when it is booked, and a paid stall's booking
\* is backed by a payment Stripe took for it and nobody refunds.
BookingsArePaid ==
  \A r \in Reservation :
    /\ booking[r] # None <=> hold[r].status = "CONFIRMED"
    /\ booking[r] = Free => hold[r].price = 0 /\ AttemptsOf(r) = {}
    /\ booking[r] \in Attempt =>
         /\ attempt[booking[r]].res = r
         /\ attempt[booking[r]].fulfillment = "FULFILLED"
         /\ session[booking[r]] = "paid"
         /\ refund[booking[r]] = NoRefund
         /\ payback[booking[r]] = "none"

\* Money taken is never forgotten: its attempt is still to be looked at by
\* reconcile, or has its booking or its refund.
PaymentsAreTracked ==
  \A a \in Attempt : session[a] = "paid" =>
    \/ attempt[a].status = "OPEN"
    \/ attempt[a].fulfillment = "FULFILLED" /\ booking[attempt[a].res] = a
    \/ attempt[a].fulfillment = "UNFULFILLED" /\ refund[a].status # "NONE"

\* A refund recorded as done was done by Stripe, and for a payment that got no
\* stall.
RefundsAreReal ==
  \A a \in Attempt :
    /\ refund[a].status = "SUCCEEDED" => payback[a] = "succeeded"
    /\ payback[a] # "none" => attempt[a].fulfillment = "UNFULFILLED"

\* "Final refund states never change" (README.md).
FinalRefundsStay ==
  [][\A a \in Attempt :
       refund[a].status \in {"SUCCEEDED", "FAILED", "CANCELED"} =>
         refund'[a].status = refund[a].status]_vars

\* An attempt that ended is never live again, except that a payment reported
\* for a closed one is recorded; SUCCEEDED is never overwritten.
EndedAttemptsStay ==
  [][\A a \in Attempt :
       attempt[a].status \in {"SUCCEEDED", "FAILED"} \cup Closed =>
         \/ attempt'[a] = attempt[a]
         \/ /\ attempt[a].status # "SUCCEEDED"
            /\ attempt'[a].status = "SUCCEEDED"
            /\ attempt'[a].fulfillment = "UNFULFILLED"]_vars

\* A late payment for a closed attempt can still be recorded and refunded.
LatePaymentsCanBeRefunded ==
  \A a \in Attempt :
    session[a] = "paid" /\ attempt[a].status \in Closed =>
      \A b \in AttemptsOf(attempt[a].res) : attempt[b].status # "SUCCEEDED"

\* Nothing in the code runs reconcile: "an operator (or a cron job) must run it"
\* (README.md).  This assumes that somebody does, for ever, and that the --limit
\* of a run leaves no attempt and no refund out of every run.
ReconcileIsRun ==
  /\ SF_vars(\E w \in Worker, a \in Attempt :
                attempt[a].status \in Unresolved /\ SyncAttempt(w, a))
  /\ SF_vars(\E w \in Worker, a \in Attempt : ProcessRefund(w, a))

\* If reconcile is run again and again, every payment is at last booked or its
\* refund ended, whichever webhooks, answers and workers were lost on the way.
PaymentsSettle ==
  ReconcileIsRun =>
    \A a \in Attempt :
      session[a] = "paid" ~> \/ \E r \in Reservation : booking[r] = a
                             \/ refund[a].status \in {"SUCCEEDED", "FAILED", "CANCELED"}

\* If reconcile is run again and again, no stall stays locked by a checkout for
\* ever.  Without it one may: a lost webhook "waits for the next run" (README.md).
PendingEnds ==
  ReconcileIsRun => \A r \in Reservation : hold[r].pending ~> ~hold[r].pending

-----------------------------------------------------------------------------
(* The sale each reservation is (see StallSale) *)

SaleOf(r) ==
  CASE hold[r].pending -> "paying"
    [] StatusShown(hold[r]) = "HELD" /\ ~hold[r].pending -> "held"
    [] StatusShown(hold[r]) = "CONFIRMED" -> "sold"
    [] StatusShown(hold[r]) \in {"EXPIRED", "RELEASED"} -> "over"
    [] OTHER -> "none"

MoneyOf(a) ==
  CASE session[a] # "paid" -> "none"
    [] session[a] = "paid" /\ attempt[a].fulfillment = "" -> "taken"
    [] session[a] = "paid" /\ attempt[a].fulfillment = "FULFILLED" -> "kept"
    [] payback[a] = "succeeded" -> "returned"
    [] OTHER -> "owed"

Sales == INSTANCE StallSale WITH
  Sale <- Reservation,
  Payment <- Attempt,
  NoSale <- None,
  stall <- [r \in Reservation |-> SaleOf(r)],
  of <- [a \in Attempt |-> attempt[a].res],
  money <- [a \in Attempt |-> MoneyOf(a)]

\* Whatever fails or interleaves, each reservation and its money go through
\* the sale: a stall is only sold for money taken while it was kept for its
\* payer, and otherwise that money is owed back.
ImplementsSale == Sales!Spec
=============================================================================
