---------------------------- MODULE Reservations ----------------------------
(***************************************************************************)
(* Stall holds of one market date (backend/reservations).                  *)
(*                                                                         *)
(* Every write locks the date's row first, so each operation below is one  *)
(* transaction and one step.  A reservation row is identified by its       *)
(* business and request key: the key is unique per account and business,   *)
(* and repeating it never makes a second row.                              *)
(*                                                                         *)
(* Eligibility (published market and layout, approved application, no      *)
(* restriction, date not started) can only refuse an operation, and a      *)
(* refused transaction is rolled back.  Since any of it may change between *)
(* two transactions, it is left to chance: an enabled operation may also   *)
(* simply not happen.                                                      *)
(***************************************************************************)
EXTENDS Integers, FiniteSets

CONSTANTS
  Business,     \* vendor businesses approved for the date
  RequestKey,   \* idempotency keys the clients choose
  Offer,        \* stalls offered on the date
  NoOffer,      \* the offer of a row that does not exist
  Price,        \* possible price snapshots; 0 is a free stall
  HoldFor,      \* hold_duration()
  MaxTime       \* the last instant a run looks at

ASSUME HoldAssumption ==
  /\ NoOffer \notin Offer
  /\ Price \subseteq Nat
  /\ HoldFor \in Nat \ {0}
  /\ MaxTime \in Nat

VARIABLES
  hold,   \* the reservation rows
  now     \* the clock the transactions read

holdVars == <<hold, now>>

Reservation == Business \X RequestKey

HoldStatus == {"NONE", "HELD", "EXPIRED", "RELEASED", "CONFIRMED"}
Occupying == {"HELD", "CONFIRMED"}

HoldRow == [status: HoldStatus, offer: Offer \cup {NoOffer}, price: Nat,
            expires: Nat, pending: BOOLEAN]

NoHold == [status |-> "NONE", offer |-> NoOffer, price |-> 0,
           expires |-> 0, pending |-> FALSE]

-----------------------------------------------------------------------------
(* Reads *)

\* Mutant: a hold outlives its expiry by one instant in the bulk update only.
Lapsed_Late(row) ==
  row.status = "HELD" /\ row.expires < now /\ ~row.pending

\* Holds whose time is up but that are still marked HELD.
Lapsed(row) ==
  row.status = "HELD" /\ row.expires <= now /\ ~row.pending

\* Rows that block their stall now, whether or not the lapsed ones have been
\* switched yet.
Blocks(row) ==
  \/ row.status = "CONFIRMED"
  \/ row.status = "HELD" /\ (row.expires > now \/ row.pending)

\* The status members are shown.
StatusShown(row) ==
  IF row.status = "HELD" /\ row.expires <= now /\ ~row.pending
  THEN "EXPIRED" ELSE row.status

\* The stalls the public map shows as available.
ShownAvailable == {o \in Offer : \A r \in Reservation : Blocks(hold[r]) => hold[r].offer # o}

-----------------------------------------------------------------------------
(* What a transaction does to the rows once it holds the date's lock *)

\* Every transaction on the date starts by switching its lapsed holds.
ExpireLapsed(rows) ==
  [r \in Reservation |->
     IF Lapsed(rows[r]) THEN [rows[r] EXCEPT !.status = "EXPIRED"] ELSE rows[r]]

LaterOf(s, t) == IF s >= t THEN s ELSE t

MarkPaymentPending(rows, r, until) ==
  [rows EXCEPT ![r] = [rows[r] EXCEPT !.pending = TRUE, !.expires = LaterOf(rows[r].expires, until)]]

\* Mutant: the hold is kept although it can no longer be fulfilled.
ClearPaymentPending_KeepsHold(rows, r, endHold) ==
  [rows EXCEPT ![r] = [rows[r] EXCEPT !.pending = FALSE]]

ClearPaymentPending(rows, r, endHold) ==
  IF ~rows[r].pending THEN rows
  ELSE [rows EXCEPT ![r] =
          [rows[r] EXCEPT !.pending = FALSE,
                    !.status = IF rows[r].status = "HELD" /\ (endHold \/ rows[r].expires <= now)
                               THEN "EXPIRED" ELSE @]]

ConfirmLocked(rows, r) ==
  [rows EXCEPT ![r] = [rows[r] EXCEPT !.status = "CONFIRMED", !.pending = FALSE]]

-----------------------------------------------------------------------------
(* Operations *)

\* Mutant: only the business's own reservations are looked at.
CanTake_StallUnchecked(rows, b, o) ==
  \A r \in Reservation : rows[r].status \in Occupying => r[1] # b

\* Mutant: only the stall's reservations are looked at.
CanTake_BusinessUnchecked(rows, b, o) ==
  \A r \in Reservation : rows[r].status \in Occupying => rows[r].offer # o

\* The business has no stall on this date and nobody has this stall.
CanTake(rows, b, o) ==
  \A r \in Reservation :
    rows[r].status \in Occupying => r[1] # b /\ rows[r].offer # o

\* Repeating a request returns the row it made, whatever became of it.
ReplayHold(b, k, o) ==
  /\ hold[<<b, k>>].offer = o
  /\ hold' = ExpireLapsed(hold)
  /\ UNCHANGED now

AcquireHold(b, k, o, p) ==
  LET rows == ExpireLapsed(hold) IN
  /\ rows[<<b, k>>].status = "NONE"
  /\ CanTake(rows, b, o)
  /\ hold' = [rows EXCEPT ![<<b, k>>] =
                [status |-> "HELD", offer |-> o, price |-> p,
                 expires |-> now + HoldFor, pending |-> FALSE]]
  /\ UNCHANGED now

\* A confirmed stall, or one with a payment pending, is refused; a hold that
\* already ended is returned unchanged.
ReleasedRows(rows, r) ==
  IF rows[r].status = "HELD"
  THEN [rows EXCEPT ![r] = [rows[r] EXCEPT !.status = "RELEASED"]] ELSE rows

Releasable(rows, r) ==
  rows[r].status \in {"HELD", "EXPIRED", "RELEASED"} /\ ~rows[r].pending

ReleaseHold(r) ==
  LET rows == ExpireLapsed(hold) IN
  /\ Releasable(rows, r)
  /\ hold' = ReleasedRows(rows, r)
  /\ UNCHANGED now

ExpireHolds ==
  /\ \E r \in Reservation : Lapsed(hold[r])
  /\ hold' = ExpireLapsed(hold)
  /\ UNCHANGED now

Tick ==
  /\ now < MaxTime
  /\ now' = now + 1
  /\ UNCHANGED hold

-----------------------------------------------------------------------------
(* The trusted operations, called by payments within its own transactions  *)

\* Mutant: the date's lapsed holds are not switched first.
StartPayment_Unlocked(r, until) ==
  /\ hold[r].status = "HELD"
  /\ ~hold[r].pending
  /\ until > now
  /\ hold' = MarkPaymentPending(hold, r, until)
  /\ UNCHANGED now

StartPayment(r, until) ==
  LET rows == ExpireLapsed(hold) IN
  /\ rows[r].status = "HELD"
  /\ ~rows[r].pending
  /\ until > now
  /\ hold' = MarkPaymentPending(rows, r, until)
  /\ UNCHANGED now

EndPayment(r, endHold) ==
  /\ hold[r].pending
  /\ hold' = ClearPaymentPending(ExpireLapsed(hold), r, endHold)
  /\ UNCHANGED now

\* confirm_hold, and confirm_locked within a payment's transaction.
ConfirmHold(r) ==
  LET rows == ExpireLapsed(hold) IN
  /\ rows[r].status = "HELD"
  /\ hold' = ConfirmLocked(rows, r)
  /\ UNCHANGED now

-----------------------------------------------------------------------------
HoldInit ==
  /\ hold = [r \in Reservation |-> NoHold]
  /\ now = 0

HoldNext ==
  \/ \E b \in Business, k \in RequestKey, o \in Offer :
       \/ ReplayHold(b, k, o)
       \/ \E p \in Price : AcquireHold(b, k, o, p)
  \/ \E r \in Reservation :
       \/ ReleaseHold(r)
       \/ \E until \in 0..MaxTime + HoldFor : StartPayment(r, until)
       \/ \E endHold \in BOOLEAN : EndPayment(r, endHold)
       \/ ConfirmHold(r)
  \/ ExpireHolds
  \/ Tick

HoldSpec == HoldInit /\ [][HoldNext]_holdVars

-----------------------------------------------------------------------------
(* Properties *)

\* Every row is well formed and, as the database's check constraint
\* reservations_payment_pending_only_held says, only a HELD row awaits a
\* payment.
HoldTypeOK ==
  /\ hold \in [Reservation -> HoldRow]
  /\ now \in 0..MaxTime
  /\ \A r \in Reservation : hold[r].pending => hold[r].status = "HELD"

\* No stall is ever held or confirmed twice: the partial unique index
\* reservations_one_occupying_per_offer never has to refuse an insert.
OneOccupantPerStall ==
  \A q, r \in Reservation :
    /\ hold[q].status \in Occupying
    /\ hold[r].status \in Occupying
    /\ hold[q].offer = hold[r].offer
    => q = r

\* No business ever occupies two stalls of the date: the partial unique index
\* reservations_one_occupying_per_business_date never has to refuse an insert.
OneStallPerBusiness ==
  \A q, r \in Reservation :
    /\ hold[q].status \in Occupying
    /\ hold[r].status \in Occupying
    /\ q[1] = r[1]
    => q = r

\* A stall the public map shows as available can be taken by every business
\* that is shown no active reservation, although lapsed rows may still be
\* marked HELD: the read side (occupying) and the write side (_expire_lapsed)
\* agree at every instant.
AvailableStallsCanBeTaken ==
  \A o \in ShownAvailable, b \in Business :
    (\A r \in Reservation : r[1] = b => StatusShown(hold[r]) \notin Occupying)
      => CanTake(ExpireLapsed(hold), b, o)

\* A reservation its members have been shown as ended (EXPIRED included, even
\* before its row is switched) or confirmed is never shown otherwise again,
\* and its stall and price never change: no replay, checkout or late payment
\* revives it.
ShownEndIsFinal ==
  [][\A r \in Reservation :
       StatusShown(hold[r]) \in {"EXPIRED", "RELEASED", "CONFIRMED"} =>
         /\ StatusShown(hold[r])' = StatusShown(hold[r])
         /\ hold'[r].offer = hold[r].offer
         /\ hold'[r].price = hold[r].price]_holdVars
=============================================================================
