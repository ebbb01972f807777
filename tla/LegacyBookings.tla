--------------------------- MODULE LegacyBookings ---------------------------
(***************************************************************************)
(* The older booking pipeline of the web application (frontend/src/domain, *)
(* on Prisma): one event with one kind of space, vendors who apply, pay a  *)
(* fee, book and pay, and the Stripe webhook that confirms both.           *)
(*                                                                         *)
(* Every operation is a transaction at READ COMMITTED that reads, decides  *)
(* and then writes; the rows it writes are locked only from then on, so    *)
(* the writes are one step and what they were decided on may be old.  The  *)
(* steps with Stripe are not in the transaction, and a request may die     *)
(* between any two.                                                        *)
(***************************************************************************)
EXTENDS Integers, FiniteSets

CONSTANTS
  Process,  \* requests and webhook deliveries served at the same time
  Vendor,
  Booking,  \* booking rows a run can make
  Units,    \* availableQty of the space at first
  NoVendor,
  MaxDeclined  \* a run declines payments of this many intents

ASSUME LegacyAssumption ==
  /\ Vendor \cap Booking = {}
  /\ NoVendor \notin Vendor
  /\ IsFiniteSet(Booking)
  /\ Units \in Nat \ {0}

VARIABLES
  event,        \* its status
  fee,          \* whether the organization charges an application fee
  application,  \* per vendor, its status
  booking,      \* per row: vendor, status and whether canceledAt is set
  space,        \* availableQty and status
  payment,      \* per vendor (the fee) and booking: status of its Payment row
  intent,       \* and what became of its PaymentIntent at Stripe
  declined,     \* intents that failed at least once: Stripe reports each
  process

legacyVars ==
  <<event, fee, application, booking, space, payment, intent, declined, process>>

Paid == Vendor \cup Booking
Idle == [op |-> "none"]
NoBooking == [vendor |-> NoVendor, status |-> "NONE", canceled |-> FALSE]

Becomes(p, r) == process' = [process EXCEPT ![p] = r]
Does(p, op) == process[p].op = op

\* assertLegalTransition, for what a process read.
LegalBooking(from, to) ==
  \/ from = "PENDING_PAYMENT" /\ to \in {"CONFIRMED", "CANCELED", "EXPIRED"}
  \/ from = "CONFIRMED" /\ to = "CANCELED"
LegalApplication(from, to) ==
  \/ from = "PENDING_FEE_PAYMENT" /\ to = "SUBMITTED"
  \/ from = "SUBMITTED" /\ to \in {"APPROVED", "DENIED", "WITHDRAWN"}

-----------------------------------------------------------------------------
(* Applying, with or without a fee *)

\* The two actions read the organization at different times: the one with a
\* fee before the transaction that makes the application reads it again.
InitiateFee(p, v) ==
  /\ process[p] = Idle
  /\ fee
  /\ Becomes(p, [op |-> "apply", x |-> v, pays |-> TRUE])
  /\ UNCHANGED <<event, fee, application, booking, space, payment, intent, declined>>

SubmitApplication(p, v) ==
  /\ process[p] = Idle
  /\ Becomes(p, [op |-> "apply", x |-> v, pays |-> FALSE])
  /\ UNCHANGED <<event, fee, application, booking, space, payment, intent, declined>>

ReadEvent(p) ==
  /\ Does(p, "apply")
  /\ event = "APPLICATIONS_OPEN"
  /\ Becomes(p, [process[p] EXCEPT !.op = "insert"])
  /\ UNCHANGED <<event, fee, application, booking, space, payment, intent, declined>>

createPendingApplication(p) ==
  LET v == process[p].x IN
  /\ Does(p, "insert")
  /\ application[v] = "NONE"   \* the unique index decides
  /\ application' = [application EXCEPT ![v] =
       IF fee THEN "PENDING_FEE_PAYMENT" ELSE "SUBMITTED"]
  /\ Becomes(p, IF process[p].pays THEN [op |-> "charge", x |-> v] ELSE Idle)
  /\ UNCHANGED <<event, fee, booking, space, payment, intent, declined>>

\* An organizer's decision or the vendor's withdrawal.
BeginTransition(p, v, to) ==
  /\ process[p] = Idle
  /\ LegalApplication(application[v], to)
  /\ Becomes(p, [op |-> "review", x |-> v, to |-> to])
  /\ UNCHANGED <<event, fee, application, booking, space, payment, intent, declined>>

Transition(p) ==
  /\ Does(p, "review")
  /\ application' = [application EXCEPT ![process[p].x] = process[p].to]
  /\ Becomes(p, Idle)
  /\ UNCHANGED <<event, fee, booking, space, payment, intent, declined>>

-----------------------------------------------------------------------------
(* Booking *)

Available == space.status = "AVAILABLE" /\ space.available > 0

ReadSpace(p, v) ==
  /\ process[p] = Idle
  /\ Available
  /\ Becomes(p, [op |-> "book", vendor |-> v])
  /\ UNCHANGED <<event, fee, application, booking, space, payment, intent, declined>>

createBooking(p, b) ==
  /\ Does(p, "book")
  /\ application[process[p].vendor] = "APPROVED"
  /\ booking[b] = NoBooking   \* its new row
  /\ booking' = [booking EXCEPT ![b] =
       [vendor |-> process[p].vendor, status |-> "PENDING_PAYMENT", canceled |-> FALSE]]
  /\ Becomes(p, [op |-> "charge", x |-> b])
  /\ UNCHANGED <<event, fee, application, space, payment, intent, declined>>

BeginCancel(p, b) ==
  /\ process[p] = Idle
  /\ LegalBooking(booking[b].status, "CANCELED")
  /\ Becomes(p, [op |-> "cancel", x |-> b, was |-> booking[b].status])
  /\ UNCHANGED <<event, fee, application, booking, space, payment, intent, declined>>

cancelBooking(p) ==
  LET b == process[p].x IN
  /\ Does(p, "cancel")
  /\ booking' = [booking EXCEPT ![b] = [@ EXCEPT !.status = "CANCELED", !.canceled = TRUE]]
  /\ space' = IF process[p].was = "CONFIRMED"
              THEN [available |-> space.available + 1, status |-> "AVAILABLE"] ELSE space
  /\ Becomes(p, Idle)
  /\ UNCHANGED <<event, fee, application, payment, intent, declined>>

-----------------------------------------------------------------------------
(* Charging: the intent, then its Payment row, then the client's secret *)

\* Mutant: the secret is returned as soon as Stripe gave it.
CreateIntent_Returned(p) ==
  /\ Does(p, "charge")
  /\ intent' = [intent EXCEPT ![process[p].x] = "PAYABLE"]
  /\ Becomes(p, [process[p] EXCEPT !.op = "record"])
  /\ UNCHANGED <<event, fee, application, booking, space, payment, declined>>

CreateIntent(p) ==
  /\ Does(p, "charge")
  /\ intent' = [intent EXCEPT ![process[p].x] = "CREATED"]
  /\ Becomes(p, [process[p] EXCEPT !.op = "record"])
  /\ UNCHANGED <<event, fee, application, booking, space, payment, declined>>

CreatePayment(p) ==
  /\ Does(p, "record")
  /\ payment' = [payment EXCEPT ![process[p].x] = "PENDING"]
  /\ Becomes(p, [process[p] EXCEPT !.op = "return"])
  /\ UNCHANGED <<event, fee, application, booking, space, intent, declined>>

ReturnSecret(p) ==
  /\ Does(p, "return")
  /\ intent' = [intent EXCEPT ![process[p].x] = "PAYABLE"]
  /\ Becomes(p, Idle)
  /\ UNCHANGED <<event, fee, application, booking, space, payment, declined>>

-----------------------------------------------------------------------------
(* The webhook.  Stripe delivers an event again until it gets a 2xx, and    *)
(* may deliver it twice or late anyway.                                     *)

ReadPayment(p, x) ==
  /\ process[p] = Idle
  /\ intent[x] = "PAID"
  /\ payment[x] \in {"PENDING", "FAILED"}
  /\ Becomes(p, [op |-> "confirm", x |-> x])
  /\ UNCHANGED <<event, fee, application, booking, space, payment, intent, declined>>

ReadPaidFor(p) ==
  LET x == process[p].x IN
  /\ Does(p, "confirm")
  /\ IF x \in Booking THEN LegalBooking(booking[x].status, "CONFIRMED")
                      ELSE LegalApplication(application[x], "SUBMITTED")
  /\ Becomes(p, [process[p] EXCEPT !.op = "succeed"])
  /\ UNCHANGED <<event, fee, application, booking, space, payment, intent, declined>>

confirmApplicationFeePayment(p) ==
  LET v == process[p].x IN
  /\ Does(p, "succeed") /\ v \in Vendor
  /\ payment' = [payment EXCEPT ![v] = "SUCCEEDED"]
  /\ application' = [application EXCEPT ![v] = "SUBMITTED"]
  /\ Becomes(p, Idle)
  /\ UNCHANGED <<event, fee, booking, space, intent, declined>>

\* Mutant: a plain decrement.
CanDecrement_Always == TRUE

\* The update's WHERE, on the row as it is once locked; when nothing is left
\* to take, all is undone.
CanDecrement == space.available > 0

confirmBookingPayment(p) ==
  LET b == process[p].x IN
  /\ Does(p, "succeed") /\ b \in Booking
  /\ CanDecrement
  /\ payment' = [payment EXCEPT ![b] = "SUCCEEDED"]
  /\ booking' = [booking EXCEPT ![b].status = "CONFIRMED"]
  /\ space' = [available |-> space.available - 1,
               status |-> IF space.available = 1 THEN "SOLD_OUT" ELSE space.status]
  /\ Becomes(p, Idle)
  /\ UNCHANGED <<event, fee, application, intent, declined>>

\* However late, and whatever has happened since.
payment_failed(x) ==
  /\ x \in declined
  /\ payment[x] # "NONE"
  /\ payment' = [payment EXCEPT ![x] = "FAILED"]
  /\ UNCHANGED <<event, fee, application, booking, space, intent, declined, process>>

-----------------------------------------------------------------------------
(* The client, the organizer's settings, and requests that die *)

Pay(x) ==
  /\ intent[x] = "PAYABLE"
  /\ \/ intent' = [intent EXCEPT ![x] = "PAID"] /\ UNCHANGED declined
     \/ /\ declined' = declined \cup {x} /\ UNCHANGED intent
        /\ Cardinality(declined') <= MaxDeclined
  /\ UNCHANGED <<event, fee, application, booking, space, payment, process>>

\* The settings are read by new applications only: a run changes them until
\* every vendor has one.
Settling == \E v \in Vendor : application[v] = "NONE"

setEventApplicationsOpen(open) ==
  /\ Settling
  /\ event' = IF open THEN "APPLICATIONS_OPEN" ELSE "APPLICATIONS_CLOSED"
  /\ UNCHANGED <<fee, application, booking, space, payment, intent, declined, process>>

setVendorApplicationFee(charged) ==
  /\ Settling
  /\ fee' = charged
  /\ UNCHANGED <<event, application, booking, space, payment, intent, declined, process>>

\* Refused, undone or dead.
Stops(p) ==
  /\ process[p] # Idle
  /\ Becomes(p, Idle)
  /\ UNCHANGED <<event, fee, application, booking, space, payment, intent, declined>>

LegacyInit ==
  /\ event = "DRAFT"
  /\ fee = FALSE
  /\ application = [v \in Vendor |-> "NONE"]
  /\ booking = [b \in Booking |-> NoBooking]
  /\ space = [available |-> Units, status |-> "AVAILABLE"]
  /\ payment = [x \in Paid |-> "NONE"]
  /\ intent = [x \in Paid |-> "NONE"]
  /\ declined = {}
  /\ process = [p \in Process |-> Idle]

LegacyNext ==
  \/ \E p \in Process :
       \/ \E v \in Vendor : \/ InitiateFee(p, v) \/ SubmitApplication(p, v) \/ ReadSpace(p, v)
                            \/ \E to \in {"APPROVED", "DENIED", "WITHDRAWN"} :
                                 BeginTransition(p, v, to)
       \/ \E b \in Booking : createBooking(p, b) \/ BeginCancel(p, b)
       \/ \E x \in Paid : ReadPayment(p, x)
       \/ ReadEvent(p) \/ createPendingApplication(p) \/ Transition(p)
       \/ cancelBooking(p) \/ CreateIntent(p) \/ CreatePayment(p) \/ ReturnSecret(p)
       \/ ReadPaidFor(p) \/ confirmApplicationFeePayment(p) \/ confirmBookingPayment(p)
       \/ Stops(p)
  \/ \E x \in Paid : payment_failed(x) \/ Pay(x)
  \/ \E on \in BOOLEAN : setEventApplicationsOpen(on) \/ setVendorApplicationFee(on)

LegacySpec == LegacyInit /\ [][LegacyNext]_legacyVars

-----------------------------------------------------------------------------
(* Properties *)

Confirmed == {b \in Booking : booking[b].status = "CONFIRMED"}

\* However many payments succeed at once, and however often Stripe reports
\* each, the space is never oversold; until a booking is cancelled, every
\* confirmed one has taken a unit of its own.
NeverOversold ==
  /\ space.available >= 0
  /\ (\A b \in Booking : ~booking[b].canceled)
       => Cardinality(Confirmed) + space.available <= Units

\* A PaymentIntent that a client has paid always has its Payment row, so the
\* webhook can find what was paid for; and nothing is confirmed, nor a fee
\* recorded as received, that was not paid at Stripe.
PaymentsAreFound ==
  \A x \in Paid :
    /\ intent[x] = "PAID" => payment[x] # "NONE"
    /\ payment[x] = "SUCCEEDED" => intent[x] = "PAID"
    /\ x \in Confirmed => intent[x] = "PAID"
=============================================================================
