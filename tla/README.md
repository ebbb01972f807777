# Vendi, specified

Vendi lets market organizers lay out the stalls of a market date and lets vendor
businesses apply for a date, hold a stall, and pay for it through Stripe Checkout. This
directory holds TLA+ specifications of its backend (`src/backend`, Django and PostgreSQL)
and of the parts of its web application that keep state of their own (`src/frontend`), the
TLC configurations that model-check them, and theorems that TLAPS checks.

Run a check with `tlc -config stalls.cfg MCStalls`, a proof with
`tlapm ReservationsProofs.tla`. `PROJECT.json` lists runs, mutants, findings, hazards,
theorems, and for every definition the lines it models.

## 1. The system

| Component | State | Operations | Talks to | Hard behaviour |
|---|---|---|---|---|
| Reservations (`reservations/`) | `Reservation` rows: HELD, EXPIRED, RELEASED, CONFIRMED, `payment_pending`, `expires_at` | `acquire_hold`, `release_hold`, `expire_holds`; trusted: `lock_reservation`, `mark_payment_pending`, `clear_payment_pending`, `confirm_locked` | layouts (offers), applications, moderation; called by payments | rows lapse by the clock and are switched later; two unique indexes; idempotency keys |
| Payments (`payments/`) | `PaymentAttempt`, `Refund`, `PaymentAccount` | `start_checkout`, `sync_attempt`, `process_refund`, `cancel_checkout`, `confirm_free`, `reconcile` | Stripe (gateway), reservations, bookings | provider calls between transactions, unknown outcomes, crashes, races of webhook, reconcile and vendor |
| Webhook inbox (`payments/`) | `StripeEvent` rows | `receive_webhook`, `process_event`, `reconcile`'s second look | Stripe, payments | events late, twice, never; an event that is processed without its news |
| Bookings (`bookings/`) | `Booking` rows | written by payments, read here | payments | exactly one per confirmed stall |
| Layouts (`layouts/`) | versions with stalls, a date's layout, `StallOffer` rows | create, copy and save versions, save, publish, unpublish a date's layout | reservations (occupied offers) | revisions, freezing a version, offers of reserved stalls, reads of several statements |
| Applications (`applications/`) | intake per date, `Application` rows and events | configure intake, submit, withdraw, decide | markets, moderation | changed questions, decision against withdrawal, lock order against holds |
| Organizations, vendors (`organizations/`, `vendors/`) | memberships with roles, invitations | invite, resend, revoke, accept, change role, remove, leave, transfer | accounts | one owner at all times, stale inviters, rotated tokens |
| Moderation (`moderation/`) | restrictions with expiry and revocation | create, revoke | read by applications, reservations, payments | one effective restriction per target; races with what it forbids |
| Markets (`markets/`) | market status, dates, weekly series | create, publish, archive, move, cancel, create series | all of the above | repeated series requests, dates that move, clock changes |
| Discovery (`markets/discovery.py`) | none of its own; a cursor and pages at the visitor | search a page, show the map | markets, dates | several queries per answer, rows that change between pages, the antimeridian |
| Accounts (`accounts/`) | users, e-mail verification, passwords | register, verify, reset, change password | Django | links that may be used once |
| Market search page (`frontend/src/app/markets`) | filters in the address, a debounced text, list, markers | type, filter, locate, move the map, load more, retry | discovery API | answers out of order, effects after a drawing, stale callbacks |
| Plan editor page (`VersionEditor.tsx`) | a draft of a version's plan | edit, save, load | layouts API | lost answers, saves that overtake a load |
| Legacy booking pipeline (`frontend/src/domain`, Stripe webhook route) | Prisma bookings, payments, spaces, applications | apply, decide, book, pay, confirm, cancel | Stripe | read-then-write transactions, duplicate deliveries, cancellation against payment |

How they interact. Everything that changes who has a stall of a date runs in a database
transaction that locks that date's row first, so those transactions are serial. Payments
are different: Stripe is never called while a lock is held, so a checkout is a chain of
transactions and calls, run by request handlers, webhook deliveries and the command
`reconcile`, any of which may die between two links. That chain is the heart of the system
and the part its tests reach least. Layouts share the date's lock with reservations, which
ask them what is offered and whom they, in turn, ask what is occupied. Markets, applications
and moderation decide who may take part; each locks other rows, in other orders. A webhook
event carries no news itself: it makes a worker read the session at Stripe again.

What makes each part correct, in brief:

- reservations: no stall and no business is doubled on a date; what members were shown as
  ended stays ended; the public map agrees with the writers at every instant;
- payments: a payable session keeps its stall; nobody is charged twice; every payment ends
  as a booking or a refund, and no stall stays locked for ever, if `reconcile` is run again
  and again; ended attempts stay ended;
- inbox: an event counts as processed only once its news reached the attempt, or while the
  attempt is asked about anyway;
- layouts: a reserved stall stays offered; a plan a date uses never changes; nobody
  overwrites or publishes what they have not seen;
- applications, markets, moderation: one end for each application, answers to the
  questions that were asked, no participation against a restriction or on a cancelled date,
  no deadlock, one effective restriction per target;
- organizations and vendors: exactly one owner; no membership through a link that was
  rotated, revoked, used, or sent by someone who may no longer grant it;
- series: every slot of a requested series exists once, however often it is requested;
- discovery: whoever follows the cursors sees every market the search is about, once; the map
  shows the same list;
- pages: newer results are not replaced by older ones; the editor knows the plan of the
  revision it would overwrite; every plan that is saved is sound, and what the screen let
  through is refused only for what it does not look at or compares otherwise;
- legacy bookings: units are not oversold, and whoever can pay is found by the webhook.

`PROJECT.json` lists the places where each of these can go wrong under "hazards".

## 2. Modules

| Module | What it is |
|---|---|
| `Reservations` | holds of one date, one action per transaction |
| `Checkout` | EXTENDS `Reservations`: attempts, bookings, refunds, Stripe, workers; implements `StallSale` and `Reservations` |
| `StallSale` | abstract: what becomes of a stall and of the money paid for it |
| `StripeEvents` | the webhook inbox and `reconcile` around one attempt |
| `DateLayouts` | EXTENDS `Reservations`: versions, the date's layout and offers, the managers' screens |
| `Participation` | market, date, intake, application, restrictions and holds as requests that take row locks one by one |
| `Memberships` | the team of an organization, with invitations; and what any team promises |
| `VendorTeam` | a vendor business and its team; implements `Memberships` |
| `Recurrence`, `MarketDates` | weekly recurrence as a pure algorithm; a market's dates and series |
| `Discovery` | the server's search: which markets, in which order, pages and map |
| `SearchScreen` | the market search page |
| `PlanEditor` | the plan editor page with `save_version` |
| `LegacyBookings` | the Prisma pipeline |
| `MCCheckout`, `MCMemberships`, `MCLayouts` | instances for TLC of `Checkout`, `Memberships` and `DateLayouts` |
| `MCStalls` | instance for TLC: `Reservations` and `Participation` |
| `MCParts` | instance for TLC: `StallSale`, `Memberships`, `VendorTeam`, `LegacyBookings` and `StripeEvents` |
| `MCServices` | instance for TLC: `DateLayouts` and `Discovery` |
| `MCScreens` | instance for TLC: `MarketDates`, `SearchScreen` and `PlanEditor` |
| `ReservationsProofs`, `CheckoutProofs`, `DateLayoutsProofs`, `ParticipationProofs`, `MembershipsProofs`, `MarketDatesProofs` | theorems about the module of that name, with their proofs; `MembershipsProofs` also about `VendorTeam` |
| `PaymentPartsProofs` | theorems about `StallSale`, `StripeEvents` and `LegacyBookings` |
| `ScreensProofs` | theorems about `SearchScreen`, `PlanEditor` and `Discovery` |

`MCStalls`, `MCParts`, `MCServices` and `MCScreens` put modules that share no state into one
run: a behaviour picks one of them and leaves the others as they began, so the reachable
states are the sum of theirs, not the product. In `MCStalls` and `MCParts` they share their
model values, so that exchanging two values is a symmetry of whichever part runs.

Definitions whose comment begins with "Mutant:" are what the operator after them would be
with a plausible bug; no specification uses them (see section 3).

### Reservations

`hold` maps a business and a request key to a row, because the code makes at most one row
per key; `now` is the clock. Each operation is one action because each locks the date for
its whole transaction. `ExpireLapsed` is the first thing every operation does and is part
of each action, not a step of its own; `ExpireHolds` is the command that does only that.
`StartPayment`, `EndPayment` and `ConfirmHold` are the trusted operations as any caller may
use them under the lock; `Checkout` uses the same operators inside its own transactions.
A payment may be started to end at any time up to `MaxTime + HoldFor`, the latest end a
hold can have.

Abstractions. A refused operation rolls back and is no step. Eligibility (market and layout
published, application approved, no restriction, date not started) only refuses; it can
change between any two transactions, so it is left to chance here and is in `Participation`
and `DateLayouts`. A transaction's clock reading and its commit are one instant. Prices are
numbers of which only zero matters.

### Checkout

The database is `hold`, `attempt`, `booking`, `refund`; Stripe is `session` (a Checkout
Session with its payment intent, per idempotency key) and `payback` (the refund). A
`worker` is a request handler, a webhook delivery or a pass of `reconcile`: its `step` is
where it is in the code, `att` and `res` what it works on, `seen` what it was last answered,
and `task` what follows (`cancel_checkout` runs a sync inside).

| Code | Actions |
|---|---|
| `start_checkout`, `_prepare_attempt` | `BeginCheckout`, `ResumeCheckout` |
| `_create_session` | `CreateAnswered`, `CreateRefused`, `CreateUnknown`, then `RecordOpened` or `CreateFailed` |
| `sync_attempt` | `SyncAttempt`, `ReadAttempt`, `RetrieveSession`, `RetrieveIntent`, `RetrieveFailed`, `Settle` |
| `_apply_session`, `_record_paid`, `_close_attempt` | `ApplyExpired`, `ApplyUnpaid`, `ApplyWaiting`, `PaidAlready`, `PaidBooked`, `PaidUnfulfilled`, `PaidCollides`; `Close` |
| `process_refund`, `_record_refund` | `ProcessRefund`, `RefundAnswered`, `RefundRefused`, `RefundUnknown`, `RecordRefund`, `RecordRefundError` |
| `cancel_checkout` | `CancelCheckout`, `ExpireAnswered`, `ExpireRefused`, `ExpireUnknown`, `CloseCanceled`, `FinishCancel`, `ReleaseCancelled` |
| `confirm_free`, holds | `ConfirmFree`, `AcquireStall`, `ReleaseStall`, `ExpireStalls` |
| Stripe, the payer | `Pay`, `PayDelayed`, `DelayedEnds`, `SessionExpires`, `RefundEnds` |
| a killed process | `Stop` |

A read that follows a worker's own step with nothing in between that it could notice is
merged into that step. Whether a payment proves itself and whether its vendor may still
take part is left to chance, so `PaidUnfulfilled` may happen to any payment. Left out: an
intent that has not succeeded although its session is paid; a retrieval refused for good;
connected accounts; `last_error` and the counters kept for operators.

What is assumed of Stripe, and where it is stated:

- a key that created a session answers with that session, and a key refused once stays
  refused (`RefusalIsFinal`; Stripe does not keep the refusals of authentication and
  permission, see the known deviations);
- an open session is expired within `ABANDON_CREATING_AFTER` of its time and a create call
  is answered before then (`TimePasses`): the comment at that constant relies on it;
- a session reported expired is not paid (`LatePayment = FALSE`); the run `late` drops that;
- `BeginCheckout` starts no checkout the run's clock would not live to see abandoned
  (`until + AbandonAfter <= MaxTime`); this only cuts behaviours off at the end.

### StallSale

Three variables: what a sale's members are shown (`none`, `held`, `paying`, `sold`,
`over`), which sale a payment is for, and where its money is (`none`, `taken`, `kept`,
`owed`, `returned`). Selling and keeping the money is one step; so is giving up the stall
and owing the money. `Checkout` maps to it through `SaleOf` and `MoneyOf`: money is `taken`
from the moment Stripe has it, long before the code knows, which is what makes the
refinement say something about crashes.

### StripeEvents

One attempt's `session` at Stripe, the `attempt` row (status, and whether `last_error` is
set), an `inbox` row per event with the news it was sent for, and what each server is
`serving`. `SessionChanges` sends an event with every change; `receive_webhook` records it,
`FindAttempt` to `JudgeEvent` are `process_event` with the sync inside, `TakeUpAttempt` is
`reconcile`'s look at unresolved attempts, and a delivery that was recorded but not
processed can be taken up again by Stripe's retry or by `reconcile`. `WorkerDies` may come
between any two steps. A create call that is refused or abandoned, which closes the attempt
as FAILED without a session anybody can pay, is left out. What a sync does to stalls and refunds is `Checkout`'s. Events about
refunds take the same path and are left out; signatures and connected accounts too.

### DateLayouts

A version is a numbered plan: a canvas and the places of its stalls, places being numbers
(real rectangles are in `PlanEditor`). `version`, `layout` and `offer` are the rows;
`desk` is what each manager's screen has loaded, with the revision read with it; `copying`
is a copy between its two reads. A write takes the row locks it needs before its first check
and is one step. Loads are two statements (`OpenVersion`, `ReadStalls`; `OpenDate`,
`ReadOffers`), and so is the copy of `create_version`, because both run unlocked. The rows an
answer reads once its transaction has ended are read within it.

| Code | Actions |
|---|---|
| `create_version` | `create_version`, or for a copy `CopyRow`, `CopyStalls`, `CopyFails` |
| `save_version` | `save_version`, with `KeepsStalls`, `check_plan`, `Saved` |
| `save_date_layout`, `_protect_reserved_offers`, `_write_offers` | `save_date_layout`, with `protect_reserved_offers`, `LockVersion`, `write_offers` |
| `publish_date_layout`, `unpublish_date_layout` | the actions of that name |
| `list_versions`, `get_version`, `get_date_layout` | `OpenVersion`, `ReadStalls`, `OpenDate`, `ReadOffers` |
| `acquire_hold` on a published layout, then all of `Reservations` | `TakeStall`, `HoldStep` |

Publication, which the code makes depend on the market and the date as well, only needs
what is modelled here; what else may refuse it is in `Participation`.

### Participation

A request is a transaction. `Script` gives, for each operation, the row locks it takes and
the checks it makes between them, in the code's order; `GetLock`, `Check` and `Commit` run
the script, `Abort` is a refusal or a lost connection. Two things the code does are kept
because they matter: the market's status is read by the statement that locks the date, when
that statement starts, not when it gets the lock; and restrictions are read unlocked. The
date's lock is `FOR NO KEY UPDATE`, so foreign keys do not wait for it; the application's is
`FOR UPDATE`, which the foreign-key check of a hold's insert does wait for, and that is why
`acquire_hold` has `application` in its script after `date`. `form` is the vendor's page
with the version of the questions it shows. Left out: the texts and types of questions and
answers (`questions.py`), the profile snapshot taken with a submission.

### Memberships

The team of `organizations`, written so that it also says what the team of a vendor business
promises: the constant function `MANAGED_ROLES[kind]` says which roles a role invites, removes
and manages, and with a vendor's two roles "manages MEMBER" means "is the owner". That
`vendors` keeps the promise is not assumed: `VendorTeam` is its own code.
`member` holds the roles, `invitation` the rows (the digest of a row counts how often its
token was replaced), `active` the users with a confirmed, active account, `now` the clock.
A user stands for its address too; no code changes the address of an account.

Every write locks the team's row first and reads only then, so each operation is one
action. `accept_invitation` is the exception: it looks the link up, then locks the team of
the row it found. `OpenLink` is the first half and `AcceptInvitation` or `RefuseLink` the
second; between them the invitation may be resent, revoked, replaced or accepted, its
inviter demoted, and the reader's own account switched off, which the second half does not
ask again. Left out: names, slugs, profiles, the audit trail, e-mails, rate limits.

### VendorTeam

`backend/vendors` by its own words: `require_owner` instead of a table of roles, an invitation
without a role, a profile that only the owner edits, and the account as two facts, `enabled`
(an administrator's switch) and `confirmed` (a verified address). Operations ask only for
the first; transfer, acceptance and the inviter's own acceptance are what bring in the
second. `ImplementsTeam` maps both to the one set `active` of `Memberships` and gives every
invitation the role MEMBER. Left out: the texts of the profile, e-mails, rate limits.

### Recurrence and MarketDates

`Recurrence` is `recurrence.py` without strings: days are numbers (day 0 a Monday), a zone
is an offset with one clock change that skips or repeats an hour, and `build_slots` turns a
rule into instants, refusing (never shifting) local times that do not exist or exist twice.
`MarketDates` has the market, its dates in the order they were made, each with the slot of
the series it was generated for, and the series. Every operation locks the market's row, so
each is one step. `SeriesAreWhole` compares the dates with `build_slots` after any moves,
cancellations and repeated requests.

### Discovery

`markets/discovery.py` under the public API. `listing` and `calendar` are the rows, `cursor`,
`shown` and `page` a visitor who follows the cursors, `marks` the map's answer. A page takes
two queries (`search_page`, then `discover_markets`), and a truncated map a second one
(`count_markers`); organizers and the clock come between any two. `Sorted` is every list the
database may return for `ORDER BY`, so an order that is not total would show. `changed`
remembers whether a row changed, or a date ended, since the first page: cursors are offsets,
so nothing is promised across such a change. Coordinates are whole degrees; distance, the
degrees a radius spans and time zones are constants with the assumptions the code's formulas
give them (`DiscoveryAssumption`, in particular `CirclesAreNarrow`: what `near_prefilter_q`
computes its longitudes for). Left out: parsing of parameters, presets of dates, the number
of preview dates.

### SearchScreen

What the page asks for (`url`), what it was drawn with (`filters`), what is under way
(`calls`) and what it shows (`list`, `markers`) are separate variables, because they differ
in the code: changing the address is a navigation that ends later, effects run after a
drawing, and callbacks keep the filters of the drawing that made them. The server answers
with an abstract list of pages.

### PlanEditor

The screen's `draft`, what it has `saved`, and up to two requests (`call`) that outlive its
wait for them; the server's `plan` with rows by primary key. The screen's own checks
(`draftProblems`), the server's (`check_plan_of`) and `save_version`'s order of writes
(labels parked first, because the unique index on labels is checked row by row) are all
there. Requests that check nothing come too, one at a time.

Who says that two labels are the same differs: the screen compares them with `toLowerCase`
(`VersionEditor.tsx:68`), the server with `casefold` (`geometry.py:92`), the index with
`lower` (`models.py:104`). All three are constants and nothing is assumed of them, so they
may disagree as they do about "Straße" and "Strasse". What only the server looks at is there
too: `ServerOnly` are the labels it alone refuses (invisible characters, a real size that is
too large or has too many decimals; a label stands for all the texts and the real size of a
stall), and `MAX_STALLS` is its limit. The lengths of texts are limited by the form's fields
as well; what is too long counts as `NoLabel`, which only other clients send.

A request that is refused keeps its `Reason`, so that `SavedPlansAreSound` can say which
refusals the screen should have prevented: overlaps, stalls outside the canvas, missing or
doubled ids, labels that are the same to both. It could not foresee the rest. In particular a draft with "Straße" and
"Strasse" is shown without a problem and refused when it is saved, although the frontend's
README (line 271) says that duplicate labels "show immediately and block saving".

A version starts as `create_version` may have made it: drawn and checked with its canvas, or
copied, and then its stalls were checked with a canvas that need not be its own (see
`unchecked_copy` in section 3). Bounds: no edits during a load, and a request takes the first
free call. Left out: selection, and what of a stall is not its label or rectangle.

### LegacyBookings

One event with one kind of space. Every operation of `domain/` is a transaction at READ
COMMITTED that reads, decides and then writes, without locking what it read: the read is a
step, the writes are another, and `process` keeps what the request has read. Calls to
Stripe are outside (`CreateIntent`, `CreatePayment`, `ReturnSecret`), `Pay` is the client,
`ReadPayment` begins a webhook delivery, and `Stops` kills a request anywhere.
Subscriptions and Connect onboarding are left out.

## 3. What is checked

Every configuration turns deadlock checking off: an idle marketplace has nothing to do,
and time ends at the horizon `MaxTime`. (`NobodyWaitsInACircle` states the absence of
deadlocks that matters.)

| Run | Bounds | States | Shows |
|---|---|---|---|
| `stalls` | reservations: 2 businesses, 2 keys, 2 stalls, times 0..3; participation: 2 requests, 2 question lists, 2 restrictions, times 0..1, three sets of operations | 918,281 | `OneOccupantPerStall`, `OneStallPerBusiness`: the unique indexes never have to refuse. `AvailableStallsCanBeTaken`: the public map promises nothing a vendor would be refused. `ShownEndIsFinal`. `ApplicationsEndOnce`, `NobodyWaitsInACircle`, `AnswersFitQuestions`, `EntriesAreAllowed`, `OneRestrictionPerTarget` |
| `checkout` | 1 stall, 2 attempts, 2 workers, paid or free, times 0..4 | 1.15 million | `PendingIffUnresolved`, `PayableKeepsStall`, `ChargedOnce`, `BookingsArePaid`, `PaymentsAreTracked`, `RefundsAreReal`, and the refinement `ImplementsSale` |
| `late` | late payments; 2 businesses, 2 attempts, 1 worker, times 0..4 | 859,865 | `EndedAttemptsStay`; `HoldSpec`: checkout changes reservations only as `Reservations` allows |
| `recovery` | 1 attempt, 2 workers, fairness, times 0..3 | 78,409 | `PaymentsSettle`, `PendingEnds`, both if `ReconcileIsRun` |
| `plans` | plans: 2 managers, 2 versions of 1 stall, revisions to 2, 1 business, times 0..1; search: 2 markets, 3 dates, pages of 1 or 2, 1 marker, 2 searches | 955,900 | `OccupiedStallsAreOffered`, `UsedPlansStay`, `NothingIsOverwrittenUnseen`, `PublishedAsSeen`; `PagesAreWhole`, `MapShowsTheList` |
| `parts` | sale: 2 sales, 3 payments; team, business: 3 people, 2 invitations; legacy: 2 requests, 2 bookings, 1 unit; events: 2 workers, 2 events | 1.35 million | `MoneyBuysStalls`; `OneOwner`, `PendingAreOutsiders`, `JoinsAreInvited`, `EndedInvitationsStay`; `ImplementsTeam`: a vendor business is such a team; `NeverOversold`, `PaymentsAreFound`; `NewsIsNotLost` |
| `screens` | dates: 3 dates, 8 weekly rules, 2 zones; search: 1 text, 1 area, 2 pages; editor: 4 labels, positions -1..1, canvas to 2 by 2, at most 3 stalls, 2 edits, 2 calls | 2.33 million | `SeriesAreWhole`, `DatesStay`; `NewerResultsStay`; `SavedPlansAreSound`, `ScreenKnowsItsPlan` |

Why the bounds are enough to be interesting.

- `checkout`: two workers meet at every pair of steps of the same or different operations.
  Two attempts let the second begin after the first was closed, with a worker still holding
  the first one's answer. A hold lasts one unit, a session two, and
  abandonment comes one later, so a hold can lapse before, during and after a checkout,
  and an attempt can be abandoned inside the horizon.
- `late`: a second business can have taken the stall by the time the late payment is
  reported. There is one worker: that no other worker's older answer revives an ended
  attempt rests on the theorem `AttemptsEndOnce`, for any number of them.
- `stalls`: two keys let a business come back for another stall, and two stalls let two
  businesses swap. Two requests meet between every two locks of their scripts. `Mix` keeps
  a behaviour to operations that have something to say to each other: entering against
  archiving and restricting, restricting twice while a vendor submits, entering against
  everything else on the date. A longer circle of waiting than of two is excluded by proof.
- `plans`: a second version lets a date switch, and a revision lets a save be stale; a hold
  can lapse and be renewed while a manager looks at a screen. Two managers are needed to
  overwrite, and the proofs cover more of everything. Of the two searches one is a box across
  the antimeridian with a last day, the other a circle, with a word; two markets can be
  equally near with equal dates, and are more than one page and one map.
- `parts`: one accept request meets every other operation between its two halves; two
  legacy requests for one unit are what overselling takes; two events, two workers and a
  session that changes twice are what a repeated and an overtaken delivery take.
- `screens`: a rule's weeks and a date moved onto another slot's start fit into fifteen days;
  one zone has an hour that does not exist on a day of the rules. Two of the four labels
  are one to the server, two are one to the index alone, and one the server refuses; so every
  reason for a refusal occurs, and two calls let a resent save swap labels with a save under
  way. A plan starts with up to two stalls in its first row.

Symmetry is used only where the symmetric sets are interchangeable constants, and never
with liveness.

Fairness (`recovery`). `FairSpec` assumes what Stripe and the running processes do: time
passes; Stripe expires sessions and ends delayed payments and refunds; a worker finishes what
it began; and from some point on calls are answered. Creating a session is excepted: it may
fail for ever (a revoked key), which is the case `ABANDON_CREATING_AFTER` exists for. Also,
now and then no create call is in flight: a call is answered within seconds, while the
clock that abandons an attempt waits for calls that are (see `TimePasses`), so without it a
worker that calls again and again could stop time.

That is not enough, and the code promises no more: "No worker runs it yet: an operator (or a
cron job) must run it", says `src/backend/README.md:1028` of `reconcile`, and "Until a
schedule exists, lost webhooks, interrupted creations and refund retries wait for the next
run" (also `reconcile_payments.py:3-4`). Both properties are therefore conditional, `ReconcileIsRun
=> ...`: if `reconcile` keeps being run, so that each unresolved attempt and refund is taken up
again and again (`SF`: a worker may be busy when it comes by). That is an assumption about the
operator. It includes that a run's `limit` of a hundred rows per category, taken by primary
key, does not leave the same row out every time. Without it `PendingEnds` fails: a checkout
whose create call is not answered and whose vendor does not come back keeps its stall locked,
which is how the code is deployed until somebody runs the command.

Each property of a passing run has a mutant: a definition replaced by a plausible bug
(`PROJECT.json`, "mutants"), which the run then catches.

### Where the code disagrees with its documentation

Five runs are expected to fail, each on the property its documentation states.

- `refund_race` (`FinalRefundsStay`): "Final refund states never change." `process_refund`'s
  error path writes back the status it read before the call, without a lock, over a status
  that became final meanwhile.
- `late_collision` (`LatePaymentsCanBeRefunded`): "A paid session reported for an attempt
  we'd closed: never drop it." Recording it makes the attempt SUCCEEDED; if another attempt
  of the same reservation has succeeded, the unique index on live attempts rejects the
  transaction, every time.
- `event_dropped` (`NewsIsNotLost`, with late reports): "a provider failure leaves it
  unprocessed for retry." If the attempt was closed and Stripe cannot be reached while the
  event of its late payment is processed, the event is stamped as processed and nothing
  asks about the attempt again. One failed call is enough.
- `resent_link` (`FreshLinksWork`): "Send a fresh link." `resend_invitation` replaces the
  token but not `invited_by`, and acceptance asks whether that inviter may still grant the
  role. After the founder invited somebody and handed the team over, every link the new
  owner resends is invalid, while a new invitation is refused with "Resend it instead."
  (Revoking it and inviting again works.)
- `unchecked_copy` (`StoredPlansFit`): stalls "must lie inside the canvas and must not overlap"
  (`src/backend/README.md:773`), and "every write ... validates the whole payload before
  writing" (`layouts/services.py:25-26`). A copy made by `create_version` reads the source's
  row and its stalls with two statements and no lock and skips `check_plan`
  (`layouts/services.py:133-138`). If the source gets a larger canvas in between, the copy has
  the old canvas with the new stalls, until it is saved next or a date selects it and freezes
  it so.

### Known deviations

Met while modelling, and without a run of their own. Where the repository promises
otherwise, the promise is quoted.

- Checkout. A create call that Stripe refuses outright closes the attempt
  (`payments/services.py:301`) even if another worker's call for the same attempt was
  answered and recorded in between. With `RefusalIsFinal = FALSE`, `PayableKeepsStall`
  fails; with Stripe's documented behaviour for every other kind of refusal it holds.
- Markets. A series request repeated after its first day has passed is refused by
  `validate_rule`, although `create_series` says that repeating returns the series.
- Discovery. A page's second query may find no date of a market that the first one found (the
  last one was cancelled or moved in between); `preview[0]` (`markets/api.py:297`) then fails
  and the visitor gets an error instead of the page (`PageFails`). `KM_PER_DEGREE_LAT` is
  0.1% more than a degree of the sphere that distances are measured on, so the prefilter,
  "a box that contains the search circle" (`markets/discovery.py:160`), misses a sliver in the
  north and south; `InCircle` says so. A box or circle that ends exactly on the meridian of
  180 degrees does not find a market there that is written with the other sign.
- Search page. Going from a search to another and back, with "load more" on the way, can
  leave a gap between the pages that are shown; `locateMe` writes back the filters it was
  drawn with, undoing what was chosen while the device was located; a choice made between
  two drawings is lost if the debounce fires before the navigation ends.
- Plan editor. Edits made while a save is under way are dropped when its answer arrives. Labels
  that are the same to the server but not to the screen are shown without a problem and refused
  on saving, although duplicate labels "show immediately and block saving"
  (`src/frontend/README.md:271`). Labels that are the same to the index alone end in an error of
  the server.
- Legacy bookings. Two deliveries of one event at once both find the payment PENDING and
  both take a unit, although "a webhook retry for an already-SUCCEEDED payment is a no-op"
  (`bookingStateMachine.ts:101-102`); `NeverOversold` survives it because the decrement checks
  for a unit. A late `payment_failed` overwrites SUCCEEDED, and the next delivery of the success
  then fails on the confirmed booking, for ever, although an event that was processed before is
  what "both confirm functions already treat as a no-op rather than throwing"
  (`route.ts:114-116`). A confirmation racing a cancellation revives a CANCELED booking, and
  approval and withdrawal can both succeed, although "no transition not in the table is
  possible" (`src/frontend/README.md:329`). Cancelling twice at once returns a unit twice; a fee
  that is switched between two reads, or a crash before the payment row, leaves an application
  waiting for a fee nobody asks for; a booking whose space sold out meanwhile is rolled back
  while the money stays taken.

## 4. What is proved

Every theorem holds for every value of the constants, from the assumptions named in the
modules (`HoldAssumption`, `CheckoutAssumption`, `TeamAssumption` and so on: distinct dummy
values, positive durations; sets may be infinite except where a module says otherwise).
Those that say more are about time: a clock change moves the clock by less than a day
(`RecurrenceAssumption`, `Zones`), and the instants and rules of `MarketDates` are integers
and records of them (`DatesAssumption`).
The runs above show the same properties on small instances.

### Reservations

`HoldsAreWellFormed` (`HoldTypeOK`) is inductive as it stands; the interesting part is that
only a HELD row awaits a payment, the table's check constraint. `StallsAreExclusive`
(`OneOccupantPerStall`) and `BusinessesHaveOneStall` (`OneStallPerBusiness`) follow the
argument the code relies on (`RowsStayExclusive`): apart from `acquire_hold` no transaction
makes a row occupy a stall it did not occupy before (`Narrows`), and `acquire_hold` looks at
every occupying row under the lock.
`AvailableMeansFree` (`AvailableStallsCanBeTaken`) and `EndsAreFinal` (`ShownEndIsFinal`)
relate what is shown, which derives a lapse from the clock, to what is written later.

### Checkout

Two inductive invariants. `LockInv` is about the database's locks: types, what each busy
worker is busy with, one live attempt per reservation (the partial unique index), and that
a reservation is locked exactly while one of its attempts is unresolved. `MoneyInv` adds how
each attempt's row, booking, refund, session and payback agree, and `Knows`: what a worker
was told before a call still holds, in the form that matters, when it acts on it after the
call. That conjunct is the point of the proof: between the two any other worker may have
done anything.

The proof goes by effects. Every action does one of a few things to the database (`Effect`:
begin, open, close or book an attempt, drop a stall, repay, confirm a free stall, or what
holds do), each with a cause (`Cause`: what its worker knew). From the effects follows what
happens to locks, reservations and money, once for each effect and not once for each of the
nearly forty actions.

| Theorem | States | Under |
|---|---|---|
| `CheckoutTypes`, `LocksFollowAttempts` | `TypeOK`, `PendingIffUnresolved` | nothing about Stripe |
| `PaymentsUseHolds` | `HoldSpec`: every step is a step of `Reservations` or none | nothing |
| `SoldStallsAreExclusive` | `OneOccupantPerStall` and `OneStallPerBusiness`, of `Checkout` | nothing |
| `AttemptsEndOnce`, `StallsAreBookedForMoney`, `RefundsWereMade` | `EndedAttemptsStay`, `BookingsArePaid`, `RefundsAreReal` | nothing: also with late payments and forgotten refusals |
| `PayableStallsAreKept`, `NobodyPaysTwice`, `MoneyIsTracked` | `PayableKeepsStall`, `ChargedOnce`, `PaymentsAreTracked` | `RefusalIsFinal /\ ~LatePayment` |
| `CheckoutIsASale` | `ImplementsSale`: `Checkout` implements `StallSale` | the same |

The last group needs the two assumptions because the code does: without either, an attempt
that the database has closed can be paid. What the assumptions give is that a session that
cannot be paid stays so (`NeverPaid`), and every attempt is closed only after that is known.
For the refinement, `View` says which sale a reservation's row stands for; a step that
changes several rows at once (the lapsed holds) is one `Lapse` of the abstract sale.

### Layouts

`LayoutInv` is the inductive invariant of `DateLayouts`. Versions are numbered without gaps;
whatever a date, an offer or a reservation refers to is locked and has the stall; a revision
on a screen stands for what the screen shows if it is still current (`VersionScreens`,
`DateScreens`), so equal revisions mean equal content although the screen read in two
statements; and only a new reservation begins to occupy.

| Theorem | States |
|---|---|
| `OccupiedStaysOffered` | `OccupiedStallsAreOffered` |
| `UsedPlansAreFinal` | `UsedPlansStay` |
| `EditsAreSeen`, `PublishedWasSeen` | `NothingIsOverwrittenUnseen`, `PublishedAsSeen` |
| `LayoutsUseHolds` | `HoldSpec`: to the reservations, every step is a step of `Reservations` or none |
| `OfferedStallsAreExclusive` | `OneOccupantPerStall` and `OneStallPerBusiness`, of `DateLayouts` |
| `OneVendorPerPlace` | no two occupying reservations of a date are of stalls in the same place |

`OneVendorPerPlace` is what vendors rely on and no single service keeps. It puts together
that the stalls of every version are apart (`PlansKeepApart`: `check_plan` for a saved
version, and for a copy that its stalls are those of one version, even if they were read
after that version's row), that every occupied stall belongs to the version the date uses,
and that a stall has one occupant. It is stated for places as they are in this module,
numbers; that rectangles which pass `check_plan` are apart is `SweepIsExact` below.

### Markets, dates and series

`MarketDatesProofs` proves `SeriesHaveTheirDates` (`SeriesAreWhole`), `DatesAreNotLost`
(`DatesStay`) and `StartsAreDistinct` from `DatesInv`:

- `SeriesWereChecked`: what `create_series` asked of a rule stays true of it, which needs
  that the market's zone is fixed once it has dates;
- `RowsHaveSeries` and `SlotsAreFilled`: the slots of a series' rows are those of
  `build_slots`, each once, although rows move and a second request may come at any time;
- `StartsDiffer`: no two dates start at once. It is why a series request that would collide
  with a moved or single date must be refused as a whole.

Underneath are lemmas about the recurrence itself: the same hour of a later day is a later
instant, also across a clock change (`LaterDayLater`), so a rule has as many slots as days;
two local times of a day that exist once keep their order (`EndsAfterItStarts`); and two
days of a rule are whole intervals apart (`WholeIntervals`).

### Vendor businesses

`BusinessesAreTeams` proves `ImplementsTeam`, operation by operation, and
`BusinessesHaveOneOwner` takes `OneOwner` of `Memberships` over to `VendorTeam`. The
refinement is not immediate: the vendor code mostly asks for an active account, a team for an
active and confirmed one. `BusinessInv` says why that is the same: whoever has a role or is
about to get one (`ConfirmedOnly`) has a confirmed address, and addresses stay confirmed.
It also says that a row names its inviter and its address (`RowsNamePeople`).

### The server's search

`WholeSearches` (`PagesAreWhole`) and `OneQueryPath` (`MapShowsTheList`), for any markets,
dates, filters and limits, rest on `DiscoveryInv`: until something changes there is one list
that the pages so far, the page under way and the map's answer are all parts of. For that,

- the order has to be total, so that a set of markets has one sorted list (`OneOrder`,
  `OneComesFirst`), although two requests sort anew;
- an answer has to stay the answer while time passes and no date ends (`DatesEndOneByOne`);
- the area filters have to find what they are meant to: boxes and circles across the
  antimeridian (`LongitudesMeet`, `WantedAreFound`), and the prefilter at least the circle
  (`PrefilterIsWide`, `CirclesAreFound`).

### The pages

- `ResultsStayShown` (`NewerResultsStay`): every request that is still listened to was made
  for what the effects last started (`OnlyTheNewestIsAsked`), and once they have run that is
  what the page is drawn with. The property leaves out the moment after a drawing for a new
  search and before its effects (`started` behind `ListKey`), when an older answer may still
  come in.
- `SweepIsExact`: the sweep over sorted edges of `overlapping_pairs`, which gives up a row
  at the first stall that begins to the right of it, finds something exactly if two stalls
  overlap, for any number of stalls of any size.
- `StoredPlansAreSound` (`SavedPlansAreSound`): whatever is sent, also past the screen's own
  checks, the stored stalls do not overlap, have labels that differ to the server and pass its
  limits; and they fit the canvas once the version has been saved, which a mere copy need not.
  A request the screen checked is refused, and its write fails at the index, only for the limits
  it does not know and for labels that it tells apart: for no overlap, no stall outside, no
  wrong id, whatever labels are swapped while the index looks on. `toLowerCase`, `casefold` and
  `Lower` are any three operators. The steps are that the screen's drawing checks and the
  server's agree (`DrawingsAgree`, over `SweepIsExact`), that parking leaves the index only
  labels which the server tells apart (`ClashesAreTheIndexs`), and `CallFits`: a request under
  way that the screen checked lists the plan's rows if its revision is still the plan's.
- `ScreensKnowTheirPlan` (`ScreenKnowsItsPlan`): every copy of the plan, on the screen, in an
  answer or in a server's hands, is the plan or of an older revision (`IsCopy`), for any
  number of requests under way.

### The others

- `PaymentPartsProofs!SalesAreHonest` (`MoneyBuysStalls`): not inductive alone. That money is
  taken at most once needs that it was not already kept, which holds because kept money has
  sold its stall, and that needs that no other money was pending when the stall was sold.
- `PaymentPartsProofs!NewsReachesTheAttempt` (`NewsIsNotLost`), as long as expired sessions
  are not reported paid: the strengthening says that the attempt's status and the session's
  end agree, also while a worker carries an older answer.
- `PaymentPartsProofs!PaymentsAreAlwaysFound` (`PaymentsAreFound`), and `SpaceIsNeverOversold`
  (`NeverOversold`) for finitely many booking rows: each decrement is paired with one
  confirmation (`UnitsStep`), whatever was read before.
- `ParticipationProofs`: `NoCircle`, `EndsOnce`, `AnswersAlwaysFit`, `EntriesAllowed`,
  `RestrictedOnce`. A request holds exactly the locks of the steps it passed, and what its
  checks found in rows it has locked still holds. A circle would have to go from the market
  over the date to the application and back to the date; the request that holds the
  application and waits for the date has found it SUBMITTED, and the one that holds the
  date and waits for the application has found it APPROVED. Sets of waiting requests of
  any size are covered.
- `MembershipsProofs`: `TeamTypeInvariant` (`TeamTypeOK`), `TeamsHaveOneOwner` (inductive with it:
  only a transfer touches the owner, and it makes a different member the owner),
  `InvitationsAreForOutsiders` (needs one pending row per address: otherwise accepting one
  would leave another pending for what is now a member), `JoiningNeedsAnInvitation` and
  `EndedInvitationsAreFinal` (from what acceptance rechecks under the lock, `AcceptedRow`).

Type invariants (`HoldTypeOK`, `TypeOK` of `Checkout`, `TeamTypeOK`) are theorems and are not
listed in the runs, whose properties would fail first.

### Only model-checked

The liveness of `recovery`, `PaymentsSettle` and `PendingEnds`, under the fairness above and
the assumption `ReconcileIsRun`: fairness and ENABLED are beyond the prover. Every other property of a passing run is stated by a theorem. The
violations of section 3 are counterexamples that TLC finds.

## 5. Not modelled

- Accounts: one row read, checked and written under its lock; sessions, tokens and hashing
  are Django's. What others rely on, that an account is confirmed and active, is in
  `Memberships` and `VendorTeam`.
- One request key used for two dates at once: each date has its own lock, the unique index
  decides, and the loser runs again as a replay.
- Connected Stripe accounts (`refresh_account`), webhook signatures, events of refunds.
- The texts of questions and answers, of profiles, and slugs; e-mails, rate limits, the audit
  trail.
- What the API only reads and shows apart from the search, HTTP routing and serialisation, settings,
  the admin, the remaining web pages, subscriptions and Connect onboarding of the legacy
  application, migrations.

What could be added next: refund events in `StripeEvents`; that `DateLayouts` and
`Participation` together implement the eligibility `Reservations` leaves to chance; liveness
of the inbox under the same fairness as `recovery`.
