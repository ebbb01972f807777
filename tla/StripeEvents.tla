----------------------------- MODULE StripeEvents -----------------------------
(***************************************************************************)
(* The webhook inbox and reconcile (backend/payments): what Stripe reports *)
(* of one Checkout session reaches its payment attempt although events are *)
(* delivered late, twice or never, calls fail and workers die.             *)
(*                                                                         *)
(* An event only names its session: the session is read again at Stripe by *)
(* sync_attempt, whose effects on reservations, bookings and refunds are   *)
(* module Checkout's.                                                      *)
(***************************************************************************)
EXTENDS Naturals

CONSTANTS
  Server,      \* workers that serve deliveries or run reconcile
  Event,       \* event ids of one run
  LateReports  \* whether a session may be reported paid after it expired

VARIABLES
  session,  \* the session at Stripe
  attempt,  \* the attempt's status, and whether last_error is set
  inbox,    \* per event: what it was sent for, and its StripeEvent row
  serving   \* what each worker is doing

eventVars == <<session, attempt, inbox, serving>>

UNRESOLVED_ATTEMPT == {"CREATING", "OPEN"}
Closed == {"EXPIRED", "FAILED"}
NotServing == [step |-> "none"]
NoEvent == [news |-> "none", row |-> "none"]

Serve(w, job) == serving' = [serving EXCEPT ![w] = job]
To(w, step) == Serve(w, [serving[w] EXCEPT !.step = step])
At(w, step) == serving[w].step = step

-----------------------------------------------------------------------------
(* Stripe *)

Follows(s) ==
  CASE s = "open" -> {"settling", "paid", "expired"}
    [] s = "settling" -> {"paid", "failed"}
    [] s = "expired" -> IF LateReports THEN {"paid"} ELSE {}
    [] OTHER -> {}

\* The session changes, and Stripe sends an event.
SessionChanges(e) ==
  /\ inbox[e] = NoEvent
  /\ \E s \in Follows(session) :
       /\ session' = s
       /\ inbox' = [inbox EXCEPT ![e] = [news |-> s, row |-> "sent"]]
  /\ UNCHANGED <<attempt, serving>>

-----------------------------------------------------------------------------
(* A delivery, its retry by Stripe, or reconcile's look at the inbox *)

receive_webhook(w, e) ==
  /\ serving[w] = NotServing
  /\ inbox[e].row \in {"sent", "recorded"}
  /\ inbox' = [inbox EXCEPT ![e].row = "recorded"]
  /\ Serve(w, [event |-> e, step |-> "find"])
  /\ UNCHANGED <<session, attempt>>

Processed(e) == inbox' = [inbox EXCEPT ![e].row = "processed"]

\* While the attempt is CREATING no row has the session's id.
FindAttempt(w) ==
  /\ At(w, "find")
  /\ IF attempt.status = "CREATING"
     THEN Processed(serving[w].event) /\ Serve(w, NotServing)   \* ignored_unknown_session
     ELSE To(w, "sync") /\ UNCHANGED inbox
  /\ UNCHANGED <<session, attempt>>

\* Reconcile and the vendor's "check again".
TakeUpAttempt(w) ==
  /\ serving[w] = NotServing
  /\ attempt.status \in UNRESOLVED_ATTEMPT
  /\ Serve(w, [event |-> "none", step |-> "sync"])
  /\ UNCHANGED <<session, attempt, inbox>>

-----------------------------------------------------------------------------
(* sync_attempt *)

\* An answer to the create call; a failed one leaves the attempt.  One that is
\* refused, or given up long after its session's expiry, closes it as FAILED
\* and leaves no session anybody can pay: left out.
CreateSession(w) ==
  /\ At(w, "sync")
  /\ attempt.status = "CREATING"
  /\ \/ attempt' = [attempt EXCEPT !.status = "OPEN"] /\ UNCHANGED serving
     \/ attempt' = [attempt EXCEPT !.error = TRUE] /\ To(w, "judge")
  /\ UNCHANGED <<session, inbox>>

NothingToAsk(w) ==
  /\ At(w, "sync")
  /\ attempt.status \in {"SUCCEEDED", "FAILED"}
  /\ To(w, "judge")
  /\ UNCHANGED <<session, attempt, inbox>>

Retrieve(w) ==
  /\ At(w, "sync")
  /\ attempt.status \in {"OPEN", "EXPIRED"}
  /\ \/ /\ Serve(w, [event |-> serving[w].event, step |-> "apply", answer |-> session])
        /\ UNCHANGED attempt
     \/ /\ attempt' = [attempt EXCEPT !.error = TRUE]
        /\ To(w, "judge")
  /\ UNCHANGED <<session, inbox>>

\* Mutant: a completed session that is not paid yet counts as failed.
Outcome_Hasty(answer) ==
  CASE answer = "paid" -> "SUCCEEDED"
    [] answer \in {"failed", "settling"} -> "FAILED"
    [] answer = "expired" -> "EXPIRED"
    [] answer = "open" -> "OPEN"

Outcome(answer) ==
  CASE answer = "paid" -> "SUCCEEDED"
    [] answer = "failed" -> "FAILED"
    [] answer = "expired" -> "EXPIRED"
    [] answer \in {"open", "settling"} -> "OPEN"

\* Under the attempt's lock: an unresolved attempt takes any outcome, a closed
\* one only a payment.
ApplySession(w) ==
  LET outcome == Outcome(serving[w].answer) IN
  /\ At(w, "apply")
  /\ attempt' = IF attempt.status \in UNRESOLVED_ATTEMPT \/ outcome = "SUCCEEDED"
                THEN [status |-> outcome, error |-> FALSE] ELSE attempt
  /\ Serve(w, [event |-> serving[w].event, step |-> "judge"])
  /\ UNCHANGED <<session, inbox>>

-----------------------------------------------------------------------------
\* Processed, unless the attempt shows an error: then Stripe delivers again.
JudgeEvent(w) ==
  /\ At(w, "judge")
  /\ IF \/ serving[w].event = "none"
        \/ attempt.status \in UNRESOLVED_ATTEMPT /\ attempt.error
     THEN UNCHANGED inbox
     ELSE Processed(serving[w].event)
  /\ Serve(w, NotServing)
  /\ UNCHANGED <<session, attempt>>

WorkerDies(w) ==
  /\ serving[w] # NotServing
  /\ Serve(w, NotServing)
  /\ UNCHANGED <<session, attempt, inbox>>

EventInit ==
  /\ session = "open"
  /\ attempt = [status |-> "CREATING", error |-> FALSE]
  /\ inbox = [e \in Event |-> NoEvent]
  /\ serving = [w \in Server |-> NotServing]

EventNext ==
  \/ \E e \in Event : SessionChanges(e)
  \/ \E w \in Server :
       \/ \E e \in Event : receive_webhook(w, e)
       \/ FindAttempt(w) \/ TakeUpAttempt(w)
       \/ CreateSession(w) \/ NothingToAsk(w) \/ Retrieve(w) \/ ApplySession(w)
       \/ JudgeEvent(w) \/ WorkerDies(w)

EventSpec == EventInit /\ [][EventNext]_eventVars

-----------------------------------------------------------------------------
\* An event counts as processed only when its news has reached the attempt,
\* or while the attempt is unresolved, so that reconcile still asks Stripe:
\* no payment is forgotten because its event was ticked off.
NewsIsNotLost ==
  \A e \in Event :
    inbox[e].row = "processed" /\ inbox[e].news \in {"paid", "failed", "expired"} =>
      \/ attempt.status \in UNRESOLVED_ATTEMPT
      \/ attempt.status = "SUCCEEDED"
      \/ inbox[e].news # "paid" /\ attempt.status \in Closed
=============================================================================
