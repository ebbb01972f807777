---------------------------- MODULE Participation ----------------------------
(***************************************************************************)
(* Taking part in one market date: the market's and the date's state       *)
(* (backend/markets), its application intake and one business's            *)
(* application (backend/applications), the organization's restrictions     *)
(* (backend/moderation), and the eligibility part of taking a stall        *)
(* (backend/reservations).                                                 *)
(*                                                                         *)
(* A request is a transaction that takes its row locks one by one, checks  *)
(* in between, and writes when it commits.  Rows it has not locked can     *)
(* change at any time: restrictions are only read, and the market's        *)
(* status is read with the statement that locks the date, when that        *)
(* statement starts and not when it gets the lock.                         *)
(***************************************************************************)
EXTENDS Integers, FiniteSets, Sequences, TLC

CONSTANTS
  Worker,      \* requests served at the same time
  Account,     \* owners of the vendor business
  Vendor,      \* the vendor business
  Question,    \* question lists an organizer may ask
  Window,      \* windows <<opens_at, closes_at>> of the intake; a disabled one is empty
  Start,       \* when the date may start; the latest at first
  Restriction, \* restriction rows a run can make
  Nobody,      \* no worker, no account, no target
  Mix,         \* sets of operations that users ask for at the same time
  LastInstant, \* the last instant a run looks at
  MaxVersion   \* a run stops changing questions at this version

ASSUME ParticipationAssumption ==
  /\ Nobody \notin Worker \cup Account
  /\ Vendor \notin Account \cup {Nobody}
  /\ Window \subseteq Nat \X Nat
  /\ LastInstant \in Nat
  /\ Start \subseteq Nat /\ Start # {}
  /\ "ARCHIVED" \notin Restriction

VARIABLES
  market,       \* its status
  date,         \* status and starts_at of the occurrence
  intake,       \* its ApplicationIntake; version 0 is no row yet
  form,         \* what the vendor's application page has loaded
  application,  \* the business's application for the date
  history,      \* its ApplicationEvent rows
  taken,        \* whether the business took a stall
  restriction,  \* the organization's restrictions
  lock,         \* who holds each row's lock
  request,      \* what each worker is doing
  asked_for,    \* the operations of this behaviour, one of Mix
  time

data == <<market, date, intake, form, application, history, taken, restriction>>
vars == <<data, lock, request, asked_for, time>>

Row == {"market", "date", "intake", "application", "organization"}
Time == 0..LastInstant
Never == LastInstant + 1  \* the expiry of a restriction without one

\* What each operation locks, and what it checks between two locks or in rows
\* it has not locked, in this order.
Script == [
  archive_market     |-> <<"market">>,
  update_occurrence  |-> <<"market", "date">>,
  cancel_occurrence  |-> <<"market", "date">>,
  configure_intake   |-> <<"date", "intake">>,
  submit             |-> <<"date", "intake", "open">>,
  withdraw           |-> <<"application">>,
  reject             |-> <<"application">>,
  approve            |-> <<"application", "submitted", "date", "approvable">>,
  acquire_hold       |-> <<"date", "eligible", "application">>,
  create_restriction |-> <<"organization", "unrestricted">>,
  revoke_restriction |-> <<"organization">>]

NoRestriction == [target |-> Nobody, expires |-> Never, revoked |-> FALSE]
Idle == [asked |-> [op |-> "none"], step |-> 0, market |-> "none", barred |-> {}]

-----------------------------------------------------------------------------
(* Moderation policy *)

effective(row) ==
  /\ row.target # Nobody
  /\ ~row.revoked
  /\ row.expires > time

\* Mutant: a restriction of the business itself is overlooked.
is_restricted_AccountOnly(account) ==
  \E i \in Restriction : effective(restriction[i]) /\ restriction[i].target = account

is_restricted(account) ==
  \E i \in Restriction :
    effective(restriction[i]) /\ restriction[i].target \in {account, Vendor}

-----------------------------------------------------------------------------
(* The checks a request makes, with what it has read so far *)

Scheduled == date.status = "SCHEDULED" /\ date.starts > time

intake_open(r) ==
  /\ r.market = "PUBLISHED"
  /\ Scheduled
  /\ intake.window[1] <= time
  /\ time < intake.window[2]

\* Mutant: the form's questions are not compared with the intake's.
SubmitCheck_AnyVersion(r) ==
  /\ intake_open(r)
  /\ ~is_restricted(r.asked.account)
  /\ application.status = "NONE"

SubmitCheck(r) ==
  /\ intake_open(r)
  /\ ~is_restricted(r.asked.account)
  /\ r.asked.form.version = intake.version
  /\ application.status = "NONE"

\* Mutant: holds are open to every business that applied.
HoldCheck_Applied(r) ==
  /\ r.market = "PUBLISHED"
  /\ Scheduled
  /\ application.status \in {"SUBMITTED", "APPROVED"}
  /\ ~is_restricted(r.asked.account)
  /\ ~taken

HoldCheck(r) ==
  /\ r.market = "PUBLISHED"
  /\ Scheduled
  /\ application.status = "APPROVED"
  /\ ~is_restricted(r.asked.account)
  /\ ~taken

check_approvable(r) ==
  /\ r.market = "PUBLISHED"
  /\ Scheduled
  /\ ~is_restricted(application.by)

\* Mutant: only restrictions without an expiry are looked for.
Unrestricted_Permanent(r) ==
  /\ r.asked.expires > time
  /\ \A i \in Restriction :
       restriction[i].target = r.asked.target /\ restriction[i].expires = Never
         => ~effective(restriction[i])

Unrestricted(r) ==
  /\ r.asked.expires > time
  /\ \A i \in Restriction : restriction[i].target = r.asked.target => ~effective(restriction[i])

Passes(r, check) ==
  \/ check = "open" /\ SubmitCheck(r)
  \/ check = "submitted" /\ application.status = "SUBMITTED"
  \/ check = "approvable" /\ check_approvable(r)
  \/ check = "eligible" /\ HoldCheck(r)
  \/ check = "unrestricted" /\ Unrestricted(r)

-----------------------------------------------------------------------------
(* Requests *)

\* What stands against taking part now.
Bars == {i \in Restriction : effective(restriction[i])}
        \cup {s \in {"ARCHIVED"} : market = s}

\* What a user asks for; every field an operation does not use is fixed.
Asked == {[op |-> op] : op \in {"archive_market", "cancel_occurrence", "withdraw",
                                "reject", "approve"}}
  \cup {[op |-> "update_occurrence", starts |-> t] : t \in Start}
  \cup {[op |-> "configure_intake", questions |-> q, window |-> w] :
          q \in Question, w \in Window}
  \cup {[op |-> "submit", account |-> a, form |-> form] : a \in Account}
  \cup {[op |-> "acquire_hold", account |-> a] : a \in Account}
  \cup {[op |-> "create_restriction", target |-> x, expires |-> e, id |-> i] :
          x \in Account \cup {Vendor}, e \in Time \cup {Never},
          i \in {j \in Restriction : restriction[j] = NoRestriction}}
  \cup {[op |-> "revoke_restriction", id |-> i] : i \in Restriction}

Entry == {"submit", "approve", "acquire_hold"}

\* barred: what stood against taking part when the request began.
Begin(w, asked) ==
  /\ request[w] = Idle
  /\ asked.op \in asked_for
  /\ request' = [request EXCEPT ![w] =
       [asked |-> asked, step |-> 1, market |-> market,
        barred |-> IF asked.op \in Entry THEN Bars ELSE {}]]
  /\ UNCHANGED <<data, lock, asked_for, time>>

Locks(w) == {r \in Row : lock[r] = w}
Unlocked(w) == [r \in Row |-> IF lock[r] = w THEN Nobody ELSE lock[r]]

Operation(w) == request[w].asked.op
AtStep(w) == request[w] # Idle /\ request[w].step <= Len(Script[Operation(w)])
Current(w) == Script[Operation(w)][request[w].step]

\* The statement that locks the date starts, and reads the market's status,
\* when the step before it ends.
Forward(w) ==
  request' = [request EXCEPT ![w] = [request[w] EXCEPT !.step = @ + 1, !.market = market]]

GetLock(w) ==
  /\ AtStep(w)
  /\ Current(w) \in Row
  /\ lock[Current(w)] = Nobody
  /\ lock' = [lock EXCEPT ![Current(w)] = w]
  /\ request' = [request EXCEPT ![w].step = @ + 1]
  /\ UNCHANGED <<data, asked_for, time>>

Check(w) ==
  /\ AtStep(w)
  /\ Current(w) \notin Row
  /\ Passes(request[w], Current(w))
  /\ Forward(w)
  /\ UNCHANGED <<data, lock, asked_for, time>>

\* Refused by a check, by the database or with the worker: all is undone.
Abort(w) ==
  /\ request[w] # Idle
  /\ request' = [request EXCEPT ![w] = Idle]
  /\ lock' = Unlocked(w)
  /\ UNCHANGED <<data, asked_for, time>>

-----------------------------------------------------------------------------
(* What a request writes when it commits *)

\* The questions' version changes only when they do.
Configured(r) ==
  [version   |-> IF intake.version = 0 THEN 1
                 ELSE IF intake.questions = r.asked.questions THEN intake.version
                 ELSE intake.version + 1,
   questions |-> r.asked.questions,
   window    |-> r.asked.window]

\* Mutant: the status is not looked at again once the application is locked.
Decide_AsSeen(status) ==
  /\ application' = [application EXCEPT !.status = status]
  /\ history' = Append(history, status)
  /\ UNCHANGED <<market, date, intake, form, taken, restriction>>

\* Only one transition out of SUBMITTED can win.
Decide(status) ==
  /\ application.status = "SUBMITTED"
  /\ application' = [application EXCEPT !.status = status]
  /\ history' = Append(history, status)
  /\ UNCHANGED <<market, date, intake, form, taken, restriction>>

archive_market ==
  /\ market # "ARCHIVED"
  /\ market' = "ARCHIVED"
  /\ UNCHANGED <<date, intake, form, application, history, taken, restriction>>

update_occurrence(starts) ==
  /\ market # "ARCHIVED" /\ date.status = "SCHEDULED"
  /\ date' = [date EXCEPT !.starts = starts]
  /\ UNCHANGED <<market, intake, form, application, history, taken, restriction>>

cancel_occurrence ==
  /\ market # "ARCHIVED" /\ date.status = "SCHEDULED"
  /\ date' = [date EXCEPT !.status = "CANCELLED"]
  /\ UNCHANGED <<market, intake, form, application, history, taken, restriction>>

configure_intake(r) ==
  /\ r.market # "ARCHIVED"
  /\ r.asked.window[1] < date.starts /\ r.asked.window[2] <= date.starts
  /\ intake' = Configured(r)
  /\ intake'.version <= MaxVersion
  /\ UNCHANGED <<market, date, form, application, history, taken, restriction>>

\* The vendor leaves the page.
submit(r) ==
  /\ application' = [status |-> "SUBMITTED", by |-> r.asked.account,
                     questions |-> intake.questions, answered |-> r.asked.form.questions]
  /\ history' = Append(history, "SUBMITTED")
  /\ form' = [version |-> 0, questions |-> Nobody]
  /\ UNCHANGED <<market, date, intake, taken, restriction>>

acquire_hold ==
  /\ taken' = TRUE
  /\ UNCHANGED <<market, date, intake, form, application, history, restriction>>

create_restriction(row, target, expires) ==
  /\ restriction[row] = NoRestriction   \* its new row
  /\ restriction' = [restriction EXCEPT ![row] =
       [target |-> target, expires |-> expires, revoked |-> FALSE]]
  /\ UNCHANGED <<market, date, intake, form, application, history, taken>>

revoke_restriction(id) ==
  /\ effective(restriction[id])
  /\ restriction' = [restriction EXCEPT ![id].revoked = TRUE]
  /\ UNCHANGED <<market, date, intake, form, application, history, taken>>

Effect(r) ==
  LET op == r.asked.op IN
  \/ op = "archive_market" /\ archive_market
  \/ op = "update_occurrence" /\ update_occurrence(r.asked.starts)
  \/ op = "cancel_occurrence" /\ cancel_occurrence
  \/ op = "configure_intake" /\ configure_intake(r)
  \/ op = "submit" /\ submit(r)
  \/ op = "withdraw" /\ Decide("WITHDRAWN")
  \/ op = "reject" /\ Decide("REJECTED")
  \/ op = "approve" /\ Decide("APPROVED")
  \/ op = "acquire_hold" /\ acquire_hold
  \/ op = "create_restriction"
       /\ create_restriction(r.asked.id, r.asked.target, r.asked.expires)
  \/ op = "revoke_restriction" /\ revoke_restriction(r.asked.id)

Commit(w) ==
  /\ request[w] # Idle
  /\ ~AtStep(w)
  /\ Effect(request[w])
  /\ request' = [request EXCEPT ![w] = Idle]
  /\ lock' = Unlocked(w)
  /\ UNCHANGED <<asked_for, time>>

-----------------------------------------------------------------------------
LoadForm ==
  /\ intake.version > 0
  /\ application.status = "NONE"
  /\ form' = [version |-> intake.version, questions |-> intake.questions]
  /\ UNCHANGED <<market, date, intake, application, history, taken, restriction>>
  /\ UNCHANGED <<lock, request, asked_for, time>>

PassTime ==
  /\ time < LastInstant
  /\ time' = time + 1
  /\ UNCHANGED <<data, lock, request, asked_for>>

Init ==
  /\ market = "PUBLISHED"
  /\ \E t \in Start : date = [status |-> "SCHEDULED", starts |-> t] /\ \A u \in Start : u <= t
  /\ \/ intake = [version |-> 0, questions |-> Nobody, window |-> <<0, 0>>]
     \/ \E q \in Question, w \in Window :   \* configured before
          intake = [version |-> 1, questions |-> q, window |-> w]
  /\ form = [version |-> 0, questions |-> Nobody]
  /\ application = [status |-> "NONE", by |-> Nobody, questions |-> Nobody, answered |-> Nobody]
  /\ history = <<>>
  /\ taken = FALSE
  /\ restriction = [i \in Restriction |-> NoRestriction]
  /\ lock = [r \in Row |-> Nobody]
  /\ request = [w \in Worker |-> Idle]
  /\ asked_for \in Mix
  /\ time = 0

Next ==
  \/ \E w \in Worker :
       \/ \E asked \in Asked : Begin(w, asked)
       \/ GetLock(w)
       \/ Check(w)
       \/ Abort(w)
       \/ Commit(w)
  \/ LoadForm
  \/ PassTime

Spec == Init /\ [][Next]_vars

-----------------------------------------------------------------------------
(* Properties *)

WaitsFor(v, w) == AtStep(v) /\ Current(v) \in Row /\ lock[Current(v)] = w

\* No set of requests waits only for one another, whichever they are and in
\* whatever order they come: a decision locks the application and then the
\* date, a hold the date and then, by its foreign key, the application.
NobodyWaitsInACircle ==
  \A S \in (SUBSET Worker) \ {{}} :
    \E v \in S : \A w \in S : ~WaitsFor(v, w)

\* An application is submitted once and leaves SUBMITTED at most once, its
\* events tell exactly that story, and a stall is only ever taken with an
\* approval: of a decision, a second one and a withdrawal, one wins.
ApplicationsEndOnce ==
  /\ history \in {<<>>, <<"SUBMITTED">>}
       \cup {<<"SUBMITTED", end>> : end \in {"APPROVED", "REJECTED", "WITHDRAWN"}}
  /\ application.status = IF history = <<>> THEN "NONE" ELSE history[Len(history)]
  /\ taken => application.status = "APPROVED"

\* The answers of an application were given to the questions stored with it,
\* however often the organizer changed them while the vendor was answering.
AnswersFitQuestions == application.answered = application.questions

Enters == \/ history' # history /\ application'.status \in {"SUBMITTED", "APPROVED"}
          \/ taken' # taken

\* Nobody applies, is approved or takes a stall on a cancelled date, nor
\* while anything stands against it that stood when the request began: a
\* restriction of the account or the business, or the market's archiving.
EntriesAreAllowed ==
  [][Enters =>
       /\ date.status = "SCHEDULED"
       /\ \A w \in Worker :
            request[w] # Idle /\ request'[w] = Idle =>
              \A i \in Bars \cap request[w].barred :
                /\ i # "ARCHIVED"
                /\ i \in Restriction =>
                     restriction[i].target \notin
                       {Vendor, IF Operation(w) = "approve" THEN application.by
                                ELSE request[w].asked.account}]_vars

\* Two moderators never restrict one target twice at a time, so revoking the
\* restriction they see lets the target take part again.
OneRestrictionPerTarget ==
  \A i, j \in Restriction :
    effective(restriction[i]) /\ effective(restriction[j])
      /\ restriction[i].target = restriction[j].target => i = j
=============================================================================
