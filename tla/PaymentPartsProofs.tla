------------------------- MODULE PaymentPartsProofs --------------------------
(***************************************************************************)
(* Three parts of payments that share no state: what the abstract sale     *)
(* promises, for every set of sales and payments; that the webhook inbox   *)
(* loses no news, for any workers and events; and that the older booking   *)
(* pipeline never oversells its space and finds what was paid for, for any *)
(* requests, vendors, bookings and units.                                  *)
(***************************************************************************)
EXTENDS StallSale, StripeEvents, LegacyBookings, FiniteSetTheorems, TLAPS

-----------------------------------------------------------------------------
(* The sale *)

LEMMA SaleTypeStep ==
  ASSUME TypeOK, [Next]_saleVars
  PROVE  TypeOK'
<1>. USE DEF TypeOK
<1>1. ASSUME NEW S \in SUBSET Sale, Lapse(S)
      PROVE  TypeOK'
  BY <1>1 DEF Lapse
<1>2. ASSUME NEW s \in Sale, Hold(s) \/ SellFree(s)
      PROVE  TypeOK'
  BY <1>2 DEF Hold, SellFree
<1>3. ASSUME NEW s \in Sale, StopPaying(s)
      PROVE  TypeOK'
  BY <1>3 DEF StopPaying
<1>4. ASSUME NEW s \in Sale, NEW p \in Payment, BeginPaying(s, p)
      PROVE  TypeOK'
  BY <1>4 DEF BeginPaying
<1>5. ASSUME NEW s \in Sale, NEW p \in Payment, Charge(s, p)
      PROVE  TypeOK'
  BY <1>5 DEF Charge
<1>6. ASSUME NEW s \in Sale, NEW p \in Payment, Sell(s, p) \/ Fall(s, p)
      PROVE  TypeOK'
  BY <1>6 DEF Sell, Fall
<1>7. ASSUME NEW p \in Payment, GiveBack(p)
      PROVE  TypeOK'
  BY <1>7 DEF GiveBack
<1>8. CASE UNCHANGED saleVars
  BY <1>8 DEF saleVars
<1>. QED
  BY <1>1, <1>2, <1>3, <1>4, <1>5, <1>6, <1>7, <1>8 DEF Next

\* Neither property is inductive alone: a sale that ends moves the money of
\* one payment only, so no other may be undecided (PaidOnce); and a payment is
\* only taken while nothing was sold, so none is kept (MoneyBuysStalls).
SaleInv == TypeOK /\ MoneyBuysStalls /\ PaidOnce

LEMMA MoneyStep ==
  ASSUME SaleInv, [Next]_saleVars
  PROVE  MoneyBuysStalls'
<1>. USE SaleAssumption DEF SaleInv, TypeOK, MoneyBuysStalls
<1>1. ASSUME NEW S \in SUBSET Sale, Lapse(S)
      PROVE  MoneyBuysStalls'
  BY <1>1 DEF Lapse
<1>2. ASSUME NEW s \in Sale, Hold(s) \/ SellFree(s)
      PROVE  MoneyBuysStalls'
  BY <1>2 DEF Hold, SellFree
<1>3. ASSUME NEW s \in Sale, StopPaying(s)
      PROVE  MoneyBuysStalls'
  BY <1>3 DEF StopPaying, PaymentsOf
<1>4. ASSUME NEW s \in Sale, NEW p \in Payment, BeginPaying(s, p)
      PROVE  MoneyBuysStalls'
  BY <1>4 DEF BeginPaying
<1>5. ASSUME NEW s \in Sale, NEW p \in Payment, Charge(s, p)
      PROVE  MoneyBuysStalls'
  BY <1>5 DEF Charge
<1>6. ASSUME NEW s \in Sale, NEW p \in Payment, Sell(s, p) \/ Fall(s, p)
      PROVE  MoneyBuysStalls'
  <2>1. \A q \in Payment : q # p /\ of[q] = s => money[q] \notin {"taken", "kept"}
    BY <1>6 DEF Sell, Fall, PaidOnce
  <2>. QED
    BY <1>6, <2>1 DEF Sell, Fall
<1>7. ASSUME NEW p \in Payment, GiveBack(p)
      PROVE  MoneyBuysStalls'
  BY <1>7 DEF GiveBack
<1>8. CASE UNCHANGED saleVars
  BY <1>8 DEF saleVars
<1>. QED
  BY <1>1, <1>2, <1>3, <1>4, <1>5, <1>6, <1>7, <1>8 DEF Next

LEMMA PaidOnceStep ==
  ASSUME SaleInv, [Next]_saleVars
  PROVE  PaidOnce'
<1>. USE SaleAssumption DEF SaleInv, TypeOK, PaidOnce
<1>1. ASSUME NEW S \in SUBSET Sale, Lapse(S)
      PROVE  PaidOnce'
  BY <1>1 DEF Lapse
<1>2. ASSUME NEW s \in Sale, Hold(s) \/ StopPaying(s) \/ SellFree(s)
      PROVE  PaidOnce'
  BY <1>2 DEF Hold, StopPaying, SellFree
<1>3. ASSUME NEW s \in Sale, NEW p \in Payment, BeginPaying(s, p)
      PROVE  PaidOnce'
  BY <1>3 DEF BeginPaying, MoneyBuysStalls
<1>4. ASSUME NEW s \in Sale, NEW p \in Payment, Charge(s, p)
      PROVE  PaidOnce'
  <2>1. \A q \in Payment : of[q] = s => money[q] \notin {"taken", "kept"}
    BY <1>4 DEF Charge, PaymentsOf, MoneyBuysStalls
  <2>. QED
    BY <1>4, <2>1 DEF Charge
<1>5. ASSUME NEW s \in Sale, NEW p \in Payment, Sell(s, p) \/ Fall(s, p)
      PROVE  PaidOnce'
  BY <1>5 DEF Sell, Fall
<1>6. ASSUME NEW p \in Payment, GiveBack(p)
      PROVE  PaidOnce'
  BY <1>6 DEF GiveBack
<1>7. CASE UNCHANGED saleVars
  BY <1>7 DEF saleVars
<1>. QED
  BY <1>1, <1>2, <1>3, <1>4, <1>5, <1>6, <1>7 DEF Next

\* Money is kept only for a stall that was sold and undecided only while the
\* stall is kept for its payer, and no sale holds the money of two payments,
\* whatever the sales and payments.
THEOREM SalesAreHonest == Spec => [](TypeOK /\ MoneyBuysStalls /\ PaidOnce)
<1>1. Init => SaleInv
  BY DEF Init, SaleInv, TypeOK, MoneyBuysStalls, PaidOnce
<1>2. SaleInv /\ [Next]_saleVars => SaleInv'
  BY SaleTypeStep, MoneyStep, PaidOnceStep DEF SaleInv
<1>. QED
  BY <1>1, <1>2, PTL DEF Spec, SaleInv

-----------------------------------------------------------------------------
(* The webhook inbox *)

Session == {"open", "settling", "paid", "expired", "failed"}
Final == {"paid", "expired", "failed"}
Status == {"CREATING", "OPEN", "SUCCEEDED", "EXPIRED", "FAILED"}

EventJob == {NotServing}
       \cup [event : Event \cup {"none"}, step : {"find", "sync", "judge"}]
       \cup [event : Event \cup {"none"}, step : {"apply"}, answer : Session]

EventTypeOK ==
  /\ session \in Session
  /\ attempt \in [status : Status, error : BOOLEAN]
  /\ inbox \in [Event -> [news : Session \cup {"none"},
                          row : {"none", "sent", "recorded", "processed"}]]
  /\ serving \in [Server -> EventJob]

\* What a session ends with it keeps: an answer or an event that names an end
\* names the session's own, however old it is, and so does a closed attempt.
EndsAgree ==
  /\ \A w \in Server :
       serving[w].step = "apply" /\ serving[w].answer \in Final => serving[w].answer = session
  /\ \A e \in Event : inbox[e].news \in Final => inbox[e].news = session
  /\ attempt.status = "SUCCEEDED" => session = "paid"
  /\ attempt.status = "EXPIRED" => session = "expired"
  /\ attempt.status = "FAILED" => session = "failed"

EventInv == EventTypeOK /\ EndsAgree

\* The first state satisfies the invariant.
LEMMA EventsStart == EventInit => EventInv
  BY SMT DEF EventInit, EventInv, EventTypeOK, EndsAgree, Session, Final, Status, EventJob,
             NotServing, NoEvent

\* An attempt with an error noted, and one with an outcome taken.
LEMMA Attempts ==
  ASSUME attempt \in [status : Status, error : BOOLEAN]
  PROVE  /\ [attempt EXCEPT !.error = TRUE] \in [status : Status, error : BOOLEAN]
         /\ [attempt EXCEPT !.error = TRUE].status = attempt.status
         /\ \A s \in Status :
              /\ [attempt EXCEPT !.status = s] \in [status : Status, error : BOOLEAN]
              /\ [attempt EXCEPT !.status = s].status = s
              /\ [status |-> s, error |-> FALSE] \in [status : Status, error : BOOLEAN]
              /\ [status |-> s, error |-> FALSE].status = s
  BY Zenon

\* Ticking an event off leaves what it was sent for.
LEMMA TickedOff ==
  ASSUME EventTypeOK, NEW e, Processed(e)
  PROVE  /\ inbox' \in [Event -> [news : Session \cup {"none"},
                                row : {"none", "sent", "recorded", "processed"}]]
         /\ \A x \in Event : inbox'[x].news = inbox[x].news
<1> DEFINE Mark == [news : Session \cup {"none"},
                    row : {"none", "sent", "recorded", "processed"}]
<1>1. inbox \in [Event -> Mark] /\ inbox' = [inbox EXCEPT ![e] = [inbox[e] EXCEPT !.row = "processed"]]
  BY DEF Processed, EventTypeOK
<1>2. \A m \in Mark : /\ [m EXCEPT !.row = "processed"] \in Mark
                      /\ [m EXCEPT !.row = "processed"].news = m.news
  BY Zenon
<1>3. ASSUME NEW x \in Event PROVE inbox'[x] \in Mark /\ inbox'[x].news = inbox[x].news
  <2>1. CASE x = e
    BY <1>1, <1>2, <2>1, Zenon
  <2>2. CASE x # e
    BY <1>1, <2>2, Zenon
  <2> QED
    BY <2>1, <2>2
<1>4. inbox' \in [Event -> Mark]
  BY <1>1, <1>3, Zenon
<1> QED
  BY <1>3, <1>4

\* Moving on within one's work keeps it well formed.
LEMMA MovingOn ==
  ASSUME NEW w \in Server, EventTypeOK, At(w, "find") \/ At(w, "sync"),
         NEW step \in {"sync", "judge"}, To(w, step)
  PROVE  /\ serving' \in [Server -> EventJob]
         /\ \A v \in Server :
              serving'[v].step = "apply" => v # w /\ serving'[v] = serving[v]
<1>1. serving[w] \in EventJob
  BY DEF EventTypeOK
<1>2. serving[w] \in [event : Event \cup {"none"}, step : {"find", "sync", "judge"}]
  BY <1>1, SMT DEF EventJob, At, NotServing
<1> DEFINE job == [serving[w] EXCEPT !.step = step]
<1>3. job \in [event : Event \cup {"none"}, step : {"find", "sync", "judge"}] /\ job.step = step
  BY <1>2, SMT
<1>4. job \in EventJob
  BY <1>3 DEF EventJob
<1>5. serving' = [serving EXCEPT ![w] = job]
  BY DEF To, Serve
<1> HIDE DEF job
<1>6. serving' \in [Server -> EventJob]
  BY <1>4, <1>5, SMT DEF EventTypeOK
<1>7. ASSUME NEW v \in Server, serving'[v].step = "apply"
      PROVE  v # w /\ serving'[v] = serving[v]
  BY <1>3, <1>5, <1>7, SMT DEF EventTypeOK
<1> QED
  BY <1>6, <1>7

\* Starting, ending and answering: the worker's job is given in full.
LEMMA Serving ==
  ASSUME NEW w \in Server, EventTypeOK, NEW job \in EventJob, Serve(w, job)
  PROVE  /\ serving' \in [Server -> EventJob]
         /\ \A v \in Server : serving'[v] = IF v = w THEN job ELSE serving[v]
  BY SMT DEF EventTypeOK, Serve

\* Every step keeps it.
LEMMA EventsStep ==
  ASSUME ~LateReports, EventInv, [EventNext]_eventVars
  PROVE  EventInv'
<1> USE DEF EventInv
<1>1. ASSUME NEW e \in Event, SessionChanges(e) PROVE EventInv'
  <2>1. EventTypeOK'
    BY <1>1, SMT DEF SessionChanges, Follows, Session, NoEvent, EventTypeOK
  <2>2. EndsAgree'
    BY <1>1, SMT DEF SessionChanges, Follows, Session, Final, NoEvent, EventTypeOK, EndsAgree
  <2> QED
    BY <2>1, <2>2
<1>2. ASSUME NEW w \in Server, NEW e \in Event, receive_webhook(w, e) PROVE EventInv'
  <2> DEFINE job == [event |-> e, step |-> "find"]
  <2>1. job \in EventJob
    BY DEF EventJob
  <2>2. Serve(w, job)
    BY <1>2 DEF receive_webhook
  <2>3. /\ serving' \in [Server -> EventJob]
        /\ \A v \in Server : serving'[v] = IF v = w THEN job ELSE serving[v]
    BY <2>1, <2>2, Serving
  <2>4. /\ inbox' \in [Event -> [news : Session \cup {"none"},
                                 row : {"none", "sent", "recorded", "processed"}]]
        /\ \A x \in Event : inbox'[x].news = inbox[x].news
    BY <1>2, SMT DEF receive_webhook, EventTypeOK
  <2> QED
    BY <1>2, <2>3, <2>4, SMT DEF receive_webhook, EventTypeOK, EndsAgree
<1>3. ASSUME NEW w \in Server, FindAttempt(w) PROVE EventInv'
  <2>1. CASE attempt.status = "CREATING"
    <3>2. /\ inbox' \in [Event -> [news : Session \cup {"none"},
                                   row : {"none", "sent", "recorded", "processed"}]]
          /\ \A x \in Event : inbox'[x].news = inbox[x].news
      BY <1>3, <2>1, TickedOff DEF FindAttempt
    <3>3. NotServing \in EventJob /\ NotServing.step = "none"
      BY DEF EventJob, NotServing
    <3>4. /\ serving' \in [Server -> EventJob]
          /\ \A v \in Server : serving'[v] = IF v = w THEN NotServing ELSE serving[v]
      BY <1>3, <2>1, <3>3, Serving DEF FindAttempt
    <3> QED
      BY <1>3, <3>2, <3>3, <3>4, SMT DEF FindAttempt, EventTypeOK, EndsAgree
  <2>2. CASE attempt.status # "CREATING"
    <3>1. /\ serving' \in [Server -> EventJob]
          /\ \A v \in Server :
               serving'[v].step = "apply" => v # w /\ serving'[v] = serving[v]
      BY <1>3, <2>2, MovingOn DEF FindAttempt
    <3> QED
      BY <1>3, <2>2, <3>1, SMT DEF FindAttempt, EventTypeOK, EndsAgree
  <2> QED
    BY <2>1, <2>2
<1>4. ASSUME NEW w \in Server, TakeUpAttempt(w) PROVE EventInv'
  <2> DEFINE job == [event |-> "none", step |-> "sync"]
  <2>1. job \in EventJob
    BY DEF EventJob
  <2>2. Serve(w, job)
    BY <1>4 DEF TakeUpAttempt
  <2>3. /\ serving' \in [Server -> EventJob]
        /\ \A v \in Server : serving'[v] = IF v = w THEN job ELSE serving[v]
    BY <2>1, <2>2, Serving
  <2> QED
    BY <1>4, <2>3, SMT DEF TakeUpAttempt, EventTypeOK, EndsAgree
<1>5. ASSUME NEW w \in Server, CreateSession(w) PROVE EventInv'
  <2> "OPEN" \in Status
    BY DEF Status
  <2>1. /\ attempt' \in [status : Status, error : BOOLEAN]
        /\ attempt'.status \in {"CREATING", "OPEN"}
    BY <1>5, Attempts, Zenon DEF CreateSession, EventTypeOK
  <2>2. CASE UNCHANGED serving
    BY <1>5, <2>1, <2>2, SMT DEF CreateSession, EventTypeOK, EndsAgree
  <2>3. CASE To(w, "judge")
    <3>1. /\ serving' \in [Server -> EventJob]
          /\ \A v \in Server :
               serving'[v].step = "apply" => v # w /\ serving'[v] = serving[v]
      BY <1>5, <2>3, MovingOn DEF CreateSession
    <3> QED
      BY <1>5, <2>1, <3>1, SMT DEF CreateSession, EventTypeOK, EndsAgree
  <2> QED
    BY <1>5, <2>2, <2>3 DEF CreateSession
<1>6. ASSUME NEW w \in Server, NothingToAsk(w) PROVE EventInv'
  <2>1. /\ serving' \in [Server -> EventJob]
        /\ \A v \in Server :
             serving'[v].step = "apply" => v # w /\ serving'[v] = serving[v]
    BY <1>6, MovingOn DEF NothingToAsk
  <2> QED
    BY <1>6, <2>1, SMT DEF NothingToAsk, EventTypeOK, EndsAgree
<1>7. ASSUME NEW w \in Server, Retrieve(w) PROVE EventInv'
  <2>1. CASE attempt' = [attempt EXCEPT !.error = TRUE] /\ To(w, "judge")
    <3>1. /\ attempt' \in [status : Status, error : BOOLEAN]
          /\ attempt'.status = attempt.status
      BY <2>1, Attempts, Zenon DEF EventTypeOK
    <3>2. /\ serving' \in [Server -> EventJob]
          /\ \A v \in Server :
               serving'[v].step = "apply" => v # w /\ serving'[v] = serving[v]
      BY <1>7, <2>1, MovingOn DEF Retrieve
    <3> QED
      BY <1>7, <3>1, <3>2, SMT DEF Retrieve, EventTypeOK, EndsAgree
  <2> DEFINE job == [event |-> serving[w].event, step |-> "apply", answer |-> session]
  <2>2. CASE Serve(w, job) /\ UNCHANGED attempt
    <3>1. serving[w].event \in Event \cup {"none"}
      BY <1>7, SMT DEF Retrieve, At, EventTypeOK, EventJob, NotServing
    <3>2. job \in EventJob /\ job.answer = session
      BY <3>1 DEF EventJob, EventTypeOK
    <3>3. /\ serving' \in [Server -> EventJob]
          /\ \A v \in Server : serving'[v] = IF v = w THEN job ELSE serving[v]
      BY <2>2, <3>2, Serving
    <3> HIDE DEF job
    <3> QED
      BY <1>7, <2>2, <3>2, <3>3, SMT DEF Retrieve, EventTypeOK, EndsAgree
  <2> QED
    BY <1>7, <2>1, <2>2 DEF Retrieve
<1>8. ASSUME NEW w \in Server, ApplySession(w) PROVE EventInv'
  <2> DEFINE job == [event |-> serving[w].event, step |-> "judge"]
             answer == serving[w].answer
  <2>1. serving[w].event \in Event \cup {"none"} /\ answer \in Session
    BY <1>8, SMT DEF ApplySession, At, EventTypeOK, EventJob, NotServing
  <2>2. job \in EventJob /\ job.step = "judge"
    BY <2>1 DEF EventJob
  <2>3. /\ serving' \in [Server -> EventJob]
        /\ \A v \in Server : serving'[v] = IF v = w THEN job ELSE serving[v]
    BY <1>8, <2>2, Serving DEF ApplySession
  <2>4. answer \in Final => answer = session
    BY <1>8, SMT DEF ApplySession, At, EndsAgree
  <2>5. attempt' = IF attempt.status \in UNRESOLVED_ATTEMPT \/ Outcome(answer) = "SUCCEEDED"
                   THEN [status |-> Outcome(answer), error |-> FALSE] ELSE attempt
    BY <1>8 DEF ApplySession
  <2> HIDE DEF job, answer
  <2>6. /\ Outcome(answer) \in Status
        /\ Outcome(answer) = "SUCCEEDED" => answer = "paid"
        /\ Outcome(answer) = "EXPIRED" => answer = "expired"
        /\ Outcome(answer) = "FAILED" => answer = "failed"
    BY <2>1, SMT DEF Outcome, Session, Status
  <2>7. /\ attempt' \in [status : Status, error : BOOLEAN]
        /\ attempt'.status = attempt.status \/ attempt'.status = Outcome(answer)
    <3>1. attempt \in [status : Status, error : BOOLEAN]
      BY DEF EventTypeOK
    <3>2. \/ attempt' = [status |-> Outcome(answer), error |-> FALSE]
          \/ attempt' = attempt
      BY <2>5
    <3> QED
      BY <2>6, <3>1, <3>2, Attempts, Zenon
  <2> QED
    BY <1>8, <2>2, <2>3, <2>4, <2>6, <2>7, SMT DEF ApplySession, EventTypeOK, EndsAgree, Final
<1>9. ASSUME NEW w \in Server, JudgeEvent(w) PROVE EventInv'
  <2>1. NotServing \in EventJob /\ NotServing.step = "none"
    BY DEF EventJob, NotServing
  <2>2. /\ serving' \in [Server -> EventJob]
        /\ \A v \in Server : serving'[v] = IF v = w THEN NotServing ELSE serving[v]
    BY <1>9, <2>1, Serving DEF JudgeEvent
  <2>3. /\ inbox' \in [Event -> [news : Session \cup {"none"},
                                 row : {"none", "sent", "recorded", "processed"}]]
        /\ \A x \in Event : inbox'[x].news = inbox[x].news
    <3>1. CASE UNCHANGED inbox
      BY <3>1 DEF EventTypeOK
    <3>2. CASE Processed(serving[w].event)
      BY <3>2, TickedOff
    <3> QED
      BY <1>9, <3>1, <3>2 DEF JudgeEvent
  <2> QED
    BY <1>9, <2>1, <2>2, <2>3, SMT DEF JudgeEvent, EventTypeOK, EndsAgree
<1>10. ASSUME NEW w \in Server, WorkerDies(w) PROVE EventInv'
  <2>1. NotServing \in EventJob /\ NotServing.step = "none"
    BY DEF EventJob, NotServing
  <2>2. /\ serving' \in [Server -> EventJob]
        /\ \A v \in Server : serving'[v] = IF v = w THEN NotServing ELSE serving[v]
    BY <1>10, <2>1, Serving DEF WorkerDies
  <2> QED
    BY <1>10, <2>1, <2>2, SMT DEF WorkerDies, EventTypeOK, EndsAgree
<1>11. CASE UNCHANGED eventVars
  BY <1>11, SMT DEF eventVars, EventTypeOK, EndsAgree
<1> QED
  BY <1>1, <1>2, <1>3, <1>4, <1>5, <1>6, <1>7, <1>8, <1>9, <1>10, <1>11 DEF EventNext

\* An event that is ticked off has reached its attempt, or the attempt is
\* still asked about: payments/services.py process_event, _apply_session.
THEOREM NewsReachesTheAttempt ==
  ASSUME ~LateReports
  PROVE  EventSpec => []NewsIsNotLost
<1>1. EventInit => EventInv
  BY EventsStart
<1>2. EventInv /\ [EventNext]_eventVars => EventInv'
  BY EventsStep
<1>3. EventInv => NewsIsNotLost
  BY SMT DEF EventInv, EventTypeOK, EndsAgree, NewsIsNotLost, Final, Status, Closed,
             UNRESOLVED_ATTEMPT
<1> QED
  BY <1>1, <1>2, <1>3, PTL DEF EventSpec

-----------------------------------------------------------------------------
(* The older booking pipeline *)

ApplicationStatus ==
  {"NONE", "PENDING_FEE_PAYMENT", "SUBMITTED", "APPROVED", "DENIED", "WITHDRAWN"}
BookingStatus == {"NONE", "PENDING_PAYMENT", "CONFIRMED", "CANCELED", "EXPIRED"}
BookingRow == [vendor : Vendor \cup {NoVendor}, status : BookingStatus, canceled : BOOLEAN]

Applying == [op : {"apply", "insert"}, x : Vendor, pays : BOOLEAN]
Reviewing == [op : {"review"}, x : Vendor, to : {"APPROVED", "DENIED", "WITHDRAWN"}]
Reserving == [op : {"book"}, vendor : Vendor]
Canceling == [op : {"cancel"}, x : Booking, was : BookingStatus]
Paying == [op : {"charge", "record", "return", "confirm", "succeed"}, x : Paid]
Job == {Idle} \cup Applying \cup Reviewing \cup Reserving \cup Canceling \cup Paying

LegacyTypeOK ==
  /\ application \in [Vendor -> ApplicationStatus]
  /\ booking \in [Booking -> BookingRow]
  /\ space \in [available : Int, status : {"AVAILABLE", "SOLD_OUT"}]
  /\ payment \in [Paid -> {"NONE", "PENDING", "FAILED", "SUCCEEDED"}]
  /\ intent \in [Paid -> {"NONE", "CREATED", "PAYABLE", "PAID"}]
  /\ process \in [Process -> Job]

Charges == {"charge", "record", "return"}

\* One request charges for an application or a booking, the one that made its
\* row; it hands the secret out after the Payment row, and only then can the
\* client pay; only what is paid is confirmed.
ChargesAreApart ==
  /\ \A p \in Process : process[p].op \in Charges =>
       LET x == process[p].x IN
       /\ intent[x] = (IF process[p].op = "charge" THEN "NONE" ELSE "CREATED")
       /\ payment[x] = "NONE" <=> process[p].op # "return"
       /\ x \in Booking => booking[x].status # "NONE"
       /\ x \in Vendor => application[x] # "NONE"
  /\ \A p, q \in Process :
       process[p].op \in Charges /\ process[q].op \in Charges
         /\ process[p].x = process[q].x => p = q
  /\ \A p \in Process :
       process[p].op \in {"confirm", "succeed"} => intent[process[p].x] = "PAID"
  /\ \A b \in Booking :
       booking[b].status = "NONE" => intent[b] = "NONE" /\ payment[b] = "NONE"
  /\ \A v \in Vendor :
       application[v] = "NONE" => intent[v] = "NONE" /\ payment[v] = "NONE"
  /\ \A x \in Paid :
       /\ intent[x] \in {"PAYABLE", "PAID"} => payment[x] # "NONE"
       /\ payment[x] = "SUCCEEDED" => intent[x] = "PAID"
  /\ \A b \in Booking : booking[b].status = "CONFIRMED" => intent[b] = "PAID"

LegacyInv == LegacyTypeOK /\ ChargesAreApart

\* Applications and bookings are told apart.
LEMMA ApartAssumption ==
  /\ Vendor \cap Booking = {}
  /\ NoVendor \notin Vendor
  /\ IsFiniteSet(Booking)
  /\ Units \in Nat \ {0}
  BY LegacyAssumption

\* A request goes on to a job that is given in full.
LEMMA GoesOn ==
  ASSUME NEW p \in Process, process \in [Process -> Job], NEW r \in Job, Becomes(p, r)
  PROVE  /\ process' \in [Process -> Job]
         /\ \A q \in Process : process'[q] = IF q = p THEN r ELSE process[q]
  BY SMT DEF Becomes

\* What a request is doing is told by its operation.
LEMMA JobOf ==
  ASSUME NEW p \in Process, process \in [Process -> Job]
  PROVE  /\ process[p].op \in {"apply", "insert"} => process[p] \in Applying
         /\ process[p].op = "review" => process[p] \in Reviewing
         /\ process[p].op = "book" => process[p] \in Reserving
         /\ process[p].op = "cancel" => process[p] \in Canceling
         /\ process[p].op \in Charges \cup {"confirm", "succeed"} => process[p] \in Paying
         /\ process[p] # Idle => process[p].op # "none"
<1>1. process[p] \in Job
  OBVIOUS
<1> QED
  BY <1>1, SMT DEF Job, Applying, Reviewing, Reserving, Canceling, Paying, Idle, Charges

\* The next step of a job keeps what the job is about.
LEMMA NextStep ==
  /\ \A r \in Paying : \A op \in {"charge", "record", "return", "confirm", "succeed"} :
       [r EXCEPT !.op = op] \in Paying /\ [r EXCEPT !.op = op].op = op
         /\ [r EXCEPT !.op = op].x = r.x
  /\ \A r \in Applying :
       [r EXCEPT !.op = "insert"] \in Applying /\ [r EXCEPT !.op = "insert"].op = "insert"
  BY Zenon DEF Paying, Applying

\* A request that neither charges nor confirms, and rows that stay, keep the
\* invariant.
LEMMA Quietly ==
  ASSUME LegacyInv, NEW p \in Process, NEW r \in Job, Becomes(p, r),
         r.op \notin Charges \cup {"confirm", "succeed"},
         UNCHANGED <<payment, intent>>,
         \A b \in Booking : /\ booking'[b].status = "NONE" => booking[b].status = "NONE"
                            /\ booking'[b].status = "CONFIRMED" => booking[b].status = "CONFIRMED",
         \A v \in Vendor : application'[v] = "NONE" => application[v] = "NONE"
  PROVE  ChargesAreApart' /\ process' \in [Process -> Job]
<1>1. /\ process' \in [Process -> Job]
      /\ \A q \in Process : process'[q] = IF q = p THEN r ELSE process[q]
  BY GoesOn DEF LegacyInv, LegacyTypeOK
<1>2. \A q \in Process :
        process'[q].op \in Charges \cup {"confirm", "succeed"} => process'[q] = process[q]
  BY <1>1
<1> QED
  BY <1>1, <1>2, SMT DEF LegacyInv, ChargesAreApart

\* The first state satisfies the invariant.
LEMMA LegacyStart == LegacyInit => LegacyInv
<1> SUFFICES ASSUME LegacyInit PROVE LegacyInv
  OBVIOUS
<1>1. Idle \in Job /\ Idle.op = "none"
  BY DEF Job, Idle
<1>2. NoBooking \in BookingRow /\ NoBooking.status = "NONE"
  BY DEF NoBooking, BookingRow, BookingStatus
<1>3. LegacyTypeOK
  BY <1>1, <1>2, ApartAssumption, SMT DEF LegacyInit, LegacyTypeOK, ApplicationStatus
<1>4. ChargesAreApart
  BY <1>1, <1>2, SMT DEF LegacyInit, ChargesAreApart, Charges, Paid
<1> QED
  BY <1>3, <1>4 DEF LegacyInv

\* A new charge, for an application or a booking whose row is made now.
LEMMA NewCharge ==
  ASSUME LegacyInv, NEW p \in Process, NEW x \in Paid, Becomes(p, [op |-> "charge", x |-> x]),
         UNCHANGED <<payment, intent>>,
         x \in Booking => booking[x].status = "NONE" /\ booking'[x].status \notin {"NONE", "CONFIRMED"},
         x \in Vendor => application[x] = "NONE" /\ application'[x] # "NONE",
         \A b \in Booking \ {x} : booking'[b] = booking[b],
         \A v \in Vendor \ {x} : application'[v] = application[v]
  PROVE  ChargesAreApart' /\ process' \in [Process -> Job]
<1> DEFINE r == [op |-> "charge", x |-> x]
<1>1. r \in Job /\ r.op = "charge" /\ r.x = x
  BY DEF Job, Paying
<1>2. /\ process' \in [Process -> Job]
      /\ \A q \in Process : process'[q] = IF q = p THEN r ELSE process[q]
  BY <1>1, GoesOn DEF LegacyInv, LegacyTypeOK
<1> HIDE DEF r
<1>3. intent[x] = "NONE" /\ payment[x] = "NONE" /\ (x \in Booking \/ x \in Vendor)
  BY SMT DEF LegacyInv, ChargesAreApart, Paid
<1>4. \A q \in Process : process[q].op \in Charges => process[q].x # x
  BY SMT DEF LegacyInv, ChargesAreApart, Paid
<1>5. \A q \in Process : process[q].op \in Charges => process[q].x \in Paid
  BY JobOf, SMT DEF LegacyInv, LegacyTypeOK, Paying, Charges
<1>6. ASSUME NEW q \in Process, process'[q].op \in Charges
      PROVE  LET y == process'[q].x IN
             /\ intent'[y] = (IF process'[q].op = "charge" THEN "NONE" ELSE "CREATED")
             /\ payment'[y] = "NONE" <=> process'[q].op # "return"
             /\ y \in Booking => booking'[y].status # "NONE"
             /\ y \in Vendor => application'[y] # "NONE"
  <2>1. CASE q = p
    BY <1>1, <1>2, <1>3, <2>1, SMT
  <2>2. CASE q # p
    BY <1>2, <1>4, <1>6, <2>2, SMT DEF LegacyInv, ChargesAreApart
  <2> QED
    BY <2>1, <2>2
<1>7. \A q, s \in Process :
        process'[q].op \in Charges /\ process'[s].op \in Charges
          /\ process'[q].x = process'[s].x => q = s
  BY <1>1, <1>2, <1>4, SMT DEF LegacyInv, ChargesAreApart
<1>8. \A q \in Process :
        process'[q].op \in {"confirm", "succeed"} => intent'[process'[q].x] = "PAID"
  BY <1>1, <1>2, SMT DEF LegacyInv, ChargesAreApart
<1>9. /\ \A b \in Booking :
           /\ booking'[b].status = "NONE" => intent'[b] = "NONE" /\ payment'[b] = "NONE"
           /\ booking'[b].status = "CONFIRMED" => intent'[b] = "PAID"
      /\ \A v \in Vendor : application'[v] = "NONE" => intent'[v] = "NONE" /\ payment'[v] = "NONE"
      /\ \A y \in Paid :
           /\ intent'[y] \in {"PAYABLE", "PAID"} => payment'[y] # "NONE"
           /\ payment'[y] = "SUCCEEDED" => intent'[y] = "PAID"
  BY SMT DEF LegacyInv, ChargesAreApart
<1> QED
  BY <1>2, <1>6, <1>7, <1>8, <1>9 DEF ChargesAreApart

\* Applying, reviewing, and the reads before a booking or a cancellation.
LEMMA ApplicationsStep ==
  ASSUME LegacyInv, NEW p \in Process,
         \/ \E v \in Vendor :
              \/ InitiateFee(p, v) \/ SubmitApplication(p, v) \/ ReadSpace(p, v)
              \/ \E to \in {"APPROVED", "DENIED", "WITHDRAWN"} : BeginTransition(p, v, to)
         \/ \E b \in Booking : BeginCancel(p, b)
         \/ ReadEvent(p) \/ Transition(p) \/ Stops(p)
  PROVE  LegacyInv'
<1>0. Idle \in Job /\ Idle.op = "none" /\ process \in [Process -> Job]
  BY DEF Job, Idle, LegacyInv, LegacyTypeOK
<1> USE DEF Charges
<1>1. ASSUME NEW v \in Vendor, InitiateFee(p, v) PROVE LegacyInv'
  <2>1. [op |-> "apply", x |-> v, pays |-> TRUE] \in Job
    BY DEF Job, Applying
  <2> QED
    BY <1>1, <2>1, Quietly DEF InitiateFee, LegacyInv, LegacyTypeOK
<1>2. ASSUME NEW v \in Vendor, SubmitApplication(p, v) PROVE LegacyInv'
  <2>1. [op |-> "apply", x |-> v, pays |-> FALSE] \in Job
    BY DEF Job, Applying
  <2> QED
    BY <1>2, <2>1, Quietly DEF SubmitApplication, LegacyInv, LegacyTypeOK
<1>3. ASSUME NEW v \in Vendor, ReadSpace(p, v) PROVE LegacyInv'
  <2>1. [op |-> "book", vendor |-> v] \in Job
    BY DEF Job, Reserving
  <2> QED
    BY <1>3, <2>1, Quietly DEF ReadSpace, LegacyInv, LegacyTypeOK
<1>4. ASSUME NEW v \in Vendor, NEW to \in {"APPROVED", "DENIED", "WITHDRAWN"},
             BeginTransition(p, v, to)
      PROVE  LegacyInv'
  <2>1. [op |-> "review", x |-> v, to |-> to] \in Job
    BY DEF Job, Reviewing
  <2> QED
    BY <1>4, <2>1, Quietly DEF BeginTransition, LegacyInv, LegacyTypeOK
<1>5. ASSUME NEW b \in Booking, BeginCancel(p, b) PROVE LegacyInv'
  <2>1. booking[b].status \in BookingStatus
    BY DEF LegacyInv, LegacyTypeOK, BookingRow
  <2>2. [op |-> "cancel", x |-> b, was |-> booking[b].status] \in Job
    BY <2>1 DEF Job, Canceling
  <2> QED
    BY <1>5, <2>2, Quietly DEF BeginCancel, LegacyInv, LegacyTypeOK
<1>6. CASE ReadEvent(p)
  <2>1. process[p] \in Applying
    BY <1>0, <1>6, JobOf DEF ReadEvent, Does
  <2> DEFINE r == [process[p] EXCEPT !.op = "insert"]
  <2>2. r \in Job /\ r.op = "insert"
    BY <2>1, NextStep DEF Job
  <2>3. Becomes(p, r)
    BY <1>6 DEF ReadEvent
  <2> HIDE DEF r
  <2> QED
    BY <1>6, <2>2, <2>3, Quietly DEF ReadEvent, LegacyInv, LegacyTypeOK
<1>7. CASE Transition(p)
  <2>1. process[p] \in Reviewing
    BY <1>0, <1>7, JobOf DEF Transition, Does
  <2>2. process[p].x \in Vendor /\ process[p].to \in {"APPROVED", "DENIED", "WITHDRAWN"}
    BY <2>1 DEF Reviewing
  <2>3. ChargesAreApart' /\ process' \in [Process -> Job]
    <3>1. \A v \in Vendor : application'[v] = "NONE" => application[v] = "NONE"
      BY <1>7, <2>2, SMT DEF Transition, LegacyInv, LegacyTypeOK
    <3> QED
      BY <1>0, <1>7, <3>1, Quietly DEF Transition
  <2>4. application' \in [Vendor -> ApplicationStatus]
    BY <1>7, <2>2, SMT DEF Transition, LegacyInv, LegacyTypeOK, ApplicationStatus
  <2> QED
    BY <1>7, <2>3, <2>4 DEF Transition, LegacyInv, LegacyTypeOK
<1>8. CASE Stops(p)
  BY <1>0, <1>8, Quietly DEF Stops, LegacyInv, LegacyTypeOK
<1> QED
  BY <1>1, <1>2, <1>3, <1>4, <1>5, <1>6, <1>7, <1>8

\* The rows that are charged for.
LEMMA RowsStep ==
  ASSUME LegacyInv, NEW p \in Process,
         createPendingApplication(p) \/ (\E b \in Booking : createBooking(p, b))
           \/ cancelBooking(p)
  PROVE  LegacyInv'
<1>0. Idle \in Job /\ Idle.op = "none" /\ process \in [Process -> Job]
  BY DEF Job, Idle, LegacyInv, LegacyTypeOK
<1>1. CASE createPendingApplication(p)
  <2> DEFINE v == process[p].x
             status == IF fee THEN "PENDING_FEE_PAYMENT" ELSE "SUBMITTED"
  <2>1. process[p] \in Applying
    BY <1>0, <1>1, JobOf DEF createPendingApplication, Does
  <2>2. v \in Vendor /\ v \in Paid /\ v \notin Booking
    BY <2>1, ApartAssumption DEF Applying, Paid
  <2>3. application' = [application EXCEPT ![v] = status] /\ application[v] = "NONE"
    BY <1>1 DEF createPendingApplication
  <2>4. status \in ApplicationStatus /\ status # "NONE"
    BY DEF ApplicationStatus
  <2> HIDE DEF v, status
  <2>5. /\ application' \in [Vendor -> ApplicationStatus]
        /\ application'[v] # "NONE"
        /\ \A w \in Vendor \ {v} : application'[w] = application[w]
    BY <2>2, <2>3, <2>4, SMT DEF LegacyInv, LegacyTypeOK
  <2>6. UNCHANGED <<payment, intent, booking, space>>
    BY <1>1 DEF createPendingApplication
  <2>7. ChargesAreApart' /\ process' \in [Process -> Job]
    <3>1. CASE Becomes(p, [op |-> "charge", x |-> v])
      BY <2>2, <2>3, <2>5, <2>6, <3>1, NewCharge
    <3>2. CASE Becomes(p, Idle)
      <4>1. \A w \in Vendor : application'[w] = "NONE" => application[w] = "NONE"
        BY <2>5
      <4> QED
        BY <1>0, <2>6, <3>2, <4>1, Quietly DEF Charges
    <3> QED
      BY <1>1, <3>1, <3>2 DEF createPendingApplication, v
  <2> QED
    BY <2>5, <2>6, <2>7 DEF LegacyInv, LegacyTypeOK
<1>2. ASSUME NEW b \in Booking, createBooking(p, b) PROVE LegacyInv'
  <2> DEFINE row == [vendor |-> process[p].vendor, status |-> "PENDING_PAYMENT", canceled |-> FALSE]
  <2>1. process[p] \in Reserving
    BY <1>0, <1>2, JobOf DEF createBooking, Does
  <2>2. row \in BookingRow /\ row.status = "PENDING_PAYMENT"
    BY <2>1 DEF Reserving, BookingRow, BookingStatus
  <2>3. booking' = [booking EXCEPT ![b] = row] /\ booking[b].status = "NONE"
    BY <1>2 DEF createBooking, NoBooking
  <2> HIDE DEF row
  <2>4. /\ booking' \in [Booking -> BookingRow]
        /\ booking'[b].status = "PENDING_PAYMENT"
        /\ \A c \in Booking \ {b} : booking'[c] = booking[c]
    BY <2>2, <2>3, SMT DEF LegacyInv, LegacyTypeOK
  <2>5. UNCHANGED <<payment, intent, application, space>>
    BY <1>2 DEF createBooking
  <2>6. b \in Paid /\ b \notin Vendor
    BY ApartAssumption DEF Paid
  <2>7. ChargesAreApart' /\ process' \in [Process -> Job]
    BY <1>2, <2>3, <2>4, <2>5, <2>6, NewCharge DEF createBooking
  <2> QED
    BY <2>4, <2>5, <2>7 DEF LegacyInv, LegacyTypeOK
<1>3. CASE cancelBooking(p)
  <2> DEFINE b == process[p].x
             row == [booking[b] EXCEPT !.status = "CANCELED", !.canceled = TRUE]
  <2>1. process[p] \in Canceling
    BY <1>0, <1>3, JobOf DEF cancelBooking, Does
  <2>2. b \in Booking /\ booking[b] \in BookingRow
    BY <2>1 DEF Canceling, LegacyInv, LegacyTypeOK
  <2>3. row \in BookingRow /\ row.status = "CANCELED"
    BY <2>2, Zenon DEF BookingRow, BookingStatus
  <2>4. booking' = [booking EXCEPT ![b] = row]
    BY <1>3 DEF cancelBooking
  <2> HIDE DEF b, row
  <2>5. /\ booking' \in [Booking -> BookingRow]
        /\ booking'[b].status = "CANCELED"
        /\ \A c \in Booking \ {b} : booking'[c] = booking[c]
    BY <2>2, <2>3, <2>4, SMT DEF LegacyInv, LegacyTypeOK
  <2>6. space' \in [available : Int, status : {"AVAILABLE", "SOLD_OUT"}]
    BY <1>3, SMT DEF cancelBooking, LegacyInv, LegacyTypeOK
  <2>7. UNCHANGED <<payment, intent, application>> /\ Becomes(p, Idle)
    BY <1>3 DEF cancelBooking
  <2>8. \A c \in Booking : /\ booking'[c].status = "NONE" => booking[c].status = "NONE"
                           /\ booking'[c].status = "CONFIRMED" => booking[c].status = "CONFIRMED"
    BY <2>5
  <2>9. ChargesAreApart' /\ process' \in [Process -> Job]
    BY <1>0, <2>7, <2>8, Quietly DEF Charges
  <2> QED
    BY <2>5, <2>6, <2>7, <2>9 DEF LegacyInv, LegacyTypeOK
<1> QED
  BY <1>1, <1>2, <1>3

\* The three steps of a charge.
LEMMA ChargeStep ==
  ASSUME LegacyInv, NEW p \in Process, CreateIntent(p) \/ CreatePayment(p) \/ ReturnSecret(p)
  PROVE  LegacyInv'
<1> DEFINE x == process[p].x
<1>0. process \in [Process -> Job] /\ process[p].op \in Charges
  BY DEF LegacyInv, LegacyTypeOK, CreateIntent, CreatePayment, ReturnSecret, Does, Charges
<1>1. process[p] \in Paying /\ x \in Paid
  BY <1>0, JobOf DEF Paying, Charges
<1>2. \A q \in Process : process[q].op \in Charges /\ q # p => process[q].x \in Paid \ {x}
  BY <1>0, JobOf, SMT DEF LegacyInv, ChargesAreApart, Paying, Charges
<1>3. /\ \A q \in Process : process[q].op \in {"confirm", "succeed"} => process[q].x # x
      /\ x \in Booking => booking[x].status \notin {"NONE", "CONFIRMED"}
      /\ x \in Vendor => application[x] # "NONE"
      /\ payment[x] # "SUCCEEDED"
  BY <1>0, <1>1, SMT DEF LegacyInv, ChargesAreApart
<1>4. UNCHANGED <<application, booking, space>>
  BY DEF CreateIntent, CreatePayment, ReturnSecret
<1>5. CASE CreateIntent(p)
  <2> DEFINE r == [process[p] EXCEPT !.op = "record"]
  <2>1. r \in Job /\ r.op = "record" /\ r.x = x
    BY <1>1, NextStep DEF Job
  <2>2. Becomes(p, r) /\ intent' = [intent EXCEPT ![x] = "CREATED"] /\ UNCHANGED payment
    BY <1>5 DEF CreateIntent
  <2>3. payment[x] = "NONE"
    BY <1>0, <1>5, SMT DEF CreateIntent, Does, LegacyInv, ChargesAreApart
  <2> HIDE DEF r, x
  <2>4. /\ process' \in [Process -> Job]
        /\ \A q \in Process : process'[q] = IF q = p THEN r ELSE process[q]
    BY <1>0, <2>1, <2>2, GoesOn
  <2>5. /\ intent' \in [Paid -> {"NONE", "CREATED", "PAYABLE", "PAID"}]
        /\ intent'[x] = "CREATED"
        /\ \A y \in Paid \ {x} : intent'[y] = intent[y]
    BY <1>1, <2>2, SMT DEF LegacyInv, LegacyTypeOK
  <2>6. LegacyTypeOK'
    BY <1>4, <2>2, <2>4, <2>5 DEF LegacyInv, LegacyTypeOK
  <2>7. ChargesAreApart'
    BY <1>0, <1>1, <1>2, <1>3, <1>4, <2>1, <2>2, <2>3, <2>4, <2>5, JobOf, SMT
       DEF LegacyInv, ChargesAreApart, Charges, Paying, Paid
  <2> QED
    BY <2>6, <2>7 DEF LegacyInv
<1>6. CASE CreatePayment(p)
  <2> DEFINE r == [process[p] EXCEPT !.op = "return"]
  <2>1. r \in Job /\ r.op = "return" /\ r.x = x
    BY <1>1, NextStep DEF Job
  <2>2. Becomes(p, r) /\ payment' = [payment EXCEPT ![x] = "PENDING"] /\ UNCHANGED intent
    BY <1>6 DEF CreatePayment
  <2>3. intent[x] = "CREATED"
    BY <1>0, <1>6, SMT DEF CreatePayment, Does, LegacyInv, ChargesAreApart
  <2> HIDE DEF r, x
  <2>4. /\ process' \in [Process -> Job]
        /\ \A q \in Process : process'[q] = IF q = p THEN r ELSE process[q]
    BY <1>0, <2>1, <2>2, GoesOn
  <2>5. /\ payment' \in [Paid -> {"NONE", "PENDING", "FAILED", "SUCCEEDED"}]
        /\ payment'[x] = "PENDING"
        /\ \A y \in Paid \ {x} : payment'[y] = payment[y]
    BY <1>1, <2>2, SMT DEF LegacyInv, LegacyTypeOK
  <2>6. LegacyTypeOK'
    BY <1>4, <2>2, <2>4, <2>5 DEF LegacyInv, LegacyTypeOK
  <2>7. ChargesAreApart'
    BY <1>0, <1>1, <1>2, <1>3, <1>4, <2>1, <2>2, <2>3, <2>4, <2>5, JobOf, SMT
       DEF LegacyInv, ChargesAreApart, Charges, Paying, Paid
  <2> QED
    BY <2>6, <2>7 DEF LegacyInv
<1>7. CASE ReturnSecret(p)
  <2>1. Idle \in Job /\ Idle.op = "none"
    BY DEF Job, Idle
  <2>2. Becomes(p, Idle) /\ intent' = [intent EXCEPT ![x] = "PAYABLE"] /\ UNCHANGED payment
    BY <1>7 DEF ReturnSecret
  <2>3. payment[x] # "NONE"
    BY <1>0, <1>7, SMT DEF ReturnSecret, Does, LegacyInv, ChargesAreApart
  <2> HIDE DEF x
  <2>4. /\ process' \in [Process -> Job]
        /\ \A q \in Process : process'[q] = IF q = p THEN Idle ELSE process[q]
    BY <1>0, <2>1, <2>2, GoesOn
  <2>5. /\ intent' \in [Paid -> {"NONE", "CREATED", "PAYABLE", "PAID"}]
        /\ intent'[x] = "PAYABLE"
        /\ \A y \in Paid \ {x} : intent'[y] = intent[y]
    BY <1>1, <2>2, SMT DEF LegacyInv, LegacyTypeOK
  <2>6. LegacyTypeOK'
    BY <1>4, <2>2, <2>4, <2>5 DEF LegacyInv, LegacyTypeOK
  <2>7. ChargesAreApart'
    BY <1>0, <1>1, <1>2, <1>3, <1>4, <2>1, <2>2, <2>3, <2>4, <2>5, JobOf, SMT
       DEF LegacyInv, ChargesAreApart, Charges, Paying, Paid
  <2> QED
    BY <2>6, <2>7 DEF LegacyInv
<1> QED
  BY <1>5, <1>6, <1>7

\* The webhook's reads.
LEMMA ReadsStep ==
  ASSUME LegacyInv, NEW p \in Process, (\E x \in Paid : ReadPayment(p, x)) \/ ReadPaidFor(p)
  PROVE  LegacyInv'
<1>0. process \in [Process -> Job]
  BY DEF LegacyInv, LegacyTypeOK
<1>1. ASSUME NEW r \in Paying, r.op \in {"confirm", "succeed"}, intent[r.x] = "PAID", Becomes(p, r),
             UNCHANGED <<payment, intent, application, booking, space>>
      PROVE  LegacyInv'
  <2>1. r \in Job
    BY DEF Job
  <2>2. /\ process' \in [Process -> Job]
        /\ \A q \in Process : process'[q] = IF q = p THEN r ELSE process[q]
    BY <1>0, <1>1, <2>1, GoesOn
  <2>3. ChargesAreApart'
    BY <1>1, <2>2, SMT DEF LegacyInv, ChargesAreApart, Charges
  <2> QED
    BY <1>1, <2>2, <2>3 DEF LegacyInv, LegacyTypeOK
<1>2. ASSUME NEW x \in Paid, ReadPayment(p, x) PROVE LegacyInv'
  <2> DEFINE r == [op |-> "confirm", x |-> x]
  <2>1. r \in Paying /\ r.op = "confirm" /\ r.x = x
    BY DEF Paying
  <2>2. /\ Becomes(p, r) /\ intent[x] = "PAID"
        /\ UNCHANGED <<payment, intent, application, booking, space>>
    BY <1>2 DEF ReadPayment
  <2> HIDE DEF r
  <2> QED
    BY <1>1, <2>1, <2>2
<1>3. CASE ReadPaidFor(p)
  <2> DEFINE r == [process[p] EXCEPT !.op = "succeed"]
  <2>1. process[p].op = "confirm"
    BY <1>3 DEF ReadPaidFor, Does
  <2>2. process[p] \in Paying
    BY <1>0, <2>1, JobOf
  <2>3. r \in Paying /\ r.op = "succeed" /\ r.x = process[p].x
    BY <2>2, NextStep
  <2>4. intent[r.x] = "PAID"
    BY <2>1, <2>3 DEF LegacyInv, ChargesAreApart
  <2>5. Becomes(p, r) /\ UNCHANGED <<payment, intent, application, booking, space>>
    BY <1>3 DEF ReadPaidFor
  <2> HIDE DEF r
  <2> QED
    BY <1>1, <2>3, <2>4, <2>5
<1> QED
  BY <1>2, <1>3

\* The webhook's writes.
LEMMA ConfirmStep ==
  ASSUME LegacyInv, NEW p \in Process,
         confirmApplicationFeePayment(p) \/ confirmBookingPayment(p)
  PROVE  LegacyInv'
<1> DEFINE x == process[p].x
<1>0. /\ Idle \in Job /\ Idle.op = "none" /\ process \in [Process -> Job]
      /\ process[p].op = "succeed" /\ Becomes(p, Idle)
  BY DEF Job, Idle, LegacyInv, LegacyTypeOK, confirmApplicationFeePayment,
         confirmBookingPayment, Does
<1>1. x \in Paid /\ intent[x] = "PAID" /\ payment[x] # "NONE"
  BY <1>0, JobOf, SMT DEF Paying, LegacyInv, ChargesAreApart
<1>2. /\ payment' = [payment EXCEPT ![x] = "SUCCEEDED"] /\ UNCHANGED intent
  BY DEF confirmApplicationFeePayment, confirmBookingPayment
<1>3. \A q \in Process : process[q].op \in Charges => process[q].x \in Paid \ {x}
  BY <1>0, <1>1, JobOf, SMT DEF LegacyInv, ChargesAreApart, Paying, Charges
<1> HIDE DEF x
<1>4. /\ process' \in [Process -> Job]
      /\ \A q \in Process : process'[q] = IF q = p THEN Idle ELSE process[q]
  BY <1>0, GoesOn
<1>5. /\ payment' \in [Paid -> {"NONE", "PENDING", "FAILED", "SUCCEEDED"}]
      /\ payment'[x] = "SUCCEEDED"
      /\ \A y \in Paid \ {x} : payment'[y] = payment[y]
  BY <1>1, <1>2, SMT DEF LegacyInv, LegacyTypeOK
<1>6. CASE confirmApplicationFeePayment(p)
  <2>1. /\ x \in Vendor /\ x \notin Booking
        /\ application' = [application EXCEPT ![x] = "SUBMITTED"]
        /\ UNCHANGED <<booking, space>>
    BY <1>6, ApartAssumption DEF confirmApplicationFeePayment, x
  <2>2. /\ application' \in [Vendor -> ApplicationStatus]
        /\ application'[x] = "SUBMITTED"
        /\ \A v \in Vendor \ {x} : application'[v] = application[v]
    BY <2>1, SMT DEF LegacyInv, LegacyTypeOK, ApplicationStatus
  <2>3. ChargesAreApart'
    BY <1>0, <1>1, <1>2, <1>3, <1>4, <1>5, <2>1, <2>2, SMT
       DEF LegacyInv, ChargesAreApart, Charges, Paid
  <2> QED
    BY <1>2, <1>4, <1>5, <2>1, <2>2, <2>3 DEF LegacyInv, LegacyTypeOK
<1>7. CASE confirmBookingPayment(p)
  <2>1. /\ x \in Booking /\ x \notin Vendor
        /\ booking' = [booking EXCEPT ![x].status = "CONFIRMED"]
        /\ UNCHANGED application
    BY <1>7, ApartAssumption DEF confirmBookingPayment, x
  <2>2. booking[x] \in BookingRow
    BY <2>1 DEF LegacyInv, LegacyTypeOK
  <2> DEFINE row == [booking[x] EXCEPT !.status = "CONFIRMED"]
  <2>3. row \in BookingRow /\ row.status = "CONFIRMED"
    BY <2>2, Zenon DEF BookingRow, BookingStatus
  <2>4. booking' = [booking EXCEPT ![x] = row]
    BY <2>1
  <2> HIDE DEF row
  <2>5. /\ booking' \in [Booking -> BookingRow]
        /\ booking'[x].status = "CONFIRMED"
        /\ \A c \in Booking \ {x} : booking'[c] = booking[c]
    BY <2>1, <2>3, <2>4, SMT DEF LegacyInv, LegacyTypeOK
  <2>6. space' \in [available : Int, status : {"AVAILABLE", "SOLD_OUT"}]
    BY <1>7, SMT DEF confirmBookingPayment, LegacyInv, LegacyTypeOK
  <2>7. ChargesAreApart'
    BY <1>0, <1>1, <1>2, <1>3, <1>4, <1>5, <2>1, <2>5, SMT
       DEF LegacyInv, ChargesAreApart, Charges, Paid
  <2> QED
    BY <1>2, <1>4, <1>5, <2>1, <2>5, <2>6, <2>7 DEF LegacyInv, LegacyTypeOK
<1> QED
  BY <1>6, <1>7

\* The client and Stripe's report of a declined payment.
LEMMA ClientStep ==
  ASSUME LegacyInv, NEW x \in Paid, payment_failed(x) \/ Pay(x)
  PROVE  LegacyInv'
<1>1. UNCHANGED <<application, booking, space, process>>
  BY DEF payment_failed, Pay
<1>2. \A q \in Process : process[q].op \in Charges => process[q].x \in Paid
  BY JobOf DEF LegacyInv, LegacyTypeOK, Paying, Charges
<1>3. CASE payment_failed(x)
  <2>1. /\ payment' = [payment EXCEPT ![x] = "FAILED"] /\ payment[x] # "NONE" /\ UNCHANGED intent
    BY <1>3 DEF payment_failed
  <2>2. /\ payment' \in [Paid -> {"NONE", "PENDING", "FAILED", "SUCCEEDED"}]
        /\ payment'[x] = "FAILED"
        /\ \A y \in Paid \ {x} : payment'[y] = payment[y]
    BY <2>1, SMT DEF LegacyInv, LegacyTypeOK
  <2>3. ChargesAreApart'
    BY <1>1, <1>2, <2>1, <2>2, SMT DEF LegacyInv, ChargesAreApart, Charges, Paid
  <2> QED
    BY <1>1, <2>1, <2>2, <2>3 DEF LegacyInv, LegacyTypeOK
<1>4. CASE UNCHANGED <<intent, payment>>
  BY <1>1, <1>4, SMT DEF LegacyInv, LegacyTypeOK, ChargesAreApart
<1>5. CASE intent' = [intent EXCEPT ![x] = "PAID"] /\ intent[x] = "PAYABLE" /\ UNCHANGED payment
  <2>1. /\ intent' \in [Paid -> {"NONE", "CREATED", "PAYABLE", "PAID"}]
        /\ intent'[x] = "PAID"
        /\ \A y \in Paid \ {x} : intent'[y] = intent[y]
    BY <1>5, SMT DEF LegacyInv, LegacyTypeOK
  <2>2. \A q \in Process : process[q].op \in Charges \cup {"confirm", "succeed"} =>
          process[q].x \in Paid \ {x}
    BY <1>5, JobOf, SMT DEF LegacyInv, LegacyTypeOK, ChargesAreApart, Paying, Charges
  <2>3. ChargesAreApart'
    BY <1>1, <1>5, <2>1, <2>2, SMT DEF LegacyInv, ChargesAreApart, Charges, Paid
  <2> QED
    BY <1>1, <1>5, <2>1, <2>3 DEF LegacyInv, LegacyTypeOK
<1> QED
  BY <1>3, <1>4, <1>5 DEF Pay

\* Every step keeps the invariant.
LEMMA LegacyStep == LegacyInv /\ [LegacyNext]_legacyVars => LegacyInv'
<1> SUFFICES ASSUME LegacyInv, [LegacyNext]_legacyVars PROVE LegacyInv'
  OBVIOUS
<1>1. ASSUME UNCHANGED <<application, booking, space, payment, intent, process>> PROVE LegacyInv'
  BY <1>1, SMT DEF LegacyInv, LegacyTypeOK, ChargesAreApart
<1>2. CASE UNCHANGED legacyVars
  BY <1>1, <1>2 DEF legacyVars
<1>3. ASSUME NEW on \in BOOLEAN, setEventApplicationsOpen(on) \/ setVendorApplicationFee(on)
      PROVE  LegacyInv'
  BY <1>1, <1>3 DEF setEventApplicationsOpen, setVendorApplicationFee
<1> QED
  BY <1>2, <1>3, ApplicationsStep, RowsStep, ChargeStep, ReadsStep, ConfirmStep, ClientStep
     DEF LegacyNext

\* What a client can pay for is always found by the webhook, and nothing
\* counts as paid that is not: domain/payments.ts and
\* domain/bookingStateMachine.ts.
THEOREM PaymentsAreAlwaysFound == LegacySpec => []PaymentsAreFound
<1>1. LegacyInv => PaymentsAreFound
  BY SMT DEF LegacyInv, LegacyTypeOK, ChargesAreApart, PaymentsAreFound, Confirmed, Paid
<1> QED
  BY <1>1, LegacyStart, LegacyStep, PTL DEF LegacySpec

-----------------------------------------------------------------------------
(* The units of the space *)

\* A confirmation takes a unit in the statement that checks for one, and a
\* cancellation is the only thing that returns any.
LEMMA UnitsStep ==
  ASSUME LegacyInv, NeverOversold, [LegacyNext]_legacyVars
  PROVE  NeverOversold'
<1>1. /\ booking \in [Booking -> BookingRow] /\ space.available \in Int /\ space.available >= 0
      /\ IsFiniteSet(Booking) /\ Units \in Nat
  BY ApartAssumption, SMT DEF LegacyInv, LegacyTypeOK, NeverOversold
<1>2. /\ IsFiniteSet(Confirmed) /\ Cardinality(Confirmed) \in Nat
  <2>1. Confirmed \subseteq Booking
    BY DEF Confirmed
  <2> QED
    BY <1>1, <2>1, FS_Subset, FS_CardinalityType
<1>3. ASSUME UNCHANGED space,
             \A b \in Booking : /\ booking'[b].status = "CONFIRMED" <=> booking[b].status = "CONFIRMED"
                                /\ booking[b].canceled => booking'[b].canceled
      PROVE  NeverOversold'
  <2>1. Confirmed' = Confirmed
    BY <1>3 DEF Confirmed
  <2> QED
    BY <1>3, <2>1, Zenon DEF NeverOversold
<1>4. CASE UNCHANGED <<space, booking>>
  BY <1>3, <1>4
<1>5. ASSUME NEW p \in Process, NEW b \in Booking, createBooking(p, b) PROVE NeverOversold'
  <2>1. \A c \in Booking \ {b} : booking'[c] = booking[c]
    BY <1>1, <1>5, SMT DEF createBooking
  <2>2. booking[b].status = "NONE" /\ ~booking[b].canceled /\ booking'[b].status = "PENDING_PAYMENT"
    BY <1>1, <1>5, SMT DEF createBooking, NoBooking
  <2>3. UNCHANGED space
    BY <1>5 DEF createBooking
  <2> QED
    BY <1>3, <2>1, <2>2, <2>3
<1>6. ASSUME NEW p \in Process, cancelBooking(p) PROVE NeverOversold'
  <2> DEFINE b == process[p].x
             row == [booking[b] EXCEPT !.status = "CANCELED", !.canceled = TRUE]
  <2>1. b \in Booking /\ booking[b] \in BookingRow
    BY <1>6, JobOf DEF cancelBooking, Does, Canceling, LegacyInv, LegacyTypeOK
  <2>2. row.canceled
    BY <2>1, Zenon DEF BookingRow
  <2>3. booking' = [booking EXCEPT ![b] = row]
    BY <1>6 DEF cancelBooking
  <2> HIDE DEF row
  <2>4. booking'[b].canceled
    BY <1>1, <2>1, <2>2, <2>3, Zenon
  <2>5. space'.available >= 0
    BY <1>1, <1>6, SMT DEF cancelBooking
  <2> QED
    BY <2>1, <2>4, <2>5, Zenon DEF NeverOversold
<1>7. ASSUME NEW p \in Process, confirmBookingPayment(p) PROVE NeverOversold'
  <2> DEFINE b == process[p].x
             row == [booking[b] EXCEPT !.status = "CONFIRMED"]
  <2>1. b \in Booking /\ booking[b] \in BookingRow /\ booking' = [booking EXCEPT ![b] = row]
    BY <1>1, <1>7 DEF confirmBookingPayment
  <2>2. row.status = "CONFIRMED" /\ row.canceled = booking[b].canceled
    BY <2>1, Zenon DEF BookingRow
  <2> HIDE DEF row
  <2>3. /\ booking'[b].status = "CONFIRMED" /\ booking'[b].canceled = booking[b].canceled
        /\ \A c \in Booking \ {b} : booking'[c] = booking[c]
    BY <1>1, <2>1, <2>2, Zenon
  <2>4. Confirmed' = Confirmed \cup {b}
    BY <2>1, <2>3, Zenon DEF Confirmed
  <2>5. Cardinality(Confirmed') \in Nat /\ Cardinality(Confirmed') <= Cardinality(Confirmed) + 1
    <3> DEFINE c == Cardinality(Confirmed)
               d == Cardinality(Confirmed \cup {b})
    <3>1. d = IF b \in Confirmed THEN c ELSE c + 1
      BY <1>2, FS_AddElement
    <3>2. c \in Nat
      BY <1>2
    <3>3. Cardinality(Confirmed') = d
      BY <2>4
    <3> HIDE DEF c, d
    <3>4. d \in Nat /\ d <= c + 1
      BY <3>1, <3>2, SMT
    <3> QED
      BY <3>3, <3>4 DEF c
  <2>6. space'.available = space.available - 1 /\ space.available > 0
    BY <1>7, Zenon DEF confirmBookingPayment, CanDecrement
  <2>7. (\A c \in Booking : ~booking'[c].canceled) => \A c \in Booking : ~booking[c].canceled
    BY <2>1, <2>3, Zenon
  <2>8. (\A c \in Booking : ~booking'[c].canceled) =>
          Cardinality(Confirmed) + space.available <= Units
    BY <2>7, Zenon DEF NeverOversold
  <2>9. (\A c \in Booking : ~booking'[c].canceled) =>
          Cardinality(Confirmed') + space'.available <= Units
    BY <1>1, <1>2, <2>5, <2>6, <2>8, SMT
  <2>10. space'.available >= 0
    BY <1>1, <2>6, SMT
  <2> QED
    BY <2>9, <2>10, Zenon DEF NeverOversold
<1>8. ASSUME NEW p \in Process, NEW v \in Vendor,
             \/ InitiateFee(p, v) \/ SubmitApplication(p, v) \/ ReadSpace(p, v)
             \/ \E to \in {"APPROVED", "DENIED", "WITHDRAWN"} : BeginTransition(p, v, to)
      PROVE  NeverOversold'
  BY <1>4, <1>8 DEF InitiateFee, SubmitApplication, ReadSpace, BeginTransition
<1>9. ASSUME NEW p \in Process, NEW b \in Booking, BeginCancel(p, b) PROVE NeverOversold'
  BY <1>4, <1>9 DEF BeginCancel
<1>10. ASSUME NEW p \in Process, NEW x \in Paid, ReadPayment(p, x) PROVE NeverOversold'
  BY <1>4, <1>10 DEF ReadPayment
<1>11. ASSUME NEW p \in Process,
              \/ ReadEvent(p) \/ createPendingApplication(p) \/ Transition(p) \/ CreateIntent(p)
              \/ CreatePayment(p) \/ ReturnSecret(p) \/ ReadPaidFor(p)
              \/ confirmApplicationFeePayment(p) \/ Stops(p)
       PROVE  NeverOversold'
  BY <1>4, <1>11 DEF ReadEvent, createPendingApplication, Transition, CreateIntent, CreatePayment,
     ReturnSecret, ReadPaidFor, confirmApplicationFeePayment, Stops
<1>12. ASSUME NEW x \in Paid, payment_failed(x) \/ Pay(x) PROVE NeverOversold'
  BY <1>4, <1>12 DEF payment_failed, Pay
<1>13. ASSUME NEW on \in BOOLEAN, setEventApplicationsOpen(on) \/ setVendorApplicationFee(on)
       PROVE  NeverOversold'
  BY <1>4, <1>13 DEF setEventApplicationsOpen, setVendorApplicationFee
<1>14. CASE UNCHANGED legacyVars
  BY <1>4, <1>14 DEF legacyVars
<1> QED
  BY <1>5, <1>6, <1>7, <1>8, <1>9, <1>10, <1>11, <1>12, <1>13, <1>14 DEF LegacyNext

\* However many confirmations race, the space never goes below zero, and
\* until a cancellation every confirmed booking has a unit of its own:
\* domain/bookingStateMachine.ts.
THEOREM SpaceIsNeverOversold == LegacySpec => []NeverOversold
<1>1. LegacyInit => NeverOversold
  <2> SUFFICES ASSUME LegacyInit PROVE NeverOversold
    OBVIOUS
  <2>1. Confirmed = {}
    BY SMT DEF LegacyInit, Confirmed, NoBooking
  <2>2. Cardinality(Confirmed) = 0
    BY <2>1, FS_EmptySet
  <2>3. space.available = Units
    BY DEF LegacyInit
  <2> QED
    BY <2>2, <2>3, ApartAssumption, SMT DEF NeverOversold
<1>2. LegacyInv /\ NeverOversold /\ [LegacyNext]_legacyVars => NeverOversold'
  BY UnitsStep
<1> QED
  BY <1>1, <1>2, LegacyStart, LegacyStep, PTL DEF LegacySpec
=============================================================================
