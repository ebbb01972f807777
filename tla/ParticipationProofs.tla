------------------------- MODULE ParticipationProofs --------------------------
(***************************************************************************)
(* Taking part in a date, for any requests, accounts, questions, windows   *)
(* and restrictions: requests never wait in a circle, applications end     *)
(* once and answer the questions they are stored with, a target is         *)
(* restricted once at a time, and nobody enters against what already stood *)
(* against it.                                                             *)
(*                                                                         *)
(* The argument: a request holds exactly the row locks of the steps it has *)
(* passed, and what a check found in rows it has locked still holds when   *)
(* it writes.                                                              *)
(***************************************************************************)
EXTENDS Participation, SequenceTheorems, TLAPS

Form == [version : Nat, questions : Question \cup {Nobody}]
Nothing == [op |-> "none"]

Plain == [op : {"archive_market", "cancel_occurrence", "withdraw", "reject", "approve"}]
Moving == [op : {"update_occurrence"}, starts : Start]
Configuring == [op : {"configure_intake"}, questions : Question, window : Window]
Submitting == [op : {"submit"}, account : Account, form : Form]
Holding == [op : {"acquire_hold"}, account : Account]
Restricting == [op : {"create_restriction"}, target : Account \cup {Vendor},
                expires : Nat, id : Restriction]
Revoking == [op : {"revoke_restriction"}, id : Restriction]
Wish == Plain \cup Moving \cup Configuring \cup Submitting \cup Holding \cup Restricting
        \cup Revoking

Op == {"archive_market", "update_occurrence", "cancel_occurrence", "configure_intake", "submit",
       "withdraw", "reject", "approve", "acquire_hold", "create_restriction",
       "revoke_restriction"}

Request == [asked : Wish \cup {Nothing}, step : Nat,
            market : {"PUBLISHED", "ARCHIVED", "none"},
            barred : SUBSET (Restriction \cup {"ARCHIVED"})]

RestrictionRow == [target : Account \cup {Vendor, Nobody}, expires : Nat, revoked : BOOLEAN]

DataTypeOK ==
  /\ market \in {"PUBLISHED", "ARCHIVED"}
  /\ date \in [status : {"SCHEDULED", "CANCELLED"}, starts : Nat]
  /\ intake \in [version : Nat, questions : Question \cup {Nobody}, window : Nat \X Nat]
  /\ form \in Form
  /\ application \in [status : {"NONE", "SUBMITTED", "APPROVED", "REJECTED", "WITHDRAWN"},
                      by : Account \cup {Nobody}, questions : Question \cup {Nobody},
                      answered : Question \cup {Nobody}]
  /\ taken \in BOOLEAN
  /\ restriction \in [Restriction -> RestrictionRow]
  /\ time \in Nat

\* The rows a request has locked are those of the steps it has passed.
Passed(r, row) == \E i \in 1..(r.step - 1) : Script[r.asked.op][i] = row

RequestsOK ==
  /\ lock \in [Row -> Worker \cup {Nobody}]
  /\ request \in [Worker -> Request]
  /\ \A w \in Worker : request[w] # Idle =>
       /\ Operation(w) \in Op
       /\ request[w].step \in 1..(Len(Script[Operation(w)]) + 1)
  /\ \A w \in Worker, row \in Row :
       lock[row] = w <=> request[w] # Idle /\ Passed(request[w], row)

\* The assumptions about the constants.
LEMMA Constants ==
  /\ Nobody \notin Worker \cup Account
  /\ Vendor \notin Account \cup {Nobody}
  /\ Window \subseteq Nat \X Nat
  /\ LastInstant \in Nat
  /\ Start \subseteq Nat /\ Start # {}
  /\ "ARCHIVED" \notin Restriction
  BY ParticipationAssumption

\* What the scripts say.
LEMMA Scripts ==
  /\ Script["archive_market"] = <<"market">>
  /\ Script["update_occurrence"] = <<"market", "date">>
  /\ Script["cancel_occurrence"] = <<"market", "date">>
  /\ Script["configure_intake"] = <<"date", "intake">>
  /\ Script["submit"] = <<"date", "intake", "open">>
  /\ Script["withdraw"] = <<"application">>
  /\ Script["reject"] = <<"application">>
  /\ Script["approve"] = <<"application", "submitted", "date", "approvable">>
  /\ Script["acquire_hold"] = <<"date", "eligible", "application">>
  /\ Script["create_restriction"] = <<"organization", "unrestricted">>
  /\ Script["revoke_restriction"] = <<"organization">>
  BY DEF Script

\* What is asked for is told by its operation.
LEMMA WishOf ==
  /\ \A r \in Request : r.asked.op = "submit" => r.asked \in Submitting
  /\ \A r \in Request : r.asked.op = "create_restriction" => r.asked \in Restricting
  /\ \A r \in Request : r.asked.op = "revoke_restriction" => r.asked \in Revoking
  /\ \A r \in Request : r.asked.op = "configure_intake" => r.asked \in Configuring
  /\ \A r \in Request : r.asked.op = "update_occurrence" => r.asked \in Moving
  /\ \A r \in Request : r.asked.op = "acquire_hold" => r.asked \in Holding
  /\ \A r \in Wish : r.op \in Op
<1> SUFFICES ASSUME NEW a \in Wish \cup {Nothing}
             PROVE  /\ a.op = "submit" => a \in Submitting
                    /\ a.op = "create_restriction" => a \in Restricting
                    /\ a.op = "revoke_restriction" => a \in Revoking
                    /\ a.op = "configure_intake" => a \in Configuring
                    /\ a.op = "update_occurrence" => a \in Moving
                    /\ a.op = "acquire_hold" => a \in Holding
                    /\ a # Nothing => a.op \in Op
                    /\ a.op # "none" => a # Nothing
  <2>1. \A r \in Request : r.asked \in Wish \cup {Nothing}
    BY DEF Request
  <2>2. Nothing \notin Wish
    <3>1. Nothing.op = "none"
      BY DEF Nothing
    <3> QED
      BY <3>1, SMT DEF Wish, Plain, Moving, Configuring, Submitting, Holding, Restricting, Revoking
  <2> QED
    BY <2>1, <2>2, SMT
<1> QED
  BY SMT DEF Wish, Plain, Moving, Configuring, Submitting, Holding, Restricting, Revoking,
             Nothing, Op

\* Idle is a request.
LEMMA IdleIsRequest == Idle \in Request /\ Idle.asked.op = "none" /\ Idle.step = 0
  BY DEF Idle, Request, Nothing

\* The next step keeps what is asked for.
LEMMA OneStepOn ==
  ASSUME NEW r \in Request, NEW m \in {"PUBLISHED", "ARCHIVED"}
  PROVE  /\ [r EXCEPT !.step = r.step + 1] \in Request
         /\ [r EXCEPT !.step = r.step + 1].step = r.step + 1
         /\ [r EXCEPT !.step = r.step + 1].asked = r.asked
         /\ [r EXCEPT !.step = r.step + 1].barred = r.barred
         /\ [r EXCEPT !.step = r.step + 1].market = r.market
         /\ [r EXCEPT !.step = r.step + 1, !.market = m] \in Request
         /\ [r EXCEPT !.step = r.step + 1, !.market = m].step = r.step + 1
         /\ [r EXCEPT !.step = r.step + 1, !.market = m].asked = r.asked
         /\ [r EXCEPT !.step = r.step + 1, !.market = m].barred = r.barred
         /\ [r EXCEPT !.step = r.step + 1, !.market = m].market = m
<1>1. r.step + 1 \in Nat
  BY SMT DEF Request
<1>2. \A n \in Nat :
        /\ [r EXCEPT !.step = n] \in Request
        /\ [r EXCEPT !.step = n].step = n
        /\ [r EXCEPT !.step = n].asked = r.asked
        /\ [r EXCEPT !.step = n].barred = r.barred
        /\ [r EXCEPT !.step = n].market = r.market
        /\ [r EXCEPT !.step = n, !.market = m] \in Request
        /\ [r EXCEPT !.step = n, !.market = m].step = n
        /\ [r EXCEPT !.step = n, !.market = m].asked = r.asked
        /\ [r EXCEPT !.step = n, !.market = m].barred = r.barred
        /\ [r EXCEPT !.step = n, !.market = m].market = m
  BY Zenon DEF Request
<1> QED
  BY <1>1, <1>2

\* A wish is made of what is asked for now.
LEMMA AskedIsWish == DataTypeOK => Asked \subseteq Wish
<1> SUFFICES ASSUME DataTypeOK PROVE Asked \subseteq Wish
  OBVIOUS
<1>1. form \in Form /\ Time \cup {Never} \subseteq Nat
  BY Constants, SMT DEF DataTypeOK, Time, Never
<1>2. {[op |-> op] : op \in {"archive_market", "cancel_occurrence", "withdraw",
                           "reject", "approve"}} \subseteq Plain
  BY DEF Plain
<1>3. {[op |-> "update_occurrence", starts |-> t] : t \in Start} \subseteq Moving
  BY DEF Moving
<1>4. {[op |-> "configure_intake", questions |-> q, window |-> w] :
          q \in Question, w \in Window} \subseteq Configuring
  BY DEF Configuring
<1>5. {[op |-> "submit", account |-> a, form |-> form] : a \in Account} \subseteq Submitting
  BY <1>1 DEF Submitting
<1>6. {[op |-> "acquire_hold", account |-> a] : a \in Account} \subseteq Holding
  BY DEF Holding
<1>7. {[op |-> "create_restriction", target |-> x, expires |-> e, id |-> i] :
          x \in Account \cup {Vendor}, e \in Time \cup {Never},
          i \in {j \in Restriction : restriction[j] = NoRestriction}} \subseteq Restricting
  BY <1>1 DEF Restricting
<1>8. {[op |-> "revoke_restriction", id |-> i] : i \in Restriction} \subseteq Revoking
  BY DEF Revoking
<1> QED
  BY <1>2, <1>3, <1>4, <1>5, <1>6, <1>7, <1>8 DEF Asked, Wish

-----------------------------------------------------------------------------
(* Requests and their locks *)

\* In the first state nobody asks for anything.
LEMMA RequestsStart == Init => DataTypeOK /\ RequestsOK
<1> SUFFICES ASSUME Init PROVE DataTypeOK /\ RequestsOK
  OBVIOUS
<1>1. RequestsOK
  BY IdleIsRequest, Constants, SMT DEF Init, RequestsOK
<1>2. restriction \in [Restriction -> RestrictionRow]
  <2>1. NoRestriction \in RestrictionRow
    BY Constants, SMT DEF NoRestriction, RestrictionRow, Never
  <2> QED
    BY <2>1 DEF Init
<1>3. date \in [status : {"SCHEDULED", "CANCELLED"}, starts : Nat]
  BY Constants, SMT DEF Init
<1>4. intake \in [version : Nat, questions : Question \cup {Nobody}, window : Nat \X Nat]
  BY Constants, SMT DEF Init
<1>5. form \in Form
  BY DEF Init, Form
<1>6. application \in [status : {"NONE", "SUBMITTED", "APPROVED", "REJECTED", "WITHDRAWN"},
                      by : Account \cup {Nobody}, questions : Question \cup {Nobody},
                      answered : Question \cup {Nobody}]
  BY DEF Init
<1> QED
  BY <1>1, <1>2, <1>3, <1>4, <1>5, <1>6 DEF Init, DataTypeOK

\* A request that passes a step is still well formed; so is its lock table.
LEMMA BeginOK ==
  ASSUME DataTypeOK, RequestsOK, NEW w \in Worker, NEW asked \in Asked, Begin(w, asked)
  PROVE  RequestsOK'
<1> DEFINE r == [asked |-> asked, step |-> 1, market |-> market,
                 barred |-> IF asked.op \in Entry THEN Bars ELSE {}]
<1>1. request' = [request EXCEPT ![w] = r] /\ request[w] = Idle /\ lock' = lock
  BY DEF Begin
<1>2. asked \in Wish /\ asked.op \in Op
  BY AskedIsWish, WishOf
<1>3. r \in Request /\ r.step = 1 /\ r.asked = asked
  <2>1. Bars \subseteq Restriction \cup {"ARCHIVED"}
    BY DEF Bars
  <2> QED
    BY <1>2, <2>1 DEF Request, DataTypeOK
<1> HIDE DEF r
<1>4. request' \in [Worker -> Request] /\ \A v \in Worker : request'[v] = IF v = w THEN r ELSE request[v]
  BY <1>1, <1>3, SMT DEF RequestsOK
<1>5. \A row : ~Passed(r, row)
  BY <1>3, SMT DEF Passed
<1>6. r # Idle
  BY <1>3, IdleIsRequest
<1>7. Len(Script[asked.op]) \in Nat
  BY <1>2, Scripts, SMT DEF Op
<1>8. ASSUME NEW v \in Worker, NEW row \in Row
      PROVE  lock'[row] = v <=> request'[v] # Idle /\ Passed(request'[v], row)
  BY <1>1, <1>4, <1>5 DEF RequestsOK
<1>9. \A v \in Worker : Operation(v)' = request'[v].asked.op
  BY DEF Operation
<1>10. \A v \in Worker : request'[v] # Idle =>
         /\ request'[v].asked.op \in Op
         /\ request'[v].step \in 1..(Len(Script[request'[v].asked.op]) + 1)
  BY <1>2, <1>3, <1>4, <1>7, SMT DEF RequestsOK, Operation
<1> QED
  BY <1>1, <1>4, <1>8, <1>9, <1>10 DEF RequestsOK

\* A request's step passed: with the lock it names, or, for a check, none.
LEMMA StepOK ==
  ASSUME RequestsOK, NEW w \in Worker, AtStep(w), NEW r \in Request,
         r.asked = request[w].asked, r.step = request[w].step + 1,
         request' = [request EXCEPT ![w] = r],
         \/ Current(w) \in Row /\ lock[Current(w)] = Nobody
              /\ lock' = [lock EXCEPT ![Current(w)] = w]
         \/ Current(w) \notin Row /\ lock' = lock
  PROVE  RequestsOK'
<1>1. /\ request' \in [Worker -> Request]
      /\ \A v \in Worker : request'[v] = IF v = w THEN r ELSE request[v]
  BY SMT DEF RequestsOK
<1>2. /\ request[w] # Idle /\ request[w].step \in Nat
      /\ Operation(w) \in Op /\ request[w].step >= 1
      /\ request[w].step <= Len(Script[Operation(w)]) /\ Len(Script[Operation(w)]) \in Nat
  <2>1. request[w] # Idle /\ request[w].step <= Len(Script[Operation(w)])
    BY DEF AtStep
  <2>2. Operation(w) \in Op /\ request[w].step \in 1..(Len(Script[Operation(w)]) + 1)
    BY <2>1 DEF RequestsOK
  <2>3. Len(Script[Operation(w)]) \in Nat
    BY <2>2, Scripts, SMT DEF Op
  <2> QED
    BY <2>1, <2>2, <2>3, SMT DEF RequestsOK
<1>3. \A row : Passed(r, row) <=> Passed(request[w], row) \/ row = Current(w)
  <2> SUFFICES ASSUME NEW row
               PROVE  Passed(r, row) <=> Passed(request[w], row) \/ row = Current(w)
    OBVIOUS
  <2> DEFINE s == request[w].step
             script == Script[Operation(w)]
  <2>1. Passed(r, row) <=> \E i \in 1..s : script[i] = row
    BY <1>2, SMT DEF Passed, Operation
  <2>2. Passed(request[w], row) <=> \E i \in 1..(s - 1) : script[i] = row
    BY DEF Passed, Operation
  <2>3. Current(w) = script[s]
    BY DEF Current
  <2>4. s \in Nat /\ s >= 1
    BY <1>2
  <2> HIDE DEF s, script
  <2> QED
    BY <2>1, <2>2, <2>3, <2>4, SMT
<1>4. r # Idle
  BY <1>2, IdleIsRequest, SMT
<1>5. lock' \in [Row -> Worker \cup {Nobody}]
  BY SMT DEF RequestsOK
<1>6. ASSUME NEW v \in Worker, NEW row \in Row
      PROVE  lock'[row] = v <=> request'[v] # Idle /\ Passed(request'[v], row)
  <2>1. lock[row] = v <=> request[v] # Idle /\ Passed(request[v], row)
    BY DEF RequestsOK
  <2>2. CASE row = Current(w)
    <3>1. lock[row] = Nobody /\ lock'[row] = w
      BY <2>2, SMT DEF RequestsOK
    <3> QED
      BY <1>1, <1>3, <1>4, <2>1, <2>2, <3>1, Constants
  <2>3. CASE row # Current(w)
    <3>1. lock'[row] = lock[row]
      BY <2>3, SMT DEF RequestsOK
    <3> QED
      BY <1>1, <1>2, <1>3, <1>4, <2>1, <2>3, <3>1
  <2> QED
    BY <2>2, <2>3
<1>7. \A v \in Worker : request'[v] # Idle =>
        /\ request'[v].asked.op \in Op
        /\ request'[v].step \in 1..(Len(Script[request'[v].asked.op]) + 1)
  <2>1. r.asked.op = Operation(w)
    BY DEF Operation
  <2>2. r.step \in 1..(Len(Script[Operation(w)]) + 1)
    BY <1>2, SMT
  <2> QED
    BY <1>1, <1>2, <2>1, <2>2 DEF RequestsOK, Operation
<1> QED
  BY <1>1, <1>5, <1>6, <1>7 DEF RequestsOK, Operation

\* A request that ends gives its locks back.
LEMMA EndOK ==
  ASSUME RequestsOK, NEW w \in Worker,
         request' = [request EXCEPT ![w] = Idle], lock' = Unlocked(w)
  PROVE  RequestsOK'
<1>1. /\ request' \in [Worker -> Request]
      /\ \A v \in Worker : request'[v] = IF v = w THEN Idle ELSE request[v]
  BY IdleIsRequest, SMT DEF RequestsOK
<1>2. /\ lock' \in [Row -> Worker \cup {Nobody}]
      /\ \A row \in Row : lock'[row] = IF lock[row] = w THEN Nobody ELSE lock[row]
  BY SMT DEF RequestsOK, Unlocked
<1>3. ASSUME NEW v \in Worker, NEW row \in Row
      PROVE  lock'[row] = v <=> request'[v] # Idle /\ Passed(request'[v], row)
  BY <1>1, <1>2, Constants DEF RequestsOK
<1> QED
  BY <1>1, <1>2, <1>3 DEF RequestsOK, Operation

\* No step breaks the lock table.
LEMMA RequestsStep ==
  ASSUME DataTypeOK, RequestsOK, [Next]_vars
  PROVE  RequestsOK'
<1>1. ASSUME NEW w \in Worker, GetLock(w) PROVE RequestsOK'
  <2> DEFINE r == [request[w] EXCEPT !.step = request[w].step + 1]
  <2>1. request[w] \in Request /\ market \in {"PUBLISHED", "ARCHIVED"}
    BY DEF RequestsOK, DataTypeOK
  <2>2. r \in Request /\ r.step = request[w].step + 1 /\ r.asked = request[w].asked
    BY <2>1, OneStepOn
  <2>3. /\ request' = [request EXCEPT ![w] = r] /\ AtStep(w) /\ Current(w) \in Row
        /\ lock[Current(w)] = Nobody /\ lock' = [lock EXCEPT ![Current(w)] = w]
    BY <1>1 DEF GetLock
  <2> HIDE DEF r
  <2> QED
    BY <2>2, <2>3, StepOK
<1>2. ASSUME NEW w \in Worker, Check(w) PROVE RequestsOK'
  <2> DEFINE r == [request[w] EXCEPT !.step = request[w].step + 1, !.market = market]
  <2>1. request[w] \in Request /\ market \in {"PUBLISHED", "ARCHIVED"}
    BY DEF RequestsOK, DataTypeOK
  <2>2. r \in Request /\ r.step = request[w].step + 1 /\ r.asked = request[w].asked
    BY <2>1, OneStepOn
  <2>3. /\ request' = [request EXCEPT ![w] = r] /\ AtStep(w) /\ Current(w) \notin Row
        /\ lock' = lock
    BY <1>2 DEF Check, Forward
  <2> HIDE DEF r
  <2> QED
    BY <2>2, <2>3, StepOK
<1>3. ASSUME NEW w \in Worker, Abort(w) \/ Commit(w) PROVE RequestsOK'
  BY <1>3, EndOK DEF Abort, Commit
<1>4. CASE LoadForm \/ PassTime \/ UNCHANGED vars
  BY <1>4 DEF LoadForm, PassTime, vars, data, RequestsOK, Operation
<1> QED
  BY <1>1, <1>2, <1>3, <1>4, BeginOK DEF Next

-----------------------------------------------------------------------------
(* Where a request is, and which rows it has locked there *)

Doing(w, op) == request[w] # Idle /\ Operation(w) = op
StepOf(w) == request[w].step

\* Requests hold the locks their scripts say, by their step.
LEMMA HeldLocks ==
  ASSUME RequestsOK, NEW w \in Worker
  PROVE  /\ StepOf(w) \in Nat
         /\ Doing(w, "submit") /\ StepOf(w) > 1 => lock["date"] = w
         /\ Doing(w, "submit") /\ StepOf(w) > 2 => lock["intake"] = w
         /\ Doing(w, "configure_intake") /\ StepOf(w) > 2 => lock["intake"] = w
         /\ Doing(w, "cancel_occurrence") /\ StepOf(w) > 2 => lock["date"] = w
         /\ Doing(w, "approve") /\ StepOf(w) > 1 => lock["application"] = w
         /\ Doing(w, "approve") /\ StepOf(w) > 3 => lock["date"] = w
         /\ Doing(w, "withdraw") /\ StepOf(w) > 1 => lock["application"] = w
         /\ Doing(w, "reject") /\ StepOf(w) > 1 => lock["application"] = w
         /\ Doing(w, "acquire_hold") /\ StepOf(w) > 1 => lock["date"] = w
         /\ Doing(w, "create_restriction") /\ StepOf(w) > 1 => lock["organization"] = w
         /\ Doing(w, "revoke_restriction") /\ StepOf(w) > 1 => lock["organization"] = w
<1>1. StepOf(w) \in Nat
  BY SMT DEF RequestsOK, StepOf, Request
<1>2. ASSUME NEW row \in Row, NEW i \in Nat \ {0}, request[w] # Idle,
             Script[Operation(w)][i] = row, StepOf(w) > i
      PROVE  lock[row] = w
  <2>1. i \in 1..(request[w].step - 1)
    BY <1>1, <1>2, SMT DEF StepOf
  <2>2. Passed(request[w], row)
    BY <1>2, <2>1 DEF Passed, Operation
  <2> QED
    BY <1>2, <2>2 DEF RequestsOK
<1>3. /\ Script["submit"][1] = "date" /\ Script["submit"][2] = "intake"
      /\ Script["configure_intake"][2] = "intake"
      /\ Script["cancel_occurrence"][2] = "date"
      /\ Script["approve"][1] = "application" /\ Script["approve"][3] = "date"
      /\ Script["withdraw"][1] = "application" /\ Script["reject"][1] = "application"
      /\ Script["acquire_hold"][1] = "date"
      /\ Script["create_restriction"][1] = "organization"
      /\ Script["revoke_restriction"][1] = "organization"
  BY Scripts
<1>4. {"date", "intake", "application", "organization"} \subseteq Row
  BY DEF Row
<1> QED
  BY <1>1, <1>2, <1>3, <1>4, SMT DEF Doing

\* A request that is past its last step is past all of them.
LEMMA AtCommit ==
  ASSUME RequestsOK, NEW w \in Worker, request[w] # Idle, ~AtStep(w)
  PROVE  /\ Operation(w) \in Op
         /\ Operation(w) = "submit" => StepOf(w) = 4
         /\ Operation(w) = "approve" => StepOf(w) = 5
         /\ Operation(w) = "acquire_hold" => StepOf(w) = 4
         /\ Operation(w) \in {"withdraw", "reject", "revoke_restriction"} => StepOf(w) = 2
         /\ Operation(w) \in {"cancel_occurrence", "configure_intake", "create_restriction"}
              => StepOf(w) = 3
<1>1. Operation(w) \in Op /\ StepOf(w) \in 1..(Len(Script[Operation(w)]) + 1)
  BY DEF RequestsOK, StepOf
<1>2. ~(StepOf(w) <= Len(Script[Operation(w)]))
  BY DEF AtStep, StepOf
<1>3. Len(Script[Operation(w)]) \in Nat
  BY <1>1, Scripts, SMT DEF Op
<1>4. StepOf(w) = Len(Script[Operation(w)]) + 1
  BY <1>1, <1>2, <1>3, SMT
<1>5. /\ Len(Script["submit"]) = 3 /\ Len(Script["approve"]) = 4
      /\ Len(Script["acquire_hold"]) = 3 /\ Len(Script["withdraw"]) = 1
      /\ Len(Script["reject"]) = 1 /\ Len(Script["revoke_restriction"]) = 1
      /\ Len(Script["cancel_occurrence"]) = 2 /\ Len(Script["configure_intake"]) = 2
      /\ Len(Script["create_restriction"]) = 2
  BY Scripts, SMT
<1>6. /\ Operation(w) = "submit" => StepOf(w) = 3 + 1
      /\ Operation(w) = "approve" => StepOf(w) = 4 + 1
      /\ Operation(w) = "acquire_hold" => StepOf(w) = 3 + 1
      /\ Operation(w) \in {"withdraw", "reject", "revoke_restriction"} => StepOf(w) = 1 + 1
      /\ Operation(w) \in {"cancel_occurrence", "configure_intake", "create_restriction"}
           => StepOf(w) = 2 + 1
  BY <1>4, <1>5, Zenon
<1>7. 3 + 1 = 4 /\ 4 + 1 = 5 /\ 1 + 1 = 2 /\ 2 + 1 = 3
  BY SMT
<1> QED
  BY <1>1, <1>6, <1>7, Zenon

\* Where the checks are.
LEMMA AtCheck ==
  ASSUME RequestsOK, NEW w \in Worker, AtStep(w), Current(w) \notin Row
  PROVE  \/ Operation(w) = "submit" /\ StepOf(w) = 3 /\ Current(w) = "open"
         \/ Operation(w) = "approve" /\ StepOf(w) = 2 /\ Current(w) = "submitted"
         \/ Operation(w) = "approve" /\ StepOf(w) = 4 /\ Current(w) = "approvable"
         \/ Operation(w) = "acquire_hold" /\ StepOf(w) = 2 /\ Current(w) = "eligible"
         \/ Operation(w) = "create_restriction" /\ StepOf(w) = 2 /\ Current(w) = "unrestricted"
<1>1. /\ request[w] # Idle /\ Operation(w) \in Op
      /\ StepOf(w) \in 1..(Len(Script[Operation(w)]) + 1)
      /\ StepOf(w) <= Len(Script[Operation(w)])
      /\ Current(w) = Script[Operation(w)][StepOf(w)]
  BY DEF AtStep, RequestsOK, StepOf, Current
<1>2. Current(w) \notin {"market", "date", "intake", "application", "organization"}
  BY DEF Row
<1> QED
  BY <1>1, <1>2, Scripts, SMT DEF Op

\* Where the locks are taken.
LEMMA AtLock ==
  ASSUME RequestsOK, NEW w \in Worker, AtStep(w), Current(w) \in Row
  PROVE  /\ Operation(w) = "submit" =>
              \/ StepOf(w) = 1 /\ Current(w) = "date"
              \/ StepOf(w) = 2 /\ Current(w) = "intake"
         /\ Operation(w) = "approve" =>
              \/ StepOf(w) = 1 /\ Current(w) = "application"
              \/ StepOf(w) = 3 /\ Current(w) = "date"
         /\ Operation(w) = "acquire_hold" =>
              \/ StepOf(w) = 1 /\ Current(w) = "date"
              \/ StepOf(w) = 3 /\ Current(w) = "application"
         /\ Operation(w) = "configure_intake" =>
              \/ StepOf(w) = 1 /\ Current(w) = "date"
              \/ StepOf(w) = 2 /\ Current(w) = "intake"
         /\ Operation(w) \in {"update_occurrence", "cancel_occurrence"} =>
              \/ StepOf(w) = 1 /\ Current(w) = "market"
              \/ StepOf(w) = 2 /\ Current(w) = "date"
         /\ Operation(w) \in {"archive_market", "withdraw", "reject", "create_restriction",
                              "revoke_restriction"} => StepOf(w) = 1
         /\ Operation(w) \in Op /\ request[w] # Idle
<1>1. /\ request[w] # Idle /\ Operation(w) \in Op
      /\ StepOf(w) \in 1..(Len(Script[Operation(w)]) + 1)
      /\ StepOf(w) <= Len(Script[Operation(w)])
      /\ Current(w) = Script[Operation(w)][StepOf(w)]
  BY DEF AtStep, RequestsOK, StepOf, Current
<1>2. Current(w) \in {"market", "date", "intake", "application", "organization"}
  BY DEF Row
<1> QED
  BY <1>1, <1>2, Scripts, SMT DEF Op

-----------------------------------------------------------------------------
(* What the checks found still holds *)

ChecksHold ==
  \A w \in Worker :
    /\ Doing(w, "submit") /\ StepOf(w) > 3 =>
         /\ application.status = "NONE"
         /\ date.status = "SCHEDULED"
         /\ request[w].asked.form.version = intake.version
    /\ Doing(w, "approve") /\ StepOf(w) > 2 => application.status = "SUBMITTED"
    /\ Doing(w, "approve") /\ StepOf(w) > 4 => date.status = "SCHEDULED"
    /\ Doing(w, "acquire_hold") /\ StepOf(w) > 2 =>
         application.status = "APPROVED" /\ date.status = "SCHEDULED"
    /\ Doing(w, "create_restriction") /\ StepOf(w) > 2 =>
         \A i \in Restriction :
           restriction[i].target = request[w].asked.target => ~effective(restriction[i])

\* A form that names the questions' current version shows the current
\* questions.
Fits(f) ==
  /\ f.version <= intake.version
  /\ f.version = intake.version => f.questions = intake.questions

FormsFit ==
  /\ intake.version = 0 => intake.questions = Nobody
  /\ Fits(form)
  /\ \A w \in Worker : Doing(w, "submit") => Fits(request[w].asked.form)

DataInv ==
  /\ ApplicationsEndOnce
  /\ AnswersFitQuestions
  /\ OneRestrictionPerTarget

Inv == DataTypeOK /\ RequestsOK /\ ChecksHold /\ FormsFit /\ DataInv

\* The data stays while a request begins, waits or ends undone.
LEMMA DataStays ==
  ASSUME Inv, UNCHANGED <<data, time>>
  PROVE  DataTypeOK' /\ DataInv'
<1> USE DEF Inv, data
<1>1. DataTypeOK'
  BY DEF DataTypeOK
<1>2. ApplicationsEndOnce'
  BY DEF DataInv, ApplicationsEndOnce
<1>3. AnswersFitQuestions'
  BY DEF DataInv, AnswersFitQuestions
<1>4. OneRestrictionPerTarget'
  BY DEF DataInv, OneRestrictionPerTarget, effective
<1> QED
  BY <1>1, <1>2, <1>3, <1>4 DEF DataInv

\* A request begins, and its form is the one on the vendor's page.
LEMMA BeginKeeps ==
  ASSUME Inv, NEW w \in Worker, NEW asked \in Asked, Begin(w, asked)
  PROVE  ChecksHold' /\ FormsFit'
<1> DEFINE r == [asked |-> asked, step |-> 1, market |-> market,
                 barred |-> IF asked.op \in Entry THEN Bars ELSE {}]
<1>1. request' = [request EXCEPT ![w] = r] /\ UNCHANGED <<data, time>>
  BY DEF Begin
<1>2. r.step = 1 /\ r.asked = asked
  OBVIOUS
<1> HIDE DEF r
<1>3. \A v \in Worker : request'[v] = IF v = w THEN r ELSE request[v]
  BY <1>1, SMT DEF Inv, RequestsOK
<1>4. asked.op = "submit" => asked.form = form
  BY SMT DEF Asked
<1>5. ChecksHold'
  BY <1>1, <1>2, <1>3, SMT DEF Inv, ChecksHold, Doing, StepOf, Operation, effective, data
<1>6. FormsFit'
  BY <1>1, <1>2, <1>3, <1>4, SMT DEF Inv, FormsFit, Fits, Doing, Operation, data
<1> QED
  BY <1>5, <1>6

\* A lock found nothing; a check found what the invariant says.
LEMMA LockKeeps ==
  ASSUME Inv, NEW w \in Worker, GetLock(w)
  PROVE  ChecksHold' /\ FormsFit'
<1> DEFINE r == [request[w] EXCEPT !.step = request[w].step + 1]
<1>1. request[w] \in Request /\ market \in {"PUBLISHED", "ARCHIVED"}
  BY DEF Inv, RequestsOK, DataTypeOK
<1>2. r.step = StepOf(w) + 1 /\ r.asked = request[w].asked /\ r # Idle
  <2>1. r.step = request[w].step + 1 /\ r.asked = request[w].asked
    BY <1>1, OneStepOn
  <2>2. request[w].step \in Nat
    BY <1>1, SMT DEF Request
  <2> HIDE DEF r
  <2>3. r.step # 0
    BY <2>1, <2>2, SMT
  <2> QED
    BY <2>1, <2>3, IdleIsRequest DEF StepOf
<1>3. /\ request' = [request EXCEPT ![w] = r] /\ AtStep(w) /\ Current(w) \in Row
      /\ UNCHANGED <<data, time>>
  BY DEF GetLock
<1> HIDE DEF r
<1>4. \A v \in Worker : request'[v] = IF v = w THEN r ELSE request[v]
  BY <1>3, SMT DEF Inv, RequestsOK
<1>5. /\ Operation(w) = "submit" => StepOf(w) \in {1, 2}
      /\ Operation(w) \in {"approve", "acquire_hold"} => StepOf(w) \in {1, 3}
      /\ Operation(w) = "create_restriction" => StepOf(w) = 1
      /\ request[w] # Idle
  BY <1>3, AtLock DEF Inv
<1>6. ASSUME NEW v \in Worker
      PROVE  /\ Doing(v, "submit")' /\ StepOf(v)' > 3 => Doing(v, "submit") /\ StepOf(v) > 3
             /\ Doing(v, "approve")' /\ StepOf(v)' > 2 => Doing(v, "approve") /\ StepOf(v) > 2
             /\ Doing(v, "approve")' /\ StepOf(v)' > 4 => Doing(v, "approve") /\ StepOf(v) > 4
             /\ Doing(v, "acquire_hold")' /\ StepOf(v)' > 2 =>
                  Doing(v, "acquire_hold") /\ StepOf(v) > 2
             /\ Doing(v, "create_restriction")' /\ StepOf(v)' > 2 =>
                  Doing(v, "create_restriction") /\ StepOf(v) > 2
             /\ Doing(v, "submit")' => Doing(v, "submit")
             /\ request'[v].asked = request[v].asked
  <2>1. CASE v = w
    BY <1>2, <1>4, <1>5, <2>1, SMT DEF Doing, StepOf, Operation
  <2>2. CASE v # w
    BY <1>4, <2>2, SMT DEF Doing, StepOf, Operation
  <2> QED
    BY <2>1, <2>2
<1>7. ChecksHold'
  BY <1>3, <1>6, SMT DEF Inv, ChecksHold, effective, data
<1>8. FormsFit'
  BY <1>3, <1>6, SMT DEF Inv, FormsFit, Fits, data
<1> QED
  BY <1>7, <1>8

\* A check that passes finds what the invariant says.
LEMMA CheckKeeps ==
  ASSUME Inv, NEW w \in Worker, Check(w)
  PROVE  ChecksHold' /\ FormsFit'
<1> DEFINE r == [request[w] EXCEPT !.step = request[w].step + 1, !.market = market]
<1>1. request[w] \in Request /\ market \in {"PUBLISHED", "ARCHIVED"} /\ StepOf(w) \in Nat
  BY HeldLocks DEF Inv, RequestsOK, DataTypeOK
<1>2. r.step = StepOf(w) + 1 /\ r.asked = request[w].asked
  BY <1>1, OneStepOn DEF StepOf
<1>3. /\ request' = [request EXCEPT ![w] = r] /\ AtStep(w) /\ Current(w) \notin Row
      /\ Passes(request[w], Current(w)) /\ UNCHANGED <<data, time>>
  BY DEF Check, Forward
<1> HIDE DEF r
<1>4. \A v \in Worker : request'[v] = IF v = w THEN r ELSE request[v]
  BY <1>3, SMT DEF Inv, RequestsOK
<1>5. request[w] # Idle
  BY <1>3 DEF AtStep
<1>6. /\ ChecksHold /\ FormsFit
      /\ UNCHANGED <<application, date, intake, form, restriction, time>>
  BY <1>3 DEF Inv, data
<1>7. ASSUME NEW v \in Worker, v # w
      PROVE  request'[v] = request[v]
  BY <1>4, <1>7
<1>8. FormsFit'
  <2>1. \A v \in Worker : request'[v].asked = request[v].asked
    BY <1>2, <1>4
  <2>2. \A v \in Worker : Doing(v, "submit")' => Doing(v, "submit")
    BY <1>2, <1>4, <1>5 DEF Doing, Operation
  <2> QED
    BY <1>6, <2>1, <2>2 DEF FormsFit, Fits
<1> DEFINE Found ==
      /\ Operation(w) = "submit" /\ StepOf(w) >= 3 =>
           /\ application.status = "NONE" /\ date.status = "SCHEDULED"
           /\ request[w].asked.form.version = intake.version
      /\ Operation(w) = "approve" /\ StepOf(w) >= 2 => application.status = "SUBMITTED"
      /\ Operation(w) = "approve" /\ StepOf(w) >= 4 => date.status = "SCHEDULED"
      /\ Operation(w) = "acquire_hold" /\ StepOf(w) >= 2 =>
           application.status = "APPROVED" /\ date.status = "SCHEDULED"
      /\ Operation(w) = "create_restriction" /\ StepOf(w) >= 2 =>
           \A i \in Restriction :
             restriction[i].target = request[w].asked.target => ~effective(restriction[i])
<1>9. ASSUME Found
      PROVE  ChecksHold'
  <2>1. request'[w] = r /\ Operation(w)' = Operation(w) /\ StepOf(w)' = StepOf(w) + 1
    BY <1>2, <1>4, <1>9 DEF Operation, StepOf
  <2>2. \A i \in Restriction : effective(restriction[i])' <=> effective(restriction[i])
    BY <1>6 DEF effective
  <2> SUFFICES ASSUME NEW v \in Worker
               PROVE  /\ Doing(v, "submit")' /\ StepOf(v)' > 3 =>
                           /\ application.status = "NONE"
                           /\ date.status = "SCHEDULED"
                           /\ request'[v].asked.form.version = intake.version
                      /\ Doing(v, "approve")' /\ StepOf(v)' > 2 => application.status = "SUBMITTED"
                      /\ Doing(v, "approve")' /\ StepOf(v)' > 4 => date.status = "SCHEDULED"
                      /\ Doing(v, "acquire_hold")' /\ StepOf(v)' > 2 =>
                           application.status = "APPROVED" /\ date.status = "SCHEDULED"
                      /\ Doing(v, "create_restriction")' /\ StepOf(v)' > 2 =>
                           \A i \in Restriction :
                             restriction[i].target = request'[v].asked.target
                               => ~effective(restriction[i])
    BY <1>6, <2>2 DEF ChecksHold
  <2>3. CASE v = w
    BY <1>1, <1>2, <1>9, <2>1, <2>3, SMT DEF Doing
  <2>4. CASE v # w
    BY <1>6, <1>7, <2>4 DEF ChecksHold, Doing, StepOf, Operation
  <2> QED
    BY <2>3, <2>4
<1>10. CASE Operation(w) = "submit" /\ StepOf(w) = 3 /\ Current(w) = "open"
  <2>1. SubmitCheck(request[w])
    BY <1>3, <1>10 DEF Passes
  <2> QED
    <3>1. /\ application.status = "NONE" /\ date.status = "SCHEDULED"
          /\ request[w].asked.form.version = intake.version
      BY <2>1 DEF SubmitCheck, intake_open, Scheduled
    <3>2. Found
      BY <1>10, <3>1, SMT
    <3> QED
      BY <1>8, <1>9, <3>2
<1>11. CASE Operation(w) = "approve" /\ StepOf(w) = 2 /\ Current(w) = "submitted"
  <2>1. application.status = "SUBMITTED"
    BY <1>3, <1>11 DEF Passes
  <2> QED
    <3>1. Found
      BY <1>11, <2>1, SMT
    <3> QED
      BY <1>8, <1>9, <3>1
<1>12. CASE Operation(w) = "approve" /\ StepOf(w) = 4 /\ Current(w) = "approvable"
  <2>1. date.status = "SCHEDULED"
    BY <1>3, <1>12 DEF Passes, check_approvable, Scheduled
  <2>2. application.status = "SUBMITTED"
    BY <1>5, <1>6, <1>12 DEF ChecksHold, Doing
  <2> QED
    <3>1. Found
      BY <1>12, <2>1, <2>2, SMT
    <3> QED
      BY <1>8, <1>9, <3>1
<1>13. CASE Operation(w) = "acquire_hold" /\ StepOf(w) = 2 /\ Current(w) = "eligible"
  <2>1. HoldCheck(request[w])
    BY <1>3, <1>13 DEF Passes
  <2> QED
    <3>1. application.status = "APPROVED" /\ date.status = "SCHEDULED"
      BY <2>1 DEF HoldCheck, Scheduled
    <3>2. Found
      BY <1>13, <3>1, SMT
    <3> QED
      BY <1>8, <1>9, <3>2
<1>14. CASE Operation(w) = "create_restriction" /\ StepOf(w) = 2 /\ Current(w) = "unrestricted"
  <2>1. Unrestricted(request[w])
    BY <1>3, <1>14 DEF Passes
  <2> QED
    <3>1. \A i \in Restriction :
            restriction[i].target = request[w].asked.target => ~effective(restriction[i])
      BY <2>1 DEF Unrestricted
    <3>2. Found
      BY <1>14, <3>1, SMT
    <3> QED
      BY <1>8, <1>9, <3>2
<1> QED
  BY <1>3, <1>8, <1>10, <1>11, <1>12, <1>13, <1>14, AtCheck DEF Inv

\* A request that ends leaves the others where they are.
LEMMA EndKeeps ==
  ASSUME Inv, NEW w \in Worker, request' = [request EXCEPT ![w] = Idle]
  PROVE  \A v \in Worker :
           /\ v # w => request'[v] = request[v]
           /\ request'[v] # Idle => v # w
           /\ \A op : Doing(v, op)' => v # w /\ Doing(v, op)
           /\ request'[v] # Idle => StepOf(v)' = StepOf(v)
<1>1. \A v \in Worker : request'[v] = IF v = w THEN Idle ELSE request[v]
  BY SMT DEF Inv, RequestsOK
<1> QED
  BY <1>1 DEF Doing, StepOf, Operation

\* Undone, a request leaves nothing behind.
LEMMA AbortKeeps ==
  ASSUME Inv, NEW w \in Worker, Abort(w)
  PROVE  ChecksHold' /\ FormsFit'
<1>1. request' = [request EXCEPT ![w] = Idle] /\ UNCHANGED <<data, time>>
  BY DEF Abort
<1>2. \A v \in Worker :
        /\ v # w => request'[v] = request[v]
        /\ \A op : Doing(v, op)' => v # w /\ Doing(v, op)
        /\ request'[v] # Idle => StepOf(v)' = StepOf(v)
  BY <1>1, EndKeeps
<1>3. \A i \in Restriction : effective(restriction[i])' <=> effective(restriction[i])
  BY <1>1 DEF effective, data
<1>4. ChecksHold'
  BY <1>1, <1>2, <1>3 DEF Inv, ChecksHold, data, Doing
<1>5. FormsFit'
  BY <1>1, <1>2 DEF Inv, FormsFit, Fits, data
<1> QED
  BY <1>4, <1>5

\* What a request writes leaves alone what other requests' checks found: it
\* writes rows it has locked, or, applying, the row nobody could lock yet.
LEMMA OthersKeep ==
  ASSUME Inv, NEW w \in Worker, request' = [request EXCEPT ![w] = Idle], time' = time,
         date'.status = date.status \/ lock["date"] = w,
         intake'.version = intake.version \/ lock["intake"] = w,
         \/ application'.status = application.status
         \/ application.status = "SUBMITTED" /\ lock["application"] = w
         \/ application.status = "NONE" /\ lock["date"] = w,
         restriction' = restriction \/ lock["organization"] = w
  PROVE  ChecksHold'
<1>1. \A v \in Worker :
        /\ v # w => request'[v] = request[v]
        /\ \A op : Doing(v, op)' => v # w /\ Doing(v, op)
        /\ request'[v] # Idle => StepOf(v)' = StepOf(v)
  BY EndKeeps
<1> SUFFICES ASSUME NEW v \in Worker, v # w, request'[v] = request[v]
    PROVE  /\ Doing(v, "submit") /\ StepOf(v) > 3 =>
                /\ application'.status = "NONE"
                /\ date'.status = "SCHEDULED"
                /\ request[v].asked.form.version = intake'.version
           /\ Doing(v, "approve") /\ StepOf(v) > 2 => application'.status = "SUBMITTED"
           /\ Doing(v, "approve") /\ StepOf(v) > 4 => date'.status = "SCHEDULED"
           /\ Doing(v, "acquire_hold") /\ StepOf(v) > 2 =>
                application'.status = "APPROVED" /\ date'.status = "SCHEDULED"
           /\ Doing(v, "create_restriction") /\ StepOf(v) > 2 =>
                \A i \in Restriction :
                  restriction'[i].target = request[v].asked.target
                    => ~effective(restriction[i])'
  BY <1>1 DEF ChecksHold, Doing
<1>2. StepOf(v) \in Nat /\ ChecksHold
  BY HeldLocks DEF Inv
<1>3. /\ StepOf(v) > 3 => StepOf(v) > 1 /\ StepOf(v) > 2
      /\ StepOf(v) > 2 => StepOf(v) > 1
      /\ StepOf(v) > 4 => StepOf(v) > 3 /\ StepOf(v) > 2
  BY <1>2, SMT
<1>4. CASE Doing(v, "submit") /\ StepOf(v) > 3
  <2>1. lock["date"] = v /\ lock["intake"] = v
    BY <1>3, <1>4, HeldLocks DEF Inv
  <2>2. /\ application.status = "NONE" /\ date.status = "SCHEDULED"
        /\ request[v].asked.form.version = intake.version
    BY <1>2, <1>4 DEF ChecksHold
  <2> QED
    BY <1>4, <2>1, <2>2 DEF Doing
<1>5. ASSUME Doing(v, "approve"), StepOf(v) > 2 PROVE application'.status = "SUBMITTED"
  <2>1. lock["application"] = v
    BY <1>3, <1>5, HeldLocks DEF Inv
  <2> QED
    BY <1>2, <1>5, <2>1 DEF ChecksHold
<1>6. ASSUME Doing(v, "approve"), StepOf(v) > 4 PROVE date'.status = "SCHEDULED"
  <2>1. lock["date"] = v
    BY <1>3, <1>6, HeldLocks DEF Inv
  <2> QED
    BY <1>2, <1>6, <2>1 DEF ChecksHold
<1>7. ASSUME Doing(v, "acquire_hold"), StepOf(v) > 2
      PROVE  application'.status = "APPROVED" /\ date'.status = "SCHEDULED"
  <2>1. lock["date"] = v
    BY <1>3, <1>7, HeldLocks DEF Inv
  <2> QED
    BY <1>2, <1>7, <2>1 DEF ChecksHold
<1>8. ASSUME Doing(v, "create_restriction"), StepOf(v) > 2
      PROVE  \A i \in Restriction :
               restriction'[i].target = request[v].asked.target => ~effective(restriction[i])'
  <2>1. lock["organization"] = v
    BY <1>3, <1>8, HeldLocks DEF Inv
  <2>2. restriction' = restriction /\ time' = time
    BY <2>1
  <2> QED
    BY <1>2, <1>8, <2>2 DEF ChecksHold, effective
<1> QED
  BY <1>4, <1>5, <1>6, <1>7, <1>8 DEF Doing

\* The forms still fit while the questions and the vendor's page stay.
LEMMA FormsStay ==
  ASSUME Inv, NEW w \in Worker, request' = [request EXCEPT ![w] = Idle],
         intake' = intake, form' = form \/ form' = [version |-> 0, questions |-> Nobody]
  PROVE  FormsFit'
<1>1. \A v \in Worker : Doing(v, "submit")' => Doing(v, "submit") /\ request'[v] = request[v]
  BY EndKeeps
<1>2. intake.version \in Nat
  BY SMT DEF Inv, DataTypeOK
<1>3. Fits([version |-> 0, questions |-> Nobody])
  BY <1>2, SMT DEF Inv, FormsFit, Fits
<1>4. Fits(form)'
  BY <1>3 DEF Inv, FormsFit, Fits
<1> QED
  BY <1>1, <1>4 DEF Inv, FormsFit, Fits

\* An event recorded after the first.
LEMMA TwoEvents ==
  ASSUME NEW T, NEW first \in T, NEW second \in T
  PROVE  Append(<<first>>, second) = <<first, second>>
<1> DEFINE a == Append(<<first>>, second)
           b == <<first, second>>
<1>1. <<first>> \in Seq(T) /\ b \in Seq(T)
  BY SMT
<1>2. a \in Seq(T) /\ Len(a) = 2 /\ Len(b) = 2
  BY <1>1, SMT
<1>3. a[1] = b[1] /\ a[2] = b[2]
  BY SMT
<1> HIDE DEF a, b
<1>4. \A i \in 1..Len(a) : a[i] = b[i]
  BY <1>2, <1>3, SMT
<1>5. a = b
  BY <1>1, <1>2, <1>4, SeqEqual
<1> QED
  BY <1>5 DEF a, b

\* An application's status tells how far its story is.
LEMMA Story ==
  ASSUME ApplicationsEndOnce
  PROVE  /\ application.status = "NONE" => history = <<>>
         /\ application.status = "SUBMITTED" => history = <<"SUBMITTED">>
<1>1. CASE history = <<>>
  BY <1>1, SMT DEF ApplicationsEndOnce
<1>2. CASE history = <<"SUBMITTED">>
  BY <1>2, SMT DEF ApplicationsEndOnce
<1>3. ASSUME NEW end \in {"APPROVED", "REJECTED", "WITHDRAWN"}, history = <<"SUBMITTED", end>>
      PROVE  application.status = end
  BY <1>3, SMT DEF ApplicationsEndOnce
<1> QED
  BY <1>1, <1>2, <1>3 DEF ApplicationsEndOnce

-----------------------------------------------------------------------------
(* What the operations write *)

\* A request that commits has passed its checks and holds its locks.
LEMMA Committing ==
  ASSUME Inv, NEW w \in Worker, Commit(w)
  PROVE  /\ request' = [request EXCEPT ![w] = Idle] /\ time' = time
         /\ request[w].asked.op = Operation(w) /\ Effect(request[w])
         /\ Operation(w) = "submit" =>
              /\ lock["date"] = w /\ request[w].asked \in Submitting
              /\ application.status = "NONE"
              /\ request[w].asked.form.version = intake.version
              /\ Fits(request[w].asked.form)
         /\ Operation(w) = "cancel_occurrence" => lock["date"] = w
         /\ Operation(w) = "configure_intake" =>
              lock["intake"] = w /\ request[w].asked \in Configuring
         /\ Operation(w) \in {"withdraw", "reject", "approve"} => lock["application"] = w
         /\ Operation(w) = "acquire_hold" => application.status = "APPROVED"
         /\ Operation(w) = "update_occurrence" => request[w].asked \in Moving
         /\ Operation(w) = "create_restriction" =>
              /\ lock["organization"] = w /\ request[w].asked \in Restricting
              /\ \A i \in Restriction :
                   restriction[i].target = request[w].asked.target => ~effective(restriction[i])
         /\ Operation(w) = "revoke_restriction" =>
              lock["organization"] = w /\ request[w].asked \in Revoking
<1>1. /\ request' = [request EXCEPT ![w] = Idle] /\ time' = time
      /\ request[w] # Idle /\ ~AtStep(w) /\ Effect(request[w]) /\ RequestsOK
      /\ request[w].asked.op = Operation(w) /\ request[w] \in Request
  BY DEF Commit, Inv, RequestsOK, Operation
<1>2. \A op : Operation(w) = op <=> Doing(w, op)
  BY <1>1 DEF Doing
<1>3. /\ Operation(w) = "submit" => StepOf(w) > 3 /\ StepOf(w) > 1
      /\ Operation(w) = "acquire_hold" => StepOf(w) > 2
      /\ Operation(w) \in {"withdraw", "reject", "revoke_restriction", "approve"} => StepOf(w) > 1
      /\ Operation(w) \in {"cancel_occurrence", "configure_intake", "create_restriction"}
           => StepOf(w) > 2 /\ StepOf(w) > 1
  BY <1>1, AtCommit, SMT
<1>4. /\ Operation(w) = "submit" =>
           /\ application.status = "NONE"
           /\ request[w].asked.form.version = intake.version
           /\ Fits(request[w].asked.form)
      /\ Operation(w) = "acquire_hold" => application.status = "APPROVED"
      /\ Operation(w) = "create_restriction" =>
           \A i \in Restriction :
             restriction[i].target = request[w].asked.target => ~effective(restriction[i])
  BY <1>2, <1>3 DEF Inv, ChecksHold, FormsFit
<1>5. /\ Operation(w) = "submit" => lock["date"] = w
      /\ Operation(w) = "cancel_occurrence" => lock["date"] = w
      /\ Operation(w) = "configure_intake" => lock["intake"] = w
      /\ Operation(w) \in {"withdraw", "reject", "approve"} => lock["application"] = w
      /\ Operation(w) \in {"create_restriction", "revoke_restriction"} => lock["organization"] = w
  BY <1>1, <1>2, <1>3, HeldLocks
<1> QED
  BY <1>1, <1>4, <1>5, WishOf

\* The market or its date changes.
LEMMA ScheduleKeeps ==
  ASSUME Inv, NEW w \in Worker, Commit(w),
         \/ archive_market
         \/ Operation(w) = "update_occurrence" /\ update_occurrence(request[w].asked.starts)
         \/ Operation(w) = "cancel_occurrence" /\ cancel_occurrence
  PROVE  Inv'
<1>1. /\ UNCHANGED <<intake, form, application, history, taken, restriction, time>>
      /\ request' = [request EXCEPT ![w] = Idle]
  BY Committing DEF archive_market, update_occurrence, cancel_occurrence
<1> DEFINE Dates == [status : {"SCHEDULED", "CANCELLED"}, starts : Nat]
<1>2. date' \in Dates /\ market' \in {"PUBLISHED", "ARCHIVED"}
      /\ (date'.status = date.status \/ lock["date"] = w)
  <2>0. /\ \A d \in Dates, t \in Nat :
             [d EXCEPT !.starts = t] \in Dates /\ [d EXCEPT !.starts = t].status = d.status
        /\ \A d \in Dates : [d EXCEPT !.status = "CANCELLED"] \in Dates
        /\ date \in Dates /\ market \in {"PUBLISHED", "ARCHIVED"}
    BY Zenon DEF Inv, DataTypeOK
  <2>1. CASE archive_market
    BY <2>0, <2>1 DEF archive_market
  <2>2. CASE Operation(w) = "update_occurrence" /\ update_occurrence(request[w].asked.starts)
    <3>1. request[w].asked.starts \in Nat
      BY <2>2, Committing, Constants DEF Moving
    <3> QED
      BY <2>0, <2>2, <3>1 DEF update_occurrence
  <2>3. CASE Operation(w) = "cancel_occurrence" /\ cancel_occurrence
    BY <2>0, <2>3, Committing DEF cancel_occurrence
  <2> QED
    BY <2>1, <2>2, <2>3
<1>3. RequestsOK'
  BY RequestsStep DEF Inv, Next
<1>4. ChecksHold'
  BY <1>1, <1>2, OthersKeep
<1>5. FormsFit'
  BY <1>1, FormsStay
<1>6. DataTypeOK'
  BY <1>1, <1>2 DEF Inv, DataTypeOK
<1>7. DataInv'
  BY <1>1 DEF Inv, DataInv, ApplicationsEndOnce, AnswersFitQuestions, OneRestrictionPerTarget,
              effective
<1> QED
  BY <1>3, <1>4, <1>5, <1>6, <1>7 DEF Inv

\* The questions change, and their version with them.
LEMMA ConfigureKeeps ==
  ASSUME Inv, NEW w \in Worker, Commit(w), Operation(w) = "configure_intake",
         configure_intake(request[w])
  PROVE  Inv'
<1> DEFINE asked == request[w].asked
<1>1. /\ UNCHANGED <<market, date, form, application, history, taken, restriction, time>>
      /\ request' = [request EXCEPT ![w] = Idle] /\ intake' = Configured(request[w])
      /\ lock["intake"] = w /\ asked \in Configuring
  BY Committing DEF configure_intake
<1>2. asked.questions \in Question /\ asked.window \in Nat \X Nat
  BY <1>1, Constants DEF Configuring
<1>3. /\ intake'.version = IF intake.version = 0 THEN 1
                           ELSE IF intake.questions = asked.questions THEN intake.version
                           ELSE intake.version + 1
      /\ intake'.questions = asked.questions /\ intake'.window = asked.window
      /\ intake' = [version |-> intake'.version, questions |-> asked.questions,
                    window |-> asked.window]
  BY <1>1 DEF Configured
<1>4. intake.version \in Nat
  BY SMT DEF Inv, DataTypeOK
<1>5. intake'.version \in Nat
  BY <1>3, <1>4, SMT
<1>6. intake' \in [version : Nat, questions : Question \cup {Nobody}, window : Nat \X Nat]
  BY <1>2, <1>3, <1>5, Zenon
<1>7. \A f \in Form : Fits(f) => Fits(f)'
  <2> SUFFICES ASSUME NEW f \in Form, Fits(f) PROVE Fits(f)'
    OBVIOUS
  <2>1. f.version \in Nat
    BY DEF Form
  <2> HIDE DEF asked
  <2>2. CASE intake.version = 0
    BY <1>3, <2>1, <2>2, SMT DEF Fits
  <2>3. CASE intake.version # 0 /\ intake.questions = asked.questions
    BY <1>3, <2>3 DEF Fits
  <2>4. CASE intake.version # 0 /\ intake.questions # asked.questions
    BY <1>3, <1>4, <2>1, <2>4, SMT DEF Fits
  <2> QED
    BY <2>2, <2>3, <2>4
<1>8. FormsFit'
  <2>1. \A v \in Worker : Doing(v, "submit")' => Doing(v, "submit") /\ request'[v] = request[v]
    BY <1>1, EndKeeps
  <2>2. \A v \in Worker : Doing(v, "submit") => request[v].asked.form \in Form
    <3>1. \A v \in Worker : Doing(v, "submit") =>
            request[v] \in Request /\ request[v].asked.op = "submit"
      BY DEF Inv, RequestsOK, Doing, Operation
    <3> QED
      BY <3>1, WishOf DEF Submitting
  <2>3. form \in Form /\ form' = form
    BY <1>1 DEF Inv, DataTypeOK
  <2>4. intake'.version # 0
    BY <1>3, <1>4, SMT
  <2> QED
    BY <1>7, <2>1, <2>2, <2>3, <2>4 DEF Inv, FormsFit
<1>9. ChecksHold'
  BY <1>1, OthersKeep
<1>10. RequestsOK'
  BY RequestsStep DEF Inv, Next
<1>11. DataTypeOK'
  BY <1>1, <1>6 DEF Inv, DataTypeOK
<1>12. DataInv'
  BY <1>1 DEF Inv, DataInv, ApplicationsEndOnce, AnswersFitQuestions, OneRestrictionPerTarget,
              effective
<1> QED
  BY <1>8, <1>9, <1>10, <1>11, <1>12 DEF Inv

\* A business applies, with the questions it was shown.
LEMMA SubmitKeeps ==
  ASSUME Inv, NEW w \in Worker, Commit(w), Operation(w) = "submit", submit(request[w])
  PROVE  Inv'
<1> DEFINE asked == request[w].asked
           Applied == [status |-> "SUBMITTED", by |-> asked.account,
                       questions |-> intake.questions, answered |-> asked.form.questions]
<1>1. /\ UNCHANGED <<market, date, intake, taken, restriction, time>>
      /\ request' = [request EXCEPT ![w] = Idle] /\ application' = Applied
      /\ history' = Append(history, "SUBMITTED")
      /\ form' = [version |-> 0, questions |-> Nobody]
      /\ lock["date"] = w /\ asked \in Submitting /\ application.status = "NONE"
      /\ asked.form.version = intake.version /\ Fits(asked.form)
  BY Committing DEF submit
<1>2. asked.account \in Account /\ asked.form \in Form
  BY <1>1 DEF Submitting
<1>3. asked.form.questions = intake.questions /\ intake.questions \in Question \cup {Nobody}
  BY <1>1 DEF Fits, Inv, DataTypeOK
<1> HIDE DEF asked
<1>4. /\ application' \in [status : {"NONE", "SUBMITTED", "APPROVED", "REJECTED", "WITHDRAWN"},
                           by : Account \cup {Nobody}, questions : Question \cup {Nobody},
                           answered : Question \cup {Nobody}]
      /\ application'.status = "SUBMITTED" /\ application'.answered = application'.questions
  BY <1>1, <1>2, <1>3
<1>5. form' \in Form
  BY <1>1, SMT DEF Form
<1>6. DataTypeOK'
  BY <1>1, <1>4, <1>5 DEF Inv, DataTypeOK
<1>7. ApplicationsEndOnce'
  <2>1. history = <<>> /\ ~taken
    BY <1>1, Story DEF Inv, DataInv, ApplicationsEndOnce
  <2>2. history' = <<"SUBMITTED">>
    BY <1>1, <2>1, SMT
  <2>3. history'[Len(history')] = "SUBMITTED" /\ history' # <<>>
    BY <2>2, SMT
  <2> QED
    BY <1>1, <1>4, <2>1, <2>2, <2>3 DEF ApplicationsEndOnce
<1>8. DataInv'
  BY <1>1, <1>4, <1>7 DEF Inv, DataInv, AnswersFitQuestions, OneRestrictionPerTarget, effective
<1>9. RequestsOK'
  BY RequestsStep DEF Inv, Next
<1>10. ChecksHold'
  BY <1>1, OthersKeep
<1>11. FormsFit'
  BY <1>1, FormsStay
<1> QED
  BY <1>6, <1>8, <1>9, <1>10, <1>11 DEF Inv

\* Of the decisions and the withdrawal only one finds the application
\* submitted.
LEMMA DecideKeeps ==
  ASSUME Inv, NEW w \in Worker, Commit(w),
         NEW status \in {"APPROVED", "REJECTED", "WITHDRAWN"}, Decide(status),
         Operation(w) \in {"withdraw", "reject", "approve"}
  PROVE  Inv'
<1> DEFINE Applications ==
             [status : {"NONE", "SUBMITTED", "APPROVED", "REJECTED", "WITHDRAWN"},
              by : Account \cup {Nobody}, questions : Question \cup {Nobody},
              answered : Question \cup {Nobody}]
<1>1. /\ UNCHANGED <<market, date, intake, form, taken, restriction, time>>
      /\ request' = [request EXCEPT ![w] = Idle] /\ application.status = "SUBMITTED"
      /\ application' = [application EXCEPT !.status = status]
      /\ history' = Append(history, status) /\ lock["application"] = w
  BY Committing DEF Decide
<1>2. /\ application' \in Applications /\ application'.status = status
      /\ application'.questions = application.questions
      /\ application'.answered = application.answered
  <2>1. \A a \in Applications :
          /\ [a EXCEPT !.status = status] \in Applications
          /\ [a EXCEPT !.status = status].status = status
          /\ [a EXCEPT !.status = status].questions = a.questions
          /\ [a EXCEPT !.status = status].answered = a.answered
    BY Zenon
  <2> QED
    BY <1>1, <2>1 DEF Inv, DataTypeOK
<1>3. DataTypeOK'
  BY <1>1, <1>2 DEF Inv, DataTypeOK
<1>4. ApplicationsEndOnce'
  <2>1. history = <<"SUBMITTED">> /\ ~taken
    BY <1>1, Story DEF Inv, DataInv, ApplicationsEndOnce
  <2>2. history' = <<"SUBMITTED", status>>
    <3>1. "SUBMITTED" \in {"SUBMITTED", status} /\ status \in {"SUBMITTED", status}
      OBVIOUS
    <3>2. Append(<<"SUBMITTED">>, status) = <<"SUBMITTED", status>>
      BY <3>1, TwoEvents
    <3> QED
      BY <1>1, <2>1, <3>2
  <2>3. history'[Len(history')] = status /\ history' # <<>>
    BY <2>2, SMT
  <2> QED
    BY <1>1, <1>2, <2>1, <2>2, <2>3 DEF ApplicationsEndOnce
<1>5. DataInv'
  BY <1>1, <1>2, <1>4 DEF Inv, DataInv, AnswersFitQuestions, OneRestrictionPerTarget, effective
<1>6. RequestsOK'
  BY RequestsStep DEF Inv, Next
<1>7. ChecksHold'
  BY <1>1, OthersKeep
<1>8. FormsFit'
  BY <1>1, FormsStay
<1> QED
  BY <1>3, <1>5, <1>6, <1>7, <1>8 DEF Inv

\* A stall is taken with an approval.
LEMMA HoldKeeps ==
  ASSUME Inv, NEW w \in Worker, Commit(w), Operation(w) = "acquire_hold", acquire_hold
  PROVE  Inv'
<1>1. /\ UNCHANGED <<market, date, intake, form, application, history, restriction, time>>
      /\ request' = [request EXCEPT ![w] = Idle] /\ application.status = "APPROVED"
      /\ taken' = TRUE
  BY Committing DEF acquire_hold
<1>2. DataTypeOK'
  BY <1>1 DEF Inv, DataTypeOK
<1>3. DataInv'
  BY <1>1 DEF Inv, DataInv, ApplicationsEndOnce, AnswersFitQuestions, OneRestrictionPerTarget,
              effective
<1>4. RequestsOK'
  BY RequestsStep DEF Inv, Next
<1>5. ChecksHold'
  BY <1>1, OthersKeep
<1>6. FormsFit'
  BY <1>1, FormsStay
<1> QED
  BY <1>2, <1>3, <1>4, <1>5, <1>6 DEF Inv

\* A target that is not restricted is restricted.
LEMMA CreateKeeps ==
  ASSUME Inv, NEW w \in Worker, Commit(w), Operation(w) = "create_restriction",
         create_restriction(request[w].asked.id, request[w].asked.target,
                            request[w].asked.expires)
  PROVE  Inv'
<1> DEFINE asked == request[w].asked
           new == [target |-> asked.target, expires |-> asked.expires, revoked |-> FALSE]
<1>1. /\ UNCHANGED <<market, date, intake, form, application, history, taken, time>>
      /\ request' = [request EXCEPT ![w] = Idle] /\ lock["organization"] = w
      /\ asked \in Restricting
      /\ \A i \in Restriction : restriction[i].target = asked.target => ~effective(restriction[i])
      /\ restriction' = [restriction EXCEPT ![asked.id] = new]
  BY Committing DEF create_restriction
<1>2. new \in RestrictionRow /\ asked.id \in Restriction /\ new.target = asked.target
  BY <1>1 DEF Restricting, RestrictionRow
<1> HIDE DEF asked, new
<1>3. /\ restriction' \in [Restriction -> RestrictionRow]
      /\ \A i \in Restriction :
           restriction'[i] = IF i = asked.id THEN new ELSE restriction[i]
  BY <1>1, <1>2 DEF Inv, DataTypeOK
<1>4. OneRestrictionPerTarget'
  <2> SUFFICES ASSUME NEW i \in Restriction, NEW j \in Restriction,
                      effective(restriction[i])', effective(restriction[j])',
                      restriction'[i].target = restriction'[j].target, i # j
               PROVE  FALSE
    BY DEF OneRestrictionPerTarget
  <2>1. \A k \in Restriction : k # asked.id /\ effective(restriction[k])' =>
          effective(restriction[k]) /\ restriction'[k] = restriction[k]
    BY <1>1, <1>3 DEF effective
  <2>2. restriction'[asked.id].target = asked.target
    BY <1>2, <1>3
  <2> QED
    BY <1>1, <2>1, <2>2 DEF Inv, DataInv, OneRestrictionPerTarget
<1>5. DataTypeOK'
  BY <1>1, <1>3 DEF Inv, DataTypeOK
<1>6. DataInv'
  BY <1>1, <1>4 DEF Inv, DataInv, ApplicationsEndOnce, AnswersFitQuestions
<1>7. RequestsOK'
  BY RequestsStep DEF Inv, Next
<1>8. ChecksHold'
  BY <1>1, OthersKeep
<1>9. FormsFit'
  BY <1>1, FormsStay
<1> QED
  BY <1>5, <1>6, <1>7, <1>8, <1>9 DEF Inv

\* A restriction ends.
LEMMA RevokeKeeps ==
  ASSUME Inv, NEW w \in Worker, Commit(w), Operation(w) = "revoke_restriction",
         revoke_restriction(request[w].asked.id)
  PROVE  Inv'
<1> DEFINE id == request[w].asked.id
<1>1. /\ UNCHANGED <<market, date, intake, form, application, history, taken, time>>
      /\ request' = [request EXCEPT ![w] = Idle] /\ lock["organization"] = w
      /\ id \in Restriction
      /\ restriction' = [restriction EXCEPT ![id] = [restriction[id] EXCEPT !.revoked = TRUE]]
  BY Committing DEF revoke_restriction, Revoking
<1>2. \A row \in RestrictionRow :
        /\ [row EXCEPT !.revoked = TRUE] \in RestrictionRow
        /\ [row EXCEPT !.revoked = TRUE].target = row.target
        /\ [row EXCEPT !.revoked = TRUE].revoked
  BY Zenon DEF RestrictionRow
<1> DEFINE new == [restriction[id] EXCEPT !.revoked = TRUE]
<1>3. new \in RestrictionRow /\ new.target = restriction[id].target /\ new.revoked
  BY <1>1, <1>2 DEF Inv, DataTypeOK
<1> HIDE DEF id, new
<1>4. /\ restriction' \in [Restriction -> RestrictionRow]
      /\ \A i \in Restriction : restriction'[i] = IF i = id THEN new ELSE restriction[i]
  BY <1>1, <1>3 DEF Inv, DataTypeOK, new
<1>5. OneRestrictionPerTarget'
  <2>1. \A k \in Restriction : effective(restriction[k])' =>
          effective(restriction[k]) /\ restriction'[k] = restriction[k]
    BY <1>1, <1>3, <1>4 DEF effective
  <2> QED
    BY <2>1 DEF Inv, DataInv, OneRestrictionPerTarget
<1>6. DataTypeOK'
  BY <1>1, <1>4 DEF Inv, DataTypeOK
<1>7. DataInv'
  BY <1>1, <1>5 DEF Inv, DataInv, ApplicationsEndOnce, AnswersFitQuestions
<1>8. RequestsOK'
  BY RequestsStep DEF Inv, Next
<1>9. ChecksHold'
  BY <1>1, OthersKeep
<1>10. FormsFit'
  BY <1>1, FormsStay
<1> QED
  BY <1>6, <1>7, <1>8, <1>9, <1>10 DEF Inv

\* Time passes: restrictions end, and none begins.
LEMMA TickKeeps ==
  ASSUME Inv, PassTime
  PROVE  Inv'
<1>1. UNCHANGED <<market, date, intake, form, application, history, taken, restriction, lock,
                  request>>
      /\ time \in Nat /\ time' = time + 1
  BY DEF PassTime, data, Inv, DataTypeOK
<1>2. \A i \in Restriction : effective(restriction[i])' => effective(restriction[i])
  <2> SUFFICES ASSUME NEW i \in Restriction, effective(restriction[i])'
               PROVE  effective(restriction[i])
    OBVIOUS
  <2>1. restriction[i].expires \in Nat
    BY SMT DEF Inv, DataTypeOK, RestrictionRow
  <2>2. restriction[i].expires > time + 1
    BY <1>1 DEF effective
  <2>3. restriction[i].expires > time
    BY <1>1, <2>1, <2>2, SMT
  <2> QED
    BY <1>1, <2>3 DEF effective
<1>3. DataTypeOK'
  <2>1. time' \in Nat
    BY <1>1, SMT
  <2> QED
    BY <1>1, <2>1 DEF Inv, DataTypeOK
<1>4. RequestsOK'
  BY RequestsStep DEF Inv, Next
<1>5. ChecksHold'
  BY <1>1, <1>2 DEF Inv, ChecksHold, Doing, StepOf, Operation
<1>6. FormsFit'
  BY <1>1 DEF Inv, FormsFit, Fits, Doing, Operation
<1>7. DataInv'
  BY <1>1, <1>2 DEF Inv, DataInv, ApplicationsEndOnce, AnswersFitQuestions,
                    OneRestrictionPerTarget
<1> QED
  BY <1>3, <1>4, <1>5, <1>6, <1>7 DEF Inv

\* The vendor's page shows the current questions.
LEMMA LoadKeeps ==
  ASSUME Inv, LoadForm
  PROVE  Inv'
<1>1. /\ UNCHANGED <<market, date, intake, application, history, taken, restriction, lock, request, time>>
      /\ form' = [version |-> intake.version, questions |-> intake.questions]
  BY DEF LoadForm
<1>2. intake.version \in Nat /\ intake.questions \in Question \cup {Nobody}
  BY SMT DEF Inv, DataTypeOK
<1>3. form' \in Form /\ Fits(form)'
  BY <1>1, <1>2, SMT DEF Form, Fits
<1>4. DataTypeOK'
  BY <1>1, <1>3 DEF Inv, DataTypeOK
<1>5. RequestsOK'
  BY RequestsStep DEF Inv, Next
<1>6. ChecksHold'
  BY <1>1 DEF Inv, ChecksHold, Doing, StepOf, Operation, effective
<1>7. FormsFit'
  BY <1>1, <1>3 DEF Inv, FormsFit, Fits, Doing, Operation
<1>8. DataInv'
  BY <1>1 DEF Inv, DataInv, ApplicationsEndOnce, AnswersFitQuestions, OneRestrictionPerTarget,
              effective
<1> QED
  BY <1>4, <1>5, <1>6, <1>7, <1>8 DEF Inv

-----------------------------------------------------------------------------
(* The invariant, and what follows from it *)

\* The first state has it.
LEMMA InvStart == Init => Inv
<1> SUFFICES ASSUME Init PROVE Inv
  OBVIOUS
<1>1. DataTypeOK /\ RequestsOK
  BY RequestsStart
<1>2. ChecksHold
  BY DEF Init, ChecksHold, Doing
<1>3. FormsFit
  <2>1. intake.version \in {0, 1} /\ (intake.version = 0 => intake.questions = Nobody)
    BY SMT DEF Init
  <2>2. Fits(form)
    BY <2>1, SMT DEF Init, Fits
  <2> QED
    BY <2>1, <2>2 DEF Init, FormsFit, Doing
<1>4. DataInv
  <2>1. OneRestrictionPerTarget
    BY DEF Init, OneRestrictionPerTarget, effective, NoRestriction
  <2> QED
    BY <2>1 DEF Init, DataInv, ApplicationsEndOnce, AnswersFitQuestions
<1> QED
  BY <1>1, <1>2, <1>3, <1>4 DEF Inv

\* Every step keeps it.
LEMMA InvStep == Inv /\ [Next]_vars => Inv'
<1> SUFFICES ASSUME Inv, [Next]_vars PROVE Inv'
  OBVIOUS
<1>0. RequestsOK'
  BY RequestsStep DEF Inv
<1>1. ASSUME NEW w \in Worker, NEW asked \in Asked, Begin(w, asked) PROVE Inv'
  BY <1>0, <1>1, BeginKeeps, DataStays DEF Inv, Begin
<1>2. ASSUME NEW w \in Worker, GetLock(w) PROVE Inv'
  BY <1>0, <1>2, LockKeeps, DataStays DEF Inv, GetLock
<1>3. ASSUME NEW w \in Worker, Check(w) PROVE Inv'
  BY <1>0, <1>3, CheckKeeps, DataStays DEF Inv, Check
<1>4. ASSUME NEW w \in Worker, Abort(w) PROVE Inv'
  BY <1>0, <1>4, AbortKeeps, DataStays DEF Inv, Abort
<1>5. ASSUME NEW w \in Worker, Commit(w) PROVE Inv'
  <2>1. Effect(request[w]) /\ request[w].asked.op = Operation(w)
    BY <1>5, Committing
  <2> QED
    BY <1>5, <2>1, ScheduleKeeps, ConfigureKeeps, SubmitKeeps, DecideKeeps, HoldKeeps,
       CreateKeeps, RevokeKeeps DEF Effect
<1>6. CASE UNCHANGED vars
  <2>1. ChecksHold' /\ FormsFit'
    BY <1>6 DEF vars, data, Inv, ChecksHold, FormsFit, Fits, Doing, StepOf, Operation, effective
  <2> QED
    BY <1>0, <1>6, <2>1, DataStays DEF Inv, vars
<1> QED
  BY <1>1, <1>2, <1>3, <1>4, <1>5, <1>6, TickKeeps, LoadKeeps DEF Next

\* Always.
LEMMA InvAlways == Spec => []Inv
  BY InvStart, InvStep, PTL DEF Spec

\* An application is submitted once and ends once, and a stall is taken only
\* with its approval: submit, decide and withdraw in applications/services.py.
THEOREM EndsOnce == Spec => []ApplicationsEndOnce
<1>1. Inv => ApplicationsEndOnce
  BY DEF Inv, DataInv
<1> QED
  BY <1>1, InvAlways, PTL

\* An application's answers were given to the questions stored with it,
\* whatever the organizer changed meanwhile: submit and
\* configure_intake in applications/services.py.
THEOREM AnswersAlwaysFit == Spec => []AnswersFitQuestions
<1>1. Inv => AnswersFitQuestions
  BY DEF Inv, DataInv
<1> QED
  BY <1>1, InvAlways, PTL

\* A target has one effective restriction at most, however many moderators
\* restrict it at once: create_restriction in moderation/services.py.
THEOREM RestrictedOnce == Spec => []OneRestrictionPerTarget
<1>1. Inv => OneRestrictionPerTarget
  BY DEF Inv, DataInv
<1> QED
  BY <1>1, InvAlways, PTL

\* What the holder of a lock waits for itself.
LEMMA HolderWaits ==
  ASSUME RequestsOK, NEW v \in Worker, NEW w \in Worker, WaitsFor(v, w),
         AtStep(w), Current(w) \in Row
  PROVE  /\ Current(v) = "market" => Current(w) = "date"
         /\ Current(v) = "date" =>
              \/ Current(w) = "intake"
              \/ Doing(w, "acquire_hold") /\ StepOf(w) > 2 /\ Current(w) = "application"
         /\ Current(v) = "application" =>
              Doing(w, "approve") /\ StepOf(w) > 2 /\ Current(w) = "date"
         /\ Current(v) \notin {"intake", "organization"}
<1>1. Current(v) \in Row /\ lock[Current(v)] = w
  BY DEF WaitsFor
<1>2. request[w] # Idle /\ Passed(request[w], Current(v))
  BY <1>1 DEF RequestsOK
<1>3. /\ Operation(w) \in Op
      /\ StepOf(w) \in 1..(Len(Script[Operation(w)]) + 1)
      /\ StepOf(w) <= Len(Script[Operation(w)])
      /\ Current(w) = Script[Operation(w)][StepOf(w)]
  BY <1>2 DEF AtStep, RequestsOK, StepOf, Current
<1>4. PICK i \in 1..(StepOf(w) - 1) : Script[Operation(w)][i] = Current(v)
  BY <1>2 DEF Passed, StepOf, Operation
<1>5. Current(w) \in {"market", "date", "intake", "application", "organization"}
      /\ Current(v) \in {"market", "date", "intake", "application", "organization"}
  BY <1>1 DEF Row
<1>6. \/ Operation(w) \in {"update_occurrence", "cancel_occurrence"}
           /\ Current(v) = "market" /\ Current(w) = "date"
      \/ Operation(w) \in {"configure_intake", "submit"}
           /\ Current(v) = "date" /\ Current(w) = "intake"
      \/ Operation(w) = "acquire_hold" /\ StepOf(w) > 2
           /\ Current(v) = "date" /\ Current(w) = "application"
      \/ Operation(w) = "approve" /\ StepOf(w) > 2
           /\ Current(v) = "application" /\ Current(w) = "date"
  <2>1. CASE Operation(w) = "archive_market"
    BY <1>3, <1>4, <1>5, <2>1, Scripts, SMT
  <2>2. CASE Operation(w) = "update_occurrence"
    BY <1>3, <1>4, <1>5, <2>2, Scripts, SMT
  <2>3. CASE Operation(w) = "cancel_occurrence"
    BY <1>3, <1>4, <1>5, <2>3, Scripts, SMT
  <2>4. CASE Operation(w) = "configure_intake"
    BY <1>3, <1>4, <1>5, <2>4, Scripts, SMT
  <2>5. CASE Operation(w) = "submit"
    BY <1>3, <1>4, <1>5, <2>5, Scripts, SMT
  <2>6. CASE Operation(w) = "withdraw"
    BY <1>3, <1>4, <1>5, <2>6, Scripts, SMT
  <2>7. CASE Operation(w) = "reject"
    BY <1>3, <1>4, <1>5, <2>7, Scripts, SMT
  <2>8. CASE Operation(w) = "approve"
    BY <1>3, <1>4, <1>5, <2>8, Scripts, SMT
  <2>9. CASE Operation(w) = "acquire_hold"
    BY <1>3, <1>4, <1>5, <2>9, Scripts, SMT
  <2>10. CASE Operation(w) = "create_restriction"
    BY <1>3, <1>4, <1>5, <2>10, Scripts, SMT
  <2>11. CASE Operation(w) = "revoke_restriction"
    BY <1>3, <1>4, <1>5, <2>11, Scripts, SMT
  <2> QED
    BY <1>3, <2>1, <2>2, <2>3, <2>4, <2>5, <2>6, <2>7, <2>8, <2>9, <2>10, <2>11 DEF Op
<1> QED
  BY <1>2, <1>6, SMT DEF Doing

\* Requests never all wait for one another: the lock orders of markets,
\* applications, moderation and reservations, with what each has checked.
THEOREM NoCircle == Spec => []NobodyWaitsInACircle
<1>1. Inv => NobodyWaitsInACircle
  <2> SUFFICES ASSUME Inv, NEW S \in SUBSET Worker, S # {},
                      \A v \in S : \E w \in S : WaitsFor(v, w)
               PROVE  FALSE
    <3>1. ASSUME Inv, ~NobodyWaitsInACircle
          PROVE  \E S \in SUBSET Worker : S # {} /\ \A v \in S : \E w \in S : WaitsFor(v, w)
      BY <3>1, Zenon DEF NobodyWaitsInACircle
    <3> QED
      BY <3>1
  <2> USE DEF Inv
  <2>1. \A v \in S : v \in Worker /\ AtStep(v) /\ Current(v) \in Row
    BY DEF WaitsFor
  <2>2. \A v \in S : Current(v) \notin {"intake", "organization"}
    BY <2>1, HolderWaits
  <2>3. \A v \in S : Current(v) # "date"
    <3> SUFFICES ASSUME NEW v \in S, Current(v) = "date"
                 PROVE  FALSE
      OBVIOUS
    <3>1. PICK w \in S : WaitsFor(v, w)
      OBVIOUS
    <3>2. Doing(w, "acquire_hold") /\ StepOf(w) > 2 /\ Current(w) = "application"
      BY <2>1, <2>2, <3>1, HolderWaits
    <3>3. PICK u \in S : WaitsFor(w, u)
      OBVIOUS
    <3>4. Doing(u, "approve") /\ StepOf(u) > 2
      BY <2>1, <3>2, <3>3, HolderWaits
    <3>5. application.status = "APPROVED" /\ application.status = "SUBMITTED"
      BY <2>1, <3>2, <3>4 DEF ChecksHold
    <3> QED
      BY <3>5
  <2>4. \A v \in S : Current(v) \notin {"market", "application"}
    BY <2>1, <2>3, HolderWaits
  <2> QED
    BY <2>1, <2>2, <2>3, <2>4 DEF Row
<1> QED
  BY <1>1, InvAlways, PTL

-----------------------------------------------------------------------------
(* Who may enter *)

AccountOf(w) ==
  IF Operation(w) = "approve" THEN application.by ELSE request[w].asked.account

Checked(w) ==
  \/ Doing(w, "submit") /\ StepOf(w) > 3
  \/ Doing(w, "approve") /\ StepOf(w) > 4
  \/ Doing(w, "acquire_hold") /\ StepOf(w) > 2

\* What stood against a request is still there, ended or not, and a request
\* sees the archiving that came before it.
BarsKnown ==
  \A w \in Worker :
    /\ \A i \in Restriction \cap request[w].barred : restriction[i].target # Nobody
    /\ "ARCHIVED" \in request[w].barred => market = "ARCHIVED" /\ request[w].market = "ARCHIVED"

\* Once a request is checked, nothing that stands now and stood when it began
\* is against it.
BarsKept ==
  \A w \in Worker : Checked(w) =>
    /\ "ARCHIVED" \notin request[w].barred
    /\ \A i \in Restriction \cap request[w].barred :
         effective(restriction[i]) => restriction[i].target \notin {Vendor, AccountOf(w)}

EntryInv == Inv /\ BarsKnown /\ BarsKept

\* Requests that stay or end, while restrictions only end or take unused rows.
LEMMA BarsStay ==
  ASSUME EntryInv,
         \A v \in Worker : request'[v] = request[v] \/ request'[v] = Idle,
         \A i \in Restriction : restriction[i].target # Nobody =>
           /\ restriction'[i].target = restriction[i].target
           /\ effective(restriction[i])' => effective(restriction[i]),
         market = "ARCHIVED" => market' = "ARCHIVED",
         application'.by = application.by \/ application.status = "NONE"
  PROVE  BarsKnown' /\ BarsKept'
<1>1. BarsKnown /\ BarsKept /\ ChecksHold
  BY DEF EntryInv, Inv
<1>2. BarsKnown'
  BY <1>1 DEF BarsKnown, Idle
<1>3. ASSUME NEW v \in Worker, Checked(v)'
      PROVE  /\ Checked(v) /\ request'[v] = request[v] /\ AccountOf(v)' = AccountOf(v)
  <2>1. request'[v] = request[v]
    BY <1>3 DEF Checked, Doing
  <2>2. Checked(v) /\ Operation(v)' = Operation(v)
    BY <1>3, <2>1 DEF Checked, Doing, StepOf, Operation
  <2>3. CASE Operation(v) = "approve"
    <3>1. Doing(v, "approve") /\ StepOf(v) > 4 /\ StepOf(v) \in Nat
      BY <2>2, <2>3, HeldLocks DEF Checked, Doing, EntryInv, Inv
    <3>2. StepOf(v) > 2
      BY <3>1, SMT
    <3>3. application.status = "SUBMITTED"
      BY <1>1, <3>1, <3>2 DEF ChecksHold
    <3>4. application'.by = application.by
      BY <3>3
    <3> QED
      BY <2>1, <2>2, <2>3, <3>4 DEF AccountOf
  <2>4. CASE Operation(v) # "approve"
    BY <2>1, <2>2, <2>4 DEF AccountOf
  <2> QED
    BY <2>1, <2>2, <2>3, <2>4
<1>4. BarsKept'
  <2> SUFFICES ASSUME NEW v \in Worker, Checked(v)'
               PROVE  /\ "ARCHIVED" \notin request'[v].barred
                      /\ \A i \in Restriction \cap request'[v].barred :
                           effective(restriction[i])' =>
                             restriction'[i].target \notin {Vendor, AccountOf(v)'}
    BY DEF BarsKept
  <2>1. Checked(v) /\ request'[v] = request[v] /\ AccountOf(v)' = AccountOf(v)
    BY <1>3
  <2>2. \A i \in Restriction \cap request[v].barred : restriction[i].target # Nobody
    BY <1>1 DEF BarsKnown
  <2> QED
    BY <1>1, <2>1, <2>2 DEF BarsKept
<1> QED
  BY <1>2, <1>4

\* A request begins and notes what stands against it.
LEMMA BarsBegin ==
  ASSUME EntryInv, NEW w \in Worker, NEW asked \in Asked, Begin(w, asked)
  PROVE  BarsKnown' /\ BarsKept'
<1> DEFINE r == [asked |-> asked, step |-> 1, market |-> market,
                 barred |-> IF asked.op \in Entry THEN Bars ELSE {}]
<1>1. request' = [request EXCEPT ![w] = r] /\ UNCHANGED <<data, time>>
  BY DEF Begin
<1>2. r.step = 1 /\ r.market = market /\ (r.barred = Bars \/ r.barred = {})
  OBVIOUS
<1> HIDE DEF r
<1>3. \A v \in Worker : request'[v] = IF v = w THEN r ELSE request[v]
  BY <1>1, SMT DEF EntryInv, Inv, RequestsOK
<1>4. /\ \A i \in Restriction \cap Bars : restriction[i].target # Nobody
      /\ "ARCHIVED" \in Bars => market = "ARCHIVED"
  BY Constants DEF Bars, effective
<1>5. BarsKnown'
  <2>1. UNCHANGED <<restriction, market>>
    BY <1>1 DEF data
  <2> QED
    BY <1>2, <1>3, <1>4, <2>1 DEF EntryInv, BarsKnown
<1>6. \A v \in Worker : Checked(v)' => v # w /\ request'[v] = request[v] /\ Checked(v)
  BY <1>2, <1>3, SMT DEF Checked, StepOf, Doing, Operation
<1>7. BarsKept'
  <2>1. UNCHANGED <<restriction, application, time>>
    BY <1>1 DEF data
  <2> QED
    BY <1>6, <2>1 DEF EntryInv, BarsKept, AccountOf, Operation, effective
<1> QED
  BY <1>5, <1>7

\* A request that gets a lock was checked before, or is not yet.
LEMMA BarsLock ==
  ASSUME EntryInv, NEW w \in Worker, GetLock(w)
  PROVE  BarsKnown' /\ BarsKept'
<1> DEFINE r == [request[w] EXCEPT !.step = request[w].step + 1]
<1>1. request[w] \in Request /\ market \in {"PUBLISHED", "ARCHIVED"}
  BY DEF EntryInv, Inv, RequestsOK, DataTypeOK
<1>2. /\ r.step = StepOf(w) + 1 /\ r.asked = request[w].asked
      /\ r.barred = request[w].barred /\ r.market = request[w].market
  BY <1>1, OneStepOn DEF StepOf
<1>3. /\ request' = [request EXCEPT ![w] = r] /\ AtStep(w) /\ Current(w) \in Row
      /\ UNCHANGED <<data, time>>
  BY DEF GetLock
<1> HIDE DEF r
<1>4. \A v \in Worker : request'[v] = IF v = w THEN r ELSE request[v]
  BY <1>3, SMT DEF EntryInv, Inv, RequestsOK
<1>5. /\ Operation(w) = "submit" => StepOf(w) \in {1, 2}
      /\ Operation(w) \in {"approve", "acquire_hold"} => StepOf(w) \in {1, 3}
      /\ request[w] # Idle
  BY <1>3, AtLock DEF EntryInv, Inv
<1>6. \A v \in Worker :
        /\ Checked(v)' => Checked(v)
        /\ request'[v].barred = request[v].barred /\ request'[v].market = request[v].market
        /\ request'[v].asked = request[v].asked
  <2> SUFFICES ASSUME NEW v \in Worker
               PROVE  /\ Checked(v)' => Checked(v)
                      /\ request'[v].barred = request[v].barred
                      /\ request'[v].market = request[v].market
                      /\ request'[v].asked = request[v].asked
    OBVIOUS
  <2>1. CASE v = w
    <3>1. Checked(v)' => Checked(v)
      BY <1>2, <1>4, <1>5, <2>1, SMT DEF Checked, Doing, StepOf, Operation
    <3> QED
      BY <1>2, <1>4, <2>1, <3>1
  <2>2. CASE v # w
    BY <1>4, <2>2 DEF Checked, Doing, StepOf, Operation
  <2> QED
    BY <2>1, <2>2
<1>7. UNCHANGED <<restriction, application, market, time>>
  BY <1>3 DEF data
<1>8. BarsKnown'
  BY <1>6, <1>7 DEF EntryInv, BarsKnown
<1>9. BarsKept'
  BY <1>6, <1>7 DEF EntryInv, BarsKept, AccountOf, Operation, effective
<1> QED
  BY <1>8, <1>9

\* A check looks for everything that stands against the request.
LEMMA BarsCheck ==
  ASSUME EntryInv, NEW w \in Worker, Check(w)
  PROVE  BarsKnown' /\ BarsKept'
<1> DEFINE r == [request[w] EXCEPT !.step = request[w].step + 1, !.market = market]
<1>1. request[w] \in Request /\ market \in {"PUBLISHED", "ARCHIVED"}
  BY DEF EntryInv, Inv, RequestsOK, DataTypeOK
<1>2. /\ r.step = StepOf(w) + 1 /\ r.asked = request[w].asked
      /\ r.barred = request[w].barred /\ r.market = market
  BY <1>1, OneStepOn DEF StepOf
<1>3. /\ request' = [request EXCEPT ![w] = r] /\ AtStep(w) /\ Current(w) \notin Row
      /\ Passes(request[w], Current(w)) /\ UNCHANGED <<data, time>>
  BY DEF Check, Forward
<1> HIDE DEF r
<1>4. \A v \in Worker : request'[v] = IF v = w THEN r ELSE request[v]
  BY <1>3, SMT DEF EntryInv, Inv, RequestsOK
<1>5. UNCHANGED <<restriction, application, market, time>>
  BY <1>3 DEF data
<1>6. BarsKnown'
  BY <1>2, <1>4, <1>5 DEF EntryInv, BarsKnown
<1> DEFINE Free ==
      /\ request[w].market = "PUBLISHED"
      /\ ~is_restricted(AccountOf(w))
<1>7. Checked(w)' => Free
  <2>1. \/ Operation(w) = "submit" /\ Current(w) = "open"
        \/ Operation(w) = "approve" /\ StepOf(w) = 2
        \/ Operation(w) = "approve" /\ Current(w) = "approvable"
        \/ Operation(w) = "acquire_hold" /\ Current(w) = "eligible"
        \/ Operation(w) = "create_restriction"
    BY <1>3, AtCheck DEF EntryInv, Inv
  <2>2. CASE Operation(w) = "submit" /\ Current(w) = "open"
    <3>1. SubmitCheck(request[w])
      BY <1>3, <2>2 DEF Passes
    <3> QED
      BY <2>2, <3>1 DEF SubmitCheck, intake_open, AccountOf
  <2>3. CASE Operation(w) = "approve" /\ StepOf(w) = 2
    BY <1>2, <1>4, <2>3, SMT DEF Checked, Doing, StepOf, Operation
  <2>4. CASE Operation(w) = "approve" /\ Current(w) = "approvable"
    <3>1. check_approvable(request[w])
      BY <1>3, <2>4 DEF Passes
    <3> QED
      BY <2>4, <3>1 DEF check_approvable, AccountOf
  <2>5. CASE Operation(w) = "acquire_hold" /\ Current(w) = "eligible"
    <3>1. HoldCheck(request[w])
      BY <1>3, <2>5 DEF Passes
    <3> QED
      BY <2>5, <3>1 DEF HoldCheck, AccountOf
  <2>6. CASE Operation(w) = "create_restriction"
    BY <1>2, <1>4, <2>6 DEF Checked, Doing, Operation
  <2> QED
    BY <2>1, <2>2, <2>3, <2>4, <2>5, <2>6
<1>8. BarsKept'
  <2> SUFFICES ASSUME NEW v \in Worker, Checked(v)'
               PROVE  /\ "ARCHIVED" \notin request'[v].barred
                      /\ \A i \in Restriction \cap request'[v].barred :
                           effective(restriction[i])' =>
                             restriction'[i].target \notin {Vendor, AccountOf(v)'}
    BY DEF BarsKept
  <2>1. \A i \in Restriction : effective(restriction[i])' <=> effective(restriction[i])
    BY <1>5 DEF effective
  <2>2. CASE v = w
    <3>1. request'[v].barred = request[w].barred /\ AccountOf(v)' = AccountOf(w)
      BY <1>2, <1>4, <1>5, <2>2 DEF AccountOf, Operation
    <3>2. "ARCHIVED" \notin request[w].barred
      BY <1>7, <2>2 DEF EntryInv, BarsKnown
    <3> QED
      BY <1>5, <1>7, <2>1, <2>2, <3>1, <3>2 DEF is_restricted
  <2>3. CASE v # w
    <3>1. request'[v] = request[v]
      BY <1>4, <2>3
    <3>2. Checked(v) /\ AccountOf(v)' = AccountOf(v)
      BY <1>5, <3>1 DEF Checked, Doing, StepOf, Operation, AccountOf
    <3> QED
      BY <1>5, <2>1, <3>1, <3>2 DEF EntryInv, BarsKept
  <2> QED
    BY <2>2, <2>3
<1> QED
  BY <1>6, <1>8

\* Whatever commits leaves what stood against the other requests.
LEMMA BarsCommit ==
  ASSUME EntryInv, NEW w \in Worker, Commit(w)
  PROVE  BarsKnown' /\ BarsKept'
<1>1. /\ request' = [request EXCEPT ![w] = Idle] /\ time' = time /\ Effect(request[w])
      /\ Inv
  BY Committing DEF EntryInv
<1>2. \A v \in Worker : request'[v] = request[v] \/ request'[v] = Idle
  BY <1>1, EndKeeps DEF EntryInv, Inv, RequestsOK
<1>3. market = "ARCHIVED" => market' = "ARCHIVED"
  BY <1>1 DEF Effect, archive_market, update_occurrence, cancel_occurrence, configure_intake,
     submit, Decide, acquire_hold, create_restriction, revoke_restriction
<1>4. application'.by = application.by \/ application.status = "NONE"
  <2>1. CASE Operation(w) = "submit"
    BY <1>1, <2>1, Committing
  <2>2. CASE \E status : Decide(status)
    <3>1. PICK status : application' = [application EXCEPT !.status = status]
      BY <2>2 DEF Decide
    <3> DEFINE Applications ==
                 [status : {"NONE", "SUBMITTED", "APPROVED", "REJECTED", "WITHDRAWN"},
                  by : Account \cup {Nobody}, questions : Question \cup {Nobody},
                  answered : Question \cup {Nobody}]
    <3>2. \A a \in Applications : [a EXCEPT !.status = status].by = a.by
      BY Zenon
    <3> QED
      BY <1>1, <3>1, <3>2 DEF Inv, DataTypeOK
  <2>3. CASE application' = application
    BY <2>3
  <2>4. request[w].asked.op = Operation(w)
    BY DEF Operation
  <2> QED
    BY <1>1, <2>1, <2>2, <2>3, <2>4 DEF Effect, archive_market, update_occurrence,
       cancel_occurrence, configure_intake, acquire_hold, create_restriction, revoke_restriction
<1>5. \A i \in Restriction : restriction[i].target # Nobody =>
        /\ restriction'[i].target = restriction[i].target
        /\ effective(restriction[i])' => effective(restriction[i])
  <2>1. CASE restriction' = restriction
    BY <1>1, <2>1 DEF effective
  <2>2. CASE create_restriction(request[w].asked.id, request[w].asked.target,
                                request[w].asked.expires)
    <3> DEFINE id == request[w].asked.id
               new == [target |-> request[w].asked.target, expires |-> request[w].asked.expires,
                       revoked |-> FALSE]
    <3>1. restriction[id].target = Nobody /\ restriction' = [restriction EXCEPT ![id] = new]
      BY <2>2 DEF create_restriction, NoRestriction
    <3> HIDE DEF id, new
    <3>2. \A i \in Restriction : i # id => restriction'[i] = restriction[i]
      BY <1>1, <3>1 DEF Inv, DataTypeOK
    <3> QED
      BY <1>1, <3>1, <3>2 DEF effective
  <2>3. CASE revoke_restriction(request[w].asked.id)
    <3> DEFINE id == request[w].asked.id
               new == [restriction[id] EXCEPT !.revoked = TRUE]
    <3>1. restriction' = [restriction EXCEPT ![id] = new]
      BY <2>3 DEF revoke_restriction
    <3>2. \A row \in RestrictionRow :
            /\ [row EXCEPT !.revoked = TRUE].target = row.target
            /\ [row EXCEPT !.revoked = TRUE].revoked
      BY Zenon DEF RestrictionRow
    <3>3. id \in Restriction => new.target = restriction[id].target /\ new.revoked
      BY <1>1, <3>2 DEF Inv, DataTypeOK
    <3> HIDE DEF id, new
    <3>4. \A i \in Restriction : restriction'[i] = IF i = id THEN new ELSE restriction[i]
      BY <1>1, <3>1 DEF Inv, DataTypeOK
    <3> QED
      BY <1>1, <3>3, <3>4 DEF effective
  <2> QED
    BY <1>1, <2>1, <2>2, <2>3 DEF Effect, archive_market, update_occurrence, cancel_occurrence,
       configure_intake, submit, Decide, acquire_hold
<1> QED
  BY <1>2, <1>3, <1>4, <1>5, BarsStay

\* Every step keeps it.
LEMMA EntryInvStep == EntryInv /\ [Next]_vars => EntryInv'
<1> SUFFICES ASSUME EntryInv, [Next]_vars PROVE EntryInv'
  OBVIOUS
<1>1. Inv'
  BY InvStep DEF EntryInv
<1>2. CASE PassTime \/ LoadForm \/ UNCHANGED vars
  <2>1. UNCHANGED <<request, restriction, market, application>>
    BY <1>2 DEF PassTime, LoadForm, vars, data
  <2>2. \A i \in Restriction : effective(restriction[i])' => effective(restriction[i])
    <3>1. time \in Nat /\ (time' = time \/ time' = time + 1)
      BY <1>2 DEF PassTime, LoadForm, vars, EntryInv, Inv, DataTypeOK
    <3>2. ASSUME NEW i \in Restriction, effective(restriction[i])'
          PROVE  effective(restriction[i])
      <4>1. restriction[i].expires \in Nat
        BY SMT DEF EntryInv, Inv, DataTypeOK, RestrictionRow
      <4>2. restriction[i].expires > time'
        BY <2>1, <3>2 DEF effective
      <4>3. restriction[i].expires > time
        BY <3>1, <4>1, <4>2, SMT
      <4> QED
        BY <2>1, <3>2, <4>3 DEF effective
    <3> QED
      BY <3>2
  <2>3. BarsKnown' /\ BarsKept'
    BY <2>1, <2>2, BarsStay
  <2> QED
    BY <1>1, <2>3 DEF EntryInv
<1>3. ASSUME NEW w \in Worker, Abort(w) PROVE EntryInv'
  <2>1. request' = [request EXCEPT ![w] = Idle] /\ UNCHANGED <<data, time>>
    BY <1>3 DEF Abort
  <2>2. \A v \in Worker : request'[v] = request[v] \/ request'[v] = Idle
    BY <2>1, EndKeeps DEF EntryInv, Inv, RequestsOK
  <2>3. UNCHANGED <<restriction, market, application, time>>
    BY <2>1 DEF data
  <2>4. BarsKnown' /\ BarsKept'
    BY <2>2, <2>3, BarsStay DEF effective
  <2> QED
    BY <1>1, <2>4 DEF EntryInv
<1> QED
  BY <1>1, <1>2, <1>3, BarsBegin, BarsLock, BarsCheck, BarsCommit DEF Next, EntryInv

\* Nobody applies, is approved or takes a stall on a cancelled date, nor
\* against a restriction or an archiving that stood when the request began
\* and still stands: the eligibility checks of applications/services.py and
\* reservations/services.py, which read rows they do not lock.
THEOREM EntriesAllowed == Spec => EntriesAreAllowed
<1>1. Init => EntryInv
  <2>1. Init => Inv
    BY InvStart
  <2>2. ASSUME Init PROVE BarsKnown /\ BarsKept
    BY <2>2 DEF Init, BarsKnown, BarsKept, Checked, Doing, Idle
  <2> QED
    BY <2>1, <2>2 DEF EntryInv
<1>2. ASSUME EntryInv, [Next]_vars, Enters
      PROVE  /\ date.status = "SCHEDULED"
             /\ \A w \in Worker :
                  request[w] # Idle /\ request'[w] = Idle =>
                    \A i \in Bars \cap request[w].barred :
                      /\ i # "ARCHIVED"
                      /\ i \in Restriction =>
                           restriction[i].target \notin
                             {Vendor, IF Operation(w) = "approve" THEN application.by
                                        ELSE request[w].asked.account}
  <2>1. PICK v \in Worker : Commit(v)
    BY <1>2 DEF Enters, Next, Begin, GetLock, Check, Abort, LoadForm, PassTime, vars, data
  <2>2. /\ request' = [request EXCEPT ![v] = Idle] /\ Effect(request[v])
        /\ request[v].asked.op = Operation(v) /\ Inv /\ request[v] # Idle
    BY <1>2, <2>1, Committing DEF EntryInv, Commit
  <2>3. Operation(v) \in {"submit", "approve", "acquire_hold"}
    <3>1. ASSUME NEW status \in {"WITHDRAWN", "REJECTED"}, Decide(status)
          PROVE  FALSE
      <4>1. application' = [application EXCEPT !.status = status] /\ taken' = taken
        BY <3>1 DEF Decide
      <4> DEFINE Applications ==
                 [status : {"NONE", "SUBMITTED", "APPROVED", "REJECTED", "WITHDRAWN"},
                  by : Account \cup {Nobody}, questions : Question \cup {Nobody},
                  answered : Question \cup {Nobody}]
      <4>2. \A a \in Applications : [a EXCEPT !.status = status].status = status
        BY Zenon
      <4>3. application'.status = status
        BY <2>2, <4>1, <4>2 DEF Inv, DataTypeOK
      <4> QED
        BY <1>2, <4>1, <4>3 DEF Enters
    <3>2. CASE UNCHANGED <<history, taken>>
      BY <1>2, <3>2 DEF Enters
    <3> QED
      BY <2>2, <3>1, <3>2 DEF Effect, archive_market, update_occurrence, cancel_occurrence,
         configure_intake, create_restriction, revoke_restriction
  <2>4. Doing(v, Operation(v)) /\ Checked(v)
    <3>1. /\ Operation(v) = "submit" => StepOf(v) > 3
          /\ Operation(v) = "acquire_hold" => StepOf(v) > 2
          /\ Operation(v) = "approve" => StepOf(v) > 4
      BY <2>1, <2>2, AtCommit, SMT DEF Inv, Commit
    <3> QED
      BY <2>2, <2>3, <3>1 DEF Doing, Checked
  <2>5. date.status = "SCHEDULED"
    BY <2>2, <2>4 DEF Checked, Inv, ChecksHold
  <2>6. \A i \in Bars \cap request[v].barred :
          /\ i # "ARCHIVED"
          /\ i \in Restriction => restriction[i].target \notin {Vendor, AccountOf(v)}
    BY <1>2, <2>4 DEF EntryInv, BarsKept, Bars
  <2>7. \A w \in Worker : request[w] # Idle /\ request'[w] = Idle => w = v
    BY <2>2, EndKeeps
  <2> QED
    BY <2>5, <2>6, <2>7 DEF AccountOf
<1>3. EntryInv /\ [Next]_vars => [Enters =>
        /\ date.status = "SCHEDULED"
        /\ \A w \in Worker :
             request[w] # Idle /\ request'[w] = Idle =>
               \A i \in Bars \cap request[w].barred :
                 /\ i # "ARCHIVED"
                 /\ i \in Restriction =>
                      restriction[i].target \notin
                        {Vendor, IF Operation(w) = "approve" THEN application.by
                                   ELSE request[w].asked.account}]_vars
  BY <1>2
<1> QED
  BY <1>1, <1>3, EntryInvStep, PTL DEF Spec, EntriesAreAllowed
=============================================================================
