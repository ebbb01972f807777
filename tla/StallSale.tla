----------------------------- MODULE StallSale ------------------------------
(***************************************************************************)
(* What paying for a stall promises, without rows, sessions or workers:    *)
(* what becomes of each sale (a reservation as its members are shown it)   *)
(* and of the money of each payment made for it.  Checkout implements it.  *)
(***************************************************************************)
EXTENDS Integers

CONSTANTS Sale, Payment, NoSale

ASSUME SaleAssumption == NoSale \notin Sale

VARIABLES
  stall,   \* per sale: "none", "held", "paying", "sold" or "over"
  of,      \* the sale a payment was started for
  money    \* per payment: "none", "taken", "kept", "owed" or "returned"

saleVars == <<stall, of, money>>

PaymentsOf(s) == {p \in Payment : of[p] = s}

Init ==
  /\ stall = [s \in Sale |-> "none"]
  /\ of = [p \in Payment |-> NoSale]
  /\ money = [p \in Payment |-> "none"]

Hold(s) ==
  /\ stall[s] = "none"
  /\ stall' = [stall EXCEPT ![s] = "held"]
  /\ UNCHANGED <<of, money>>

\* Holds lapse, several at once when their time is up, or are released.
Lapse(S) ==
  /\ \A s \in S : stall[s] = "held"
  /\ stall' = [s \in Sale |-> IF s \in S THEN "over" ELSE stall[s]]
  /\ UNCHANGED <<of, money>>

BeginPaying(s, p) ==
  /\ stall[s] = "held"
  /\ of[p] = NoSale
  /\ stall' = [stall EXCEPT ![s] = "paying"]
  /\ of' = [of EXCEPT ![p] = s]
  /\ UNCHANGED money

\* Money is only ever taken for a stall that is kept for its payer, and once.
Charge(s, p) ==
  /\ of[p] = s
  /\ stall[s] = "paying"
  /\ \A q \in PaymentsOf(s) : money[q] # "taken"
  /\ money[p] = "none"
  /\ money' = [money EXCEPT ![p] = "taken"]
  /\ UNCHANGED <<stall, of>>

\* Mutant: the stall is given up although its money was taken.
StopPaying_Charged(s) ==
  /\ stall[s] = "paying"
  /\ \E next \in {"held", "over"} : stall' = [stall EXCEPT ![s] = next]
  /\ UNCHANGED <<of, money>>

\* The payer gave up, or time ran out; not once money is taken.
StopPaying(s) ==
  /\ stall[s] = "paying"
  /\ \A q \in PaymentsOf(s) : money[q] # "taken"
  /\ \E next \in {"held", "over"} : stall' = [stall EXCEPT ![s] = next]
  /\ UNCHANGED <<of, money>>

\* Selling the stall and keeping the money is one step.
Sell(s, p) ==
  /\ of[p] = s
  /\ stall[s] = "paying"
  /\ money[p] = "taken"
  /\ stall' = [stall EXCEPT ![s] = "sold"]
  /\ money' = [money EXCEPT ![p] = "kept"]
  /\ UNCHANGED of

\* So is giving the stall up and owing the money.
Fall(s, p) ==
  /\ of[p] = s
  /\ stall[s] = "paying"
  /\ money[p] = "taken"
  /\ stall' = [stall EXCEPT ![s] = "over"]
  /\ money' = [money EXCEPT ![p] = "owed"]
  /\ UNCHANGED of

GiveBack(p) ==
  /\ money[p] = "owed"
  /\ money' = [money EXCEPT ![p] = "returned"]
  /\ UNCHANGED <<stall, of>>

SellFree(s) ==
  /\ stall[s] = "held"
  /\ PaymentsOf(s) = {}
  /\ stall' = [stall EXCEPT ![s] = "sold"]
  /\ UNCHANGED <<of, money>>

Next ==
  \/ \E S \in SUBSET Sale : Lapse(S)
  \/ \E s \in Sale :
       \/ Hold(s) \/ StopPaying(s) \/ SellFree(s)
       \/ \E p \in Payment : BeginPaying(s, p) \/ Charge(s, p) \/ Sell(s, p) \/ Fall(s, p)
  \/ \E p \in Payment : GiveBack(p)

Spec == Init /\ [][Next]_saleVars

-----------------------------------------------------------------------------
(* Properties *)

\* Every variable has its type.
TypeOK ==
  /\ stall \in [Sale -> {"none", "held", "paying", "sold", "over"}]
  /\ of \in [Payment -> Sale \cup {NoSale}]
  /\ money \in [Payment -> {"none", "taken", "kept", "owed", "returned"}]

\* Money is kept only for a stall that was sold, and taken but undecided only
\* while the stall is kept for its payer: nobody pays for nothing.
MoneyBuysStalls ==
  \A p \in Payment :
    /\ money[p] = "kept" => of[p] \in Sale /\ stall[of[p]] = "sold"
    /\ money[p] = "taken" => of[p] \in Sale /\ stall[of[p]] = "paying"

\* A sale never holds the money of two payments.
PaidOnce ==
  \A p, q \in Payment :
    /\ of[p] = of[q]
    /\ money[p] \in {"taken", "kept"}
    /\ money[q] \in {"taken", "kept"}
    => p = q
=============================================================================
