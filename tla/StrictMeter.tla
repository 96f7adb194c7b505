---------------------------- MODULE StrictMeter -----------------------------
(***************************************************************************)
(* What a strict budget promises, without its policy: one request at a     *)
(* time holds the meter, every request leaves it at most once, either      *)
(* charged or released, and the totals are moved by those charges and by   *)
(* nothing else.  TokenBudget implements this specification.               *)
(***************************************************************************)
EXTENDS Naturals

CONSTANTS
  Requests,   \* the requests that may be metered
  Nobody,     \* not a request
  Amounts     \* [tokens, fee] a request may be charged

VARIABLES
  holder,    \* the request that holds the meter, or Nobody
  outcome,   \* open, released, or charged at an amount
  total      \* the sum of the charges

Open == [kind |-> "open", tokens |-> 0, fee |-> 0]
Released == [kind |-> "released", tokens |-> 0, fee |-> 0]
Charged(a) == [kind |-> "charged", tokens |-> a.tokens, fee |-> a.fee]

Init ==
  /\ holder = Nobody
  /\ outcome = [r \in Requests |-> Open]
  /\ total = [tokens |-> 0, fee |-> 0]

Take(r) ==
  /\ holder = Nobody /\ outcome[r] = Open
  /\ holder' = r
  /\ UNCHANGED <<outcome, total>>

Release(r) ==
  /\ holder = r
  /\ holder' = Nobody
  /\ outcome' = [outcome EXCEPT ![r] = Released]
  /\ UNCHANGED total

Charge(r, a) ==
  /\ holder = r
  /\ holder' = Nobody
  /\ outcome' = [outcome EXCEPT ![r] = Charged(a)]
  /\ total' = [tokens |-> total.tokens + a.tokens, fee |-> total.fee + a.fee]

Next ==
  \E r \in Requests :
    Take(r) \/ Release(r) \/ \E a \in Amounts : Charge(r, a)

Spec == Init /\ [][Next]_<<holder, outcome, total>>
=============================================================================
