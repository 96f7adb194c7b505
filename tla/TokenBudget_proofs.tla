------------------------- MODULE TokenBudget_proofs -------------------------
(***************************************************************************)
(* Proofs about TokenBudget for every set of requests, administrators and  *)
(* reviewers and all bounds, usages, fees and policies.  Only seven        *)
(* transactions write the two tables, so the argument is made once for     *)
(* each of them (TablesInv), and the actors' invariants then need only the *)
(* state change that a transaction makes (Moves).                          *)
(***************************************************************************)
EXTENDS TokenBudget, TLAPS

CallStates == {"sent", "usage_unknown", "settled"}

(* A reservation is at its bound, and only a final row has a reviewer.     *)
RowShape ==
  \A r \in Requests :
    /\ row[r].state # "none" => row[r].reserved = Bound(row[r].bound)
    /\ row[r].state \notin Final => row[r].reviewedBy = Nobody

TablesInv ==
  /\ budget \in BudgetRow
  /\ row \in [Requests -> ReservationRow]
  /\ PendingAgreement
  /\ RowShape

(* One row changes its state and the budget gets its next revision.        *)
Moves(r, from, to) ==
  /\ row[r].state \in from /\ row'[r].state = to
  /\ row' = [row EXCEPT ![r] = row'[r]]
  /\ budget'.revision = budget.revision + 1

(* What a request's goroutine may rely on: pc is its position, n its       *)
(* faults, l its lost transactions, c whether it has called the upstream,  *)
(* st its row's state.  Without a fault nothing is left to commit late,    *)
(* and only a row that does not exist can become prepared.                 *)
RelayOK(pc, n, l, c, st) ==
  /\ n = 0 => l = {}
  /\ pc = "sending" \/ c => st \in CallStates
  /\ pc = "cancel" => st # "none"
  /\ pc = "lastHold" /\ n = 0 => st \notin {"none", "prepared"}
  /\ pc = "released" /\ c => st = "settled"
  /\ pc \in {"held", "released"} /\ n = 0 => st \notin {"prepared", "sent"}

RelayKnows ==
  \A r \in Requests : RelayOK(relay[r].pc, relay[r].faults, late[r], called[r], row[r].state)

(* A decision is about a frozen request, and agrees with its settlement.   *)
DecisionAgrees ==
  \A r \in Requests :
    decision[r].by # Nobody =>
      /\ row[r].state \in {"usage_unknown", "settled"}
      /\ row[r].state = "settled" => row[r].actual = decision[r].usage

(* A reviewer about to decide has frozen the request, or confirms amounts  *)
(* it was settled at; only another decision can settle it meanwhile.       *)
ReviewKnows ==
  \A v \in Reviewers : review[v].pc # "idle" =>
    LET r == review[v].req
    IN /\ r \in Requests
       /\ review[v].pc = "decide" =>
            /\ row[r].state \in {"usage_unknown", "settled"}
            /\ row[r].state = "settled" /\ decision[r].by = Nobody
                 => row[r].actual = review[v].usage

(* What an administrator has read is not newer than the budget, and is the *)
(* budget if it is not older.                                              *)
DraftCurrent ==
  \A a \in Admins : draft[a].open =>
    /\ draft[a].seen.revision <= budget.revision
    /\ draft[a].seen.revision = budget.revision => draft[a].seen = budget

BudgetInv ==
  /\ TypeOK
  /\ TablesInv
  /\ RelayKnows
  /\ DecisionAgrees
  /\ ReviewKnows
  /\ DraftCurrent

(* Usages and bounds are numbers.                                          *)
LEMMA Amounts ==
  /\ Nobody \notin Requests
  /\ \A b \in Bounds : b \in BoundType
  /\ \A b \in BoundType : Bound(b) \in Nat
  /\ \A u \in Usages : u \in Usage
  /\ \A f \in Fees : f \in Nat
<1>1. \A b \in BoundType : Bound(b) \in Nat
  BY TokenBudgetAssumption DEF Bound, BoundType
<1>2. QED BY <1>1, TokenBudgetAssumption

LEMMA MeteredType ==
  ASSUME NEW r \in Requests, NEW u \in Usage
  PROVE  Metered(r, u) \in Usage
BY DEF Metered, Usage

(* The two forms of the next budget row.                                   *)
LEMMA NextBudget ==
  ASSUME budget \in BudgetRow
  PROVE  /\ Revised \in BudgetRow /\ Freed \in BudgetRow
         /\ Revised.revision = budget.revision + 1 /\ Freed.revision = budget.revision + 1
<1>1. Revised \in BudgetRow /\ Revised.revision = budget.revision + 1
  BY DEF BudgetRow, Revised
<1>2. QED BY <1>1 DEF BudgetRow, Freed

LEMMA ReserveTables ==
  ASSUME TablesInv, NEW r \in Requests, ReserveTokenBudget(r)
  PROVE  TablesInv' /\ Moves(r, {"none"}, "prepared")
<1>1. PICK b \in Bounds, f \in IF budget.feeEnabled THEN Fees ELSE {0} :
        /\ row' = [row EXCEPT ![r] = [NoRow EXCEPT !.state = "prepared", !.bound = b,
                                       !.reserved = Bound(b), !.fee = budget.feeEnabled,
                                       !.feeReserved = f]]
        /\ budget' = [Revised EXCEPT !.pending = r, !.reserved = Bound(b), !.feeReserved = f]
  BY DEF ReserveTokenBudget
<1>2. b \in BoundType /\ Bound(b) \in Nat /\ f \in Nat /\ Nobody \notin Requests
  BY Amounts
<1>3. budget' \in BudgetRow
  BY <1>1, <1>2, NextBudget DEF TablesInv, BudgetRow
<1>4. row'[r] \in ReservationRow
  BY <1>1, <1>2 DEF TablesInv, ReservationRow, NoRow, NoUsage, Usage, Unresolved, BudgetRow
<1>5. row' \in [Requests -> ReservationRow]
  BY <1>1, <1>4 DEF TablesInv
<1>6. Moves(r, {"none"}, "prepared")
  BY <1>1 DEF Moves, ReserveTokenBudget, TablesInv, NoRow, Revised, BudgetRow
<1>7. PendingAgreement'
  BY <1>1, <1>2 DEF PendingAgreement, TablesInv, ReserveTokenBudget, Owned, Unresolved, NoRow,
                    Revised, BudgetRow
<1>8. RowShape'
  BY <1>1 DEF RowShape, TablesInv, Final, NoRow
<1>9. QED BY <1>3, <1>5, <1>6, <1>7, <1>8 DEF TablesInv

(* A row changes within the unresolved states and keeps its reservation.   *)
LEMMA StayTables ==
  ASSUME TablesInv, NEW r \in Requests, NEW from \in SUBSET Unresolved, NEW to \in Unresolved,
         row[r].state \in from, row' = [row EXCEPT ![r].state = to], budget' = Revised
  PROVE  TablesInv' /\ Moves(r, from, to)
<1>1. budget' \in BudgetRow /\ budget'.revision = budget.revision + 1
  BY NextBudget DEF TablesInv
<1>2. row' \in [Requests -> ReservationRow]
  BY DEF TablesInv, ReservationRow, Unresolved
<1>3. Moves(r, from, to)
  BY <1>1 DEF Moves, TablesInv, ReservationRow
<1>4. PendingAgreement'
  BY DEF PendingAgreement, TablesInv, Owned, Revised, ReservationRow, BudgetRow
<1>5. RowShape'
  BY DEF RowShape, TablesInv, Final, Unresolved, ReservationRow
<1>6. QED BY <1>1, <1>2, <1>3, <1>4, <1>5 DEF TablesInv

(* A row that the budget owns becomes final and frees the budget.          *)
LEMMA CloseTables ==
  ASSUME TablesInv, NEW r \in Requests, NEW from \in SUBSET Unresolved, NEW to \in Final,
         Owned(r), row[r].state \in from,
         NEW w \in ReservationRow, row' = [row EXCEPT ![r] = w],
         w.state = to, w.reserved = row[r].reserved, w.bound = row[r].bound,
         budget' \in BudgetRow, budget'.revision = budget.revision + 1,
         budget'.pending = Nobody, budget'.reserved = 0, budget'.feeReserved = 0
  PROVE  TablesInv' /\ Moves(r, from, to)
<1>1. row' \in [Requests -> ReservationRow]
  BY DEF TablesInv
<1>2. Moves(r, from, to)
  BY DEF Moves, TablesInv
<1>3. PendingAgreement'
  <2>1. ASSUME NEW s \in Requests PROVE row'[s].state \notin Unresolved
    BY DEF TablesInv, PendingAgreement, Owned, Unresolved, Final
  <2>2. QED BY <2>1, Amounts DEF PendingAgreement
<1>4. RowShape'
  BY DEF RowShape, TablesInv, Final, Unresolved
<1>5. QED BY <1>1, <1>2, <1>3, <1>4 DEF TablesInv

LEMMA SendTables ==
  ASSUME TablesInv, NEW r \in Requests, Send(r)
  PROVE  TablesInv' /\ Moves(r, {"prepared"}, "sent")
BY StayTables DEF Send, Unresolved

LEMMA HoldTables ==
  ASSUME TablesInv, NEW r \in Requests, Hold(r)
  PROVE  TablesInv' /\ Moves(r, {"sent"}, "usage_unknown")
BY StayTables DEF Hold, Unresolved

LEMMA CancelTables ==
  ASSUME TablesInv, NEW r \in Requests, NEW by \in Reviewers \cup {Nobody}, Cancel(r, by)
  PROVE  TablesInv' /\ Moves(r, {"prepared"}, "not_sent")
<1> DEFINE w == [row[r] EXCEPT !.state = "not_sent", !.reviewedBy = by]
<1>1. w \in ReservationRow /\ w.state = "not_sent" /\ w.reserved = row[r].reserved
      /\ w.bound = row[r].bound
  BY DEF TablesInv, ReservationRow, Final
<1>2. row' = [row EXCEPT ![r] = w]
  BY DEF Cancel, TablesInv
<1>3. /\ budget' \in BudgetRow /\ budget'.revision = budget.revision + 1
      /\ budget'.pending = Nobody /\ budget'.reserved = 0 /\ budget'.feeReserved = 0
  BY NextBudget DEF Cancel, TablesInv, Freed, BudgetRow, Revised
<1>4. Owned(r) /\ row[r].state \in {"prepared"} /\ "not_sent" \in Final
      /\ {"prepared"} \in SUBSET Unresolved
  BY DEF Cancel, Final, Unresolved
<1> HIDE DEF w
<1>5. QED BY <1>1, <1>2, <1>3, <1>4, CloseTables

LEMMA ChargeTables ==
  ASSUME TablesInv, NEW r \in Requests, NEW u \in Usage, NEW by \in Reviewers \cup {Nobody},
         NEW from \in SUBSET Unresolved, Owned(r), row[r].state \in from, Charge(r, u, by)
  PROVE  TablesInv' /\ Moves(r, from, "settled")
<1> DEFINE w == [row[r] EXCEPT !.state = "settled", !.actual = u, !.reviewedBy = by]
<1>1. w \in ReservationRow /\ w.state = "settled" /\ w.reserved = row[r].reserved
      /\ w.bound = row[r].bound
  BY DEF TablesInv, ReservationRow, Final
<1>2. row' = [row EXCEPT ![r] = w]
  BY DEF Charge, TablesInv
<1>3. /\ budget' \in BudgetRow /\ budget'.revision = budget.revision + 1
      /\ budget'.pending = Nobody /\ budget'.reserved = 0 /\ budget'.feeReserved = 0
  <2>1. /\ Freed \in BudgetRow /\ Freed.revision = budget.revision + 1
        /\ Freed.pending = Nobody /\ Freed.reserved = 0 /\ Freed.feeReserved = 0
    BY NextBudget DEF TablesInv, Freed, BudgetRow, Revised
  <2>2. u.input \in Nat /\ u.output \in Nat /\ u.fee \in Nat
    BY DEF Usage
  <2>3. Freed.used + u.input + u.output \in Nat /\ Freed.feeUsed + u.fee \in Nat
    BY <2>1, <2>2 DEF BudgetRow
  <2>4. budget' = [Freed EXCEPT !.used = Freed.used + u.input + u.output,
                                !.feeUsed = Freed.feeUsed + u.fee]
    BY DEF Charge
  <2> HIDE DEF Freed
  <2>5. QED BY <2>1, <2>3, <2>4 DEF BudgetRow
<1>4. "settled" \in Final
  BY DEF Final
<1> HIDE DEF w
<1>5. QED BY <1>1, <1>2, <1>3, <1>4, CloseTables

LEMMA SettleTables ==
  ASSUME TablesInv, NEW r \in Requests, NEW u \in Usage, Settle(r, u)
  PROVE  TablesInv' /\ \E to \in {"settled", "usage_unknown"} : Moves(r, {"sent"}, to)
<1>1. CASE WithinBound(row[r].bound, u) /\ u.fee <= row[r].feeReserved
  BY <1>1, ChargeTables DEF Settle, Unresolved
<1>2. CASE ~(WithinBound(row[r].bound, u) /\ u.fee <= row[r].feeReserved)
  BY <1>2, StayTables DEF Settle, Unresolved
<1>3. QED BY <1>1, <1>2

LEMMA ReconcileTables ==
  ASSUME TablesInv, NEW r \in Requests, NEW u \in Usage, NEW by \in Reviewers \cup {Nobody},
         Reconcile(r, u, by)
  PROVE  TablesInv' /\ Moves(r, {"sent", "usage_unknown"}, "settled")
BY ChargeTables DEF Reconcile, Unresolved

(* The state changes that the transactions of one request can make.        *)
Transition(r) ==
  \/ UNCHANGED <<budget, row>>
  \/ Moves(r, {"none"}, "prepared")
  \/ Moves(r, {"prepared"}, "sent")
  \/ Moves(r, {"prepared"}, "not_sent")
  \/ Moves(r, {"sent"}, "usage_unknown")
  \/ Moves(r, {"sent"}, "settled")
  \/ /\ Moves(r, {"sent", "usage_unknown"}, "settled")
     /\ decision[r].by # Nobody /\ row'[r].actual = decision[r].usage

(* No transition of a request disturbs the administrators and reviewers.   *)
LEMMA ActorsKeep ==
  ASSUME BudgetInv, NEW r \in Requests, TablesInv', Transition(r), UNCHANGED actors
  PROVE  (DecisionAgrees /\ ReviewKnows /\ DraftCurrent)'
<1>1. DraftCurrent'
  <2>1. budget' = budget \/ budget'.revision = budget.revision + 1
    BY DEF Transition, Moves
  <2>2. SUFFICES ASSUME NEW a \in Admins, draft[a].open
                 PROVE  /\ draft[a].seen.revision <= budget'.revision
                        /\ draft[a].seen.revision = budget'.revision => draft[a].seen = budget'
    BY DEF DraftCurrent, actors
  <2>3. draft[a].seen.revision \in Nat /\ budget.revision \in Nat
    BY DEF BudgetInv, TypeOK, BudgetRow
  <2>4. QED BY <2>1, <2>2, <2>3 DEF BudgetInv, DraftCurrent
<1>2. DecisionAgrees'
  <2>1. SUFFICES ASSUME NEW s \in Requests, decision[s].by # Nobody
                 PROVE  /\ row'[s].state \in {"usage_unknown", "settled"}
                        /\ row'[s].state = "settled" => row'[s].actual = decision[s].usage
    BY DEF DecisionAgrees, actors
  <2>2. /\ row[s].state \in {"usage_unknown", "settled"}
        /\ row[s].state = "settled" => row[s].actual = decision[s].usage
    BY <2>1 DEF BudgetInv, DecisionAgrees
  <2>3. CASE row'[s] = row[s]
    BY <2>2, <2>3
  <2>4. CASE row'[s] # row[s]
    BY <2>1, <2>2, <2>4 DEF Transition, Moves, BudgetInv, TablesInv
  <2>5. QED BY <2>3, <2>4
<1>3. ReviewKnows'
  <2>1. SUFFICES ASSUME NEW v \in Reviewers, review[v].pc # "idle", NEW s, s = review[v].req
                 PROVE  /\ s \in Requests
                        /\ review[v].pc = "decide" =>
                             /\ row'[s].state \in {"usage_unknown", "settled"}
                             /\ row'[s].state = "settled" /\ decision[s].by = Nobody
                                  => row'[s].actual = review[v].usage
    BY DEF ReviewKnows, actors
  <2>2. /\ s \in Requests
        /\ review[v].pc = "decide" =>
             /\ row[s].state \in {"usage_unknown", "settled"}
             /\ row[s].state = "settled" /\ decision[s].by = Nobody
                  => row[s].actual = review[v].usage
    BY <2>1 DEF BudgetInv, ReviewKnows
  <2>3. CASE row'[s] = row[s]
    BY <2>2, <2>3
  <2>4. CASE row'[s] # row[s]
    BY <2>1, <2>2, <2>4 DEF Transition, Moves, BudgetInv, TablesInv
  <2>5. QED BY <2>3, <2>4
<1>4. QED BY <1>1, <1>2, <1>3

(* A step of one request preserves the invariant if its goroutine may rely *)
(* on the state that the step leaves behind.                               *)
LEMMA RequestStep ==
  ASSUME BudgetInv, NEW r \in Requests, TablesInv', Transition(r), UNCHANGED actors,
         relay' \in [Requests -> Relay], late' \in [Requests -> SUBSET Ops],
         called' \in [Requests -> BOOLEAN],
         \A s \in Requests \ {r} :
           relay'[s] = relay[s] /\ late'[s] = late[s] /\ called'[s] = called[s],
         RelayOK(relay'[r].pc, relay'[r].faults, late'[r], called'[r], row'[r].state)
  PROVE  BudgetInv'
<1>1. TypeOK'
  BY DEF BudgetInv, TypeOK, TablesInv, actors
<1>2. RelayKnows'
  <2>1. SUFFICES ASSUME NEW s \in Requests, s # r
                 PROVE  RelayOK(relay'[s].pc, relay'[s].faults, late'[s], called'[s], row'[s].state)
    BY DEF RelayKnows
  <2>2. row'[s] = row[s]
    BY <2>1 DEF Transition, Moves, BudgetInv, TablesInv
  <2>3. QED BY <2>1, <2>2 DEF BudgetInv, RelayKnows
<1>3. QED BY <1>1, <1>2, ActorsKeep DEF BudgetInv

(* RelayOK survives a transition that is not the reservation, and the      *)
(* reservation when a transaction was lost.                                *)
LEMMA RelayStays ==
  ASSUME BudgetInv, NEW r \in Requests, Transition(r),
         row[r].state = "none" => row'[r].state = "none" \/ late[r] # {},
         NEW l \in SUBSET late[r]
  PROVE  RelayOK(relay[r].pc, relay[r].faults, l, called[r], row'[r].state)
<1>1. RelayOK(relay[r].pc, relay[r].faults, late[r], called[r], row[r].state)
  BY DEF BudgetInv, RelayKnows
<1>2. QED BY <1>1 DEF RelayOK, Transition, Moves, CallStates

(* The goroutine moves to another position.                                *)
LEMMA GoToStep ==
  ASSUME BudgetInv, NEW r \in Requests, TablesInv', Transition(r),
         NEW pc, GoTo(r, pc), \E p \in Relay : p.pc = pc,
         UNCHANGED <<late, called, actors>>,
         RelayOK(pc, relay[r].faults, late[r], called[r], row'[r].state)
  PROVE  BudgetInv'
<1>1. relay' \in [Requests -> Relay]
  BY DEF BudgetInv, TypeOK, GoTo, Relay
<1>2. /\ late' \in [Requests -> SUBSET Ops] /\ called' \in [Requests -> BOOLEAN]
      /\ UNCHANGED actors
  BY DEF BudgetInv, TypeOK
<1>3. \A s \in Requests \ {r} :
        relay'[s] = relay[s] /\ late'[s] = late[s] /\ called'[s] = called[s]
  BY DEF BudgetInv, TypeOK, GoTo
<1>4. relay'[r].pc = pc /\ relay'[r].faults = relay[r].faults
  BY DEF BudgetInv, TypeOK, GoTo, Relay
<1>5. QED BY <1>1, <1>2, <1>3, <1>4, RequestStep

(* A reply is lost.                                                        *)
LEMMA LostStep ==
  ASSUME BudgetInv, NEW r \in Requests, NEW op \in Ops,
         NEW pc \in {"exit", "hold", "lastHold", "held"},
         Lost(r, op, pc), UNCHANGED <<called, actors>>
  PROVE  BudgetInv'
<1>1. relay' \in [Requests -> Relay] /\ relay'[r].pc = pc
      /\ relay'[r].faults = relay[r].faults + 1 /\ relay[r].faults \in Nat
  BY DEF BudgetInv, TypeOK, Lost, Relay
<1>2. /\ late' \in [Requests -> SUBSET Ops] /\ called' \in [Requests -> BOOLEAN]
      /\ UNCHANGED actors
  BY DEF BudgetInv, TypeOK, Lost
<1>3. \A s \in Requests \ {r} :
        relay'[s] = relay[s] /\ late'[s] = late[s] /\ called'[s] = called[s]
  BY DEF BudgetInv, TypeOK, Lost
<1>4. TablesInv' /\ Transition(r) /\ row' = row
  BY DEF BudgetInv, TablesInv, PendingAgreement, RowShape, Owned, Lost, Transition
<1>5. RelayOK(relay[r].pc, relay[r].faults, late[r], called[r], row[r].state)
  BY DEF BudgetInv, RelayKnows
<1>6. RelayOK(relay'[r].pc, relay'[r].faults, late'[r], called'[r], row'[r].state)
  BY <1>1, <1>4, <1>5 DEF RelayOK
<1>7. QED BY <1>1, <1>2, <1>3, <1>4, <1>6, RequestStep

(* The goroutine moves without touching the tables.                        *)
LEMMA QuietStep ==
  ASSUME BudgetInv, NEW r \in Requests, NEW pc, GoTo(r, pc), \E p \in Relay : p.pc = pc,
         UNCHANGED <<budget, row, late, called, actors>>,
         RelayOK(pc, relay[r].faults, late[r], called[r], row[r].state)
  PROVE  BudgetInv'
<1>1. TablesInv' /\ Transition(r) /\ row' = row
  BY DEF BudgetInv, TablesInv, PendingAgreement, RowShape, Owned, Transition
<1>2. QED BY <1>1, GoToStep

(* Every position is one of the type's.                                    *)
LEMMA Positions ==
  ASSUME NEW pc \in {"idle", "admitted", "looked", "reserved", "sending", "called", "settle",
                     "hold", "exit", "cancel", "lastHold", "held", "released", "dead"}
  PROVE  \E p \in Relay : p.pc = pc
<1>1. [pc |-> pc, fee |-> FALSE, faults |-> 0] \in Relay
  BY DEF Relay
<1>2. QED BY <1>1

(* What is known of a request at a position.                               *)
LEMMA AtPosition ==
  ASSUME BudgetInv, NEW r \in Requests, NEW pc, At(r, pc)
  PROVE  RelayOK(pc, relay[r].faults, late[r], called[r], row[r].state)
BY DEF BudgetInv, RelayKnows, At

-----------------------------------------------------------------------------
(* The steps of the goroutine.                                             *)
LEMMA AdmissionInv ==
  ASSUME BudgetInv, NEW r \in Requests,
         CheckTokenBudgetAdmission(r) \/ UpstreamAnswers(r) \/ Crash(r)
  PROVE  BudgetInv'
<1>1. RelayOK(relay[r].pc, relay[r].faults, late[r], called[r], row[r].state)
  BY DEF BudgetInv, RelayKnows
<1>2. \A pc \in {"admitted", "settle", "hold", "exit", "dead"} :
        RelayOK(pc, relay[r].faults, late[r], called[r], row[r].state)
  BY <1>1 DEF RelayOK
<1>3. CASE CheckTokenBudgetAdmission(r)
  BY <1>2, <1>3, QuietStep, Positions DEF CheckTokenBudgetAdmission
<1>4. CASE UpstreamAnswers(r)
  <2>1. PICK pc \in {"settle", "hold", "exit"} : GoTo(r, pc)
    BY <1>4 DEF UpstreamAnswers
  <2>2. QED BY <1>2, <1>4, <2>1, QuietStep, Positions DEF UpstreamAnswers
<1>5. CASE Crash(r)
  BY <1>2, <1>5, QuietStep, Positions DEF Crash
<1>6. QED BY <1>3, <1>4, <1>5

LEMMA LookupInv ==
  ASSUME BudgetInv, NEW r \in Requests, LookupTokenBudget(r)
  PROVE  BudgetInv'
<1>1. /\ relay' \in [Requests -> Relay] /\ relay'[r].pc = "looked"
      /\ relay'[r].faults = relay[r].faults
      /\ \A s \in Requests \ {r} : relay'[s] = relay[s]
  <2>1. PICK f \in BOOLEAN : relay' = [relay EXCEPT ![r].pc = "looked", ![r].fee = f]
    BY DEF BudgetInv, TypeOK, LookupTokenBudget, BudgetRow
  <2>2. QED BY <2>1 DEF BudgetInv, TypeOK, Relay
<1>2. /\ UNCHANGED <<late, called, actors>>
      /\ late' \in [Requests -> SUBSET Ops] /\ called' \in [Requests -> BOOLEAN]
  BY DEF BudgetInv, TypeOK, LookupTokenBudget
<1>3. TablesInv' /\ Transition(r) /\ row' = row
  BY DEF BudgetInv, TablesInv, PendingAgreement, RowShape, Owned, Transition, LookupTokenBudget
<1>4. RelayOK("looked", relay[r].faults, late[r], called[r], row[r].state)
  BY AtPosition DEF LookupTokenBudget, RelayOK
<1>5. QED BY <1>1, <1>2, <1>3, <1>4, RequestStep

LEMMA PrepareInv ==
  ASSUME BudgetInv, NEW r \in Requests, PrepareTokenBudgetDispatch(r)
  PROVE  BudgetInv'
<1>1. RelayOK("looked", relay[r].faults, late[r], called[r], row[r].state)
  BY AtPosition DEF PrepareTokenBudgetDispatch
<1>2. CASE ReserveTokenBudget(r) /\ GoTo(r, "reserved") /\ UNCHANGED late
  <2>1. TablesInv' /\ Moves(r, {"none"}, "prepared")
    BY <1>2, ReserveTables DEF BudgetInv
  <2>2. RelayOK("reserved", relay[r].faults, late[r], called[r], row'[r].state)
    BY <1>1, <2>1 DEF RelayOK, Moves, CallStates
  <2>3. QED BY <1>2, <2>1, <2>2, GoToStep, Positions DEF Transition, PrepareTokenBudgetDispatch
<1>3. CASE Lost(r, "reserve", "exit")
  BY <1>3, LostStep DEF PrepareTokenBudgetDispatch, Ops
<1>4. CASE GoTo(r, "exit") /\ UNCHANGED <<budget, row, late>>
  <2>1. RelayOK("exit", relay[r].faults, late[r], called[r], row[r].state)
    BY <1>1 DEF RelayOK
  <2>2. QED BY <1>4, <2>1, QuietStep, Positions DEF PrepareTokenBudgetDispatch
<1>5. QED BY <1>2, <1>3, <1>4 DEF PrepareTokenBudgetDispatch

LEMMA CommitInv ==
  ASSUME BudgetInv, NEW r \in Requests, CommitTokenBudgetDispatch(r)
  PROVE  BudgetInv'
<1>1. RelayOK("reserved", relay[r].faults, late[r], called[r], row[r].state)
  BY AtPosition DEF CommitTokenBudgetDispatch
<1>2. CASE Send(r) /\ GoTo(r, "sending") /\ UNCHANGED late
  <2>1. TablesInv' /\ Moves(r, {"prepared"}, "sent")
    BY <1>2, SendTables DEF BudgetInv
  <2>2. RelayOK("sending", relay[r].faults, late[r], called[r], row'[r].state)
    BY <1>1, <2>1 DEF RelayOK, Moves, CallStates
  <2>3. QED BY <1>2, <2>1, <2>2, GoToStep, Positions DEF Transition, CommitTokenBudgetDispatch
<1>3. CASE Lost(r, "send", "exit")
  BY <1>3, LostStep DEF CommitTokenBudgetDispatch, Ops
<1>4. CASE GoTo(r, "exit") /\ UNCHANGED <<budget, row, late>>
  <2>1. RelayOK("exit", relay[r].faults, late[r], called[r], row[r].state)
    BY <1>1 DEF RelayOK
  <2>2. QED BY <1>4, <2>1, QuietStep, Positions DEF CommitTokenBudgetDispatch
<1>5. QED BY <1>2, <1>3, <1>4 DEF CommitTokenBudgetDispatch

(* The upstream is called only with the sent mark in the row.              *)
LEMMA DoRequestInv ==
  ASSUME BudgetInv, NEW r \in Requests, DoRequest(r)
  PROVE  BudgetInv'
<1>1. RelayOK("sending", relay[r].faults, late[r], called[r], row[r].state)
  BY AtPosition DEF DoRequest
<1>2. CASE GoTo(r, "called") /\ called' = [called EXCEPT ![r] = TRUE]
  <2>1. /\ relay' \in [Requests -> Relay] /\ relay'[r].pc = "called"
        /\ relay'[r].faults = relay[r].faults /\ \A s \in Requests \ {r} : relay'[s] = relay[s]
    BY <1>2 DEF BudgetInv, TypeOK, GoTo, Relay
  <2>2. /\ called' \in [Requests -> BOOLEAN] /\ \A s \in Requests \ {r} : called'[s] = called[s]
        /\ UNCHANGED <<late, actors>> /\ late' \in [Requests -> SUBSET Ops]
    BY <1>2 DEF BudgetInv, TypeOK, DoRequest
  <2>3. TablesInv' /\ Transition(r) /\ row' = row
    BY DEF BudgetInv, TablesInv, PendingAgreement, RowShape, Owned, Transition, DoRequest
  <2>4. RelayOK("called", relay[r].faults, late[r], called'[r], row[r].state)
    BY <1>1 DEF RelayOK
  <2>5. QED BY <2>1, <2>2, <2>3, <2>4, RequestStep
<1>3. CASE GoTo(r, "exit") /\ UNCHANGED called
  <2>1. RelayOK("exit", relay[r].faults, late[r], called[r], row[r].state)
    BY <1>1 DEF RelayOK
  <2>2. QED BY <1>3, <2>1, QuietStep, Positions DEF DoRequest
<1>4. QED BY <1>2, <1>3 DEF DoRequest

LEMMA SettleInv ==
  ASSUME BudgetInv, NEW r \in Requests, SettleTokenBudgetUsage(r)
  PROVE  BudgetInv'
<1>1. RelayOK("settle", relay[r].faults, late[r], called[r], row[r].state)
  BY AtPosition DEF SettleTokenBudgetUsage
<1>2. ASSUME NEW u \in Usages, Settle(r, Metered(r, u)), UNCHANGED late,
             GoTo(r, IF row'[r].state = "settled" THEN "exit" ELSE "hold")
      PROVE  BudgetInv'
  <2>1. PICK to \in {"settled", "usage_unknown"} : TablesInv' /\ Moves(r, {"sent"}, to)
    BY <1>2, SettleTables, MeteredType, Amounts DEF BudgetInv
  <2>2. Transition(r)
    BY <2>1 DEF Transition
  <2>3. PICK pc \in {"exit", "hold"} : GoTo(r, pc)
    BY <1>2
  <2>4. RelayOK(pc, relay[r].faults, late[r], called[r], row'[r].state)
    BY <1>1, <2>1 DEF RelayOK, Moves, CallStates
  <2>5. QED BY <1>2, <2>1, <2>2, <2>3, <2>4, GoToStep, Positions DEF SettleTokenBudgetUsage
<1>3. CASE Lost(r, "settle", "hold")
  BY <1>3, LostStep DEF SettleTokenBudgetUsage, Ops
<1>4. CASE GoTo(r, "hold") /\ UNCHANGED <<budget, row, late>>
  <2>1. RelayOK("hold", relay[r].faults, late[r], called[r], row[r].state)
    BY <1>1 DEF RelayOK
  <2>2. QED BY <1>4, <2>1, QuietStep, Positions DEF SettleTokenBudgetUsage
<1>5. QED BY <1>2, <1>3, <1>4 DEF SettleTokenBudgetUsage

LEMMA HoldInv ==
  ASSUME BudgetInv, NEW r \in Requests, HoldTokenBudgetUsage(r)
  PROVE  BudgetInv'
<1>1. PICK pc \in {"hold", "lastHold"} : At(r, pc)
  BY DEF HoldTokenBudgetUsage
<1>2. RelayOK(pc, relay[r].faults, late[r], called[r], row[r].state)
  BY <1>1, AtPosition
<1> DEFINE next == IF At(r, "hold") THEN "exit" ELSE "held"
<1>3. next = (IF pc = "hold" THEN "exit" ELSE "held")
  BY <1>1 DEF At
<1>4. next \in {"exit", "held"} /\ \E p \in Relay : p.pc = next
  BY Positions
<1>5. \/ Hold(r) /\ GoTo(r, next) /\ UNCHANGED late
      \/ Lost(r, "hold", next)
      \/ /\ ~(Owned(r) /\ row[r].state = "sent")
         /\ GoTo(r, next) /\ UNCHANGED <<budget, row, late>>
  BY DEF HoldTokenBudgetUsage
<1> HIDE DEF next
<1>6. CASE Hold(r) /\ GoTo(r, next) /\ UNCHANGED late
  <2>1. TablesInv' /\ Moves(r, {"sent"}, "usage_unknown")
    BY <1>6, HoldTables DEF BudgetInv
  <2>2. RelayOK(next, relay[r].faults, late[r], called[r], row'[r].state)
    BY <1>2, <1>4, <2>1 DEF RelayOK, Moves, CallStates
  <2>3. QED BY <1>4, <1>6, <2>1, <2>2, GoToStep DEF Transition, HoldTokenBudgetUsage
<1>7. CASE Lost(r, "hold", next)
  BY <1>4, <1>7, LostStep DEF HoldTokenBudgetUsage, Ops
<1>8. CASE /\ ~(Owned(r) /\ row[r].state = "sent")
           /\ GoTo(r, next) /\ UNCHANGED <<budget, row, late>>
  <2>1. row[r].state # "sent"
    BY <1>8 DEF BudgetInv, TablesInv, PendingAgreement, Unresolved
  <2>2. RelayOK(next, relay[r].faults, late[r], called[r], row[r].state)
    BY <1>2, <1>3, <2>1 DEF RelayOK
  <2>3. QED BY <1>4, <1>8, <2>2, QuietStep DEF HoldTokenBudgetUsage
<1>9. QED BY <1>5, <1>6, <1>7, <1>8

LEMMA FinalizeReadInv ==
  ASSUME BudgetInv, NEW r \in Requests, FinalizeRead(r)
  PROVE  BudgetInv'
<1>1. RelayOK("exit", relay[r].faults, late[r], called[r], row[r].state)
  BY AtPosition DEF FinalizeRead
<1>2. UNCHANGED <<budget, row, late, called, actors>>
  BY DEF FinalizeRead
<1>3. CASE row[r].state \in Final \cup {"none"} /\ GoTo(r, "released")
  <2>1. RelayOK("released", relay[r].faults, late[r], called[r], row[r].state)
    BY <1>1, <1>3 DEF RelayOK, Final, CallStates
  <2>2. QED BY <1>2, <1>3, <2>1, QuietStep, Positions
<1>4. CASE row[r].state = "prepared" /\ GoTo(r, "cancel")
  <2>1. RelayOK("cancel", relay[r].faults, late[r], called[r], row[r].state)
    BY <1>1, <1>4 DEF RelayOK
  <2>2. QED BY <1>2, <1>4, <2>1, QuietStep, Positions
<1>5. CASE row[r].state = "usage_unknown" /\ GoTo(r, "held")
  <2>1. RelayOK("held", relay[r].faults, late[r], called[r], row[r].state)
    BY <1>1, <1>5 DEF RelayOK
  <2>2. QED BY <1>2, <1>5, <2>1, QuietStep, Positions
<1>6. CASE row[r].state = "sent" /\ GoTo(r, "lastHold")
  <2>1. RelayOK("lastHold", relay[r].faults, late[r], called[r], row[r].state)
    BY <1>1, <1>6 DEF RelayOK
  <2>2. QED BY <1>2, <1>6, <2>1, QuietStep, Positions
<1>7. CASE /\ relay[r].faults < MaxFaults
           /\ relay' = [relay EXCEPT ![r].pc = "lastHold", ![r].faults = @ + 1]
  <2>1. /\ relay' \in [Requests -> Relay] /\ relay'[r].pc = "lastHold"
        /\ relay'[r].faults = relay[r].faults + 1 /\ relay[r].faults \in Nat
        /\ \A s \in Requests \ {r} : relay'[s] = relay[s]
    BY <1>7 DEF BudgetInv, TypeOK, Relay
  <2>2. TablesInv' /\ Transition(r) /\ row' = row
    BY <1>2 DEF BudgetInv, TablesInv, PendingAgreement, RowShape, Owned, Transition
  <2>3. RelayOK(relay'[r].pc, relay'[r].faults, late'[r], called'[r], row'[r].state)
    BY <1>1, <1>2, <2>1 DEF RelayOK
  <2>4. /\ late' \in [Requests -> SUBSET Ops] /\ called' \in [Requests -> BOOLEAN]
        /\ UNCHANGED <<late, called, actors>>
    BY <1>2 DEF BudgetInv, TypeOK
  <2>5. QED BY <2>1, <2>2, <2>3, <2>4, RequestStep
<1>8. QED BY <1>3, <1>4, <1>5, <1>6, <1>7 DEF FinalizeRead

LEMMA FinalizeCancelInv ==
  ASSUME BudgetInv, NEW r \in Requests, FinalizeCancel(r)
  PROVE  BudgetInv'
<1>1. RelayOK("cancel", relay[r].faults, late[r], called[r], row[r].state)
  BY AtPosition DEF FinalizeCancel
<1>2. CASE Cancel(r, Nobody) /\ GoTo(r, "released") /\ UNCHANGED late
  <2>1. TablesInv' /\ Moves(r, {"prepared"}, "not_sent")
    BY <1>2, CancelTables DEF BudgetInv
  <2>2. RelayOK("released", relay[r].faults, late[r], called[r], row'[r].state)
    BY <1>1, <2>1 DEF RelayOK, Moves, CallStates
  <2>3. QED BY <1>2, <2>1, <2>2, GoToStep, Positions DEF Transition, FinalizeCancel
<1>3. CASE Lost(r, "cancel", "lastHold")
  BY <1>3, LostStep DEF FinalizeCancel, Ops
<1>4. CASE /\ ~(Owned(r) /\ row[r].state = "prepared")
           /\ GoTo(r, "lastHold") /\ UNCHANGED <<budget, row, late>>
  <2>1. row[r].state # "prepared"
    BY <1>4 DEF BudgetInv, TablesInv, PendingAgreement, Unresolved
  <2>2. RelayOK("lastHold", relay[r].faults, late[r], called[r], row[r].state)
    BY <1>1, <2>1 DEF RelayOK
  <2>3. QED BY <1>4, <2>2, QuietStep, Positions DEF FinalizeCancel
<1>5. QED BY <1>2, <1>3, <1>4 DEF FinalizeCancel

(* A step that moves only the tables, and perhaps forgets lost replies.    *)
LEMMA TableStep ==
  ASSUME BudgetInv, NEW r \in Requests, TablesInv', Transition(r),
         row[r].state = "none" => row'[r].state = "none" \/ late[r] # {},
         NEW l \in SUBSET late[r], late' = [late EXCEPT ![r] = l],
         UNCHANGED <<relay, called, actors>>
  PROVE  BudgetInv'
<1>1. RelayOK(relay[r].pc, relay[r].faults, l, called[r], row'[r].state)
  BY RelayStays
<1>2. late' \in [Requests -> SUBSET Ops] /\ late'[r] = l
      /\ \A s \in Requests \ {r} : late'[s] = late[s]
  BY DEF BudgetInv, TypeOK
<1>3. /\ relay' \in [Requests -> Relay] /\ called' \in [Requests -> BOOLEAN]
      /\ UNCHANGED <<relay, called, actors>>
  BY DEF BudgetInv, TypeOK
<1>4. QED BY <1>1, <1>2, <1>3, RequestStep

(* A transaction that commits late finds the row in the same states as     *)
(* one that commits in time.                                               *)
LEMMA LateCommitInv ==
  ASSUME BudgetInv, NEW r \in Requests, LateCommit(r)
  PROVE  BudgetInv'
<1>1. PICK op \in late[r] :
        /\ \/ op = "reserve" /\ ReserveTokenBudget(r)
           \/ op = "send" /\ Send(r)
           \/ op = "settle" /\ \E u \in Usages : Settle(r, Metered(r, u))
           \/ op = "hold" /\ Hold(r)
           \/ op = "cancel" /\ Cancel(r, Nobody)
        /\ late' = [late EXCEPT ![r] = late[r] \ {op}]
  BY DEF LateCommit
<1>2. TablesInv' /\ Transition(r)
  <2>1. CASE ReserveTokenBudget(r)
    BY <2>1, ReserveTables DEF Transition, BudgetInv
  <2>2. CASE Send(r)
    BY <2>2, SendTables DEF Transition, BudgetInv
  <2>3. CASE \E u \in Usages : Settle(r, Metered(r, u))
    BY <2>3, SettleTables, MeteredType, Amounts DEF Transition, BudgetInv
  <2>4. CASE Hold(r)
    BY <2>4, HoldTables DEF Transition, BudgetInv
  <2>5. CASE Cancel(r, Nobody)
    BY <2>5, CancelTables DEF Transition, BudgetInv
  <2>6. QED BY <1>1, <2>1, <2>2, <2>3, <2>4, <2>5
<1>3. late[r] # {} /\ late[r] \ {op} \in SUBSET late[r]
  OBVIOUS
<1>4. QED BY <1>1, <1>2, <1>3, TableStep DEF LateCommit

LEMMA FinalizeReviewInv ==
  ASSUME BudgetInv, NEW r \in Requests, FinalizeUsageReview(r)
  PROVE  BudgetInv'
<1>1. decision[r].usage \in Usage /\ decision[r].by \in Reviewers \cup {Nobody}
  BY DEF BudgetInv, TypeOK
<1>2. TablesInv' /\ Moves(r, {"sent", "usage_unknown"}, "settled")
  BY <1>1, ReconcileTables DEF BudgetInv, FinalizeUsageReview
<1>3. row'[r].actual = decision[r].usage
  BY DEF FinalizeUsageReview, Reconcile, Charge, BudgetInv, TypeOK, ReservationRow
<1>4. Transition(r) /\ row[r].state # "none"
  BY <1>2, <1>3 DEF Transition, Moves, FinalizeUsageReview
<1>5. late' = [late EXCEPT ![r] = late[r]] /\ UNCHANGED <<relay, called, actors>>
  BY DEF FinalizeUsageReview, BudgetInv, TypeOK
<1>6. QED BY <1>2, <1>4, <1>5, TableStep

-----------------------------------------------------------------------------
(* Administrators.                                                         *)
LEMMA ReadInv ==
  ASSUME BudgetInv, NEW a \in Admins, ReadTokenBudget(a)
  PROVE  BudgetInv'
<1>1. draft' \in [Admins -> [open : BOOLEAN, seen : BudgetRow]]
  BY DEF ReadTokenBudget, BudgetInv, TypeOK
<1>2. DraftCurrent'
  BY DEF ReadTokenBudget, BudgetInv, TypeOK, DraftCurrent, BudgetRow
<1>3. QED BY <1>1, <1>2 DEF ReadTokenBudget, BudgetInv, TypeOK, TablesInv, PendingAgreement,
                        RowShape, Owned, RelayKnows, DecisionAgrees, ReviewKnows

LEMMA ConfigureInv ==
  ASSUME BudgetInv, NEW a \in Admins, ConfigureTokenBudget(a)
  PROVE  BudgetInv'
<1>1. draft' \in [Admins -> [open : BOOLEAN, seen : BudgetRow]] /\ ~draft'[a].open
      /\ \A b \in Admins \ {a} : draft'[b] = draft[b]
  BY DEF ConfigureTokenBudget, BudgetInv, TypeOK, NoBudget, BudgetRow
<1>2. /\ budget' \in BudgetRow
      /\ \/ budget' = budget
         \/ /\ budget'.revision = budget.revision + 1 /\ budget.pending = Nobody
            /\ budget'.pending = Nobody /\ budget'.reserved = budget.reserved
            /\ budget'.feeReserved = budget.feeReserved
  <2>1. CASE budget' = budget
    BY <2>1 DEF BudgetInv, TypeOK
  <2>2. ASSUME NEW p \in Policies, budget.pending = Nobody,
               budget' = [Revised EXCEPT
                            !.enabled = p.enabled, !.limit = p.limit,
                            !.feeEnabled = IF p.setFee THEN p.feeEnabled ELSE @,
                            !.feeLimit = IF p.setFee THEN p.feeLimit ELSE @]
        PROVE  /\ budget' \in BudgetRow
               /\ budget'.revision = budget.revision + 1 /\ budget'.pending = Nobody
               /\ budget'.reserved = budget.reserved
               /\ budget'.feeReserved = budget.feeReserved
    <3>1. /\ p.enabled \in BOOLEAN /\ p.limit \in Nat
          /\ p.feeEnabled \in BOOLEAN /\ p.feeLimit \in Nat
      BY TokenBudgetAssumption
    <3>2. Revised \in BudgetRow /\ Revised.revision = budget.revision + 1
      BY NextBudget DEF BudgetInv, TypeOK
    <3>3. /\ Revised.pending = budget.pending /\ Revised.reserved = budget.reserved
          /\ Revised.feeReserved = budget.feeReserved
      BY DEF BudgetInv, TypeOK, BudgetRow, Revised
    <3>4. QED BY <2>2, <3>1, <3>2, <3>3 DEF BudgetRow
  <2>3. QED BY <2>1, <2>2 DEF ConfigureTokenBudget
<1>3. TablesInv'
  <2>1. row' = row /\ RowShape'
    BY DEF ConfigureTokenBudget, BudgetInv, TablesInv, RowShape
  <2>2. PendingAgreement'
    <3>1. CASE budget' = budget
      BY <2>1, <3>1 DEF BudgetInv, TablesInv, PendingAgreement, Owned
    <3>2. CASE budget' # budget
      <4>1. \A r \in Requests : row[r].state \notin Unresolved
        BY <1>2, <3>2, Amounts DEF BudgetInv, TablesInv, PendingAgreement
      <4>2. QED BY <1>2, <2>1, <3>2, <4>1, Amounts DEF BudgetInv, TablesInv, PendingAgreement
    <3>3. QED BY <3>1, <3>2
  <2>3. QED BY <1>2, <2>1, <2>2 DEF BudgetInv, TablesInv
<1>4. DraftCurrent'
  <2>1. SUFFICES ASSUME NEW b \in Admins, draft'[b].open
                 PROVE  /\ draft'[b].seen.revision <= budget'.revision
                        /\ draft'[b].seen.revision = budget'.revision => draft'[b].seen = budget'
    BY DEF DraftCurrent
  <2>2. b # a /\ draft'[b] = draft[b]
    BY <1>1, <2>1
  <2>3. draft[b].seen.revision \in Nat /\ budget.revision \in Nat
    BY DEF BudgetInv, TypeOK, BudgetRow
  <2>4. QED BY <1>2, <2>1, <2>2, <2>3 DEF BudgetInv, DraftCurrent
<1>5. TypeOK'
  BY <1>1, <1>2 DEF ConfigureTokenBudget, BudgetInv, TypeOK
<1>6. QED BY <1>3, <1>4, <1>5 DEF ConfigureTokenBudget, BudgetInv, RelayKnows,
                                  DecisionAgrees, ReviewKnows

-----------------------------------------------------------------------------
(* Reviewers.                                                              *)
LEMMA CancelBeforeSendInv ==
  ASSUME BudgetInv, NEW v \in Reviewers, CancelTokenBudgetBeforeSend(v)
  PROVE  BudgetInv'
<1>1. PICK r \in Requests : Cancel(r, v)
  BY DEF CancelTokenBudgetBeforeSend
<1>2. TablesInv' /\ Moves(r, {"prepared"}, "not_sent")
  BY <1>1, CancelTables DEF BudgetInv
<1>3. Transition(r) /\ row[r].state # "none"
  BY <1>2 DEF Transition, Moves
<1>4. late' = [late EXCEPT ![r] = late[r]] /\ UNCHANGED <<relay, called, actors>>
  BY DEF CancelTokenBudgetBeforeSend, BudgetInv, TypeOK
<1>5. QED BY <1>2, <1>3, <1>4, TableStep

(* A review whose row and reviewer are unchanged elsewhere.                *)
LEMMA ReviewerStep ==
  ASSUME BudgetInv, NEW v \in Reviewers, UNCHANGED <<budget, row, relay, late, called, draft>>,
         NEW x \in Review, review' = [review EXCEPT ![v] = x],
         decision' \in [Requests -> [by : Reviewers \cup {Nobody}, usage : Usage]],
         DecisionAgrees',
         \A r \in Requests : decision[r].by # Nobody => decision'[r].by # Nobody,
         x.pc # "idle" =>
           /\ x.req \in Requests
           /\ x.pc = "decide" =>
                /\ row[x.req].state \in {"usage_unknown", "settled"}
                /\ row[x.req].state = "settled" /\ decision'[x.req].by = Nobody
                     => row[x.req].actual = x.usage
  PROVE  BudgetInv'
<1>1. TypeOK'
  BY DEF BudgetInv, TypeOK
<1>2. TablesInv' /\ RelayKnows' /\ DraftCurrent'
  BY DEF BudgetInv, TablesInv, PendingAgreement, RowShape, Owned, RelayKnows, DraftCurrent
<1>3. ReviewKnows'
  <2>1. SUFFICES ASSUME NEW w \in Reviewers, review'[w].pc # "idle", w # v
                 PROVE  LET r == review'[w].req
                        IN /\ r \in Requests
                           /\ review'[w].pc = "decide" =>
                                /\ row'[r].state \in {"usage_unknown", "settled"}
                                /\ row'[r].state = "settled" /\ decision'[r].by = Nobody
                                     => row'[r].actual = review'[w].usage
    <3>1. review'[v] = x
      BY DEF BudgetInv, TypeOK
    <3>2. QED BY <3>1 DEF ReviewKnows
  <2>2. review'[w] = review[w]
    BY <2>1 DEF BudgetInv, TypeOK
  <2>3. QED BY <2>1, <2>2 DEF BudgetInv, ReviewKnows
<1>4. QED BY <1>1, <1>2, <1>3 DEF BudgetInv

LEMMA ReconcileReadInv ==
  ASSUME BudgetInv, NEW v \in Reviewers, ReconcileRead(v)
  PROVE  BudgetInv'
<1>1. PICK r \in Requests, u \in Usages :
        /\ row[r].state \in {"sent", "usage_unknown", "settled"}
        /\ row[r].state = "settled" => row[r].actual = Metered(r, u)
        /\ review' = [review EXCEPT ![v] =
                        [pc |-> IF row[r].state = "sent" THEN "freeze" ELSE "decide",
                         req |-> r, usage |-> Metered(r, u)]]
  BY DEF ReconcileRead
<1>2. Metered(r, u) \in Usage
  BY MeteredType, Amounts
<1> DEFINE x == [pc |-> IF row[r].state = "sent" THEN "freeze" ELSE "decide",
                 req |-> r, usage |-> Metered(r, u)]
<1>3. /\ x \in Review /\ x.req = r /\ x.usage = Metered(r, u)
      /\ x.pc = "decide" => row[r].state \in {"usage_unknown", "settled"}
  BY <1>1, <1>2 DEF Review
<1>4. UNCHANGED <<budget, row, relay, late, called, draft>> /\ decision' = decision
  BY DEF ReconcileRead
<1>5. /\ DecisionAgrees'
      /\ decision' \in [Requests -> [by : Reviewers \cup {Nobody}, usage : Usage]]
  BY <1>4 DEF BudgetInv, DecisionAgrees, TypeOK
<1>6. review' = [review EXCEPT ![v] = x]
  BY <1>1
<1> HIDE DEF x
<1>7. QED BY <1>1, <1>3, <1>4, <1>5, <1>6, ReviewerStep

LEMMA ReconcileFreezeInv ==
  ASSUME BudgetInv, NEW v \in Reviewers, ReconcileFreeze(v)
  PROVE  BudgetInv'
<1> DEFINE r == review[v].req
<1>1. r \in Requests /\ review[v] \in Review /\ Away \in Review
  BY DEF BudgetInv, ReviewKnows, ReconcileFreeze, TypeOK, Away, Review, NoUsage, Usage
<1>2. UNCHANGED <<relay, late, called, draft, decision>>
  BY DEF ReconcileFreeze
<1>3. DecisionAgrees /\ decision \in [Requests -> [by : Reviewers \cup {Nobody}, usage : Usage]]
  BY DEF BudgetInv, TypeOK
<1>4. CASE Hold(r) /\ review' = [review EXCEPT ![v].pc = "decide"]
  <2>1. TablesInv' /\ Moves(r, {"sent"}, "usage_unknown")
    BY <1>1, <1>4, HoldTables DEF BudgetInv
  <2>2. Transition(r) /\ row[r].state # "none"
    BY <2>1 DEF Transition, Moves
  <2>3. RelayKnows'
    <3>1. SUFFICES ASSUME NEW s \in Requests
                   PROVE  RelayOK(relay[s].pc, relay[s].faults, late[s], called[s], row'[s].state)
      BY <1>2 DEF RelayKnows
    <3>2. CASE s = r
      BY <1>1, <2>2, <3>2, RelayStays
    <3>3. CASE s # r
      BY <1>1, <2>1, <3>3 DEF Moves, BudgetInv, TablesInv, RelayKnows
    <3>4. QED BY <3>2, <3>3
  <2>4. DraftCurrent'
    <3>1. SUFFICES ASSUME NEW a \in Admins, draft[a].open
                   PROVE  /\ draft[a].seen.revision <= budget'.revision
                          /\ draft[a].seen.revision = budget'.revision => draft[a].seen = budget'
      BY <1>2 DEF DraftCurrent
    <3>2. draft[a].seen.revision \in Nat /\ budget.revision \in Nat
      BY DEF BudgetInv, TypeOK, BudgetRow
    <3>3. QED BY <2>1, <3>1, <3>2 DEF Moves, BudgetInv, DraftCurrent
  <2>5. \A s \in Requests : s # r => row'[s] = row[s]
    BY <1>1, <2>1 DEF Moves, BudgetInv, TablesInv
  <2>6. DecisionAgrees'
    BY <1>1, <1>2, <2>1, <2>5 DEF DecisionAgrees, BudgetInv, Moves
  <2>7. ReviewKnows'
    <3>1. /\ review'[v].pc = "decide" /\ review'[v].req = r
          /\ \A w \in Reviewers \ {v} : review'[w] = review[w]
      BY <1>4 DEF BudgetInv, TypeOK, Review
    <3>2. row'[r].state = "usage_unknown" /\ row[r].state = "sent"
      BY <2>1 DEF Moves
    <3> HIDE DEF r
    <3>3. QED BY <1>1, <1>2, <2>5, <3>1, <3>2 DEF ReviewKnows, BudgetInv
  <2>8. TypeOK'
    BY <1>2, <1>4, <2>1 DEF BudgetInv, TypeOK, TablesInv, Review
  <2>9. QED BY <2>1, <2>3, <2>4, <2>6, <2>7, <2>8 DEF BudgetInv
<1>5. CASE /\ Owned(r) /\ row[r].state = "usage_unknown"
           /\ review' = [review EXCEPT ![v].pc = "decide"] /\ UNCHANGED <<budget, row>>
  <2> DEFINE x == [review[v] EXCEPT !.pc = "decide"]
  <2>1. x \in Review /\ x.pc = "decide" /\ x.req = r
    BY <1>1 DEF Review
  <2>2. review' = [review EXCEPT ![v] = x]
    BY <1>5 DEF BudgetInv, TypeOK
  <2>3. DecisionAgrees' /\ decision' = decision
    BY <1>2, <1>3, <1>5 DEF DecisionAgrees
  <2> HIDE DEF x
  <2>4. QED BY <1>1, <1>2, <1>3, <1>5, <2>1, <2>2, <2>3, ReviewerStep
<1>6. CASE review' = [review EXCEPT ![v] = Away] /\ UNCHANGED <<budget, row>>
  <2>1. DecisionAgrees' /\ decision' = decision /\ Away.pc = "idle"
    BY <1>2, <1>3, <1>6 DEF DecisionAgrees, Away
  <2>2. QED BY <1>1, <1>2, <1>3, <1>6, <2>1, ReviewerStep
<1>7. QED BY <1>4, <1>5, <1>6 DEF ReconcileFreeze

(* The only decision of a request: it is frozen, or settled at the amounts *)
(* the reviewer confirms.                                                  *)
LEMMA ReconcileDecideInv ==
  ASSUME BudgetInv, NEW v \in Reviewers, ReconcileDecide(v)
  PROVE  BudgetInv'
<1> DEFINE r == review[v].req
<1>1. /\ r \in Requests /\ review[v].usage \in Usage /\ Away \in Review /\ Away.pc = "idle"
      /\ row[r].state \in {"usage_unknown", "settled"}
      /\ row[r].state = "settled" /\ decision[r].by = Nobody
           => row[r].actual = review[v].usage
  BY DEF BudgetInv, ReviewKnows, ReconcileDecide, TypeOK, Away, Review, NoUsage, Usage
<1>2. /\ UNCHANGED <<budget, row, relay, late, called, draft>>
      /\ review' = [review EXCEPT ![v] = Away]
  BY DEF ReconcileDecide
<1>3. CASE UNCHANGED decision
  <2>1. /\ DecisionAgrees'
        /\ decision' \in [Requests -> [by : Reviewers \cup {Nobody}, usage : Usage]]
    BY <1>2, <1>3 DEF BudgetInv, DecisionAgrees, TypeOK
  <2>2. QED BY <1>1, <1>2, <1>3, <2>1, ReviewerStep
<1>4. CASE /\ decision[r].by = Nobody
           /\ decision' = [decision EXCEPT ![r] = [by |-> v, usage |-> review[v].usage]]
  <2>1. /\ decision' \in [Requests -> [by : Reviewers \cup {Nobody}, usage : Usage]]
        /\ decision'[r].by = v /\ decision'[r].usage = review[v].usage /\ v # Nobody
        /\ \A s \in Requests \ {r} : decision'[s] = decision[s]
    BY <1>1, <1>4, TokenBudgetAssumption DEF BudgetInv, TypeOK
  <2>2. DecisionAgrees'
    BY <1>1, <1>2, <1>4, <2>1 DEF BudgetInv, DecisionAgrees
  <2>3. \A s \in Requests : decision[s].by # Nobody => decision'[s].by # Nobody
    BY <2>1
  <2>4. QED BY <1>1, <1>2, <2>1, <2>2, <2>3, ReviewerStep
<1>5. QED BY <1>3, <1>4 DEF ReconcileDecide

-----------------------------------------------------------------------------
(* The initial state satisfies the invariant.                              *)
LEMMA InitInv == Init => BudgetInv
<1> SUFFICES ASSUME Init PROVE BudgetInv
  OBVIOUS
<1>1. /\ budget \in BudgetRow
      /\ row \in [Requests -> ReservationRow]
  BY DEF Init, NoBudget, BudgetRow, NoRow, ReservationRow, BoundType, NoUsage, Usage
<1>2. TypeOK
  BY <1>1 DEF Init, TypeOK, Relay, Review, Away, NoUsage, Usage, NoDecision, NoBudget, BudgetRow
<1>3. TablesInv
  BY <1>1, Amounts DEF Init, TablesInv, PendingAgreement, RowShape, Owned, Unresolved, Final, NoRow,
                       NoBudget
<1>4. RelayKnows /\ DecisionAgrees /\ ReviewKnows /\ DraftCurrent
  BY DEF Init, RelayKnows, RelayOK, DecisionAgrees, NoDecision, ReviewKnows, Away, DraftCurrent
<1>5. QED BY <1>2, <1>3, <1>4 DEF BudgetInv

(* Every step preserves the invariant.                                     *)
LEMMA NextInv == BudgetInv /\ [Next]_vars => BudgetInv'
<1> SUFFICES ASSUME BudgetInv, [Next]_vars PROVE BudgetInv'
  OBVIOUS
<1>1. ASSUME NEW r \in Requests, RelayStep(r)
      PROVE  BudgetInv'
  BY <1>1, AdmissionInv, LookupInv, PrepareInv, CommitInv, DoRequestInv, SettleInv, HoldInv,
     FinalizeReadInv, FinalizeCancelInv DEF RelayStep
<1>2. ASSUME NEW r \in Requests, LateCommit(r) \/ Crash(r) \/ FinalizeUsageReview(r)
      PROVE  BudgetInv'
  BY <1>2, LateCommitInv, AdmissionInv, FinalizeReviewInv
<1>3. ASSUME NEW a \in Admins, ReadTokenBudget(a) \/ ConfigureTokenBudget(a)
      PROVE  BudgetInv'
  BY <1>3, ReadInv, ConfigureInv
<1>4. ASSUME NEW v \in Reviewers, ReviewStep(v)
      PROVE  BudgetInv'
  BY <1>4, CancelBeforeSendInv, ReconcileReadInv, ReconcileFreezeInv, ReconcileDecideInv
     DEF ReviewStep
<1>5. CASE UNCHANGED vars
  BY <1>5 DEF vars, BudgetInv, TypeOK, TablesInv, PendingAgreement, RowShape, Owned, RelayKnows,
              DecisionAgrees, ReviewKnows, DraftCurrent
<1>6. QED BY <1>1, <1>2, <1>3, <1>4, <1>5 DEF Next

(* The inductive invariant holds in every reachable state.                 *)
THEOREM BudgetInvariant == Spec => []BudgetInv
BY InitInv, NextInv, PTL DEF Spec

(* Rows and actors keep their types: in particular no counter of the       *)
(* budget becomes negative, whatever commits late.                         *)
THEOREM TypeCorrect == Spec => []TypeOK
<1>1. BudgetInv => TypeOK
  BY DEF BudgetInv
<1>2. QED BY <1>1, BudgetInvariant, PTL

(* Exactly one request blocks the token, the one whose row is unresolved,  *)
(* and the budget reserves exactly that row's amounts.                     *)
THEOREM PendingAgrees == Spec => []PendingAgreement
<1>1. BudgetInv => PendingAgreement
  BY DEF BudgetInv, TablesInv
<1>2. QED BY <1>1, BudgetInvariant, PTL

(* A request that has reached the upstream is never released as unsent.    *)
THEOREM CalledStays == Spec => []CalledNeverReleased
<1>1. BudgetInv => CalledNeverReleased
  BY DEF BudgetInv, CalledNeverReleased, RelayKnows, RelayOK, CallStates
<1>2. QED BY <1>1, BudgetInvariant, PTL

(* A review's decision and the settlement of its request agree.            *)
THEOREM DecisionsMatch == Spec => []DecisionMatchesSettlement
<1>1. BudgetInv => DecisionMatchesSettlement
  BY DEF BudgetInv, DecisionMatchesSettlement, DecisionAgrees
<1>2. QED BY <1>1, BudgetInvariant, PTL

(* A goroutine that met no fault leaves no prepared or sent row behind.    *)
THEOREM CleanExits == Spec => []CleanExitResolves
<1>1. BudgetInv => CleanExitResolves
  BY DEF BudgetInv, CleanExitResolves, RelayKnows, RelayOK
<1>2. QED BY <1>1, BudgetInvariant, PTL

(* A policy change that passes the revision check is about the budget its  *)
(* author has read.                                                        *)
THEOREM PolicyReads == Spec => []PolicyReadIsCurrent
<1>1. BudgetInv => PolicyReadIsCurrent
  BY DEF BudgetInv, PolicyReadIsCurrent, DraftCurrent
<1>2. QED BY <1>1, BudgetInvariant, PTL

-----------------------------------------------------------------------------
(* The transactions on the two tables, whoever runs them.                  *)
Transaction(r) ==
  \/ ReserveTokenBudget(r) \/ Send(r) \/ Hold(r)
  \/ \E by \in Reviewers \cup {Nobody} : Cancel(r, by)
  \/ \E u \in Usages : Settle(r, Metered(r, u))
  \/ decision[r].by # Nobody /\ Reconcile(r, decision[r].usage, decision[r].by)

(* A change of policy; the counters and the rows are not touched.          *)
PolicyChange ==
  /\ row' = row /\ budget.pending = Nobody
  /\ \E p \in Policies :
       /\ p.enabled => p.limit >= budget.used
       /\ p.setFee /\ p.feeEnabled => budget.feeUsed <= p.feeLimit
       /\ budget' = [Revised EXCEPT
                       !.enabled = p.enabled, !.limit = p.limit,
                       !.feeEnabled = IF p.setFee THEN p.feeEnabled ELSE @,
                       !.feeLimit = IF p.setFee THEN p.feeLimit ELSE @]

(* Nothing else writes the tables.                                         *)
LEMMA TableWriters ==
  ASSUME BudgetInv, [Next]_vars
  PROVE  \/ UNCHANGED <<budget, row>>
         \/ PolicyChange
         \/ \E r \in Requests : Transaction(r)
<1>1. ASSUME NEW r \in Requests, RelayStep(r) \/ LateCommit(r) \/ Crash(r) \/ FinalizeUsageReview(r)
      PROVE  UNCHANGED <<budget, row>> \/ Transaction(r)
  <2>1. CASE RelayStep(r)
    <3>1. CASE CheckTokenBudgetAdmission(r) \/ LookupTokenBudget(r) \/ DoRequest(r)
               \/ UpstreamAnswers(r) \/ FinalizeRead(r)
      BY <3>1 DEF CheckTokenBudgetAdmission, LookupTokenBudget, DoRequest, UpstreamAnswers,
                  FinalizeRead
    <3>2. CASE PrepareTokenBudgetDispatch(r) \/ CommitTokenBudgetDispatch(r)
      BY <3>2 DEF PrepareTokenBudgetDispatch, CommitTokenBudgetDispatch, Lost, Transaction
    <3>3. CASE SettleTokenBudgetUsage(r) \/ HoldTokenBudgetUsage(r)
      BY <3>3 DEF SettleTokenBudgetUsage, HoldTokenBudgetUsage, Lost, Transaction
    <3>4. CASE FinalizeCancel(r)
      BY <3>4 DEF FinalizeCancel, Lost, Transaction
    <3>5. QED BY <2>1, <3>1, <3>2, <3>3, <3>4 DEF RelayStep
  <2>2. CASE LateCommit(r)
    BY <2>2 DEF LateCommit, Transaction
  <2>3. CASE Crash(r)
    BY <2>3 DEF Crash
  <2>4. CASE FinalizeUsageReview(r)
    BY <2>4 DEF FinalizeUsageReview, Transaction
  <2>5. QED BY <1>1, <2>1, <2>2, <2>3, <2>4
<1>2. ASSUME NEW a \in Admins, ReadTokenBudget(a) \/ ConfigureTokenBudget(a)
      PROVE  UNCHANGED <<budget, row>> \/ PolicyChange
  BY <1>2 DEF ReadTokenBudget, ConfigureTokenBudget, PolicyChange
<1>3. ASSUME NEW v \in Reviewers, ReviewStep(v)
      PROVE  UNCHANGED <<budget, row>> \/ \E r \in Requests : Transaction(r)
  <2>1. CASE CancelTokenBudgetBeforeSend(v)
    BY <2>1 DEF CancelTokenBudgetBeforeSend, Transaction
  <2>2. CASE ReconcileRead(v) \/ ReconcileDecide(v)
    BY <2>2 DEF ReconcileRead, ReconcileDecide
  <2>3. CASE ReconcileFreeze(v)
    <3>1. review[v].req \in Requests
      BY <2>3 DEF BudgetInv, ReviewKnows, ReconcileFreeze
    <3>2. QED BY <2>3, <3>1 DEF ReconcileFreeze, Transaction
  <2>4. QED BY <1>3, <2>1, <2>2, <2>3 DEF ReviewStep
<1>4. CASE UNCHANGED vars
  BY <1>4 DEF vars
<1>5. QED BY <1>1, <1>2, <1>3, <1>4 DEF Next

(* A final row is never written again.                                     *)
LEMMA FinalRowsStay ==
  ASSUME BudgetInv, [Next]_vars, NEW s \in Requests, row[s].state \in Final
  PROVE  row'[s] = row[s]
<1>1. ASSUME NEW r \in Requests, Transaction(r)
      PROVE  row'[s] = row[s]
  <2>1. row[r].state \notin Final
    BY <1>1 DEF Transaction, ReserveTokenBudget, Send, Hold, Cancel, Settle, Reconcile, Final
  <2>2. s # r
    BY <2>1
  <2>3. QED BY <1>1, <2>2 DEF Transaction, ReserveTokenBudget, Send, Hold, Cancel, Settle, Reconcile,
                              Charge, BudgetInv, TypeOK
<1>2. QED BY <1>1, TableWriters DEF PolicyChange

-----------------------------------------------------------------------------
(* A usage above its reservation that a reviewer has recorded.             *)
Excess(r) ==
  /\ row[r].reviewedBy # Nobody
  /\ \/ row[r].actual.input + row[r].actual.output > row[r].reserved
     \/ row[r].actual.fee > row[r].feeReserved

WithinLimits ==
  /\ budget.enabled => budget.used + budget.reserved <= budget.limit
  /\ budget.feeEnabled => budget.feeUsed + budget.feeReserved <= budget.feeLimit

(* A charge within the reservation takes no more than was reserved.        *)
LEMMA ChargeWithin ==
  ASSUME BudgetInv, NEW r \in Requests, NEW u \in Usage, NEW by, Owned(r), Charge(r, u, by),
         u.input + u.output <= row[r].reserved, u.fee <= row[r].feeReserved, WithinLimits
  PROVE  WithinLimits'
<1>1. /\ budget'.enabled = budget.enabled /\ budget'.limit = budget.limit
      /\ budget'.feeEnabled = budget.feeEnabled /\ budget'.feeLimit = budget.feeLimit
      /\ budget'.used = budget.used + u.input + u.output
      /\ budget'.feeUsed = budget.feeUsed + u.fee
      /\ budget'.reserved = 0 /\ budget'.feeReserved = 0
  BY DEF Charge, Freed, Revised, BudgetInv, TypeOK, BudgetRow
<1>2. /\ u.input \in Nat /\ u.output \in Nat /\ u.fee \in Nat
      /\ budget.used \in Nat /\ budget.feeUsed \in Nat /\ budget.limit \in Nat
      /\ budget.feeLimit \in Nat /\ budget.reserved \in Nat /\ budget.feeReserved \in Nat
  BY DEF Usage, BudgetInv, TypeOK, BudgetRow
<1>3. budget.reserved = row[r].reserved /\ budget.feeReserved = row[r].feeReserved
  BY DEF Owned
<1>4. QED BY <1>1, <1>2, <1>3 DEF WithinLimits

LEMMA TransactionWithin ==
  ASSUME BudgetInv, NEW r \in Requests, Transaction(r), WithinLimits
  PROVE  WithinLimits' \/ Excess(r)'
<1>1. CASE ReserveTokenBudget(r)
  <2>1. PICK b \in Bounds, f \in IF budget.feeEnabled THEN Fees ELSE {0} :
          /\ budget.enabled => budget.used + Bound(b) <= budget.limit
          /\ budget.feeEnabled => budget.feeUsed + f <= budget.feeLimit
          /\ budget' = [Revised EXCEPT !.pending = r, !.reserved = Bound(b), !.feeReserved = f]
    BY <1>1 DEF ReserveTokenBudget
  <2>2. QED BY <2>1 DEF WithinLimits, Revised, BudgetInv, TypeOK, BudgetRow
<1>2. CASE Send(r) \/ Hold(r)
  BY <1>2 DEF Send, Hold, WithinLimits, Revised, BudgetInv, TypeOK, BudgetRow
<1>3. ASSUME NEW by \in Reviewers \cup {Nobody}, Cancel(r, by)
      PROVE  WithinLimits'
  BY <1>3 DEF Cancel, WithinLimits, Freed, Revised, BudgetInv, TypeOK, BudgetRow
<1>4. ASSUME NEW v \in Usages, Settle(r, Metered(r, v))
      PROVE  WithinLimits'
  <2> DEFINE u == Metered(r, v)
  <2>1. u \in Usage
    BY MeteredType, Amounts
  <2>2. CASE WithinBound(row[r].bound, u) /\ u.fee <= row[r].feeReserved
    <3>1. row[r].reserved = Bound(row[r].bound) /\ row[r].bound \in BoundType
      BY <1>4 DEF Settle, BudgetInv, TablesInv, RowShape, ReservationRow
    <3>2. u.input + u.output <= row[r].reserved
      BY <2>1, <2>2, <3>1 DEF WithinBound, Bound, Usage, BoundType
    <3> HIDE DEF u
    <3>3. QED BY <1>4, <2>1, <2>2, <3>2, ChargeWithin DEF Settle, u
  <2>3. CASE ~(WithinBound(row[r].bound, u) /\ u.fee <= row[r].feeReserved)
    BY <1>4, <2>3 DEF Settle, WithinLimits, Revised, BudgetInv, TypeOK, BudgetRow
  <2>4. QED BY <2>2, <2>3
<1>5. CASE decision[r].by # Nobody /\ Reconcile(r, decision[r].usage, decision[r].by)
  <2> DEFINE u == decision[r].usage
  <2>1. u \in Usage
    BY DEF BudgetInv, TypeOK
  <2>2. CASE u.input + u.output <= row[r].reserved /\ u.fee <= row[r].feeReserved
    BY <1>5, <2>1, <2>2, ChargeWithin DEF Reconcile
  <2>3. CASE ~(u.input + u.output <= row[r].reserved /\ u.fee <= row[r].feeReserved)
    <3>1. /\ row'[r].reviewedBy = decision[r].by /\ row'[r].actual = u
          /\ row'[r].reserved = row[r].reserved /\ row'[r].feeReserved = row[r].feeReserved
          /\ row[r].reserved \in Nat /\ row[r].feeReserved \in Nat
      BY <1>5 DEF Reconcile, Charge, BudgetInv, TypeOK, ReservationRow
    <3>2. u.input \in Nat /\ u.output \in Nat /\ u.fee \in Nat
      BY <2>1 DEF Usage
    <3> HIDE DEF u
    <3>3. QED BY <1>5, <2>3, <3>1, <3>2 DEF Excess
  <2>4. QED BY <2>2, <2>3
<1>6. QED BY <1>1, <1>2, <1>3, <1>4, <1>5 DEF Transaction

(* The enabled limits hold until a reviewer records an excess.             *)
THEOREM LimitsHold == Spec => []LimitRespected
<1>1. LimitRespected <=> (\E r \in Requests : Excess(r)) \/ WithinLimits
  BY DEF LimitRespected, Excess, WithinLimits
<1>2. Init => LimitRespected
  BY <1>1 DEF Init, NoBudget, WithinLimits
<1>3. BudgetInv /\ LimitRespected /\ [Next]_vars => LimitRespected'
  <2> SUFFICES ASSUME BudgetInv, LimitRespected, [Next]_vars
               PROVE  (\E r \in Requests : Excess(r)') \/ WithinLimits'
    BY DEF LimitRespected, Excess, WithinLimits
  <2>1. ASSUME NEW r \in Requests, Excess(r)
        PROVE  Excess(r)'
    <3>1. row[r].state \in Final
      BY <2>1 DEF Excess, BudgetInv, TablesInv, RowShape
    <3>2. QED BY <2>1, <3>1, FinalRowsStay DEF Excess
  <2>2. CASE WithinLimits
    <3>1. CASE UNCHANGED <<budget, row>>
      BY <2>2, <3>1 DEF WithinLimits
    <3>2. CASE PolicyChange
      <4>1. PICK p \in Policies :
              /\ p.enabled => p.limit >= budget.used
              /\ p.setFee /\ p.feeEnabled => budget.feeUsed <= p.feeLimit
              /\ budget' = [Revised EXCEPT
                              !.enabled = p.enabled, !.limit = p.limit,
                              !.feeEnabled = IF p.setFee THEN p.feeEnabled ELSE @,
                              !.feeLimit = IF p.setFee THEN p.feeLimit ELSE @]
        BY <3>2 DEF PolicyChange
      <4>2. /\ budget.reserved = 0 /\ budget.feeReserved = 0
            /\ budget.used \in Nat /\ budget.feeUsed \in Nat
        BY <3>2 DEF PolicyChange, BudgetInv, TablesInv, PendingAgreement, BudgetRow
      <4>3. /\ budget'.enabled = p.enabled /\ budget'.limit = p.limit
            /\ budget'.used = budget.used /\ budget'.feeUsed = budget.feeUsed
            /\ budget'.reserved = 0 /\ budget'.feeReserved = 0
            /\ budget'.feeEnabled = IF p.setFee THEN p.feeEnabled ELSE budget.feeEnabled
            /\ budget'.feeLimit = IF p.setFee THEN p.feeLimit ELSE budget.feeLimit
        BY <4>1, <4>2 DEF Revised, BudgetInv, TypeOK, BudgetRow
      <4>4. p.limit \in Nat /\ p.feeLimit \in Nat
        BY TokenBudgetAssumption
      <4>5. QED BY <2>2, <4>1, <4>2, <4>3, <4>4 DEF WithinLimits
    <3>3. CASE \E r \in Requests : Transaction(r)
      BY <2>2, <3>3, TransactionWithin
    <3>4. QED BY <3>1, <3>2, <3>3, TableWriters
  <2>3. QED BY <1>1, <2>1, <2>2
<1>4. QED BY <1>2, <1>3, BudgetInvariant, PTL DEF Spec

-----------------------------------------------------------------------------
(* What is charged was reported: with its fee, or without one.             *)
Reported(u) ==
  \E v \in Usages : /\ u.input = v.input /\ u.output = v.output
                    /\ u.fee \in {v.fee, 0}

ReportedOnly ==
  /\ \A v \in Reviewers : review[v].pc # "idle" => Reported(review[v].usage)
  /\ \A r \in Requests : decision[r].by # Nobody => Reported(decision[r].usage)

LEMMA MeteredReported ==
  ASSUME NEW r \in Requests, NEW u \in Usages
  PROVE  Reported(Metered(r, u))
<1>1. u \in Usage
  BY Amounts
<1>2. QED BY <1>1 DEF Reported, Metered, Usage

LEMMA ReportedInvariant == Spec => []ReportedOnly
<1>1. Init => ReportedOnly
  BY DEF Init, ReportedOnly, Away, NoDecision
<1>2. BudgetInv /\ ReportedOnly /\ [Next]_vars => ReportedOnly'
  <2> SUFFICES ASSUME BudgetInv, ReportedOnly, [Next]_vars PROVE ReportedOnly'
    OBVIOUS
  <2>1. ASSUME UNCHANGED <<review, decision>>
        PROVE  ReportedOnly'
    BY <2>1 DEF ReportedOnly
  <2>2. ASSUME NEW r \in Requests, RelayStep(r) \/ LateCommit(r) \/ Crash(r) \/ FinalizeUsageReview(r)
        PROVE  UNCHANGED <<review, decision>>
    BY <2>2 DEF RelayStep, CheckTokenBudgetAdmission, LookupTokenBudget, PrepareTokenBudgetDispatch,
                CommitTokenBudgetDispatch, DoRequest, UpstreamAnswers, SettleTokenBudgetUsage,
                HoldTokenBudgetUsage, FinalizeRead, FinalizeCancel, LateCommit, Crash,
                FinalizeUsageReview, actors
  <2>3. ASSUME NEW a \in Admins, ReadTokenBudget(a) \/ ConfigureTokenBudget(a)
        PROVE  UNCHANGED <<review, decision>>
    BY <2>3 DEF ReadTokenBudget, ConfigureTokenBudget
  <2>4. ASSUME NEW v \in Reviewers, CancelTokenBudgetBeforeSend(v)
        PROVE  UNCHANGED <<review, decision>>
    BY <2>4 DEF CancelTokenBudgetBeforeSend, actors
  <2>5. ASSUME NEW v \in Reviewers, ReconcileRead(v)
        PROVE  ReportedOnly'
    <3>1. PICK r \in Requests, u \in Usages, pc \in {"freeze", "decide"} :
            review' = [review EXCEPT ![v] = [pc |-> pc, req |-> r, usage |-> Metered(r, u)]]
      BY <2>5 DEF ReconcileRead
    <3>2. Reported(Metered(r, u)) /\ decision' = decision
      BY <2>5, MeteredReported DEF ReconcileRead
    <3>3. QED BY <3>1, <3>2 DEF ReportedOnly, BudgetInv, TypeOK
  <2>6. ASSUME NEW v \in Reviewers, ReconcileFreeze(v)
        PROVE  ReportedOnly'
    <3>1. /\ decision' = decision /\ \A w \in Reviewers \ {v} : review'[w] = review[w]
          /\ review'[v].pc # "idle" => review'[v].usage = review[v].usage
      BY <2>6 DEF ReconcileFreeze, BudgetInv, TypeOK, Review, Away
    <3>2. Reported(review[v].usage)
      BY <2>6 DEF ReportedOnly, ReconcileFreeze
    <3>3. QED BY <3>1, <3>2 DEF ReportedOnly
  <2>7. ASSUME NEW v \in Reviewers, ReconcileDecide(v)
        PROVE  ReportedOnly'
    <3>1. Reported(review[v].usage)
      BY <2>7 DEF ReportedOnly, ReconcileDecide
    <3>2. \A r \in Requests : decision'[r] = decision[r] \/ decision'[r].usage = review[v].usage
      BY <2>7 DEF ReconcileDecide, BudgetInv, TypeOK
    <3>3. review'[v].pc = "idle" /\ \A w \in Reviewers \ {v} : review'[w] = review[w]
      BY <2>7 DEF ReconcileDecide, BudgetInv, TypeOK, Away
    <3>4. QED BY <3>1, <3>2, <3>3 DEF ReportedOnly
  <2>8. CASE UNCHANGED vars
    BY <2>1, <2>8 DEF vars
  <2>9. QED BY <2>1, <2>2, <2>3, <2>4, <2>5, <2>6, <2>7, <2>8 DEF Next, ReviewStep
<1>3. QED BY <1>1, <1>2, BudgetInvariant, PTL DEF Spec

-----------------------------------------------------------------------------
(* The meter's view of the tables.                                         *)
View == <<budget.pending, [r \in Requests |-> Outcome(r)],
          [tokens |-> budget.used, fee |-> budget.feeUsed]>>

(* The meter does not see a transaction that changes neither the pending   *)
(* request nor a counter and leaves the row open.                          *)
LEMMA OpenStays ==
  ASSUME BudgetInv, NEW r \in Requests, NEW st \in {"sent", "usage_unknown"},
         row[r].state \in Unresolved, row' = [row EXCEPT ![r].state = st], budget' = Revised
  PROVE  UNCHANGED View
<1>1. /\ budget'.pending = budget.pending /\ budget'.used = budget.used
      /\ budget'.feeUsed = budget.feeUsed
  BY DEF Revised, BudgetInv, TypeOK, BudgetRow
<1>2. ASSUME NEW s \in Requests
      PROVE  Outcome(s)' = Outcome(s)
  <2>1. CASE s = r
    <3>1. row'[s].state = st
      BY <2>1 DEF BudgetInv, TypeOK, ReservationRow
    <3>2. QED BY <2>1, <3>1 DEF Outcome, Unresolved
  <2>2. CASE s # r
    BY <2>2 DEF Outcome, BudgetInv, TypeOK
  <2>3. QED BY <2>1, <2>2
<1>3. QED BY <1>1, <1>2 DEF View

(* A charge is the meter's charge of the same amounts.                     *)
LEMMA ChargeMetered ==
  ASSUME BudgetInv, NEW r \in Requests, NEW u \in Usage, Reported(u), NEW by, Owned(r), Charge(r, u, by)
  PROVE  Meter!Next
<1> DEFINE a == [tokens |-> u.input + u.output, fee |-> u.fee]
<1>1. a \in Spendable
  BY DEF Reported, Spendable
<1>2. /\ budget'.pending = Nobody /\ budget.pending = r
      /\ budget'.used = budget.used + u.input + u.output
      /\ budget'.feeUsed = budget.feeUsed + u.fee
      /\ budget.used \in Nat /\ u.input \in Nat /\ u.output \in Nat
  BY DEF Charge, Freed, Revised, BudgetInv, TypeOK, BudgetRow, Owned, Usage
<1>3. [tokens |-> budget'.used, fee |-> budget'.feeUsed]
        = [tokens |-> budget.used + a.tokens, fee |-> budget.feeUsed + a.fee]
  BY <1>2
<1>4. row'[r].state = "settled" /\ row'[r].actual = u /\ \A s \in Requests \ {r} : row'[s] = row[s]
  BY DEF Charge, BudgetInv, TypeOK, ReservationRow
<1>5. [s \in Requests |-> Outcome(s)]'
        = [[s \in Requests |-> Outcome(s)] EXCEPT ![r] = Meter!Charged(a)]
  BY <1>4 DEF Outcome, Meter!Charged
<1>6. Meter!Charge(r, a)
  BY <1>2, <1>3, <1>5 DEF Meter!Charge
<1>7. QED BY <1>1, <1>6, Zenon DEF Meter!Next

LEMMA TransactionMetered ==
  ASSUME BudgetInv, ReportedOnly, NEW r \in Requests, Transaction(r)
  PROVE  Meter!Next \/ UNCHANGED View
<1>1. CASE ReserveTokenBudget(r)
  <2>1. /\ budget.pending = Nobody /\ budget'.pending = r
        /\ budget'.used = budget.used /\ budget'.feeUsed = budget.feeUsed
    BY <1>1 DEF ReserveTokenBudget, Revised, BudgetInv, TypeOK, BudgetRow
  <2>2. Moves(r, {"none"}, "prepared")
    BY <1>1, ReserveTables DEF BudgetInv
  <2>3. ASSUME NEW s \in Requests
        PROVE  Outcome(s)' = Outcome(s)
    BY <2>2 DEF Moves, Outcome, BudgetInv, TypeOK
  <2>4. [s \in Requests |-> Outcome(s)][r] = Meter!Open
    BY <2>2 DEF Moves, Outcome, Meter!Open
  <2>5. Meter!Take(r)
    BY <2>1, <2>3, <2>4 DEF Meter!Take
  <2>6. QED BY <2>5 DEF Meter!Next
<1>2. CASE Send(r) \/ Hold(r)
  BY <1>2, OpenStays DEF Send, Hold, Unresolved
<1>3. ASSUME NEW by \in Reviewers \cup {Nobody}, Cancel(r, by)
      PROVE  Meter!Next
  <2>1. /\ budget.pending = r /\ budget'.pending = Nobody
        /\ budget'.used = budget.used /\ budget'.feeUsed = budget.feeUsed
    BY <1>3 DEF Cancel, Owned, Freed, Revised, BudgetInv, TypeOK, BudgetRow
  <2>2. row'[r].state = "not_sent" /\ \A s \in Requests \ {r} : row'[s] = row[s]
    BY <1>3 DEF Cancel, BudgetInv, TypeOK, ReservationRow
  <2>3. [s \in Requests |-> Outcome(s)]'
          = [[s \in Requests |-> Outcome(s)] EXCEPT ![r] = Meter!Released]
    BY <2>2 DEF Outcome, Meter!Released
  <2>4. Meter!Release(r)
    BY <2>1, <2>3 DEF Meter!Release
  <2>5. QED BY <2>4 DEF Meter!Next
<1>4. ASSUME NEW v \in Usages, Settle(r, Metered(r, v))
      PROVE  Meter!Next \/ UNCHANGED View
  <2> DEFINE u == Metered(r, v)
  <2>1. u \in Usage /\ Reported(u)
    BY MeteredType, MeteredReported, Amounts
  <2> HIDE DEF u
  <2>2. CASE WithinBound(row[r].bound, u) /\ u.fee <= row[r].feeReserved
    BY <1>4, <2>1, <2>2, ChargeMetered DEF Settle, u
  <2>3. CASE ~(WithinBound(row[r].bound, u) /\ u.fee <= row[r].feeReserved)
    BY <1>4, <2>3, OpenStays DEF Settle, Unresolved, u
  <2>4. QED BY <2>2, <2>3
<1>5. CASE decision[r].by # Nobody /\ Reconcile(r, decision[r].usage, decision[r].by)
  <2>1. decision[r].usage \in Usage /\ Reported(decision[r].usage)
    BY <1>5 DEF BudgetInv, TypeOK, ReportedOnly
  <2>2. QED BY <1>5, <2>1, ChargeMetered DEF Reconcile
<1>6. QED BY <1>1, <1>2, <1>3, <1>4, <1>5 DEF Transaction

(* The budget implements the strict meter: each request takes it alone, is *)
(* charged or released at most once, and the counters move by exactly      *)
(* those charges, for any number of requests and any lost replies.         *)
THEOREM MeterImplemented == Spec => ImplementsMeter
<1>1. Init => Meter!Init
  BY DEF Init, Meter!Init, NoBudget, NoRow, Outcome, Meter!Open
<1>2. BudgetInv /\ ReportedOnly /\ [Next]_vars => [Meter!Next]_View
  <2> SUFFICES ASSUME BudgetInv, ReportedOnly, [Next]_vars
               PROVE  Meter!Next \/ UNCHANGED View
    OBVIOUS
  <2>1. CASE UNCHANGED <<budget, row>>
    BY <2>1 DEF View, Outcome
  <2>2. CASE PolicyChange
    BY <2>2 DEF PolicyChange, View, Outcome, Revised, BudgetInv, TypeOK, BudgetRow
  <2>3. CASE \E r \in Requests : Transaction(r)
    BY <2>3, TransactionMetered
  <2>4. QED BY <2>1, <2>2, <2>3, TableWriters
<1>3. QED BY <1>1, <1>2, BudgetInvariant, ReportedInvariant, PTL
          DEF Spec, ImplementsMeter, Meter!Spec, View
=============================================================================
