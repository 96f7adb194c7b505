---------------------------- MODULE TokenBudget -----------------------------
(***************************************************************************)
(* Strict budgets of one API token: a hard limit on tokens and on USD fees *)
(* that admits one unresolved request at a time.  A request is reserved at *)
(* its largest possible usage, marked sent immediately before the upstream *)
(* call, and then settled, held for review, or cancelled as never sent.    *)
(*                                                                         *)
(* Sources: model/token_budget.go and model/fee_budget.go (the rows and    *)
(* their transactions), service/token_budget.go, service/text_quota.go and *)
(* controller/relay.go (the relay goroutine), middleware/token_budget.go   *)
(* (admission), model/token_budget_review.go and model/usage_review.go     *)
(* (manual cancellation and reconciliation).                               *)
(*                                                                         *)
(* Every budget transaction locks the token and the budget row, so it is   *)
(* one step; what relay goroutines, administrators and reviewers do        *)
(* between two transactions interleaves.  A transaction whose reply is     *)
(* lost (5 s operation timeout, broken connection) may still commit at any *)
(* later moment, or never.                                                 *)
(***************************************************************************)
EXTENDS Naturals, FiniteSets

CONSTANTS
  Requests,      \* strict relay requests of the token
  Admins,        \* administrators that change the policy
  Reviewers,     \* root users that reconcile usage
  Bounds,        \* [source, input, maxOutput] a request may be counted at
  Usages,        \* [input, output, fee] an upstream or a reviewer may report
  Fees,          \* largest USD fees of a request
  Policies,      \* [enabled, limit, setFee, feeEnabled, feeLimit] of an input
  ChatContext,   \* TokenBudgetOpenAIChatContext
  MaxTokenBudget,
  MaxRevision,   \* bound: revision up to which policies are changed
  MaxFaults      \* bound: replies a request's goroutine loses

Nobody == "nobody"
BoundType == [source : {"responses", "chat"}, input : Nat, maxOutput : Nat]
Usage == [input : Nat, output : Nat, fee : Nat]
NoUsage == [input |-> 0, output |-> 0, fee |-> 0]

ASSUME TokenBudgetAssumption ==
  /\ Nobody \notin Requests \cup Reviewers
  /\ Bounds \subseteq BoundType
  /\ \A b \in Bounds : b.source = "chat" => b.input = ChatContext
  /\ Usages \subseteq Usage /\ Fees \subseteq Nat
  /\ Policies \subseteq [enabled : BOOLEAN, limit : Nat, setFee : BOOLEAN,
                         feeEnabled : BOOLEAN, feeLimit : Nat]
  /\ ChatContext \in Nat /\ MaxTokenBudget \in Nat /\ MaxRevision \in Nat
  /\ MaxFaults \in Nat

VARIABLES
  budget,    \* token_budgets row; revision 0 before its first policy
  row,       \* token_budget_reservations
  relay,     \* the request's goroutine: position, fee policy it looked up, faults
  late,      \* transactions sent by the goroutine whose reply was lost
  called,    \* has the upstream been called for the request?
  draft,     \* the policy an administrator has read and is changing
  review,    \* a reviewer's position, request and amounts
  decision   \* usage_review_decisions

vars == <<budget, row, relay, late, called, draft, review, decision>>

Unresolved == {"prepared", "sent", "usage_unknown"}
Final == {"settled", "not_sent"}
Ops == {"reserve", "send", "settle", "hold", "cancel"}

NoBudget == [revision |-> 0, enabled |-> FALSE, limit |-> 0, used |-> 0, reserved |-> 0,
             pending |-> Nobody, feeEnabled |-> FALSE, feeLimit |-> 0, feeUsed |-> 0,
             feeReserved |-> 0]
NoRow == [state |-> "none", bound |-> [source |-> "responses", input |-> 0, maxOutput |-> 0],
          reserved |-> 0, fee |-> FALSE, feeReserved |-> 0, actual |-> NoUsage,
          reviewedBy |-> Nobody]
NoDecision == [by |-> Nobody, usage |-> NoUsage]
Away == [pc |-> "idle", req |-> Nobody, usage |-> NoUsage]

BudgetRow ==
  [revision : Nat, enabled : BOOLEAN, limit : Nat, used : Nat, reserved : Nat,
   pending : Requests \cup {Nobody}, feeEnabled : BOOLEAN, feeLimit : Nat, feeUsed : Nat,
   feeReserved : Nat]
ReservationRow ==
  [state : {"none"} \cup Unresolved \cup Final, bound : BoundType, reserved : Nat,
   fee : BOOLEAN, feeReserved : Nat, actual : Usage, reviewedBy : Reviewers \cup {Nobody}]
Relay ==
  [pc : {"idle", "admitted", "looked", "reserved", "sending", "called", "settle", "hold",
         "exit", "cancel", "lastHold", "held", "released", "dead"},
   fee : BOOLEAN, faults : Nat]
Review == [pc : {"idle", "freeze", "decide"}, req : Requests \cup {Nobody}, usage : Usage]

(* Well-formedness of the rows and of what the actors hold in memory.      *)
TypeOK ==
  /\ budget \in BudgetRow
  /\ row \in [Requests -> ReservationRow]
  /\ relay \in [Requests -> Relay]
  /\ late \in [Requests -> SUBSET Ops]
  /\ called \in [Requests -> BOOLEAN]
  /\ draft \in [Admins -> [open : BOOLEAN, seen : BudgetRow]]
  /\ review \in [Reviewers -> Review]
  /\ decision \in [Requests -> [by : Reviewers \cup {Nobody}, usage : Usage]]

Init ==
  /\ budget = NoBudget
  /\ row = [r \in Requests |-> NoRow]
  /\ relay = [r \in Requests |-> [pc |-> "idle", fee |-> FALSE, faults |-> 0]]
  /\ late = [r \in Requests |-> {}]
  /\ called = [r \in Requests |-> FALSE]
  /\ draft = [a \in Admins |-> [open |-> FALSE, seen |-> NoBudget]]
  /\ review = [v \in Reviewers |-> Away]
  /\ decision = [r \in Requests |-> NoDecision]

-----------------------------------------------------------------------------
(* What a request can use at most.  The context window of a chat request   *)
(* holds its input and its output.                                         *)
Bound(b) == IF b.source = "chat" THEN ChatContext ELSE b.input + b.maxOutput

(* Mutant: the output alone is compared with the window.                   *)
WithinBoundLoose(b, u) == u.input <= b.input /\ u.output <= Bound(b)

(* Is a reported usage one the reservation stands for?                     *)
WithinBound(b, u) ==
  IF b.source = "chat"
  THEN u.input <= b.input /\ u.output <= b.maxOutput /\ u.input + u.output <= Bound(b)
  ELSE u.input = b.input /\ u.output <= b.maxOutput

(* The fee part exists only under a fee budget.                            *)
Metered(r, u) == IF row[r].fee THEN u ELSE [u EXCEPT !.fee = 0]

(* The budget still carries this request's reservation.                    *)
Owned(r) ==
  /\ budget.pending = r /\ budget.reserved = row[r].reserved
  /\ budget.feeEnabled = row[r].fee /\ budget.feeReserved = row[r].feeReserved

(* Mutant: the revision does not move.                                     *)
SameRevision == budget

(* A new revision of the budget, with and without the reservation.         *)
Revised == [budget EXCEPT !.revision = @ + 1]
Freed == [Revised EXCEPT !.pending = Nobody, !.reserved = 0, !.feeReserved = 0]

(* ReserveTokenBudget: the only unresolved request, at its bound, within   *)
(* what the limits have left, under the fee policy it was prepared for.    *)
ReserveTokenBudget(r) ==
  /\ budget.enabled \/ budget.feeEnabled
  /\ row[r].state = "none"
  /\ budget.pending = Nobody /\ budget.reserved = 0
  /\ budget.feeEnabled = relay[r].fee
  /\ \E b \in Bounds, f \in IF budget.feeEnabled THEN Fees ELSE {0} :
       /\ budget.enabled => budget.used + Bound(b) <= budget.limit
       /\ budget.feeEnabled => budget.feeUsed + f <= budget.feeLimit
       /\ row' = [row EXCEPT ![r] = [NoRow EXCEPT !.state = "prepared", !.bound = b,
                                       !.reserved = Bound(b), !.fee = budget.feeEnabled,
                                       !.feeReserved = f]]
       /\ budget' = [Revised EXCEPT !.pending = r, !.reserved = Bound(b), !.feeReserved = f]

(* MutateTokenBudgetRequest, action send.                                  *)
Send(r) ==
  /\ Owned(r) /\ row[r].state = "prepared"
  /\ row' = [row EXCEPT ![r].state = "sent"]
  /\ budget' = Revised

(* Action cancel: only a request that is still prepared.                   *)
Cancel(r, by) ==
  /\ Owned(r) /\ row[r].state = "prepared"
  /\ row' = [row EXCEPT ![r].state = "not_sent", ![r].reviewedBy = by]
  /\ budget' = Freed

(* Mutant: a held request frees the budget for the next one.               *)
HoldFreeing(r) ==
  /\ Owned(r) /\ row[r].state = "sent"
  /\ row' = [row EXCEPT ![r].state = "usage_unknown"]
  /\ budget' = Freed

(* Mutant: the reason is written to the state column.                      *)
HoldReasonAsState(r) ==
  /\ Owned(r) /\ row[r].state = "sent"
  /\ row' = [row EXCEPT ![r].state = "missing"]
  /\ budget' = Revised

(* Action hold: the usage of a sent request stays unknown.                 *)
Hold(r) ==
  /\ Owned(r) /\ row[r].state = "sent"
  /\ row' = [row EXCEPT ![r].state = "usage_unknown"]
  /\ budget' = Revised

(* Settle the request at u and add it to the usage counters.               *)
Charge(r, u, by) ==
  /\ budget.used + u.input + u.output <= MaxTokenBudget
  /\ row' = [row EXCEPT ![r].state = "settled", ![r].actual = u, ![r].reviewedBy = by]
  /\ budget' = [Freed EXCEPT !.used = @ + u.input + u.output, !.feeUsed = @ + u.fee]

(* Mutant: a repeated settlement is not recognised.                        *)
SettleAgain(r, u) ==
  /\ row[r].state \in {"sent", "settled"}
  /\ Charge(r, u, Nobody)

(* Action settle: a usage outside the bound becomes unknown instead.       *)
Settle(r, u) ==
  /\ Owned(r) /\ row[r].state = "sent"
  /\ IF WithinBound(row[r].bound, u) /\ u.fee <= row[r].feeReserved
     THEN Charge(r, u, Nobody)
     ELSE /\ row' = [row EXCEPT ![r].state = "usage_unknown"]
          /\ budget' = Revised

(* Action reconcile: a reviewer's amounts, whatever the bound.             *)
Reconcile(r, u, by) ==
  /\ Owned(r) /\ row[r].state \in {"sent", "usage_unknown"}
  /\ Charge(r, u, by)

-----------------------------------------------------------------------------
(* The relay goroutine.                                                    *)
At(r, pc) == relay[r].pc = pc
GoTo(r, pc) == relay' = [relay EXCEPT ![r].pc = pc]

(* The reply of a transaction is lost: it may commit later.                *)
Lost(r, op, pc) ==
  /\ relay[r].faults < MaxFaults
  /\ relay' = [relay EXCEPT ![r].pc = pc, ![r].faults = @ + 1]
  /\ late' = [late EXCEPT ![r] = @ \cup {op}]
  /\ UNCHANGED <<budget, row>>

actors == <<draft, review, decision>>

(* checkTokenBudgetAdmission and the lookups before the reservation; the   *)
(* budget may have changed when the reservation commits.                   *)
CheckTokenBudgetAdmission(r) ==
  /\ At(r, "idle")
  /\ budget.enabled \/ budget.feeEnabled
  /\ budget.pending = Nobody /\ budget.reserved = 0
  /\ budget.enabled => budget.used < budget.limit
  /\ budget.feeEnabled => budget.feeUsed < budget.feeLimit
  /\ GoTo(r, "admitted")
  /\ UNCHANGED <<budget, row, late, called, actors>>

LookupTokenBudget(r) ==
  /\ At(r, "admitted")
  /\ relay' = [relay EXCEPT ![r].pc = "looked", ![r].fee = budget.feeEnabled]
  /\ UNCHANGED <<budget, row, late, called, actors>>

(* PrepareTokenBudgetDispatch: reserve, or leave the relay.                *)
PrepareTokenBudgetDispatch(r) ==
  /\ At(r, "looked")
  /\ \/ ReserveTokenBudget(r) /\ GoTo(r, "reserved") /\ UNCHANGED late
     \/ Lost(r, "reserve", "exit")
     \/ GoTo(r, "exit") /\ UNCHANGED <<budget, row, late>>
  /\ UNCHANGED <<called, actors>>

(* Mutant: the relay goes on when the commit's reply is lost.              *)
CommitTokenBudgetDispatchOptimistic(r) ==
  /\ At(r, "reserved")
  /\ \/ Send(r) /\ GoTo(r, "sending") /\ UNCHANGED late
     \/ Lost(r, "send", "sending")
  /\ UNCHANGED <<called, actors>>

(* CommitTokenBudgetDispatch: the upstream is called only after the sent   *)
(* mark is known to be durable.  A failed check before it, or a refusal,   *)
(* leaves the relay.                                                       *)
CommitTokenBudgetDispatch(r) ==
  /\ At(r, "reserved")
  /\ \/ Send(r) /\ GoTo(r, "sending") /\ UNCHANGED late
     \/ Lost(r, "send", "exit")
     \/ GoTo(r, "exit") /\ UNCHANGED <<budget, row, late>>
  /\ UNCHANGED <<called, actors>>

(* The upstream call, or the subscription share gate refuses it.           *)
DoRequest(r) ==
  /\ At(r, "sending")
  /\ \/ GoTo(r, "called") /\ called' = [called EXCEPT ![r] = TRUE]
     \/ GoTo(r, "exit") /\ UNCHANGED called
  /\ UNCHANGED <<budget, row, late, actors>>

(* The answer carries qualified usage, doubtful usage, or is an error.     *)
UpstreamAnswers(r) ==
  /\ At(r, "called")
  /\ \E pc \in {"settle", "hold", "exit"} : GoTo(r, pc)
  /\ UNCHANGED <<budget, row, late, called, actors>>

(* SettleTokenBudgetUsage; a refusal, and everything else but success,     *)
(* continues with a hold.                                                  *)
SettleTokenBudgetUsage(r) ==
  /\ At(r, "settle")
  /\ \/ \E u \in Usages :
          /\ Settle(r, Metered(r, u))
          /\ GoTo(r, IF row'[r].state = "settled" THEN "exit" ELSE "hold")
          /\ UNCHANGED late
     \/ Lost(r, "settle", "hold")
     \/ GoTo(r, "hold") /\ UNCHANGED <<budget, row, late>>
  /\ UNCHANGED <<called, actors>>

(* HoldTokenBudgetUsage, after an answer or as the last resort of the      *)
(* finalization; a failure is only logged.                                 *)
HoldTokenBudgetUsage(r) ==
  /\ At(r, "hold") \/ At(r, "lastHold")
  /\ LET next == IF At(r, "hold") THEN "exit" ELSE "held"
     IN \/ Hold(r) /\ GoTo(r, next) /\ UNCHANGED late
        \/ Lost(r, "hold", next)
        \/ /\ ~(Owned(r) /\ row[r].state = "sent")
           /\ GoTo(r, next) /\ UNCHANGED <<budget, row, late>>
  /\ UNCHANGED <<called, actors>>

(* Mutant: the finalization leaves a sent request as it is.                *)
FinalizeReadSentHeld(r) ==
  /\ At(r, "exit")
  /\ LET s == row[r].state
     IN \/ s \in Final \cup {"none"} /\ GoTo(r, "released")
        \/ s = "prepared" /\ GoTo(r, "cancel")
        \/ s \in {"usage_unknown", "sent"} /\ GoTo(r, "held")
  /\ UNCHANGED <<budget, row, late, called, actors>>

(* FinalizeTokenBudgetDispatch reads the row without a lock; released      *)
(* permits the ordinary quota refund, held forbids it.  A failed read is   *)
(* treated like a request that was sent.                                   *)
FinalizeRead(r) ==
  /\ At(r, "exit")
  /\ LET s == row[r].state
     IN \/ s \in Final \cup {"none"} /\ GoTo(r, "released")
        \/ s = "prepared" /\ GoTo(r, "cancel")
        \/ s = "usage_unknown" /\ GoTo(r, "held")
        \/ s = "sent" /\ GoTo(r, "lastHold")
        \/ /\ relay[r].faults < MaxFaults
           /\ relay' = [relay EXCEPT ![r].pc = "lastHold", ![r].faults = @ + 1]
  /\ UNCHANGED <<budget, row, late, called, actors>>

(* The cancellation of a row read as prepared.                             *)
FinalizeCancel(r) ==
  /\ At(r, "cancel")
  /\ \/ Cancel(r, Nobody) /\ GoTo(r, "released") /\ UNCHANGED late
     \/ Lost(r, "cancel", "lastHold")
     \/ /\ ~(Owned(r) /\ row[r].state = "prepared")
        /\ GoTo(r, "lastHold") /\ UNCHANGED <<budget, row, late>>
  /\ UNCHANGED <<called, actors>>

(* A transaction whose reply was lost commits after all.                   *)
LateCommit(r) ==
  /\ \E op \in late[r] :
       /\ \/ op = "reserve" /\ ReserveTokenBudget(r)
          \/ op = "send" /\ Send(r)
          \/ op = "settle" /\ \E u \in Usages : Settle(r, Metered(r, u))
          \/ op = "hold" /\ Hold(r)
          \/ op = "cancel" /\ Cancel(r, Nobody)
       /\ late' = [late EXCEPT ![r] = @ \ {op}]
  /\ UNCHANGED <<relay, called, actors>>

(* The node dies with the goroutine.                                       *)
Crash(r) ==
  /\ relay[r].pc \notin {"idle", "held", "released", "dead"}
  /\ GoTo(r, "dead")
  /\ UNCHANGED <<budget, row, late, called, actors>>

-----------------------------------------------------------------------------
(* An administrator reads the policy, ...                                  *)
ReadTokenBudget(a) ==
  /\ ~draft[a].open /\ budget.revision < MaxRevision
  /\ draft' = [draft EXCEPT ![a] = [open |-> TRUE, seen |-> budget]]
  /\ UNCHANGED <<budget, row, relay, late, called, review, decision>>

(* ... and ConfigureTokenBudget changes it if its revision is the one      *)
(* read and no request is unresolved; otherwise the change is refused.     *)
ConfigureTokenBudget(a) ==
  /\ draft[a].open
  /\ \/ \E p \in Policies :
          /\ budget.revision = draft[a].seen.revision /\ budget.pending = Nobody
          /\ p.enabled => p.limit >= budget.used
          /\ p.setFee /\ p.feeEnabled => budget.feeUsed <= p.feeLimit
          /\ budget' = [Revised EXCEPT
                          !.enabled = p.enabled, !.limit = p.limit,
                          !.feeEnabled = IF p.setFee THEN p.feeEnabled ELSE @,
                          !.feeLimit = IF p.setFee THEN p.feeLimit ELSE @]
     \/ UNCHANGED budget
  /\ draft' = [draft EXCEPT ![a] = [open |-> FALSE, seen |-> NoBudget]]
  /\ UNCHANGED <<row, relay, late, called, review, decision>>

(* CancelTokenBudgetBeforeSend: a root user attests that a prepared        *)
(* request was not sent.                                                   *)
CancelTokenBudgetBeforeSend(v) ==
  /\ \E r \in Requests : Cancel(r, v)
  /\ UNCHANGED <<relay, late, called, actors>>

(* Mutant: the review does not freeze a sent request first.                *)
ReconcileReadNoFreeze(v) ==
  /\ review[v].pc = "idle"
  /\ \E r \in Requests, u \in Usages :
       LET m == Metered(r, u)
       IN /\ row[r].state \in {"sent", "usage_unknown", "settled"}
          /\ row[r].state = "settled" => row[r].actual = m
          /\ decision[r].by = Nobody
          /\ review' = [review EXCEPT ![v] = [pc |-> "decide", req |-> r, usage |-> m]]
  /\ UNCHANGED <<budget, row, relay, late, called, draft, decision>>

(* ReconcileUsageReview reads the request; a settled one only confirms its *)
(* amounts.  A review that has its decision only replays the last step.    *)
ReconcileRead(v) ==
  /\ review[v].pc = "idle"
  /\ \E r \in Requests, u \in Usages :
       LET m == Metered(r, u)
       IN /\ row[r].state \in {"sent", "usage_unknown", "settled"}
          /\ row[r].state = "settled" => row[r].actual = m
          /\ decision[r].by = Nobody
          /\ review' = [review EXCEPT ![v] =
                          [pc |-> IF row[r].state = "sent" THEN "freeze" ELSE "decide",
                           req |-> r, usage |-> m]]
  /\ UNCHANGED <<budget, row, relay, late, called, draft, decision>>

(* Automatic settlement is frozen before the decision: hold a request read *)
(* as sent, or give up when it has been settled since.                     *)
ReconcileFreeze(v) ==
  /\ review[v].pc = "freeze"
  /\ LET r == review[v].req
     IN \/ /\ Hold(r)
           /\ review' = [review EXCEPT ![v].pc = "decide"]
        \/ /\ Owned(r) /\ row[r].state = "usage_unknown"
           /\ review' = [review EXCEPT ![v].pc = "decide"]
           /\ UNCHANGED <<budget, row>>
        \/ /\ review' = [review EXCEPT ![v] = Away]
           /\ UNCHANGED <<budget, row>>
  /\ UNCHANGED <<relay, late, called, draft, decision>>

(* The first decision of a request is the only one.                        *)
ReconcileDecide(v) ==
  /\ review[v].pc = "decide"
  /\ LET r == review[v].req
     IN \/ /\ decision[r].by = Nobody
           /\ decision' = [decision EXCEPT ![r] = [by |-> v, usage |-> review[v].usage]]
        \/ UNCHANGED decision
  /\ review' = [review EXCEPT ![v] = Away]
  /\ UNCHANGED <<budget, row, relay, late, called, draft>>

(* finalizeUsageReviewTokenBudget, by the reviewer or by the projection    *)
(* that replays it: the decision's amounts settle the request.             *)
FinalizeUsageReview(r) ==
  /\ decision[r].by # Nobody
  /\ Reconcile(r, decision[r].usage, decision[r].by)
  /\ UNCHANGED <<relay, late, called, actors>>

RelayStep(r) ==
  \/ CheckTokenBudgetAdmission(r) \/ LookupTokenBudget(r)
  \/ PrepareTokenBudgetDispatch(r) \/ CommitTokenBudgetDispatch(r)
  \/ DoRequest(r) \/ UpstreamAnswers(r)
  \/ SettleTokenBudgetUsage(r) \/ HoldTokenBudgetUsage(r)
  \/ FinalizeRead(r) \/ FinalizeCancel(r)

ReviewStep(v) ==
  \/ CancelTokenBudgetBeforeSend(v)
  \/ ReconcileRead(v) \/ ReconcileFreeze(v) \/ ReconcileDecide(v)

Next ==
  \/ \E r \in Requests :
       RelayStep(r) \/ LateCommit(r) \/ Crash(r) \/ FinalizeUsageReview(r)
  \/ \E a \in Admins : ReadTokenBudget(a) \/ ConfigureTokenBudget(a)
  \/ \E v \in Reviewers : ReviewStep(v)

Spec == Init /\ [][Next]_vars

-----------------------------------------------------------------------------
(* The budget row and the reservation rows agree on the one request that   *)
(* blocks the token: a request is unresolved exactly while it is the       *)
(* pending one, and its reservation is exactly what the budget reserves.   *)
PendingAgreement ==
  /\ \A r \in Requests :
       row[r].state \in Unresolved <=> budget.pending = r
  /\ \A r \in Requests : row[r].state \in Unresolved => Owned(r)
  /\ budget.pending = Nobody => budget.reserved = 0 /\ budget.feeReserved = 0

(* "A sent request can never be released": once the upstream has been      *)
(* called, the request is never cancelled as unsent, by relay, root user   *)
(* or late transaction, and the quota refund is permitted only if it was   *)
(* settled.                                                                *)
CalledNeverReleased ==
  \A r \in Requests :
    called[r] => /\ row[r].state \in {"sent", "usage_unknown", "settled"}
                 /\ relay[r].pc = "released" => row[r].state = "settled"

(* While a limit is enabled, what is used and reserved stays within it,    *)
(* unless a reviewer recorded a usage above the bound the request was      *)
(* admitted with: no order of admissions, late commits, settlements and    *)
(* policy changes overruns it.                                             *)
LimitRespected ==
  \/ \E r \in Requests :
       /\ row[r].reviewedBy # Nobody
       /\ \/ row[r].actual.input + row[r].actual.output > row[r].reserved
          \/ row[r].actual.fee > row[r].feeReserved
  \/ /\ budget.enabled => budget.used + budget.reserved <= budget.limit
     /\ budget.feeEnabled => budget.feeUsed + budget.feeReserved <= budget.feeLimit

(* The recorded decision of a review and the settled amounts never differ: *)
(* an automatic settlement cannot slip in between the reviewer's read and  *)
(* the decision (ReconcileUsageReview freezes it first).                   *)
DecisionMatchesSettlement ==
  \A r \in Requests :
    decision[r].by # Nobody /\ row[r].state = "settled" => row[r].actual = decision[r].usage

(* A relay that was not disturbed by a fault leaves nothing behind that    *)
(* blocks the token silently: its request is settled, cancelled or held    *)
(* for review, never left prepared or sent.                                *)
CleanExitResolves ==
  \A r \in Requests :
    relay[r].pc \in {"held", "released"} /\ relay[r].faults = 0
      => row[r].state \notin {"prepared", "sent"}

(* A policy change is applied to the budget its author has read: every     *)
(* mutation moves the revision that ConfigureTokenBudget compares, so a    *)
(* draft whose revision is still current shows what the budget really is.  *)
PolicyReadIsCurrent ==
  \A a \in Admins :
    draft[a].open /\ draft[a].seen.revision = budget.revision => draft[a].seen = budget

(* The strict meter that the rows represent.                               *)
Outcome(r) ==
  LET u == row[r].actual
  IN CASE row[r].state = "settled" -> [kind |-> "charged", tokens |-> u.input + u.output,
                                       fee |-> u.fee]
       [] row[r].state = "not_sent" -> [kind |-> "released", tokens |-> 0, fee |-> 0]
       [] OTHER -> [kind |-> "open", tokens |-> 0, fee |-> 0]

(* What a request can be charged: a usage, or its tokens without its fee.  *)
Spendable ==
  {[tokens |-> u.input + u.output, fee |-> u.fee] : u \in Usages}
    \cup {[tokens |-> u.input + u.output, fee |-> 0] : u \in Usages}

Meter == INSTANCE StrictMeter WITH
  Amounts <- Spendable,
  holder <- budget.pending,
  outcome <- [r \in Requests |-> Outcome(r)],
  total <- [tokens |-> budget.used, fee |-> budget.feeUsed]

(* The budget implements the strict meter: whatever replies are lost,      *)
(* transactions commit late, reviewers and administrators do, each request *)
(* takes the budget alone, is charged or released at most once, and the    *)
(* usage counters move by exactly those charges.                           *)
ImplementsMeter == Meter!Spec
=============================================================================
