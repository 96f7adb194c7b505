---------------------------- MODULE AccountQuota ----------------------------
(***************************************************************************)
(* The authoritative account quota kernel: reserving, extending, settling  *)
(* and refunding the quota of relay requests against one user's wallet,    *)
(* one subscription and one token, the lifecycle obligation committed with *)
(* every reservation, and the background workers that finish refunds.      *)
(*                                                                         *)
(* Sources: model/account_quota_mutation.go (the four mutations),          *)
(* model/account_quota_recovery.go (obligation, refund intent, recovery    *)
(* workers), model/text_dispatch.go (dispatch evidence),                   *)
(* model/account_quota_usage_review.go (unknown usage, reviewed            *)
(* settlement), model/subscription.go (plan resets).                       *)
(*                                                                         *)
(* Every operation is one database transaction that locks user, token,     *)
(* subscription, head and obligation rows in this order and compares row   *)
(* versions when it writes, so it is one step here; a call that is refused *)
(* or finds its own receipt again changes no row.  Calls come from request *)
(* goroutines, retries and workers in any order, which is why nothing      *)
(* constrains when an action may be tried.  The receipt rows of a request  *)
(* form one chain (reserve, adjustments, terminal) and are numbered 1, 2,  *)
(* ... within it.  Whether user and token are enabled gates only the       *)
(* reservation; a disabled subject is a reservation that does not happen.  *)
(* The writer epoch is constant here.                                      *)
(***************************************************************************)
EXTENDS Integers, FiniteSets, Functions

CONSTANTS
  Requests, Workers,
  Quotas,          \* bound: quota amounts a caller may name
  Audits,          \* audit keys of refund callers
  Profiles,        \* [free, selfUse, playground, trust : BOOLEAN, pref : Preferences]
  InitUser, InitRemain,  \* wallet balance and token balance at the start
  SubTotal,        \* subscription amount_total, 0 means unlimited
  Overflow,        \* allow_wallet_overflow of the subscription
  UnlimitedToken,  \* tokens.unlimited_quota
  TrustQuota,      \* balances above it skip the hold of a trusted caller
  MaxBalance,      \* common.MaxQuotaBalance
  ChainDepth,      \* receipts a chain walk looks at before it gives up
  Resets,          \* does the subscription's plan reset its usage?
  MaxFaults,       \* bound: transient failures and worker crashes
  MaxVersion       \* bound: lock_version up to which evidence is rewritten

Preferences == {"wallet_only", "wallet_first", "subscription_only", "subscription_first"}

Profile == [free : BOOLEAN, selfUse : BOOLEAN, playground : BOOLEAN,
            trust : BOOLEAN, pref : Preferences]

ASSUME AccountQuotaAssumption ==
  /\ Requests # {} /\ IsFiniteSet(Requests) /\ Quotas \subseteq Nat
  /\ Profiles \subseteq Profile
  /\ MaxBalance \in Nat /\ InitUser \in 0 .. MaxBalance /\ InitRemain \in 0 .. MaxBalance
  /\ SubTotal \in Nat /\ TrustQuota \in Nat /\ ChainDepth \in Nat \ {0}
  /\ MaxFaults \in Nat /\ MaxVersion \in Nat
  /\ Overflow \in BOOLEAN /\ UnlimitedToken \in BOOLEAN /\ Resets \in BOOLEAN

VARIABLES
  user,     \* users.quota
  remain,   \* tokens.remain_quota
  used,     \* tokens.used_quota
  subUsed,  \* user_subscriptions.amount_used
  head,     \* account_quota_reservation_heads with the terminal receipt
  ob,       \* account_quota_terminal_recovery_obligations
  work,     \* a recovery worker's position and the row it has read
  faults    \* failures injected so far

balances == <<user, remain, used, subUsed>>
vars == <<user, remain, used, subUsed, head, ob, work, faults>>

NoOne == "nobody"
RefundStates == {"refund_pending", "retryable", "claimed"}
Sources == {"free", "self_use", "wallet", "subscription"}

NoHead == [current |-> 0, applied |-> 0, source |-> "free", playground |-> FALSE,
           term |-> "none", actual |-> 0]
NoObligation == [state |-> "none", receipt |-> 0, audit |-> NoOne,
                 pending |-> "none", owner |-> NoOne, live |-> FALSE, version |-> 0]
Resting == [pc |-> "idle", req |-> NoOne, snap |-> NoObligation]

HeadRow == [current : Nat, applied : Nat, source : Sources, playground : BOOLEAN,
         term : {"none", "settle", "refund"}, actual : Nat]
ObligationRow ==
  [state : {"none", "open", "usage_unknown", "manual", "applied"} \cup RefundStates,
   receipt : Nat, audit : Audits \cup {NoOne},
   pending : {"none", "text", "realtime"},
   owner : Workers \cup {NoOne}, live : BOOLEAN, version : Nat]
Worker == [pc : {"idle", "read", "claimed", "done", "failed"},
           req : Requests \cup {NoOne}, snap : ObligationRow]

(* Well-formedness of every row and of what the workers hold in memory.    *)
TypeOK ==
  /\ user \in Int /\ remain \in Int /\ used \in Nat /\ subUsed \in Nat
  /\ head \in [Requests -> HeadRow]
  /\ ob \in [Requests -> ObligationRow]
  /\ work \in [Workers -> Worker]
  /\ \A w \in Workers : work[w].pc # "idle" => work[w].req \in Requests
  /\ faults \in Nat

Init ==
  /\ user = InitUser /\ remain = InitRemain /\ used = 0 /\ subUsed = 0
  /\ head = [r \in Requests |-> NoHead]
  /\ ob = [r \in Requests |-> NoObligation]
  /\ work = [w \in Workers |-> Resting]
  /\ faults = 0

-----------------------------------------------------------------------------
(* accountQuotaRequestedDeltas: what an amount q of a source takes from    *)
(* the wallet, the subscription and the token.                             *)
WalletPart(src, q) == IF src = "wallet" THEN q ELSE 0
SubPart(src, q) == IF src = "subscription" THEN q ELSE 0
TokenPart(src, pg, q) == IF src = "free" \/ pg THEN 0 ELSE q

(* accountQuotaAfter: balances stay within +-MaxBalance, usage counters    *)
(* within 0 .. MaxBalance; subscription usage starts from base.            *)
Fits(src, pg, q, base) ==
  /\ user - WalletPart(src, q) \in (-MaxBalance) .. MaxBalance
  /\ remain - TokenPart(src, pg, q) \in (-MaxBalance) .. MaxBalance
  /\ used + TokenPart(src, pg, q) \in 0 .. MaxBalance
  /\ SubPart(src, q) # 0 => base + SubPart(src, q) \in 0 .. MaxBalance

(* Mutant: the token's two columns are not moved together.                 *)
ApplyUsedOnly(src, pg, q, base) ==
  /\ Fits(src, pg, q, base)
  /\ user' = user - WalletPart(src, q)
  /\ remain' = IF q < 0 THEN remain ELSE remain - TokenPart(src, pg, q)
  /\ used' = used + TokenPart(src, pg, q)
  /\ subUsed' = base + SubPart(src, q)

(* Mutant: a subscription whose usage cannot give q back, as after a plan  *)
(* reset, is left out of the transaction instead of failing it.            *)
ApplySkipping(src, pg, q, base) ==
  LET usage == base + SubPart(src, q)
  IN /\ Fits(IF usage < 0 THEN "self_use" ELSE src, pg, q, base)
     /\ user' = user - WalletPart(src, q)
     /\ remain' = remain - TokenPart(src, pg, q)
     /\ used' = used + TokenPart(src, pg, q)
     /\ subUsed' = IF usage < 0 THEN base ELSE usage

(* applyAccountQuotaBalances: charge q (give back when q is negative).     *)
Apply(src, pg, q, base) ==
  /\ Fits(src, pg, q, base)
  /\ user' = user - WalletPart(src, q)
  /\ remain' = remain - TokenPart(src, pg, q)
  /\ used' = used + TokenPart(src, pg, q)
  /\ subUsed' = base + SubPart(src, q)

WalletFirst(p) == p.pref \in {"wallet_only", "wallet_first"}

(* Does the selection look at the subscription rows at all?                *)
SubscriptionConsulted(p, q) ==
  ~p.free /\ ~p.selfUse /\ p.pref # "wallet_only" /\ ~(WalletFirst(p) /\ user >= q)

(* selectAccountBillingSource: the sources that may pay q, none when the   *)
(* funds are insufficient.  active: is the subscription in force?  base:   *)
(* its usage, a plan reset that is due having been applied.                *)
SelectSource(p, q, active, base) ==
  LET consulted == SubscriptionConsulted(p, q)
      covered == active /\ (SubTotal = 0 \/ base <= SubTotal - q)
  IN {src \in Sources :
        \/ src = "free" /\ p.free
        \/ src = "self_use" /\ ~p.free /\ p.selfUse
        \/ src = "subscription" /\ consulted /\ covered
        \/ /\ src = "wallet" /\ ~p.free /\ ~p.selfUse /\ user >= q
           /\ \/ ~consulted
              \/ ~covered /\ p.pref = "subscription_first" /\ (~active \/ Overflow)}

(* A trusted caller with balances above the threshold holds nothing.       *)
Trusted(p, q, src) ==
  /\ q > 0 /\ p.trust /\ src = "wallet" /\ TrustQuota > 0
  /\ user > TrustQuota /\ (UnlimitedToken \/ remain > TrustQuota)

(* The subscription usage the reservation starts from: a plan reset that   *)
(* is due is applied when the selection looks at an active subscription.   *)
UsageAtSelection(p, q, active) ==
  {subUsed} \cup {u \in {0} : Resets /\ active /\ SubscriptionConsulted(p, q)}

(* The reserve transaction: balances, receipt, head and an open lifecycle  *)
(* obligation commit together.                                             *)
ReserveTransaction(r, src, pg, hold, base) ==
  /\ head[r].current = 0
  /\ Apply(src, pg, hold, base)
  /\ head' = [head EXCEPT ![r] = [NoHead EXCEPT !.current = 1, !.applied = hold,
                                                !.source = src, !.playground = pg]]
  /\ ob' = [ob EXCEPT ![r] = [NoObligation EXCEPT !.state = "open", !.receipt = 1,
                                                  !.version = 1]]

(* The least amount a reservation asks for.                                *)
MinimumReserve(q) == IF q = 0 THEN 1 ELSE q

(* ReserveAccountQuota: a request without a receipt chooses the paying     *)
(* source and the hold.                                                    *)
ReserveAccountQuota(r) ==
  /\ head[r].current = 0
  /\ \E q \in Quotas, p \in Profiles, active \in BOOLEAN :
       \E base \in UsageAtSelection(p, MinimumReserve(q), active) :
         \E src \in SelectSource(p, MinimumReserve(q), active, base) :
           LET hold == IF p.free \/ Trusted(p, q, src) THEN 0 ELSE MinimumReserve(q)
           IN /\ p.free \/ p.playground \/ UnlimitedToken \/ remain >= hold
              /\ ReserveTransaction(r, src, p.playground, hold, base)
  /\ UNCHANGED <<work, faults>>

(* Mutant: the extension forgets updateAccountQuotaLifecycleReservation.   *)
ExtendNoLifecycle(r) ==
  \E target \in Quotas :
    LET h == head[r]
        delta == target - h.applied
    IN /\ h.current > 0 /\ h.term = "none" /\ target > h.applied
       /\ h.source # "free" /\ ob[r].state = "open" /\ ob[r].pending # "text"
       /\ Apply(h.source, h.playground, delta, subUsed)
       /\ head' = [head EXCEPT ![r].current = @ + 1, ![r].applied = target]
       /\ UNCHANGED <<ob, work, faults>>

(* Mutant: the extension charges the whole target, not the difference.     *)
ExtendFullTarget(r) ==
  \E target \in Quotas :
    LET h == head[r]
    IN /\ h.current > 0 /\ h.term = "none" /\ target > h.applied
       /\ h.source # "free" /\ ob[r].state = "open" /\ ob[r].pending # "text"
       /\ Apply(h.source, h.playground, target, subUsed)
       /\ head' = [head EXCEPT ![r].current = @ + 1, ![r].applied = target]
       /\ ob' = [ob EXCEPT ![r].receipt = h.current + 1, ![r].version = @ + 1]
       /\ UNCHANGED <<work, faults>>

(* Mutant: the extension does not check the paying balance.                *)
ExtendUnchecked(r) ==
  \E target \in Quotas :
    LET h == head[r]
        delta == target - h.applied
    IN /\ h.current > 0 /\ h.term = "none" /\ target > h.applied
       /\ h.source # "free" /\ ob[r].state = "open" /\ ob[r].pending # "text"
       /\ Apply(h.source, h.playground, delta, subUsed)
       /\ head' = [head EXCEPT ![r].current = @ + 1, ![r].applied = target]
       /\ ob' = [ob EXCEPT ![r].receipt = h.current + 1, ![r].version = @ + 1]
       /\ UNCHANGED <<work, faults>>

(* ExtendAccountQuotaReservation: raise the hold to a larger target.  An   *)
(* extension needs an open lifecycle, and only a realtime session may      *)
(* extend while its dispatch is pending.                                   *)
ExtendAccountQuotaReservation(r) ==
  \E target \in Quotas :
    LET h == head[r]
        delta == target - h.applied
    IN /\ h.current > 0 /\ h.term = "none" /\ target > h.applied
       /\ h.playground \/ UnlimitedToken \/ remain >= delta
       /\ \/ h.source = "wallet" /\ user >= delta
          \/ h.source = "subscription" /\ (SubTotal = 0 \/ subUsed <= SubTotal - delta)
          \/ h.source = "self_use"
       /\ ob[r].state = "open" /\ ob[r].pending # "text"
       /\ Apply(h.source, h.playground, delta, subUsed)
       /\ head' = [head EXCEPT ![r].current = @ + 1, ![r].applied = target]
       /\ ob' = [ob EXCEPT ![r].receipt = h.current + 1, ![r].version = @ + 1]
       /\ UNCHANGED <<work, faults>>

-----------------------------------------------------------------------------
(* accountQuotaReceiptInChain: the walk from the current receipt back      *)
(* towards the root gives up after ChainDepth receipts.                    *)
InChain(r) == {i \in 1 .. head[r].current : i > head[r].current - ChainDepth}

(* Mutant: the lifecycle row is closed with the phase for its state.       *)
ClosedPhase(o, audit) ==
  [o EXCEPT !.state = IF audit = NoOne THEN "settle" ELSE "refund", !.audit = audit,
            !.owner = NoOne, !.live = FALSE, !.version = @ + 1]

(* Mutant: closing the row does not move its version.                      *)
ClosedSameVersion(o, audit) ==
  [o EXCEPT !.state = "applied", !.audit = audit, !.owner = NoOne, !.live = FALSE]

(* The row closeAccountQuotaLifecycle leaves behind.                       *)
Closed(o, audit) ==
  [o EXCEPT !.state = "applied", !.audit = audit, !.owner = NoOne, !.live = FALSE,
            !.version = @ + 1]

(* Mutant: settlement accepts any lifecycle that is not yet applied.       *)
SettleTransactionAnyState(r, actual, from) ==
  /\ head[r].current > 0 /\ head[r].term = "none"
  /\ ob[r].state # "applied"
  /\ Apply(head[r].source, head[r].playground, actual - head[r].applied, subUsed)
  /\ head' = [head EXCEPT ![r].term = "settle", ![r].actual = actual]
  /\ ob' = [ob EXCEPT ![r] = Closed(@, NoOne)]

(* The settle transaction: charge the difference between the actual usage  *)
(* and the hold; it may overdraw.                                          *)
SettleTransaction(r, actual, from) ==
  /\ head[r].current > 0 /\ head[r].term = "none"
  /\ ob[r].state = from
  /\ Apply(head[r].source, head[r].playground, actual - head[r].applied, subUsed)
  /\ head' = [head EXCEPT ![r].term = "settle", ![r].actual = actual]
  /\ ob' = [ob EXCEPT ![r] = Closed(@, NoOne)]

SettleAccountQuota(r) ==
  /\ \E actual \in Quotas : SettleTransaction(r, actual, "open")
  /\ UNCHANGED <<work, faults>>

(* ResolveAccountQuotaUnknownUsage: a reviewer's amount; the hold is       *)
(* reopened and settled in the same transaction.                           *)
ResolveAccountQuotaUnknownUsage(r) ==
  /\ \E actual \in Quotas : SettleTransaction(r, actual, "usage_unknown")
  /\ UNCHANGED <<work, faults>>

(* closeAccountQuotaLifecycle's conditions for a refund of receipt i.      *)
RefundAllowed(r, i, audit) ==
  /\ i \in InChain(r) /\ head[r].term = "none"
  /\ ob[r].pending = "none"
  /\ \/ ob[r].state = "open"
     \/ ob[r].state \in RefundStates /\ ob[r].audit = audit /\ ob[r].receipt = i

(* Mutant: the refund does not look for an existing terminal receipt.      *)
RefundTransactionTwice(r, i, audit) ==
  /\ i \in InChain(r)
  /\ ob[r].pending = "none"
  /\ ob[r].state # "usage_unknown" /\ ob[r].state # "manual"
  /\ Apply(head[r].source, head[r].playground, -head[r].applied, subUsed)
  /\ head' = [head EXCEPT ![r].term = "refund"]
  /\ ob' = [ob EXCEPT ![r] = Closed(@, audit)]

(* The refund transaction: give the whole current hold back.               *)
RefundTransaction(r, i, audit) ==
  /\ RefundAllowed(r, i, audit)
  /\ Apply(head[r].source, head[r].playground, -head[r].applied, subUsed)
  /\ head' = [head EXCEPT ![r].term = "refund"]
  /\ ob' = [ob EXCEPT ![r] = Closed(@, audit)]

RefundAccountQuota(r) ==
  /\ \E i \in InChain(r), audit \in Audits : RefundTransaction(r, i, audit)
  /\ UNCHANGED <<work, faults>>

-----------------------------------------------------------------------------
(* Mutant: a refund intent ignores that the request may have been sent.    *)
EnsureRefundDispatched(r) ==
  /\ head[r].current > 0 /\ head[r].term = "none"
  /\ ob[r].state = "open"
  /\ \E i \in InChain(r), audit \in Audits :
       ob' = [ob EXCEPT ![r].state = "refund_pending", ![r].receipt = i,
                        ![r].audit = audit, ![r].version = @ + 1]
  /\ UNCHANGED <<balances, head, work, faults>>

(* EnsureAccountQuotaRefundRecovery: persist the refund intent.  A repeat  *)
(* of the same intent only rewrites the row, and not while it is claimed.  *)
EnsureAccountQuotaRefundRecovery(r) ==
  /\ head[r].current > 0 /\ head[r].term = "none"
  /\ ob[r].pending = "none"
  /\ \/ /\ ob[r].state = "open"
        /\ \E i \in InChain(r), audit \in Audits :
             ob' = [ob EXCEPT ![r].state = "refund_pending", ![r].receipt = i,
                              ![r].audit = audit, ![r].version = @ + 1]
     \/ /\ ob[r].state \in {"refund_pending", "retryable"}
        /\ ob[r].version < MaxVersion
        /\ ob' = [ob EXCEPT ![r].version = @ + 1]
  /\ UNCHANGED <<balances, head, work, faults>>

(* SetTextDispatchEvidence(pending) and SetRealtimeDispatchEvidence: the   *)
(* request is about to be sent upstream.                                   *)
SetDispatchEvidence(r) ==
  /\ head[r].current > 0 /\ head[r].term = "none"
  /\ ob[r].state = "open" /\ ob[r].receipt = head[r].current
  /\ ob[r].pending = "none" /\ ob[r].version < MaxVersion
  /\ \E kind \in {"text", "realtime"} :
       ob' = [ob EXCEPT ![r].pending = kind, ![r].version = @ + 1]
  /\ UNCHANGED <<balances, head, work, faults>>

(* SetTextDispatchEvidence(not pending): the upstream refused it.  A       *)
(* realtime marker is never cleared.                                       *)
ClearDispatchEvidence(r) ==
  /\ head[r].current > 0 /\ head[r].term = "none"
  /\ ob[r].state = "open" /\ ob[r].receipt = head[r].current
  /\ ob[r].pending = "text"
  /\ ob' = [ob EXCEPT ![r].pending = "none", ![r].version = @ + 1]
  /\ UNCHANGED <<balances, head, work, faults>>

(* HoldAccountQuotaUnknownUsage: freeze the hold; the caller's metadata    *)
(* replaces the stored evidence.                                           *)
HoldAccountQuotaUnknownUsage(r) ==
  /\ head[r].current > 0 /\ head[r].term = "none"
  /\ ob[r].state = "open" /\ ob[r].receipt = head[r].current
  /\ \E kind \in {ob[r].pending, "none"} :
       ob' = [ob EXCEPT ![r].state = "usage_unknown", ![r].pending = kind, ![r].version = @ + 1]
  /\ UNCHANGED <<balances, head, work, faults>>

(* PersistAccountQuotaSettlementManualEvidence: the settlement could not   *)
(* even be recorded; keep the hold for a human.                            *)
PersistSettlementManualEvidence(r) ==
  /\ head[r].current > 0 /\ head[r].term = "none"
  /\ ob[r].state = "open"
  /\ \E i \in InChain(r) :
       ob' = [ob EXCEPT ![r].state = "manual", ![r].receipt = i, ![r].version = @ + 1]
  /\ UNCHANGED <<balances, head, work, faults>>

(* The plan reset of the subscription task.                                *)
ResetSubscription ==
  /\ Resets /\ subUsed # 0
  /\ subUsed' = 0
  /\ UNCHANGED <<user, remain, used, head, ob, work, faults>>

-----------------------------------------------------------------------------
(* Mutant: a claim whose lease ran out is not looked at again.             *)
RecoveryReadNoExpired(w) ==
  /\ work[w].pc = "idle"
  /\ \E r \in Requests :
       /\ ob[r].state \in {"refund_pending", "retryable"}
       /\ work' = [work EXCEPT ![w] = [pc |-> "read", req |-> r, snap |-> ob[r]]]
  /\ UNCHANGED <<balances, head, ob, faults>>

(* RunAccountQuotaTerminalRecoveryObligations: read a claimable row, ...   *)
RecoveryRead(w) ==
  /\ work[w].pc = "idle"
  /\ \E r \in Requests :
       /\ ob[r].state \in RefundStates /\ ~ob[r].live
       /\ work' = [work EXCEPT ![w] = [pc |-> "read", req |-> r, snap |-> ob[r]]]
  /\ UNCHANGED <<balances, head, ob, faults>>

(* ... claim it by compare-and-set on the version read, with a lease, ...  *)
RecoveryClaim(w) ==
  /\ work[w].pc = "read"
  /\ LET r == work[w].req
         claimed == [work[w].snap EXCEPT !.state = "claimed", !.owner = w, !.live = TRUE,
                                         !.version = @ + 1]
     IN \/ /\ ob[r].version = work[w].snap.version
           /\ ob' = [ob EXCEPT ![r] = claimed]
           /\ work' = [work EXCEPT ![w].pc = "claimed", ![w].snap = claimed]
        \/ /\ ob[r].version # work[w].snap.version
           /\ work' = [work EXCEPT ![w] = Resting]
           /\ UNCHANGED ob
  /\ UNCHANGED <<balances, head, faults>>

(* ... refund the receipt and audit key the claimed row names (a refund    *)
(* already applied is found again), or fail, ...                           *)
RecoveryRefund(w) ==
  /\ work[w].pc = "claimed"
  /\ LET r == work[w].req
         o == work[w].snap
     IN \/ /\ RefundTransaction(r, o.receipt, o.audit)
           /\ work' = [work EXCEPT ![w].pc = "done"]
           /\ UNCHANGED faults
        \/ /\ head[r].term = "refund" /\ ob[r].audit = o.audit
           /\ work' = [work EXCEPT ![w].pc = "done"]
           /\ UNCHANGED <<balances, head, ob, faults>>
        \/ /\ faults < MaxFaults
           /\ work' = [work EXCEPT ![w].pc = "failed"]
           /\ faults' = faults + 1
           /\ UNCHANGED <<balances, head, ob>>

(* A refund refused for good reason fails without a fault being injected.  *)
RecoveryRefused(w) ==
  /\ work[w].pc = "claimed"
  /\ LET r == work[w].req
         o == work[w].snap
     IN /\ ~(head[r].term = "refund" /\ ob[r].audit = o.audit)
        /\ ~(RefundAllowed(r, o.receipt, o.audit)
             /\ Fits(head[r].source, head[r].playground, -head[r].applied, subUsed))
  /\ ob[work[w].req].version < MaxVersion
  /\ work' = [work EXCEPT ![w].pc = "failed"]
  /\ UNCHANGED <<balances, head, ob, faults>>

(* ... and finish: a failure makes the row retryable if it is still this   *)
(* worker's claim.                                                         *)
RecoveryFinish(w) ==
  /\ work[w].pc \in {"done", "failed"}
  /\ LET r == work[w].req
         mine == /\ ob[r].state = "claimed" /\ ob[r].owner = w
                 /\ ob[r].version = work[w].snap.version
     IN ob' = IF work[w].pc = "failed" /\ mine
              THEN [ob EXCEPT ![r].state = "retryable", ![r].owner = NoOne,
                              ![r].live = FALSE, ![r].version = @ + 1]
              ELSE ob
  /\ work' = [work EXCEPT ![w] = Resting]
  /\ UNCHANGED <<balances, head, faults>>

(* The claim's lease runs out while its worker is dead or slow.            *)
LeaseExpires(r) ==
  /\ ob[r].state = "claimed" /\ ob[r].live
  /\ ob' = [ob EXCEPT ![r].live = FALSE]
  /\ UNCHANGED <<balances, head, work, faults>>

WorkerCrash(w) ==
  /\ work[w].pc # "idle" /\ faults < MaxFaults
  /\ work' = [work EXCEPT ![w] = Resting]
  /\ faults' = faults + 1
  /\ UNCHANGED <<balances, head, ob>>

RequestStep(r) ==
  \/ ReserveAccountQuota(r)
  \/ ExtendAccountQuotaReservation(r)
  \/ SettleAccountQuota(r)
  \/ RefundAccountQuota(r)
  \/ EnsureAccountQuotaRefundRecovery(r)
  \/ SetDispatchEvidence(r)
  \/ ClearDispatchEvidence(r)
  \/ HoldAccountQuotaUnknownUsage(r)
  \/ ResolveAccountQuotaUnknownUsage(r)
  \/ PersistSettlementManualEvidence(r)

WorkerStep(w) ==
  \/ RecoveryRead(w) \/ RecoveryClaim(w) \/ RecoveryRefund(w)
  \/ RecoveryRefused(w) \/ RecoveryFinish(w)

Next ==
  \/ \E r \in Requests : RequestStep(r) \/ LeaseExpires(r)
  \/ \E w \in Workers : WorkerStep(w) \/ WorkerCrash(w)
  \/ ResetSubscription

Spec == Init /\ [][Next]_vars

(* The recovery runs on a timer of every instance until nothing is left to *)
(* claim, and database time passes.                                        *)
FairSpec ==
  /\ Spec
  /\ \A w \in Workers : WF_vars(WorkerStep(w))
  /\ \A r \in Requests : WF_vars(LeaseExpires(r))

-----------------------------------------------------------------------------
(* What a request currently costs, in total and per balance.               *)
Charge(r) ==
  IF head[r].term = "none" THEN head[r].applied
  ELSE IF head[r].term = "settle" THEN head[r].actual ELSE 0
WalletCharge(r) == WalletPart(head[r].source, Charge(r))
SubCharge(r) == SubPart(head[r].source, Charge(r))
TokenCharge(r) == TokenPart(head[r].source, head[r].playground, Charge(r))

(* The token's two counters always add up to what it was given: every path *)
(* through applyAccountQuotaBalances moves remain_quota and used_quota     *)
(* together, whichever of session, retry and recovery worker gets there.   *)
TokenConserved == remain + used = InitRemain

(* The lifecycle row committed with a reservation and the reservation head *)
(* never disagree about whether the request is reserved or closed, a       *)
(* refund that is on its way names a receipt of the chain and an audit key *)
(* (what validateAccountQuotaTerminalRecoveryRecord would otherwise park   *)
(* for a human), and before that the row follows the head's receipt.       *)
LifecycleAgreement ==
  \A r \in Requests :
    /\ ob[r].state = "none" <=> head[r].current = 0
    /\ ob[r].state = "applied" <=> head[r].term # "none"
    /\ ob[r].state \in RefundStates => ob[r].receipt \in InChain(r) /\ ob[r].audit \in Audits
    /\ ob[r].state \in {"open", "usage_unknown"} => ob[r].receipt = head[r].current

(* A request that may have reached the upstream is never given back        *)
(* automatically: no refund, and no refund intent, while its dispatch      *)
(* evidence is pending.                                                    *)
DispatchedNotRefunded ==
  \A r \in Requests :
    ob[r].pending # "none" => ob[r].state \notin RefundStates /\ head[r].term # "refund"

(* A worker that has read a row and not yet claimed it still sees the row  *)
(* as it is if the version has not moved, so the compare-and-set of the    *)
(* claim can never bring back a refund that was closed in between.         *)
SnapshotFresh ==
  \A w \in Workers :
    work[w].pc = "read" =>
      LET o == ob[work[w].req]
          snap == work[w].snap
      IN /\ snap.state \in RefundStates /\ snap.version <= o.version
         /\ snap.version = o.version =>
              /\ o.state = snap.state /\ o.receipt = snap.receipt
              /\ o.audit = snap.audit /\ o.pending = snap.pending

(* Every step moves exactly what the receipts say: at most one request's   *)
(* head changes, and wallet, token and subscription move by the change of  *)
(* that request's charge, the subscription from zero if its plan is reset  *)
(* in the same step.                                                       *)
StepConserves ==
  [][\E r \in Requests :
       /\ \A s \in Requests \ {r} : head'[s] = head[s]
       /\ user' + WalletCharge(r)' = user + WalletCharge(r)
       /\ used' - TokenCharge(r)' = used - TokenCharge(r)
       /\ \/ subUsed' - SubCharge(r)' = subUsed - SubCharge(r)
          \/ Resets /\ subUsed' - SubCharge(r)' = 0 - SubCharge(r)]_vars

(* Over any interleaving of sessions, retries and recovery workers, the    *)
(* balances are the initial ones less exactly what the receipts of all     *)
(* requests charge: nothing is charged twice, refunded twice or lost.  A   *)
(* plan reset clears the subscription's usage under holds charged to it    *)
(* that are later extended, settled or refunded: wallet and token stay     *)
(* exact, and the subscription never counts more than the requests cost    *)
(* (a reset only forgives).                                                *)
ChargesMatchBalances ==
  /\ user = InitUser - SumFunction([r \in Requests |-> WalletCharge(r)])
  /\ used = SumFunction([r \in Requests |-> TokenCharge(r)])
  /\ LET cost == SumFunction([r \in Requests |-> SubCharge(r)])
     IN subUsed <= cost /\ (Resets \/ subUsed = cost)

(* A request is settled or refunded at most once, by whoever comes first,  *)
(* and nothing touches its reservation afterwards.                         *)
TerminalIsFinal ==
  [][\A r \in Requests :
       head[r].term # "none" => head'[r] = head[r] /\ ob'[r] = ob[r]]_vars

(* A hold of unknown usage, or one parked with manual settlement evidence, *)
(* is not settled, refunded, extended or released by any automatic path:   *)
(* only the reviewed settlement may move a usage_unknown hold.             *)
HeldUsageOnlyReviewed ==
  [][\A r \in Requests :
       /\ ob[r].state = "manual" => head'[r] = head[r] /\ ob'[r] = ob[r]
       /\ ob[r].state = "usage_unknown" =>
            \/ head'[r] = head[r] /\ ob'[r] = ob[r]
            \/ head'[r].term = "settle" /\ ob'[r].state = "applied"
                 /\ head'[r].applied = head[r].applied]_vars

(* Only a settlement, which charges what was really used, may overdraw the *)
(* wallet, a limited token or the subscription; reservations and           *)
(* extensions are refused instead.                                         *)
OverdraftOnlyBySettlement ==
  [][\/ \E r \in Requests : head[r].term = "none" /\ head'[r].term = "settle"
     \/ /\ user' < 0 => user' >= user
        /\ remain' < 0 /\ ~UnlimitedToken => remain' >= remain
        /\ SubTotal # 0 /\ subUsed' > SubTotal => subUsed' <= subUsed]_vars

(* A refund that has been promised (intent persisted) can be applied: it   *)
(* never drives a balance out of its range.                                *)
RefundFits ==
  \A r \in Requests :
    ob[r].state \in RefundStates =>
      Fits(head[r].source, head[r].playground, -head[r].applied, subUsed)

(* A persisted refund intent is eventually applied, although workers crash *)
(* holding the claim, leases run out under slow workers and attempts fail. *)
RefundIntentApplied ==
  \A r \in Requests : ob[r].state \in RefundStates ~> ob[r].state = "applied"
=============================================================================
