------------------------ MODULE AccountQuota_proofs ------------------------
(***************************************************************************)
(* Proofs about AccountQuota for every set of requests, workers, caller    *)
(* profiles and amounts.  The inductive invariant is QuotaInv: besides the *)
(* type it needs the agreement of head and lifecycle row, the rule about   *)
(* dispatch evidence, and the freshness of what a worker has read, because *)
(* RecoveryClaim writes a row that was built from an earlier read.         *)
(***************************************************************************)
EXTENDS AccountQuota, SumTheorems

(* A row that does not exist yet has no version and holds nothing.         *)
AbsentRows ==
  \A r \in Requests :
    ob[r].state = "none" => ob[r].version = 0 /\ head[r].applied = 0

QuotaInv ==
  /\ TypeOK
  /\ TokenConserved
  /\ LifecycleAgreement
  /\ DispatchedNotRefunded
  /\ SnapshotFresh
  /\ AbsentRows

(* LifecycleAgreement, DispatchedNotRefunded and AbsentRows for one pair   *)
(* of head h and lifecycle row o.                                          *)
RowOK(h, o) ==
  /\ o.state = "none" <=> h.current = 0
  /\ o.state = "applied" <=> h.term # "none"
  /\ o.state \in RefundStates =>
       /\ o.receipt \in 1 .. h.current /\ o.receipt > h.current - ChainDepth
       /\ o.audit \in Audits
  /\ o.state \in {"open", "usage_unknown"} => o.receipt = h.current
  /\ o.pending # "none" => o.state \notin RefundStates /\ h.term # "refund"
  /\ o.state = "none" => o.version = 0 /\ h.applied = 0

(* Applying a charge keeps the balances in their types, moves the token's  *)
(* two counters together, and moves every balance by its part.             *)
LEMMA ApplyFacts ==
  ASSUME TypeOK, NEW src \in Sources, NEW pg \in BOOLEAN, NEW q \in Int,
         NEW base \in Nat, Apply(src, pg, q, base)
  PROVE  /\ user' \in Int /\ remain' \in Int /\ used' \in Nat /\ subUsed' \in Nat
         /\ remain' + used' = remain + used
<1>1. /\ user \in Int /\ remain \in Int /\ used \in Nat /\ subUsed \in Nat
      /\ MaxBalance \in Nat
  BY AccountQuotaAssumption DEF TypeOK
<1>2. /\ WalletPart(src, q) \in Int /\ SubPart(src, q) \in Int
      /\ TokenPart(src, pg, q) \in Int
  BY DEF WalletPart, SubPart, TokenPart
<1>3. QED
  BY <1>1, <1>2 DEF Apply, Fits

(* What a reservation may choose.                                          *)
LEMMA SelectionFacts ==
  ASSUME TypeOK, NEW p \in Profiles, NEW q \in Nat, NEW active \in BOOLEAN,
         NEW base \in UsageAtSelection(p, q, active),
         NEW src \in SelectSource(p, q, active, base)
  PROVE  base \in Nat /\ src \in Sources
<1>1. base \in Nat
  BY DEF TypeOK, UsageAtSelection
<1>2. src \in Sources
  BY DEF SelectSource, Sources
<1>3. QED BY <1>1, <1>2

(* The row invariants are RowOK for every request.                         *)
LEMMA RowsOK ==
  LifecycleAgreement /\ DispatchedNotRefunded /\ AbsentRows
    <=> \A r \in Requests : RowOK(head[r], ob[r])
BY DEF LifecycleAgreement, DispatchedNotRefunded, AbsentRows, RowOK, InChain

(* A step that rewrites one request's head and row, moves the row's        *)
(* version forward and leaves every worker's unclaimed read alone keeps    *)
(* the invariant if the new pair is a good one.                            *)
LEMMA RowStep ==
  ASSUME QuotaInv, NEW r \in Requests, NEW h \in HeadRow, NEW o \in ObligationRow,
         RowOK(h, o), o.version > ob[r].version,
         head' = [head EXCEPT ![r] = h], ob' = [ob EXCEPT ![r] = o],
         user' \in Int, remain' \in Int, used' \in Nat, subUsed' \in Nat,
         remain' + used' = remain + used, faults' \in Nat,
         work' \in [Workers -> Worker],
         \A w \in Workers : work'[w].pc # "idle" => work'[w].req \in Requests,
         \A w \in Workers : work'[w].pc = "read" => work'[w] = work[w]
  PROVE  QuotaInv'
<1>1. TypeOK'
  BY DEF QuotaInv, TypeOK
<1>2. TokenConserved'
  BY DEF QuotaInv, TokenConserved
<1>3. (LifecycleAgreement /\ DispatchedNotRefunded /\ AbsentRows)'
  <2>1. \A s \in Requests : RowOK(head[s], ob[s])
    BY RowsOK DEF QuotaInv
  <2>2. \A s \in Requests : RowOK(head'[s], ob'[s])
    <3>1. TAKE s \in Requests
    <3>2. CASE s = r
      BY <3>2 DEF QuotaInv, TypeOK
    <3>3. CASE s # r
      BY <2>1, <3>3 DEF QuotaInv, TypeOK
    <3>4. QED BY <3>2, <3>3
  <2>3. QED BY <2>2 DEF LifecycleAgreement, DispatchedNotRefunded, AbsentRows, RowOK, InChain
<1>4. SnapshotFresh'
  <2>1. SUFFICES ASSUME NEW w \in Workers, work'[w].pc = "read"
                 PROVE  LET x == ob'[work'[w].req]
                            snap == work'[w].snap
                        IN /\ snap.state \in RefundStates /\ snap.version <= x.version
                           /\ snap.version = x.version =>
                                /\ x.state = snap.state /\ x.receipt = snap.receipt
                                /\ x.audit = snap.audit /\ x.pending = snap.pending
    BY DEF SnapshotFresh
  <2>2. /\ work'[w] = work[w] /\ work[w].pc = "read" /\ work[w].req \in Requests
        /\ work[w].snap.version \in Nat
    BY <2>1 DEF QuotaInv, TypeOK, Worker, ObligationRow
  <2>3. LET x == ob[work[w].req]
            snap == work[w].snap
        IN /\ snap.state \in RefundStates /\ snap.version <= x.version
           /\ snap.version = x.version =>
                /\ x.state = snap.state /\ x.receipt = snap.receipt
                /\ x.audit = snap.audit /\ x.pending = snap.pending
    BY <2>1, <2>2 DEF QuotaInv, SnapshotFresh
  <2>4. CASE work[w].req = r
    <3>1. ob'[r] = o /\ ob[r].version \in Nat /\ o.version \in Nat
      BY DEF QuotaInv, TypeOK, ObligationRow
    <3>2. QED BY <2>2, <2>3, <2>4, <3>1
  <2>5. CASE work[w].req # r
    <3>1. ob'[work[w].req] = ob[work[w].req]
      BY <2>2, <2>5 DEF QuotaInv, TypeOK
    <3>2. QED BY <2>2, <2>3, <3>1
  <2>6. QED BY <2>4, <2>5
<1>5. QED BY <1>1, <1>2, <1>3, <1>4 DEF QuotaInv

(* RowStep for the actions that leave the workers alone.                   *)
LEMMA QuietStep ==
  ASSUME QuotaInv, NEW r \in Requests, NEW h \in HeadRow, NEW o \in ObligationRow,
         RowOK(h, o), o.version > ob[r].version,
         head' = [head EXCEPT ![r] = h], ob' = [ob EXCEPT ![r] = o],
         user' \in Int, remain' \in Int, used' \in Nat, subUsed' \in Nat,
         remain' + used' = remain + used, UNCHANGED <<work, faults>>
  PROVE  QuotaInv'
<1>1. /\ faults' \in Nat /\ work' \in [Workers -> Worker]
      /\ \A w \in Workers : work'[w].pc # "idle" => work'[w].req \in Requests
      /\ \A w \in Workers : work'[w].pc = "read" => work'[w] = work[w]
  BY DEF QuotaInv, TypeOK
<1>2. QED BY <1>1, RowStep

(* A reservation is one reserve transaction of some source and hold, and   *)
(* both the token and the paying balance cover the hold.                   *)
LEMMA ReserveChoice ==
  ASSUME TypeOK, NEW r, ReserveAccountQuota(r)
  PROVE  \E src \in Sources, pg \in BOOLEAN, hold \in Nat, base \in Nat :
           /\ ReserveTransaction(r, src, pg, hold, base)
           /\ Resets \/ base = subUsed
           /\ base \in {0, subUsed}
           /\ src = "free" \/ pg \/ UnlimitedToken \/ remain >= hold
           /\ src = "wallet" => user >= hold
           /\ src = "subscription" => SubTotal = 0 \/ base + hold <= SubTotal
<1> DEFINE Hold(p, q, src) ==
             IF p.free \/ Trusted(p, q, src) THEN 0 ELSE MinimumReserve(q)
           Taken(p, q, base, src) ==
             /\ p.free \/ p.playground \/ UnlimitedToken \/ remain >= Hold(p, q, src)
             /\ ReserveTransaction(r, src, p.playground, Hold(p, q, src), base)
<1>1. PICK q \in Quotas, p \in Profiles, active \in BOOLEAN :
        \E base \in UsageAtSelection(p, MinimumReserve(q), active) :
          \E src \in SelectSource(p, MinimumReserve(q), active, base) :
            Taken(p, q, base, src)
  BY Zenon DEF ReserveAccountQuota
<1>2. PICK base \in UsageAtSelection(p, MinimumReserve(q), active) :
        \E src \in SelectSource(p, MinimumReserve(q), active, base) :
          Taken(p, q, base, src)
  BY <1>1, Zenon
<1>3. PICK src \in SelectSource(p, MinimumReserve(q), active, base) :
        Taken(p, q, base, src)
  BY <1>2, Zenon
<1>4. MinimumReserve(q) \in Nat /\ p.playground \in BOOLEAN /\ SubTotal \in Nat
  BY AccountQuotaAssumption DEF Profile, MinimumReserve
<1>5. base \in Nat /\ src \in Sources
  BY <1>4, SelectionFacts
<1>6. Hold(p, q, src) \in Nat /\ Hold(p, q, src) <= MinimumReserve(q)
  BY <1>4
<1>7. (Resets \/ base = subUsed) /\ base \in {0, subUsed}
  BY DEF UsageAtSelection
<1>8. /\ p.free => src = "free"
      /\ src = "wallet" => user >= MinimumReserve(q)
      /\ src = "subscription" => SubTotal = 0 \/ base <= SubTotal - MinimumReserve(q)
  BY DEF SelectSource, SubscriptionConsulted, Sources
<1> HIDE DEF Hold
<1>9. PICK hold \in Nat : hold = Hold(p, q, src)
  BY <1>6
<1>10. /\ src = "wallet" => user >= hold
       /\ src = "subscription" => SubTotal = 0 \/ base + hold <= SubTotal
  BY <1>4, <1>5, <1>6, <1>8, <1>9 DEF TypeOK
<1>11. /\ ReserveTransaction(r, src, p.playground, hold, base)
       /\ src = "free" \/ p.playground \/ UnlimitedToken \/ remain >= hold
  BY <1>3, <1>8, <1>9
<1>12. QED BY <1>4, <1>5, <1>7, <1>10, <1>11, Zenon

(* The actions of the request side, one lemma per action: a reservation    *)
(* creates a head and a row that agree.                                    *)
LEMMA ReserveInv ==
  ASSUME QuotaInv, NEW r \in Requests, ReserveAccountQuota(r)
  PROVE  QuotaInv'
<1>1. PICK src \in Sources, pg \in BOOLEAN, hold \in Nat, base \in Nat :
        ReserveTransaction(r, src, pg, hold, base)
  BY ReserveChoice DEF QuotaInv
<1> DEFINE h == [NoHead EXCEPT !.current = 1, !.applied = hold, !.source = src,
                               !.playground = pg]
           o == [NoObligation EXCEPT !.state = "open", !.receipt = 1, !.version = 1]
<1>2. h \in HeadRow /\ o \in ObligationRow /\ RowOK(h, o)
  <2>1. h \in HeadRow
    BY DEF NoHead, HeadRow
  <2>2. o \in ObligationRow
    BY DEF NoObligation, ObligationRow
  <2>3. RowOK(h, o)
    BY DEF NoHead, NoObligation, RowOK, RefundStates
  <2> QED BY <2>1, <2>2, <2>3
<1>3. o.version > ob[r].version
  BY <1>1 DEF ReserveTransaction, NoObligation, QuotaInv, LifecycleAgreement, AbsentRows
<1>4. /\ user' \in Int /\ remain' \in Int /\ used' \in Nat /\ subUsed' \in Nat
      /\ remain' + used' = remain + used
  BY <1>1, ApplyFacts DEF QuotaInv, ReserveTransaction
<1>5. /\ head' = [head EXCEPT ![r] = h] /\ ob' = [ob EXCEPT ![r] = o]
  BY <1>1 DEF ReserveTransaction
<1>6. UNCHANGED <<work, faults>>
  BY DEF ReserveAccountQuota
<1> HIDE DEF h, o
<1>7. QED BY <1>2, <1>3, <1>4, <1>5, <1>6, QuietStep

(* Closing a row keeps its type and moves its version.                     *)
LEMMA ClosedFacts ==
  ASSUME NEW o \in ObligationRow, NEW audit \in Audits \cup {NoOne}
  PROVE  Closed(o, audit) \in ObligationRow /\ Closed(o, audit).version > o.version
<1>1. o.version \in Nat /\ o.version + 1 \in Nat
  BY DEF ObligationRow
<1>2. Closed(o, audit) \in ObligationRow
  BY <1>1 DEF ObligationRow, Closed
<1>3. Closed(o, audit).version > o.version
  BY <1>1 DEF ObligationRow, Closed
<1>4. QED BY <1>2, <1>3

(* So does extending a reservation.                                        *)
LEMMA ExtendedFacts ==
  ASSUME NEW h \in HeadRow, NEW o \in ObligationRow, NEW target \in Nat
  PROVE  /\ [h EXCEPT !.current = @ + 1, !.applied = target] \in HeadRow
         /\ [o EXCEPT !.receipt = h.current + 1, !.version = @ + 1] \in ObligationRow
         /\ [o EXCEPT !.receipt = h.current + 1, !.version = @ + 1].version > o.version
<1>1. o.version \in Nat /\ o.version + 1 \in Nat /\ h.current + 1 \in Nat
  BY DEF ObligationRow, HeadRow
<1>2. [h EXCEPT !.current = @ + 1, !.applied = target] \in HeadRow
  BY <1>1 DEF HeadRow
<1>3. [o EXCEPT !.receipt = h.current + 1, !.version = @ + 1] \in ObligationRow
  BY <1>1 DEF ObligationRow
<1>4. [o EXCEPT !.receipt = h.current + 1, !.version = @ + 1].version > o.version
  BY <1>1 DEF ObligationRow
<1>5. QED BY <1>2, <1>3, <1>4

(* ExtendAccountQuotaReservation preserves the invariant.                  *)
LEMMA ExtendInv ==
  ASSUME QuotaInv, NEW r \in Requests, ExtendAccountQuotaReservation(r)
  PROVE  QuotaInv'
<1>0. TypeOK /\ head[r] \in HeadRow /\ ob[r] \in ObligationRow /\ RowOK(head[r], ob[r])
  BY RowsOK DEF QuotaInv, TypeOK
<1>1. PICK target \in Quotas :
        /\ head[r].current > 0 /\ head[r].term = "none" /\ target > head[r].applied
        /\ ob[r].state = "open"
        /\ Apply(head[r].source, head[r].playground, target - head[r].applied, subUsed)
        /\ head' = [head EXCEPT ![r].current = @ + 1, ![r].applied = target]
        /\ ob' = [ob EXCEPT ![r].receipt = head[r].current + 1, ![r].version = @ + 1]
        /\ UNCHANGED <<work, faults>>
  BY DEF ExtendAccountQuotaReservation
<1> DEFINE h == [head[r] EXCEPT !.current = @ + 1, !.applied = target]
           o == [ob[r] EXCEPT !.receipt = head[r].current + 1, !.version = @ + 1]
<1>2. target \in Nat
  BY AccountQuotaAssumption
<1>3. h \in HeadRow /\ o \in ObligationRow /\ o.version > ob[r].version
  BY <1>0, <1>2, ExtendedFacts
<1>4. RowOK(h, o)
  BY <1>0, <1>1 DEF RowOK, HeadRow, ObligationRow, RefundStates
<1>5. /\ user' \in Int /\ remain' \in Int /\ used' \in Nat /\ subUsed' \in Nat
      /\ remain' + used' = remain + used
  <2>1. /\ head[r].source \in Sources /\ head[r].playground \in BOOLEAN
        /\ target - head[r].applied \in Int /\ subUsed \in Nat
    BY <1>0, <1>2 DEF HeadRow, TypeOK
  <2>2. QED BY <1>0, <1>1, <2>1, ApplyFacts
<1>6. head' = [head EXCEPT ![r] = h] /\ ob' = [ob EXCEPT ![r] = o] /\ UNCHANGED <<work, faults>>
  BY <1>0, <1>1 DEF TypeOK
<1> HIDE DEF h, o
<1>7. QED BY <1>3, <1>4, <1>5, <1>6, QuietStep

(* A settlement preserves it, whether automatic or reviewed.               *)
LEMMA SettleInv ==
  ASSUME QuotaInv, NEW r \in Requests, NEW actual \in Quotas, NEW from,
         SettleTransaction(r, actual, from), from # "none", UNCHANGED <<work, faults>>
  PROVE  QuotaInv'
<1>0. TypeOK /\ head[r] \in HeadRow /\ ob[r] \in ObligationRow /\ RowOK(head[r], ob[r])
  BY RowsOK DEF QuotaInv, TypeOK
<1> DEFINE h == [head[r] EXCEPT !.term = "settle", !.actual = actual]
           o == Closed(ob[r], NoOne)
<1>2. actual \in Nat
  BY AccountQuotaAssumption
<1>3. h \in HeadRow /\ o \in ObligationRow /\ o.version > ob[r].version
  <2>1. h \in HeadRow
    BY <1>0, <1>2 DEF HeadRow
  <2>2. QED BY <1>0, <2>1, ClosedFacts
<1>4. RowOK(h, o)
  BY <1>0 DEF RowOK, HeadRow, ObligationRow, RefundStates, Closed, SettleTransaction
<1>5. /\ user' \in Int /\ remain' \in Int /\ used' \in Nat /\ subUsed' \in Nat
      /\ remain' + used' = remain + used
  <2>1. /\ head[r].source \in Sources /\ head[r].playground \in BOOLEAN
        /\ actual - head[r].applied \in Int /\ subUsed \in Nat
    BY <1>0, <1>2 DEF HeadRow, TypeOK
  <2>2. Apply(head[r].source, head[r].playground, actual - head[r].applied, subUsed)
    BY DEF SettleTransaction
  <2>3. QED BY <1>0, <2>1, <2>2, ApplyFacts
<1>6. head' = [head EXCEPT ![r] = h] /\ ob' = [ob EXCEPT ![r] = o]
  BY <1>0 DEF TypeOK, SettleTransaction
<1> HIDE DEF h, o
<1>7. QED BY <1>3, <1>4, <1>5, <1>6, QuietStep

(* What a refund transaction writes, for the request goroutine and for a   *)
(* recovery worker alike.                                                  *)
LEMMA RefundFacts ==
  ASSUME QuotaInv, NEW r \in Requests, NEW i, NEW audit \in Audits \cup {NoOne},
         RefundTransaction(r, i, audit)
  PROVE  \E h \in HeadRow, o \in ObligationRow :
           /\ RowOK(h, o) /\ o.version > ob[r].version
           /\ head' = [head EXCEPT ![r] = h] /\ ob' = [ob EXCEPT ![r] = o]
           /\ user' \in Int /\ remain' \in Int /\ used' \in Nat /\ subUsed' \in Nat
           /\ remain' + used' = remain + used
<1>0. TypeOK /\ head[r] \in HeadRow /\ ob[r] \in ObligationRow /\ RowOK(head[r], ob[r])
  BY RowsOK DEF QuotaInv, TypeOK
<1> DEFINE h == [head[r] EXCEPT !.term = "refund"]
           o == Closed(ob[r], audit)
<1>3. h \in HeadRow /\ o \in ObligationRow /\ o.version > ob[r].version
  <2>1. h \in HeadRow
    BY <1>0 DEF HeadRow
  <2>2. QED BY <1>0, <2>1, ClosedFacts
<1>4. RowOK(h, o)
  BY <1>0 DEF RowOK, HeadRow, ObligationRow, RefundStates, Closed, RefundTransaction,
              RefundAllowed, InChain
<1>5. /\ user' \in Int /\ remain' \in Int /\ used' \in Nat /\ subUsed' \in Nat
      /\ remain' + used' = remain + used
  <2>1. /\ head[r].source \in Sources /\ head[r].playground \in BOOLEAN
        /\ -head[r].applied \in Int /\ subUsed \in Nat
    BY <1>0 DEF HeadRow, TypeOK
  <2>2. Apply(head[r].source, head[r].playground, -head[r].applied, subUsed)
    BY DEF RefundTransaction
  <2>3. QED BY <1>0, <2>1, <2>2, ApplyFacts
<1>6. head' = [head EXCEPT ![r] = h] /\ ob' = [ob EXCEPT ![r] = o]
  BY <1>0 DEF TypeOK, RefundTransaction
<1> HIDE DEF h, o
<1>7. QED BY <1>3, <1>4, <1>5, <1>6

(* RefundAccountQuota preserves the invariant.                             *)
LEMMA RefundInv ==
  ASSUME QuotaInv, NEW r \in Requests, RefundAccountQuota(r)
  PROVE  QuotaInv'
<1>1. PICK i \in InChain(r), audit \in Audits : RefundTransaction(r, i, audit)
  BY DEF RefundAccountQuota
<1>2. UNCHANGED <<work, faults>>
  BY DEF RefundAccountQuota
<1>3. QED BY <1>1, <1>2, RefundFacts, QuietStep

(* The steps that rewrite only the lifecycle row: dispatch evidence, holds *)
(* and the refund intent.                                                  *)
LEMMA RewriteInv ==
  ASSUME QuotaInv, NEW r \in Requests, NEW o \in ObligationRow,
         RowOK(head[r], o), o.version > ob[r].version,
         ob' = [ob EXCEPT ![r] = o], UNCHANGED <<balances, head, work, faults>>
  PROVE  QuotaInv'
<1>1. head[r] \in HeadRow /\ head' = [head EXCEPT ![r] = head[r]]
  BY DEF QuotaInv, TypeOK
<1>2. /\ user' \in Int /\ remain' \in Int /\ used' \in Nat /\ subUsed' \in Nat
      /\ remain' + used' = remain + used
  BY DEF QuotaInv, TypeOK, balances
<1>3. QED BY <1>1, <1>2, QuietStep

(* A rewritten row with another state, receipt, audit key or evidence.     *)
LEMMA RewrittenFacts ==
  ASSUME NEW o \in ObligationRow,
         NEW st \in {"open", "usage_unknown", "manual", "refund_pending", "retryable"},
         NEW i \in Nat, NEW audit \in Audits \cup {NoOne},
         NEW kind \in {"none", "text", "realtime"}
  PROVE  LET x == [o EXCEPT !.state = st, !.receipt = i, !.audit = audit,
                            !.pending = kind, !.version = @ + 1]
         IN x \in ObligationRow /\ x.version > o.version
<1> DEFINE x == [o EXCEPT !.state = st, !.receipt = i, !.audit = audit,
                          !.pending = kind, !.version = @ + 1]
<1>1. o.version \in Nat /\ o.version + 1 \in Nat
  BY DEF ObligationRow
<1>2. x \in ObligationRow
  BY <1>1 DEF ObligationRow, RefundStates
<1>3. x.version > o.version
  BY <1>1 DEF ObligationRow
<1>4. QED BY <1>2, <1>3

(* The five row-rewriting operations preserve the invariant.               *)
LEMMA RowRewrites ==
  ASSUME QuotaInv, NEW r \in Requests,
         \/ EnsureAccountQuotaRefundRecovery(r) \/ SetDispatchEvidence(r)
         \/ ClearDispatchEvidence(r) \/ HoldAccountQuotaUnknownUsage(r)
         \/ PersistSettlementManualEvidence(r)
  PROVE  QuotaInv'
<1>0. TypeOK /\ head[r] \in HeadRow /\ ob[r] \in ObligationRow /\ RowOK(head[r], ob[r])
  BY RowsOK DEF QuotaInv, TypeOK
<1>1. /\ ob \in [Requests -> ObligationRow] /\ head[r].current \in Nat
      /\ ob[r].receipt \in Nat /\ ob[r].version \in Nat
      /\ ob[r].audit \in Audits \cup {NoOne} /\ ob[r].pending \in {"none", "text", "realtime"}
  BY <1>0 DEF TypeOK, HeadRow, ObligationRow
<1> DEFINE Row(st, i, audit, kind) ==
             [ob[r] EXCEPT !.state = st, !.receipt = i, !.audit = audit,
                           !.pending = kind, !.version = @ + 1]
<1>2. ASSUME NEW st \in {"open", "usage_unknown", "manual", "refund_pending", "retryable"},
             NEW i \in Nat, NEW audit \in Audits \cup {NoOne},
             NEW kind \in {"none", "text", "realtime"},
             RowOK(head[r], Row(st, i, audit, kind)),
             ob' = [ob EXCEPT ![r] = Row(st, i, audit, kind)],
             UNCHANGED <<balances, head, work, faults>>
      PROVE  QuotaInv'
  BY <1>0, <1>2, RewrittenFacts, RewriteInv
<1>3. CASE EnsureAccountQuotaRefundRecovery(r)
  <2>1. /\ head[r].current > 0 /\ head[r].term = "none" /\ ob[r].pending = "none"
        /\ UNCHANGED <<balances, head, work, faults>>
    BY <1>3 DEF EnsureAccountQuotaRefundRecovery
  <2>2. ASSUME NEW i \in InChain(r), NEW audit \in Audits, ob[r].state = "open",
               ob' = [ob EXCEPT ![r].state = "refund_pending", ![r].receipt = i,
                                ![r].audit = audit, ![r].version = @ + 1]
        PROVE  QuotaInv'
    <3>1. i \in Nat /\ i \in 1 .. head[r].current /\ i > head[r].current - ChainDepth
      BY <1>1 DEF InChain
    <3>2. ob' = [ob EXCEPT ![r] = Row("refund_pending", i, audit, ob[r].pending)]
      BY <1>0, <1>1, <2>2 DEF ObligationRow
    <3>3. RowOK(head[r], Row("refund_pending", i, audit, ob[r].pending))
      BY <1>0, <1>1, <2>1, <3>1 DEF RowOK, ObligationRow, RefundStates
    <3>4. QED BY <1>1, <1>2, <2>1, <3>1, <3>2, <3>3
  <2>3. ASSUME ob[r].state \in {"refund_pending", "retryable"},
               ob' = [ob EXCEPT ![r].version = @ + 1]
        PROVE  QuotaInv'
    <3>2. ob' = [ob EXCEPT ![r] = Row(ob[r].state, ob[r].receipt, ob[r].audit, ob[r].pending)]
      BY <1>0, <1>1, <2>3 DEF ObligationRow
    <3>3. RowOK(head[r], Row(ob[r].state, ob[r].receipt, ob[r].audit, ob[r].pending))
      BY <1>0, <1>1, <2>1, <2>3 DEF RowOK, ObligationRow, RefundStates
    <3>4. QED BY <1>1, <1>2, <2>1, <2>3, <3>2, <3>3
  <2>4. QED BY <1>3, <2>2, <2>3 DEF EnsureAccountQuotaRefundRecovery
<1>4. CASE SetDispatchEvidence(r)
  <2>1. PICK kind \in {"text", "realtime"} :
          ob' = [ob EXCEPT ![r].pending = kind, ![r].version = @ + 1]
    BY <1>4 DEF SetDispatchEvidence
  <2>2. /\ head[r].current > 0 /\ head[r].term = "none" /\ ob[r].state = "open"
        /\ UNCHANGED <<balances, head, work, faults>>
    BY <1>4 DEF SetDispatchEvidence
  <2>3. ob' = [ob EXCEPT ![r] = Row("open", ob[r].receipt, ob[r].audit, kind)]
    BY <1>0, <1>1, <2>1, <2>2 DEF ObligationRow
  <2>4. RowOK(head[r], Row("open", ob[r].receipt, ob[r].audit, kind))
    BY <1>0, <1>1, <2>2 DEF RowOK, ObligationRow, RefundStates
  <2>5. QED BY <1>1, <1>2, <2>2, <2>3, <2>4
<1>5. CASE ClearDispatchEvidence(r)
  <2>2. /\ head[r].current > 0 /\ head[r].term = "none" /\ ob[r].state = "open"
        /\ ob' = [ob EXCEPT ![r].pending = "none", ![r].version = @ + 1]
        /\ UNCHANGED <<balances, head, work, faults>>
    BY <1>5 DEF ClearDispatchEvidence
  <2>3. ob' = [ob EXCEPT ![r] = Row("open", ob[r].receipt, ob[r].audit, "none")]
    BY <1>0, <1>1, <2>2 DEF ObligationRow
  <2>4. RowOK(head[r], Row("open", ob[r].receipt, ob[r].audit, "none"))
    BY <1>0, <1>1, <2>2 DEF RowOK, ObligationRow, RefundStates
  <2>5. QED BY <1>1, <1>2, <2>2, <2>3, <2>4
<1>6. CASE HoldAccountQuotaUnknownUsage(r)
  <2>1. PICK kind \in {ob[r].pending, "none"} :
          ob' = [ob EXCEPT ![r].state = "usage_unknown", ![r].pending = kind, ![r].version = @ + 1]
    BY <1>6 DEF HoldAccountQuotaUnknownUsage
  <2>2. /\ head[r].current > 0 /\ head[r].term = "none" /\ ob[r].state = "open"
        /\ UNCHANGED <<balances, head, work, faults>>
    BY <1>6 DEF HoldAccountQuotaUnknownUsage
  <2>3. ob' = [ob EXCEPT ![r] = Row("usage_unknown", ob[r].receipt, ob[r].audit, kind)]
    BY <1>0, <1>1, <2>1 DEF ObligationRow
  <2>4. RowOK(head[r], Row("usage_unknown", ob[r].receipt, ob[r].audit, kind))
    BY <1>0, <1>1, <2>2 DEF RowOK, ObligationRow, RefundStates
  <2>5. kind \in {"none", "text", "realtime"}
    BY <1>1
  <2>6. QED BY <1>1, <1>2, <2>2, <2>3, <2>4, <2>5
<1>7. CASE PersistSettlementManualEvidence(r)
  <2>1. PICK i \in InChain(r) :
          ob' = [ob EXCEPT ![r].state = "manual", ![r].receipt = i, ![r].version = @ + 1]
    BY <1>7 DEF PersistSettlementManualEvidence
  <2>2. /\ head[r].current > 0 /\ head[r].term = "none"
        /\ UNCHANGED <<balances, head, work, faults>>
    BY <1>7 DEF PersistSettlementManualEvidence
  <2>6. i \in Nat
    BY <1>1 DEF InChain
  <2>3. ob' = [ob EXCEPT ![r] = Row("manual", i, ob[r].audit, ob[r].pending)]
    BY <1>0, <1>1, <2>1 DEF ObligationRow
  <2>4. RowOK(head[r], Row("manual", i, ob[r].audit, ob[r].pending))
    BY <1>0, <1>1, <2>2 DEF RowOK, ObligationRow, RefundStates
  <2>5. QED BY <1>1, <1>2, <2>2, <2>3, <2>4, <2>6
<1>8. QED BY <1>3, <1>4, <1>5, <1>6, <1>7

-----------------------------------------------------------------------------
(* The recovery workers.                                                   *)

(* A step that moves only workers keeps the invariant if every unclaimed   *)
(* read is an old one or has just been taken from the rows.                *)
LEMMA WorkerMove ==
  ASSUME QuotaInv, UNCHANGED <<balances, head, ob>>, faults' \in Nat,
         work' \in [Workers -> Worker],
         \A w \in Workers : work'[w].pc # "idle" => work'[w].req \in Requests,
         \A w \in Workers : work'[w].pc = "read" =>
           \/ work'[w] = work[w]
           \/ work'[w].snap = ob[work'[w].req] /\ work'[w].snap.state \in RefundStates
  PROVE  QuotaInv'
<1>1. TypeOK' /\ TokenConserved'
  BY DEF QuotaInv, TypeOK, TokenConserved, balances
<1>2. LifecycleAgreement' /\ DispatchedNotRefunded' /\ AbsentRows'
  BY DEF QuotaInv, LifecycleAgreement, DispatchedNotRefunded, AbsentRows, InChain
<1>3. SnapshotFresh'
  <2>1. \A r \in Requests : ob[r].version \in Nat
    BY DEF QuotaInv, TypeOK, ObligationRow
  <2>2. QED BY <2>1 DEF QuotaInv, SnapshotFresh
<1>4. QED BY <1>1, <1>2, <1>3 DEF QuotaInv

(* Types of what a worker's step writes.                                   *)
LEMMA WorkerFacts ==
  ASSUME TypeOK, NEW w \in Workers, NEW wk \in Worker,
         wk.pc # "idle" => wk.req \in Requests,
         work' = [work EXCEPT ![w] = wk]
  PROVE  /\ work' \in [Workers -> Worker]
         /\ \A v \in Workers : work'[v].pc # "idle" => work'[v].req \in Requests
         /\ \A v \in Workers : v # w => work'[v] = work[v]
         /\ work'[w] = wk
BY DEF TypeOK

(* The position a worker returns to.                                       *)
LEMMA RestingFacts == Resting \in Worker /\ Resting.pc = "idle"
<1>1. NoObligation \in ObligationRow
  BY DEF NoObligation, ObligationRow
<1>2. QED BY <1>1 DEF Resting, Worker

(* A worker's read is fresh when it is made.                               *)
LEMMA ReadInv ==
  ASSUME QuotaInv, NEW w \in Workers, RecoveryRead(w)
  PROVE  QuotaInv'
<1>1. PICK r \in Requests :
        /\ ob[r].state \in RefundStates
        /\ work' = [work EXCEPT ![w] = [pc |-> "read", req |-> r, snap |-> ob[r]]]
  BY DEF RecoveryRead
<1> DEFINE wk == [pc |-> "read", req |-> r, snap |-> ob[r]]
<1>2. wk \in Worker
  BY DEF QuotaInv, TypeOK, Worker
<1>3. UNCHANGED <<balances, head, ob>> /\ faults' \in Nat
  BY DEF RecoveryRead, QuotaInv, TypeOK
<1>4. /\ work' \in [Workers -> Worker] /\ work'[w] = wk
      /\ \A v \in Workers : work'[v].pc # "idle" => work'[v].req \in Requests
      /\ \A v \in Workers : v # w => work'[v] = work[v]
  BY <1>1, <1>2, WorkerFacts DEF QuotaInv
<1>5. QED BY <1>1, <1>3, <1>4, WorkerMove

(* A worker that rests, or that leaves the claimed position.               *)
LEMMA LeaveInv ==
  ASSUME QuotaInv, NEW w \in Workers, NEW wk \in Worker, wk.pc # "read",
         wk.pc # "idle" => wk.req \in Requests,
         work' = [work EXCEPT ![w] = wk], faults' \in Nat,
         UNCHANGED <<balances, head, ob>>
  PROVE  QuotaInv'
<1>1. /\ work' \in [Workers -> Worker] /\ work'[w] = wk
      /\ \A v \in Workers : work'[v].pc # "idle" => work'[v].req \in Requests
      /\ \A v \in Workers : v # w => work'[v] = work[v]
  BY WorkerFacts DEF QuotaInv
<1>2. QED BY <1>1, WorkerMove

(* A step of a worker that also rewrites one request's head and row.       *)
LEMMA WorkerRowStep ==
  ASSUME QuotaInv, NEW w \in Workers, NEW wk \in Worker, wk.pc # "read",
         wk.pc # "idle" => wk.req \in Requests, work' = [work EXCEPT ![w] = wk],
         NEW r \in Requests, NEW h \in HeadRow, NEW o \in ObligationRow,
         RowOK(h, o), o.version > ob[r].version,
         head' = [head EXCEPT ![r] = h], ob' = [ob EXCEPT ![r] = o],
         user' \in Int, remain' \in Int, used' \in Nat, subUsed' \in Nat,
         remain' + used' = remain + used, faults' \in Nat
  PROVE  QuotaInv'
<1>1. /\ work' \in [Workers -> Worker] /\ work'[w] = wk
      /\ \A v \in Workers : work'[v].pc # "idle" => work'[v].req \in Requests
      /\ \A v \in Workers : v # w => work'[v] = work[v]
  BY WorkerFacts DEF QuotaInv
<1>2. \A v \in Workers : work'[v].pc = "read" => work'[v] = work[v]
  BY <1>1
<1>3. QED BY <1>1, <1>2, RowStep

(* The row a claim writes.                                                 *)
LEMMA ClaimedFacts ==
  ASSUME NEW snap \in ObligationRow, NEW w \in Workers
  PROVE  LET x == [snap EXCEPT !.state = "claimed", !.owner = w, !.live = TRUE,
                               !.version = @ + 1]
         IN x \in ObligationRow /\ x.version > snap.version
<1> DEFINE x == [snap EXCEPT !.state = "claimed", !.owner = w, !.live = TRUE,
                             !.version = @ + 1]
<1>1. snap.version \in Nat /\ snap.version + 1 \in Nat
  BY DEF ObligationRow
<1>2. x \in ObligationRow
  BY <1>1 DEF ObligationRow, RefundStates
<1>3. x.version > snap.version
  BY <1>1 DEF ObligationRow
<1>4. QED BY <1>2, <1>3

(* The compare-and-set of a claim succeeds only on the row that was read,  *)
(* so what it writes still agrees with the head.                           *)
LEMMA ClaimInv ==
  ASSUME QuotaInv, NEW w \in Workers, RecoveryClaim(w)
  PROVE  QuotaInv'
<1> DEFINE r == work[w].req
           snap == work[w].snap
           claimed == [snap EXCEPT !.state = "claimed", !.owner = w, !.live = TRUE,
                                   !.version = @ + 1]
           wk == [work[w] EXCEPT !.pc = "claimed", !.snap = claimed]
<1>0. /\ TypeOK /\ work[w].pc = "read" /\ r \in Requests /\ snap \in ObligationRow
      /\ work[w] \in Worker /\ UNCHANGED <<balances, head, faults>>
  BY DEF QuotaInv, TypeOK, Worker, RecoveryClaim
<1>1. /\ head[r] \in HeadRow /\ ob[r] \in ObligationRow /\ RowOK(head[r], ob[r])
      /\ head' = [head EXCEPT ![r] = head[r]]
  BY <1>0, RowsOK DEF QuotaInv, TypeOK
<1>2. /\ user' \in Int /\ remain' \in Int /\ used' \in Nat /\ subUsed' \in Nat
      /\ remain' + used' = remain + used /\ faults' \in Nat
  BY <1>0 DEF TypeOK, balances
<1>3. CASE /\ ob[r].version = snap.version /\ ob' = [ob EXCEPT ![r] = claimed]
           /\ work' = [work EXCEPT ![w].pc = "claimed", ![w].snap = claimed]
  <2>1. /\ snap.state \in RefundStates /\ ob[r].state = snap.state
        /\ ob[r].receipt = snap.receipt /\ ob[r].audit = snap.audit
        /\ ob[r].pending = snap.pending
    BY <1>0, <1>3 DEF QuotaInv, SnapshotFresh
  <2>2. claimed \in ObligationRow /\ claimed.version > ob[r].version
    BY <1>0, <1>3, ClaimedFacts
  <2>3. RowOK(head[r], claimed)
    BY <1>0, <1>1, <2>1 DEF RowOK, RefundStates, ObligationRow
  <2> HIDE DEF claimed
  <2>4. wk \in Worker /\ wk.pc = "claimed" /\ wk.req = r
    BY <1>0, <2>2 DEF Worker
  <2>5. work' = [work EXCEPT ![w] = wk]
    BY <1>0, <1>3 DEF TypeOK, Worker
  <2> HIDE DEF wk, snap
  <2>6. QED BY <1>0, <1>1, <1>2, <1>3, <2>2, <2>3, <2>4, <2>5, WorkerRowStep
<1>4. CASE UNCHANGED ob /\ work' = [work EXCEPT ![w] = Resting]
  BY <1>0, <1>2, <1>4, RestingFacts, LeaveInv
<1>5. QED BY <1>3, <1>4 DEF RecoveryClaim

(* A worker's refund, found again, failed or refused.                      *)
LEMMA RecoveryRefundInv ==
  ASSUME QuotaInv, NEW w \in Workers, RecoveryRefund(w) \/ RecoveryRefused(w)
  PROVE  QuotaInv'
<1> DEFINE r == work[w].req
           snap == work[w].snap
           Moved(pc) == [work[w] EXCEPT !.pc = pc]
<1>0. /\ TypeOK /\ work[w].pc = "claimed" /\ r \in Requests /\ snap \in ObligationRow
      /\ work[w] \in Worker /\ faults \in Nat
  BY DEF QuotaInv, TypeOK, Worker, RecoveryRefund, RecoveryRefused
<1>1. ASSUME NEW pc \in {"done", "failed"}, work' = [work EXCEPT ![w].pc = pc]
      PROVE  /\ Moved(pc) \in Worker /\ Moved(pc).pc = pc /\ Moved(pc).req \in Requests
             /\ work' = [work EXCEPT ![w] = Moved(pc)]
  BY <1>0, <1>1 DEF Worker, TypeOK
<1>2. CASE /\ RefundTransaction(r, snap.receipt, snap.audit)
           /\ work' = [work EXCEPT ![w].pc = "done"] /\ UNCHANGED faults
  <2>1. snap.audit \in Audits \cup {NoOne}
    BY <1>0 DEF ObligationRow
  <2>2. QED BY <1>0, <1>1, <1>2, <2>1, RefundFacts, WorkerRowStep
<1>3. ASSUME NEW pc \in {"done", "failed"}, work' = [work EXCEPT ![w].pc = pc],
             faults' \in Nat, UNCHANGED <<balances, head, ob>>
      PROVE  QuotaInv'
  BY <1>1, <1>3, LeaveInv
<1>4. CASE RecoveryRefused(w)
  BY <1>0, <1>3, <1>4 DEF RecoveryRefused
<1>5. CASE RecoveryRefund(w)
  <2>1. CASE /\ work' = [work EXCEPT ![w].pc = "done"]
             /\ UNCHANGED <<balances, head, ob, faults>>
    BY <1>0, <1>3, <2>1
  <2>2. CASE /\ work' = [work EXCEPT ![w].pc = "failed"] /\ faults' = faults + 1
             /\ UNCHANGED <<balances, head, ob>>
    BY <1>0, <1>3, <2>2
  <2>3. QED BY <1>2, <1>5, <2>1, <2>2 DEF RecoveryRefund
<1>6. QED BY <1>4, <1>5

(* The row a failed attempt leaves.                                        *)
LEMMA RetryableFacts ==
  ASSUME NEW row \in ObligationRow
  PROVE  LET x == [row EXCEPT !.state = "retryable", !.owner = NoOne, !.live = FALSE,
                              !.version = @ + 1]
         IN x \in ObligationRow /\ x.version > row.version
<1> DEFINE x == [row EXCEPT !.state = "retryable", !.owner = NoOne, !.live = FALSE,
                            !.version = @ + 1]
<1>1. row.version \in Nat /\ row.version + 1 \in Nat
  BY DEF ObligationRow
<1>2. x \in ObligationRow
  BY <1>1 DEF ObligationRow, RefundStates
<1>3. x.version > row.version
  BY <1>1 DEF ObligationRow
<1>4. QED BY <1>2, <1>3

(* Giving a failed claim back preserves the invariant.                     *)
LEMMA FinishInv ==
  ASSUME QuotaInv, NEW w \in Workers, RecoveryFinish(w)
  PROVE  QuotaInv'
<1> DEFINE r == work[w].req
           o == [ob[r] EXCEPT !.state = "retryable", !.owner = NoOne, !.live = FALSE,
                              !.version = @ + 1]
<1>0. /\ TypeOK /\ r \in Requests /\ work' = [work EXCEPT ![w] = Resting]
      /\ UNCHANGED <<balances, head, faults>>
  BY DEF QuotaInv, TypeOK, RecoveryFinish
<1>1. /\ head[r] \in HeadRow /\ ob[r] \in ObligationRow /\ RowOK(head[r], ob[r])
      /\ head' = [head EXCEPT ![r] = head[r]] /\ ob[r].version \in Nat
  BY <1>0, RowsOK DEF QuotaInv, TypeOK, ObligationRow
<1>2. /\ user' \in Int /\ remain' \in Int /\ used' \in Nat /\ subUsed' \in Nat
      /\ remain' + used' = remain + used /\ faults' \in Nat
  BY <1>0 DEF TypeOK, balances
<1>3. CASE UNCHANGED ob
  BY <1>0, <1>2, <1>3, RestingFacts, LeaveInv
<1>4. CASE /\ ob[r].state = "claimed"
           /\ ob' = [ob EXCEPT ![r].state = "retryable", ![r].owner = NoOne,
                               ![r].live = FALSE, ![r].version = @ + 1]
  <2>1. ob' = [ob EXCEPT ![r] = o]
    BY <1>0, <1>1, <1>4 DEF TypeOK, ObligationRow
  <2>2. o \in ObligationRow /\ o.version > ob[r].version
    BY <1>1, RetryableFacts
  <2>4. RowOK(head[r], o)
    BY <1>1, <1>4 DEF RowOK, RefundStates, ObligationRow
  <2> HIDE DEF o
  <2>5. QED BY <1>0, <1>1, <1>2, <2>1, <2>2, <2>4, RestingFacts, WorkerRowStep
<1>5. QED BY <1>3, <1>4 DEF RecoveryFinish

(* A lease that runs out changes nothing the invariant looks at.           *)
LEMMA LeaseInv ==
  ASSUME QuotaInv, NEW r \in Requests, LeaseExpires(r)
  PROVE  QuotaInv'
<1>0. TypeOK /\ ob' = [ob EXCEPT ![r].live = FALSE] /\ UNCHANGED <<balances, head, work, faults>>
  BY DEF QuotaInv, LeaseExpires
<1>1. ob' \in [Requests -> ObligationRow]
  BY <1>0 DEF TypeOK, ObligationRow
<1>2. \A s \in Requests :
        /\ ob'[s].state = ob[s].state /\ ob'[s].receipt = ob[s].receipt
        /\ ob'[s].audit = ob[s].audit /\ ob'[s].pending = ob[s].pending
        /\ ob'[s].version = ob[s].version
  BY <1>0 DEF TypeOK, ObligationRow
<1>3. TypeOK' /\ TokenConserved'
  BY <1>0, <1>1 DEF TypeOK, QuotaInv, TokenConserved, balances
<1>4. LifecycleAgreement' /\ DispatchedNotRefunded' /\ AbsentRows'
  BY <1>0, <1>2 DEF QuotaInv, LifecycleAgreement, DispatchedNotRefunded, AbsentRows, InChain
<1>5. SnapshotFresh'
  <2>1. \A w \in Workers : work[w].pc = "read" => work[w].req \in Requests
    BY <1>0 DEF TypeOK
  <2>2. QED BY <1>0, <1>2, <2>1 DEF QuotaInv, SnapshotFresh
<1>6. QED BY <1>3, <1>4, <1>5 DEF QuotaInv

-----------------------------------------------------------------------------
(* Every step of every actor preserves the invariant.                      *)
LEMMA StepInv == QuotaInv /\ [Next]_vars => QuotaInv'
<1>1. SUFFICES ASSUME QuotaInv, [Next]_vars PROVE QuotaInv'
  OBVIOUS
<1>2. CASE UNCHANGED vars
  <2>1. TypeOK' /\ TokenConserved'
    BY <1>1, <1>2 DEF vars, QuotaInv, TypeOK, TokenConserved
  <2>2. LifecycleAgreement' /\ DispatchedNotRefunded' /\ AbsentRows' /\ SnapshotFresh'
    BY <1>1, <1>2 DEF vars, QuotaInv, LifecycleAgreement, DispatchedNotRefunded,
                      AbsentRows, SnapshotFresh, InChain
  <2>3. QED BY <2>1, <2>2 DEF QuotaInv
<1>3. ASSUME NEW r \in Requests, RequestStep(r)
      PROVE  QuotaInv'
  <2>1. CASE ReserveAccountQuota(r)
    BY <1>1, <2>1, ReserveInv
  <2>2. CASE ExtendAccountQuotaReservation(r)
    BY <1>1, <2>2, ExtendInv
  <2>3. CASE SettleAccountQuota(r)
    BY <1>1, <2>3, SettleInv DEF SettleAccountQuota
  <2>4. CASE ResolveAccountQuotaUnknownUsage(r)
    BY <1>1, <2>4, SettleInv DEF ResolveAccountQuotaUnknownUsage
  <2>5. CASE RefundAccountQuota(r)
    BY <1>1, <2>5, RefundInv
  <2>6. QED BY <1>1, <1>3, <2>1, <2>2, <2>3, <2>4, <2>5, RowRewrites DEF RequestStep
<1>4. ASSUME NEW w \in Workers, WorkerStep(w)
      PROVE  QuotaInv'
  BY <1>1, <1>4, ReadInv, ClaimInv, RecoveryRefundInv, FinishInv DEF WorkerStep
<1>5. ASSUME NEW w \in Workers, WorkerCrash(w)
      PROVE  QuotaInv'
  <2>1. /\ work' = [work EXCEPT ![w] = Resting] /\ faults' \in Nat
        /\ UNCHANGED <<balances, head, ob>>
    BY <1>1, <1>5 DEF WorkerCrash, QuotaInv, TypeOK
  <2>2. QED BY <1>1, <2>1, RestingFacts, LeaveInv
<1>6. CASE ResetSubscription
  <2>1. TypeOK' /\ TokenConserved'
    BY <1>1, <1>6 DEF ResetSubscription, QuotaInv, TypeOK, TokenConserved
  <2>2. LifecycleAgreement' /\ DispatchedNotRefunded' /\ AbsentRows' /\ SnapshotFresh'
    BY <1>1, <1>6 DEF ResetSubscription, QuotaInv, LifecycleAgreement, DispatchedNotRefunded,
                      AbsentRows, SnapshotFresh, InChain
  <2>3. QED BY <2>1, <2>2 DEF QuotaInv
<1>7. QED BY <1>1, <1>2, <1>3, <1>4, <1>5, <1>6, LeaseInv DEF Next

(* The rows and balances a fresh database starts with satisfy it.          *)
LEMMA InitInv == Init => QuotaInv
<1>1. SUFFICES ASSUME Init PROVE QuotaInv
  OBVIOUS
<1>2. TypeOK
  <2>1. NoHead \in HeadRow /\ NoObligation \in ObligationRow
    BY DEF NoHead, HeadRow, NoObligation, ObligationRow, Sources
  <2>2. QED BY <1>1, <2>1, RestingFacts, AccountQuotaAssumption DEF Init, TypeOK
<1>3. TokenConserved
  BY <1>1, AccountQuotaAssumption DEF Init, TokenConserved
<1>4. LifecycleAgreement /\ DispatchedNotRefunded /\ AbsentRows
  BY <1>1 DEF Init, LifecycleAgreement, DispatchedNotRefunded, AbsentRows, NoHead,
              NoObligation, RefundStates
<1>5. SnapshotFresh
  BY <1>1 DEF Init, SnapshotFresh, Resting
<1>6. QED BY <1>2, <1>3, <1>4, <1>5 DEF QuotaInv

(* The inductive invariant of the account quota kernel.                    *)
THEOREM QuotaInvariant == Spec => []QuotaInv
BY InitInv, StepInv, PTL DEF Spec

(* Rows, balances and the workers' memory are well formed in every state,  *)
(* so applyAccountQuotaBalances never stores a negative usage counter.     *)
THEOREM TypeCorrect == Spec => []TypeOK
<1>1. QuotaInv => TypeOK
  BY DEF QuotaInv
<1>2. QED BY <1>1, QuotaInvariant, PTL

(* remain_quota and used_quota of the token always add up.                 *)
THEOREM TokenConservation == Spec => []TokenConserved
<1>1. QuotaInv => TokenConserved
  BY DEF QuotaInv
<1>2. QED BY <1>1, QuotaInvariant, PTL

(* Head and lifecycle row never disagree, so validateAccountQuotaTerminal- *)
(* RecoveryRecord never parks a refund intent this code has written.       *)
THEOREM LifecycleConsistent == Spec => []LifecycleAgreement
<1>1. QuotaInv => LifecycleAgreement
  BY DEF QuotaInv
<1>2. QED BY <1>1, QuotaInvariant, PTL

(* No automatic path refunds a request that may have been dispatched.      *)
THEOREM NoRefundAfterDispatch == Spec => []DispatchedNotRefunded
<1>1. QuotaInv => DispatchedNotRefunded
  BY DEF QuotaInv
<1>2. QED BY <1>1, QuotaInvariant, PTL

(* The row a worker read and the row it is about to claim agree whenever   *)
(* their versions do, however many workers and callers rewrite it.         *)
THEOREM ClaimsAreFresh == Spec => []SnapshotFresh
<1>1. QuotaInv => SnapshotFresh
  BY DEF QuotaInv
<1>2. QED BY <1>1, QuotaInvariant, PTL

-----------------------------------------------------------------------------
(* How the heads may change: a step rewrites the head of at most one       *)
(* request, and only one that is not closed; what it charges comes out of  *)
(* the balances.                                                           *)
Moves(r) ==
  /\ \A s \in Requests \ {r} : head'[s] = head[s]
  /\ user' + WalletCharge(r)' = user + WalletCharge(r)
  /\ used' - TokenCharge(r)' = used - TokenCharge(r)
  /\ \/ subUsed' - SubCharge(r)' = subUsed - SubCharge(r)
     \/ Resets /\ subUsed' - SubCharge(r)' = 0 - SubCharge(r)

(* Applying the difference of two charges of one source is a move.         *)
LEMMA ChargeMoves ==
  ASSUME TypeOK, NEW r \in Requests, NEW h \in HeadRow, NEW old \in Int, NEW new \in Int,
         NEW base \in Nat, base = subUsed \/ (Resets /\ base = 0),
         head' = [head EXCEPT ![r] = h], Apply(h.source, h.playground, new - old, base),
         Charge(r)' = new,
         \/ Charge(r) = old /\ head[r].source = h.source /\ head[r].playground = h.playground
         \/ Charge(r) = 0 /\ old = 0
  PROVE  Moves(r)
<1>1. user \in Int /\ used \in Nat /\ subUsed \in Nat
  BY DEF TypeOK
<1>2. head'[r] = h /\ \A s \in Requests \ {r} : head'[s] = head[s]
  BY DEF TypeOK
<1>3. /\ user' = user - WalletPart(h.source, new - old)
      /\ used' = used + TokenPart(h.source, h.playground, new - old)
      /\ subUsed' = base + SubPart(h.source, new - old)
  BY DEF Apply
<1>4. user' + WalletCharge(r)' = user + WalletCharge(r)
  BY <1>1, <1>2, <1>3 DEF WalletCharge, WalletPart
<1>5. used' - TokenCharge(r)' = used - TokenCharge(r)
  BY <1>1, <1>2, <1>3 DEF TokenCharge, TokenPart
<1>6. subUsed' - SubCharge(r)' = base - SubCharge(r)
  BY <1>1, <1>2, <1>3 DEF SubCharge, SubPart
<1>7. QED BY <1>2, <1>4, <1>5, <1>6 DEF Moves

(* The transactions that move balances are moves of their request.         *)
LEMMA TransactionsMove ==
  ASSUME QuotaInv, NEW r \in Requests,
         \/ ReserveAccountQuota(r) \/ ExtendAccountQuotaReservation(r)
         \/ \E actual \in Quotas : \E from : SettleTransaction(r, actual, from)
         \/ \E i, audit : RefundTransaction(r, i, audit)
  PROVE  Moves(r)
<1>0. /\ TypeOK /\ head \in [Requests -> HeadRow] /\ head[r] \in HeadRow /\ RowOK(head[r], ob[r])
      /\ head[r].applied \in Nat /\ subUsed \in Nat /\ Quotas \subseteq Nat
  BY RowsOK, AccountQuotaAssumption DEF QuotaInv, TypeOK, HeadRow
<1>1. CASE ReserveAccountQuota(r)
  <2>1. PICK src \in Sources, pg \in BOOLEAN, hold \in Nat, base \in Nat :
          /\ ReserveTransaction(r, src, pg, hold, base)
          /\ base = subUsed \/ (Resets /\ base = 0)
    BY <1>0, <1>1, ReserveChoice
  <2> DEFINE h == [NoHead EXCEPT !.current = 1, !.applied = hold, !.source = src,
                                 !.playground = pg]
  <2>2. head' = [head EXCEPT ![r] = h] /\ head'[r] = h /\ Apply(src, pg, hold, base)
    BY <1>0, <2>1 DEF ReserveTransaction
  <2>3. /\ h \in HeadRow /\ h.source = src /\ h.playground = pg
        /\ h.term = "none" /\ h.applied = hold
    BY DEF NoHead, HeadRow
  <2> HIDE DEF h
  <2>4. Charge(r)' = hold
    BY <2>2, <2>3 DEF Charge
  <2>5. Charge(r) = 0
    BY <1>0, <2>1 DEF Charge, RowOK, ReserveTransaction
  <2>6. Apply(h.source, h.playground, hold - 0, base)
    BY <2>2, <2>3
  <2>7. hold \in Int /\ 0 \in Int
    OBVIOUS
  <2>8. QED BY <1>0, <2>1, <2>2, <2>3, <2>4, <2>5, <2>6, <2>7, ChargeMoves
<1>2. CASE ExtendAccountQuotaReservation(r)
  <2>1. PICK target \in Quotas :
          /\ head[r].term = "none"
          /\ Apply(head[r].source, head[r].playground, target - head[r].applied, subUsed)
          /\ head' = [head EXCEPT ![r].current = @ + 1, ![r].applied = target]
    BY <1>2 DEF ExtendAccountQuotaReservation
  <2> DEFINE h == [head[r] EXCEPT !.current = @ + 1, !.applied = target]
  <2>2. head' = [head EXCEPT ![r] = h] /\ head'[r] = h
    BY <1>0, <2>1
  <2>3. /\ h.source = head[r].source /\ h.playground = head[r].playground
        /\ h.term = "none" /\ h.applied = target
    BY <1>0, <2>1 DEF HeadRow
  <2>4. h \in HeadRow
    <3>1. head[r].current + 1 \in Nat /\ target \in Nat
      BY <1>0 DEF HeadRow
    <3>2. QED BY <1>0, <3>1 DEF HeadRow
  <2> HIDE DEF h
  <2>5. Charge(r)' = target /\ Charge(r) = head[r].applied
    BY <2>1, <2>2, <2>3 DEF Charge
  <2>6. target \in Int /\ head[r].applied \in Int
    BY <1>0
  <2>7. Apply(h.source, h.playground, target - head[r].applied, subUsed)
    BY <2>1, <2>3
  <2>8. QED BY <1>0, <2>2, <2>3, <2>4, <2>5, <2>6, <2>7, ChargeMoves
<1>3. ASSUME NEW actual \in Quotas, NEW from, SettleTransaction(r, actual, from)
      PROVE  Moves(r)
  <2> DEFINE h == [head[r] EXCEPT !.term = "settle", !.actual = actual]
  <2>2. /\ head' = [head EXCEPT ![r] = h] /\ head'[r] = h /\ head[r].term = "none"
        /\ Apply(head[r].source, head[r].playground, actual - head[r].applied, subUsed)
    BY <1>0, <1>3 DEF SettleTransaction
  <2>3. /\ h.source = head[r].source /\ h.playground = head[r].playground
        /\ h.term = "settle" /\ h.actual = actual
    BY <1>0 DEF HeadRow
  <2>4. h \in HeadRow
    BY <1>0 DEF HeadRow
  <2> HIDE DEF h
  <2>5. Charge(r)' = actual /\ Charge(r) = head[r].applied
    BY <2>2, <2>3 DEF Charge
  <2>6. actual \in Int /\ head[r].applied \in Int
    BY <1>0
  <2>7. Apply(h.source, h.playground, actual - head[r].applied, subUsed)
    BY <2>2, <2>3
  <2>8. QED BY <1>0, <2>2, <2>3, <2>4, <2>5, <2>6, <2>7, ChargeMoves
<1>4. ASSUME NEW i, NEW audit, RefundTransaction(r, i, audit)
      PROVE  Moves(r)
  <2> DEFINE h == [head[r] EXCEPT !.term = "refund"]
  <2>2. /\ head' = [head EXCEPT ![r] = h] /\ head'[r] = h /\ head[r].term = "none"
        /\ Apply(head[r].source, head[r].playground, -head[r].applied, subUsed)
    BY <1>0, <1>4 DEF RefundTransaction, RefundAllowed
  <2>3. /\ h.source = head[r].source /\ h.playground = head[r].playground /\ h.term = "refund"
    BY <1>0 DEF HeadRow
  <2>4. h \in HeadRow
    BY <1>0 DEF HeadRow
  <2> HIDE DEF h
  <2>5. Charge(r)' = 0 /\ Charge(r) = head[r].applied
    BY <2>2, <2>3 DEF Charge
  <2>6. -head[r].applied = 0 - head[r].applied /\ head[r].applied \in Int /\ 0 \in Int
    BY <1>0
  <2>7. Apply(h.source, h.playground, 0 - head[r].applied, subUsed)
    BY <2>2, <2>3, <2>6
  <2>8. QED BY <1>0, <2>2, <2>3, <2>4, <2>5, <2>6, <2>7, ChargeMoves
<1>5. QED BY <1>1, <1>2, <1>3, <1>4

(* A step that changes no head and no balance, or clears the subscription. *)
LEMMA StayMoves ==
  ASSUME TypeOK, NEW r \in Requests, UNCHANGED <<head, user, used>>,
         UNCHANGED subUsed \/ (Resets /\ subUsed' = 0)
  PROVE  Moves(r)
<1>1. SubCharge(r)' = SubCharge(r)
  BY DEF SubCharge, Charge
<1>2. QED BY <1>1 DEF Moves, WalletCharge, TokenCharge, Charge

(* Every step of every actor is a move of some request.                    *)
LEMMA StepMoves ==
  ASSUME QuotaInv, Next
  PROVE  \E r \in Requests : Moves(r)
<1>0. TypeOK
  BY DEF QuotaInv
<1>2. PICK any \in Requests : TRUE
  BY AccountQuotaAssumption
<1>3. ASSUME UNCHANGED <<head, user, used>>,
             UNCHANGED subUsed \/ (Resets /\ subUsed' = 0)
      PROVE  \E r \in Requests : Moves(r)
  BY <1>0, <1>2, <1>3, StayMoves
<1>4. ASSUME NEW r \in Requests, RequestStep(r) \/ LeaseExpires(r)
      PROVE  \E s \in Requests : Moves(s)
  <2>1. CASE \/ ReserveAccountQuota(r) \/ ExtendAccountQuotaReservation(r)
             \/ SettleAccountQuota(r) \/ ResolveAccountQuotaUnknownUsage(r)
             \/ RefundAccountQuota(r)
    BY <2>1, TransactionsMove
       DEF SettleAccountQuota, ResolveAccountQuotaUnknownUsage, RefundAccountQuota
  <2>2. CASE \/ EnsureAccountQuotaRefundRecovery(r) \/ SetDispatchEvidence(r)
             \/ ClearDispatchEvidence(r) \/ HoldAccountQuotaUnknownUsage(r)
             \/ PersistSettlementManualEvidence(r) \/ LeaseExpires(r)
    <3>1. UNCHANGED <<balances, head>>
      BY <2>2 DEF EnsureAccountQuotaRefundRecovery, SetDispatchEvidence,
           ClearDispatchEvidence, HoldAccountQuotaUnknownUsage,
           PersistSettlementManualEvidence, LeaseExpires
    <3>2. QED BY <1>3, <3>1 DEF balances
  <2>3. QED BY <1>4, <2>1, <2>2 DEF RequestStep
<1>5. ASSUME NEW w \in Workers, WorkerStep(w) \/ WorkerCrash(w)
      PROVE  \E s \in Requests : Moves(s)
  <2>1. CASE RecoveryRefund(w)
    <3>1. CASE UNCHANGED <<balances, head>>
      BY <1>3, <3>1 DEF balances
    <3>2. CASE RefundTransaction(work[w].req, work[w].snap.receipt, work[w].snap.audit)
      <4>1. work[w].req \in Requests
        BY <1>0, <2>1 DEF RecoveryRefund, TypeOK
      <4>2. QED BY <3>2, <4>1, TransactionsMove
    <3>3. QED BY <2>1, <3>1, <3>2 DEF RecoveryRefund
  <2>2. CASE \/ RecoveryRead(w) \/ RecoveryClaim(w) \/ RecoveryRefused(w)
             \/ RecoveryFinish(w) \/ WorkerCrash(w)
    <3>1. UNCHANGED <<balances, head>>
      BY <2>2 DEF RecoveryRead, RecoveryClaim, RecoveryRefused, RecoveryFinish, WorkerCrash
    <3>2. QED BY <1>3, <3>1 DEF balances
  <2>3. QED BY <1>5, <2>1, <2>2 DEF WorkerStep
<1>6. CASE ResetSubscription
  BY <1>3, <1>6 DEF ResetSubscription
<1>7. QED BY <1>4, <1>5, <1>6 DEF Next

(* Every step of every actor moves the balances by exactly the change of   *)
(* one request's charge: what ReserveAccountQuota takes, the later         *)
(* extension, settlement or refund accounts for, whoever executes it; a    *)
(* plan reset only makes the subscription's usage start from zero.         *)
THEOREM ChargesConserved == Spec => StepConserves
<1>1. ASSUME QuotaInv, [Next]_vars
      PROVE  [\E r \in Requests : Moves(r)]_vars
  BY <1>1, StepMoves
<1>2. QED BY <1>1, QuotaInvariant, PTL DEF Spec, StepConserves, Moves

-----------------------------------------------------------------------------
(* A step touches the head and row of one request only, and never those of *)
(* a closed or manual one; a usage_unknown one it can only settle.         *)
Touches(r) ==
  /\ \A s \in Requests \ {r} : head'[s] = head[s] /\ ob'[s] = ob[s]
  /\ \/ ob[r].state \in {"none", "open"} \cup RefundStates
     \/ /\ ob[r].state = "usage_unknown" /\ ob'[r].state = "applied"
        /\ head'[r].term = "settle" /\ head'[r].applied = head[r].applied

(* Every step of every actor touches at most one request that way.         *)
LEMMA StepTouches ==
  ASSUME QuotaInv, Next
  PROVE  UNCHANGED <<head, ob>> \/ \E r \in Requests : Touches(r)
<1>0. /\ TypeOK /\ head \in [Requests -> HeadRow] /\ ob \in [Requests -> ObligationRow]
      /\ \A r \in Requests : RowOK(head[r], ob[r])
  BY RowsOK DEF QuotaInv, TypeOK
<1>1. ASSUME NEW r \in Requests, NEW actual, NEW from \in {"open", "usage_unknown"},
             SettleTransaction(r, actual, from)
      PROVE  Touches(r)
  <2>1. /\ ob[r].state = from /\ ob' = [ob EXCEPT ![r] = Closed(@, NoOne)]
        /\ head' = [head EXCEPT ![r].term = "settle", ![r].actual = actual]
    BY <1>1 DEF SettleTransaction
  <2>2. /\ head'[r].term = "settle" /\ head'[r].applied = head[r].applied
        /\ ob'[r] = Closed(ob[r], NoOne)
        /\ \A s \in Requests \ {r} : head'[s] = head[s] /\ ob'[s] = ob[s]
    BY <1>0, <2>1 DEF HeadRow
  <2>3. Closed(ob[r], NoOne).state = "applied"
    BY <1>0 DEF Closed, ObligationRow
  <2>4. QED BY <2>1, <2>2, <2>3 DEF Touches
<1>2. ASSUME NEW r \in Requests, NEW i, NEW audit, RefundTransaction(r, i, audit)
      PROVE  Touches(r)
  BY <1>0, <1>2 DEF RefundTransaction, RefundAllowed, Touches
<1>3. ASSUME NEW r \in Requests, RequestStep(r)
      PROVE  Touches(r)
  <2>1. CASE SettleAccountQuota(r) \/ ResolveAccountQuotaUnknownUsage(r)
    BY <1>1, <2>1 DEF SettleAccountQuota, ResolveAccountQuotaUnknownUsage
  <2>2. CASE RefundAccountQuota(r)
    BY <1>2, <2>2 DEF RefundAccountQuota
  <2>3. CASE ReserveAccountQuota(r)
    <3>1. PICK src \in Sources, pg \in BOOLEAN, hold \in Nat, base \in Nat :
            ReserveTransaction(r, src, pg, hold, base)
      BY <1>0, <2>3, ReserveChoice
    <3>2. ob[r].state = "none"
      BY <1>0, <3>1 DEF ReserveTransaction, RowOK
    <3>3. \A s \in Requests \ {r} : head'[s] = head[s] /\ ob'[s] = ob[s]
      BY <1>0, <3>1 DEF ReserveTransaction
    <3>4. QED BY <3>2, <3>3 DEF Touches
  <2>4. CASE ExtendAccountQuotaReservation(r)
    BY <1>0, <2>4 DEF ExtendAccountQuotaReservation, Touches
  <2>5. CASE \/ EnsureAccountQuotaRefundRecovery(r) \/ SetDispatchEvidence(r)
             \/ ClearDispatchEvidence(r) \/ HoldAccountQuotaUnknownUsage(r)
             \/ PersistSettlementManualEvidence(r)
    BY <1>0, <2>5 DEF EnsureAccountQuotaRefundRecovery, SetDispatchEvidence, Touches,
         ClearDispatchEvidence, HoldAccountQuotaUnknownUsage,
         PersistSettlementManualEvidence, RefundStates
  <2>6. QED BY <1>3, <2>1, <2>2, <2>3, <2>4, <2>5 DEF RequestStep
<1>4. ASSUME NEW r \in Requests, LeaseExpires(r)
      PROVE  Touches(r)
  BY <1>0, <1>4 DEF LeaseExpires, Touches, RefundStates
<1>5. ASSUME NEW w \in Workers, WorkerStep(w) \/ WorkerCrash(w)
      PROVE  UNCHANGED <<head, ob>> \/ \E r \in Requests : Touches(r)
  <2>0. work[w].pc # "idle" => work[w].req \in Requests
    BY <1>0 DEF TypeOK
  <2>1. CASE RecoveryRead(w) \/ RecoveryRefused(w) \/ WorkerCrash(w)
    BY <2>1 DEF RecoveryRead, RecoveryRefused, WorkerCrash
  <2>2. CASE RecoveryClaim(w)
    <3>1. work[w].pc = "read" /\ UNCHANGED head /\ work[w].req \in Requests
      BY <2>0, <2>2 DEF RecoveryClaim
    <3>2. UNCHANGED ob \/ /\ ob[work[w].req].version = work[w].snap.version
                          /\ \E row : ob' = [ob EXCEPT ![work[w].req] = row]
      BY <2>2 DEF RecoveryClaim
    <3>3. ob[work[w].req].version = work[w].snap.version =>
            ob[work[w].req].state \in RefundStates
      BY <3>1 DEF QuotaInv, SnapshotFresh
    <3>4. QED BY <1>0, <3>1, <3>2, <3>3 DEF Touches
  <2>3. CASE RecoveryRefund(w)
    <3>1. CASE UNCHANGED <<head, ob>>
      BY <3>1
    <3>2. CASE RefundTransaction(work[w].req, work[w].snap.receipt, work[w].snap.audit)
      BY <1>2, <2>0, <2>3, <3>2 DEF RecoveryRefund
    <3>3. QED BY <2>3, <3>1, <3>2 DEF RecoveryRefund
  <2>4. CASE RecoveryFinish(w)
    <3>1. UNCHANGED head /\ work[w].req \in Requests
      BY <2>0, <2>4 DEF RecoveryFinish
    <3>2. UNCHANGED ob \/ /\ ob[work[w].req].state = "claimed"
                          /\ \A s \in Requests \ {work[w].req} : ob'[s] = ob[s]
      BY <1>0, <2>4 DEF RecoveryFinish
    <3>3. QED BY <3>1, <3>2 DEF Touches, RefundStates
  <2>5. QED BY <1>5, <2>1, <2>2, <2>3, <2>4 DEF WorkerStep
<1>6. QED BY <1>3, <1>4, <1>5 DEF Next, ResetSubscription

(* A terminal receipt is final: settled or refunded once, by whoever comes *)
(* first, in every interleaving of sessions, retries and recovery workers. *)
THEOREM TerminalOnce == Spec => TerminalIsFinal
<1>1. ASSUME QuotaInv, [Next]_vars
      PROVE  [\A r \in Requests :
                head[r].term # "none" => head'[r] = head[r] /\ ob'[r] = ob[r]]_vars
  <2>1. \A r \in Requests : head[r].term # "none" => ob[r].state = "applied"
    BY <1>1 DEF QuotaInv, LifecycleAgreement
  <2>2. CASE UNCHANGED vars
    BY <2>2
  <2>3. CASE Next
    BY <1>1, <2>1, <2>3, StepTouches DEF Touches, RefundStates
  <2>4. QED BY <1>1, <2>2, <2>3
<1>2. QED BY <1>1, QuotaInvariant, PTL DEF Spec, TerminalIsFinal

(* Held usage is moved by a reviewed settlement only.                      *)
THEOREM HeldUsageStays == Spec => HeldUsageOnlyReviewed
<1>1. ASSUME QuotaInv, [Next]_vars
      PROVE  [\A r \in Requests :
                /\ ob[r].state = "manual" => head'[r] = head[r] /\ ob'[r] = ob[r]
                /\ ob[r].state = "usage_unknown" =>
                     \/ head'[r] = head[r] /\ ob'[r] = ob[r]
                     \/ head'[r].term = "settle" /\ ob'[r].state = "applied"
                          /\ head'[r].applied = head[r].applied]_vars
  <2>2. CASE UNCHANGED vars
    BY <2>2
  <2>3. CASE Next
    BY <1>1, <2>3, StepTouches DEF Touches, RefundStates
  <2>4. QED BY <1>1, <2>2, <2>3
<1>2. QED BY <1>1, QuotaInvariant, PTL DEF Spec, HeldUsageOnlyReviewed

-----------------------------------------------------------------------------
(* What a request is charged is never negative.                            *)
LEMMA ChargeTypes ==
  ASSUME TypeOK, NEW r \in Requests
  PROVE  /\ Charge(r) \in Nat /\ WalletCharge(r) \in Nat
         /\ TokenCharge(r) \in Nat /\ SubCharge(r) \in Nat
<1>1. head[r] \in HeadRow
  BY DEF TypeOK
<1>2. Charge(r) \in Nat
  BY <1>1 DEF HeadRow, Charge
<1>3. QED
  BY <1>2 DEF WalletCharge, TokenCharge, SubCharge, WalletPart, TokenPart, SubPart

(* Charges of which only one moves sum up to what moved.                   *)
LEMMA OneMoves ==
  ASSUME NEW f \in [Requests -> Nat], NEW g \in [Requests -> Nat], NEW r \in Requests,
         \A s \in Requests \ {r} : g[s] = f[s]
  PROVE  /\ SumFunction(f) \in Int /\ SumFunction(g) \in Int
         /\ SumFunction(g) = SumFunction(f) + (g[r] - f[r])
<1>1. IsFiniteSet(Requests)
  BY AccountQuotaAssumption
<1>2. f \in [Requests -> Int] /\ g \in [Requests -> Int]
  OBVIOUS
<1>3. /\ SumFunction(f) = SumFunctionOnSet(f, Requests)
      /\ SumFunction(g) = SumFunctionOnSet(g, Requests)
  BY <1>2, SumOnDomain
<1>4. SumFunctionOnSet(f, Requests) \in Int /\ SumFunctionOnSet(g, Requests) \in Int
  BY <1>1, <1>2, SumInt
<1>5. SumFunctionOnSet(g, Requests) = SumFunctionOnSet(f, Requests) + (g[r] - f[r])
  BY <1>1, <1>2, SumMoves
<1>6. QED BY <1>3, <1>4, <1>5

(* A sum of charges is at least each of them.                              *)
LEMMA OneOfTheSum ==
  ASSUME NEW f \in [Requests -> Nat], NEW r \in Requests
  PROVE  SumFunction(f) \in Nat /\ SumFunction(f) >= f[r]
<1>1. SumFunction(f) = SumFunctionOnSet(f, Requests)
  BY SumOnDomain
<1>2. QED BY <1>1, AccountQuotaAssumption, SumNat

(* A move of one request keeps the balances equal to the charges.          *)
LEMMA MoveMatches ==
  ASSUME TypeOK, TypeOK', ChargesMatchBalances, NEW r \in Requests, Moves(r)
  PROVE  ChargesMatchBalances'
<1>1. /\ user \in Int /\ used \in Int /\ subUsed \in Int /\ InitUser \in Int
      /\ user' \in Int /\ used' \in Int /\ subUsed' \in Int
  BY AccountQuotaAssumption DEF TypeOK
<1>2. \A s \in Requests :
        /\ WalletCharge(s) \in Nat /\ TokenCharge(s) \in Nat /\ SubCharge(s) \in Nat
        /\ WalletCharge(s)' \in Nat /\ TokenCharge(s)' \in Nat /\ SubCharge(s)' \in Nat
  <2>1. \A s \in Requests :
          WalletCharge(s) \in Nat /\ TokenCharge(s) \in Nat /\ SubCharge(s) \in Nat
    BY ChargeTypes
  <2>2. ASSUME NEW s \in Requests
        PROVE  /\ WalletCharge(s)' \in Nat /\ TokenCharge(s)' \in Nat
               /\ SubCharge(s)' \in Nat
    <3>1. head'[s] \in HeadRow
      BY DEF TypeOK
    <3>2. Charge(s)' \in Nat
      BY <3>1 DEF HeadRow, Charge
    <3>3. QED
      BY <3>2 DEF WalletCharge, TokenCharge, SubCharge, WalletPart, TokenPart, SubPart
  <2>3. QED BY <2>1, <2>2
<1>3. \A s \in Requests \ {r} :
        /\ WalletCharge(s)' = WalletCharge(s) /\ TokenCharge(s)' = TokenCharge(s)
        /\ SubCharge(s)' = SubCharge(s)
  BY DEF Moves, WalletCharge, TokenCharge, SubCharge, Charge
<1>4. user' = InitUser - SumFunction([s \in Requests |-> WalletCharge(s)'])
  <2> DEFINE f == [s \in Requests |-> WalletCharge(s)]
             g == [s \in Requests |-> WalletCharge(s)']
  <2>1. /\ f \in [Requests -> Nat] /\ g \in [Requests -> Nat]
        /\ \A s \in Requests \ {r} : g[s] = f[s]
    BY <1>2, <1>3
  <2>2. f[r] = WalletCharge(r) /\ g[r] = WalletCharge(r)'
    OBVIOUS
  <2>3. user = InitUser - SumFunction(f)
    BY DEF ChargesMatchBalances
  <2> HIDE DEF f, g
  <2>4. /\ SumFunction(f) \in Int /\ SumFunction(g) \in Int
        /\ SumFunction(g) = SumFunction(f) + (g[r] - f[r])
    BY <2>1, OneMoves
  <2>5. user' = InitUser - SumFunction(g)
    <3>1. user' + g[r] = user + f[r] /\ f[r] \in Int /\ g[r] \in Int
      BY <1>2, <2>2 DEF Moves
    <3>2. QED BY <1>1, <2>3, <2>4, <3>1
  <2>6. QED BY <2>5 DEF g
<1>5. used' = SumFunction([s \in Requests |-> TokenCharge(s)'])
  <2> DEFINE f == [s \in Requests |-> TokenCharge(s)]
             g == [s \in Requests |-> TokenCharge(s)']
  <2>1. /\ f \in [Requests -> Nat] /\ g \in [Requests -> Nat]
        /\ \A s \in Requests \ {r} : g[s] = f[s]
    BY <1>2, <1>3
  <2>2. f[r] = TokenCharge(r) /\ g[r] = TokenCharge(r)'
    OBVIOUS
  <2>3. used = SumFunction(f)
    BY DEF ChargesMatchBalances
  <2> HIDE DEF f, g
  <2>4. /\ SumFunction(f) \in Int /\ SumFunction(g) \in Int
        /\ SumFunction(g) = SumFunction(f) + (g[r] - f[r])
    BY <2>1, OneMoves
  <2>5. used' = SumFunction(g)
    <3>1. used' - g[r] = used - f[r] /\ f[r] \in Int /\ g[r] \in Int
      BY <1>2, <2>2 DEF Moves
    <3>2. QED BY <1>1, <2>3, <2>4, <3>1
  <2>6. QED BY <2>5 DEF g
<1>6. LET cost == SumFunction([s \in Requests |-> SubCharge(s)'])
      IN subUsed' <= cost /\ (Resets \/ subUsed' = cost)
  <2> DEFINE f == [s \in Requests |-> SubCharge(s)]
             g == [s \in Requests |-> SubCharge(s)']
  <2>1. /\ f \in [Requests -> Nat] /\ g \in [Requests -> Nat]
        /\ \A s \in Requests \ {r} : g[s] = f[s]
    BY <1>2, <1>3
  <2>2. f[r] = SubCharge(r) /\ g[r] = SubCharge(r)'
    OBVIOUS
  <2>3. subUsed <= SumFunction(f) /\ (Resets \/ subUsed = SumFunction(f))
    BY DEF ChargesMatchBalances
  <2> HIDE DEF f, g
  <2>4. /\ SumFunction(f) \in Nat /\ SumFunction(g) \in Int
        /\ SumFunction(g) = SumFunction(f) + (g[r] - f[r])
    BY <2>1, OneMoves, OneOfTheSum
  <2>5. \/ subUsed' - g[r] = subUsed - f[r]
        \/ Resets /\ subUsed' - g[r] = 0 - f[r]
    BY <2>2 DEF Moves
  <2>6. f[r] \in Nat /\ g[r] \in Nat
    BY <2>1
  <2>7. subUsed' <= SumFunction(g) /\ (Resets \/ subUsed' = SumFunction(g))
    BY <1>1, <2>3, <2>4, <2>5, <2>6
  <2>8. QED BY <2>7 DEF g
<1>7. QED BY <1>4, <1>5, <1>6 DEF ChargesMatchBalances

(* At the start nothing is charged.                                        *)
LEMMA InitMatches == Init => ChargesMatchBalances
<1>1. SUFFICES ASSUME Init PROVE ChargesMatchBalances
  OBVIOUS
<1>2. \A r \in Requests : WalletCharge(r) = 0 /\ TokenCharge(r) = 0 /\ SubCharge(r) = 0
  BY <1>1 DEF Init, NoHead, Charge, WalletCharge, TokenCharge, SubCharge,
              WalletPart, TokenPart, SubPart
<1>3. ASSUME NEW f \in [Requests -> {0}] PROVE SumFunction(f) = 0
  BY AccountQuotaAssumption, SumOnDomain, SumZero
<1>4. /\ SumFunction([r \in Requests |-> WalletCharge(r)]) = 0
      /\ SumFunction([r \in Requests |-> TokenCharge(r)]) = 0
      /\ SumFunction([r \in Requests |-> SubCharge(r)]) = 0
  <2>1. /\ [r \in Requests |-> WalletCharge(r)] \in [Requests -> {0}]
        /\ [r \in Requests |-> TokenCharge(r)] \in [Requests -> {0}]
        /\ [r \in Requests |-> SubCharge(r)] \in [Requests -> {0}]
    BY <1>2
  <2>2. QED BY <1>3, <2>1
<1>5. QED BY <1>1, <1>4, AccountQuotaAssumption DEF Init, ChargesMatchBalances

(* In every state, for any number of requests, workers and retries, the    *)
(* wallet and the token have lost exactly what the receipts charge, and so *)
(* has the subscription unless its plan resets; then it counts at most     *)
(* that, although holds charged before a reset are later extended, settled *)
(* or refunded.                                                            *)
THEOREM BalancesAccounted == Spec => []ChargesMatchBalances
<1>1. QuotaInv /\ QuotaInv' /\ ChargesMatchBalances /\ [Next]_vars => ChargesMatchBalances'
  <2>1. SUFFICES ASSUME QuotaInv, QuotaInv', ChargesMatchBalances, [Next]_vars
                 PROVE  ChargesMatchBalances'
    OBVIOUS
  <2>2. TypeOK /\ TypeOK'
    BY <2>1 DEF QuotaInv
  <2>3. PICK r \in Requests : Moves(r)
    <3>1. CASE Next
      BY <2>1, <3>1, StepMoves
    <3>2. CASE UNCHANGED vars
      <4>1. PICK any \in Requests : TRUE
        BY AccountQuotaAssumption
      <4>2. QED BY <2>2, <3>2, <4>1, StayMoves DEF vars
    <3>3. QED BY <2>1, <3>1, <3>2
  <2>4. QED BY <2>1, <2>2, <2>3, MoveMatches
<1>2. QED BY <1>1, InitMatches, QuotaInvariant, PTL DEF Spec

-----------------------------------------------------------------------------
(* How a step may move the balances: not at all, by a plan reset, by a     *)
(* charge the balances cover, by giving back, or by a settlement.          *)
Covers(src, pg, q, base) ==
  /\ src = "free" \/ pg \/ UnlimitedToken \/ remain >= q
  /\ src = "wallet" => user >= q
  /\ src = "subscription" => SubTotal = 0 \/ base + q <= SubTotal

Settles == \E r \in Requests : head[r].term = "none" /\ head'[r].term = "settle"

Charges(src, pg, q, base) ==
  /\ Apply(src, pg, q, base) /\ base \in {0, subUsed}
  /\ q <= 0 \/ Covers(src, pg, q, base) \/ Settles

LEMMA TransactionsCharge ==
  ASSUME QuotaInv, NEW r \in Requests,
         \/ ReserveAccountQuota(r) \/ ExtendAccountQuotaReservation(r)
         \/ \E actual \in Quotas : \E from : SettleTransaction(r, actual, from)
         \/ \E i, audit : RefundTransaction(r, i, audit)
  PROVE  \E src \in Sources, pg \in BOOLEAN, q \in Int, base \in Nat :
           Charges(src, pg, q, base)
<1>0. /\ TypeOK /\ head \in [Requests -> HeadRow] /\ head[r] \in HeadRow
      /\ head[r].applied \in Nat /\ subUsed \in Nat /\ Quotas \subseteq Nat
      /\ head[r].source \in Sources /\ head[r].playground \in BOOLEAN /\ SubTotal \in Nat
  BY AccountQuotaAssumption DEF QuotaInv, TypeOK, HeadRow
<1>1. CASE ReserveAccountQuota(r)
  <2>1. PICK src \in Sources, pg \in BOOLEAN, hold \in Nat, base \in Nat :
          /\ ReserveTransaction(r, src, pg, hold, base) /\ base \in {0, subUsed}
          /\ Covers(src, pg, hold, base)
    BY <1>0, <1>1, ReserveChoice DEF Covers
  <2>2. Charges(src, pg, hold, base) /\ hold \in Int
    BY <2>1 DEF ReserveTransaction, Charges
  <2>3. QED BY <2>2, Zenon
<1>2. CASE ExtendAccountQuotaReservation(r)
  <2>1. PICK target \in Quotas :
          LET delta == target - head[r].applied
          IN /\ head[r].playground \/ UnlimitedToken \/ remain >= delta
             /\ \/ head[r].source = "wallet" /\ user >= delta
                \/ /\ head[r].source = "subscription"
                   /\ SubTotal = 0 \/ subUsed <= SubTotal - delta
                \/ head[r].source = "self_use"
             /\ Apply(head[r].source, head[r].playground, delta, subUsed)
    BY <1>2 DEF ExtendAccountQuotaReservation
  <2>2. PICK q \in Int : q = target - head[r].applied
    BY <1>0
  <2>3. Covers(head[r].source, head[r].playground, q, subUsed)
    BY <1>0, <2>1, <2>2 DEF Covers
  <2>4. Charges(head[r].source, head[r].playground, q, subUsed)
    BY <2>1, <2>2, <2>3 DEF Charges
  <2>5. QED BY <1>0, <2>4, Zenon
<1>3. ASSUME NEW actual \in Quotas, NEW from, SettleTransaction(r, actual, from)
      PROVE  \E src \in Sources, pg \in BOOLEAN, q \in Int, base \in Nat :
               Charges(src, pg, q, base)
  <2>1. /\ head[r].term = "none" /\ head'[r].term = "settle"
        /\ Apply(head[r].source, head[r].playground, actual - head[r].applied, subUsed)
    BY <1>0, <1>3 DEF SettleTransaction, HeadRow
  <2>2. PICK q \in Int : q = actual - head[r].applied
    BY <1>0
  <2>3. Charges(head[r].source, head[r].playground, q, subUsed)
    BY <2>1, <2>2 DEF Charges, Settles
  <2>4. QED BY <1>0, <2>3, Zenon
<1>4. ASSUME NEW i, NEW audit, RefundTransaction(r, i, audit)
      PROVE  \E src \in Sources, pg \in BOOLEAN, q \in Int, base \in Nat :
               Charges(src, pg, q, base)
  <2>1. Apply(head[r].source, head[r].playground, -head[r].applied, subUsed)
    BY <1>4 DEF RefundTransaction
  <2>2. PICK q \in Int : q = -head[r].applied /\ q <= 0
    BY <1>0
  <2>3. Charges(head[r].source, head[r].playground, q, subUsed)
    BY <2>1, <2>2 DEF Charges
  <2>4. QED BY <1>0, <2>3, Zenon
<1>5. QED BY <1>1, <1>2, <1>3, <1>4

LEMMA StepCharges ==
  ASSUME QuotaInv, Next
  PROVE  \/ UNCHANGED <<user, remain, used>> /\ subUsed' \in {0, subUsed}
         \/ \E src \in Sources, pg \in BOOLEAN, q \in Int, base \in Nat :
              Charges(src, pg, q, base)
<1>1. ASSUME NEW r \in Requests, RequestStep(r) \/ LeaseExpires(r)
      PROVE  \/ UNCHANGED balances
             \/ \E src \in Sources, pg \in BOOLEAN, q \in Int, base \in Nat :
                  Charges(src, pg, q, base)
  <2>1. CASE \/ ReserveAccountQuota(r) \/ ExtendAccountQuotaReservation(r)
             \/ SettleAccountQuota(r) \/ ResolveAccountQuotaUnknownUsage(r)
             \/ RefundAccountQuota(r)
    <3>1. \/ ReserveAccountQuota(r) \/ ExtendAccountQuotaReservation(r)
          \/ \E actual \in Quotas : \E from : SettleTransaction(r, actual, from)
          \/ \E i, audit : RefundTransaction(r, i, audit)
      BY <2>1 DEF SettleAccountQuota, ResolveAccountQuotaUnknownUsage, RefundAccountQuota
    <3>2. QED BY <3>1, TransactionsCharge, Zenon
  <2>2. CASE \/ EnsureAccountQuotaRefundRecovery(r) \/ SetDispatchEvidence(r)
             \/ ClearDispatchEvidence(r) \/ HoldAccountQuotaUnknownUsage(r)
             \/ PersistSettlementManualEvidence(r) \/ LeaseExpires(r)
    BY <2>2 DEF EnsureAccountQuotaRefundRecovery, SetDispatchEvidence,
         ClearDispatchEvidence, HoldAccountQuotaUnknownUsage,
         PersistSettlementManualEvidence, LeaseExpires
  <2>3. QED BY <1>1, <2>1, <2>2, Zenon DEF RequestStep
<1>2. ASSUME NEW w \in Workers, WorkerStep(w) \/ WorkerCrash(w)
      PROVE  \/ UNCHANGED balances
             \/ \E src \in Sources, pg \in BOOLEAN, q \in Int, base \in Nat :
                  Charges(src, pg, q, base)
  <2>1. CASE RefundTransaction(work[w].req, work[w].snap.receipt, work[w].snap.audit)
             /\ work[w].req \in Requests
    BY <2>1, TransactionsCharge, Zenon
  <2>2. \/ RefundTransaction(work[w].req, work[w].snap.receipt, work[w].snap.audit)
             /\ work[w].req \in Requests
        \/ UNCHANGED balances
    BY <1>2 DEF WorkerStep, RecoveryRead, RecoveryClaim, RecoveryRefund, RecoveryRefused,
                RecoveryFinish, WorkerCrash, QuotaInv, TypeOK
  <2>3. QED BY <2>1, <2>2
<1>3. CASE ResetSubscription
  BY <1>3 DEF ResetSubscription
<1>4. \/ UNCHANGED balances \/ ResetSubscription
      \/ \E src \in Sources, pg \in BOOLEAN, q \in Int, base \in Nat :
           Charges(src, pg, q, base)
  BY <1>1, <1>2, Zenon DEF Next
<1>5. QED BY <1>3, <1>4 DEF balances

(* Reservations and extensions are refused when a balance does not cover   *)
(* them: only a settlement can overdraw, whatever else runs in between.    *)
THEOREM NoOverdraft == Spec => OverdraftOnlyBySettlement
<1> DEFINE Solvent == /\ user' < 0 => user' >= user
                      /\ remain' < 0 /\ ~UnlimitedToken => remain' >= remain
                      /\ SubTotal # 0 /\ subUsed' > SubTotal => subUsed' <= subUsed
<1>1. ASSUME QuotaInv, Next PROVE Settles \/ Solvent
  <2>1. /\ user \in Int /\ remain \in Int /\ used \in Nat /\ subUsed \in Nat
        /\ SubTotal \in Nat
    BY <1>1, AccountQuotaAssumption DEF QuotaInv, TypeOK
  <2>2. CASE UNCHANGED <<user, remain, used>> /\ subUsed' \in {0, subUsed}
    BY <2>1, <2>2
  <2>3. ASSUME NEW src \in Sources, NEW pg \in BOOLEAN, NEW q \in Int, NEW base \in Nat,
               Charges(src, pg, q, base), ~Settles
        PROVE  Solvent
    <3>1. /\ user' = user - WalletPart(src, q) /\ remain' = remain - TokenPart(src, pg, q)
          /\ subUsed' = base + SubPart(src, q) /\ base \in {0, subUsed}
          /\ q <= 0 \/ Covers(src, pg, q, base)
      BY <2>3 DEF Charges, Apply
    <3>2. user' < 0 => user' >= user
      BY <2>1, <3>1 DEF WalletPart, Covers
    <3>3. remain' < 0 /\ ~UnlimitedToken => remain' >= remain
      BY <2>1, <3>1 DEF TokenPart, Covers
    <3>4. SubTotal # 0 /\ subUsed' > SubTotal => subUsed' <= subUsed
      BY <2>1, <3>1 DEF SubPart, Covers
    <3>5. QED BY <3>2, <3>3, <3>4
  <2>4. QED BY <1>1, <2>2, <2>3, StepCharges
<1>2. ASSUME QuotaInv, [Next]_vars PROVE [Settles \/ Solvent]_vars
  BY <1>1, <1>2
<1>3. QED BY <1>2, QuotaInvariant, PTL DEF Spec, OverdraftOnlyBySettlement, Settles

-----------------------------------------------------------------------------
(* Every balance stays in the range of its column.                         *)
InRange ==
  /\ user \in (-MaxBalance) .. MaxBalance /\ remain \in (-MaxBalance) .. MaxBalance
  /\ used <= MaxBalance /\ subUsed <= MaxBalance

LEMMA RangeKept == Spec => []InRange
<1>1. Init => InRange
  BY AccountQuotaAssumption DEF Init, InRange
<1>2. ASSUME QuotaInv, InRange, [Next]_vars PROVE InRange'
  <2>1. user \in Int /\ subUsed \in Nat /\ MaxBalance \in Nat
    BY <1>2, AccountQuotaAssumption DEF QuotaInv, TypeOK
  <2>2. CASE UNCHANGED <<user, remain, used>> /\ subUsed' \in {0, subUsed}
    BY <1>2, <2>1, <2>2 DEF InRange
  <2>3. ASSUME NEW src \in Sources, NEW pg \in BOOLEAN, NEW q \in Int, NEW base \in Nat,
               Charges(src, pg, q, base)
        PROVE  InRange'
    <3>1. /\ user' \in (-MaxBalance) .. MaxBalance /\ remain' \in (-MaxBalance) .. MaxBalance
          /\ used' \in 0 .. MaxBalance
          /\ subUsed' = base + SubPart(src, q) /\ base \in {0, subUsed}
          /\ SubPart(src, q) # 0 => base + SubPart(src, q) \in 0 .. MaxBalance
      BY <2>3 DEF Charges, Apply, Fits
    <3>2. subUsed' <= MaxBalance
      BY <1>2, <2>1, <3>1 DEF InRange
    <3>3. QED BY <2>1, <3>1, <3>2 DEF InRange
  <2>4. QED BY <1>2, <2>2, <2>3, StepCharges DEF vars
<1>3. QED BY <1>1, <1>2, QuotaInvariant, PTL DEF Spec

(* When plans do not reset, a refund that has been promised can always be  *)
(* applied: the whole hold can be given back without any balance           *)
(* leaving its range: applyAccountQuotaBalances cannot refuse the refund   *)
(* worker, however many other requests were charged or settled meanwhile.  *)
(* (With resets it can: the run account_quota_reset_refund.)               *)
THEOREM RefundsFit ==
  ASSUME ~Resets
  PROVE  Spec => []RefundFits
<1>1. ASSUME QuotaInv, ChargesMatchBalances, InRange PROVE RefundFits
  <2>1. SUFFICES ASSUME NEW r \in Requests, ob[r].state \in RefundStates
                 PROVE  Fits(head[r].source, head[r].playground, -head[r].applied, subUsed)
    BY DEF RefundFits
  <2>2. /\ TypeOK /\ head[r] \in HeadRow /\ head[r].applied \in Nat
        /\ head[r].source \in Sources /\ head[r].playground \in BOOLEAN
        /\ user \in Int /\ remain \in Int /\ used \in Nat /\ subUsed \in Nat
        /\ MaxBalance \in Nat /\ InitUser \in 0 .. MaxBalance /\ InitRemain \in 0 .. MaxBalance
        /\ remain + used = InitRemain
    BY <1>1, AccountQuotaAssumption DEF QuotaInv, TypeOK, HeadRow, TokenConserved
  <2>3. Charge(r) = head[r].applied
    BY <1>1, <2>1 DEF QuotaInv, LifecycleAgreement, RefundStates, Charge
  <2>4. \A s \in Requests :
          WalletCharge(s) \in Nat /\ TokenCharge(s) \in Nat /\ SubCharge(s) \in Nat
    BY <2>2, ChargeTypes
  <2>5. user + WalletPart(head[r].source, head[r].applied) <= InitUser
    <3> DEFINE f == [s \in Requests |-> WalletCharge(s)]
    <3>1. f \in [Requests -> Nat] /\ f[r] = WalletPart(head[r].source, head[r].applied)
      BY <2>3, <2>4 DEF WalletCharge
    <3>2. user = InitUser - SumFunction(f)
      BY <1>1 DEF ChargesMatchBalances
    <3> HIDE DEF f
    <3>3. SumFunction(f) \in Nat /\ SumFunction(f) >= f[r] /\ f[r] \in Nat
      BY <3>1, OneOfTheSum
    <3>4. QED BY <2>2, <3>1, <3>2, <3>3
  <2>6. used >= TokenPart(head[r].source, head[r].playground, head[r].applied)
    <3> DEFINE f == [s \in Requests |-> TokenCharge(s)]
    <3>1. /\ f \in [Requests -> Nat]
          /\ f[r] = TokenPart(head[r].source, head[r].playground, head[r].applied)
      BY <2>3, <2>4 DEF TokenCharge
    <3>2. used = SumFunction(f)
      BY <1>1 DEF ChargesMatchBalances
    <3> HIDE DEF f
    <3>3. QED BY <3>1, <3>2, OneOfTheSum
  <2>7. subUsed >= SubPart(head[r].source, head[r].applied)
    <3> DEFINE f == [s \in Requests |-> SubCharge(s)]
    <3>1. f \in [Requests -> Nat] /\ f[r] = SubPart(head[r].source, head[r].applied)
      BY <2>3, <2>4 DEF SubCharge
    <3>2. subUsed = SumFunction(f)
      BY <1>1 DEF ChargesMatchBalances
    <3> HIDE DEF f
    <3>3. QED BY <3>1, <3>2, OneOfTheSum
  <2>8. \A q \in Nat :
          /\ WalletPart(head[r].source, q) \in Nat /\ SubPart(head[r].source, q) \in Nat
          /\ TokenPart(head[r].source, head[r].playground, q) \in Nat
          /\ WalletPart(head[r].source, -q) = -WalletPart(head[r].source, q)
          /\ SubPart(head[r].source, -q) = -SubPart(head[r].source, q)
          /\ TokenPart(head[r].source, head[r].playground, -q)
               = -TokenPart(head[r].source, head[r].playground, q)
    BY DEF WalletPart, TokenPart, SubPart
  <2>9. PICK q \in Nat : q = head[r].applied
    BY <2>2
  <2> DEFINE x == WalletPart(head[r].source, q)
             y == TokenPart(head[r].source, head[r].playground, q)
             z == SubPart(head[r].source, q)
  <2>10. /\ user >= -MaxBalance /\ remain >= -MaxBalance
         /\ used <= MaxBalance /\ subUsed <= MaxBalance
    BY <1>1, <2>2 DEF InRange
  <2>11. /\ user - (-x) \in (-MaxBalance) .. MaxBalance
         /\ remain - (-y) \in (-MaxBalance) .. MaxBalance
         /\ used + (-y) \in 0 .. MaxBalance /\ subUsed + (-z) \in 0 .. MaxBalance
    BY <2>2, <2>5, <2>6, <2>7, <2>8, <2>9, <2>10
  <2>12. /\ WalletPart(head[r].source, -head[r].applied) = -x
         /\ TokenPart(head[r].source, head[r].playground, -head[r].applied) = -y
         /\ SubPart(head[r].source, -head[r].applied) = -z
    BY <2>8, <2>9
  <2> HIDE DEF x, y, z
  <2>13. QED BY <2>11, <2>12 DEF Fits
<1>2. QED BY <1>1, QuotaInvariant, BalancesAccounted, RangeKept, PTL
=============================================================================
