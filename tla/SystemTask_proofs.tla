-------------------------- MODULE SystemTask_proofs --------------------------
(***************************************************************************)
(* Proofs about the system task runner, for any set of runners, any number *)
(* of task rows, any fence bound and any stalls of the claimers.           *)
(*                                                                         *)
(* TaskInv is the inductive invariant.  The unique active_key alone does   *)
(* not make an execution unique, and neither does the lease, which may be  *)
(* lost at any moment: what does is that the update from pending to        *)
(* running succeeds once per row.  So the invariant says that a runner     *)
(* past that update, and any handler ever started, are past the row's      *)
(* pending state, that a runner past the update is alone there and no      *)
(* handler of the row was started yet, and that an expired lock a claimer  *)
(* may take over names its own task or one that had already ended.         *)
(***************************************************************************)
EXTENDS SystemTask, TLAPS

(* A status a row has once it was claimed; it never returns to "pending".  *)
Past == {"running"} \cup Terminal

(* The type's unique active_key.                                           *)
OneActive ==
  \A t, u \in Tasks : status[t] \in Active /\ status[u] \in Active => t = u

(* A lock row names a task that exists.                                    *)
LockNamesTask == lock # NoLock => status[lock.task] # "absent"

Pass == [pc : {"idle", "claim", "acquired", "marked", "stale", "expired"},
         task : Tasks \cup {NoTask}, expired : Tasks \cup {NoTask}, by : Runners,
         fence : 0 .. MaxFence]

(* What a pass p holds in memory when the rows have the statuses st.       *)
PassOK(p, st) ==
  /\ p.pc \in {"claim", "acquired", "marked"} => p.task \in Tasks /\ st[p.task] # "absent"
  /\ p.pc \in {"acquired", "marked"} => p.fence \in 1 .. MaxFence
  /\ p.pc \in {"stale", "expired"} => p.expired \in Tasks
  /\ p.pc = "acquired" /\ p.expired \notin {NoTask, p.task} => st[p.expired] \in Terminal
  /\ p.pc = "marked" => st[p.task] \in Past

PassKnows == \A r \in Runners : PassOK(pass[r], status)

(* An expired lock row a claimer may take over names the claimer's task or *)
(* one that had ended when the claimer found its own task pending.         *)
LapsedEnded ==
  \A r \in lapsed :
    pass[r].pc = "claim" /\ lock # NoLock /\ lock.task # pass[r].task
      => status[lock.task] \in Terminal

(* Whoever is past the update of a row is there alone and starts its first *)
(* handler; a row with a handler started was claimed.                      *)
Alone ==
  /\ \A r, s \in Runners :
       pass[r].pc = "marked" /\ pass[s].pc = "marked" /\ pass[r].task = pass[s].task => r = s
  /\ \A r \in Runners : pass[r].pc = "marked" => starts[pass[r].task] = 0
  /\ \A t \in Tasks : starts[t] # 0 => status[t] \in Past
  /\ OneExecutionPerTask

TaskInv == TypeOK /\ OneActive /\ LockNamesTask /\ PassKnows /\ LapsedEnded /\ Alone

(* The life of a row, one step at a time.                                  *)
Moves ==
  \/ status' = status
  \/ \E t \in Tasks, s \in Active \cup Terminal :
       /\ status' = [status EXCEPT ![t] = s]
       /\ \/ s = "pending" /\ status[t] = "absent" /\ \A u \in Tasks : status[u] \notin Active
          \/ s = "running" /\ status[t] = "pending"
          \/ s \in Terminal /\ status[t] = "running"

(* A claimed row stays claimed, an ended one keeps its status, no row      *)
(* disappears.                                                             *)
Forward ==
  \A t \in Tasks :
    /\ status[t] \in Past => status'[t] \in Past
    /\ status[t] \in Terminal => status'[t] = status[t]
    /\ status[t] # "absent" => status'[t] # "absent"

-----------------------------------------------------------------------------
LEMMA NoLockFacts ==
  /\ NoLock.task = NoTask /\ NoLock.by \in Runners /\ NoLock.live = FALSE
  /\ \A l \in LockRow : l # NoLock /\ l.task \in Tasks
  /\ Idle \in Pass /\ Idle.pc = "idle"
<1>1. (CHOOSE r \in Runners : TRUE) \in Runners
  BY SystemTaskAssumption
<1>2. NoLock.task = NoTask /\ NoLock.by \in Runners /\ NoLock.live = FALSE
  BY <1>1 DEF NoLock
<1>3. ASSUME NEW l \in LockRow PROVE l # NoLock /\ l.task \in Tasks
  BY <1>2 DEF LockRow, NoTask, Tasks
<1>4. Idle \in Pass /\ Idle.pc = "idle"
  BY <1>1, SystemTaskAssumption DEF Idle, Pass
<1>5. QED BY <1>2, <1>3, <1>4

LEMMA NextFenceInRange ==
  ASSUME NEW f \in 1 .. MaxFence
  PROVE  NextFence(f) \in 1 .. MaxFence
BY SystemTaskAssumption DEF NextFence

(* The lease-expiry mark is a step of the row's life, or none.             *)
LEMMA LeaseExpiredMoves ==
  ASSUME TypeOK, NEW t \in Tasks, status' = LeaseExpired(t)
  PROVE  Moves
BY DEF LeaseExpired, Moves, TypeOK, Active, Terminal

LEMMA MovesForward ==
  ASSUME TypeOK, OneActive, Moves
  PROVE  Forward /\ OneActive' /\ status' \in [Tasks -> Active \cup Terminal \cup {"absent"}]
<1>1. CASE status' = status
  BY <1>1 DEF Forward, OneActive, TypeOK
<1>2. CASE status' # status
  <2>1. PICK t \in Tasks, s \in Active \cup Terminal :
          /\ status' = [status EXCEPT ![t] = s]
          /\ \/ s = "pending" /\ status[t] = "absent" /\ \A u \in Tasks : status[u] \notin Active
             \/ s = "running" /\ status[t] = "pending"
             \/ s \in Terminal /\ status[t] = "running"
    BY <1>2 DEF Moves
  <2>2. status'[t] = s /\ \A u \in Tasks \ {t} : status'[u] = status[u]
    BY <2>1 DEF TypeOK
  <2>3. Forward
    BY <2>1, <2>2 DEF Forward, Past, Active, Terminal
  <2>4. OneActive'
    BY <2>1, <2>2 DEF OneActive, Active, Terminal
  <2>5. QED BY <2>1, <2>3, <2>4 DEF TypeOK
<1>3. QED BY <1>1, <1>2

(* What a pass holds stays true while the rows move.                       *)
LEMMA PassStays ==
  ASSUME Forward, NEW p \in Pass, PassOK(p, status)
  PROVE  PassOK(p, status')
BY DEF PassOK, Forward, Past, Terminal, Pass

(* No handler starts and nobody becomes marked: nobody loses its place.    *)
LEMMA AloneStays ==
  ASSUME TaskInv, Forward, UNCHANGED starts,
         \A r \in Runners : pass'[r].pc = "marked" => pass'[r] = pass[r]
  PROVE  Alone'
<1>1. \A t \in Tasks : starts'[t] # 0 => status'[t] \in Past
  BY DEF TaskInv, Alone, Forward
<1>2. QED BY <1>1 DEF TaskInv, Alone, OneExecutionPerTask

(* The lock row names the same task, or is gone, or nobody found it        *)
(* expired: what claimers may take over is still ended.                    *)
LEMMA LapsedStays ==
  ASSUME TaskInv, Forward, NEW r \in Runners,
         lapsed' = {} \/ lock' = NoLock \/ (lock # NoLock /\ lock'.task = lock.task),
         lapsed' \ {r} \subseteq lapsed,
         \A s \in Runners \ {r} : pass'[s] = pass[s],
         r \in lapsed' /\ pass'[r].pc = "claim" /\ lock' # NoLock /\ lock'.task # pass'[r].task
           => status'[lock'.task] \in Terminal
  PROVE  LapsedEnded'
<1> SUFFICES ASSUME NEW s \in lapsed', pass'[s].pc = "claim", lock' # NoLock,
                    lock'.task # pass'[s].task
             PROVE  status'[lock'.task] \in Terminal
  BY DEF LapsedEnded
<1>1. CASE s = r
  BY <1>1
<1>2. CASE s # r
  <2>1. s \in lapsed /\ s \in Runners /\ pass'[s] = pass[s] /\ lock # NoLock /\ lock'.task = lock.task
    BY <1>2 DEF TaskInv, TypeOK
  <2>2. status[lock.task] \in Terminal /\ lock.task \in Tasks
    BY <2>1, NoLockFacts DEF TaskInv, TypeOK, LapsedEnded
  <2>3. QED BY <2>1, <2>2 DEF Forward
<1>3. QED BY <1>1, <1>2

(* One pass moves to q without starting an execution and without becoming  *)
(* marked; the lock may change to any row that names an existing task.     *)
LEMMA PassStep ==
  ASSUME TaskInv, Moves, NEW r \in Runners, NEW q \in Pass, pass' = [pass EXCEPT ![r] = q],
         PassOK(q, status'), q.pc # "marked", UNCHANGED <<execs, alive, starts>>,
         owner' \in [Tasks -> Runners], lock' \in LockRow \cup {NoLock},
         lock' # NoLock => status'[lock'.task] # "absent",
         lapsed' \subseteq Runners, lapsed' \ {r} \subseteq lapsed,
         lapsed' = {} \/ lock' = NoLock \/ lock' = lock,
         r \in lapsed' /\ q.pc = "claim" /\ lock' # NoLock /\ lock'.task # q.task
           => status'[lock'.task] \in Terminal
  PROVE  TaskInv'
<1>1. Forward /\ OneActive' /\ status' \in [Tasks -> Active \cup Terminal \cup {"absent"}]
  BY MovesForward DEF TaskInv
<1>2. pass \in [Runners -> Pass]
  BY DEF TaskInv, TypeOK, Pass
<1>3. pass'[r] = q /\ \A s \in Runners \ {r} : pass'[s] = pass[s]
  BY <1>2
<1>4. TypeOK'
  BY <1>1, <1>2 DEF TaskInv, TypeOK, Pass
<1>5. PassKnows'
  BY <1>1, <1>2, <1>3, PassStays DEF TaskInv, PassKnows
<1>6. Alone'
  BY <1>1, <1>3, AloneStays
<1>7. LapsedEnded'
  BY <1>1, <1>3, LapsedStays
<1>8. LockNamesTask'
  BY DEF LockNamesTask
<1>9. QED BY <1>1, <1>4, <1>5, <1>6, <1>7, <1>8 DEF TaskInv

(* Executions are dropped, or one of them changes without changing its     *)
(* task, its runner or its fence.                                          *)
LEMMA ExecStep ==
  ASSUME TaskInv, Moves, UNCHANGED <<pass, alive, owner, starts>>,
         NEW e \in execs, NEW f \in Exec,
         execs' = (execs \ {e}) \cup {f} \/ execs' = execs \ {e},
         lock' \in LockRow \cup {NoLock},
         lock' # NoLock => status'[lock'.task] # "absent",
         lapsed' = {} \/ (lapsed' = lapsed /\ lock' \in {lock, NoLock})
  PROVE  TaskInv'
<1>1. Forward /\ OneActive' /\ status' \in [Tasks -> Active \cup Terminal \cup {"absent"}]
  BY MovesForward DEF TaskInv
<1>2. TypeOK'
  BY <1>1 DEF TaskInv, TypeOK
<1>3. PassKnows'
  BY <1>1, PassStays DEF TaskInv, PassKnows, TypeOK, Pass
<1>4. Alone'
  BY <1>1, AloneStays
<1>5. LapsedEnded'
  <2>1. CASE lapsed' = {}
    BY <2>1 DEF LapsedEnded
  <2>2. CASE lapsed' = lapsed /\ lock' \in {lock, NoLock}
    <3>1. lock # NoLock => lock.task \in Tasks
      BY NoLockFacts DEF TaskInv, TypeOK
    <3>2. QED BY <1>1, <2>2, <3>1 DEF TaskInv, LapsedEnded, Forward
  <2>3. QED BY <2>1, <2>2
<1>6. LockNamesTask'
  BY DEF LockNamesTask
<1>7. QED BY <1>1, <1>2, <1>3, <1>4, <1>5, <1>6 DEF TaskInv

-----------------------------------------------------------------------------
LEMMA CreateKeeps ==
  ASSUME TaskInv, CreateSystemTask
  PROVE  TaskInv'
<1>1. Moves
  BY DEF CreateSystemTask, Moves, Active
<1>2. Forward /\ OneActive' /\ status' \in [Tasks -> Active \cup Terminal \cup {"absent"}]
  BY <1>1, MovesForward DEF TaskInv
<1>3. UNCHANGED <<owner, lock, alive, pass, execs, lapsed, starts>>
  BY DEF CreateSystemTask
<1>4. TypeOK'
  BY <1>2, <1>3 DEF TaskInv, TypeOK
<1>5. PassKnows'
  BY <1>2, <1>3, PassStays DEF TaskInv, PassKnows, TypeOK, Pass
<1>6. Alone'
  BY <1>2, <1>3, AloneStays
<1>7. lock # NoLock => lock.task \in Tasks
  BY NoLockFacts DEF TaskInv, TypeOK
<1>8. LockNamesTask' /\ LapsedEnded'
  BY <1>2, <1>3, <1>7 DEF TaskInv, LockNamesTask, LapsedEnded, Forward
<1>9. QED BY <1>2, <1>4, <1>5, <1>6, <1>8 DEF TaskInv

LEMMA ClaimReadKeeps ==
  ASSUME TaskInv, NEW r \in Runners, ClaimRead(r)
  PROVE  TaskInv'
<1>1. PICK t \in Tasks :
        /\ status[t] = "pending"
        /\ pass' = [pass EXCEPT ![r] = [Idle EXCEPT !.pc = "claim", !.task = t]]
  BY DEF ClaimRead
<1> DEFINE q == [Idle EXCEPT !.pc = "claim", !.task = t]
<1>2. UNCHANGED <<status, owner, lock, alive, execs, starts>>
  BY DEF ClaimRead
<1>3. q \in Pass /\ q.pc = "claim" /\ q.task = t
  BY NoLockFacts DEF Pass
<1>4. lock # NoLock => lock.task \in Tasks /\ status[lock.task] # "absent"
  BY NoLockFacts DEF TaskInv, TypeOK, LockNamesTask
<1>5. lock # NoLock /\ lock.task # t => status[lock.task] \in Terminal
  BY <1>1, <1>4 DEF TaskInv, TypeOK, OneActive, Active
<1>6. PassOK(q, status')
  BY <1>1, <1>2, <1>3 DEF PassOK
<1>7. /\ owner \in [Tasks -> Runners] /\ lock \in LockRow \cup {NoLock}
      /\ lapsed' \subseteq Runners /\ lapsed' \ {r} \subseteq lapsed
  BY DEF TaskInv, TypeOK, ClaimRead
<1> HIDE DEF q
<1>8. QED BY <1>1, <1>2, <1>3, <1>4, <1>5, <1>6, <1>7, PassStep DEF Moves, q

(* A pass that ends, giving back the lock row or not.                      *)
LEMMA EndPass ==
  ASSUME TaskInv, NEW r \in Runners, pass' = [pass EXCEPT ![r] = Idle],
         UNCHANGED <<status, owner, alive, execs, starts>>, lock' \in {lock, NoLock},
         lapsed' \in {lapsed, lapsed \ {r}}
  PROVE  TaskInv'
<1>1. PassOK(Idle, status') /\ Idle \in Pass /\ Idle.pc = "idle"
  BY NoLockFacts DEF PassOK
<1>2. lock' # NoLock => status'[lock'.task] # "absent"
  BY DEF TaskInv, LockNamesTask
<1>3. /\ owner' \in [Tasks -> Runners] /\ lock' \in LockRow \cup {NoLock}
      /\ lapsed' \subseteq Runners /\ lapsed' \ {r} \subseteq lapsed
  BY DEF TaskInv, TypeOK
<1>4. QED BY <1>1, <1>2, <1>3, PassStep DEF Moves

LEMMA ClaimAcquireKeeps ==
  ASSUME TaskInv, NEW r \in Runners, ClaimAcquire(r)
  PROVE  TaskInv'
<1> DEFINE p == pass[r]
           fence == IF lock = NoLock THEN 1 ELSE NextFence(lock.fence)
           q == [p EXCEPT !.pc = "acquired", !.fence = fence, !.expired = lock.task]
           l == [task |-> p.task, by |-> r, live |-> TRUE, fence |-> fence]
<1>1. UNCHANGED <<status, owner, alive, execs, starts>> /\ owner \in [Tasks -> Runners]
  BY DEF ClaimAcquire, TaskInv, TypeOK
<1>2. p \in Pass /\ p.pc = "claim" /\ PassOK(p, status) /\ p.task \in Tasks /\ status[p.task] # "absent"
  BY DEF ClaimAcquire, TaskInv, TypeOK, PassKnows, PassOK, Pass
<1>3. lock \in LockRow \cup {NoLock}
  BY DEF TaskInv, TypeOK
<1>4. fence \in 1 .. MaxFence
  <2>1. CASE lock = NoLock
    BY <2>1, SystemTaskAssumption
  <2>2. CASE lock # NoLock
    <3>1. lock.fence \in 1 .. MaxFence
      BY <1>3, <2>2 DEF LockRow
    <3>2. QED BY <2>2, <3>1, NextFenceInRange
  <2>3. QED BY <2>1, <2>2
<1> HIDE DEF fence
<1>5. CASE /\ lock = NoLock \/ r \in lapsed
           /\ lock' = l /\ lapsed' = {}
           /\ pass' = [pass EXCEPT ![r] = q]
  <2>1. l \in LockRow /\ l.task = p.task
    BY <1>2, <1>4 DEF LockRow
  <2>2. lock.task \in Tasks \cup {NoTask}
    BY <1>3, NoLockFacts
  <2>3. /\ q \in Pass /\ q.pc = "acquired" /\ q.task = p.task /\ q.expired = lock.task
        /\ q.fence = fence
    <3>1. fence \in 0 .. MaxFence
      BY <1>4, SystemTaskAssumption
    <3>2. QED BY <1>2, <2>2, <3>1 DEF Pass
  <2>4. lock.task \notin {NoTask, p.task} => status[lock.task] \in Terminal
    BY <1>2, <1>5, NoLockFacts DEF TaskInv, LapsedEnded
  <2>5. PassOK(q, status')
    BY <1>1, <1>2, <1>4, <2>3, <2>4 DEF PassOK
  <2> HIDE DEF q, l, p
  <2>6. QED BY <1>1, <1>2, <1>5, <2>1, <2>3, <2>5, PassStep DEF Moves
<1>6. CASE pass' = [pass EXCEPT ![r] = Idle] /\ lapsed' = lapsed \ {r} /\ UNCHANGED lock
  BY <1>1, <1>6, EndPass
<1>7. QED BY <1>5, <1>6 DEF ClaimAcquire, fence

(* The lock row is unchanged and the rows move: it still names a task.     *)
LEMMA LockStays ==
  ASSUME TaskInv, Moves, UNCHANGED lock
  PROVE  lock' \in LockRow \cup {NoLock} /\ (lock' # NoLock => status'[lock'.task] # "absent")
<1>1. Forward
  BY MovesForward DEF TaskInv
<1>2. lock # NoLock => lock.task \in Tasks
  BY NoLockFacts DEF TaskInv, TypeOK
<1>3. QED BY <1>1, <1>2 DEF TaskInv, TypeOK, LockNamesTask, Forward

LEMMA ClaimMarkExpiredKeeps ==
  ASSUME TaskInv, NEW r \in Runners, ClaimMarkExpired(r)
  PROVE  TaskInv'
<1> DEFINE p == pass[r]
<1>1. /\ UNCHANGED <<owner, alive, execs, starts, lapsed>>
      /\ owner \in [Tasks -> Runners] /\ lapsed \subseteq Runners
  BY DEF ClaimMarkExpired, TaskInv, TypeOK
<1>2. p \in Pass /\ p.pc = "acquired" /\ PassOK(p, status) /\ p.expired # NoTask
  BY DEF ClaimMarkExpired, TaskInv, TypeOK, PassKnows, Pass
<1>3. CASE /\ status' = LeaseExpired(p.expired)
           /\ pass' = [pass EXCEPT ![r].expired = NoTask]
           /\ UNCHANGED lock
  <2> DEFINE q == [p EXCEPT !.expired = NoTask]
  <2>1. pass' = [pass EXCEPT ![r] = q]
    BY <1>3 DEF TaskInv, TypeOK
  <2>2. p.expired \in Tasks
    BY <1>2 DEF Pass
  <2>3. Moves
    BY <1>3, <2>2, LeaseExpiredMoves DEF TaskInv
  <2>4. Forward
    BY <2>3, MovesForward DEF TaskInv
  <2>5. /\ q \in Pass /\ q.pc = "acquired" /\ q.task = p.task /\ q.expired = NoTask
        /\ q.fence = p.fence
    BY <1>2 DEF Pass
  <2>6. PassOK(q, status')
    BY <1>2, <2>4, <2>5 DEF PassOK, Forward
  <2>7. lock' \in LockRow \cup {NoLock} /\ (lock' # NoLock => status'[lock'.task] # "absent")
    BY <1>3, <2>3, LockStays
  <2> HIDE DEF q
  <2>8. QED BY <1>1, <1>3, <2>1, <2>3, <2>5, <2>6, <2>7, PassStep
<1>4. CASE /\ lock' \in GivenBack(p.task, r)
           /\ pass' = [pass EXCEPT ![r] = Idle]
           /\ UNCHANGED status
  BY <1>1, <1>4, EndPass DEF GivenBack, Released
<1>5. QED BY <1>3, <1>4 DEF ClaimMarkExpired

(* The update to running is the step that makes an execution unique: the   *)
(* row was pending, so nobody else is past it.                             *)
LEMMA ClaimMarkRunningKeeps ==
  ASSUME TaskInv, NEW r \in Runners, ClaimMarkRunning(r)
  PROVE  TaskInv'
<1> DEFINE p == pass[r]
<1>1. UNCHANGED <<alive, execs, starts, lapsed>>
  BY DEF ClaimMarkRunning
<1>2. pass \in [Runners -> Pass] /\ p \in Pass /\ p.pc = "acquired" /\ PassOK(p, status)
  BY DEF ClaimMarkRunning, TaskInv, TypeOK, PassKnows, Pass
<1>3. p.task \in Tasks /\ p.fence \in 1 .. MaxFence
  BY <1>2 DEF PassOK
<1>4. CASE /\ status[p.task] = "pending"
           /\ status' = [status EXCEPT ![p.task] = "running"]
           /\ owner' = [owner EXCEPT ![p.task] = r]
           /\ pass' = [pass EXCEPT ![r].pc = "marked"]
           /\ UNCHANGED lock
  <2> DEFINE q == [p EXCEPT !.pc = "marked"]
  <2>1. Moves
    BY <1>3, <1>4 DEF Moves, Active
  <2>2. Forward /\ OneActive' /\ status' \in [Tasks -> Active \cup Terminal \cup {"absent"}]
    BY <2>1, MovesForward DEF TaskInv
  <2>3. pass'[r] = q /\ (\A s \in Runners \ {r} : pass'[s] = pass[s]) /\ pass' \in [Runners -> Pass]
    BY <1>2, <1>4 DEF Pass
  <2>4. q.pc = "marked" /\ q.task = p.task /\ q.fence = p.fence
    BY <1>2 DEF Pass
  <2>5. status'[p.task] = "running"
    BY <1>3, <1>4 DEF TaskInv, TypeOK
  <2>6. PassOK(q, status')
    BY <1>3, <2>4, <2>5 DEF PassOK, Past
  <2>7. PassKnows'
    BY <1>2, <2>2, <2>3, <2>6, PassStays DEF TaskInv, PassKnows
  <2>8. TypeOK'
    BY <1>1, <1>3, <1>4, <2>2, <2>3 DEF TaskInv, TypeOK, Pass
  <2>9. LockNamesTask'
    BY <1>4, <2>1, LockStays DEF LockNamesTask
  <2>10. status[p.task] \notin Past
    BY <1>4 DEF Past, Terminal
  <2>11. \A s \in Runners : pass[s].pc = "marked" => pass[s].task # p.task
    BY <2>10 DEF TaskInv, PassKnows, PassOK
  <2>12. starts[p.task] = 0
    BY <1>3, <2>10 DEF TaskInv, Alone
  <2>13. \A t \in Tasks : starts'[t] # 0 => status'[t] \in Past
    BY <1>1, <2>2 DEF TaskInv, Alone, Forward
  <2>14. LapsedEnded'
    BY <1>1, <1>4, <2>2, <2>3, <2>4, LapsedStays
  <2> HIDE DEF q
  <2>15. Alone'
    BY <1>1, <2>3, <2>4, <2>11, <2>12, <2>13 DEF TaskInv, Alone, OneExecutionPerTask
  <2>16. QED BY <2>2, <2>7, <2>8, <2>9, <2>14, <2>15 DEF TaskInv
<1>5. CASE /\ lock' \in GivenBack(p.task, r)
           /\ pass' = [pass EXCEPT ![r] = Idle]
           /\ UNCHANGED <<status, owner>>
  BY <1>1, <1>5, EndPass DEF GivenBack, Released
<1>6. QED BY <1>4, <1>5 DEF ClaimMarkRunning

(* The marked pass hands its row over to the execution it starts.          *)
LEMMA DispatchKeeps ==
  ASSUME TaskInv, NEW r \in Runners, Dispatch(r)
  PROVE  TaskInv'
<1> DEFINE p == pass[r]
           e == [task |-> p.task, by |-> r, fence |-> p.fence,
                 hb |-> "ticking", handler |-> "running"]
<1>1. UNCHANGED <<status, owner, lock, lapsed, alive>> /\ pass' = [pass EXCEPT ![r] = Idle]
  BY DEF Dispatch
<1>2. pass \in [Runners -> Pass] /\ p.pc = "marked" /\ PassOK(p, status)
  BY DEF Dispatch, TaskInv, TypeOK, PassKnows, Pass
<1>3. CASE UNCHANGED <<execs, starts>>
  BY <1>1, <1>3, EndPass
<1>4. CASE execs' = execs \cup {e} /\ starts' = [starts EXCEPT ![p.task] = @ + 1]
  <2>1. e \in Exec /\ p.task \in Tasks /\ status[p.task] \in Past
    BY <1>2 DEF PassOK, Exec
  <2>2. pass'[r] = Idle /\ (\A s \in Runners \ {r} : pass'[s] = pass[s]) /\ pass' \in [Runners -> Pass]
    BY <1>1, <1>2, NoLockFacts
  <2>3. starts \in [Tasks -> Nat] /\ starts[p.task] = 0
    BY <1>2 DEF TaskInv, TypeOK, Alone
  <2>4. /\ starts' \in [Tasks -> Nat] /\ starts'[p.task] = 1
        /\ \A t \in Tasks \ {p.task} : starts'[t] = starts[t]
    BY <1>4, <2>1, <2>3
  <2>5. \A s \in Runners \ {r} : pass[s].pc = "marked" => pass[s].task \in Tasks \ {p.task}
    BY <1>2 DEF TaskInv, Alone, PassKnows, PassOK
  <2> HIDE DEF e, p
  <2>6. TypeOK'
    BY <1>1, <1>4, <2>1, <2>2, <2>4 DEF TaskInv, TypeOK, Pass
  <2>7. PassKnows'
    BY <1>1, <2>2, NoLockFacts DEF TaskInv, PassKnows, PassOK
  <2>8. Alone'
    <3>1. OneExecutionPerTask'
      BY <2>1, <2>4 DEF TaskInv, Alone, OneExecutionPerTask
    <3>2. \A t \in Tasks : starts'[t] # 0 => status'[t] \in Past
      BY <1>1, <2>1, <2>4 DEF TaskInv, Alone
    <3>3. \A s \in Runners : pass'[s].pc = "marked" => s # r /\ pass'[s] = pass[s]
      BY <2>2, NoLockFacts
    <3>4. \A s \in Runners : pass'[s].pc = "marked" => starts'[pass'[s].task] = 0
      BY <2>4, <2>5, <3>3 DEF TaskInv, Alone
    <3>5. QED BY <3>1, <3>2, <3>3, <3>4 DEF TaskInv, Alone
  <2>9. OneActive' /\ LockNamesTask' /\ LapsedEnded'
    BY <1>1, <2>2, NoLockFacts DEF TaskInv, TypeOK, OneActive, LockNamesTask, LapsedEnded
  <2>10. QED BY <2>6, <2>7, <2>8, <2>9 DEF TaskInv
<1>5. QED BY <1>3, <1>4 DEF Dispatch

LEMMA StaleKeeps ==
  ASSUME TaskInv, NEW r \in Runners, StaleStep(r)
  PROVE  TaskInv'
<1> DEFINE p == pass[r]
<1>1. pass \in [Runners -> Pass] /\ p \in Pass /\ PassOK(p, status) /\ owner \in [Tasks -> Runners]
  BY DEF TaskInv, TypeOK, PassKnows, Pass
<1>2. CASE StaleRead(r)
  <2> DEFINE q == [Idle EXCEPT !.pc = "stale", !.expired = lock.task, !.by = lock.by]
  <2>1. /\ UNCHANGED <<status, owner, lock, alive, execs, starts>> /\ pass' = [pass EXCEPT ![r] = q]
        /\ lock \in LockRow /\ lapsed' = lapsed \cup {r} /\ lapsed' \subseteq Runners
    BY <1>2 DEF StaleRead, TaskInv, TypeOK
  <2>2. q \in Pass /\ q.pc = "stale" /\ q.expired = lock.task /\ lock.task \in Tasks
    BY <2>1, NoLockFacts DEF Pass, LockRow
  <2>3. PassOK(q, status')
    BY <2>1, <2>2 DEF PassOK
  <2>4. lock' \in LockRow \cup {NoLock} /\ (lock' # NoLock => status'[lock'.task] # "absent")
    BY <2>1, LockStays DEF Moves
  <2> HIDE DEF q
  <2>5. QED BY <1>1, <2>1, <2>2, <2>3, <2>4, PassStep DEF Moves
<1>3. CASE StaleMark(r) /\ status' = LeaseExpired(p.expired) /\ UNCHANGED lapsed
                        /\ pass' = [pass EXCEPT ![r].pc = "expired"]
  <2> DEFINE q == [p EXCEPT !.pc = "expired"]
  <2>1. /\ UNCHANGED <<owner, lock, alive, execs, starts, lapsed>> /\ pass' = [pass EXCEPT ![r] = q]
        /\ status' = LeaseExpired(p.expired) /\ p.pc = "stale" /\ lapsed \subseteq Runners
    BY <1>1, <1>3 DEF StaleMark, TaskInv, TypeOK
  <2>2. p.expired \in Tasks
    BY <1>1, <2>1 DEF PassOK
  <2>3. Moves
    BY <2>1, <2>2, LeaseExpiredMoves DEF TaskInv
  <2>4. q \in Pass /\ q.pc = "expired" /\ q.expired = p.expired
    BY <1>1 DEF Pass
  <2>5. PassOK(q, status')
    BY <2>2, <2>4 DEF PassOK
  <2>6. lock' \in LockRow \cup {NoLock} /\ (lock' # NoLock => status'[lock'.task] # "absent")
    BY <2>1, <2>3, LockStays
  <2> HIDE DEF q
  <2>7. QED BY <1>1, <2>1, <2>3, <2>4, <2>5, <2>6, PassStep
<1>4. CASE StaleDelete(r) \/ (StaleMark(r) /\ UNCHANGED status
                              /\ lapsed' = lapsed \ {r} /\ pass' = [pass EXCEPT ![r] = Idle])
  BY <1>4, EndPass DEF StaleDelete, StaleMark
<1>5. QED BY <1>2, <1>3, <1>4 DEF StaleStep, StaleMark

LEMMA CrashKeeps ==
  ASSUME TaskInv, NEW r \in Runners, Crash(r)
  PROVE  TaskInv'
<1>1. /\ UNCHANGED <<status, owner, lock>> /\ pass' = [pass EXCEPT ![r] = Idle]
      /\ alive' \subseteq alive /\ execs' \subseteq execs /\ lapsed' \subseteq lapsed
      /\ UNCHANGED starts
  BY DEF Crash
<1>2. pass'[r] = Idle /\ (\A s \in Runners \ {r} : pass'[s] = pass[s]) /\ pass' \in [Runners -> Pass]
  BY <1>1, NoLockFacts DEF TaskInv, TypeOK, Pass
<1>3. TypeOK'
  BY <1>1, <1>2 DEF TaskInv, TypeOK, Pass
<1>4. PassKnows'
  BY <1>1, <1>2, NoLockFacts DEF TaskInv, PassKnows, PassOK
<1>5. Alone'
  BY <1>1, <1>2, NoLockFacts DEF TaskInv, Alone, OneExecutionPerTask
<1>6. OneActive' /\ LockNamesTask' /\ LapsedEnded'
  BY <1>1, <1>2, NoLockFacts DEF TaskInv, TypeOK, OneActive, LockNamesTask, LapsedEnded
<1>7. QED BY <1>3, <1>4, <1>5, <1>6 DEF TaskInv

LEMMA HeartbeatKeeps ==
  ASSUME TaskInv, NEW e \in execs, HeartbeatSend(e) \/ HeartbeatRenew(e)
  PROVE  TaskInv'
<1>1. e \in Exec /\ lock \in LockRow \cup {NoLock}
  BY DEF TaskInv, TypeOK
<1>2. PICK hb \in {"sent", "ticking", "stopped"} :
        execs' = (execs \ {e}) \cup {[e EXCEPT !.hb = hb]}
  BY DEF HeartbeatSend, HeartbeatRenew
<1> DEFINE f == [e EXCEPT !.hb = hb]
<1>3. f \in Exec
  BY <1>1 DEF Exec
<1>4. UNCHANGED <<status, owner, alive, pass, starts>> /\ Moves
  BY DEF HeartbeatSend, HeartbeatRenew, Moves
<1>5. \/ lock' = lock /\ lapsed' = lapsed
      \/ lock' = [lock EXCEPT !.live = TRUE] /\ lock.task = e.task /\ lapsed' = {}
  BY DEF HeartbeatSend, HeartbeatRenew, HeldBy
<1>6. lock' \in LockRow \cup {NoLock} /\ (lock' # NoLock => status'[lock'.task] # "absent")
  <2>1. CASE lock' = lock
    BY <1>4, <2>1, LockStays
  <2>2. CASE lock' = [lock EXCEPT !.live = TRUE] /\ lock.task = e.task
    <3>1. lock # NoLock
      BY <1>1, <2>2, NoLockFacts DEF Exec, Tasks, NoTask
    <3>2. lock' \in LockRow /\ lock'.task = lock.task
      BY <1>1, <2>2, <3>1 DEF LockRow
    <3>3. QED BY <1>4, <3>1, <3>2 DEF TaskInv, LockNamesTask
  <2>3. QED BY <1>5, <2>1, <2>2
<1> HIDE DEF f
<1>7. QED BY <1>2, <1>3, <1>4, <1>5, <1>6, ExecStep DEF f

LEMMA HandlerKeeps ==
  ASSUME TaskInv, NEW e \in execs, HandlerStep(e)
  PROVE  TaskInv'
<1>1. e \in Exec /\ lock \in LockRow \cup {NoLock}
  BY DEF TaskInv, TypeOK
<1>2. PICK h \in {"running", "finishing", "releasing"} :
        execs' = (execs \ {e}) \cup {[e EXCEPT !.handler = h]} \/ execs' = execs \ {e}
  BY DEF HandlerStep, HandlerAbandon, FinishSend, FinishWrite, FinishRelease
<1> DEFINE f == [e EXCEPT !.handler = h]
<1>3. f \in Exec /\ f.task = e.task /\ e.task \in Tasks
  BY <1>1 DEF Exec
<1>4. UNCHANGED <<owner, alive, pass, starts, lapsed>>
  BY DEF HandlerStep, HandlerAbandon, FinishSend, FinishWrite, FinishRelease
<1>5. Moves
  BY <1>3 DEF HandlerStep, HandlerAbandon, FinishSend, FinishWrite, FinishRelease, Moves
<1>6. CASE UNCHANGED lock
  <2>1. lock' \in LockRow \cup {NoLock} /\ (lock' # NoLock => status'[lock'.task] # "absent")
    BY <1>5, <1>6, LockStays
  <2> HIDE DEF f
  <2>2. QED BY <1>2, <1>3, <1>4, <1>5, <1>6, <2>1, ExecStep DEF f
<1>7. CASE lock' = NoLock
  <2> HIDE DEF f
  <2>1. QED BY <1>2, <1>3, <1>4, <1>5, <1>7, ExecStep DEF f
<1>8. QED
  BY <1>6, <1>7 DEF HandlerStep, HandlerAbandon, FinishSend, FinishWrite, FinishRelease, Released

LEMMA LapseKeeps ==
  ASSUME TaskInv, LeaseLapses
  PROVE  TaskInv'
<1>1. /\ lock.live /\ lock' = [lock EXCEPT !.live = FALSE]
      /\ UNCHANGED <<status, owner, alive, pass, execs, lapsed, starts>>
  BY DEF LeaseLapses
<1>2. lock # NoLock /\ lock \in LockRow
  BY <1>1, NoLockFacts DEF TaskInv, TypeOK
<1>3. lock' \in LockRow /\ lock'.task = lock.task
  BY <1>1, <1>2 DEF LockRow
<1>4. TypeOK' /\ LockNamesTask'
  BY <1>1, <1>2, <1>3 DEF TaskInv, TypeOK, LockNamesTask
<1>5. OneActive' /\ PassKnows' /\ Alone' /\ LapsedEnded'
  BY <1>1, <1>2, <1>3 DEF TaskInv, OneActive, PassKnows, PassOK, Alone, OneExecutionPerTask, LapsedEnded
<1>6. QED BY <1>4, <1>5 DEF TaskInv

-----------------------------------------------------------------------------
LEMMA TaskInit == Init => TaskInv
<1> SUFFICES ASSUME Init PROVE TaskInv
  OBVIOUS
<1>1. (CHOOSE r \in Runners : TRUE) \in Runners
  BY SystemTaskAssumption
<1>2. TypeOK
  BY <1>1, NoLockFacts DEF Init, TypeOK, Pass
<1>3. OneActive /\ LockNamesTask
  BY DEF Init, OneActive, LockNamesTask, Active
<1>4. PassKnows /\ Alone /\ LapsedEnded
  BY NoLockFacts DEF Init, PassKnows, PassOK, Alone, OneExecutionPerTask, LapsedEnded
<1>5. QED BY <1>2, <1>3, <1>4 DEF TaskInv

LEMMA TaskNext == TaskInv /\ [Next]_vars => TaskInv'
<1> SUFFICES ASSUME TaskInv, [Next]_vars PROVE TaskInv'
  OBVIOUS
<1>1. CASE UNCHANGED vars
  BY <1>1 DEF vars, TaskInv, TypeOK, OneActive, LockNamesTask, PassKnows, PassOK, Alone,
              OneExecutionPerTask, LapsedEnded
<1>2. CASE \E r \in Runners : ClaimStep(r) \/ StaleStep(r) \/ Crash(r)
  BY <1>2, ClaimReadKeeps, ClaimAcquireKeeps, ClaimMarkExpiredKeeps, ClaimMarkRunningKeeps,
     DispatchKeeps, StaleKeeps, CrashKeeps DEF ClaimStep
<1>3. CASE \E e \in execs : HeartbeatSend(e) \/ HeartbeatRenew(e) \/ HandlerStep(e)
  BY <1>3, HeartbeatKeeps, HandlerKeeps
<1>4. QED BY <1>1, <1>2, <1>3, CreateKeeps, LapseKeeps DEF Next

(* The inductive invariant holds in every reachable state.                 *)
THEOREM TaskInvariant == Spec => []TaskInv
BY TaskInit, TaskNext, PTL DEF Spec

(* Type correctness of the rows and of what the runners hold; no fence     *)
(* token ever leaves its range, the wrapped one included.                  *)
THEOREM TypeCorrect == Spec => []TypeOK
<1>1. TaskInv => TypeOK
  BY DEF TaskInv
<1>2. QED BY <1>1, TaskInvariant, PTL

(* No task is executed twice, neither at once nor one after the other: at  *)
(* most one handler is ever started for it, whatever leases lapse,         *)
(* claimers stall past the lease they acquired, nodes crash, statements    *)
(* fail and locks are not given back.                                      *)
THEOREM ExecutedOnce == Spec => []OneExecutionPerTask
<1>1. TaskInv => OneExecutionPerTask
  BY DEF TaskInv, Alone
<1>2. QED BY <1>1, TaskInvariant, PTL

(* The lease-expiry mark of a takeover never hits a running task.          *)
THEOREM TakeoverSpares == Spec => []TakeoverHitsNoRunningTask
<1>1. TaskInv => TakeoverHitsNoRunningTask
  BY DEF TakeoverHitsNoRunningTask, TaskInv, PassKnows, PassOK, Terminal
<1>2. QED BY <1>1, TaskInvariant, PTL

(* A terminal status is final: every step is a step of the row's life.     *)
THEOREM EndedStaysEnded == Spec => TerminalIsFinal
<1>1. TaskInv /\ [Next]_vars
        => [\A t \in Tasks : status[t] \in Terminal => status'[t] = status[t]]_vars
  <2> SUFFICES ASSUME TaskInv, Next
               PROVE  \A t \in Tasks : status[t] \in Terminal => status'[t] = status[t]
    OBVIOUS
  <2>1. Moves
    <3>1. CASE CreateSystemTask
      BY <3>1 DEF CreateSystemTask, Moves, Active
    <3>2. ASSUME NEW r \in Runners, ClaimStep(r) \/ StaleStep(r) \/ Crash(r)
          PROVE  Moves
      <4>1. PassOK(pass[r], status) /\ pass[r] \in Pass
        BY DEF TaskInv, PassKnows, TypeOK, Pass
      <4>2. CASE ClaimMarkExpired(r)
        <5>1. pass[r].expired \in Tasks
          BY <4>1, <4>2, NoLockFacts DEF ClaimMarkExpired, Pass
        <5>2. QED BY <4>2, <5>1, LeaseExpiredMoves DEF ClaimMarkExpired, TaskInv, Moves
      <4>3. CASE StaleMark(r)
        <5>1. pass[r].expired \in Tasks
          BY <4>1, <4>3, NoLockFacts DEF StaleMark, PassOK
        <5>2. QED BY <4>3, <5>1, LeaseExpiredMoves DEF StaleMark, TaskInv, Moves
      <4>4. CASE ClaimMarkRunning(r)
        BY <4>1, <4>4 DEF ClaimMarkRunning, Moves, PassOK, Active
      <4>5. QED BY <3>2, <4>2, <4>3, <4>4 DEF ClaimStep, StaleStep, ClaimRead, ClaimAcquire,
                                              Dispatch, StaleRead, StaleDelete, Crash, Moves
    <3>3. ASSUME NEW e \in execs, HeartbeatSend(e) \/ HeartbeatRenew(e) \/ HandlerStep(e)
          PROVE  Moves
      <4>1. e.task \in Tasks
        BY DEF TaskInv, TypeOK, Exec
      <4>2. QED BY <3>3, <4>1 DEF HeartbeatSend, HeartbeatRenew, HandlerStep, HandlerAbandon,
                                  FinishSend, FinishWrite, FinishRelease, Moves
    <3>4. QED BY <3>1, <3>2, <3>3 DEF Next, LeaseLapses, Moves
  <2>2. QED BY <2>1, MovesForward DEF TaskInv, Forward
<1>2. QED BY <1>1, TaskInvariant, PTL DEF Spec, TerminalIsFinal
=============================================================================
