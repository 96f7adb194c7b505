----------------------------- MODULE SystemTask -----------------------------
(***************************************************************************)
(* The system task runner: background jobs of one type, created at most    *)
(* one at a time, claimed through a per-type database lease, kept alive by *)
(* a heartbeat, and declared failed when the lease lapses.                 *)
(*                                                                         *)
(* Sources: model/system_task.go (rows, lease, fence, terminal write) and  *)
(* service/system_task.go (runner pass, scheduler, heartbeat, handlers).   *)
(*                                                                         *)
(* Types never share a row: the lock's primary key is the type and the     *)
(* unique active_key holds the type, so one type is modelled.  A database  *)
(* statement is one atomic step; what a runner does between two statements *)
(* (goroutine switches, pauses, a crash) is an interleaving point.         *)
(*                                                                         *)
(* Time is one bit of the lock row: live stands for locked_until >= now.   *)
(* A statement compares locked_until with a now read BEFORE it is sent, so *)
(* that comparison is a step of its own wherever a success depends on it.  *)
(***************************************************************************)
EXTENDS Naturals, FiniteSets

CONSTANTS
  Runners,     \* runner ids; a restarted node draws a fresh random one
  MaxTasks,    \* bound: task rows created in a behaviour
  MaxFence,    \* the largest fence token (2^63 - 1); the next one is 1
  ClaimStalls, \* may a claimer pause past the lease it just acquired?
  ReleaseFails \* may a failed claim also fail to give its lock back?

ASSUME SystemTaskAssumption ==
  /\ Runners # {}
  /\ MaxTasks \in Nat \ {0}
  /\ MaxFence \in Nat \ {0}
  /\ ClaimStalls \in BOOLEAN
  /\ ReleaseFails \in BOOLEAN

Tasks == 1 .. MaxTasks
NoTask == 0
NoLock == [task |-> NoTask, by |-> CHOOSE r \in Runners : TRUE,
           live |-> FALSE, fence |-> 0]
Idle == [pc |-> "idle", task |-> NoTask, expired |-> NoTask,
         by |-> CHOOSE r \in Runners : TRUE, fence |-> 0]

VARIABLES
  status,  \* system_tasks.status of every row; "absent" before its insert
  owner,   \* system_tasks.locked_by
  lock,    \* the type's system_task_locks row, NoLock when there is none
  lapsed,  \* runners whose pass read a now past the row's locked_until
  alive,   \* runners whose process has not died
  pass,    \* the runner's pass: program counter, the task it claims, the
           \* task and runner of the expired lock row it found
  execs,   \* handler goroutines started by runWithLeaseHeartbeat
  starts   \* history: how many handlers were ever started for each task

vars == <<status, owner, lock, lapsed, alive, pass, execs, starts>>

Active == {"pending", "running"}
Terminal == {"succeeded", "failed"}

LockRow == [task : Tasks, by : Runners, live : BOOLEAN, fence : 1 .. MaxFence]
Exec == [task : Tasks, by : Runners, fence : 1 .. MaxFence,
         hb : {"ticking", "sent", "stopped"},
         handler : {"running", "finishing", "releasing"}]

(* Well-formedness of the rows and of the in-memory state of the runners.  *)
TypeOK ==
  /\ status \in [Tasks -> Active \cup Terminal \cup {"absent"}]
  /\ owner \in [Tasks -> Runners]
  /\ lock \in LockRow \cup {NoLock}
  /\ lapsed \subseteq Runners
  /\ alive \subseteq Runners
  /\ pass \in [Runners ->
       [pc : {"idle", "claim", "acquired", "marked", "stale", "expired"},
        task : Tasks \cup {NoTask},
        expired : Tasks \cup {NoTask}, by : Runners,
        fence : 0 .. MaxFence]]
  /\ execs \subseteq Exec
  /\ starts \in [Tasks -> Nat]

Init ==
  /\ status = [t \in Tasks |-> "absent"]
  /\ owner = [t \in Tasks |-> CHOOSE r \in Runners : TRUE]
  /\ lock = NoLock
  /\ lapsed = {}
  /\ alive = Runners
  /\ pass = [r \in Runners |-> Idle]
  /\ execs = {}
  /\ starts = [t \in Tasks |-> 0]

-----------------------------------------------------------------------------
(* Row updates shared by the operations.                                   *)

(* The lock row names this task and this runner.                           *)
HeldBy(t, r) == lock.task = t /\ lock.by = r

(* ReleaseSystemTaskLock: delete by task_id and locked_by, whatever the    *)
(* fence or the expiry.                                                    *)
Released(t, r) == IF HeldBy(t, r) THEN NoLock ELSE lock

(* The release of a failed claim, whose error the code ignores.            *)
GivenBack(t, r) == {Released(t, r)} \cup {l \in {lock} : ReleaseFails}

(* Mutant: the mark does not look at the status.                           *)
LeaseExpiredAny(t) == [status EXCEPT ![t] = "failed"]

(* Mutant: the mark selects pending rows.                                  *)
LeaseExpiredPending(t) ==
  IF status[t] = "pending" THEN [status EXCEPT ![t] = "failed"] ELSE status

(* MarkSystemTaskLeaseExpired: only a running row fails.                   *)
LeaseExpired(t) ==
  IF status[t] = "running" THEN [status EXCEPT ![t] = "failed"] ELSE status

(* Mutant: the wrapped fence restarts at zero.                              *)
NextFenceZero(f) == IF f + 1 > MaxFence THEN 0 ELSE f + 1

(* The next fence token, wrapped when the integer overflows.               *)
NextFence(f) == IF f + 1 > MaxFence THEN 1 ELSE f + 1

-----------------------------------------------------------------------------
(* Mutant: creation without the unique active_key.                         *)
CreateSystemTaskNoKey ==
  \E t \in Tasks :
    /\ status[t] = "absent" /\ \A u \in 1 .. (t - 1) : status[u] # "absent"
    /\ status' = [status EXCEPT ![t] = "pending"]
    /\ UNCHANGED <<owner, lock, alive, pass, execs, lapsed, starts>>

(* CreateSystemTask, called by the scheduler, EnqueueSystemTask and        *)
(* StartLogCleanupTask on any node: the unique active_key refuses a second *)
(* active row of the type.                                                 *)
CreateSystemTask ==
  \E t \in Tasks :
    /\ \A u \in Tasks : status[u] \notin Active
    /\ status[t] = "absent" /\ \A u \in 1 .. (t - 1) : status[u] # "absent"
    /\ status' = [status EXCEPT ![t] = "pending"]
    /\ UNCHANGED <<owner, lock, alive, pass, execs, lapsed, starts>>

(* The claim pass found the earliest pending row and ClaimSystemTask reads *)
(* it again; now is read here, so only a lock already expired here can be  *)
(* taken over below.                                                       *)
ClaimRead(r) ==
  /\ r \in alive /\ pass[r].pc = "idle"
  /\ \E t \in Tasks :
       /\ status[t] = "pending"
       /\ \A u \in Tasks : status[u] = "pending" => t <= u
       /\ pass' = [pass EXCEPT ![r] = [Idle EXCEPT !.pc = "claim", !.task = t]]
  /\ lapsed' = IF lock # NoLock /\ ~lock.live THEN lapsed \cup {r} ELSE lapsed
  /\ UNCHANGED <<status, owner, lock, alive, execs, starts>>

(* acquireSystemTaskLock: insert with fence 1, or take over a row whose    *)
(* locked_until is before now by a compare-and-set on the whole row, or    *)
(* give up; a failed statement gives up too.                               *)
ClaimAcquire(r) ==
  /\ r \in alive /\ pass[r].pc = "claim"
  /\ LET t == pass[r].task
         fence == IF lock = NoLock THEN 1 ELSE NextFence(lock.fence)
     IN \/ /\ lock = NoLock \/ r \in lapsed
           /\ lock' = [task |-> t, by |-> r, live |-> TRUE, fence |-> fence]
           /\ lapsed' = {}
           /\ pass' = [pass EXCEPT ![r] =
                         [@ EXCEPT !.pc = "acquired", !.fence = fence, !.expired = lock.task]]
        \/ /\ pass' = [pass EXCEPT ![r] = Idle]
           /\ lapsed' = lapsed \ {r}
           /\ UNCHANGED lock
  /\ UNCHANGED <<status, owner, alive, execs, starts>>

(* A lock taken over from another task fails that task first; if that      *)
(* statement fails the lock is given back; an error of that release is     *)
(* ignored and the lock row stays.                                         *)
ClaimMarkExpired(r) ==
  /\ r \in alive /\ pass[r].pc = "acquired"
  /\ pass[r].expired \notin {NoTask, pass[r].task}
  /\ \/ /\ status' = LeaseExpired(pass[r].expired)
        /\ pass' = [pass EXCEPT ![r].expired = NoTask]
        /\ UNCHANGED lock
     \/ /\ lock' \in GivenBack(pass[r].task, r)
        /\ pass' = [pass EXCEPT ![r] = Idle]
        /\ UNCHANGED status
  /\ UNCHANGED <<owner, alive, execs, lapsed, starts>>

(* Mutant: the claim update does not require the row to be pending.        *)
ClaimMarkRunningUnguarded(r) ==
  /\ r \in alive /\ pass[r].pc = "acquired"
  /\ pass[r].expired \in {NoTask, pass[r].task}
  /\ status' = [status EXCEPT ![pass[r].task] = "running"]
  /\ owner' = [owner EXCEPT ![pass[r].task] = r]
  /\ pass' = [pass EXCEPT ![r].pc = "marked"]
  /\ UNCHANGED <<lock, alive, execs, lapsed, starts>>

(* The update of the pending row to running; a row no longer pending, or a *)
(* failed statement, gives the lock back, or tries to.                     *)
ClaimMarkRunning(r) ==
  /\ r \in alive /\ pass[r].pc = "acquired"
  /\ pass[r].expired \in {NoTask, pass[r].task}
  /\ LET t == pass[r].task
     IN \/ /\ status[t] = "pending"
           /\ status' = [status EXCEPT ![t] = "running"]
           /\ owner' = [owner EXCEPT ![t] = r]
           /\ pass' = [pass EXCEPT ![r].pc = "marked"]
           /\ UNCHANGED lock
        \/ /\ lock' \in GivenBack(t, r)
           /\ pass' = [pass EXCEPT ![r] = Idle]
           /\ UNCHANGED <<status, owner>>
  /\ UNCHANGED <<alive, execs, lapsed, starts>>

(* The reload of the claimed row: the handler goroutine and its heartbeat  *)
(* start, or the read fails and nobody executes the claimed task.          *)
Dispatch(r) ==
  /\ r \in alive /\ pass[r].pc = "marked"
  /\ \/ /\ execs' = execs \cup
             {[task |-> pass[r].task, by |-> r, fence |-> pass[r].fence,
               hb |-> "ticking", handler |-> "running"]}
        /\ starts' = [starts EXCEPT ![pass[r].task] = @ + 1]
     \/ UNCHANGED <<execs, starts>>
  /\ pass' = [pass EXCEPT ![r] = Idle]
  /\ UNCHANGED <<status, owner, lock, lapsed, alive>>

-----------------------------------------------------------------------------
(* renewSystemTaskLockWithFence: now is read while the lease is live, ...  *)
HeartbeatSend(e) ==
  /\ e.hb = "ticking" /\ lock.live /\ HeldBy(e.task, e.by)
  /\ execs' = (execs \ {e}) \cup {[e EXCEPT !.hb = "sent"]}
  /\ UNCHANGED <<status, owner, lock, alive, pass, lapsed, starts>>

(* ... and the update then renews the row it finds, expired since or not.  *)
(* No row, a lease already expired at the tick or a failed statement       *)
(* cancels the handler.                                                    *)
HeartbeatRenew(e) ==
  /\ \/ /\ e.hb = "sent" /\ HeldBy(e.task, e.by) /\ lock.fence = e.fence
        /\ lock' = [lock EXCEPT !.live = TRUE] /\ lapsed' = {}
        /\ execs' = (execs \ {e}) \cup {[e EXCEPT !.hb = "ticking"]}
     \/ /\ e.hb # "stopped"
        /\ execs' = (execs \ {e}) \cup {[e EXCEPT !.hb = "stopped"]}
        /\ UNCHANGED <<lock, lapsed>>
  /\ UNCHANGED <<status, owner, alive, pass, starts>>

(* A handler that is cancelled, whose UpdateSystemTaskState reports the    *)
(* lock lost, or whose statement fails returns without finishing the task. *)
HandlerAbandon(e) ==
  /\ e.handler = "running"
  /\ execs' = execs \ {e}
  /\ UNCHANGED <<status, owner, lock, alive, pass, lapsed, starts>>

(* FinishSystemTask reads now, ...                                         *)
FinishSend(e) ==
  /\ e.handler = "running" /\ lock.live /\ HeldBy(e.task, e.by)
  /\ execs' = (execs \ {e}) \cup {[e EXCEPT !.handler = "finishing"]}
  /\ UNCHANGED <<status, owner, lock, alive, pass, lapsed, starts>>

(* ... writes the terminal status if the row is still running under this   *)
(* runner and its lock row exists; otherwise, or when the statement fails, *)
(* the handler returns and leaves the task as it is, ...                   *)
FinishWrite(e) ==
  /\ e.handler = "finishing"
  /\ \/ /\ status[e.task] = "running" /\ owner[e.task] = e.by
        /\ HeldBy(e.task, e.by)
        /\ \E s \in Terminal : status' = [status EXCEPT ![e.task] = s]
        /\ execs' = (execs \ {e}) \cup {[e EXCEPT !.handler = "releasing"]}
     \/ /\ execs' = execs \ {e}
        /\ UNCHANGED status
  /\ UNCHANGED <<owner, lock, alive, pass, lapsed, starts>>

(* ... and releases the lock in a second statement, which may fail.        *)
FinishRelease(e) ==
  /\ e.handler = "releasing"
  /\ lock' \in {Released(e.task, e.by), lock}
  /\ execs' = execs \ {e}
  /\ UNCHANGED <<status, owner, alive, pass, lapsed, starts>>

-----------------------------------------------------------------------------
(* ExpireStaleSystemTaskLocks reads the expired locks, ...                 *)
StaleRead(r) ==
  /\ r \in alive /\ pass[r].pc = "idle"
  /\ lock # NoLock /\ ~lock.live
  /\ pass' = [pass EXCEPT ![r] = [Idle EXCEPT !.pc = "stale", !.expired = lock.task, !.by = lock.by]]
  /\ lapsed' = lapsed \cup {r}
  /\ UNCHANGED <<status, owner, lock, alive, execs, starts>>

(* ... fails the task each one names (an error ends the sweep), ...        *)
StaleMark(r) ==
  /\ r \in alive /\ pass[r].pc = "stale"
  /\ \/ /\ status' = LeaseExpired(pass[r].expired)
        /\ pass' = [pass EXCEPT ![r].pc = "expired"]
        /\ UNCHANGED lapsed
     \/ /\ pass' = [pass EXCEPT ![r] = Idle]
        /\ lapsed' = lapsed \ {r}
        /\ UNCHANGED status
  /\ UNCHANGED <<owner, lock, alive, execs, starts>>

(* ... and deletes the row if it is the one read and its locked_until is   *)
(* still before the sweep's now; the delete, too, may fail.                *)
StaleDelete(r) ==
  /\ r \in alive /\ pass[r].pc = "expired"
  /\ \/ UNCHANGED lock
     \/ /\ HeldBy(pass[r].expired, pass[r].by) /\ r \in lapsed
        /\ lock' = NoLock
  /\ pass' = [pass EXCEPT ![r] = Idle]
  /\ lapsed' = lapsed \ {r}
  /\ UNCHANGED <<status, owner, alive, execs, starts>>

-----------------------------------------------------------------------------
(* The clock passes locked_until.  Heartbeats come every third of the TTL, *)
(* but a paused process or a slow database can miss them.                  *)
LeaseLapses ==
  /\ lock.live
  /\ \/ ClaimStalls
     \/ ~\E r \in alive : pass[r].pc = "acquired" /\ lock.by = r
  /\ lock' = [lock EXCEPT !.live = FALSE]
  /\ UNCHANGED <<status, owner, alive, pass, execs, lapsed, starts>>

(* A node dies with its goroutines; some node keeps running.               *)
Crash(r) ==
  /\ r \in alive /\ alive # {r}
  /\ alive' = alive \ {r}
  /\ pass' = [pass EXCEPT ![r] = Idle]
  /\ execs' = {e \in execs : e.by # r}
  /\ lapsed' = lapsed \ {r}
  /\ UNCHANGED <<status, owner, lock, starts>>

ClaimStep(r) ==
  \/ ClaimRead(r) \/ ClaimAcquire(r) \/ ClaimMarkExpired(r)
  \/ ClaimMarkRunning(r) \/ Dispatch(r)

StaleStep(r) == StaleRead(r) \/ StaleMark(r) \/ StaleDelete(r)

HandlerStep(e) ==
  \/ HandlerAbandon(e) \/ FinishSend(e) \/ FinishWrite(e) \/ FinishRelease(e)

Next ==
  \/ CreateSystemTask
  \/ \E r \in Runners : ClaimStep(r) \/ StaleStep(r) \/ Crash(r)
  \/ \E e \in execs : HeartbeatSend(e) \/ HeartbeatRenew(e) \/ HandlerStep(e)
  \/ LeaseLapses

(* The lease of a task nobody executes runs out: no heartbeat renews it.   *)
UnattendedLapse ==
  LeaseLapses /\ ~\E e \in execs : e.task = lock.task /\ e.by = lock.by

(* A runner's loop keeps passing (each pass sweeps, then claims), a        *)
(* handler returns (SystemTaskHandler obliges Run to finish or honour      *)
(* cancellation), and time passes.  A database whose statement fails every *)
(* time is not a fair one: the strong conjuncts are on the claim pass and  *)
(* on the statements a task's progress needs, by whichever runner.         *)
Fairness ==
  /\ \A r \in Runners : WF_vars(ClaimStep(r)) /\ WF_vars(StaleStep(r))
  /\ SF_vars(\E r \in Runners : ClaimRead(r))
  /\ SF_vars(\E r \in Runners : ClaimAcquire(r) /\ pass'[r].pc = "acquired")
  /\ SF_vars(\E r \in Runners : ClaimMarkRunning(r) /\ pass'[r].pc = "marked")
  /\ SF_vars(\E r \in Runners : StaleMark(r) /\ pass'[r].pc = "expired")
  /\ \A t \in Tasks : WF_vars(\E e \in execs : e.task = t /\ HandlerStep(e))
  /\ WF_vars(UnattendedLapse)

Spec == Init /\ [][Next]_vars /\ Fairness

-----------------------------------------------------------------------------
(* No task is ever executed twice, whether at the same time or one after   *)
(* the other: claims by several runners, takeovers of expired leases,      *)
(* failed claims and the end of a first execution never lead to a second   *)
(* handler start for a task (service/system_task.go                        *)
(* runSystemTaskClaimPass, ClaimSystemTask).                               *)
OneExecutionPerTask == \A t \in Tasks : starts[t] <= 1

(* A takeover fails the task of the lock it replaced                       *)
(* (ClaimSystemTask's MarkSystemTaskLeaseExpired).  That write never hits  *)
(* a task still running: with at most one active row, the replaced lock    *)
(* belongs to a task that has already ended.                               *)
TakeoverHitsNoRunningTask ==
  \A r \in Runners :
    pass[r].pc = "acquired" /\ pass[r].expired \notin {NoTask, pass[r].task}
      => status[pass[r].expired] # "running"

(* A terminal status is final: neither a late finish of an execution that  *)
(* lost its lease nor a late lease-expiry mark rewrites an ended task.     *)
TerminalIsFinal ==
  [][\A t \in Tasks : status[t] \in Terminal => status'[t] = status[t]]_vars

(* Every created task ends, whatever crashes, lost leases, failed claims   *)
(* and failed reloads happen on the way: the runners pick it up and "mark  *)
(* expired leases failed" (service/system_task.go:19-20), so the active    *)
(* key of the type never stays taken for good.                             *)
ActiveTaskEnds ==
  \A t \in Tasks : status[t] \in Active ~> status[t] \in Terminal

(* "an arbitrarily long handler stays alive as long as the heartbeat       *)
(* succeeds" (service/system_task.go:366-368): a task that is running      *)
(* under a live lease is not declared failed by the stale-lock sweep.      *)
LiveTaskNotExpired ==
  [][\A t \in Tasks, r \in Runners :
       lock.task = t /\ lock.live /\ owner[t] = lock.by /\ status[t] = "running"
         => ~(StaleMark(r) /\ pass[r].expired = t /\ status'[t] = "failed")]_vars

=============================================================================
