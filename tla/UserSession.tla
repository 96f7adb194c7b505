------------------------------ MODULE UserSession ------------------------------
(***************************************************************************)
(* The login-session store of model/user_session.go for one session: its   *)
(* database row, its Redis snapshot, and the requests that read, rotate,   *)
(* advance and revoke it on any node.  A request is a sequence of          *)
(* database and Redis steps; other requests and the clock may move between *)
(* any two of them, and every Redis call and every revoking transaction    *)
(* may fail.                                                               *)
(*                                                                         *)
(* Abstractions.  Refresh secrets form a chain: deriveNextRefreshSecret    *)
(* maps token n to token n + 1.  Time is a discrete clock.  A request that *)
(* is denied changes nothing the properties see and returns to idle.       *)
(***************************************************************************)
EXTENDS Integers

CONSTANTS
    Procs,       \* requests in progress at the same time, on any node
    CacheTTL,    \* userCacheTTLSeconds
    Grace,       \* RefreshReplayWindow
    CASLag,      \* bound: a rotation's swap lands this soon after its `now`
    ExpiresAt,   \* expires_at of the row
    MaxTime,     \* bound of the clock
    MaxToken,    \* bound of the refresh chain
    MaxVersion   \* bound of the session version

ASSUME SessionBounds ==
    /\ CacheTTL \in Nat \ {0} /\ Grace \in Nat /\ CASLag \in Nat
    /\ ExpiresAt \in Nat \ {0} /\ MaxTime \in Nat
    /\ MaxToken \in Nat \ {0} /\ MaxVersion \in Nat \ {0}

VARIABLES
    clock,
    row,    \* the user_sessions row
    cache,  \* the Redis hash of the session; status "none" when absent
    req,    \* per process: the request it serves and what it holds in memory
    hist    \* when the row last changed, for the properties

vars == <<clock, row, cache, req, hist>>

Never == -1
NoEntry == [status |-> "none", version |-> 0, until |-> 0]
Idle == [op |-> "idle", pc |-> "idle", snap |-> 0, deadline |-> 0,
         now |-> 0, tok |-> 0, try |-> 0, begun |-> 0,
         sealed |-> FALSE]

Min2(a, b) == IF a < b THEN a ELSE b

(***************************************************************************)
(* Redis.                                                                  *)
(***************************************************************************)
Denying == cache.status \in {"revoking", "revoked"}

\* Mutant: the script does not look for a deny state.
AcceptsOverDeny(version) == cache.version <= version

\* The script of writeUserSessionCache takes an active snapshot unless a deny
\* state or a newer version is there.
Accepts(version) == ~Denying /\ cache.version <= version

\* Mutant: the entry gets a full TTL when it is written.
ActiveEntryFullTTL(version, deadline) ==
    [status |-> "active", version |-> version,
     until |-> Min2(clock + CacheTTL, ExpiresAt)]

\* The entry keeps the unspent part of the window opened before its read.
ActiveEntry(version, deadline) ==
    [status |-> "active", version |-> version,
     until |-> Min2(deadline, ExpiresAt)]

\* Mutant: PEXPIREAT with a time that has passed keeps the entry.
LandedSpent(version, deadline) == ActiveEntry(version, deadline)

\* HSET and PEXPIREAT: an entry whose life has ended by now is deleted, and
\* with it whatever it replaced.
Landed(version, deadline) ==
    LET entry == ActiveEntry(version, deadline)
    IN  IF entry.until <= clock THEN NoEntry ELSE entry

\* writeUserSessionCache of a deny state: refused only by a newer version;
\* its life starts when it is published.
DenyAccepted(version) == cache.version <= version

DenyEntry(status, version) ==
    LET ttl == Min2(ExpiresAt - clock, CacheTTL)
    IN  [status |-> status, version |-> version,
         until |-> clock + (IF ttl <= 0 THEN 1 ELSE ttl)]

(***************************************************************************)
(* Database predicates.                                                    *)
(***************************************************************************)
Usable(at) == row.status = "active" /\ ExpiresAt > at

Step(p, r) == req' = [req EXCEPT ![p] = r]
Done(p) == Step(p, Idle)

\* A request that begins once a tombstone was published is entitled to no
\* service.
BeginRead(pc) ==
    [Idle EXCEPT !.op = "get", !.pc = pc, !.begun = clock,
                 !.sealed = hist.tombed]

BeginWrite(op, pc) == [Idle EXCEPT !.op = op, !.pc = pc, !.now = clock]

(***************************************************************************)
(* writeUserSessionCache of an active snapshot, called by the read, the    *)
(* rotation and the advance: the checks, the script on Redis and the check *)
(* of the time it took.  Only the read goes on: the others return.         *)
(***************************************************************************)
Settle(p, pc) ==
    IF req[p].op = "get" THEN Step(p, [req[p] EXCEPT !.pc = pc, !.deadline = 0])
    ELSE Done(p)

\* A spent observation is stale; the read then asks the database again.
WriteCheck(p) ==
    /\ req[p].pc = "fill"
    /\ \/ req[p].deadline <= clock /\ Settle(p, "confirm")
       \/ req[p].deadline > clock /\ ExpiresAt <= clock /\ Done(p)
       \/ /\ req[p].deadline > clock /\ ExpiresAt > clock
          /\ Step(p, [req[p] EXCEPT !.pc = "send"])
    /\ UNCHANGED <<clock, row, cache, hist>>

\* The script runs whenever Redis gets to it.  When the call fails, with or
\* without effect, the read is served all the same.
WriteScript(p) ==
    /\ req[p].pc = "send"
    /\ LET r == req[p]
       IN  \/ /\ Accepts(r.snap)
              /\ cache' = Landed(r.snap, r.deadline)
              /\ \/ r.op = "get" /\ Step(p, [r EXCEPT !.pc = "written"])
                 \/ Settle(p, "served")
           \/ ~Accepts(r.snap) /\ Done(p) /\ UNCHANGED cache
           \/ Settle(p, "served") /\ UNCHANGED cache
    /\ UNCHANGED <<clock, row, hist>>

\* completedAt: a write that outlasted its own deadline is stale as well.
WriteDone(p) ==
    /\ req[p].pc = "written"
    /\ \/ req[p].deadline <= clock /\ Settle(p, "confirm")
       \/ req[p].deadline > clock /\ ExpiresAt <= clock /\ Done(p)
       \/ req[p].deadline > clock /\ ExpiresAt > clock /\ Settle(p, "served")
    /\ UNCHANGED <<clock, row, cache, hist>>

Write(p) == WriteCheck(p) \/ WriteScript(p) \/ WriteDone(p)

(***************************************************************************)
(* GetUserSessionCached.  A live active entry is served as it is.          *)
(***************************************************************************)
GetHit(p) ==
    /\ req[p] = Idle
    /\ cache.status = "active"
    /\ ExpiresAt > clock
    /\ Step(p, [BeginRead("served") EXCEPT !.snap = cache.version])
    /\ UNCHANGED <<clock, row, cache, hist>>

\* A miss or a failed Redis read: the deadline is taken first.  A deny entry
\* never falls back, unless Redis did not answer.
GetLoad(p) ==
    /\ req[p] = Idle
    /\ Step(p, [BeginRead("load") EXCEPT !.deadline = clock + CacheTTL])
    /\ UNCHANGED <<clock, row, cache, hist>>

\* Then the row is read, however late the database answers.
GetRead(p) ==
    /\ req[p].pc = "load"
    /\ Step(p, IF Usable(clock)
               THEN [req[p] EXCEPT !.pc = "fill", !.snap = row.version]
               ELSE [req[p] EXCEPT !.pc = "deny", !.snap = row.version,
                                   !.deadline = 0])
    /\ UNCHANGED <<clock, row, cache, hist>>

\* The row was revoked or expired: its deny state is cached, best effort.
GetDeny(p) ==
    /\ req[p].pc = "deny"
    /\ \/ /\ DenyAccepted(req[p].snap)
          /\ cache' = DenyEntry("revoked", req[p].snap)
       \/ UNCHANGED cache
    /\ Done(p)
    /\ UNCHANGED <<clock, row, hist>>

\* confirmUserSessionActiveSnapshot: a stale observation is read again.
GetConfirm(p) ==
    /\ req[p].op = "get" /\ req[p].pc = "confirm"
    /\ IF Usable(clock) /\ row.version = req[p].snap
       THEN Step(p, [req[p] EXCEPT !.pc = "served"])
       ELSE Done(p)
    /\ UNCHANGED <<clock, row, cache, hist>>

\* The request has been served and its handler returns.
Return(p) ==
    /\ req[p].pc = "served"
    /\ Done(p)
    /\ UNCHANGED <<clock, row, cache, hist>>

(***************************************************************************)
(* Revocation.  RevokeUserSession ("revoke"), revokeUserSessions ("bulk"), *)
(* RevokeUserSessionByRefreshHash ("hash") and the reuse branch of         *)
(* RotateUserSessionRefresh ("reuse") read the row, publish a deny fence,  *)
(* revoke the row in the database and publish the final tombstone.         *)
(***************************************************************************)
RevokeBegin(p, op) ==
    /\ req[p] = Idle
    /\ Usable(clock)
    /\ Step(p, [BeginWrite(op, "fence") EXCEPT !.snap = row.version])
    /\ UNCHANGED <<clock, row, cache, hist>>

\* A logout that carries only the refresh cookie must present the current
\* token, or the previous one inside its window.
HashBegin(p, tok) ==
    /\ \/ tok = row.token
       \/ tok = row.prev /\ clock <= row.prevUntil
    /\ RevokeBegin(p, "hash")

\* A refused or failed fence ends the request with an error; the fence may
\* be in place although its reply was lost.
Fence(p) ==
    /\ req[p].pc = "fence"
    /\ LET r == req[p]
       IN  \/ /\ DenyAccepted(r.snap)
              /\ cache' = DenyEntry("revoking", r.snap)
              /\ Step(p, [r EXCEPT !.pc = "commit"]) \/ Done(p)
           \/ Done(p) /\ UNCHANGED cache
    /\ UNCHANGED <<clock, row, hist>>

\* The transaction that revokes the row.  The bulk form stamps its tombstone
\* from the rows it locked, the others from the row they read first.  A
\* failed transaction leaves the fence behind.
RevokeCommit(p) ==
    /\ req[p].pc = "commit"
    /\ LET r == req[p]
       IN  \/ /\ Usable(r.now)
              /\ row' = [row EXCEPT !.status = "revoked"]
              /\ hist' = [hist EXCEPT !.revokedAt = clock]
              /\ Step(p, [r EXCEPT !.pc = "tomb",
                            !.snap = IF r.op = "bulk" THEN row.version ELSE @])
           \/ Done(p) /\ UNCHANGED <<row, hist>>
    /\ UNCHANGED <<clock, cache>>

\* The final tombstone; a failure is only logged and the caller is told that
\* the session is revoked.
Tombstone(p) ==
    /\ req[p].pc = "tomb"
    /\ \/ /\ DenyAccepted(req[p].snap)
          /\ cache' = DenyEntry("revoked", req[p].snap)
          /\ hist' = [hist EXCEPT !.tombed = TRUE]
       \/ UNCHANGED <<cache, hist>>
    /\ Done(p)
    /\ UNCHANGED <<clock, row>>

(***************************************************************************)
(* RotateUserSessionRefresh, called by RefreshLoginSession with the time   *)
(* it reads first.                                                         *)
(***************************************************************************)
RotateBegin(p, tok) ==
    /\ req[p] = Idle
    /\ Step(p, [BeginWrite("rotate", "attempt") EXCEPT !.tok = tok])
    /\ UNCHANGED <<clock, row, cache, hist>>

\* One attempt begins with a new deadline.
RotateDeadline(p) ==
    /\ req[p].pc = "attempt"
    /\ Step(p, [req[p] EXCEPT !.pc = "read", !.deadline = clock + CacheTTL])
    /\ UNCHANGED <<clock, row, cache, hist>>

\* Mutant: the previous token is refused at once, without its window.
RotateReadNoGrace(p) ==
    /\ req[p].pc = "read"
    /\ LET r == req[p]
       IN  IF Usable(r.now) /\ r.tok = row.token /\ row.token < MaxToken
           THEN Step(p, [r EXCEPT !.pc = "swap", !.snap = row.version])
           ELSE IF Usable(r.now) /\ r.tok = row.prev
           THEN Step(p, [r EXCEPT !.op = "reuse", !.pc = "fence",
                                  !.snap = row.version, !.try = 0,
                                  !.deadline = 0,
                                  !.begun = hist.rotatedAt])
           ELSE Done(p)
    /\ UNCHANGED <<clock, row, cache, hist>>

\* It then reads the row: the current token goes on to the swap, the
\* previous one inside its window is answered with the same successor, the
\* previous one outside of it is reuse, and an unknown one is refused.
RotateRead(p) ==
    /\ req[p].pc = "read"
    /\ LET r == req[p]
       IN  IF Usable(r.now) /\ r.tok = row.token /\ row.token < MaxToken
           THEN Step(p, [r EXCEPT !.pc = "swap", !.snap = row.version])
           ELSE IF Usable(r.now) /\ r.tok = row.prev /\ r.now > row.prevUntil
           THEN Step(p, [r EXCEPT !.op = "reuse", !.pc = "fence",
                                  !.snap = row.version, !.try = 0,
                                  !.deadline = 0,
                                  !.begun = hist.rotatedAt])
           ELSE Done(p)
    /\ UNCHANGED <<clock, row, cache, hist>>

\* The compare-and-swap on refresh_hash; a loser reads again, three times.
RotateSwap(p) ==
    /\ req[p].pc = "swap"
    /\ LET r == req[p]
       IN  \/ /\ Usable(r.now) /\ row.token = r.tok
              /\ row' = [row EXCEPT !.token = r.tok + 1, !.prev = r.tok,
                                    !.prevUntil = r.now + Grace]
              /\ hist' = [hist EXCEPT !.rotatedAt = clock]
              /\ Step(p, [r EXCEPT !.pc = "fill"])
           \/ /\ ~(Usable(r.now) /\ row.token = r.tok)
              /\ IF r.try < 2
                 THEN Step(p, [r EXCEPT !.pc = "attempt", !.try = @ + 1])
                 ELSE Done(p)
              /\ UNCHANGED <<row, hist>>
    /\ UNCHANGED <<clock, cache>>

(***************************************************************************)
(* AdvanceUserSessionAuthVersion: a new session version after a security   *)
(* change, its deadline taken before the transaction.                      *)
(***************************************************************************)
AdvanceBegin(p) ==
    /\ req[p] = Idle
    /\ Usable(clock) /\ row.version < MaxVersion
    /\ Step(p, [BeginWrite("advance", "bump") EXCEPT
                  !.snap = row.version, !.deadline = clock + CacheTTL])
    /\ UNCHANGED <<clock, row, cache, hist>>

AdvanceCommit(p) ==
    /\ req[p].pc = "bump"
    /\ IF Usable(req[p].now) /\ row.version = req[p].snap
       THEN /\ row' = [row EXCEPT !.version = @ + 1]
            /\ hist' = [hist EXCEPT !.advancedAt = clock]
            /\ Step(p, [req[p] EXCEPT !.pc = "fill", !.snap = @ + 1])
       ELSE Done(p) /\ UNCHANGED <<row, hist>>
    /\ UNCHANGED <<clock, cache>>

(***************************************************************************)
(* Time.  Redis drops an entry when its life ends.  A rotation reaches its *)
(* swap within CASLag of the time it stamps.                               *)
(***************************************************************************)
Tick ==
    /\ clock < MaxTime
    /\ \A p \in Procs : req[p].pc \in {"attempt", "read", "swap"}
                        => clock < req[p].now + CASLag
    /\ clock' = clock + 1
    /\ cache' = IF cache.status # "none" /\ cache.until <= clock + 1
                THEN NoEntry ELSE cache
    /\ UNCHANGED <<row, req, hist>>

\* CreateUserSession has inserted the row; its snapshot is cached, or the
\* write failed and was logged.
Init ==
    /\ clock = 0
    /\ row = [status |-> "active", version |-> 1, token |-> 1,
              prev |-> 0, prevUntil |-> 0]
    /\ cache \in {NoEntry, ActiveEntry(1, CacheTTL)}
    /\ req = [p \in Procs |-> Idle]
    /\ hist = [revokedAt |-> Never, tombed |-> FALSE, rotatedAt |-> Never,
               advancedAt |-> Never]

Get(p) ==
    GetHit(p) \/ GetLoad(p) \/ GetRead(p) \/ GetDeny(p) \/ GetConfirm(p)
        \/ Return(p)

Revoke(p) ==
    \/ \E op \in {"revoke", "bulk"} : RevokeBegin(p, op)
    \/ \E tok \in 1..MaxToken : HashBegin(p, tok)
    \/ Fence(p) \/ RevokeCommit(p) \/ Tombstone(p)

Rotate(p) ==
    \/ \E tok \in 1..MaxToken : RotateBegin(p, tok)
    \/ RotateDeadline(p) \/ RotateRead(p) \/ RotateSwap(p)

Advance(p) == AdvanceBegin(p) \/ AdvanceCommit(p)

Next ==
    \/ Tick
    \/ \E p \in Procs :
          Get(p) \/ Revoke(p) \/ Rotate(p) \/ Advance(p) \/ Write(p)

Spec == Init /\ [][Next]_vars

--------------------------------------------------------------------------------
(***************************************************************************)
(* Properties.                                                             *)
(***************************************************************************)
Requests ==
    [op : {"idle", "get", "revoke", "bulk", "hash", "reuse", "rotate",
           "advance"},
     pc : {"idle", "load", "fill", "send", "written", "confirm", "served",
           "deny", "fence", "commit", "tomb", "attempt", "read", "swap",
           "bump"},
     snap : 0..MaxVersion, deadline : 0..(MaxTime + CacheTTL),
     now : 0..MaxTime, tok : 0..MaxToken, try : 0..2,
     begun : (0..MaxTime) \cup {Never}, sealed : BOOLEAN]

\* Type invariant of the session store; no entry stays with a spent life.
TypeOK ==
    /\ clock \in 0..MaxTime
    /\ row \in [status : {"active", "revoked"}, version : 1..MaxVersion,
                token : 1..MaxToken, prev : 0..MaxToken,
                prevUntil : 0..(MaxTime + Grace)]
    /\ cache \in [status : {"none", "active", "revoking", "revoked"},
                  version : 0..MaxVersion,
                  until : 0..(MaxTime + CacheTTL + 1)]
    /\ cache.status # "none" => cache.until > clock
    /\ req \in [Procs -> Requests]
    /\ hist \in [revokedAt : (0..MaxTime) \cup {Never}, tombed : BOOLEAN,
                 rotatedAt : (0..MaxTime) \cup {Never},
                 advancedAt : (0..MaxTime) \cup {Never}]

\* A published tombstone is not undone: a request that begins after the
\* tombstone of a revocation was published is never served.  No reader,
\* rotation or advance that still holds the session as active can put it back
\* in Redis, however late its read or its script runs, and not even after the
\* tombstone expires (writeUserSessionCache: "a stale active snapshot cannot
\* outlive a short deny tombstone").  Nothing of the kind holds for a published
\* advance: a read that stalled after taking its deadline can shorten the life
\* of the advanced entry, and an older observation may then fill the slot; that
\* is bounded by BoundedStaleness.
PublishedStateHolds ==
    \A p \in Procs : req[p].pc = "served" => ~req[p].sealed

\* Whatever Redis or the final tombstone did, no request that begins CacheTTL
\* or more after a revocation or an advance committed sees the session as it
\* was before it (the bounded staleness docs/authentication.md promises).
BoundedStaleness ==
    \A p \in Procs : LET r == req[p] IN r.pc = "served" =>
        /\ hist.revokedAt # Never => r.begun < hist.revokedAt + CacheTTL
        /\ r.snap < row.version => r.begun < hist.advancedAt + CacheTTL

\* A refresh token is treated as reused, which revokes the whole session,
\* only when it was presented more than the grace window after the swap that
\* replaced it, up to the CASLag between that swap and the time it stamped.
GraceHonoured ==
    \A p \in Procs : LET r == req[p] IN
        r.op = "reuse" => r.now + CASLag > r.begun + Grace

================================================================================
