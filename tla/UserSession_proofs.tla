-------------------------- MODULE UserSession_proofs ---------------------------
(***************************************************************************)
(* Proofs about the login-session store, for any set of requests in        *)
(* progress and any time to live, grace window, expiry and bounds.         *)
(*                                                                         *)
(* SessionInv is the inductive invariant.  Each property is about what a   *)
(* request may find in Redis, and what is in Redis was put there by a      *)
(* request that read the row earlier: so the invariant bounds the deadline *)
(* every unfinished observation still carries, by the time of the          *)
(* revocation and by the time of the advance it missed.                    *)
(***************************************************************************)
EXTENDS UserSession, TLAPS

(* A request that may still write an observation of the row to Redis.      *)
Observing(r) == r.pc \in {"fill", "send", "swap", "bump"}

(* A read that may still be answered.                                      *)
Reading(r) == r.op = "get" /\ r.pc \in {"fill", "send", "written", "confirm", "served"}

(* What a request r may hold, given the clock c, the row w and history h.  *)
Shape(r) ==
    /\ r.pc \in {"load", "written", "confirm", "served"} => r.op = "get"
    /\ r.pc \in {"attempt", "read", "swap"} => r.op = "rotate" /\ r.tok >= 1
    /\ r.pc = "swap" => r.tok < MaxToken
    /\ r.pc = "bump" => r.op = "advance" /\ r.snap < MaxVersion
    /\ r.pc \in {"fill", "send", "swap"} => r.snap >= 1

Timely(r, c) ==
    /\ r.deadline <= c + CacheTTL /\ r.now <= c /\ r.begun <= c
    /\ r.pc \in {"attempt", "read", "swap"} => c <= r.now + CASLag

(* An observation runs out within CacheTTL of the revocation or of the     *)
(* advance it missed, because its deadline was taken before the row was    *)
(* read.                                                                   *)
Bounded(r, w, h) ==
    /\ r.snap <= w.version
    /\ r.pc = "tomb" => w.status = "revoked"
    /\ Observing(r) /\ w.status = "revoked" => r.deadline <= h.revokedAt + CacheTTL
    /\ r.pc \in {"fill", "send", "swap"} /\ r.snap < w.version
         => r.deadline <= h.advancedAt + CacheTTL

(* A read that began after the tombstone finds the row revoked, and any    *)
(* other was entitled to the version it holds when it began.               *)
Entitling(r, w, h) ==
    /\ r.pc = "load" /\ r.sealed => h.tombed
    /\ Reading(r) =>
         /\ ~r.sealed
         /\ h.revokedAt # Never => r.begun < h.revokedAt + CacheTTL
         /\ r.snap < w.version => r.begun < h.advancedAt + CacheTTL

Late(r) == r.op = "reuse" => r.now + CASLag > r.begun + Grace

Local(r, c, w, h) ==
    Shape(r) /\ Timely(r, c) /\ Bounded(r, w, h) /\ Entitling(r, w, h) /\ Late(r)

(* The row, the Redis entry and the history.                               *)
StoreTypes ==
    /\ clock \in 0..MaxTime
    /\ row \in [status : {"active", "revoked"}, version : 1..MaxVersion,
                token : 1..MaxToken, prev : 0..MaxToken,
                prevUntil : 0..(MaxTime + Grace)]
    /\ cache \in [status : {"none", "active", "revoking", "revoked"},
                  version : 0..MaxVersion,
                  until : 0..(MaxTime + CacheTTL + 1)]
    /\ cache.status # "none" => cache.until > clock
    /\ hist \in [revokedAt : (0..MaxTime) \cup {Never}, tombed : BOOLEAN,
                 rotatedAt : (0..MaxTime) \cup {Never},
                 advancedAt : (0..MaxTime) \cup {Never}]

Stamps ==
    /\ hist.revokedAt <= clock /\ hist.rotatedAt <= clock /\ hist.advancedAt <= clock
    /\ cache.version <= row.version
    /\ row.status = "revoked" <=> hist.revokedAt # Never
    /\ row.prev # 0 => hist.rotatedAt + Grace <= row.prevUntil + CASLag

(* An active entry runs out as the observation it came from did.           *)
EntryBounded ==
    cache.status = "active" =>
      /\ cache.version >= 1 /\ cache.until <= clock + CacheTTL
      /\ row.status = "revoked" => cache.until <= hist.revokedAt + CacheTTL
      /\ cache.version < row.version => cache.until <= hist.advancedAt + CacheTTL

(* A published tombstone is not replaced by an active entry before the     *)
(* last active observation has run out.                                    *)
LastActive == Min2(hist.revokedAt + CacheTTL, ExpiresAt)

Sealed ==
    hist.tombed =>
      /\ row.status = "revoked" /\ cache.status # "active"
      /\ clock >= LastActive \/ (Denying /\ cache.until >= LastActive)

Store == StoreTypes /\ Stamps /\ EntryBounded /\ Sealed

SessionInv ==
    /\ Store
    /\ req \in [Procs -> Requests]
    /\ \A p \in Procs : Local(req[p], clock, row, hist)

--------------------------------------------------------------------------------
LEMMA IdleOK ==
    /\ Idle \in Requests /\ ~Observing(Idle)
    /\ Store => Local(Idle, clock, row, hist)
<1>1. Idle \in Requests
  BY SessionBounds DEF Idle, Requests
<1>2. /\ ~Observing(Idle) /\ ~Reading(Idle) /\ Late(Idle) /\ Shape(Idle)
      /\ Entitling(Idle, row, hist)
  BY DEF Idle, Observing, Reading, Late, Shape, Entitling
<1>3. ASSUME Store PROVE Timely(Idle, clock) /\ Bounded(Idle, row, hist)
  BY <1>2, <1>3, SessionBounds DEF Store, StoreTypes, Timely, Bounded, Idle
<1>4. QED BY <1>1, <1>2, <1>3 DEF Local

(* One request moves to r; the store may move too.                         *)
LEMMA Assemble ==
  ASSUME SessionInv, NEW p \in Procs, NEW r \in Requests, Step(p, r), Store',
         Local(r, clock', row', hist'),
         \A q \in Procs \ {p} : Local(req[q], clock', row', hist')
  PROVE  SessionInv'
<1>1. req' \in [Procs -> Requests] /\ req'[p] = r /\ \A q \in Procs \ {p} : req'[q] = req[q]
  BY DEF SessionInv, Step
<1>2. \A q \in Procs : Local(req'[q], clock', row', hist')
  BY <1>1
<1>3. (\A q \in Procs : Local(req[q], clock, row, hist))'
  BY <1>2
<1>4. QED BY <1>1, <1>3 DEF SessionInv

(* A request that writes no row and no history.                            *)
LEMMA QuietMove ==
  ASSUME SessionInv, NEW p \in Procs, NEW r \in Requests, Step(p, r), Store',
         UNCHANGED <<clock, row, hist>>, Local(r, clock, row, hist)
  PROVE  SessionInv'
<1>1. \A q \in Procs : Local(req[q], clock, row, hist)
  BY DEF SessionInv
<1>2. QED BY <1>1, Assemble

LEMMA Ends ==
  ASSUME SessionInv, NEW p \in Procs, Done(p), Store', UNCHANGED <<clock, row, hist>>
  PROVE  SessionInv'
<1>1. Local(Idle, clock, row, hist) /\ Idle \in Requests
  BY IdleOK DEF SessionInv
<1>2. QED BY <1>1, QuietMove DEF Done

LEMMA StoreStays ==
  ASSUME Store, UNCHANGED <<clock, row, cache, hist>>
  PROVE  Store'
BY DEF Store, StoreTypes, Stamps, EntryBounded, Sealed, LastActive, Denying

--------------------------------------------------------------------------------
(* The cache writes.                                                       *)

(* An accepted active write leaves an entry bounded by the observation it  *)
(* came from, or no entry; it never replaces a tombstone, and none was     *)
(* published and has run out if the entry stays.                           *)
LEMMA ActiveWriteKeeps ==
  ASSUME Store, NEW r \in Requests, Local(r, clock, row, hist), r.pc = "send",
         Accepts(r.snap), cache' = Landed(r.snap, r.deadline),
         UNCHANGED <<clock, row, hist>>
  PROVE  Store'
<1> DEFINE until == Min2(r.deadline, ExpiresAt)
           entry == [status |-> "active", version |-> r.snap, until |-> until]
<1>1. /\ r.deadline \in 0..(MaxTime + CacheTTL) /\ r.snap \in 0..MaxVersion
      /\ clock \in 0..MaxTime /\ cache.version \in 0..MaxVersion
      /\ hist.revokedAt \in Int /\ hist.advancedAt \in Int /\ row.version \in Int
  BY DEF Store, StoreTypes, Requests, Never
<1>2. /\ r.snap >= 1 /\ r.deadline <= clock + CacheTTL /\ r.snap <= row.version
      /\ row.status = "revoked" => r.deadline <= hist.revokedAt + CacheTTL
      /\ r.snap < row.version => r.deadline <= hist.advancedAt + CacheTTL
  BY DEF Local, Shape, Timely, Bounded, Observing
<1>3. /\ until \in 0..(MaxTime + CacheTTL + 1) /\ until <= r.deadline /\ until <= ExpiresAt
  BY <1>1, SessionBounds DEF Min2
<1>4. ~Denying
  BY DEF Accepts
<1>5. \/ cache' = NoEntry
      \/ cache' = entry /\ until > clock
  BY <1>1, <1>3 DEF Landed, ActiveEntry
<1> HIDE DEF until
<1>6. CASE cache' = NoEntry
  <2>1. /\ cache'.status = "none" /\ cache'.version = 0
        /\ cache' \in [status : {"none", "active", "revoking", "revoked"},
                       version : 0..MaxVersion, until : 0..(MaxTime + CacheTTL + 1)]
    BY <1>6, SessionBounds DEF NoEntry
  <2>2. StoreTypes'
    BY <2>1 DEF Store, StoreTypes
  <2>3. Stamps'
    BY <1>1, <1>2, <2>1 DEF Store, Stamps
  <2>4. EntryBounded'
    BY <2>1 DEF EntryBounded
  <2>5. Sealed'
    BY <1>4, <2>1 DEF Store, Sealed, LastActive
  <2>6. QED BY <2>2, <2>3, <2>4, <2>5 DEF Store
<1>7. CASE cache' = entry /\ until > clock
  <2>1. /\ cache'.status = "active" /\ cache'.version = r.snap /\ cache'.until = until
        /\ cache' \in [status : {"none", "active", "revoking", "revoked"},
                       version : 0..MaxVersion, until : 0..(MaxTime + CacheTTL + 1)]
    BY <1>1, <1>3, <1>7
  <2>2. StoreTypes'
    BY <1>7, <2>1 DEF Store, StoreTypes
  <2>3. Stamps'
    BY <1>2, <2>1 DEF Store, Stamps
  <2>4. EntryBounded'
    BY <1>1, <1>2, <1>3, <2>1, SessionBounds DEF EntryBounded
  <2>5. ~hist.tombed
    <3> SUFFICES ASSUME hist.tombed PROVE FALSE
      OBVIOUS
    <3>1. row.status = "revoked" /\ clock >= LastActive
      BY <1>4 DEF Store, Sealed
    <3>2. r.deadline <= hist.revokedAt + CacheTTL
      BY <1>2, <3>1
    <3>3. QED BY <1>1, <1>3, <1>7, <3>1, <3>2, SessionBounds DEF LastActive, Min2
  <2>6. Sealed'
    BY <2>5 DEF Sealed
  <2>7. QED BY <2>2, <2>3, <2>4, <2>6 DEF Store
<1>8. QED BY <1>5, <1>6, <1>7

(* What a deny write leaves: it outlives every active observation of a row *)
(* revoked by now.                                                         *)
LEMMA DenyWritten ==
  ASSUME Store, NEW v \in 0..MaxVersion, NEW st \in {"revoking", "revoked"}, DenyAccepted(v),
         cache' = DenyEntry(st, v)
  PROVE  /\ cache'.status = st /\ cache'.version = v /\ cache.version <= v
         /\ cache'.until \in Int /\ cache'.until > clock
         /\ clock >= ExpiresAt \/ cache'.until >= Min2(clock + CacheTTL, ExpiresAt)
         /\ cache' \in [status : {"none", "active", "revoking", "revoked"},
                        version : 0..MaxVersion, until : 0..(MaxTime + CacheTTL + 1)]
<1> DEFINE ttl == Min2(ExpiresAt - clock, CacheTTL)
           until == clock + (IF ttl <= 0 THEN 1 ELSE ttl)
<1>1. clock \in 0..MaxTime
  BY DEF Store, StoreTypes
<1>2. /\ until \in 0..(MaxTime + CacheTTL + 1) /\ until > clock
      /\ clock >= ExpiresAt \/ until >= Min2(clock + CacheTTL, ExpiresAt)
  BY <1>1, SessionBounds DEF Min2
<1>3. cache' = [status |-> st, version |-> v, until |-> until]
  BY DEF DenyEntry
<1> HIDE DEF until
<1>4. QED BY <1>2, <1>3 DEF DenyAccepted

LEMMA DenyWriteKeeps ==
  ASSUME Store, NEW v \in 0..MaxVersion, NEW st \in {"revoking", "revoked"}, DenyAccepted(v),
         v <= row.version, cache' = DenyEntry(st, v), UNCHANGED <<clock, row>>,
         hist' = hist \/ (hist' = [hist EXCEPT !.tombed = TRUE] /\ row.status = "revoked")
  PROVE  Store'
<1>1. /\ cache'.status = st /\ cache'.version = v /\ cache.version <= v
      /\ cache'.until \in Int /\ cache'.until > clock
      /\ clock >= ExpiresAt \/ cache'.until >= Min2(clock + CacheTTL, ExpiresAt)
      /\ cache' \in [status : {"none", "active", "revoking", "revoked"},
                     version : 0..MaxVersion, until : 0..(MaxTime + CacheTTL + 1)]
  BY DenyWritten
<1>2. clock \in 0..MaxTime /\ hist.revokedAt \in Int /\ hist.revokedAt <= clock
  BY DEF Store, StoreTypes, Stamps, Never
<1>3. /\ hist' \in [revokedAt : (0..MaxTime) \cup {Never}, tombed : BOOLEAN,
                    rotatedAt : (0..MaxTime) \cup {Never},
                    advancedAt : (0..MaxTime) \cup {Never}]
      /\ hist'.revokedAt = hist.revokedAt /\ hist'.rotatedAt = hist.rotatedAt
      /\ hist'.advancedAt = hist.advancedAt
      /\ hist'.tombed => hist.tombed \/ row.status = "revoked"
  BY DEF Store, StoreTypes
<1>4. StoreTypes'
  BY <1>1, <1>3 DEF Store, StoreTypes
<1>5. Stamps'
  BY <1>1, <1>3 DEF Store, Stamps
<1>6. EntryBounded'
  BY <1>1 DEF EntryBounded
<1>7. Sealed'
  <2> SUFFICES ASSUME hist'.tombed
               PROVE  row.status = "revoked" /\ (clock >= LastActive \/ cache'.until >= LastActive)
    BY <1>1, <1>3 DEF Sealed, Denying, LastActive
  <2>1. row.status = "revoked"
    BY <1>3 DEF Store, Sealed
  <2>2. QED BY <1>1, <1>2, <2>1, SessionBounds DEF LastActive, Min2
<1>8. QED BY <1>4, <1>5, <1>6, <1>7 DEF Store

--------------------------------------------------------------------------------
(* The reads.                                                              *)

(* What a request that begins now finds in the store.                      *)
LEMMA Now ==
  ASSUME Store
  PROVE  /\ clock \in 0..MaxTime /\ row.version \in 1..MaxVersion
         /\ hist.revokedAt \in Int /\ hist.advancedAt \in Int /\ hist.rotatedAt \in Int
         /\ hist.revokedAt <= clock /\ hist.advancedAt <= clock
         /\ hist.tombed \in BOOLEAN
BY DEF Store, StoreTypes, Stamps, Never

LEMMA BeginReadOK ==
  ASSUME Store, NEW pc \in {"served", "load"}
  PROVE  /\ BeginRead(pc) \in Requests
         /\ BeginRead(pc).op = "get" /\ BeginRead(pc).pc = pc /\ BeginRead(pc).deadline = 0
         /\ BeginRead(pc).now = 0 /\ BeginRead(pc).begun = clock /\ BeginRead(pc).snap = 0
         /\ BeginRead(pc).sealed = hist.tombed
<1>1. PICK b \in BOOLEAN : b = hist.tombed
  BY Now
<1>2. PICK c \in 0..MaxTime : c = clock
  BY Now
<1>3. BeginRead(pc) = [Idle EXCEPT !.op = "get", !.pc = pc, !.begun = c, !.sealed = b]
  BY <1>1, <1>2, Now DEF BeginRead
<1>4. BeginRead(pc) \in Requests
  BY <1>3, IdleOK DEF Requests
<1>5. QED BY <1>1, <1>2, <1>3, <1>4 DEF Idle

(* A hit on a live active entry is entitled to it.                         *)
LEMMA GetHitKeeps ==
  ASSUME SessionInv, NEW p \in Procs, GetHit(p)
  PROVE  SessionInv'
<1> DEFINE r == [BeginRead("served") EXCEPT !.snap = cache.version]
<1>1. Store /\ UNCHANGED <<clock, row, cache, hist>> /\ Step(p, r) /\ cache.status = "active"
  BY DEF SessionInv, GetHit
<1>2. /\ r.op = "get" /\ r.pc = "served" /\ r.snap = cache.version /\ r.deadline = 0
      /\ r.now = 0 /\ r.begun = clock /\ r.sealed = hist.tombed
  BY <1>1, BeginReadOK DEF Requests
<1>4. cache.version \in 0..MaxVersion /\ cache.until \in Int /\ cache.until > clock
  BY <1>1 DEF Store, StoreTypes
<1>5. r \in Requests
  BY <1>1, <1>4, BeginReadOK DEF Requests
<1>6. ~hist.tombed
  BY <1>1 DEF Store, Sealed
<1>7. hist.revokedAt # Never => clock < hist.revokedAt + CacheTTL
  BY <1>1, <1>4, Now, SessionBounds DEF Store, EntryBounded, Stamps
<1>8. cache.version < row.version => clock < hist.advancedAt + CacheTTL
  BY <1>1, <1>4, Now, SessionBounds DEF Store, EntryBounded
<1>9. cache.version <= row.version
  BY <1>1 DEF Store, Stamps
<1>10. Local(r, clock, row, hist)
  BY <1>1, <1>2, <1>6, <1>7, <1>8, <1>9, Now, SessionBounds
     DEF Local, Shape, Timely, Bounded, Observing, Entitling, Late
<1> HIDE DEF r
<1>11. QED BY <1>1, <1>5, <1>10, StoreStays, QuietMove

LEMMA GetLoadKeeps ==
  ASSUME SessionInv, NEW p \in Procs, GetLoad(p)
  PROVE  SessionInv'
<1> DEFINE x == BeginRead("load")
           r == [x EXCEPT !.deadline = clock + CacheTTL]
<1>1. Store /\ UNCHANGED <<clock, row, cache, hist>> /\ Step(p, r)
  BY DEF SessionInv, GetLoad
<1>2. /\ x \in Requests /\ x.op = "get" /\ x.pc = "load" /\ x.now = 0 /\ x.begun = clock
      /\ x.snap = 0 /\ x.sealed = hist.tombed
  BY <1>1, BeginReadOK
<1> HIDE DEF x
<1>3. /\ r \in Requests /\ r.op = "get" /\ r.pc = "load" /\ r.snap = 0
      /\ r.deadline = clock + CacheTTL
      /\ r.now = 0 /\ r.begun = clock /\ r.sealed = hist.tombed
  <2>1. PICK e \in 0..(MaxTime + CacheTTL) : e = clock + CacheTTL
    BY <1>1, Now, SessionBounds
  <2>2. r = [x EXCEPT !.deadline = e]
    BY <2>1
  <2>3. QED BY <1>2, <2>1, <2>2 DEF Requests
<1> HIDE DEF r
<1>4. Local(r, clock, row, hist)
  BY <1>1, <1>3, Now, SessionBounds
     DEF Local, Shape, Timely, Bounded, Observing, Entitling, Reading, Late
<1>5. QED BY <1>1, <1>3, <1>4, StoreStays, QuietMove

(* The row is read after the deadline was taken: what it shows is at least *)
(* as new, and a read that began after the tombstone finds it revoked.     *)
LEMMA GetReadKeeps ==
  ASSUME SessionInv, NEW p \in Procs, GetRead(p)
  PROVE  SessionInv'
<1> DEFINE r == req[p]
           fill == [r EXCEPT !.pc = "fill", !.snap = row.version]
           deny == [r EXCEPT !.pc = "deny", !.snap = row.version, !.deadline = 0]
<1>1. /\ Store /\ r \in Requests /\ Local(r, clock, row, hist) /\ r.pc = "load"
      /\ UNCHANGED <<clock, row, cache, hist>>
  BY DEF SessionInv, GetRead
<1>2. PICK v \in 0..MaxVersion : v = row.version
  BY <1>1, Now, SessionBounds
<1>3. CASE Usable(clock) /\ Step(p, fill)
  <2>1. fill = [r EXCEPT !.pc = "fill", !.snap = v]
    BY <1>2
  <2>2. /\ fill \in Requests /\ fill.op = r.op /\ fill.pc = "fill" /\ fill.snap = row.version
        /\ fill.deadline = r.deadline /\ fill.now = r.now /\ fill.begun = r.begun
        /\ fill.sealed = r.sealed
    BY <1>1, <1>2, <2>1 DEF Requests
  <2> HIDE DEF fill
  <2>3. row.status = "active" /\ hist.revokedAt = Never
    BY <1>1, <1>3 DEF Usable, Store, Stamps
  <2>4. ~hist.tombed
    BY <1>1, <2>3 DEF Store, Sealed
  <2>5. r.op = "get" /\ ~r.sealed
    BY <1>1, <2>4 DEF Local, Shape, Entitling
  <2>6. Shape(fill) /\ Timely(fill, clock) /\ Bounded(fill, row, hist) /\ Late(fill)
    BY <1>1, <2>2, <2>3, <2>5, Now DEF Local, Shape, Timely, Bounded, Late
  <2>7. ~fill.sealed
    BY <2>2, <2>5
  <2>8. Entitling(fill, row, hist)
    BY <1>1, <2>2, <2>3, <2>7, Now DEF Entitling
  <2>9. QED BY <1>1, <1>3, <2>2, <2>6, <2>8, StoreStays, QuietMove DEF Local
<1>4. CASE Step(p, deny)
  <2>1. PICK d \in 0..(MaxTime + CacheTTL) : d = 0
    BY SessionBounds
  <2>2. deny = [r EXCEPT !.pc = "deny", !.snap = v, !.deadline = d]
    BY <1>2, <2>1
  <2>3. /\ deny \in Requests /\ deny.op = r.op /\ deny.pc = "deny" /\ deny.snap = row.version
        /\ deny.deadline = 0 /\ deny.now = r.now /\ deny.begun = r.begun
    BY <1>1, <1>2, <2>1, <2>2 DEF Requests
  <2> HIDE DEF deny
  <2>4. Local(deny, clock, row, hist)
    BY <1>1, <2>3, Now, SessionBounds
       DEF Local, Shape, Timely, Bounded, Observing, Entitling, Reading, Late
  <2>5. QED BY <1>1, <1>4, <2>3, <2>4, StoreStays, QuietMove
<1>5. QED BY <1>3, <1>4 DEF GetRead

(* A read that only moves on: it keeps what it read, and sends nothing to  *)
(* Redis but what it holds.                                                *)
LEMMA Settles ==
  ASSUME SessionInv, NEW p \in Procs, NEW r \in Requests, Reading(req[p]),
         r.op = "get", r.pc \in {"written", "served", "confirm"},
         r.deadline \in {0, req[p].deadline},
         r.snap = req[p].snap, r.now = req[p].now, r.begun = req[p].begun,
         r.sealed = req[p].sealed, Step(p, r), Store', UNCHANGED <<clock, row, hist>>
  PROVE  SessionInv'
<1>1. Local(req[p], clock, row, hist) /\ Store /\ req[p] \in Requests
  BY DEF SessionInv
<1>2. Shape(r) /\ Late(r)
  BY DEF Shape, Late
<1>3. Timely(r, clock)
  BY <1>1, Now, SessionBounds DEF Local, Timely
<1>4. Bounded(r, row, hist)
  BY <1>1 DEF Local, Bounded, Observing
<1>5. Entitling(r, row, hist)
  BY <1>1 DEF Local, Entitling
<1>6. QED BY <1>2, <1>3, <1>4, <1>5, QuietMove DEF Local

(* How a call of writeUserSessionCache ends.                               *)
LEMMA SettleKeeps ==
  ASSUME SessionInv, NEW p \in Procs, NEW pc \in {"served", "confirm"},
         req[p].pc \in {"fill", "send", "written"}, Settle(p, pc),
         Store', UNCHANGED <<clock, row, hist>>
  PROVE  SessionInv'
<1> DEFINE r == req[p]
           s == [r EXCEPT !.pc = pc, !.deadline = 0]
<1>1. r \in Requests
  BY DEF SessionInv
<1>2. CASE Done(p)
  BY <1>2, Ends
<1>3. CASE r.op = "get" /\ Step(p, s)
  <2>1. PICK d \in 0..(MaxTime + CacheTTL) : d = 0
    BY SessionBounds
  <2>2. s = [r EXCEPT !.pc = pc, !.deadline = d]
    BY <2>1
  <2>3. /\ s \in Requests /\ s.op = "get" /\ s.pc = pc /\ s.deadline = 0
        /\ s.snap = r.snap /\ s.now = r.now /\ s.begun = r.begun /\ s.sealed = r.sealed
    BY <1>1, <1>3, <2>1, <2>2 DEF Requests
  <2>4. Reading(r)
    BY <1>3 DEF Reading
  <2> HIDE DEF s
  <2>5. QED BY <1>3, <2>3, <2>4, Settles
<1>4. QED BY <1>2, <1>3 DEF Settle

LEMMA WriteCheckKeeps ==
  ASSUME SessionInv, NEW p \in Procs, WriteCheck(p)
  PROVE  SessionInv'
<1> DEFINE r == req[p]
           s == [r EXCEPT !.pc = "send"]
<1>1. /\ Store /\ r \in Requests /\ Local(r, clock, row, hist) /\ r.pc = "fill"
      /\ UNCHANGED <<clock, row, cache, hist>>
  BY DEF SessionInv, WriteCheck
<1>2. CASE Settle(p, "confirm")
  BY <1>1, <1>2, StoreStays, SettleKeeps
<1>3. CASE Done(p)
  BY <1>1, <1>3, StoreStays, Ends
<1>4. CASE Step(p, s)
  <2>1. /\ s \in Requests /\ s.op = r.op /\ s.pc = "send" /\ s.deadline = r.deadline
        /\ s.snap = r.snap /\ s.now = r.now /\ s.begun = r.begun /\ s.sealed = r.sealed
    BY <1>1 DEF Requests
  <2> HIDE DEF s
  <2>2. Shape(s) /\ Timely(s, clock) /\ Bounded(s, row, hist) /\ Late(s)
    BY <1>1, <2>1 DEF Local, Shape, Timely, Bounded, Observing, Late
  <2>3. Entitling(s, row, hist)
    BY <1>1, <2>1 DEF Local, Entitling, Reading
  <2>4. QED BY <1>1, <1>4, <2>1, <2>2, <2>3, StoreStays, QuietMove DEF Local
<1>5. QED BY <1>2, <1>3, <1>4 DEF WriteCheck

LEMMA WriteScriptKeeps ==
  ASSUME SessionInv, NEW p \in Procs, WriteScript(p)
  PROVE  SessionInv'
<1> DEFINE r == req[p]
           s == [r EXCEPT !.pc = "written"]
<1>1. /\ Store /\ r \in Requests /\ Local(r, clock, row, hist) /\ r.pc = "send"
      /\ UNCHANGED <<clock, row, hist>>
  BY DEF SessionInv, WriteScript
<1>2. Store'
  <2>1. CASE UNCHANGED cache
    BY <1>1, <2>1, StoreStays
  <2>2. CASE Accepts(r.snap) /\ cache' = Landed(r.snap, r.deadline)
    BY <1>1, <2>2, ActiveWriteKeeps
  <2>3. QED BY <2>1, <2>2 DEF WriteScript
<1>3. CASE Settle(p, "served")
  BY <1>1, <1>2, <1>3, SettleKeeps
<1>4. CASE Done(p)
  BY <1>1, <1>2, <1>4, Ends
<1>5. CASE r.op = "get" /\ Step(p, s)
  <2>1. /\ s \in Requests /\ s.op = "get" /\ s.pc = "written" /\ s.deadline = r.deadline
        /\ s.snap = r.snap /\ s.now = r.now /\ s.begun = r.begun /\ s.sealed = r.sealed
    BY <1>1, <1>5 DEF Requests
  <2>2. Reading(r)
    BY <1>1, <1>5 DEF Reading
  <2> HIDE DEF s
  <2>3. QED BY <1>1, <1>2, <1>5, <2>1, <2>2, Settles
<1>6. QED BY <1>3, <1>4, <1>5 DEF WriteScript

LEMMA WriteKeeps ==
  ASSUME SessionInv, NEW p \in Procs, Write(p)
  PROVE  SessionInv'
<1>1. CASE WriteDone(p)
  <2>1. req[p].pc = "written" /\ UNCHANGED <<clock, row, hist>> /\ Store'
    BY <1>1, StoreStays DEF WriteDone, SessionInv
  <2>2. Settle(p, "confirm") \/ Settle(p, "served") \/ Done(p)
    BY <1>1 DEF WriteDone
  <2>3. QED BY <2>1, <2>2, SettleKeeps, Ends
<1>2. QED BY <1>1, WriteCheckKeeps, WriteScriptKeeps DEF Write

LEMMA GetDenyKeeps ==
  ASSUME SessionInv, NEW p \in Procs, GetDeny(p)
  PROVE  SessionInv'
<1>1. Store /\ req[p].snap \in 0..MaxVersion /\ req[p].snap <= row.version
  BY DEF SessionInv, Requests, Local, Bounded
<1>2. Done(p) /\ UNCHANGED <<clock, row, hist>>
  BY DEF GetDeny
<1>3. Store'
  <2>1. CASE UNCHANGED cache
    BY <1>1, <1>2, <2>1, StoreStays
  <2>2. CASE DenyAccepted(req[p].snap) /\ cache' = DenyEntry("revoked", req[p].snap)
    BY <1>1, <1>2, <2>2, DenyWriteKeeps
  <2>3. QED BY <2>1, <2>2 DEF GetDeny
<1>4. QED BY <1>2, <1>3, Ends

LEMMA GetConfirmKeeps ==
  ASSUME SessionInv, NEW p \in Procs, GetConfirm(p)
  PROVE  SessionInv'
<1> DEFINE r == req[p]
           s == [r EXCEPT !.pc = "served"]
<1>1. /\ Store /\ r \in Requests /\ r.op = "get" /\ r.pc = "confirm" /\ Local(r, clock, row, hist)
      /\ UNCHANGED <<clock, row, cache, hist>>
  BY DEF SessionInv, GetConfirm
<1>2. CASE Done(p)
  BY <1>1, <1>2, StoreStays, Ends
<1>3. CASE Step(p, s)
  <2>1. /\ s \in Requests /\ s.op = "get" /\ s.pc = "served" /\ s.deadline = r.deadline
        /\ s.snap = r.snap /\ s.now = r.now /\ s.begun = r.begun
        /\ s.sealed = r.sealed
    BY <1>1 DEF Requests
  <2> HIDE DEF s
  <2>2. Local(s, clock, row, hist)
    BY <1>1, <2>1 DEF Local, Shape, Timely, Bounded, Observing, Entitling, Reading, Late
  <2>3. QED BY <1>1, <1>3, <2>1, <2>2, StoreStays, QuietMove
<1>4. QED BY <1>2, <1>3 DEF GetConfirm

LEMMA GetKeeps ==
  ASSUME SessionInv, NEW p \in Procs, Get(p)
  PROVE  SessionInv'
<1>1. CASE Return(p)
  BY <1>1, StoreStays, Ends DEF Return, SessionInv
<1>2. QED BY <1>1, GetHitKeeps, GetLoadKeeps, GetReadKeeps, GetDenyKeeps, GetConfirmKeeps DEF Get

--------------------------------------------------------------------------------
(* The writers begin.                                                      *)

LEMMA BeginWriteOK ==
  ASSUME Store, NEW op \in {"revoke", "bulk", "hash", "rotate", "advance"},
         NEW pc \in {"fence", "attempt", "bump"}
  PROVE  /\ BeginWrite(op, pc) \in Requests
         /\ BeginWrite(op, pc).op = op /\ BeginWrite(op, pc).pc = pc
         /\ BeginWrite(op, pc).now = clock /\ BeginWrite(op, pc).begun = 0
         /\ BeginWrite(op, pc).deadline = 0 /\ BeginWrite(op, pc).snap = 0
<1>1. PICK c \in 0..MaxTime : c = clock
  BY Now
<1>2. BeginWrite(op, pc) = [Idle EXCEPT !.op = op, !.pc = pc, !.now = c]
  BY <1>1 DEF BeginWrite
<1>3. BeginWrite(op, pc) \in Requests
  BY <1>2, IdleOK DEF Requests
<1>4. QED BY <1>1, <1>2, <1>3 DEF Idle

LEMMA RevokeBeginKeeps ==
  ASSUME SessionInv, NEW p \in Procs, NEW op \in {"revoke", "bulk", "hash"}, RevokeBegin(p, op)
  PROVE  SessionInv'
<1> DEFINE x == BeginWrite(op, "fence")
           r == [x EXCEPT !.snap = row.version]
<1>1. Store /\ UNCHANGED <<clock, row, cache, hist>> /\ Step(p, r)
  BY DEF SessionInv, RevokeBegin
<1>2. x \in Requests /\ x.op = op /\ x.pc = "fence" /\ x.now = clock /\ x.begun = 0 /\ x.deadline = 0
  BY <1>1, BeginWriteOK
<1> HIDE DEF x
<1>3. /\ r \in Requests /\ r.op = op /\ r.pc = "fence" /\ r.now = clock /\ r.begun = 0
      /\ r.deadline = 0 /\ r.snap = row.version
  BY <1>1, <1>2, Now, SessionBounds DEF Requests
<1> HIDE DEF r
<1>4. Local(r, clock, row, hist)
  BY <1>1, <1>3, Now, SessionBounds
     DEF Local, Shape, Timely, Bounded, Observing, Entitling, Reading, Late
<1>5. QED BY <1>1, <1>3, <1>4, StoreStays, QuietMove

LEMMA RotateBeginKeeps ==
  ASSUME SessionInv, NEW p \in Procs, NEW tok \in 1..MaxToken, RotateBegin(p, tok)
  PROVE  SessionInv'
<1> DEFINE x == BeginWrite("rotate", "attempt")
           r == [x EXCEPT !.tok = tok]
<1>1. Store /\ UNCHANGED <<clock, row, cache, hist>> /\ Step(p, r)
  BY DEF SessionInv, RotateBegin
<1>2. /\ x \in Requests /\ x.op = "rotate" /\ x.pc = "attempt" /\ x.now = clock /\ x.begun = 0
      /\ x.deadline = 0 /\ x.snap = 0
  BY <1>1, BeginWriteOK
<1> HIDE DEF x
<1>3. /\ r \in Requests /\ r.op = "rotate" /\ r.pc = "attempt" /\ r.now = clock /\ r.begun = 0
      /\ r.deadline = 0 /\ r.snap = 0 /\ r.tok = tok
  BY <1>1, <1>2, Now, SessionBounds DEF Requests
<1> HIDE DEF r
<1>4. Local(r, clock, row, hist)
  BY <1>1, <1>3, Now, SessionBounds
     DEF Local, Shape, Timely, Bounded, Observing, Entitling, Reading, Late
<1>5. QED BY <1>1, <1>3, <1>4, StoreStays, QuietMove

LEMMA AdvanceBeginKeeps ==
  ASSUME SessionInv, NEW p \in Procs, AdvanceBegin(p)
  PROVE  SessionInv'
<1> DEFINE x == BeginWrite("advance", "bump")
           r == [x EXCEPT !.snap = row.version, !.deadline = clock + CacheTTL]
<1>1. /\ Store /\ UNCHANGED <<clock, row, cache, hist>> /\ Step(p, r)
      /\ row.status = "active" /\ row.version < MaxVersion
  BY DEF SessionInv, AdvanceBegin, Usable
<1>2. x \in Requests /\ x.op = "advance" /\ x.pc = "bump" /\ x.now = clock /\ x.begun = 0
  BY <1>1, BeginWriteOK
<1> HIDE DEF x
<1>3. /\ r \in Requests /\ r.op = "advance" /\ r.pc = "bump" /\ r.now = clock /\ r.begun = 0
      /\ r.deadline = clock + CacheTTL /\ r.snap = row.version
  <2>1. PICK v \in 0..MaxVersion : v = row.version
    BY <1>1, Now, SessionBounds
  <2>2. PICK e \in 0..(MaxTime + CacheTTL) : e = clock + CacheTTL
    BY <1>1, Now, SessionBounds
  <2>3. r = [x EXCEPT !.snap = v, !.deadline = e]
    BY <2>1, <2>2
  <2>4. QED BY <1>2, <2>1, <2>2, <2>3 DEF Requests
<1> HIDE DEF r
<1>4. Local(r, clock, row, hist)
  BY <1>1, <1>3, Now, SessionBounds
     DEF Local, Shape, Timely, Bounded, Observing, Entitling, Reading, Late
<1>5. QED BY <1>1, <1>3, <1>4, StoreStays, QuietMove

--------------------------------------------------------------------------------
(* Revocation.                                                             *)

LEMMA FenceKeeps ==
  ASSUME SessionInv, NEW p \in Procs, Fence(p)
  PROVE  SessionInv'
<1> DEFINE r == req[p]
           s == [r EXCEPT !.pc = "commit"]
<1>1. /\ Store /\ r \in Requests /\ Local(r, clock, row, hist) /\ r.pc = "fence"
      /\ UNCHANGED <<clock, row, hist>>
  BY DEF SessionInv, Fence
<1>2. Store'
  <2>1. CASE UNCHANGED cache
    BY <1>1, <2>1, StoreStays
  <2>2. CASE DenyAccepted(r.snap) /\ cache' = DenyEntry("revoking", r.snap)
    <3>1. r.snap \in 0..MaxVersion /\ r.snap <= row.version
      BY <1>1 DEF Requests, Local, Bounded
    <3>2. QED BY <1>1, <2>2, <3>1, DenyWriteKeeps
  <2>3. QED BY <2>1, <2>2 DEF Fence
<1>3. CASE Done(p)
  BY <1>1, <1>2, <1>3, Ends
<1>4. CASE Step(p, s)
  <2>1. /\ s \in Requests /\ s.op = r.op /\ s.pc = "commit" /\ s.deadline = r.deadline
        /\ s.snap = r.snap /\ s.now = r.now /\ s.begun = r.begun
    BY <1>1 DEF Requests
  <2> HIDE DEF s
  <2>2. Local(s, clock, row, hist)
    BY <1>1, <2>1
       DEF Local, Shape, Timely, Bounded, Observing, Entitling, Reading, Late
  <2>3. QED BY <1>1, <1>2, <1>4, <2>1, <2>2, QuietMove
<1>5. QED BY <1>3, <1>4 DEF Fence

(* The row is revoked: every observation in flight was made by now.        *)
LEMMA RevokeCommitKeeps ==
  ASSUME SessionInv, NEW p \in Procs, RevokeCommit(p)
  PROVE  SessionInv'
<1> DEFINE r == req[p]
           s == [r EXCEPT !.pc = "tomb", !.snap = IF r.op = "bulk" THEN row.version ELSE @]
<1>1. /\ Store /\ r \in Requests /\ Local(r, clock, row, hist) /\ r.pc = "commit"
      /\ UNCHANGED <<clock, cache>>
  BY DEF SessionInv, RevokeCommit
<1>2. CASE Done(p) /\ UNCHANGED <<row, hist>>
  BY <1>1, <1>2, StoreStays, Ends
<1>3. CASE /\ Usable(r.now)
           /\ row' = [row EXCEPT !.status = "revoked"]
           /\ hist' = [hist EXCEPT !.revokedAt = clock]
           /\ Step(p, s)
  <2>1. /\ row.status = "active" /\ row'.status = "revoked" /\ row'.version = row.version
        /\ row'.prev = row.prev /\ row'.prevUntil = row.prevUntil
        /\ row' \in [status : {"active", "revoked"}, version : 1..MaxVersion,
                     token : 1..MaxToken, prev : 0..MaxToken,
                     prevUntil : 0..(MaxTime + Grace)]
    BY <1>1, <1>3 DEF Store, StoreTypes, Usable
  <2>2. /\ hist' \in [revokedAt : (0..MaxTime) \cup {Never}, tombed : BOOLEAN,
                      rotatedAt : (0..MaxTime) \cup {Never},
                      advancedAt : (0..MaxTime) \cup {Never}]
        /\ hist'.revokedAt = clock /\ hist'.rotatedAt = hist.rotatedAt
        /\ hist'.advancedAt = hist.advancedAt /\ hist'.tombed = hist.tombed
    BY <1>1, <1>3 DEF Store, StoreTypes
  <2>3. Store'
    <3>1. StoreTypes'
      BY <1>1, <2>1, <2>2 DEF Store, StoreTypes
    <3>2. Stamps'
      BY <1>1, <2>1, <2>2, Now DEF Store, Stamps, Never
    <3>3. EntryBounded'
      BY <1>1, <2>1, <2>2 DEF Store, EntryBounded
    <3>4. Sealed'
      BY <1>1, <2>1, <2>2 DEF Store, Sealed
    <3>5. QED BY <3>1, <3>2, <3>3, <3>4 DEF Store
  <2>4. ASSUME NEW q \in Requests, Local(q, clock, row, hist)
        PROVE  Local(q, clock', row', hist')
    <3>1. /\ q.deadline <= clock + CacheTTL /\ q.begun <= clock /\ q.begun \in Int
          /\ clock \in Int
      BY <1>1, <2>4, Now DEF Local, Timely, Requests, Never
    <3>2. Bounded(q, row', hist')
      BY <2>1, <2>2, <2>4, <3>1 DEF Local, Bounded
    <3>3. Entitling(q, row', hist')
      BY <2>1, <2>2, <2>4, <3>1, SessionBounds DEF Local, Entitling
    <3>4. QED BY <1>1, <2>4, <3>2, <3>3 DEF Local
  <2>5. PICK v \in 0..MaxVersion : /\ v = IF r.op = "bulk" THEN row.version ELSE r.snap
                                   /\ v <= row.version
    BY <1>1, Now, SessionBounds DEF Local, Bounded, Requests
  <2>6. s = [r EXCEPT !.pc = "tomb", !.snap = v]
    BY <1>1, <2>5 DEF Requests
  <2>7. /\ s \in Requests /\ s.op = r.op /\ s.pc = "tomb" /\ s.deadline = r.deadline
        /\ s.snap = v /\ s.now = r.now /\ s.begun = r.begun
    BY <1>1, <2>6 DEF Requests
  <2> HIDE DEF s
  <2>8. Local(s, clock', row', hist')
    BY <1>1, <2>1, <2>5, <2>7
       DEF Local, Shape, Timely, Bounded, Observing, Entitling, Reading, Late
  <2>9. \A q \in Procs \ {p} : Local(req[q], clock', row', hist')
    BY <2>4 DEF SessionInv
  <2>10. QED BY <1>3, <2>3, <2>7, <2>8, <2>9, Assemble
<1>4. QED BY <1>2, <1>3 DEF RevokeCommit

LEMMA TombstoneKeeps ==
  ASSUME SessionInv, NEW p \in Procs, Tombstone(p)
  PROVE  SessionInv'
<1>1. /\ Store /\ req[p] \in Requests /\ Local(req[p], clock, row, hist) /\ req[p].pc = "tomb"
      /\ UNCHANGED <<clock, row>> /\ Done(p)
  BY DEF SessionInv, Tombstone
<1>2. req[p].snap \in 0..MaxVersion /\ req[p].snap <= row.version /\ row.status = "revoked"
  BY <1>1 DEF Requests, Local, Bounded
<1>3. CASE UNCHANGED <<cache, hist>>
  BY <1>1, <1>3, StoreStays, Ends
<1>4. CASE /\ DenyAccepted(req[p].snap) /\ cache' = DenyEntry("revoked", req[p].snap)
           /\ hist' = [hist EXCEPT !.tombed = TRUE]
  <2>1. Store'
    BY <1>1, <1>2, <1>4, DenyWriteKeeps
  <2>2. /\ hist'.revokedAt = hist.revokedAt /\ hist'.advancedAt = hist.advancedAt
        /\ hist'.tombed = TRUE
    BY <1>1, <1>4 DEF Store, StoreTypes
  <2>3. ASSUME NEW q, Local(q, clock, row, hist)
        PROVE  Local(q, clock', row', hist')
    BY <1>1, <2>2, <2>3 DEF Local, Bounded, Entitling
  <2>4. Local(Idle, clock', row', hist')
    BY <1>1, <2>3, IdleOK
  <2>5. \A q \in Procs \ {p} : Local(req[q], clock', row', hist')
    BY <2>3 DEF SessionInv
  <2>6. QED BY <1>1, <2>1, <2>4, <2>5, IdleOK, Assemble DEF Done
<1>5. QED BY <1>3, <1>4 DEF Tombstone

LEMMA RevokeKeeps ==
  ASSUME SessionInv, NEW p \in Procs, Revoke(p)
  PROVE  SessionInv'
BY RevokeBeginKeeps, FenceKeeps, RevokeCommitKeeps, TombstoneKeeps DEF Revoke, HashBegin

--------------------------------------------------------------------------------
(* Rotation.                                                               *)

LEMMA RotateDeadlineKeeps ==
  ASSUME SessionInv, NEW p \in Procs, RotateDeadline(p)
  PROVE  SessionInv'
<1> DEFINE r == req[p]
           s == [r EXCEPT !.pc = "read", !.deadline = clock + CacheTTL]
<1>1. /\ Store /\ r \in Requests /\ Local(r, clock, row, hist) /\ r.pc = "attempt"
      /\ UNCHANGED <<clock, row, cache, hist>> /\ Step(p, s)
  BY DEF SessionInv, RotateDeadline
<1>2. PICK e \in 0..(MaxTime + CacheTTL) : e = clock + CacheTTL
  BY <1>1, Now, SessionBounds
<1>3. s = [r EXCEPT !.pc = "read", !.deadline = e]
  BY <1>2
<1>4. /\ s \in Requests /\ s.op = r.op /\ s.pc = "read" /\ s.deadline = clock + CacheTTL
      /\ s.snap = r.snap /\ s.now = r.now /\ s.begun = r.begun /\ s.tok = r.tok
  BY <1>1, <1>2, <1>3 DEF Requests
<1> HIDE DEF s
<1>5. Local(s, clock, row, hist)
  BY <1>1, <1>4, Now, SessionBounds
     DEF Local, Shape, Timely, Bounded, Observing, Entitling, Reading, Late
<1>6. QED BY <1>1, <1>4, <1>5, StoreStays, QuietMove

(* The previous token is reuse only past the window the swap stamped.      *)
LEMMA RotateReadKeeps ==
  ASSUME SessionInv, NEW p \in Procs, RotateRead(p)
  PROVE  SessionInv'
<1> DEFINE r == req[p]
           swap == [r EXCEPT !.pc = "swap", !.snap = row.version]
           reuse == [r EXCEPT !.op = "reuse", !.pc = "fence", !.snap = row.version, !.try = 0,
                              !.deadline = 0, !.begun = hist.rotatedAt]
<1>1. /\ Store /\ r \in Requests /\ Local(r, clock, row, hist) /\ r.pc = "read"
      /\ UNCHANGED <<clock, row, cache, hist>>
  BY DEF SessionInv, RotateRead
<1>2. r.op = "rotate" /\ r.tok >= 1 /\ clock <= r.now + CASLag /\ r.now <= clock
  BY <1>1 DEF Local, Shape, Timely
<1>3. PICK v \in 0..MaxVersion : v = row.version
  BY <1>1, Now, SessionBounds
<1>4. PICK e \in 0..(MaxTime + CacheTTL) : e = 0
  BY SessionBounds
<1>5. PICK t \in (0..MaxTime) \cup {Never} : t = hist.rotatedAt
  BY <1>1 DEF Store, StoreTypes
<1>6. CASE Done(p)
  BY <1>1, <1>6, StoreStays, Ends
<1>7. CASE Usable(r.now) /\ r.tok = row.token /\ row.token < MaxToken /\ Step(p, swap)
  <2>1. swap = [r EXCEPT !.pc = "swap", !.snap = v]
    BY <1>3
  <2>2. /\ swap \in Requests /\ swap.op = "rotate" /\ swap.pc = "swap" /\ swap.snap = row.version
        /\ swap.deadline = r.deadline /\ swap.now = r.now /\ swap.begun = r.begun
        /\ swap.tok = r.tok
    BY <1>1, <1>2, <1>3, <2>1 DEF Requests
  <2> HIDE DEF swap
  <2>3. row.status = "active" /\ r.tok < MaxToken
    BY <1>7 DEF Usable
  <2>4. Local(swap, clock, row, hist)
    BY <1>1, <1>2, <2>2, <2>3, Now, SessionBounds
       DEF Local, Shape, Timely, Bounded, Observing, Entitling, Reading, Late
  <2>5. QED BY <1>1, <1>7, <2>2, <2>4, StoreStays, QuietMove
<1>8. CASE Usable(r.now) /\ r.tok = row.prev /\ r.now > row.prevUntil /\ Step(p, reuse)
  <2> DEFINE x == [r EXCEPT !.op = "reuse", !.pc = "fence", !.snap = v]
             w == [x EXCEPT !.try = 0]
             y == [w EXCEPT !.deadline = e]
  <2>1. /\ x \in Requests /\ x.op = "reuse" /\ x.pc = "fence" /\ x.snap = v
        /\ x.deadline = r.deadline /\ x.now = r.now
    BY <1>1 DEF Requests
  <2>2. /\ reuse \in Requests /\ reuse.op = "reuse" /\ reuse.pc = "fence"
        /\ reuse.snap = row.version /\ reuse.deadline = 0 /\ reuse.now = r.now
        /\ reuse.begun = hist.rotatedAt
    <3>1. reuse = [y EXCEPT !.begun = t]
      BY <1>3, <1>4, <1>5
    <3> HIDE DEF x, reuse
    <3>2. /\ w \in Requests /\ w.op = "reuse" /\ w.pc = "fence" /\ w.snap = v /\ w.now = r.now
      BY <2>1 DEF Requests
    <3> HIDE DEF w
    <3>3. /\ y \in Requests /\ y.op = "reuse" /\ y.pc = "fence" /\ y.snap = v
          /\ y.deadline = 0 /\ y.now = r.now
      BY <1>4, <3>2 DEF Requests
    <3> HIDE DEF y
    <3>4. [y EXCEPT !.begun = t] \in Requests
      BY <1>5, <3>3 DEF Requests, Never
    <3>5. QED BY <1>3, <1>5, <3>1, <3>3, <3>4 DEF Requests
  <2> HIDE DEF reuse
  <2>3. r.now \in Int /\ hist.rotatedAt \in Int /\ row.prevUntil \in Int
    BY <1>1, Now DEF Requests, Store, StoreTypes
  <2>4. hist.rotatedAt + Grace <= row.prevUntil + CASLag /\ hist.rotatedAt <= clock
    BY <1>1, <1>2, <1>8 DEF Store, Stamps
  <2>5. Late(reuse)
    BY <1>8, <2>2, <2>3, <2>4, SessionBounds DEF Late
  <2>6. Local(reuse, clock, row, hist)
    BY <1>1, <1>2, <2>2, <2>4, <2>5, Now, SessionBounds
       DEF Local, Shape, Timely, Bounded, Observing, Entitling, Reading
  <2>7. QED BY <1>1, <1>8, <2>2, <2>6, StoreStays, QuietMove
<1>9. QED BY <1>6, <1>7, <1>8 DEF RotateRead

(* The swap stamps a window that began at most CASLag before it.           *)
LEMMA RotateSwapKeeps ==
  ASSUME SessionInv, NEW p \in Procs, RotateSwap(p)
  PROVE  SessionInv'
<1> DEFINE r == req[p]
           fill == [r EXCEPT !.pc = "fill"]
           again == [r EXCEPT !.pc = "attempt", !.try = @ + 1]
<1>1. /\ Store /\ r \in Requests /\ Local(r, clock, row, hist) /\ r.pc = "swap"
      /\ UNCHANGED <<clock, cache>>
  BY DEF SessionInv, RotateSwap
<1>2. /\ r.op = "rotate" /\ r.tok >= 1 /\ r.tok < MaxToken /\ r.snap >= 1
      /\ clock <= r.now + CASLag /\ r.now <= clock /\ r.now \in 0..MaxTime /\ r.tok \in 0..MaxToken
  BY <1>1 DEF Local, Shape, Timely, Requests
<1>3. CASE Done(p) /\ UNCHANGED <<row, hist>>
  BY <1>1, <1>3, StoreStays, Ends
<1>4. CASE r.try < 2 /\ Step(p, again) /\ UNCHANGED <<row, hist>>
  <2>1. PICK n \in 0..2 : n = r.try + 1
    BY <1>1, <1>4 DEF Requests
  <2>2. again = [r EXCEPT !.pc = "attempt", !.try = n]
    BY <1>1, <2>1 DEF Requests
  <2>3. /\ again \in Requests /\ again.op = "rotate" /\ again.pc = "attempt" /\ again.snap = r.snap
        /\ again.deadline = r.deadline /\ again.now = r.now /\ again.begun = r.begun
        /\ again.tok = r.tok
    BY <1>1, <1>2, <2>2 DEF Requests
  <2> HIDE DEF again
  <2>4. Local(again, clock, row, hist)
    BY <1>1, <1>2, <2>3
       DEF Local, Shape, Timely, Bounded, Observing, Entitling, Reading, Late
  <2>5. QED BY <1>1, <1>4, <2>3, <2>4, StoreStays, QuietMove
<1>5. CASE /\ Usable(r.now) /\ row.token = r.tok
           /\ row' = [row EXCEPT !.token = r.tok + 1, !.prev = r.tok, !.prevUntil = r.now + Grace]
           /\ hist' = [hist EXCEPT !.rotatedAt = clock]
           /\ Step(p, fill)
  <2>1. /\ r.tok + 1 \in 1..MaxToken /\ r.now + Grace \in 0..(MaxTime + Grace)
    BY <1>2, SessionBounds
  <2>2. /\ row'.status = row.status /\ row'.version = row.version /\ row'.prevUntil = r.now + Grace
        /\ row' \in [status : {"active", "revoked"}, version : 1..MaxVersion,
                     token : 1..MaxToken, prev : 0..MaxToken,
                     prevUntil : 0..(MaxTime + Grace)]
    BY <1>1, <1>2, <1>5, <2>1 DEF Store, StoreTypes
  <2>3. /\ hist' \in [revokedAt : (0..MaxTime) \cup {Never}, tombed : BOOLEAN,
                      rotatedAt : (0..MaxTime) \cup {Never},
                      advancedAt : (0..MaxTime) \cup {Never}]
        /\ hist'.revokedAt = hist.revokedAt /\ hist'.rotatedAt = clock
        /\ hist'.advancedAt = hist.advancedAt /\ hist'.tombed = hist.tombed
    BY <1>1, <1>5 DEF Store, StoreTypes
  <2>4. Store'
    <3>1. StoreTypes'
      BY <1>1, <2>2, <2>3 DEF Store, StoreTypes
    <3>2. Stamps'
      BY <1>1, <1>2, <2>2, <2>3, Now, SessionBounds DEF Store, Stamps
    <3>3. EntryBounded'
      BY <1>1, <2>2, <2>3 DEF Store, EntryBounded
    <3>4. Sealed'
      BY <1>1, <2>2, <2>3 DEF Store, Sealed, LastActive, Denying
    <3>5. QED BY <3>1, <3>2, <3>3, <3>4 DEF Store
  <2>5. ASSUME NEW q, Local(q, clock, row, hist)
        PROVE  Local(q, clock', row', hist')
    BY <1>1, <2>2, <2>3, <2>5 DEF Local, Bounded, Entitling
  <2>6. /\ fill \in Requests /\ fill.op = "rotate" /\ fill.pc = "fill" /\ fill.snap = r.snap
        /\ fill.deadline = r.deadline /\ fill.now = r.now /\ fill.begun = r.begun
    BY <1>1, <1>2 DEF Requests
  <2> HIDE DEF fill
  <2>7. Local(fill, clock, row, hist)
    BY <1>1, <1>2, <2>6
       DEF Local, Shape, Timely, Bounded, Observing, Entitling, Reading, Late
  <2>8. \A q \in Procs \ {p} : Local(req[q], clock', row', hist')
    BY <2>5 DEF SessionInv
  <2>9. QED BY <1>5, <2>4, <2>5, <2>6, <2>7, <2>8, Assemble
<1>6. QED BY <1>3, <1>4, <1>5 DEF RotateSwap

LEMMA RotateKeeps ==
  ASSUME SessionInv, NEW p \in Procs, Rotate(p)
  PROVE  SessionInv'
BY RotateBeginKeeps, RotateDeadlineKeeps, RotateReadKeeps, RotateSwapKeeps DEF Rotate

--------------------------------------------------------------------------------
(* The advance of the session version.                                     *)

(* The version moves: whoever holds the old one read it by now, and nobody *)
(* holds the new one but the request that made it.                         *)
LEMMA AdvanceCommitKeeps ==
  ASSUME SessionInv, NEW p \in Procs, AdvanceCommit(p)
  PROVE  SessionInv'
<1> DEFINE r == req[p]
           fill == [r EXCEPT !.pc = "fill", !.snap = @ + 1]
<1>1. /\ Store /\ r \in Requests /\ Local(r, clock, row, hist) /\ r.pc = "bump"
      /\ UNCHANGED <<clock, cache>>
  BY DEF SessionInv, AdvanceCommit
<1>2. CASE Done(p) /\ UNCHANGED <<row, hist>>
  BY <1>1, <1>2, StoreStays, Ends
<1>3. CASE /\ Usable(r.now) /\ row.version = r.snap
           /\ row' = [row EXCEPT !.version = @ + 1]
           /\ hist' = [hist EXCEPT !.advancedAt = clock]
           /\ Step(p, fill)
  <2>1. /\ r.op = "advance" /\ r.snap < MaxVersion /\ r.snap \in Int /\ r.deadline \in Int
        /\ row.status = "active"
        /\ row.version + 1 \in 1..MaxVersion /\ r.snap + 1 \in 0..MaxVersion
    BY <1>1, <1>3, Now, SessionBounds DEF Local, Shape, Bounded, Observing, Requests, Usable
  <2>2. /\ row'.status = row.status /\ row'.version = row.version + 1
        /\ row'.prev = row.prev /\ row'.prevUntil = row.prevUntil
        /\ row' \in [status : {"active", "revoked"}, version : 1..MaxVersion,
                     token : 1..MaxToken, prev : 0..MaxToken,
                     prevUntil : 0..(MaxTime + Grace)]
    BY <1>1, <1>3, <2>1 DEF Store, StoreTypes
  <2>3. /\ hist' \in [revokedAt : (0..MaxTime) \cup {Never}, tombed : BOOLEAN,
                      rotatedAt : (0..MaxTime) \cup {Never},
                      advancedAt : (0..MaxTime) \cup {Never}]
        /\ hist'.revokedAt = hist.revokedAt /\ hist'.rotatedAt = hist.rotatedAt
        /\ hist'.advancedAt = clock /\ hist'.tombed = hist.tombed
    BY <1>1, <1>3 DEF Store, StoreTypes
  <2>4. Store'
    <3>1. StoreTypes'
      BY <1>1, <2>2, <2>3 DEF Store, StoreTypes
    <3>2. Stamps'
      <4>1. cache.version \in Int /\ cache.version <= row.version
        BY <1>1 DEF Store, StoreTypes, Stamps
      <4>2. QED BY <1>1, <2>2, <2>3, <4>1, Now, SessionBounds DEF Store, Stamps
    <3>3. EntryBounded'
      BY <1>1, <2>2, <2>3 DEF Store, EntryBounded
    <3>4. Sealed'
      BY <1>1, <2>2, <2>3 DEF Store, Sealed, LastActive, Denying
    <3>5. QED BY <3>1, <3>2, <3>3, <3>4 DEF Store
  <2>5. ASSUME NEW q \in Requests, Local(q, clock, row, hist)
        PROVE  Local(q, clock', row', hist')
    <3>1. /\ q.deadline <= clock + CacheTTL /\ q.begun <= clock /\ q.begun \in Int
          /\ clock \in Int /\ q.snap \in Int /\ q.snap <= row.version /\ row.version \in Int
      BY <1>1, <2>5, Now DEF Local, Timely, Bounded, Requests, Never
    <3>2. Bounded(q, row', hist')
      BY <2>2, <2>3, <2>5, <3>1 DEF Local, Bounded
    <3>3. Entitling(q, row', hist')
      BY <2>2, <2>3, <2>5, <3>1, SessionBounds DEF Local, Entitling
    <3>4. QED BY <1>1, <2>5, <3>2, <3>3 DEF Local
  <2>6. PICK v \in 0..MaxVersion : v = r.snap + 1
    BY <2>1
  <2>7. fill = [r EXCEPT !.pc = "fill", !.snap = v]
    BY <1>1, <2>6 DEF Requests
  <2>8. /\ fill \in Requests /\ fill.op = "advance" /\ fill.pc = "fill" /\ fill.snap = r.snap + 1
        /\ fill.deadline = r.deadline /\ fill.now = r.now /\ fill.begun = r.begun
    BY <1>1, <2>1, <2>6, <2>7 DEF Requests
  <2> HIDE DEF fill
  <2>9. Local(fill, clock', row', hist')
    <3>1. r.snap >= 1
      BY <1>1, <1>3, Now
    <3>2. Shape(fill) /\ Timely(fill, clock) /\ Late(fill) /\ Entitling(fill, row', hist')
      BY <1>1, <2>1, <2>8, <3>1 DEF Local, Shape, Timely, Late, Entitling, Reading
    <3>3. Bounded(fill, row', hist')
      BY <1>1, <1>3, <2>1, <2>2, <2>3, <2>8, Now DEF Bounded
    <3>4. QED BY <1>1, <3>2, <3>3 DEF Local
  <2>10. \A q \in Procs \ {p} : Local(req[q], clock', row', hist')
    BY <2>5 DEF SessionInv
  <2>11. QED BY <1>3, <2>4, <2>8, <2>9, <2>10, Assemble
<1>4. QED BY <1>2, <1>3 DEF AdvanceCommit

LEMMA AdvanceKeeps ==
  ASSUME SessionInv, NEW p \in Procs, Advance(p)
  PROVE  SessionInv'
BY AdvanceBeginKeeps, AdvanceCommitKeeps DEF Advance

--------------------------------------------------------------------------------
(* Time passes: Redis drops the entry whose life ends, and by then every   *)
(* bound that the entry stood for has passed too.                          *)
LEMMA TickKeeps ==
  ASSUME SessionInv, Tick
  PROVE  SessionInv'
<1>1. Store /\ clock' = clock + 1 /\ clock < MaxTime /\ UNCHANGED <<row, req, hist>>
  BY DEF SessionInv, Tick
<1>2. clock \in 0..MaxTime /\ clock' \in 0..MaxTime /\ clock \in Int
  BY <1>1, Now, SessionBounds
<1>3. /\ cache.version \in 0..MaxVersion /\ cache.until \in Int /\ row.version \in 1..MaxVersion
      /\ cache.version <= row.version /\ LastActive \in Int
  BY <1>1, Now, SessionBounds DEF Store, StoreTypes, Stamps, LastActive, Min2
<1>4. \/ cache' = cache /\ (cache.status # "none" => cache.until > clock')
      \/ cache' = NoEntry /\ cache.status # "none" /\ cache.until <= clock'
  BY <1>1, <1>2, <1>3 DEF Tick
<1>5. /\ NoEntry.status = "none" /\ NoEntry.version = 0
      /\ NoEntry \in [status : {"none", "active", "revoking", "revoked"},
                      version : 0..MaxVersion, until : 0..(MaxTime + CacheTTL + 1)]
  BY SessionBounds DEF NoEntry
<1>6. Store'
  <2>1. StoreTypes'
    BY <1>1, <1>2, <1>4, <1>5 DEF Store, StoreTypes
  <2>2. Stamps'
    BY <1>1, <1>2, <1>3, <1>4, <1>5, Now, SessionBounds DEF Store, Stamps
  <2>3. EntryBounded'
    BY <1>1, <1>2, <1>3, <1>4, <1>5, Now, SessionBounds DEF Store, EntryBounded
  <2>4. Sealed'
    <3> SUFFICES ASSUME hist.tombed
                 PROVE  /\ row.status = "revoked" /\ cache'.status # "active"
                        /\ \/ clock' >= LastActive
                           \/ Denying' /\ cache'.until >= LastActive
      BY <1>1 DEF Sealed, LastActive
    <3>1. /\ row.status = "revoked" /\ cache.status # "active"
          /\ clock >= LastActive \/ (Denying /\ cache.until >= LastActive)
      BY <1>1 DEF Store, Sealed
    <3>2. QED BY <1>1, <1>2, <1>3, <1>4, <1>5, <3>1 DEF Denying
  <2>5. QED BY <2>1, <2>2, <2>3, <2>4 DEF Store
<1>7. ASSUME NEW p \in Procs
      PROVE  Local(req[p], clock', row', hist')
  <2>1. /\ Local(req[p], clock, row, hist) /\ req[p].deadline \in Int /\ req[p].now \in Int
        /\ req[p].begun \in Int
    BY DEF SessionInv, Requests, Never
  <2>2. req[p].pc \in {"attempt", "read", "swap"} => clock < req[p].now + CASLag
    BY DEF Tick
  <2>3. Timely(req[p], clock')
    BY <1>1, <1>2, <2>1, <2>2, SessionBounds DEF Local, Timely
  <2>4. QED BY <1>1, <2>1, <2>3 DEF Local
<1>8. (\A p \in Procs : Local(req[p], clock, row, hist))'
  BY <1>1, <1>7
<1>9. QED BY <1>1, <1>6, <1>8 DEF SessionInv

--------------------------------------------------------------------------------
LEMMA SessionInit == Init => SessionInv
<1> SUFFICES ASSUME Init PROVE SessionInv
  OBVIOUS
<1>1. /\ clock = 0 /\ row.status = "active" /\ row.version = 1 /\ row.prev = 0
      /\ hist.revokedAt = Never /\ hist.tombed = FALSE /\ hist.rotatedAt = Never
      /\ hist.advancedAt = Never
  BY DEF Init
<1>2. /\ cache.status \in {"none", "active"} /\ cache.version \in {0, 1} /\ cache.until \in Int
      /\ cache.status = "active" => /\ cache.version = 1 /\ cache.until > 0
                                    /\ cache.until <= CacheTTL
      /\ cache \in [status : {"none", "active", "revoking", "revoked"},
                    version : 0..MaxVersion, until : 0..(MaxTime + CacheTTL + 1)]
  <2>1. /\ Min2(CacheTTL, ExpiresAt) \in 0..(MaxTime + CacheTTL + 1)
        /\ Min2(CacheTTL, ExpiresAt) > 0 /\ Min2(CacheTTL, ExpiresAt) <= CacheTTL
    BY SessionBounds DEF Min2
  <2>2. cache = NoEntry \/ cache = [status |-> "active", version |-> 1,
                                    until |-> Min2(CacheTTL, ExpiresAt)]
    BY DEF Init, ActiveEntry
  <2>3. QED BY <2>1, <2>2, SessionBounds DEF NoEntry
<1>3. StoreTypes
  BY <1>1, <1>2, SessionBounds DEF Init, StoreTypes, Never
<1>4. Stamps /\ EntryBounded /\ Sealed
  BY <1>1, <1>2, SessionBounds DEF Stamps, EntryBounded, Sealed, Never
<1>5. Store
  BY <1>3, <1>4 DEF Store
<1>6. \A p \in Procs : req[p] = Idle
  BY DEF Init
<1>7. req \in [Procs -> Requests]
  BY IdleOK DEF Init
<1>8. QED BY <1>5, <1>6, <1>7, IdleOK DEF SessionInv

LEMMA SessionNext == SessionInv /\ [Next]_vars => SessionInv'
<1> SUFFICES ASSUME SessionInv, [Next]_vars PROVE SessionInv'
  OBVIOUS
<1>1. CASE UNCHANGED vars
  <2>1. UNCHANGED <<clock, row, cache, req, hist>>
    BY <1>1 DEF vars
  <2>2. Store'
    BY <2>1, StoreStays DEF SessionInv
  <2>3. QED BY <2>1, <2>2 DEF SessionInv, Local, Shape, Timely, Bounded, Entitling, Late,
                              Observing, Reading
<1>2. CASE Tick
  BY <1>2, TickKeeps
<1>3. CASE \E p \in Procs : Get(p) \/ Revoke(p) \/ Rotate(p) \/ Advance(p) \/ Write(p)
  BY <1>3, GetKeeps, RevokeKeeps, RotateKeeps, AdvanceKeeps, WriteKeeps
<1>4. QED BY <1>1, <1>2, <1>3 DEF Next

(* The inductive invariant holds in every reachable state.                 *)
THEOREM SessionInvariant == Spec => []SessionInv
BY SessionInit, SessionNext, PTL DEF Spec

(* Type correctness of the store; no entry is in Redis with a spent life.  *)
THEOREM TypeCorrect == Spec => []TypeOK
<1>1. SessionInv => TypeOK
  BY DEF SessionInv, Store, StoreTypes, TypeOK
<1>2. QED BY <1>1, SessionInvariant, PTL

(* A request that begins after a tombstone was published is never served:  *)
(* the tombstone outlives every active observation in flight, however long *)
(* its database read or its Redis script is delayed.                       *)
THEOREM PublishedHolds == Spec => []PublishedStateHolds
<1>1. SessionInv => PublishedStateHolds
  <2> SUFFICES ASSUME SessionInv, NEW p \in Procs, req[p].pc = "served"
               PROVE  ~req[p].sealed
    BY DEF PublishedStateHolds
  <2>1. Local(req[p], clock, row, hist)
    BY DEF SessionInv
  <2>2. QED BY <2>1 DEF Local, Shape, Entitling, Reading
<1>2. QED BY <1>1, SessionInvariant, PTL

(* No request that begins CacheTTL or more after a revocation or an        *)
(* advance committed sees the session as it was before, whatever Redis     *)
(* calls and tombstones failed.                                            *)
THEOREM StalenessBounded == Spec => []BoundedStaleness
<1>1. SessionInv => BoundedStaleness
  <2> SUFFICES ASSUME SessionInv, NEW p \in Procs, req[p].pc = "served"
               PROVE  /\ hist.revokedAt # Never => req[p].begun < hist.revokedAt + CacheTTL
                      /\ req[p].snap < row.version => req[p].begun < hist.advancedAt + CacheTTL
    BY DEF BoundedStaleness
  <2>1. Local(req[p], clock, row, hist)
    BY DEF SessionInv
  <2>2. QED BY <2>1 DEF Local, Shape, Entitling, Reading
<1>2. QED BY <1>1, SessionInvariant, PTL

(* A refresh token is treated as reused only after the grace window of the *)
(* swap that replaced it, up to CASLag.                                    *)
THEOREM GraceKept == Spec => []GraceHonoured
<1>1. SessionInv => GraceHonoured
  BY DEF SessionInv, GraceHonoured, Local, Late
<1>2. QED BY <1>1, SessionInvariant, PTL
================================================================================
