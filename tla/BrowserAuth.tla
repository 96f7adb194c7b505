----------------------------- MODULE BrowserAuth ------------------------------
(***************************************************************************)
(* The login session as the tabs of one browser see it: the auth store of  *)
(* each tab, its single-flight refresh (web/src/lib/auth-session.ts), the  *)
(* retry of rejected API requests (http-client.ts), sign-in and sign-out,  *)
(* the events tabs broadcast to each other (auth-session-sync.ts), and the *)
(* refresh cookie they share.  The server is the refresh and logout        *)
(* handlers of controller/auth_session.go, one atomic step per request;    *)
(* what happens inside such a step is module UserSession.                  *)
(*                                                                         *)
(* Abstractions.  A refresh token is known by its distance from the        *)
(* newest one of its session, so every copy of it ages when the session    *)
(* rotates.  An epoch counter is replaced by what it decides: a refresh    *)
(* generation is live until authEpoch moves in its tab.                    *)
(***************************************************************************)
EXTENDS Integers, Sequences, SequencesExt

CONSTANTS
    Tabs,
    RaceDelays, \* length of refreshRaceDelays
    MaxSid,     \* bound: number of logins
    MaxQueue,   \* bound: undelivered session events per tab
    MaxEvents,  \* bound: sign-ins, sign-outs, revocations, reloads, failures
    MaxUnlocked \* the same bound for a browser without navigator.locks

ASSUME BrowserBounds ==
    /\ RaceDelays \in Nat /\ MaxSid \in Nat \ {0} /\ MaxQueue \in Nat \ {0}
    /\ MaxEvents \in Nat /\ MaxUnlocked \in Nat

VARIABLES
    locks,    \* whether this browser has navigator.locks
    lock,     \* 'new-api:auth-refresh': its holder, then the tabs that wait
    cookie,   \* the refresh cookie of the jar
    sess,     \* server: the session rows
    tab,      \* per tab: auth store and requests that await something
    gen,      \* per tab: the refresh behind refreshPromise
    stray,    \* refresh requests whose tab gave up, not yet served
    chan,     \* per tab: session events not yet delivered
    left,     \* events left
    dropped   \* history: per tab, dead sessions it has stopped showing

vars == <<locks, lock, cookie, sess, tab, gen, stray, chan, left, dropped>>

Sids == 1..MaxSid
Current == 0
Previous == 1
Older == 2
Cookies == [sid : 0..MaxSid, age : {Current, Previous, Older}]
NoCookie == [sid |-> 0, age |-> Current]
NoRefresh == [phase |-> "none", live |-> FALSE, attempt |-> 0, retry |-> FALSE,
              exp |-> 0, ck |-> NoCookie, res |-> "none"]
NewTab == [sid |-> 0, boot |-> "idle", fresh |-> FALSE, api |-> "none",
           out |-> "none", login |-> 0]

(***************************************************************************)
(* The store, its epoch and the events it publishes.                       *)
(***************************************************************************)
Published(t, kind, s) ==
    [u \in Tabs |-> IF u # t /\ s # 0
                    THEN Append(chan[u], [kind |-> kind, sid |-> s])
                    ELSE chan[u]]

\* Bound: a tab publishes when the others have room.
Room(t) == \A u \in Tabs \ {t} : Len(chan[u]) < MaxQueue

\* auth-store setBundle and reset.
SetBundle(r, s) == [r EXCEPT !.sid = s, !.boot = "complete", !.fresh = TRUE]
Reset(r, boot) == [r EXCEPT !.sid = 0, !.boot = boot, !.fresh = FALSE]

\* Mutant: clearAuthentication does not move authEpoch.
BumpEpochMissed(g) == g

\* authEpoch += 1: a refresh generation that is running is superseded.
BumpEpoch(g) == IF g.phase = "none" THEN g
                ELSE [g EXCEPT !.live = FALSE, !.attempt = 0, !.retry = FALSE]

Dead(s) == s # 0 /\ sess[s] = "revoked"

\* History: tab t stops showing the session it shows.
NoteDrop(t) ==
    dropped' = [dropped EXCEPT ![t] =
                  IF Dead(tab[t].sid) /\ tab'[t].sid # tab[t].sid
                  THEN @ \cup {tab[t].sid} ELSE @]

(***************************************************************************)
(* Refresh: refreshAuthentication starts a generation or joins it.         *)
(***************************************************************************)
Join(g) ==
    IF g.phase # "none" THEN g
    ELSE [NoRefresh EXCEPT !.phase = "lock", !.live = TRUE, !.retry = TRUE]

Refresh(t) ==
    /\ gen' = [gen EXCEPT ![t] = Join(@)]
    /\ lock' = IF locks /\ gen[t].phase = "none" THEN Append(lock, t) ELSE lock

\* What awaits refreshPromise in the tab, an API request and a sign-out,
\* when it settles with an outcome.  An API request that is refused for good
\* replaces the document by the sign-in page.
Leaves(r, outcome) ==
    r.api = "await" /\ outcome \in {"anonymous", "out_of_sync"}

Continue(r, outcome) ==
    IF Leaves(r, outcome) THEN NewTab
    ELSE [r EXCEPT
            !.api = IF @ # "await" THEN @
                    ELSE IF outcome = "authenticated" THEN "retry" ELSE "none",
            !.out = IF @ # "await" THEN @
                    ELSE IF outcome = "authenticated" THEN "again"
                    ELSE IF outcome = "anonymous" THEN "ok" ELSE "none"]

Free(t) == RemoveFirst(lock, t)

\* The events a document has not received are gone with it.
Settle(t, r, outcome, events) ==
    /\ tab' = [tab EXCEPT ![t] = Continue(r, outcome)]
    /\ gen' = [gen EXCEPT ![t] = NoRefresh]
    /\ lock' = Free(t)
    /\ chan' = IF Leaves(r, outcome) THEN [events EXCEPT ![t] = <<>>] ELSE events

\* Mutant: X-Auth-Session is not sent.
PostedBlind(g, shown) ==
    [g EXCEPT !.phase = "sent", !.ck = cookie, !.exp = 0, !.res = "none"]

\* The runner posts with the cookie of the jar and the session the store
\* shows.
Posted(g, shown) ==
    [g EXCEPT !.phase = "sent", !.ck = cookie, !.exp = shown, !.res = "none"]

\* Mutant: the lock is taken in shared mode.
LockGrantShared(t) ==
    /\ gen[t].phase = "lock" /\ gen[t].live
    /\ gen' = [gen EXCEPT ![t] = Posted(@, tab[t].sid)]
    /\ UNCHANGED <<locks, lock, cookie, sess, tab, stray, chan, left, dropped>>

\* Mutant: tabs that wait for the lock together keep each other waiting.
LockGrantAlone(t) ==
    /\ gen[t].phase = "lock"
    /\ locks => lock = <<t>>
    /\ IF gen[t].live
       THEN /\ gen' = [gen EXCEPT ![t] = Posted(@, tab[t].sid)]
            /\ UNCHANGED <<tab, lock, chan>>
       ELSE Settle(t, tab[t], "transient", chan)
    /\ UNCHANGED <<locks, cookie, sess, stray, left, dropped>>

\* performRefreshWithBrowserLock: the runner starts when the lock is granted.
LockGrant(t) ==
    /\ gen[t].phase = "lock"
    /\ locks => Head(lock) = t
    /\ IF gen[t].live
       THEN /\ gen' = [gen EXCEPT ![t] = Posted(@, tab[t].sid)]
            /\ UNCHANGED <<tab, lock, chan>>
       ELSE Settle(t, tab[t], "transient", chan)
    /\ UNCHANGED <<locks, cookie, sess, stray, left, dropped>>

\* waitForRefreshRace is over.
WaitOver(t) ==
    /\ gen[t].phase = "wait"
    /\ IF gen[t].live
       THEN /\ gen' = [gen EXCEPT ![t] = Posted(@, tab[t].sid)]
            /\ UNCHANGED <<tab, lock, chan>>
       ELSE Settle(t, tab[t], "transient", chan)
    /\ UNCHANGED <<locks, cookie, sess, stray, left, dropped>>

(***************************************************************************)
(* Server: RefreshAuth and RefreshLoginSession.                            *)
(***************************************************************************)
RefreshResult(c, exp) ==
    IF c.sid = 0 THEN {"denied"}
    ELSE IF exp # 0 /\ exp # c.sid THEN {"mismatch"}
    ELSE IF sess[c.sid] # "active" \/ c.age = Older THEN {"denied"}
    ELSE IF c.age = Current THEN {"rotated"}
    ELSE {"replayed", "race", "reused"}

ServedSess(c, res) ==
    IF res = "reused" THEN [sess EXCEPT ![c.sid] = "revoked"] ELSE sess

\* The cookie the answer sets: the successor, or none.
AnswerCookie(c, res) ==
    IF res \in {"rotated", "replayed"} THEN [c EXCEPT !.age = Current]
    ELSE NoCookie

Aged(c, s) == IF c.sid = s /\ c.age < Older THEN [c EXCEPT !.age = @ + 1] ELSE c

\* A rotation of session s makes every copy of its tokens one older.
Rotated(s, res, g) ==
    IF res = "rotated" THEN [g EXCEPT !.ck = Aged(@, s)] ELSE g

AgeCookies(s, res) ==
    /\ cookie' = IF res = "rotated" THEN Aged(cookie, s) ELSE cookie
    /\ stray' = IF res = "rotated"
                THEN [i \in DOMAIN stray |->
                        [stray[i] EXCEPT !.ck = Aged(@, s)]]
                ELSE stray

ServeRefresh(t) ==
    /\ gen[t].phase = "sent"
    /\ \E res \in RefreshResult(gen[t].ck, gen[t].exp) :
         LET c == gen[t].ck
         IN  /\ sess' = ServedSess(c, res)
             /\ AgeCookies(c.sid, res)
             /\ gen' = [u \in Tabs |->
                  IF u = t THEN [gen[t] EXCEPT !.phase = "replied",
                                   !.res = res, !.exp = 0, !.ck = AnswerCookie(c, res)]
                  ELSE Rotated(c.sid, res, gen[u])]
    /\ UNCHANGED <<locks, lock, tab, chan, left, dropped>>

\* The server answers 5xx or 429, or the connection breaks before it.
FailRefresh(t) ==
    /\ gen[t].phase = "sent" /\ left > 0
    /\ gen' = [gen EXCEPT ![t].phase = "replied", ![t].res = "failed",
                          ![t].exp = 0, ![t].ck = NoCookie]
    /\ left' = left - 1
    /\ UNCHANGED <<locks, lock, cookie, sess, tab, stray, chan, dropped>>

\* A request its tab no longer waits for reaches the server; the browser
\* ignores the answer and its cookie.
ServeStray ==
    /\ stray # <<>>
    /\ LET c == Head(stray).ck
       IN  \E res \in RefreshResult(c, Head(stray).exp) :
            /\ sess' = ServedSess(c, res)
            /\ cookie' = IF res = "rotated" THEN Aged(cookie, c.sid) ELSE cookie
            /\ gen' = [u \in Tabs |-> Rotated(c.sid, res, gen[u])]
    /\ stray' = <<>>
    /\ UNCHANGED <<locks, lock, tab, chan, left, dropped>>

(***************************************************************************)
(* createRefreshRunner: the answer arrives.  The browser applies its       *)
(* cookie; a superseded runner does nothing else.                          *)
(***************************************************************************)
JarAfter(g) ==
    IF g.res \in {"rotated", "replayed", "denied", "reused"} THEN g.ck
    ELSE cookie

Superseded(t) ==
    /\ Settle(t, tab[t], "transient", chan)
    /\ UNCHANGED dropped

Accept(t) ==
    /\ gen[t].res \in {"rotated", "replayed"}
    /\ Settle(t, SetBundle(tab[t], gen[t].ck.sid), "authenticated", chan)
    /\ NoteDrop(t)

\* Mutant: the races of one refresh are not counted.
RaceAgainEndless(t) ==
    /\ gen[t].res = "race"
    /\ gen' = [gen EXCEPT ![t].phase = "wait", ![t].res = "none",
                          ![t].attempt = @ + 1]
    /\ UNCHANGED <<tab, lock, chan, dropped>>

\* AUTH_REFRESH_RACE: wait and post again, RaceDelays times.
RaceAgain(t) ==
    /\ gen[t].res = "race" /\ gen[t].attempt < RaceDelays
    /\ gen' = [gen EXCEPT ![t].phase = "wait", ![t].res = "none",
                          ![t].attempt = @ + 1]
    /\ UNCHANGED <<tab, lock, chan, dropped>>

\* AUTH_SESSION_MISMATCH: the store is reset to idle, without a new epoch,
\* and the refresh is posted once more without the old session.
MismatchAgain(t) ==
    /\ gen[t].res = "mismatch" /\ gen[t].retry
    /\ tab' = [tab EXCEPT ![t] = Reset(@, "idle")]
    /\ gen' = [gen EXCEPT ![t] = Posted([@ EXCEPT !.attempt = 0, !.retry = FALSE],
                                        0)]
    /\ NoteDrop(t)
    /\ UNCHANGED <<lock, chan>>

OutOfSync(t) ==
    /\ \/ gen[t].res = "race" /\ gen[t].attempt = RaceDelays
       \/ gen[t].res = "mismatch" /\ ~gen[t].retry
    /\ Settle(t, Reset(tab[t], "complete"), "out_of_sync", chan)
    /\ NoteDrop(t)

Anonymous(t) ==
    /\ gen[t].res \in {"denied", "reused"} /\ Room(t)
    /\ Settle(t, Reset(tab[t], "complete"), "anonymous",
              Published(t, "signed_out", tab[t].sid))
    /\ NoteDrop(t)

Transient(t) ==
    /\ gen[t].res = "failed"
    /\ Settle(t, [tab[t] EXCEPT !.boot = "idle"], "transient", chan)
    /\ UNCHANGED dropped

Reply(t) ==
    /\ gen[t].phase = "replied"
    /\ cookie' = JarAfter(gen[t])
    /\ IF gen[t].live
       THEN Accept(t) \/ RaceAgain(t) \/ MismatchAgain(t) \/ OutOfSync(t)
              \/ Anonymous(t) \/ Transient(t)
       ELSE Superseded(t)
    /\ UNCHANGED <<locks, sess, stray, left>>

(***************************************************************************)
(* An exchange that is cut short: by the ten-second deadline of the        *)
(* generation or by the user's reload.  An unserved request may still      *)
(* reach the server; one such request is kept.                             *)
(***************************************************************************)
Abandon(t) ==
    stray' = IF gen[t].phase = "sent" /\ stray = <<>>
             THEN <<[ck |-> gen[t].ck, exp |-> gen[t].exp]>> ELSE stray

\* Mutant: an expired generation does not return the bootstrap to idle.
ExpireSilent(t) ==
    /\ gen[t].phase # "none" /\ left > 0
    /\ Settle(t, tab[t], "transient", chan)
    /\ Abandon(t)
    /\ left' = left - 1
    /\ UNCHANGED <<locks, cookie, sess, dropped>>

\* expireRefreshGeneration.
Expire(t) ==
    /\ gen[t].phase # "none" /\ left > 0
    /\ Settle(t, IF gen[t].live THEN [tab[t] EXCEPT !.boot = "idle"] ELSE tab[t],
              "transient", chan)
    /\ Abandon(t)
    /\ left' = left - 1
    /\ UNCHANGED <<locks, cookie, sess, dropped>>

\* A new document in the tab: memory, timers and undelivered events are gone.
NewDocument(t) ==
    /\ tab' = [tab EXCEPT ![t] = NewTab]
    /\ gen' = [gen EXCEPT ![t] = NoRefresh]
    /\ lock' = Free(t)
    /\ chan' = [chan EXCEPT ![t] = <<>>]
    /\ NoteDrop(t)

(***************************************************************************)
(* What the user and the application do in a tab.                          *)
(***************************************************************************)
\* bootstrapAuthentication, on every navigation.
Bootstrap(t) ==
    /\ IF tab[t].fresh
       THEN /\ tab' = [tab EXCEPT ![t].boot = "complete"]
            /\ UNCHANGED <<gen, lock>>
       ELSE /\ ~(tab[t].boot = "complete" /\ tab[t].sid = 0)
            /\ tab' = [tab EXCEPT ![t].boot = "checking"]
            /\ Refresh(t)
    /\ UNCHANGED <<locks, cookie, sess, stray, chan, left, dropped>>

\* The access token ends its fifteen minutes.  One that was issued after a
\* running refresh began outlives that refresh's ten seconds.
AgeToken(t) ==
    /\ tab[t].fresh
    /\ gen[t].phase = "none" \/ gen[t].live
    /\ tab' = [tab EXCEPT ![t].fresh = FALSE]
    /\ UNCHANGED <<locks, lock, cookie, sess, gen, stray, chan, left, dropped>>

\* An API request is answered 401: the response interceptor refreshes once.
ApiRejected(t) ==
    /\ tab[t].sid # 0 /\ tab[t].api = "none"
    /\ ~tab[t].fresh \/ Dead(tab[t].sid)
    /\ tab' = [tab EXCEPT ![t].api = "await"]
    /\ Refresh(t)
    /\ UNCHANGED <<locks, cookie, sess, stray, chan, left, dropped>>

\* The retry of that request carries the token of the store; a second 401
\* clears the tab and leaves for the sign-in page.
ApiRetry(t) ==
    /\ tab[t].api = "retry"
    /\ IF tab[t].sid # 0 /\ ~Dead(tab[t].sid)
       THEN /\ tab' = [tab EXCEPT ![t].api = "none"]
            /\ UNCHANGED <<gen, lock, chan, dropped>>
       ELSE NewDocument(t)
    /\ UNCHANGED <<locks, cookie, sess, stray, left>>

\* The user reloads the tab.
Reload(t) ==
    /\ left > 0
    /\ NewDocument(t)
    /\ Abandon(t)
    /\ left' = left - 1
    /\ UNCHANGED <<locks, cookie, sess>>

\* A login from a tab that shows no session: the server creates a session.
LoginServed(t) ==
    /\ tab[t].sid = 0 /\ tab[t].boot # "checking" /\ tab[t].login = 0
    /\ \E s \in Sids :
         /\ sess[s] = "free" /\ \A r \in 1..(s - 1) : sess[r] # "free"
         /\ sess' = [sess EXCEPT ![s] = "active"]
         /\ tab' = [tab EXCEPT ![t].login = s]
    /\ left > 0 /\ left' = left - 1
    /\ UNCHANGED <<locks, lock, cookie, gen, stray, chan, dropped>>

\* handleLoginSuccess: applyAuthBundle with synchronizeTabs.  A rotation
\* cannot have touched a token no browser has.
LoginReply(t) ==
    /\ tab[t].login # 0 /\ Room(t)
    /\ LET s == tab[t].login
       IN  /\ cookie' = [sid |-> s, age |-> Current]
           /\ tab' = [tab EXCEPT ![t] = [SetBundle(@, s) EXCEPT !.login = 0]]
           /\ gen' = [gen EXCEPT ![t] = BumpEpoch(@)]
           /\ chan' = Published(t, "authenticated", s)
           /\ NoteDrop(t)
    /\ UNCHANGED <<locks, lock, sess, stray, left>>

\* acceptAuthRotation: a security change answers with a new access token.
AcceptRotation(t) ==
    /\ tab[t].fresh /\ ~Dead(tab[t].sid)
    /\ gen[t].phase # "none" /\ gen[t].live
    /\ tab' = [tab EXCEPT ![t] = SetBundle(@, tab[t].sid)]
    /\ gen' = [gen EXCEPT ![t] = BumpEpoch(@)]
    /\ UNCHANGED <<locks, lock, cookie, sess, stray, chan, left, dropped>>

(***************************************************************************)
(* Sign-out: executeLogout and AuthLogout.                                 *)
(***************************************************************************)
Mismatched(e) == e # 0 /\ cookie.sid # 0 /\ cookie.sid # e

\* The session AuthLogout revokes: the one of a valid access token, or the
\* one of a cookie whose token is current or inside its window.
LogoutTarget(e, valid) ==
    IF valid THEN {e}
    ELSE IF cookie.sid = 0 \/ cookie.age = Older THEN {0}
    ELSE IF cookie.age = Current THEN {cookie.sid} ELSE {cookie.sid, 0}

LogoutServed(t) ==
    /\ tab[t].out = "again" \/ (tab[t].out = "none" /\ tab[t].sid # 0 /\ left > 0)
    /\ LET e == tab[t].sid
       IN  IF Mismatched(e)
           THEN /\ tab' = [tab EXCEPT ![t].out =
                             IF @ = "none" THEN "mismatch" ELSE "none"]
                /\ UNCHANGED sess
           ELSE
                /\ \E s \in LogoutTarget(e, tab[t].fresh) :
                     sess' = IF s = 0 THEN sess
                             ELSE [sess EXCEPT ![s] = "revoked"]
                /\ tab' = [tab EXCEPT ![t].out =
                             IF tab[t].fresh /\ cookie.sid # e THEN "ok" ELSE "okclear"]
    /\ left' = IF tab[t].out = "again" THEN left ELSE left - 1
    /\ UNCHANGED <<locks, lock, cookie, gen, stray, chan, dropped>>

\* Success clears the tab and tells the others; a mismatch refreshes first,
\* so that the request is repeated with the session of the cookie.
LogoutReply(t) ==
    \/ /\ tab[t].out \in {"ok", "okclear"} /\ Room(t)
       /\ cookie' = IF tab[t].out = "okclear" THEN NoCookie ELSE cookie
       /\ tab' = [tab EXCEPT ![t] = [Reset(@, "complete") EXCEPT !.out = "none"]]
       /\ gen' = [gen EXCEPT ![t] = BumpEpoch(@)]
       /\ chan' = Published(t, "signed_out", tab[t].sid)
       /\ NoteDrop(t)
       /\ UNCHANGED <<locks, lock, sess, stray, left>>
    \/ /\ tab[t].out = "mismatch"
       /\ tab' = [tab EXCEPT ![t].out = "await"]
       /\ Refresh(t)
       /\ UNCHANGED <<locks, cookie, sess, stray, chan, left,
                      dropped>>

(***************************************************************************)
(* Events of other tabs (routes/__root.tsx).  An event older than a minute *)
(* is ignored.                                                             *)
(***************************************************************************)
Deliver(t) ==
    /\ chan[t] # <<>>
    /\ LET event == Head(chan[t])
           cur == tab[t].sid
       IN  CASE event.kind = "authenticated" /\ event.sid # cur ->
                  NewDocument(t)
             [] event.kind = "signed_out" /\ event.sid = cur ->
                  /\ tab' = [tab EXCEPT ![t] = Reset(@, "complete")]
                  /\ gen' = [gen EXCEPT ![t] = BumpEpoch(@)]
                  /\ NoteDrop(t)
                  /\ chan' = [chan EXCEPT ![t] = Tail(@)]
                  /\ UNCHANGED <<lock>>
             [] OTHER ->
                  /\ chan' = [chan EXCEPT ![t] = Tail(@)]
                  /\ UNCHANGED <<tab, gen, lock, dropped>>
    /\ UNCHANGED <<locks, cookie, sess, stray, left>>

IgnoreLate(t) ==
    /\ chan[t] # <<>> /\ left > 0
    /\ chan' = [chan EXCEPT ![t] = Tail(@)]
    /\ left' = left - 1
    /\ UNCHANGED <<locks, lock, cookie, sess, tab, gen, stray, dropped>>

(***************************************************************************)
(* The server on its own.                                                  *)
(***************************************************************************)
\* Revocation from elsewhere: another device, an administrator, a password.
RevokedElsewhere(s) ==
    /\ sess[s] = "active"
    /\ sess' = [sess EXCEPT ![s] = "revoked"]
    /\ left > 0 /\ left' = left - 1
    /\ UNCHANGED <<locks, lock, cookie, tab, gen, stray, chan, dropped>>

\* The browser starts with a session from an earlier visit and tabs opening.
Init ==
    /\ locks \in BOOLEAN
    /\ lock = <<>>
    /\ cookie = [sid |-> 1, age |-> Current]
    /\ sess = [s \in Sids |-> IF s = 1 THEN "active" ELSE "free"]
    /\ tab = [t \in Tabs |-> NewTab]
    /\ gen = [t \in Tabs |-> NoRefresh]
    /\ stray = <<>>
    /\ chan = [t \in Tabs |-> <<>>]
    /\ left = IF locks THEN MaxEvents ELSE MaxUnlocked
    /\ dropped = [t \in Tabs |-> {}]

Exchange(t) == LockGrant(t) \/ WaitOver(t) \/ ServeRefresh(t) \/ Reply(t)

Application(t) ==
    ApiRejected(t) \/ ApiRetry(t) \/ LoginReply(t) \/ LogoutReply(t)
        \/ Deliver(t)

User(t) ==
    Bootstrap(t) \/ AgeToken(t) \/ LoginServed(t) \/ AcceptRotation(t)
        \/ LogoutServed(t) \/ Reload(t)

Fault(t) == FailRefresh(t) \/ Expire(t) \/ IgnoreLate(t)

Next ==
    \/ \E t \in Tabs : Exchange(t) \/ Application(t) \/ User(t) \/ Fault(t)
    \/ ServeStray
    \/ \E s \in Sids : RevokedElsewhere(s)

\* Requests are answered, the lock is granted in the order of its requests,
\* events are delivered, and an open tab keeps calling the API.
Progress(t) == Exchange(t) \/ ApiRejected(t) \/ ApiRetry(t) \/ Deliver(t)

Fairness == \A t \in Tabs : WF_vars(Progress(t))

Spec == Init /\ [][Next]_vars /\ Fairness

--------------------------------------------------------------------------------
(***************************************************************************)
(* Properties.                                                             *)
(***************************************************************************)
TabStates ==
    [sid : 0..MaxSid, boot : {"idle", "checking", "complete"}, fresh : BOOLEAN,
     api : {"none", "await", "retry"}, login : 0..MaxSid,
     out : {"none", "mismatch", "await", "again", "ok", "okclear"}]
Refreshes ==
    [phase : {"none", "lock", "wait", "sent", "replied"}, live : BOOLEAN,
     attempt : 0..RaceDelays, retry : BOOLEAN, exp : 0..MaxSid, ck : Cookies,
     res : {"none", "rotated", "replayed", "race", "reused", "mismatch",
            "denied", "failed"}]

\* Type invariant; a refresh makes a bounded number of attempts.
TypeOK ==
    /\ locks \in BOOLEAN /\ \A i \in DOMAIN lock : lock[i] \in Tabs
    /\ cookie \in Cookies
    /\ sess \in [Sids -> {"free", "active", "revoked"}]
    /\ tab \in [Tabs -> TabStates]
    /\ gen \in [Tabs -> Refreshes]
    /\ \A t \in Tabs : Len(chan[t]) <= MaxQueue
    /\ stray = <<>> \/ stray[1] \in [ck : Cookies, exp : 0..MaxSid]
    /\ left \in 0..(MaxEvents + MaxUnlocked)
    /\ dropped \in [Tabs -> SUBSET Sids]

\* A tab that shows one session never comes to show another one unless its
\* user logged in there: a refresh that finds another session behind the
\* shared cookie (another tab logged in, its event late or lost) clears the
\* tab first, so that nothing of the old session is used under the new one.
NoSilentSwitch ==
    [][\A t \in Tabs :
         tab[t].sid # 0 /\ tab'[t].sid \notin {0, tab[t].sid}
            => tab[t].login = tab'[t].sid]_vars

\* A tab that stopped showing a revoked session never shows it again: the
\* answer to a refresh that was under way during the sign-out is not applied
\* (isRefreshGenerationCurrent).
DroppedStaysDropped ==
    \A t \in Tabs : tab[t].sid \notin dropped[t]

\* The bootstrap state 'checking' always has a live refresh behind it that
\* will leave it: no early end of a refresh strands the application.
CheckingHasOwner ==
    \A t \in Tabs : tab[t].boot = "checking"
                      => gen[t].phase # "none" /\ gen[t].live

\* While no exchange fails, nobody signs in or out and no document is left,
\* the tabs of a browser with locks never lose their session, however their
\* refreshes interleave: no rotation of one tab makes another tab's token
\* unknown or reused (docs/authentication.md: tabs are not forced out for
\* having lost the winning answer).
HealthyStaysIn ==
    left = MaxEvents /\ locks =>
        /\ sess[1] = "active" /\ cookie.sid = 1
        /\ \A t \in Tabs : tab[t].boot = "complete" => tab[t].sid = 1

\* A tab that keeps making requests eventually stops showing a session that
\* was revoked anywhere.
RevokedIsDropped ==
    \A t \in Tabs : Dead(tab[t].sid) ~> ~Dead(tab[t].sid)

================================================================================
