-------------------------- MODULE BrowserAuth_proofs --------------------------
(***************************************************************************)
(* Proofs about the login session of a browser, for any set of tabs, any   *)
(* number of logins and of faults, with and without navigator.locks.       *)
(*                                                                         *)
(* BrowserInv is the inductive invariant.  A tab that shows no forbidden   *)
(* session now says nothing about the answer that is on its way to it, so  *)
(* Agree ties the request and the answer of a live refresh to what the tab *)
(* shows and has dropped; Births keeps the session of a login that is not  *)
(* answered yet out of every cookie and tab; and Calm is what the tabs,    *)
(* their refreshes, the lock and the cookie look like while nothing has    *)
(* gone wrong.                                                             *)
(***************************************************************************)
EXTENDS BrowserAuth, WellFoundedInduction, TLAPS

Events == [kind : {"authenticated", "signed_out"}, sid : Sids]
Posts == [ck : Cookies, exp : 0..MaxSid]
Accepted == {"rotated", "replayed"}

Types ==
    /\ locks \in BOOLEAN /\ lock \in Seq(Tabs)
    /\ cookie \in Cookies
    /\ sess \in [Sids -> {"free", "active", "revoked"}]
    /\ tab \in [Tabs -> TabStates]
    /\ gen \in [Tabs -> Refreshes]
    /\ chan \in [Tabs -> Seq(Events)] /\ \A t \in Tabs : Len(chan[t]) <= MaxQueue
    /\ stray \in Seq(Posts)
    /\ left \in 0..(MaxEvents + MaxUnlocked)
    /\ dropped \in [Tabs -> SUBSET Sids]

(* The bootstrap of a tab r, and its refresh g: who will end 'checking'.   *)
Owned(r, g) ==
    /\ g.phase = "none" => ~g.live
    /\ r.boot = "checking" => g.live
    /\ g.phase # "none" /\ ~g.live => r.fresh \/ (r.boot = "complete" /\ r.sid = 0)

(* A live refresh asks for, and is answered with, the session that is      *)
(* shown, if one is; no session in d is shown, or will be by that answer.  *)
Agree(r, g, d) ==
    /\ g.live /\ g.phase = "sent" /\ r.sid # 0 => g.exp = r.sid
    /\ g.live /\ g.phase = "replied" /\ g.res \in Accepted =>
         /\ r.sid # 0 => g.ck.sid = r.sid
         /\ g.ck.sid \notin d
    /\ r.sid \notin d

(* Some cookie, tab or history knows session s.                            *)
Seen(s) ==
    \/ cookie.sid = s
    \/ \E t \in Tabs : tab[t].sid = s \/ gen[t].ck.sid = s \/ s \in dropped[t]

Births ==
    /\ \A s \in Sids : Seen(s) => sess[s] # "free" /\ \A t \in Tabs : tab[t].login # s
    /\ \A t \in Tabs : tab[t].login # 0 => sess[tab[t].login] # "free"
    /\ \A t, u \in Tabs : tab[t].login # 0 /\ tab[t].login = tab[u].login => t = u
    /\ \A t \in Tabs : \A s \in dropped[t] : sess[s] = "revoked"

(* Nothing has gone wrong: one session, and only the holder of the lock    *)
(* has a request under way.                                                *)
CalmTab(r) ==
    /\ r.sid \in {0, 1} /\ r.login = 0 /\ r.out = "none"
    /\ r.fresh \/ r.boot = "complete" \/ r.api # "none" => r.sid = 1

CalmRefresh(g) ==
    /\ g.phase # "wait"
    /\ g.phase \in {"sent", "replied"} => g.ck.sid = 1 /\ g.ck.age = Current
    /\ g.phase = "sent" => g.exp \in {0, 1}
    /\ g.phase = "replied" => g.res = "rotated"

Calm ==
    /\ sess[1] = "active" /\ stray = <<>> /\ cookie.sid = 1
    /\ \A t \in Tabs : chan[t] = <<>> /\ CalmTab(tab[t]) /\ CalmRefresh(gen[t])
    /\ \A t \in Tabs : gen[t].phase # "none" => \E i \in 1..Len(lock) : lock[i] = t
    /\ \A t \in Tabs : gen[t].phase \in {"sent", "replied"} => Head(lock) = t
    /\ (\A t \in Tabs : gen[t].phase # "replied") => cookie.age = Current

Healthy == locks => left <= MaxEvents /\ (left = MaxEvents => Calm)

BrowserInv ==
    /\ Types
    /\ \A t \in Tabs : Owned(tab[t], gen[t]) /\ Agree(tab[t], gen[t], dropped[t])
    /\ Births
    /\ Healthy

--------------------------------------------------------------------------------
(***************************************************************************)
(* What the operators on records return.                                   *)
(***************************************************************************)
LEMMA Constants ==
    /\ RaceDelays \in Nat /\ MaxSid \in Nat \ {0} /\ MaxQueue \in Nat \ {0}
    /\ MaxEvents \in Nat /\ MaxUnlocked \in Nat /\ 1 \in Sids
    /\ NoCookie \in Cookies /\ NoCookie.sid = 0
  BY BrowserBounds DEF Sids, NoCookie, Cookies, Current

LEMMA BlankRecords ==
    /\ NewTab \in TabStates /\ NoRefresh \in Refreshes
    /\ NewTab.sid = 0 /\ NewTab.boot = "idle" /\ NewTab.fresh = FALSE
    /\ NewTab.api = "none" /\ NewTab.out = "none" /\ NewTab.login = 0
    /\ NoRefresh.phase = "none" /\ NoRefresh.live = FALSE /\ NoRefresh.ck = NoCookie
  BY Constants DEF NewTab, TabStates, NoRefresh, Refreshes

LEMMA SetBundleFields ==
  ASSUME NEW r \in TabStates, NEW s \in 0..MaxSid
  PROVE  /\ SetBundle(r, s) \in TabStates /\ SetBundle(r, s).sid = s
         /\ SetBundle(r, s).boot = "complete" /\ SetBundle(r, s).fresh = TRUE
         /\ SetBundle(r, s).login = r.login /\ SetBundle(r, s).api = r.api
         /\ SetBundle(r, s).out = r.out
  BY DEF SetBundle, TabStates

LEMMA ResetFields ==
  ASSUME NEW r \in TabStates, NEW boot \in {"idle", "complete"}
  PROVE  /\ Reset(r, boot) \in TabStates /\ Reset(r, boot).sid = 0
         /\ Reset(r, boot).boot = boot /\ Reset(r, boot).fresh = FALSE
         /\ Reset(r, boot).login = r.login /\ Reset(r, boot).out = r.out
<1>0. PICK b \in BOOLEAN : b = FALSE  BY Zenon
<1>1. PICK n \in 0..MaxSid : n = 0  BY Constants
<1>2. Reset(r, boot) = [r EXCEPT !.sid = n, !.boot = boot, !.fresh = b]
  BY <1>0, <1>1 DEF Reset
<1> QED  BY <1>0, <1>1, <1>2 DEF TabStates

LEMMA BumpEpochFields ==
  ASSUME NEW g \in Refreshes
  PROVE  /\ BumpEpoch(g) \in Refreshes /\ BumpEpoch(g).phase = g.phase
         /\ g.phase # "none" => BumpEpoch(g).live = FALSE
         /\ g.phase = "none" => BumpEpoch(g) = g
         /\ BumpEpoch(g).ck = g.ck /\ BumpEpoch(g).res = g.res
         /\ BumpEpoch(g).exp = g.exp
<1>0. PICK b \in BOOLEAN : b = FALSE  BY Zenon
<1>1. PICK n \in 0..RaceDelays : n = 0  BY Constants
<1>2. BumpEpoch(g) = IF g.phase = "none" THEN g
                     ELSE [g EXCEPT !.live = b, !.attempt = n, !.retry = b]
  BY <1>0, <1>1 DEF BumpEpoch
<1> QED  BY <1>0, <1>1, <1>2 DEF Refreshes

LEMMA JoinFields ==
  ASSUME NEW g \in Refreshes
  PROVE  /\ Join(g) \in Refreshes
         /\ g.phase # "none" => Join(g) = g
         /\ g.phase = "none" => /\ Join(g).phase = "lock" /\ Join(g).live = TRUE
                                /\ Join(g).ck = NoCookie
  BY Constants, BlankRecords DEF Join, NoRefresh, Refreshes

LEMMA AgedFields ==
  ASSUME NEW c \in Cookies, NEW s
  PROVE  Aged(c, s) \in Cookies /\ Aged(c, s).sid = c.sid
  BY DEF Aged, Cookies, Older, Current, Previous

LEMMA RotatedFields ==
  ASSUME NEW g \in Refreshes, NEW s, NEW res
  PROVE  /\ Rotated(s, res, g) \in Refreshes /\ Rotated(s, res, g).phase = g.phase
         /\ Rotated(s, res, g).live = g.live /\ Rotated(s, res, g).res = g.res
         /\ Rotated(s, res, g).exp = g.exp /\ Rotated(s, res, g).ck.sid = g.ck.sid
<1>1. g.ck \in Cookies  BY DEF Refreshes
<1>2. PICK c \in Cookies : c = Aged(g.ck, s) /\ c.sid = g.ck.sid  BY <1>1, AgedFields
<1> QED  BY <1>2 DEF Rotated, Refreshes

LEMMA AnswerFields ==
  ASSUME NEW c \in Cookies, NEW res
  PROVE  /\ AnswerCookie(c, res) \in Cookies /\ AnswerCookie(c, res).sid \in {0, c.sid}
         /\ res \in Accepted => /\ AnswerCookie(c, res).sid = c.sid
                                /\ AnswerCookie(c, res).age = Current
  BY Constants DEF AnswerCookie, Accepted, Cookies, Current

(* A document that is left is a new one; otherwise only what awaited the   *)
(* refresh changes.                                                        *)
LEMMA ContinueFields ==
  ASSUME NEW r \in TabStates, NEW o
  PROVE  /\ Continue(r, o) \in TabStates
         /\ Leaves(r, o) => Continue(r, o) = NewTab
         /\ ~Leaves(r, o) =>
              /\ Continue(r, o).sid = r.sid /\ Continue(r, o).boot = r.boot
              /\ Continue(r, o).fresh = r.fresh /\ Continue(r, o).login = r.login
              /\ r.api = "none" => Continue(r, o).api = "none"
              /\ r.out = "none" => Continue(r, o).out = "none"
<1>1. PICK a \in {"none", "await", "retry"} :
        a = IF r.api # "await" THEN r.api
            ELSE IF o = "authenticated" THEN "retry" ELSE "none"
  BY DEF TabStates
<1>2. PICK b \in {"none", "mismatch", "await", "again", "ok", "okclear"} :
        b = IF r.out # "await" THEN r.out
            ELSE IF o = "authenticated" THEN "again"
            ELSE IF o = "anonymous" THEN "ok" ELSE "none"
  BY DEF TabStates
<1>3. Continue(r, o) = IF Leaves(r, o) THEN NewTab ELSE [r EXCEPT !.api = a, !.out = b]
  BY <1>1, <1>2 DEF Continue
<1>4. [r EXCEPT !.api = a, !.out = b] \in TabStates  BY DEF TabStates
<1>5. /\ [r EXCEPT !.api = a, !.out = b].sid = r.sid
      /\ [r EXCEPT !.api = a, !.out = b].boot = r.boot
      /\ [r EXCEPT !.api = a, !.out = b].fresh = r.fresh
      /\ [r EXCEPT !.api = a, !.out = b].login = r.login
      /\ [r EXCEPT !.api = a, !.out = b].api = a
      /\ [r EXCEPT !.api = a, !.out = b].out = b
  BY DEF TabStates
<1> QED  BY <1>1, <1>2, <1>3, <1>4, <1>5, BlankRecords

(***************************************************************************)
(* The queue of the lock.                                                  *)
(***************************************************************************)
LEMMA MinOfNaturals ==
  ASSUME NEW S \in SUBSET Nat, S # {}
  PROVE  Min(S) \in S /\ \A y \in S : Min(S) <= y
<1> DEFINE R == {p \in Nat \X Nat : p[1] < p[2]}
<1>1. R = OpToRel(<, Nat)  BY Zenon DEF OpToRel
<1>2. IsWellFoundedOn(R, Nat)  BY <1>1, NatLessThanWellFounded, Zenon
<1> HIDE DEF R
<1>3. PICK x \in S : \A y \in S : ~(<<y, x>> \in R)  BY <1>2, WFMin, Zenon
<1>4. \A y \in S : <<y, x>> \in R <=> y < x  BY DEF R
<1>5. \A y \in S : ~(y < x)  BY <1>3, <1>4, Zenon
<1>6. \A y \in S : x <= y  BY <1>5
<1> QED  BY <1>6 DEF Min

LEMMA FreeShortens ==
  ASSUME lock \in Seq(Tabs), NEW t
  PROVE  Free(t) \in Seq(Tabs)
<1>1. CASE ~\E i \in 1..Len(lock) : lock[i] = t  BY <1>1 DEF Free, RemoveFirst
<1>2. CASE \E i \in 1..Len(lock) : lock[i] = t
  <2> DEFINE I == {i \in 1..Len(lock) : lock[i] = t}
  <2>1. I # {} /\ I \in SUBSET Nat  BY <1>2
  <2>2. Min(I) \in I  BY <2>1, MinOfNaturals
  <2>3. Free(t) = SubSeq(lock, 1, Min(I) - 1) \o SubSeq(lock, Min(I) + 1, Len(lock))
    BY <1>2, <2>1 DEF Free, RemoveFirst, RemoveAt, SelectInSeq
  <2>4. PICK k \in 1..Len(lock) : k = Min(I)  BY <2>2
  <2>5. SubSeq(lock, 1, k - 1) \o SubSeq(lock, k + 1, Len(lock)) \in Seq(Tabs)  OBVIOUS
  <2> QED  BY <2>3, <2>4, <2>5
<1> QED  BY <1>1, <1>2

LEMMA FreeHolder ==
  ASSUME lock \in Seq(Tabs), lock # <<>>
  PROVE  Free(Head(lock)) = Tail(lock)
<1> DEFINE I == {i \in 1..Len(lock) : lock[i] = Head(lock)}
<1>1. 1 \in I /\ I \in SUBSET Nat /\ \A y \in I : 1 <= y  OBVIOUS
<1>2. Min(I) = 1
  <2>1. Min(I) \in I /\ Min(I) <= 1  BY <1>1, MinOfNaturals
  <2> QED  BY <1>1, <2>1
<1>3. Free(Head(lock)) =
        SubSeq(lock, 1, Min(I) - 1) \o SubSeq(lock, Min(I) + 1, Len(lock))
  <2>1. I # {} /\ \E i \in 1..Len(lock) : lock[i] = Head(lock)  BY <1>1
  <2> QED  BY <2>1, Zenon DEF Free, RemoveFirst, RemoveAt, SelectInSeq
<1>4. SubSeq(lock, 1, 0) = <<>> /\ SubSeq(lock, 2, Len(lock)) = Tail(lock)  OBVIOUS
<1>5. SubSeq(lock, 1, 0) \o SubSeq(lock, 2, Len(lock)) = Tail(lock)  BY <1>4
<1>6. 1 - 1 = 0 /\ 1 + 1 = 2  OBVIOUS
<1> QED  BY <1>2, <1>3, <1>5, <1>6, Zenon

--------------------------------------------------------------------------------
(***************************************************************************)
(* What a step may do, tab by tab.  No session becomes known to the        *)
(* browser by a step, except by the answer to a login.                     *)
(***************************************************************************)
TabStep(t) ==
    /\ Owned(tab'[t], gen'[t]) /\ Agree(tab'[t], gen'[t], dropped'[t])
    /\ tab'[t].sid \in {0, tab[t].sid} \/ (tab[t].sid = 0 /\ tab'[t].sid = gen[t].ck.sid)
    /\ gen'[t].ck.sid \in {0, gen[t].ck.sid, cookie.sid}
    /\ tab'[t].login \in {0, tab[t].login}
    /\ \A s \in dropped'[t] : s \in dropped[t] \/ (s = tab[t].sid /\ sess[s] = "revoked")

SessionsMove ==
    \A s \in Sids : /\ sess'[s] = "free" <=> sess[s] = "free"
                    /\ sess[s] = "revoked" => sess'[s] = "revoked"

Step ==
    /\ Types' /\ SessionsMove
    /\ cookie'.sid \in {0, cookie.sid} \/ \E t \in Tabs : cookie'.sid = gen[t].ck.sid
    /\ \A t \in Tabs : TabStep(t)

LEMMA BirthsKept ==
  ASSUME BrowserInv, Step
  PROVE  Births'
<1> USE DEF BrowserInv, Step
<1>1. ASSUME NEW s \in Sids, Seen(s)'  PROVE Seen(s)
  <2>1. s # 0 /\ 0 \notin Sids  BY Constants DEF Sids
  <2>2. CASE cookie'.sid = s  BY <2>1, <2>2 DEF Seen
  <2>3. ASSUME NEW t \in Tabs, tab'[t].sid = s \/ gen'[t].ck.sid = s \/ s \in dropped'[t]
        PROVE  Seen(s)
    <3>1. TabStep(t)  OBVIOUS
    <3> QED  BY <2>1, <2>3, <3>1 DEF Seen, TabStep
  <2> QED  BY <1>1, <2>2, <2>3 DEF Seen
<1>2. \A t \in Tabs : tab'[t].login \in {0, tab[t].login}  BY DEF TabStep
<1>3. \A t \in Tabs : tab[t].login \in 0..MaxSid /\ tab'[t].login \in 0..MaxSid
  BY DEF Types, TabStates
<1>4. \A s \in Sids : Seen(s)' => sess'[s] # "free" /\ \A t \in Tabs : tab'[t].login # s
  <2> SUFFICES ASSUME NEW s \in Sids, Seen(s)'
               PROVE  sess'[s] # "free" /\ \A t \in Tabs : tab'[t].login # s
    OBVIOUS
  <2>1. Seen(s)  BY <1>1
  <2>2. s # 0  BY Constants DEF Sids
  <2> QED  BY <1>2, <2>1, <2>2 DEF Births, SessionsMove
<1>5. \A t \in Tabs : tab'[t].login # 0 => sess'[tab'[t].login] # "free"
  <2> SUFFICES ASSUME NEW t \in Tabs, tab'[t].login # 0
               PROVE  sess'[tab'[t].login] # "free"
    OBVIOUS
  <2>1. tab'[t].login = tab[t].login /\ tab[t].login \in Sids  BY <1>2, <1>3, Constants DEF Sids
  <2> QED  BY <2>1 DEF Births, SessionsMove
<1>6. \A t, u \in Tabs : tab'[t].login # 0 /\ tab'[t].login = tab'[u].login => t = u
  BY <1>2 DEF Births
<1>7. \A t \in Tabs : \A s \in dropped'[t] : sess'[s] = "revoked"
  <2> SUFFICES ASSUME NEW t \in Tabs, NEW s \in dropped'[t]
               PROVE  sess'[s] = "revoked"
    OBVIOUS
  <2>1. s \in Sids  BY DEF Types
  <2>2. TabStep(t)  OBVIOUS
  <2>3. sess[s] = "revoked"  BY <2>2 DEF TabStep, Births
  <2> QED  BY <2>1, <2>3 DEF SessionsMove
<1> QED  BY <1>4, <1>5, <1>6, <1>7 DEF Births

(* A tab the step leaves alone, its refresh token ageing at most.          *)
LEMMA TabKept ==
  ASSUME BrowserInv, NEW t \in Tabs, tab'[t] = tab[t], dropped'[t] = dropped[t],
         gen'[t] = gen[t] \/ \E s, res : gen'[t] = Rotated(s, res, gen[t])
  PROVE  TabStep(t)
<1>1. gen[t] \in Refreshes  BY DEF BrowserInv, Types
<1>2. /\ gen'[t].phase = gen[t].phase /\ gen'[t].live = gen[t].live
      /\ gen'[t].res = gen[t].res /\ gen'[t].exp = gen[t].exp
      /\ gen'[t].ck.sid = gen[t].ck.sid
  <2>1. CASE gen'[t] = gen[t]  BY <2>1
  <2>2. ASSUME NEW s, NEW res, gen'[t] = Rotated(s, res, gen[t])
        PROVE  <1>2
    BY <1>1, <2>2, RotatedFields
  <2> QED  BY <2>1, <2>2
<1>3. Owned(tab[t], gen[t]) /\ Agree(tab[t], gen[t], dropped[t])  BY DEF BrowserInv
<1> QED  BY <1>2, <1>3 DEF TabStep, Owned, Agree

LEMMA OthersKept ==
  ASSUME BrowserInv, NEW t \in Tabs,
         \A u \in Tabs \ {t} : tab'[u] = tab[u] /\ gen'[u] = gen[u] /\ dropped'[u] = dropped[u],
         TabStep(t)
  PROVE  \A u \in Tabs : TabStep(u)
  BY TabKept

LEMMA SessionsKept ==
  ASSUME Types, sess' = sess
  PROVE  SessionsMove
  BY DEF Types, SessionsMove

LEMMA NoteDropEffect ==
  ASSUME Types, NEW t \in Tabs, NoteDrop(t), tab'[t] \in TabStates
  PROVE  /\ dropped' \in [Tabs -> SUBSET Sids]
         /\ \A u \in Tabs \ {t} : dropped'[u] = dropped[u]
         /\ \A s \in dropped'[t] : s \in dropped[t]
              \/ (s = tab[t].sid /\ sess[s] = "revoked" /\ tab'[t].sid # s)
         /\ dropped[t] \subseteq dropped'[t]
<1>1. tab[t].sid \in 0..MaxSid  BY DEF Types, TabStates
<1>2. Dead(tab[t].sid) => tab[t].sid \in Sids /\ sess[tab[t].sid] = "revoked"
  BY <1>1, Constants DEF Dead, Sids
<1> QED  BY <1>2 DEF NoteDrop, Types

(* The end of a refresh.                                                   *)
Queued(e) == e \in [Tabs -> Seq(Events)] /\ \A t \in Tabs : Len(e[t]) <= MaxQueue

LEMMA SettleEffect ==
  ASSUME Types, NEW t \in Tabs, NEW r \in TabStates, NEW o, NEW e, Queued(e),
         Settle(t, r, o, e)
  PROVE  /\ tab' \in [Tabs -> TabStates] /\ gen' \in [Tabs -> Refreshes]
         /\ lock' \in Seq(Tabs) /\ Queued(chan)'
         /\ tab'[t] = Continue(r, o) /\ gen'[t] = NoRefresh /\ lock' = Free(t)
         /\ \A u \in Tabs \ {t} : tab'[u] = tab[u] /\ gen'[u] = gen[u]
<1>1. Continue(r, o) \in TabStates  BY ContinueFields
<1>2. tab' \in [Tabs -> TabStates] /\ tab'[t] = Continue(r, o)
      /\ \A u \in Tabs \ {t} : tab'[u] = tab[u]
  BY <1>1 DEF Settle, Types
<1>3. gen' \in [Tabs -> Refreshes] /\ gen'[t] = NoRefresh
      /\ \A u \in Tabs \ {t} : gen'[u] = gen[u]
  BY BlankRecords DEF Settle, Types
<1>4. lock' = Free(t) /\ lock' \in Seq(Tabs)  BY FreeShortens DEF Settle, Types
<1>5. Queued(chan)'
  <2>1. Queued([e EXCEPT ![t] = <<>>])
    <3>1. <<>> \in Seq(Events) /\ Len(<<>>) <= MaxQueue  BY Constants
    <3> QED  BY <3>1 DEF Queued
  <2> QED  BY <2>1 DEF Settle, Queued
<1> QED  BY <1>2, <1>3, <1>4, <1>5

(* It is a proper step of the tab when what the tab shows then is.         *)
LEMMA SettleStep ==
  ASSUME BrowserInv, NEW t \in Tabs, NEW r \in TabStates, NEW o,
         tab'[t] = Continue(r, o), gen'[t] = NoRefresh,
         r.boot # "checking", r.login = tab[t].login,
         r.sid \in {0, tab[t].sid} \/ (tab[t].sid = 0 /\ r.sid = gen[t].ck.sid),
         dropped'[t] \subseteq Sids, r.sid \notin dropped'[t],
         \A s \in dropped'[t] : s \in dropped[t] \/ (s = tab[t].sid /\ sess[s] = "revoked")
  PROVE  TabStep(t)
<1>1. 0 \notin dropped'[t]  BY Constants DEF Sids
<1>2. \/ tab'[t] = NewTab
      \/ /\ tab'[t].sid = r.sid /\ tab'[t].boot = r.boot
         /\ tab'[t].login = r.login
  BY ContinueFields
<1>3. /\ tab'[t].sid \in {0, r.sid} /\ tab'[t].boot # "checking"
      /\ tab'[t].login \in {0, r.login}
  BY <1>2, BlankRecords
<1>4. Owned(tab'[t], gen'[t])  BY <1>3, BlankRecords DEF Owned
<1>5. Agree(tab'[t], gen'[t], dropped'[t])  BY <1>1, <1>3, BlankRecords DEF Agree
<1>6. gen'[t].ck.sid = 0  BY BlankRecords, Constants
<1> QED  BY <1>3, <1>4, <1>5, <1>6 DEF TabStep

(* A new document.                                                         *)
LEMMA NewDocumentStep ==
  ASSUME BrowserInv, NEW t \in Tabs, NewDocument(t)
  PROVE  /\ tab' \in [Tabs -> TabStates] /\ gen' \in [Tabs -> Refreshes]
         /\ lock' \in Seq(Tabs) /\ Queued(chan)' /\ dropped' \in [Tabs -> SUBSET Sids]
         /\ \A u \in Tabs : TabStep(u)
<1> USE DEF BrowserInv
<1>1. tab' \in [Tabs -> TabStates] /\ tab'[t] = NewTab
      /\ \A u \in Tabs \ {t} : tab'[u] = tab[u]
  BY BlankRecords DEF NewDocument, Types
<1>2. gen' \in [Tabs -> Refreshes] /\ gen'[t] = NoRefresh
      /\ \A u \in Tabs \ {t} : gen'[u] = gen[u]
  BY BlankRecords DEF NewDocument, Types
<1>3. lock' \in Seq(Tabs)  BY FreeShortens DEF NewDocument, Types
<1>4. Queued(chan)'
  <2>1. <<>> \in Seq(Events) /\ Len(<<>>) <= MaxQueue  BY Constants
  <2> QED  BY <2>1 DEF NewDocument, Types, Queued
<1>5. /\ dropped' \in [Tabs -> SUBSET Sids]
      /\ \A u \in Tabs \ {t} : dropped'[u] = dropped[u]
      /\ \A s \in dropped'[t] : s \in dropped[t] \/ (s = tab[t].sid /\ sess[s] = "revoked")
  <2>1. NoteDrop(t) /\ tab'[t] \in TabStates  BY <1>1 DEF NewDocument
  <2> QED  BY <2>1, NoteDropEffect
<1>6. 0 \notin dropped'[t]  BY <1>5, Constants DEF Sids
<1>7. TabStep(t)
  <2>1. Owned(tab'[t], gen'[t])  BY <1>1, <1>2, BlankRecords DEF Owned
  <2>2. Agree(tab'[t], gen'[t], dropped'[t])  BY <1>1, <1>2, <1>6, BlankRecords DEF Agree
  <2>3. gen'[t].ck.sid = 0  BY <1>2, BlankRecords, Constants
  <2> QED  BY <1>1, <1>5, <2>1, <2>2, <2>3, BlankRecords DEF TabStep
<1>8. \A u \in Tabs : TabStep(u)  BY <1>1, <1>2, <1>5, <1>7, OthersKept
<1> QED  BY <1>1, <1>2, <1>3, <1>4, <1>5, <1>8

--------------------------------------------------------------------------------
(***************************************************************************)
(* The actions.  First the exchange of a refresh.                          *)
(***************************************************************************)
LEMMA TabTypes ==
  ASSUME BrowserInv, NEW t \in Tabs
  PROVE  /\ Types /\ tab[t] \in TabStates /\ gen[t] \in Refreshes /\ cookie \in Cookies
         /\ tab[t].sid \in 0..MaxSid /\ gen[t].ck \in Cookies /\ gen[t].ck.sid \in 0..MaxSid
         /\ gen[t].exp \in 0..MaxSid /\ cookie.sid \in 0..MaxSid /\ tab[t].login \in 0..MaxSid
         /\ Owned(tab[t], gen[t]) /\ Agree(tab[t], gen[t], dropped[t])
         /\ dropped[t] \in SUBSET Sids /\ 0 \notin dropped[t] /\ Queued(chan)
         /\ gen[t].live \in BOOLEAN
  BY Constants DEF BrowserInv, Types, TabStates, Refreshes, Cookies, Sids, Queued

LEMMA LeftSpent ==
  ASSUME Types, left > 0, left' = left - 1
  PROVE  left' \in 0..(MaxEvents + MaxUnlocked)
  BY Constants DEF Types

LEMMA PostStep ==
  ASSUME BrowserInv, NEW t \in Tabs, gen[t].phase # "none", gen[t].live,
         gen' = [gen EXCEPT ![t] = Posted(@, tab[t].sid)],
         UNCHANGED <<locks, lock, cookie, sess, tab, stray, chan, left, dropped>>
  PROVE  Step
<1> USE TabTypes
<1>1. gen[t] \in Refreshes /\ tab[t].sid \in 0..MaxSid /\ cookie \in Cookies  OBVIOUS
<1>2. /\ Posted(gen[t], tab[t].sid) \in Refreshes
      /\ Posted(gen[t], tab[t].sid).phase = "sent"
      /\ Posted(gen[t], tab[t].sid).ck = cookie
      /\ Posted(gen[t], tab[t].sid).exp = tab[t].sid
      /\ Posted(gen[t], tab[t].sid).live = gen[t].live
  BY <1>1 DEF Posted, Refreshes
<1>3. gen' \in [Tabs -> Refreshes] /\ gen'[t] = Posted(gen[t], tab[t].sid)
      /\ \A u \in Tabs \ {t} : gen'[u] = gen[u]
  BY <1>2 DEF Types
<1>4. Types'  BY <1>3 DEF Types
<1>5. TabStep(t)
  <2>1. Owned(tab'[t], gen'[t])  BY <1>2, <1>3 DEF Owned
  <2>2. Agree(tab'[t], gen'[t], dropped'[t])  BY <1>2, <1>3 DEF Agree
  <2> QED  BY <1>2, <1>3, <2>1, <2>2 DEF TabStep
<1>6. \A u \in Tabs : TabStep(u)  BY <1>3, <1>5, OthersKept
<1> QED  BY <1>4, <1>6, SessionsKept DEF Step

LEMMA SupersededStep ==
  ASSUME BrowserInv, NEW t \in Tabs, gen[t].phase # "none", ~gen[t].live,
         Settle(t, tab[t], "transient", chan),
         UNCHANGED <<locks, sess, stray, left, dropped>>,
         cookie' \in Cookies, cookie'.sid \in {0, cookie.sid, gen[t].ck.sid}
  PROVE  Step
<1> USE TabTypes
<1>1. /\ tab' \in [Tabs -> TabStates] /\ gen' \in [Tabs -> Refreshes]
      /\ lock' \in Seq(Tabs) /\ Queued(chan)'
      /\ tab'[t] = Continue(tab[t], "transient") /\ gen'[t] = NoRefresh
      /\ \A u \in Tabs \ {t} : tab'[u] = tab[u] /\ gen'[u] = gen[u]
  BY SettleEffect
<1>2. Types'  BY <1>1 DEF Types, Queued
<1>3. TabStep(t)
  <2>1. tab[t].boot # "checking"  BY DEF Owned
  <2>2. tab[t].sid \notin dropped'[t] /\ dropped'[t] \subseteq Sids  BY DEF Agree
  <2> QED  BY <1>1, <2>1, <2>2, SettleStep
<1>4. \A u \in Tabs : TabStep(u)  BY <1>1, <1>3, OthersKept
<1> QED  BY <1>2, <1>4, SessionsKept DEF Step

LEMMA GrantStep ==
  ASSUME BrowserInv, NEW t \in Tabs, LockGrant(t) \/ WaitOver(t)
  PROVE  Step
<1>1. gen[t].phase # "none"  BY DEF LockGrant, WaitOver
<1>2. CASE gen[t].live
  BY <1>1, <1>2, PostStep DEF LockGrant, WaitOver
<1>3. CASE ~gen[t].live
  <2>1. /\ Settle(t, tab[t], "transient", chan)
        /\ UNCHANGED <<locks, cookie, sess, stray, left, dropped>>
    BY <1>3 DEF LockGrant, WaitOver
  <2> QED  BY <1>1, <1>3, <2>1, SupersededStep, TabTypes
<1> QED  BY <1>2, <1>3

(* What the server does to the rows and to the copies of a token.          *)
LEMMA ServedSessions ==
  ASSUME Types, NEW c \in Cookies, NEW e, NEW res \in RefreshResult(c, e),
         sess' = ServedSess(c, res)
  PROVE  /\ SessionsMove /\ sess' \in [Sids -> {"free", "active", "revoked"}]
         /\ res \in Accepted => c.sid \in Sids /\ sess[c.sid] = "active"
                                  /\ (e # 0 => e = c.sid)
<1>1. c.sid \in 0..MaxSid  BY DEF Cookies
<1>2. res \in {"rotated", "replayed", "reused"} =>
        c.sid # 0 /\ sess[c.sid] = "active" /\ (e # 0 => e = c.sid)
  BY DEF RefreshResult
<1>3. c.sid # 0 => c.sid \in Sids  BY <1>1, Constants DEF Sids
<1>4. CASE res = "reused"
  <2>1. sess' = [sess EXCEPT ![c.sid] = "revoked"]  BY <1>4 DEF ServedSess
  <2>2. c.sid \in Sids /\ sess[c.sid] = "active"  BY <1>2, <1>3, <1>4
  <2> QED  BY <1>4, <2>1, <2>2 DEF Types, SessionsMove, Accepted
<1>5. CASE res # "reused"
  <2>1. sess' = sess  BY <1>5 DEF ServedSess
  <2> QED  BY <1>2, <1>3, <1>5, <2>1, SessionsKept DEF Types, Accepted
<1> QED  BY <1>4, <1>5

LEMMA CookieAges ==
  ASSUME Types, NEW s, NEW res, cookie' = IF res = "rotated" THEN Aged(cookie, s) ELSE cookie
  PROVE  cookie' \in Cookies /\ cookie'.sid = cookie.sid
  BY AgedFields DEF Types

LEMMA StrayAges ==
  ASSUME Types, NEW s, NEW res, AgeCookies(s, res)
  PROVE  stray' \in Seq(Posts)
<1>1. CASE res # "rotated"  BY <1>1 DEF AgeCookies, Types
<1>2. CASE res = "rotated"
  <2>1. stray' = [i \in DOMAIN stray |-> [stray[i] EXCEPT !.ck = Aged(@, s)]]
    BY <1>2 DEF AgeCookies
  <2>2. ASSUME NEW i \in 1..Len(stray)
        PROVE  [stray[i] EXCEPT !.ck = Aged(@, s)] \in Posts
    <3>0. stray[i] \in Posts  BY DEF Types
    <3>1. stray[i] \in Posts /\ stray[i].ck \in Cookies  BY <3>0 DEF Posts
    <3>2. PICK c \in Cookies : c = Aged(stray[i].ck, s)  BY <3>1, AgedFields
    <3> QED  BY <3>1, <3>2 DEF Posts
  <2>3. DOMAIN stray = 1..Len(stray) /\ Len(stray) \in Nat  BY DEF Types
  <2> QED  BY <2>1, <2>2, <2>3
<1> QED  BY <1>1, <1>2

LEMMA ServeRefreshStep ==
  ASSUME BrowserInv, NEW t \in Tabs, ServeRefresh(t)
  PROVE  Step
<1> USE TabTypes
<1> DEFINE c == gen[t].ck
<1>1. PICK res \in RefreshResult(c, gen[t].exp) :
        /\ sess' = ServedSess(c, res) /\ AgeCookies(c.sid, res)
        /\ gen' = [u \in Tabs |->
             IF u = t THEN [gen[t] EXCEPT !.phase = "replied", !.res = res, !.exp = 0,
                                          !.ck = AnswerCookie(c, res)]
             ELSE Rotated(c.sid, res, gen[u])]
  BY DEF ServeRefresh
<1>2. UNCHANGED <<locks, lock, tab, chan, left, dropped>> /\ gen[t].phase = "sent"
  BY DEF ServeRefresh
<1>3. /\ SessionsMove /\ sess' \in [Sids -> {"free", "active", "revoked"}]
      /\ res \in Accepted => c.sid \in Sids /\ sess[c.sid] = "active"
                               /\ (gen[t].exp # 0 => gen[t].exp = c.sid)
  BY <1>1, ServedSessions
<1>4. cookie' \in Cookies /\ cookie'.sid = cookie.sid  BY <1>1, CookieAges DEF AgeCookies
<1>5. stray' \in Seq(Posts)  BY <1>1, StrayAges
<1>6. PICK a \in Cookies : a = AnswerCookie(c, res) /\ a.sid \in {0, c.sid}
                             /\ (res \in Accepted => a.sid = c.sid)
  BY AnswerFields
<1>7. PICK z \in 0..MaxSid : z = 0  BY Constants
<1>8. res \in {"rotated", "replayed", "race", "reused", "mismatch", "denied"}
  BY DEF RefreshResult
<1>9. /\ gen'[t] \in Refreshes /\ gen'[t].phase = "replied" /\ gen'[t].res = res
      /\ gen'[t].ck = a /\ gen'[t].live = gen[t].live
  <2>1. gen'[t] = [gen[t] EXCEPT !.phase = "replied", !.res = res, !.exp = z, !.ck = a]
    BY <1>1, <1>6, <1>7
  <2> QED  BY <1>8, <2>1 DEF Refreshes
<1>10. \A u \in Tabs \ {t} : gen'[u] = Rotated(c.sid, res, gen[u]) /\ gen'[u] \in Refreshes
  BY <1>1, RotatedFields DEF Types
<1>11. gen' \in [Tabs -> Refreshes]  BY <1>1, <1>9, <1>10
<1>12. Types'  BY <1>2, <1>3, <1>4, <1>5, <1>11 DEF Types
<1>13. TabStep(t)
  <2>1. Owned(tab'[t], gen'[t])  BY <1>2, <1>9 DEF Owned
  <2>2. res \in Accepted => c.sid \notin dropped[t]  BY <1>3 DEF BrowserInv, Births
  <2>3. Agree(tab'[t], gen'[t], dropped'[t])
    BY <1>2, <1>3, <1>6, <1>9, <2>2 DEF Agree, Accepted
  <2> QED  BY <1>2, <1>6, <1>9, <2>1, <2>3 DEF TabStep
<1>14. \A u \in Tabs \ {t} : TabStep(u)  BY <1>2, <1>10, TabKept
<1> QED  BY <1>3, <1>4, <1>12, <1>13, <1>14 DEF Step

LEMMA ServeStrayStep ==
  ASSUME BrowserInv, ServeStray
  PROVE  Step
<1>1. Types /\ stray # <<>>  BY DEF BrowserInv, ServeStray
<1>2. Head(stray).ck \in Cookies
  <2>1. Head(stray) \in Posts  BY <1>1 DEF Types
  <2> QED  BY <2>1 DEF Posts
<1> DEFINE c == Head(stray).ck
<1>3. PICK res \in RefreshResult(c, Head(stray).exp) :
        /\ sess' = ServedSess(c, res)
        /\ cookie' = IF res = "rotated" THEN Aged(cookie, c.sid) ELSE cookie
        /\ gen' = [u \in Tabs |-> Rotated(c.sid, res, gen[u])]
  BY DEF ServeStray
<1>4. UNCHANGED <<locks, lock, tab, chan, left, dropped>> /\ stray' = <<>>
  BY DEF ServeStray
<1>5. SessionsMove /\ sess' \in [Sids -> {"free", "active", "revoked"}]
  BY <1>1, <1>2, <1>3, ServedSessions
<1>6. cookie' \in Cookies /\ cookie'.sid = cookie.sid  BY <1>1, <1>3, CookieAges
<1>7. \A u \in Tabs : gen'[u] = Rotated(c.sid, res, gen[u]) /\ gen'[u] \in Refreshes
  BY <1>1, <1>3, RotatedFields DEF Types
<1>8. gen' \in [Tabs -> Refreshes]  BY <1>3, <1>7
<1>9. Types'  BY <1>1, <1>4, <1>5, <1>6, <1>8 DEF Types
<1>10. \A u \in Tabs : TabStep(u)  BY <1>4, <1>7, TabKept
<1> QED  BY <1>5, <1>6, <1>9, <1>10 DEF Step

LEMMA FailRefreshStep ==
  ASSUME BrowserInv, NEW t \in Tabs, FailRefresh(t)
  PROVE  Step
<1> USE TabTypes
<1>1. /\ gen[t].phase = "sent" /\ left > 0 /\ left' = left - 1
      /\ UNCHANGED <<locks, lock, cookie, sess, tab, stray, chan, dropped>>
  BY DEF FailRefresh
<1>2. PICK z \in 0..MaxSid, a \in Cookies : z = 0 /\ a = NoCookie  BY Constants
<1>3. gen' = [gen EXCEPT ![t] = [gen[t] EXCEPT !.phase = "replied", !.res = "failed",
                                               !.exp = z, !.ck = a]]
  BY <1>2 DEF FailRefresh, Types
<1>4. PICK g : g = [gen[t] EXCEPT !.phase = "replied", !.res = "failed", !.exp = z, !.ck = a]
  OBVIOUS
<1>5. /\ g \in Refreshes /\ g.phase = "replied" /\ g.res = "failed"
      /\ g.ck = a /\ g.live = gen[t].live
  BY <1>4 DEF Refreshes
<1>6. gen' \in [Tabs -> Refreshes] /\ gen'[t] = g /\ \A u \in Tabs \ {t} : gen'[u] = gen[u]
  BY <1>3, <1>4, <1>5 DEF Types
<1>7. Types'  BY <1>1, <1>6, LeftSpent DEF Types
<1>8. TabStep(t)
  <2>1. Owned(tab'[t], gen'[t])  BY <1>1, <1>5, <1>6 DEF Owned
  <2>2. Agree(tab'[t], gen'[t], dropped'[t])  BY <1>1, <1>5, <1>6 DEF Agree, Accepted
  <2> QED  BY <1>1, <1>2, <1>5, <1>6, <2>1, <2>2, Constants DEF TabStep
<1>9. \A u \in Tabs : TabStep(u)  BY <1>1, <1>6, <1>8, OthersKept
<1> QED  BY <1>1, <1>7, <1>9, SessionsKept DEF Step

(* The answer, case by case.                                               *)
LEMMA PublishedQueued ==
  ASSUME Types, NEW t \in Tabs, NEW kind \in {"authenticated", "signed_out"},
         NEW s \in 0..MaxSid, Room(t)
  PROVE  Queued(Published(t, kind, s))
<1>1. s # 0 => [kind |-> kind, sid |-> s] \in Events  BY Constants DEF Events, Sids
<1>2. ASSUME NEW u \in Tabs, u # t, s # 0
      PROVE  /\ Append(chan[u], [kind |-> kind, sid |-> s]) \in Seq(Events)
             /\ Len(Append(chan[u], [kind |-> kind, sid |-> s])) <= MaxQueue
  <2>1. chan[u] \in Seq(Events) /\ Len(chan[u]) < MaxQueue  BY <1>2 DEF Room, Types
  <2>2. PICK e \in Events : e = [kind |-> kind, sid |-> s]  BY <1>1, <1>2
  <2>3. Append(chan[u], e) \in Seq(Events) /\ Len(Append(chan[u], e)) = Len(chan[u]) + 1
    BY <2>1
  <2> QED  BY <2>1, <2>2, <2>3, Constants
<1>3. \A u \in Tabs : chan[u] \in Seq(Events) /\ Len(chan[u]) <= MaxQueue  BY DEF Types
<1> QED  BY <1>2, <1>3 DEF Published, Queued

LEMMA JarAfterAnswer ==
  ASSUME BrowserInv, NEW t \in Tabs, cookie' = JarAfter(gen[t])
  PROVE  cookie' \in Cookies /\ cookie'.sid \in {0, cookie.sid, gen[t].ck.sid}
  BY TabTypes DEF JarAfter

(* A refresh that settles and shows r, noting what the tab drops.          *)
LEMMA ShowStep ==
  ASSUME BrowserInv, NEW t \in Tabs, NEW r \in TabStates, NEW o, NEW e,
         Settle(t, r, o, e), NoteDrop(t), Queued(e),
         UNCHANGED <<locks, sess, stray, left>>, cookie' = JarAfter(gen[t]),
         r.boot # "checking", r.login = tab[t].login,
         r.sid = 0 \/ (/\ r.sid = gen[t].ck.sid /\ r.sid \notin dropped[t]
                       /\ tab[t].sid # 0 => r.sid = tab[t].sid
                       /\ ~Leaves(r, o))
  PROVE  Step
<1> USE TabTypes
<1>1. /\ tab' \in [Tabs -> TabStates] /\ gen' \in [Tabs -> Refreshes]
      /\ lock' \in Seq(Tabs) /\ Queued(chan)'
      /\ tab'[t] = Continue(r, o) /\ gen'[t] = NoRefresh
      /\ \A u \in Tabs \ {t} : tab'[u] = tab[u] /\ gen'[u] = gen[u]
  BY SettleEffect
<1>2. /\ dropped' \in [Tabs -> SUBSET Sids]
      /\ \A u \in Tabs \ {t} : dropped'[u] = dropped[u]
      /\ \A s \in dropped'[t] : s \in dropped[t]
           \/ (s = tab[t].sid /\ sess[s] = "revoked" /\ tab'[t].sid # s)
  <2>1. tab'[t] \in TabStates  BY <1>1
  <2> QED  BY <2>1, NoteDropEffect
<1>3. cookie' \in Cookies /\ cookie'.sid \in {0, cookie.sid, gen[t].ck.sid}
  BY JarAfterAnswer
<1>4. Types'  BY <1>1, <1>2, <1>3 DEF Types, Queued
<1>5. TabStep(t)
  <2>1. dropped'[t] \subseteq Sids /\ 0 \notin Sids  BY <1>2, Constants DEF Sids
  <2>2. r.sid \notin dropped'[t]
    <3>1. CASE r.sid = 0  BY <2>1, <3>1
    <3>2. CASE r.sid \notin dropped[t] /\ ~Leaves(r, o)
      <4>1. tab'[t].sid = r.sid  BY <1>1, <3>2, ContinueFields
      <4> QED  BY <1>2, <3>2, <4>1
    <3> QED  BY <3>1, <3>2
  <2>3. r.sid \in {0, tab[t].sid} \/ (tab[t].sid = 0 /\ r.sid = gen[t].ck.sid)  OBVIOUS
  <2>4. \A s \in dropped'[t] : s \in dropped[t] \/ (s = tab[t].sid /\ sess[s] = "revoked")
    BY <1>2
  <2> QED  BY <1>1, <2>1, <2>2, <2>3, <2>4, SettleStep
<1>6. \A u \in Tabs : TabStep(u)  BY <1>1, <1>2, <1>5, OthersKept
<1> QED  BY <1>3, <1>4, <1>6, SessionsKept DEF Step

LEMMA RaceAgainStep ==
  ASSUME BrowserInv, NEW t \in Tabs, gen[t].phase = "replied", gen[t].live,
         cookie' = JarAfter(gen[t]), RaceAgain(t), UNCHANGED <<locks, sess, stray, left>>
  PROVE  Step
<1> USE TabTypes
<1>1. PICK n \in 0..RaceDelays : n = gen[t].attempt + 1
  BY Constants DEF RaceAgain, Refreshes
<1>2. PICK g : g = [gen[t] EXCEPT !.phase = "wait", !.res = "none", !.attempt = n]
  OBVIOUS
<1>3. /\ g \in Refreshes /\ g.phase = "wait" /\ g.live = gen[t].live /\ g.ck = gen[t].ck
  BY <1>2 DEF Refreshes
<1>4. gen' \in [Tabs -> Refreshes] /\ gen'[t] = g /\ \A u \in Tabs \ {t} : gen'[u] = gen[u]
  <2>1. gen' = [gen EXCEPT ![t] = [gen[t] EXCEPT !.phase = "wait", !.res = "none",
                                                 !.attempt = gen[t].attempt + 1]]
    BY DEF RaceAgain, Types
  <2>2. gen' = [gen EXCEPT ![t] = g]  BY <1>1, <1>2, <2>1
  <2> QED  BY <1>3, <2>2 DEF Types
<1>5. UNCHANGED <<tab, lock, chan, dropped>>  BY DEF RaceAgain
<1>6. cookie' \in Cookies /\ cookie'.sid \in {0, cookie.sid, gen[t].ck.sid}
  BY JarAfterAnswer
<1>7. Types'  BY <1>4, <1>5, <1>6 DEF Types
<1>8. TabStep(t)
  <2>1. Owned(tab'[t], gen'[t])  BY <1>3, <1>4, <1>5 DEF Owned
  <2>2. Agree(tab'[t], gen'[t], dropped'[t])  BY <1>3, <1>4, <1>5 DEF Agree
  <2> QED  BY <1>3, <1>4, <1>5, <2>1, <2>2 DEF TabStep
<1>9. \A u \in Tabs : TabStep(u)  BY <1>4, <1>5, <1>8, OthersKept
<1> QED  BY <1>6, <1>7, <1>9, SessionsKept DEF Step

LEMMA MismatchAgainStep ==
  ASSUME BrowserInv, NEW t \in Tabs, gen[t].phase = "replied", gen[t].live,
         cookie' = JarAfter(gen[t]), MismatchAgain(t), UNCHANGED <<locks, sess, stray, left>>
  PROVE  Step
<1> USE TabTypes
<1>1. tab' \in [Tabs -> TabStates] /\ tab'[t].sid = 0 /\ tab'[t].boot = "idle"
      /\ tab'[t].login = tab[t].login /\ \A u \in Tabs \ {t} : tab'[u] = tab[u]
  <2>1. tab' = [tab EXCEPT ![t] = Reset(tab[t], "idle")]  BY DEF MismatchAgain
  <2> QED  BY <2>1, ResetFields DEF Types
<1>2. PICK n \in 0..RaceDelays, z \in 0..MaxSid : n = 0 /\ z = 0  BY Constants
<1>3. PICK h : h = [gen[t] EXCEPT !.attempt = n, !.retry = FALSE]  OBVIOUS
<1>4. h \in Refreshes /\ h.live = gen[t].live  BY <1>3 DEF Refreshes
<1>5. PICK g : g = Posted(h, z)  OBVIOUS
<1>6. /\ g \in Refreshes /\ g.phase = "sent" /\ g.ck = cookie /\ g.live = gen[t].live
  BY <1>4, <1>5 DEF Posted, Refreshes
<1>7. gen' \in [Tabs -> Refreshes] /\ gen'[t] = g /\ \A u \in Tabs \ {t} : gen'[u] = gen[u]
  BY <1>2, <1>3, <1>5, <1>6 DEF MismatchAgain, Types
<1>8. /\ dropped' \in [Tabs -> SUBSET Sids]
      /\ \A u \in Tabs \ {t} : dropped'[u] = dropped[u]
      /\ \A s \in dropped'[t] : s \in dropped[t] \/ (s = tab[t].sid /\ sess[s] = "revoked")
  <2>1. NoteDrop(t) /\ tab'[t] \in TabStates  BY <1>1 DEF MismatchAgain
  <2> QED  BY <2>1, NoteDropEffect
<1>9. cookie' \in Cookies /\ cookie'.sid \in {0, cookie.sid, gen[t].ck.sid}
  BY JarAfterAnswer
<1>10. Types'  BY <1>1, <1>7, <1>8, <1>9 DEF Types, MismatchAgain
<1>11. TabStep(t)
  <2>1. Owned(tab'[t], gen'[t])  BY <1>1, <1>6, <1>7 DEF Owned
  <2>2. 0 \notin dropped'[t]  BY <1>8, Constants DEF Sids
  <2>3. Agree(tab'[t], gen'[t], dropped'[t])  BY <1>1, <1>6, <1>7, <2>2 DEF Agree
  <2> QED  BY <1>1, <1>6, <1>7, <1>8, <2>1, <2>3 DEF TabStep
<1>12. \A u \in Tabs : TabStep(u)  BY <1>1, <1>7, <1>8, <1>11, OthersKept
<1> QED  BY <1>9, <1>10, <1>12, SessionsKept DEF Step

(* A refresh that ends without a verdict: what the tab shows stays.        *)
LEMMA TransientStep ==
  ASSUME BrowserInv, NEW t \in Tabs, gen[t].phase # "none", NEW r \in TabStates,
         r.boot # "checking", r.sid = tab[t].sid, r.login = tab[t].login,
         Settle(t, r, "transient", chan), UNCHANGED <<locks, sess, dropped>>,
         cookie' \in Cookies, cookie'.sid \in {0, cookie.sid, gen[t].ck.sid},
         stray' \in Seq(Posts), left' \in 0..(MaxEvents + MaxUnlocked)
  PROVE  Step
<1> USE TabTypes
<1>1. /\ tab' \in [Tabs -> TabStates] /\ gen' \in [Tabs -> Refreshes]
      /\ lock' \in Seq(Tabs) /\ Queued(chan)'
      /\ tab'[t] = Continue(r, "transient") /\ gen'[t] = NoRefresh
      /\ \A u \in Tabs \ {t} : tab'[u] = tab[u] /\ gen'[u] = gen[u]
  BY SettleEffect
<1>2. Types'  BY <1>1 DEF Types, Queued
<1>3. TabStep(t)
  <2>1. r.sid \notin dropped'[t] /\ dropped'[t] \subseteq Sids  BY DEF Agree
  <2> QED  BY <1>1, <2>1, SettleStep
<1>4. \A u \in Tabs : TabStep(u)  BY <1>1, <1>3, OthersKept
<1> QED  BY <1>2, <1>4, SessionsKept DEF Step

LEMMA IdleFields ==
  ASSUME NEW r \in TabStates
  PROVE  /\ [r EXCEPT !.boot = "idle"] \in TabStates
         /\ [r EXCEPT !.boot = "idle"].boot = "idle"
         /\ [r EXCEPT !.boot = "idle"].sid = r.sid
         /\ [r EXCEPT !.boot = "idle"].login = r.login
  BY DEF TabStates

LEMMA ReplyStep ==
  ASSUME BrowserInv, NEW t \in Tabs, Reply(t)
  PROVE  Step
<1> USE TabTypes
<1>1. /\ gen[t].phase = "replied" /\ cookie' = JarAfter(gen[t])
      /\ UNCHANGED <<locks, sess, stray, left>>
  BY DEF Reply
<1>2. cookie' \in Cookies /\ cookie'.sid \in {0, cookie.sid, gen[t].ck.sid}
  BY <1>1, JarAfterAnswer
<1>3. CASE ~gen[t].live
  <2>1. Settle(t, tab[t], "transient", chan) /\ UNCHANGED dropped
    BY <1>3 DEF Reply, Superseded
  <2> QED  BY <1>1, <1>2, <1>3, <2>1, SupersededStep
<1>4. ASSUME gen[t].live, Accept(t)  PROVE Step
  <2> DEFINE r == SetBundle(tab[t], gen[t].ck.sid)
  <2>1. /\ r \in TabStates /\ r.boot = "complete" /\ r.login = tab[t].login
        /\ r.sid = gen[t].ck.sid
    BY SetBundleFields
  <2>2. ~Leaves(r, "authenticated")  BY DEF Leaves
  <2>3. r.sid \notin dropped[t] /\ (tab[t].sid # 0 => r.sid = tab[t].sid)
    BY <1>1, <1>4, <2>1 DEF Agree, Accept, Accepted
  <2>4. Settle(t, r, "authenticated", chan) /\ NoteDrop(t)  BY <1>4 DEF Accept
  <2> HIDE DEF r
  <2> QED  BY <1>1, <2>1, <2>2, <2>3, <2>4, ShowStep
<1>5. ASSUME NEW o, NEW e, Queued(e), NoteDrop(t), Settle(t, Reset(tab[t], "complete"), o, e)
      PROVE  Step
  <2> DEFINE r == Reset(tab[t], "complete")
  <2>1. r \in TabStates /\ r.boot = "complete" /\ r.login = tab[t].login /\ r.sid = 0
    BY ResetFields
  <2>2. Settle(t, r, o, e)  BY <1>5
  <2> HIDE DEF r
  <2> QED  BY <1>1, <1>5, <2>1, <2>2, ShowStep
<1>6. CASE OutOfSync(t)  BY <1>5, <1>6 DEF OutOfSync
<1>7. CASE Anonymous(t)
  <2>1. Queued(Published(t, "signed_out", tab[t].sid))
    BY <1>7, PublishedQueued DEF Anonymous
  <2> QED  BY <1>5, <1>7, <2>1 DEF Anonymous
<1>8. CASE Transient(t)
  <2> DEFINE r == [tab[t] EXCEPT !.boot = "idle"]
  <2>1. r \in TabStates /\ r.boot # "checking" /\ r.sid = tab[t].sid /\ r.login = tab[t].login
    BY IdleFields
  <2>2. Settle(t, r, "transient", chan) /\ UNCHANGED dropped  BY <1>8 DEF Transient
  <2> HIDE DEF r
  <2>3. stray' \in Seq(Posts) /\ left' \in 0..(MaxEvents + MaxUnlocked)  BY <1>1 DEF Types
  <2> QED  BY <1>1, <1>2, <2>1, <2>2, <2>3, TransientStep
<1>9. CASE gen[t].live
  BY <1>1, <1>4, <1>6, <1>7, <1>8, <1>9, RaceAgainStep, MismatchAgainStep DEF Reply
<1> QED  BY <1>3, <1>9

(***************************************************************************)
(* What the user, the application and other tabs do.                       *)
(***************************************************************************)
LEMMA RefreshEffect ==
  ASSUME Types, NEW t \in Tabs, Refresh(t)
  PROVE  /\ gen' \in [Tabs -> Refreshes] /\ lock' \in Seq(Tabs)
         /\ gen'[t] = Join(gen[t]) /\ \A u \in Tabs \ {t} : gen'[u] = gen[u]
         /\ gen[t].phase # "none" => gen'[t] = gen[t]
         /\ gen[t].phase = "none" => /\ gen'[t].phase = "lock" /\ gen'[t].live = TRUE
                                     /\ gen'[t].ck.sid = 0
<1>1. PICK g \in Refreshes : g = gen[t]  BY DEF Types
<1>2. /\ Join(g) \in Refreshes
      /\ g.phase # "none" => Join(g) = g
      /\ g.phase = "none" => /\ Join(g).phase = "lock" /\ Join(g).live = TRUE
                             /\ Join(g).ck.sid = 0
  BY JoinFields, Constants
<1>3. Append(lock, t) \in Seq(Tabs)  BY DEF Types
<1>4. gen' = [gen EXCEPT ![t] = Join(g)]  BY <1>1 DEF Refresh
<1>5. gen'[t] = Join(g)  BY <1>4 DEF Types
<1> QED  BY <1>1, <1>2, <1>3, <1>4, <1>5 DEF Refresh, Types

(* A tab that starts or joins a refresh, having changed only fields that   *)
(* the bootstrap and the session do not depend on.                         *)
LEMMA JoinStep ==
  ASSUME BrowserInv, NEW t \in Tabs, Refresh(t), NEW r \in TabStates,
         tab' = [tab EXCEPT ![t] = r],
         r.sid = tab[t].sid, r.fresh = tab[t].fresh, r.login = tab[t].login,
         \/ r.boot = tab[t].boot
         \/ r.boot = "checking" /\ ~tab[t].fresh
              /\ ~(tab[t].boot = "complete" /\ tab[t].sid = 0),
         UNCHANGED <<locks, cookie, sess, stray, chan, left, dropped>>
  PROVE  Step
<1> USE TabTypes
<1>1. tab' \in [Tabs -> TabStates] /\ tab'[t] = r /\ \A u \in Tabs \ {t} : tab'[u] = tab[u]
  BY DEF Types
<1>2. /\ gen' \in [Tabs -> Refreshes] /\ lock' \in Seq(Tabs)
      /\ gen'[t] = Join(gen[t]) /\ \A u \in Tabs \ {t} : gen'[u] = gen[u]
  BY RefreshEffect
<1>3. Types'  BY <1>1, <1>2 DEF Types
<1>4. /\ gen[t].phase # "none" => gen'[t] = gen[t]
      /\ gen[t].phase = "none" => /\ gen'[t].phase = "lock" /\ gen'[t].live = TRUE
                                  /\ gen'[t].ck.sid = 0
  BY <1>2, RefreshEffect
<1>5. TabStep(t)
  <2>1. Owned(tab'[t], gen'[t])
    <3>1. CASE gen[t].phase = "none"  BY <1>4, <3>1 DEF Owned
    <3>2. CASE gen[t].phase # "none"  BY <1>1, <1>4, <3>2 DEF Owned
    <3> QED  BY <3>1, <3>2
  <2>2. Agree(tab'[t], gen'[t], dropped'[t])
    <3>1. CASE gen[t].phase = "none"  BY <1>1, <1>4, <3>1 DEF Agree
    <3>2. CASE gen[t].phase # "none"  BY <1>1, <1>4, <3>2 DEF Agree
    <3> QED  BY <3>1, <3>2
  <2> QED  BY <1>1, <1>4, <2>1, <2>2 DEF TabStep
<1>6. \A u \in Tabs : TabStep(u)  BY <1>1, <1>2, <1>5, OthersKept
<1> QED  BY <1>3, <1>6, SessionsKept DEF Step

(* A tab whose memory of requests changes, and nothing of its refresh.     *)
LEMMA NoteStep ==
  ASSUME BrowserInv, NEW t \in Tabs, NEW r \in TabStates,
         tab' = [tab EXCEPT ![t] = r],
         r.sid = tab[t].sid, r.login = tab[t].login,
         \/ r.boot = tab[t].boot /\ r.fresh = tab[t].fresh
         \/ r.boot = "complete" /\ r.fresh = tab[t].fresh
         \/ r.boot = tab[t].boot /\ (gen[t].phase = "none" \/ gen[t].live),
         UNCHANGED <<locks, lock, cookie, gen, stray, chan, dropped>>,
         SessionsMove, sess' \in [Sids -> {"free", "active", "revoked"}],
         left' \in 0..(MaxEvents + MaxUnlocked)
  PROVE  Step
<1> USE TabTypes
<1>1. tab' \in [Tabs -> TabStates] /\ tab'[t] = r /\ \A u \in Tabs \ {t} : tab'[u] = tab[u]
  BY DEF Types
<1>2. Types'  BY <1>1 DEF Types
<1>3. TabStep(t)
  <2>1. Owned(tab'[t], gen'[t])  BY <1>1 DEF Owned
  <2>2. Agree(tab'[t], gen'[t], dropped'[t])  BY <1>1 DEF Agree
  <2> QED  BY <1>1, <2>1, <2>2 DEF TabStep
<1>4. \A u \in Tabs : TabStep(u)  BY <1>1, <1>3, OthersKept
<1> QED  BY <1>2, <1>4 DEF Step

LEMMA BootstrapStep ==
  ASSUME BrowserInv, NEW t \in Tabs, Bootstrap(t)
  PROVE  Step
<1> USE TabTypes
<1>1. CASE tab[t].fresh
  <2>1. PICK r : r = [tab[t] EXCEPT !.boot = "complete"]  OBVIOUS
  <2>2. /\ r \in TabStates /\ r.sid = tab[t].sid /\ r.login = tab[t].login
        /\ r.boot = "complete" /\ r.fresh = tab[t].fresh
    BY <2>1 DEF TabStates
  <2>3. /\ tab' = [tab EXCEPT ![t] = r]
        /\ UNCHANGED <<gen, lock, locks, cookie, sess, stray, chan, left, dropped>>
    BY <1>1, <2>1 DEF Bootstrap
  <2>4. /\ sess' \in [Sids -> {"free", "active", "revoked"}]
        /\ left' \in 0..(MaxEvents + MaxUnlocked)
    BY <2>3 DEF Types
  <2> QED  BY <2>2, <2>3, <2>4, NoteStep, SessionsKept
<1>2. CASE ~tab[t].fresh
  <2>1. PICK r : r = [tab[t] EXCEPT !.boot = "checking"]  OBVIOUS
  <2>2. /\ r \in TabStates /\ r.sid = tab[t].sid /\ r.login = tab[t].login
        /\ r.boot = "checking" /\ r.fresh = tab[t].fresh
    BY <2>1 DEF TabStates
  <2>3. /\ tab' = [tab EXCEPT ![t] = r] /\ Refresh(t)
        /\ ~(tab[t].boot = "complete" /\ tab[t].sid = 0)
        /\ UNCHANGED <<locks, cookie, sess, stray, chan, left, dropped>>
    BY <1>2, <2>1 DEF Bootstrap
  <2> QED  BY <1>2, <2>2, <2>3, JoinStep
<1> QED  BY <1>1, <1>2

LEMMA AgeTokenStep ==
  ASSUME BrowserInv, NEW t \in Tabs, AgeToken(t)
  PROVE  Step
<1> USE TabTypes
<1>0. PICK b \in BOOLEAN : b = FALSE  BY Zenon
<1>1. PICK r : r = [tab[t] EXCEPT !.fresh = b]  OBVIOUS
<1>2. /\ r \in TabStates /\ r.sid = tab[t].sid /\ r.login = tab[t].login
      /\ r.boot = tab[t].boot
  BY <1>1 DEF TabStates
<1>3. /\ tab' = [tab EXCEPT ![t] = r] /\ (gen[t].phase = "none" \/ gen[t].live)
      /\ UNCHANGED <<gen, lock, locks, cookie, sess, stray, chan, left, dropped>>
  BY <1>0, <1>1 DEF AgeToken
<1>4. /\ sess' \in [Sids -> {"free", "active", "revoked"}]
      /\ left' \in 0..(MaxEvents + MaxUnlocked)
  BY <1>3 DEF Types
<1> QED  BY <1>2, <1>3, <1>4, NoteStep, SessionsKept

LEMMA ApiFields ==
  ASSUME NEW r \in TabStates, NEW a \in {"none", "await", "retry"}
  PROVE  /\ [r EXCEPT !.api = a] \in TabStates /\ [r EXCEPT !.api = a].sid = r.sid
         /\ [r EXCEPT !.api = a].login = r.login /\ [r EXCEPT !.api = a].boot = r.boot
         /\ [r EXCEPT !.api = a].fresh = r.fresh /\ [r EXCEPT !.api = a].out = r.out
         /\ [r EXCEPT !.api = a].api = a
  BY DEF TabStates

LEMMA OutFields ==
  ASSUME NEW r \in TabStates,
         NEW a \in {"none", "mismatch", "await", "again", "ok", "okclear"}
  PROVE  /\ [r EXCEPT !.out = a] \in TabStates /\ [r EXCEPT !.out = a].sid = r.sid
         /\ [r EXCEPT !.out = a].login = r.login /\ [r EXCEPT !.out = a].boot = r.boot
         /\ [r EXCEPT !.out = a].fresh = r.fresh
  BY DEF TabStates

LEMMA ApiRejectedStep ==
  ASSUME BrowserInv, NEW t \in Tabs, ApiRejected(t)
  PROVE  Step
<1> USE TabTypes
<1>1. PICK r : r = [tab[t] EXCEPT !.api = "await"]  OBVIOUS
<1>2. /\ r \in TabStates /\ r.sid = tab[t].sid /\ r.login = tab[t].login
      /\ r.boot = tab[t].boot /\ r.fresh = tab[t].fresh
  BY <1>1, ApiFields
<1>3. /\ tab' = [tab EXCEPT ![t] = r] /\ Refresh(t)
      /\ UNCHANGED <<locks, cookie, sess, stray, chan, left, dropped>>
  BY <1>1 DEF ApiRejected
<1> QED  BY <1>2, <1>3, JoinStep

LEMMA ApiRetryStep ==
  ASSUME BrowserInv, NEW t \in Tabs, ApiRetry(t)
  PROVE  Step
<1> USE TabTypes
<1>1. UNCHANGED <<locks, cookie, sess, stray, left>>  BY DEF ApiRetry
<1>2. CASE tab[t].sid # 0 /\ ~Dead(tab[t].sid)
  <2>1. PICK r : r = [tab[t] EXCEPT !.api = "none"]  OBVIOUS
  <2>2. /\ r \in TabStates /\ r.sid = tab[t].sid /\ r.login = tab[t].login
        /\ r.boot = tab[t].boot /\ r.fresh = tab[t].fresh
    BY <2>1, ApiFields
  <2>3. tab' = [tab EXCEPT ![t] = r] /\ UNCHANGED <<gen, lock, chan, dropped>>
    BY <1>2, <2>1 DEF ApiRetry
  <2>4. /\ sess' \in [Sids -> {"free", "active", "revoked"}]
        /\ left' \in 0..(MaxEvents + MaxUnlocked)
    BY <1>1 DEF Types
  <2> QED  BY <1>1, <2>2, <2>3, <2>4, NoteStep, SessionsKept
<1>3. CASE ~(tab[t].sid # 0 /\ ~Dead(tab[t].sid))
  <2>1. NewDocument(t)  BY <1>3 DEF ApiRetry
  <2>2. /\ tab' \in [Tabs -> TabStates] /\ gen' \in [Tabs -> Refreshes]
        /\ lock' \in Seq(Tabs) /\ Queued(chan)' /\ dropped' \in [Tabs -> SUBSET Sids]
        /\ \A u \in Tabs : TabStep(u)
    BY <2>1, NewDocumentStep
  <2>3. Types'  BY <1>1, <2>2 DEF Types, Queued
  <2> QED  BY <1>1, <2>2, <2>3, SessionsKept DEF Step
<1> QED  BY <1>2, <1>3

LEMMA AbandonEffect ==
  ASSUME BrowserInv, NEW t \in Tabs, Abandon(t)
  PROVE  stray' \in Seq(Posts)
<1>1. [ck |-> gen[t].ck, exp |-> gen[t].exp] \in Posts  BY TabTypes DEF Posts
<1>2. <<[ck |-> gen[t].ck, exp |-> gen[t].exp]>> \in Seq(Posts)  BY <1>1
<1> QED  BY <1>2, TabTypes DEF Abandon, Types

LEMMA ReloadStep ==
  ASSUME BrowserInv, NEW t \in Tabs, Reload(t)
  PROVE  Step
<1> USE TabTypes
<1>1. /\ NewDocument(t) /\ Abandon(t) /\ left > 0 /\ left' = left - 1
      /\ UNCHANGED <<locks, cookie, sess>>
  BY DEF Reload
<1>2. /\ tab' \in [Tabs -> TabStates] /\ gen' \in [Tabs -> Refreshes]
      /\ lock' \in Seq(Tabs) /\ Queued(chan)' /\ dropped' \in [Tabs -> SUBSET Sids]
      /\ \A u \in Tabs : TabStep(u)
  BY <1>1, NewDocumentStep
<1>3. stray' \in Seq(Posts) /\ left' \in 0..(MaxEvents + MaxUnlocked)
  BY <1>1, AbandonEffect, LeftSpent
<1>4. Types'  BY <1>1, <1>2, <1>3 DEF Types, Queued
<1> QED  BY <1>1, <1>2, <1>4, SessionsKept DEF Step

LEMMA ExpireStep ==
  ASSUME BrowserInv, NEW t \in Tabs, Expire(t)
  PROVE  Step
<1> USE TabTypes
<1>1. PICK r : r = IF gen[t].live THEN [tab[t] EXCEPT !.boot = "idle"] ELSE tab[t]
  OBVIOUS
<1>2. /\ gen[t].phase # "none" /\ left > 0 /\ left' = left - 1
      /\ Settle(t, r, "transient", chan) /\ Abandon(t)
      /\ UNCHANGED <<locks, cookie, sess, dropped>>
  BY <1>1 DEF Expire
<1>3. /\ r \in TabStates /\ r.boot # "checking" /\ r.sid = tab[t].sid
      /\ r.login = tab[t].login
  BY <1>1, IdleFields DEF Owned
<1>4. stray' \in Seq(Posts) /\ left' \in 0..(MaxEvents + MaxUnlocked)
  BY <1>2, AbandonEffect, LeftSpent
<1> QED  BY <1>2, <1>3, <1>4, TransientStep

(* authEpoch moves in a tab that then shows r.                             *)
LEMMA BumpEffect ==
  ASSUME BrowserInv, NEW t \in Tabs, NEW r \in TabStates,
         tab' = [tab EXCEPT ![t] = r], gen' = [gen EXCEPT ![t] = BumpEpoch(@)],
         r.boot = "complete", r.fresh \/ r.sid = 0, r.sid \notin dropped'[t]
  PROVE  /\ tab' \in [Tabs -> TabStates] /\ gen' \in [Tabs -> Refreshes]
         /\ tab'[t] = r
         /\ \A u \in Tabs \ {t} : tab'[u] = tab[u] /\ gen'[u] = gen[u]
         /\ Owned(tab'[t], gen'[t]) /\ Agree(tab'[t], gen'[t], dropped'[t])
         /\ gen'[t].ck.sid = gen[t].ck.sid
<1>1. PICK g \in Refreshes : g = gen[t]  BY TabTypes
<1>2. PICK h \in Refreshes :
        /\ h = BumpEpoch(g) /\ h.phase = g.phase /\ h.ck = g.ck
        /\ g.phase # "none" => h.live = FALSE
        /\ g.phase = "none" => h = g
  BY BumpEpochFields
<1>3. gen' = [gen EXCEPT ![t] = h]  BY <1>1, <1>2
<1>4. gen \in [Tabs -> Refreshes] /\ tab \in [Tabs -> TabStates]  BY DEF BrowserInv, Types
<1>5. gen' \in [Tabs -> Refreshes] /\ gen'[t] = h /\ \A u \in Tabs \ {t} : gen'[u] = gen[u]
  BY <1>3, <1>4
<1>6. tab' \in [Tabs -> TabStates] /\ tab'[t] = r /\ \A u \in Tabs \ {t} : tab'[u] = tab[u]
  BY <1>4
<1>7. ~h.live
  <2>1. Owned(tab[t], g)  BY <1>1, TabTypes
  <2> QED  BY <1>2, <2>1 DEF Owned
<1>8. Owned(tab'[t], gen'[t])  BY <1>5, <1>6, <1>7 DEF Owned
<1>9. Agree(tab'[t], gen'[t], dropped'[t])  BY <1>5, <1>6, <1>7 DEF Agree
<1> QED  BY <1>1, <1>2, <1>5, <1>6, <1>8, <1>9

(* The tab is cleared and told so.                                         *)
LEMMA ClearStep ==
  ASSUME BrowserInv, NEW t \in Tabs, NEW r \in TabStates,
         tab' = [tab EXCEPT ![t] = r], gen' = [gen EXCEPT ![t] = BumpEpoch(@)],
         r.boot = "complete", r.sid = 0, r.login = tab[t].login, NoteDrop(t),
         cookie' \in {cookie, NoCookie}, Queued(chan)',
         UNCHANGED <<locks, lock, sess, stray, left>>
  PROVE  Step
<1> USE TabTypes
<1>1. /\ dropped' \in [Tabs -> SUBSET Sids]
      /\ \A u \in Tabs \ {t} : dropped'[u] = dropped[u]
      /\ \A s \in dropped'[t] : s \in dropped[t] \/ (s = tab[t].sid /\ sess[s] = "revoked")
  <2>1. tab'[t] \in TabStates  BY DEF Types
  <2> QED  BY <2>1, NoteDropEffect
<1>2. 0 \notin dropped'[t]  BY <1>1, Constants DEF Sids
<1>3. /\ tab' \in [Tabs -> TabStates] /\ gen' \in [Tabs -> Refreshes]
      /\ tab'[t] = r
      /\ \A u \in Tabs \ {t} : tab'[u] = tab[u] /\ gen'[u] = gen[u]
      /\ Owned(tab'[t], gen'[t]) /\ Agree(tab'[t], gen'[t], dropped'[t])
      /\ gen'[t].ck.sid = gen[t].ck.sid
  BY <1>2, BumpEffect
<1>4. cookie' \in Cookies /\ cookie'.sid \in {0, cookie.sid}  BY Constants
<1>5. Types'  BY <1>1, <1>3, <1>4 DEF Types, Queued
<1>6. TabStep(t)  BY <1>1, <1>3 DEF TabStep
<1>7. \A u \in Tabs : TabStep(u)  BY <1>1, <1>3, <1>6, OthersKept
<1> QED  BY <1>4, <1>5, <1>7, SessionsKept DEF Step

LEMMA AcceptRotationStep ==
  ASSUME BrowserInv, NEW t \in Tabs, AcceptRotation(t)
  PROVE  Step
<1> USE TabTypes
<1>0. PICK n \in 0..MaxSid : n = tab[t].sid  OBVIOUS
<1>1. PICK r : r = SetBundle(tab[t], n)  OBVIOUS
<1>1a. /\ r \in TabStates /\ r.sid = n /\ r.fresh = TRUE
      /\ r.boot = "complete" /\ r.login = tab[t].login
  BY <1>1, SetBundleFields
<1>2. /\ tab' = [tab EXCEPT ![t] = r] /\ gen' = [gen EXCEPT ![t] = BumpEpoch(@)]
      /\ UNCHANGED <<locks, lock, cookie, sess, stray, chan, left, dropped>>
  BY <1>0, <1>1 DEF AcceptRotation
<1>3. r.sid \notin dropped'[t]  BY <1>0, <1>1a, <1>2 DEF Agree
<1>4. /\ tab' \in [Tabs -> TabStates] /\ gen' \in [Tabs -> Refreshes]
      /\ tab'[t] = r
      /\ \A u \in Tabs \ {t} : tab'[u] = tab[u] /\ gen'[u] = gen[u]
      /\ Owned(tab'[t], gen'[t]) /\ Agree(tab'[t], gen'[t], dropped'[t])
      /\ gen'[t].ck.sid = gen[t].ck.sid
  BY <1>1a, <1>2, <1>3, BumpEffect
<1>5. Types'  BY <1>2, <1>4 DEF Types
<1>6. TabStep(t)  BY <1>0, <1>1a, <1>2, <1>4 DEF TabStep
<1>7. \A u \in Tabs : TabStep(u)  BY <1>2, <1>4, <1>6, OthersKept
<1> QED  BY <1>2, <1>5, <1>7, SessionsKept DEF Step

LEMMA LogoutServedStep ==
  ASSUME BrowserInv, NEW t \in Tabs, LogoutServed(t)
  PROVE  Step
<1> USE TabTypes
<1>1. UNCHANGED <<locks, lock, cookie, gen, stray, chan, dropped>>  BY DEF LogoutServed
<1>2. left' \in 0..(MaxEvents + MaxUnlocked)
  <2>1. CASE tab[t].out = "again"  BY <2>1 DEF LogoutServed, Types
  <2>2. CASE tab[t].out # "again"  BY <2>2, LeftSpent DEF LogoutServed
  <2> QED  BY <2>1, <2>2
<1>3. PICK a \in {"none", "mismatch", "await", "again", "ok", "okclear"} :
        tab' = [tab EXCEPT ![t] = [tab[t] EXCEPT !.out = a]]
  <2>1. CASE Mismatched(tab[t].sid)
    <3>1. PICK a \in {"mismatch", "none"} : a = IF tab[t].out = "none" THEN "mismatch" ELSE "none"
      OBVIOUS
    <3> QED  BY <2>1, <3>1 DEF LogoutServed, Types
  <2>2. CASE ~Mismatched(tab[t].sid)
    <3>1. PICK a \in {"ok", "okclear"} :
            a = IF tab[t].fresh /\ cookie.sid # tab[t].sid THEN "ok" ELSE "okclear"
      OBVIOUS
    <3> QED  BY <2>2, <3>1 DEF LogoutServed, Types
  <2> QED  BY <2>1, <2>2
<1>4. PICK r : r = [tab[t] EXCEPT !.out = a]  OBVIOUS
<1>5. /\ r \in TabStates /\ r.sid = tab[t].sid /\ r.login = tab[t].login
      /\ r.boot = tab[t].boot /\ r.fresh = tab[t].fresh
  BY <1>4, OutFields
<1>6. SessionsMove /\ sess' \in [Sids -> {"free", "active", "revoked"}]
  <2>1. CASE sess' = sess  BY <2>1, SessionsKept DEF Types
  <2>2. ASSUME NEW s \in {tab[t].sid, cookie.sid}, s # 0, sess' = [sess EXCEPT ![s] = "revoked"]
        PROVE  <1>6
    <3>1. s \in Sids  BY <2>2, Constants DEF Sids
    <3>2. sess[s] # "free"
      <4>1. Seen(s)  BY DEF Seen
      <4> QED  BY <3>1, <4>1 DEF BrowserInv, Births
    <3> QED  BY <2>2, <3>1, <3>2 DEF Types, SessionsMove
  <2>3. \/ sess' = sess
        \/ \E s \in {tab[t].sid, cookie.sid} : s # 0 /\ sess' = [sess EXCEPT ![s] = "revoked"]
    <3>1. CASE Mismatched(tab[t].sid)  BY <3>1 DEF LogoutServed
    <3>2. CASE ~Mismatched(tab[t].sid)
      <4>1. PICK s \in LogoutTarget(tab[t].sid, tab[t].fresh) :
              sess' = IF s = 0 THEN sess ELSE [sess EXCEPT ![s] = "revoked"]
        BY <3>2 DEF LogoutServed
      <4>2. s \in {0, tab[t].sid, cookie.sid}  BY DEF LogoutTarget
      <4> QED  BY <4>1, <4>2
    <3> QED  BY <3>1, <3>2
  <2> QED  BY <2>1, <2>2, <2>3
<1> QED  BY <1>1, <1>2, <1>3, <1>4, <1>5, <1>6, NoteStep

LEMMA LogoutReplyStep ==
  ASSUME BrowserInv, NEW t \in Tabs, LogoutReply(t)
  PROVE  Step
<1> USE TabTypes
<1>1. CASE tab[t].out \in {"ok", "okclear"}
  <2>1. PICK q \in TabStates :
          /\ q = Reset(tab[t], "complete") /\ q.sid = 0 /\ q.boot = "complete"
          /\ q.login = tab[t].login
    BY ResetFields
  <2>2. PICK r : r = [q EXCEPT !.out = "none"]  OBVIOUS
  <2>3. r \in TabStates /\ r.sid = 0 /\ r.boot = "complete" /\ r.login = tab[t].login
    BY <2>1, <2>2, OutFields
  <2>4. /\ Room(t) /\ tab' = [tab EXCEPT ![t] = r] /\ gen' = [gen EXCEPT ![t] = BumpEpoch(@)]
        /\ chan' = Published(t, "signed_out", tab[t].sid) /\ NoteDrop(t)
        /\ UNCHANGED <<locks, lock, sess, stray, left>>
        /\ cookie' \in {cookie, NoCookie}
    BY <1>1, <2>1, <2>2 DEF LogoutReply, Types
  <2>5. Queued(Published(t, "signed_out", tab[t].sid))  BY <2>4, PublishedQueued
  <2>6. Queued(chan)'  BY <2>4, <2>5 DEF Queued
  <2> QED  BY <2>3, <2>4, <2>6, ClearStep
<1>2. CASE tab[t].out = "mismatch"
  <2>1. PICK r : r = [tab[t] EXCEPT !.out = "await"]  OBVIOUS
  <2>2. /\ r \in TabStates /\ r.sid = tab[t].sid /\ r.login = tab[t].login
        /\ r.boot = tab[t].boot /\ r.fresh = tab[t].fresh
    BY <2>1, OutFields
  <2>3. /\ tab' = [tab EXCEPT ![t] = r] /\ Refresh(t)
        /\ UNCHANGED <<locks, cookie, sess, stray, chan, left, dropped>>
    BY <1>2, <2>1 DEF LogoutReply, Types
  <2> QED  BY <2>2, <2>3, JoinStep
<1> QED  BY <1>1, <1>2 DEF LogoutReply

LEMMA TailQueued ==
  ASSUME Types, NEW t \in Tabs, chan[t] # <<>>, chan' = [chan EXCEPT ![t] = Tail(@)]
  PROVE  Queued(chan)'
<1>1. chan[t] \in Seq(Events) /\ Len(chan[t]) <= MaxQueue  BY DEF Types
<1>2. Tail(chan[t]) \in Seq(Events) /\ Len(Tail(chan[t])) <= MaxQueue
  BY <1>1, Constants
<1> QED  BY <1>2 DEF Types, Queued

LEMMA QuietStep ==
  ASSUME BrowserInv, Queued(chan)', left' \in 0..(MaxEvents + MaxUnlocked), SessionsMove,
         sess' \in [Sids -> {"free", "active", "revoked"}],
         UNCHANGED <<locks, lock, cookie, tab, gen, stray, dropped>>
  PROVE  Step
<1>1. Types'  BY DEF BrowserInv, Types, Queued
<1>2. \A u \in Tabs : TabStep(u)  BY TabKept
<1> QED  BY <1>1, <1>2 DEF Step

LEMMA DeliverStep ==
  ASSUME BrowserInv, NEW t \in Tabs, Deliver(t)
  PROVE  Step
<1> USE TabTypes
<1> DEFINE event == Head(chan[t])
           cur == tab[t].sid
<1>1. chan[t] # <<>> /\ UNCHANGED <<locks, cookie, sess, stray, left>>  BY DEF Deliver
<1>2. CASE event.kind = "authenticated" /\ event.sid # cur
  <2>1. NewDocument(t)  BY <1>2 DEF Deliver
  <2>2. /\ tab' \in [Tabs -> TabStates] /\ gen' \in [Tabs -> Refreshes]
        /\ lock' \in Seq(Tabs) /\ Queued(chan)' /\ dropped' \in [Tabs -> SUBSET Sids]
        /\ \A u \in Tabs : TabStep(u)
    BY <2>1, NewDocumentStep
  <2>3. Types'  BY <1>1, <2>2 DEF Types, Queued
  <2> QED  BY <1>1, <2>2, <2>3, SessionsKept DEF Step
<1>3. CASE event.kind = "signed_out" /\ event.sid = cur
  <2>1. PICK r \in TabStates :
          /\ r = Reset(tab[t], "complete") /\ r.sid = 0 /\ r.boot = "complete"
          /\ r.login = tab[t].login
    BY ResetFields
  <2>2. /\ tab' = [tab EXCEPT ![t] = r] /\ gen' = [gen EXCEPT ![t] = BumpEpoch(@)]
        /\ NoteDrop(t) /\ chan' = [chan EXCEPT ![t] = Tail(@)] /\ UNCHANGED lock
    BY <1>3, <2>1 DEF Deliver
  <2>3. Queued(chan)'  BY <1>1, <2>2, TailQueued
  <2> QED  BY <1>1, <2>1, <2>2, <2>3, ClearStep
<1>4. CASE /\ ~(event.kind = "authenticated" /\ event.sid # cur)
           /\ ~(event.kind = "signed_out" /\ event.sid = cur)
  <2>1. chan' = [chan EXCEPT ![t] = Tail(@)] /\ UNCHANGED <<tab, gen, lock, dropped>>
    BY <1>4 DEF Deliver
  <2>2. Queued(chan)'  BY <1>1, <2>1, TailQueued
  <2>3. /\ sess' \in [Sids -> {"free", "active", "revoked"}]
        /\ left' \in 0..(MaxEvents + MaxUnlocked)
    BY <1>1 DEF Types
  <2> QED  BY <1>1, <2>1, <2>2, <2>3, QuietStep, SessionsKept
<1> QED  BY <1>2, <1>3, <1>4

LEMMA IgnoreLateStep ==
  ASSUME BrowserInv, NEW t \in Tabs, IgnoreLate(t)
  PROVE  Step
<1> USE TabTypes
<1>1. /\ chan[t] # <<>> /\ chan' = [chan EXCEPT ![t] = Tail(@)] /\ left > 0
      /\ left' = left - 1 /\ UNCHANGED <<locks, lock, cookie, sess, tab, gen, stray, dropped>>
  BY DEF IgnoreLate
<1>2. Queued(chan)'  BY <1>1, TailQueued
<1>3. left' \in 0..(MaxEvents + MaxUnlocked)  BY <1>1, LeftSpent
<1>4. sess' \in [Sids -> {"free", "active", "revoked"}]  BY <1>1 DEF Types
<1> QED  BY <1>1, <1>2, <1>3, <1>4, QuietStep, SessionsKept

LEMMA RevokedElsewhereStep ==
  ASSUME BrowserInv, NEW s \in Sids, RevokedElsewhere(s)
  PROVE  Step
<1>1. Types  BY DEF BrowserInv
<1>2. /\ sess[s] = "active" /\ sess' = [sess EXCEPT ![s] = "revoked"]
      /\ left > 0 /\ left' = left - 1
      /\ UNCHANGED <<locks, lock, cookie, tab, gen, stray, chan, dropped>>
  BY DEF RevokedElsewhere
<1>3. SessionsMove /\ sess' \in [Sids -> {"free", "active", "revoked"}]
  BY <1>1, <1>2 DEF Types, SessionsMove
<1>4. left' \in 0..(MaxEvents + MaxUnlocked)  BY <1>1, <1>2, LeftSpent
<1>5. Queued(chan)'  BY <1>1, <1>2 DEF Types, Queued
<1> QED  BY <1>2, <1>3, <1>4, <1>5, QuietStep

(***************************************************************************)
(* A login: the server's step makes a session no one has seen, and the     *)
(* answer shows it where the user logged in.                               *)
(***************************************************************************)
LEMMA LoginServedStep ==
  ASSUME BrowserInv, NEW t \in Tabs, LoginServed(t)
  PROVE  /\ Types' /\ Births'
         /\ \A u \in Tabs : Owned(tab'[u], gen'[u]) /\ Agree(tab'[u], gen'[u], dropped'[u])
         /\ \A u \in Tabs : tab'[u].sid = tab[u].sid
<1> USE TabTypes
<1>1. PICK s \in Sids : /\ sess[s] = "free" /\ sess' = [sess EXCEPT ![s] = "active"]
                        /\ tab' = [tab EXCEPT ![t].login = s]
  BY DEF LoginServed
<1>2. /\ left > 0 /\ left' = left - 1
      /\ UNCHANGED <<locks, lock, cookie, gen, stray, chan, dropped>>
  BY DEF LoginServed
<1>3. PICK n \in 0..MaxSid : n = s  BY Constants DEF Sids
<1>4. PICK r : r = [tab[t] EXCEPT !.login = n]  OBVIOUS
<1>5. /\ r \in TabStates /\ r.sid = tab[t].sid /\ r.boot = tab[t].boot
      /\ r.fresh = tab[t].fresh /\ r.login = s
  BY <1>3, <1>4 DEF TabStates
<1>6. tab' \in [Tabs -> TabStates] /\ tab'[t] = r /\ \A u \in Tabs \ {t} : tab'[u] = tab[u]
  BY <1>1, <1>3, <1>4, <1>5 DEF Types
<1>7. sess' \in [Sids -> {"free", "active", "revoked"}] /\ sess'[s] = "active"
      /\ \A x \in Sids \ {s} : sess'[x] = sess[x]
  BY <1>1 DEF Types
<1>8. Types'  BY <1>2, <1>6, <1>7, LeftSpent DEF Types
<1>9. \A u \in Tabs : tab'[u].sid = tab[u].sid /\ tab'[u].boot = tab[u].boot
                        /\ tab'[u].fresh = tab[u].fresh
  BY <1>5, <1>6
<1>10. ASSUME NEW u \in Tabs
       PROVE  Owned(tab'[u], gen'[u]) /\ Agree(tab'[u], gen'[u], dropped'[u])
  BY <1>2, <1>9, <1>10 DEF Owned, Agree
<1>11. \A x \in Sids : Seen(x)' => Seen(x)  BY <1>2, <1>9 DEF Seen
<1>12. Births  BY DEF BrowserInv
<1>13. ~Seen(s) /\ \A u \in Tabs : tab[u].login # s
  <2>1. s # 0  BY Constants DEF Sids
  <2> QED  BY <1>1, <1>12, <2>1 DEF Births
<1>14. \A x \in Sids : Seen(x)' => sess'[x] # "free" /\ \A u \in Tabs : tab'[u].login # x
  BY <1>5, <1>6, <1>7, <1>11, <1>12, <1>13 DEF Births
<1>15. \A u \in Tabs : tab'[u].login # 0 => sess'[tab'[u].login] # "free"
  <2> SUFFICES ASSUME NEW u \in Tabs, tab'[u].login # 0
               PROVE  sess'[tab'[u].login] # "free"
    OBVIOUS
  <2>1. CASE u = t  BY <1>5, <1>6, <1>7, <2>1
  <2>2. CASE u # t
    <3>1. tab'[u].login = tab[u].login /\ tab[u].login \in Sids
      BY <1>6, <2>2, Constants DEF Sids
    <3>2. sess[tab[u].login] # "free"  BY <1>12, <3>1 DEF Births
    <3> QED  BY <1>7, <3>1, <3>2
  <2> QED  BY <2>1, <2>2
<1>16. \A u, v \in Tabs : tab'[u].login # 0 /\ tab'[u].login = tab'[v].login => u = v
  BY <1>5, <1>6, <1>12, <1>13 DEF Births
<1>17. \A u \in Tabs : \A x \in dropped'[u] : sess'[x] = "revoked"
  <2> SUFFICES ASSUME NEW u \in Tabs, NEW x \in dropped[u]
               PROVE  sess'[x] = "revoked"
    BY <1>2
  <2>1. x \in Sids /\ sess[x] = "revoked"  BY <1>12 DEF Births
  <2> QED  BY <1>1, <1>7, <2>1
<1>18. Births'  BY <1>14, <1>15, <1>16, <1>17 DEF Births
<1> QED  BY <1>8, <1>9, <1>10, <1>18

LEMMA LoginReplyStep ==
  ASSUME BrowserInv, NEW t \in Tabs, LoginReply(t)
  PROVE  /\ Types' /\ Births'
         /\ \A u \in Tabs : Owned(tab'[u], gen'[u]) /\ Agree(tab'[u], gen'[u], dropped'[u])
         /\ \A u \in Tabs \ {t} : tab'[u].sid = tab[u].sid
         /\ tab'[t].sid = tab[t].login
<1> USE TabTypes
<1> DEFINE s == tab[t].login
<1>1. Births  BY DEF BrowserInv
<1>2. /\ s \in Sids /\ Room(t) /\ sess[s] # "free" /\ ~Seen(s)
      /\ \A u \in Tabs \ {t} : tab[u].login # s
  <2>1. s \in Sids /\ s # 0 /\ Room(t)  BY Constants DEF LoginReply, Sids
  <2> QED  BY <1>1, <2>1 DEF Births
<1>3. PICK q \in TabStates : /\ q = SetBundle(tab[t], s) /\ q.sid = s /\ q.fresh
                             /\ q.boot = "complete"
  BY SetBundleFields
<1>4. PICK z \in 0..MaxSid : z = 0  BY Constants
<1>5. PICK r : r = [q EXCEPT !.login = z]  OBVIOUS
<1>6. /\ r \in TabStates /\ r.sid = s /\ r.fresh /\ r.boot = "complete" /\ r.login = 0
  BY <1>3, <1>4, <1>5 DEF TabStates
<1>7. /\ cookie' = [sid |-> s, age |-> Current] /\ NoteDrop(t)
      /\ tab' = [tab EXCEPT ![t] = r] /\ gen' = [gen EXCEPT ![t] = BumpEpoch(@)]
      /\ chan' = Published(t, "authenticated", s)
      /\ UNCHANGED <<locks, lock, sess, stray, left>>
  BY <1>3, <1>4, <1>5 DEF LoginReply
<1>8. cookie' \in Cookies /\ cookie'.sid = s  BY <1>7 DEF Cookies
<1>9. Queued(chan)'
  <2>1. Queued(Published(t, "authenticated", s))  BY <1>2, PublishedQueued
  <2> QED  BY <1>7, <2>1 DEF Queued
<1>10. /\ dropped' \in [Tabs -> SUBSET Sids]
       /\ \A u \in Tabs \ {t} : dropped'[u] = dropped[u]
       /\ \A x \in dropped'[t] : x \in dropped[t] \/ (x = tab[t].sid /\ sess[x] = "revoked")
  <2>1. tab'[t] \in TabStates  BY <1>6, <1>7 DEF Types
  <2> QED  BY <1>7, <2>1, NoteDropEffect
<1>11. s \notin dropped'[t] /\ s # tab[t].sid  BY <1>2, <1>10 DEF Seen
<1>12. /\ tab' \in [Tabs -> TabStates] /\ gen' \in [Tabs -> Refreshes]
       /\ tab'[t] = r
       /\ \A u \in Tabs \ {t} : tab'[u] = tab[u] /\ gen'[u] = gen[u]
       /\ Owned(tab'[t], gen'[t]) /\ Agree(tab'[t], gen'[t], dropped'[t])
       /\ gen'[t].ck.sid = gen[t].ck.sid
  BY <1>6, <1>7, <1>11, BumpEffect
<1>13. Types'  BY <1>7, <1>8, <1>9, <1>10, <1>12 DEF Types, Queued
<1>14. \A u \in Tabs : Owned(tab'[u], gen'[u]) /\ Agree(tab'[u], gen'[u], dropped'[u])
  BY <1>10, <1>12
<1>15. ASSUME NEW x \in Sids, x # s, Seen(x)'  PROVE Seen(x)
  <2>1. cookie'.sid # x  BY <1>8, <1>15
  <2>2. PICK u \in Tabs : tab'[u].sid = x \/ gen'[u].ck.sid = x \/ x \in dropped'[u]
    BY <1>15, <2>1 DEF Seen
  <2>3. CASE u = t  BY <1>6, <1>10, <1>12, <1>15, <2>2, <2>3 DEF Seen
  <2>4. CASE u # t  BY <1>10, <1>12, <2>2, <2>4 DEF Seen
  <2> QED  BY <2>3, <2>4
<1>16. \A u \in Tabs : tab'[u].login \in {0, tab[u].login} /\ tab'[u].login # s
  <2>1. s # 0  BY <1>2, Constants DEF Sids
  <2> QED  BY <1>2, <1>6, <1>12, <2>1
<1>17. \A x \in Sids : Seen(x)' => sess'[x] # "free" /\ \A u \in Tabs : tab'[u].login # x
  <2> SUFFICES ASSUME NEW x \in Sids, Seen(x)'
               PROVE  sess'[x] # "free" /\ \A u \in Tabs : tab'[u].login # x
    OBVIOUS
  <2>1. CASE x = s  BY <1>2, <1>7, <1>16, <2>1
  <2>2. CASE x # s
    <3>1. Seen(x) /\ x # 0  BY <1>15, <2>2, Constants DEF Sids
    <3> QED  BY <1>1, <1>7, <1>16, <3>1 DEF Births
  <2> QED  BY <2>1, <2>2
<1>18. \A u \in Tabs : tab'[u].login # 0 => sess'[tab'[u].login] # "free"
  BY <1>1, <1>7, <1>16 DEF Births
<1>19. \A u, v \in Tabs : tab'[u].login # 0 /\ tab'[u].login = tab'[v].login => u = v
  BY <1>1, <1>16 DEF Births
<1>20. \A u \in Tabs : \A x \in dropped'[u] : sess'[x] = "revoked"
  BY <1>1, <1>7, <1>10 DEF Births
<1>21. Births'  BY <1>17, <1>18, <1>19, <1>20 DEF Births
<1> QED  BY <1>6, <1>12, <1>13, <1>14, <1>21

--------------------------------------------------------------------------------
(***************************************************************************)
(* While nothing has gone wrong, nothing goes wrong.                       *)
(***************************************************************************)
LEMMA CalmNote ==
  ASSUME BrowserInv, Calm, NEW t \in Tabs, NEW r, CalmTab(r),
         tab' = [tab EXCEPT ![t] = r], UNCHANGED <<lock, cookie, gen, sess, stray, chan>>
  PROVE  Calm'
<1>1. tab'[t] = r /\ \A u \in Tabs \ {t} : tab'[u] = tab[u]  BY DEF BrowserInv, Types
<1>2. \A u \in Tabs : CalmTab(tab'[u])  BY <1>1 DEF Calm
<1> QED  BY <1>2 DEF Calm

LEMMA CalmJoin ==
  ASSUME BrowserInv, Calm, locks, NEW t \in Tabs, NEW r, CalmTab(r), Refresh(t),
         tab' = [tab EXCEPT ![t] = r], UNCHANGED <<cookie, sess, stray, chan>>
  PROVE  Calm'
<1>1. tab'[t] = r /\ \A u \in Tabs \ {t} : tab'[u] = tab[u]  BY DEF BrowserInv, Types
<1>2. \A u \in Tabs : CalmTab(tab'[u])  BY <1>1 DEF Calm
<1>3. /\ \A u \in Tabs \ {t} : gen'[u] = gen[u]
      /\ gen[t].phase # "none" => gen'[t] = gen[t]
      /\ gen[t].phase = "none" => gen'[t].phase = "lock"
  BY RefreshEffect DEF BrowserInv
<1>4. CASE gen[t].phase # "none"
  <2>1. lock' = lock  BY <1>4 DEF Refresh
  <2>2. \A u \in Tabs : gen'[u] = gen[u]  BY <1>3, <1>4
  <2> QED  BY <1>2, <2>1, <2>2 DEF Calm
<1>5. CASE gen[t].phase = "none"
  <2>1. lock' = Append(lock, t) /\ lock \in Seq(Tabs)  BY <1>5 DEF Refresh, BrowserInv, Types
  <2>2. /\ Len(lock') = Len(lock) + 1 /\ lock'[Len(lock) + 1] = t
        /\ \A k \in 1..Len(lock) : lock'[k] = lock[k] /\ Len(lock) \in Nat
    BY <2>1
  <2>3. gen'[t].phase = "lock"  BY <1>3, <1>5
  <2>4. \A u \in Tabs : CalmRefresh(gen'[u])  BY <1>3, <2>3 DEF Calm, CalmRefresh
  <2>5. \A u \in Tabs : gen'[u].phase # "none" => \E k \in 1..Len(lock') : lock'[k] = u
    <3> SUFFICES ASSUME NEW u \in Tabs, gen'[u].phase # "none"
                 PROVE  \E k \in 1..Len(lock') : lock'[k] = u
      OBVIOUS
    <3>1. CASE u = t
      <4>1. Len(lock) + 1 \in 1..Len(lock')  BY <2>1, <2>2
      <4> QED  BY <2>2, <3>1, <4>1
    <3>2. CASE u # t
      <4>1. PICK k \in 1..Len(lock) : lock[k] = u  BY <1>3, <3>2 DEF Calm
      <4>2. k \in 1..Len(lock')  BY <2>1, <2>2
      <4> QED  BY <2>2, <4>1, <4>2
    <3> QED  BY <3>1, <3>2
  <2>6. \A u \in Tabs : gen'[u].phase \in {"sent", "replied"} => Head(lock') = u
    <3> SUFFICES ASSUME NEW u \in Tabs, gen'[u].phase \in {"sent", "replied"}
                 PROVE  Head(lock') = u
      OBVIOUS
    <3>1. u # t /\ gen'[u] = gen[u]  BY <1>3, <2>3
    <3>2. Head(lock) = u /\ \E k \in 1..Len(lock) : lock[k] = u  BY <3>1 DEF Calm
    <3>3. 1 \in 1..Len(lock)  BY <2>1, <3>2
    <3> QED  BY <2>1, <2>2, <3>2, <3>3
  <2>7. (\A u \in Tabs : gen'[u].phase # "replied") => cookie'.age = Current
    <3>1. (\A u \in Tabs : gen'[u].phase # "replied") => \A u \in Tabs : gen[u].phase # "replied"
      BY <1>3, <1>5
    <3> QED  BY <3>1 DEF Calm
  <2> QED  BY <1>2, <2>4, <2>5, <2>6, <2>7 DEF Calm
<1> QED  BY <1>4, <1>5

(* The tab with a request under way is the holder of the lock, alone.      *)
LEMMA CalmHolder ==
  ASSUME BrowserInv, Calm, NEW t \in Tabs,
         \/ gen[t].phase \in {"sent", "replied"}
         \/ gen[t].phase = "lock" /\ Head(lock) = t
  PROVE  /\ lock \in Seq(Tabs) /\ lock # <<>> /\ Head(lock) = t
         /\ \A u \in Tabs \ {t} : gen[u].phase \notin {"sent", "replied"}
<1>1. lock \in Seq(Tabs)  BY DEF BrowserInv, Types
<1>2. Head(lock) = t /\ \E k \in 1..Len(lock) : lock[k] = t  BY DEF Calm
<1>3. lock # <<>>  BY <1>1, <1>2
<1> QED  BY <1>1, <1>2, <1>3 DEF Calm

LEMMA CalmGrant ==
  ASSUME BrowserInv, Calm, NEW t \in Tabs, gen[t].phase = "lock", Head(lock) = t,
         gen' = [gen EXCEPT ![t] = Posted(@, tab[t].sid)],
         UNCHANGED <<lock, cookie, sess, tab, stray, chan>>
  PROVE  Calm'
<1>1. /\ lock \in Seq(Tabs) /\ lock # <<>> /\ Head(lock) = t
      /\ \A u \in Tabs \ {t} : gen[u].phase \notin {"sent", "replied"}
  BY CalmHolder
<1>2. PICK n \in 0..MaxSid : n = tab[t].sid  BY TabTypes
<1>3. PICK g : g = Posted(gen[t], n)  OBVIOUS
<1>4. gen[t] \in Refreshes /\ cookie \in Cookies  BY TabTypes
<1>5. g.phase = "sent" /\ g.ck = cookie /\ g.exp = n
  BY <1>3, <1>4 DEF Posted, Refreshes
<1>6. gen'[t] = g /\ \A u \in Tabs \ {t} : gen'[u] = gen[u]
  BY <1>2, <1>3 DEF BrowserInv, Types
<1>7. cookie.age = Current /\ cookie.sid = 1  BY <1>1 DEF Calm
<1>8. n \in {0, 1}  BY <1>2 DEF Calm, CalmTab
<1>9. CalmRefresh(g)  BY <1>5, <1>7, <1>8 DEF CalmRefresh
<1>10. \A u \in Tabs : CalmRefresh(gen'[u])  BY <1>6, <1>9 DEF Calm
<1>11. \A u \in Tabs : gen'[u].phase # "none" => \E k \in 1..Len(lock') : lock'[k] = u
  BY <1>6 DEF Calm
<1>12. \A u \in Tabs : gen'[u].phase \in {"sent", "replied"} => Head(lock') = u
  BY <1>1, <1>6
<1> QED  BY <1>7, <1>10, <1>11, <1>12 DEF Calm

LEMMA CalmServe ==
  ASSUME BrowserInv, Calm, NEW t \in Tabs, ServeRefresh(t)
  PROVE  Calm'
<1>1. gen[t].phase = "sent" /\ UNCHANGED <<lock, tab, chan>>  BY DEF ServeRefresh
<1>2. /\ lock \in Seq(Tabs) /\ lock # <<>> /\ Head(lock) = t
      /\ \A u \in Tabs \ {t} : gen[u].phase \notin {"sent", "replied"}
  BY <1>1, CalmHolder
<1> DEFINE c == gen[t].ck
<1>3. PICK res \in RefreshResult(c, gen[t].exp) :
        /\ sess' = ServedSess(c, res) /\ AgeCookies(c.sid, res)
        /\ gen' = [u \in Tabs |->
             IF u = t THEN [gen[t] EXCEPT !.phase = "replied", !.res = res, !.exp = 0,
                                          !.ck = AnswerCookie(c, res)]
             ELSE Rotated(c.sid, res, gen[u])]
  BY DEF ServeRefresh
<1>4. c.sid = 1 /\ c.age = Current /\ gen[t].exp \in {0, 1} /\ sess[1] = "active"
  BY <1>1 DEF Calm, CalmRefresh
<1>5. res = "rotated"  BY <1>3, <1>4 DEF RefreshResult, Current, Older
<1>6. sess' = sess  BY <1>3, <1>5 DEF ServedSess
<1>7. stray' = <<>>
  <2>1. stray = <<>>  BY DEF Calm
  <2>2. stray' = [k \in DOMAIN stray |-> [stray[k] EXCEPT !.ck = Aged(@, c.sid)]]
    BY <1>3, <1>5 DEF AgeCookies
  <2>3. DOMAIN stray = {}  BY <2>1
  <2> QED  BY <2>2, <2>3
<1>8. cookie'.sid = 1
  <2>1. cookie \in Cookies  BY TabTypes
  <2>2. cookie' = Aged(cookie, c.sid)  BY <1>3, <1>5 DEF AgeCookies
  <2> QED  BY <2>1, <2>2, AgedFields DEF Calm
<1>9. CalmRefresh(gen'[t]) /\ gen'[t].phase = "replied"
  <2>1. c \in Cookies /\ gen[t] \in Refreshes  BY TabTypes
  <2>2. PICK a \in Cookies : a = AnswerCookie(c, res) /\ a.sid = 1 /\ a.age = Current
    BY <1>4, <1>5, <2>1, AnswerFields DEF Accepted
  <2>3. PICK z \in 0..MaxSid : z = 0  BY Constants
  <2>4. gen'[t] = [gen[t] EXCEPT !.phase = "replied", !.res = res, !.exp = z, !.ck = a]
    BY <1>3, <2>2, <2>3
  <2>5. gen'[t].phase = "replied" /\ gen'[t].res = res /\ gen'[t].ck = a
    BY <2>1, <2>4 DEF Refreshes
  <2> QED  BY <1>5, <2>2, <2>5 DEF CalmRefresh
<1>10. ASSUME NEW u \in Tabs \ {t}
       PROVE  gen'[u].phase = gen[u].phase
  <2>1. gen[u] \in Refreshes  BY TabTypes
  <2> QED  BY <1>3, <2>1, RotatedFields
<1>11. \A u \in Tabs : CalmRefresh(gen'[u])
  <2> SUFFICES ASSUME NEW u \in Tabs \ {t}  PROVE CalmRefresh(gen'[u])  BY <1>9
  <2>1. gen[u].phase # "wait"  BY DEF Calm, CalmRefresh
  <2> QED  BY <1>2, <1>10, <2>1 DEF CalmRefresh
<1>12. \A u \in Tabs : gen'[u].phase # "none" => \E k \in 1..Len(lock') : lock'[k] = u
  BY <1>1, <1>10 DEF Calm
<1>13. \A u \in Tabs : gen'[u].phase \in {"sent", "replied"} => Head(lock') = u
  BY <1>1, <1>2, <1>10
<1> QED  BY <1>1, <1>6, <1>7, <1>8, <1>9, <1>11, <1>12, <1>13 DEF Calm

LEMMA CalmSettle ==
  ASSUME BrowserInv, Calm, NEW t \in Tabs, NEW r \in TabStates, NEW o,
         \/ gen[t].phase = "replied" /\ cookie' = gen[t].ck
         \/ gen[t].phase = "lock" /\ Head(lock) = t /\ cookie' = cookie,
         Settle(t, r, o, chan), ~Leaves(r, o), r.sid \in {0, 1}, r.login = 0, r.out = "none",
         r.fresh \/ r.boot = "complete" \/ r.api # "none" => r.sid = 1,
         UNCHANGED <<sess, stray>>
  PROVE  Calm'
<1>1. /\ lock \in Seq(Tabs) /\ lock # <<>> /\ Head(lock) = t
      /\ \A u \in Tabs \ {t} : gen[u].phase \notin {"sent", "replied"}
  BY CalmHolder
<1>2. /\ tab'[t] = Continue(r, o) /\ gen'[t] = NoRefresh /\ lock' = Free(t)
      /\ \A u \in Tabs \ {t} : tab'[u] = tab[u] /\ gen'[u] = gen[u]
  <2>1. Types /\ Queued(chan)  BY TabTypes
  <2> QED  BY <2>1, SettleEffect
<1>3. lock' = Tail(lock)  BY <1>1, <1>2, FreeHolder
<1>4. chan' = chan  BY DEF Settle
<1>5. CalmTab(tab'[t])
  <2>1. /\ tab'[t].sid = r.sid /\ tab'[t].boot = r.boot /\ tab'[t].fresh = r.fresh
        /\ tab'[t].login = r.login /\ tab'[t].out = "none"
        /\ r.api = "none" => tab'[t].api = "none"
    BY <1>2, ContinueFields
  <2> QED  BY <2>1 DEF CalmTab
<1>6. \A u \in Tabs : CalmTab(tab'[u])  BY <1>2, <1>5 DEF Calm
<1>7. gen'[t].phase = "none"  BY <1>2, BlankRecords
<1>8. \A u \in Tabs : CalmRefresh(gen'[u])  BY <1>2, <1>7 DEF Calm, CalmRefresh
<1>9. \A u \in Tabs : gen'[u].phase # "none" => \E k \in 1..Len(lock') : lock'[k] = u
  <2> SUFFICES ASSUME NEW u \in Tabs, gen'[u].phase # "none"
               PROVE  \E k \in 1..Len(lock') : lock'[k] = u
    OBVIOUS
  <2>1. u # t  BY <1>7
  <2>2. PICK k \in 1..Len(lock) : lock[k] = u  BY <1>2, <2>1 DEF Calm
  <2>3. k # 1  BY <1>1, <2>1, <2>2
  <2>4. k - 1 \in 1..Len(lock') /\ lock'[k - 1] = lock[k]  BY <1>1, <1>3, <2>3
  <2> QED  BY <2>2, <2>4
<1>10. \A u \in Tabs : gen'[u].phase \notin {"sent", "replied"}  BY <1>1, <1>2, <1>7
<1>11. cookie'.sid = 1 /\ cookie'.age = Current
  <2>1. CASE gen[t].phase = "replied"  BY <2>1 DEF Calm, CalmRefresh
  <2>2. CASE gen[t].phase = "lock"
    <3>1. \A u \in Tabs : gen[u].phase # "replied"  BY <1>1, <2>2
    <3> QED  BY <2>2, <3>1 DEF Calm
  <2> QED  BY <2>1, <2>2
<1> QED  BY <1>4, <1>6, <1>8, <1>9, <1>10, <1>11 DEF Calm

LEMMA CalmExchange ==
  ASSUME BrowserInv, locks, Calm, NEW t \in Tabs, Exchange(t)
  PROVE  Calm'
<1> USE TabTypes
<1>1. CalmTab(tab[t]) /\ CalmRefresh(gen[t])  BY DEF Calm
<1>2. CASE LockGrant(t)
  <2>1. /\ gen[t].phase = "lock" /\ Head(lock) = t /\ UNCHANGED <<cookie, sess, stray>>
    BY <1>2 DEF LockGrant
  <2>2. CASE gen[t].live  BY <1>2, <2>1, <2>2, CalmGrant DEF LockGrant
  <2>3. CASE ~gen[t].live
    <3>1. Settle(t, tab[t], "transient", chan)  BY <1>2, <2>3 DEF LockGrant
    <3>2. ~Leaves(tab[t], "transient")  BY DEF Leaves
    <3> QED  BY <1>1, <2>1, <3>1, <3>2, CalmSettle DEF CalmTab
  <2> QED  BY <2>2, <2>3
<1>3. ~WaitOver(t)  BY <1>1 DEF WaitOver, CalmRefresh
<1>4. CASE ServeRefresh(t)  BY <1>4, CalmServe
<1>5. CASE Reply(t)
  <2>1. /\ gen[t].phase = "replied" /\ gen[t].res = "rotated" /\ gen[t].ck.sid = 1
        /\ UNCHANGED <<sess, stray>>
    BY <1>1, <1>5 DEF Reply, CalmRefresh
  <2>2. cookie' = gen[t].ck  BY <1>5, <2>1 DEF Reply, JarAfter
  <2>3. CASE ~gen[t].live
    <3>1. Settle(t, tab[t], "transient", chan)  BY <1>5, <2>3 DEF Reply, Superseded
    <3>2. ~Leaves(tab[t], "transient")  BY DEF Leaves
    <3> QED  BY <1>1, <2>1, <2>2, <3>1, <3>2, CalmSettle DEF CalmTab
  <2>4. CASE gen[t].live
    <3>1. Accept(t)
      BY <1>5, <2>1, <2>4
      DEF Reply, RaceAgain, MismatchAgain, OutOfSync, Anonymous, Transient
    <3>2. PICK r : r = SetBundle(tab[t], gen[t].ck.sid)  OBVIOUS
    <3>3. /\ r \in TabStates /\ r.sid = 1 /\ r.login = tab[t].login
          /\ r.out = tab[t].out
      BY <2>1, <3>2, SetBundleFields
    <3>4. Settle(t, r, "authenticated", chan)  BY <3>1, <3>2 DEF Accept
    <3>5. ~Leaves(r, "authenticated")  BY DEF Leaves
    <3>6. r.login = 0 /\ r.out = "none"  BY <1>1, <3>3 DEF CalmTab
    <3> QED  BY <2>1, <2>2, <3>3, <3>4, <3>5, <3>6, CalmSettle
  <2> QED  BY <2>3, <2>4
<1> QED  BY <1>2, <1>3, <1>4, <1>5 DEF Exchange

LEMMA CalmApplication ==
  ASSUME BrowserInv, locks, Calm, NEW t \in Tabs, Application(t)
  PROVE  Calm'
<1> USE TabTypes
<1>1. CalmTab(tab[t]) /\ chan[t] = <<>>  BY DEF Calm
<1>2. CASE ApiRejected(t)
  <2>1. PICK r : r = [tab[t] EXCEPT !.api = "await"]  OBVIOUS
  <2>2. /\ r.sid = tab[t].sid /\ r.login = tab[t].login /\ r.out = tab[t].out
    BY <2>1, ApiFields
  <2>3. /\ tab[t].sid # 0 /\ tab' = [tab EXCEPT ![t] = r] /\ Refresh(t)
        /\ UNCHANGED <<cookie, sess, stray, chan>>
    BY <1>2, <2>1 DEF ApiRejected
  <2>4. CalmTab(r)  BY <1>1, <2>2, <2>3 DEF CalmTab
  <2> QED  BY <2>3, <2>4, CalmJoin
<1>3. CASE ApiRetry(t)
  <2>1. tab[t].sid = 1  BY <1>1, <1>3 DEF ApiRetry, CalmTab
  <2>2. ~Dead(tab[t].sid)  BY <2>1 DEF Dead, Calm
  <2>3. PICK r : r = [tab[t] EXCEPT !.api = "none"]  OBVIOUS
  <2>4. r.sid = tab[t].sid /\ r.login = tab[t].login /\ r.out = tab[t].out
    BY <2>3, ApiFields
  <2>5. /\ tab' = [tab EXCEPT ![t] = r]
        /\ UNCHANGED <<lock, cookie, gen, sess, stray, chan>>
    BY <1>3, <2>1, <2>2, <2>3 DEF ApiRetry
  <2>6. CalmTab(r)  BY <1>1, <2>1, <2>4 DEF CalmTab
  <2> QED  BY <2>5, <2>6, CalmNote
<1>4. ~LoginReply(t) /\ ~LogoutReply(t) /\ ~Deliver(t)
  BY <1>1 DEF LoginReply, LogoutReply, Deliver, CalmTab
<1> QED  BY <1>2, <1>3, <1>4 DEF Application

LEMMA CalmUser ==
  ASSUME BrowserInv, locks, Calm, NEW t \in Tabs, User(t), left' = left
  PROVE  Calm'
<1> USE TabTypes
<1>1. CalmTab(tab[t]) /\ left \in Int  BY Constants DEF Calm, Types
<1>2. CASE Bootstrap(t)
  <2>1. CASE tab[t].fresh
    <3>1. PICK r : r = [tab[t] EXCEPT !.boot = "complete"]  OBVIOUS
    <3>2. /\ r.sid = tab[t].sid /\ r.login = tab[t].login /\ r.out = tab[t].out
      BY <3>1 DEF TabStates
    <3>3. /\ tab' = [tab EXCEPT ![t] = r]
          /\ UNCHANGED <<lock, cookie, gen, sess, stray, chan>>
      BY <1>2, <2>1, <3>1 DEF Bootstrap
    <3>4. CalmTab(r)  BY <1>1, <2>1, <3>2 DEF CalmTab
    <3> QED  BY <3>3, <3>4, CalmNote
  <2>2. CASE ~tab[t].fresh
    <3>1. PICK r : r = [tab[t] EXCEPT !.boot = "checking"]  OBVIOUS
    <3>2. /\ r.sid = tab[t].sid /\ r.login = tab[t].login /\ r.out = tab[t].out
          /\ r.boot = "checking" /\ r.fresh = tab[t].fresh /\ r.api = tab[t].api
      BY <3>1 DEF TabStates
    <3>3. /\ tab' = [tab EXCEPT ![t] = r] /\ Refresh(t)
          /\ UNCHANGED <<cookie, sess, stray, chan>>
      BY <1>2, <2>2, <3>1 DEF Bootstrap
    <3>4. CalmTab(r)  BY <1>1, <3>2 DEF CalmTab
    <3> QED  BY <3>3, <3>4, CalmJoin
  <2> QED  BY <2>1, <2>2
<1>3. CASE AgeToken(t)
  <2>0. PICK b \in BOOLEAN : b = FALSE  BY Zenon
  <2>1. PICK r : r = [tab[t] EXCEPT !.fresh = b]  OBVIOUS
  <2>2. /\ r.sid = tab[t].sid /\ r.login = tab[t].login /\ r.out = tab[t].out
    BY <2>1 DEF TabStates
  <2>3. /\ tab' = [tab EXCEPT ![t] = r] /\ tab[t].fresh
        /\ UNCHANGED <<lock, cookie, gen, sess, stray, chan>>
    BY <1>3, <2>0, <2>1 DEF AgeToken
  <2>4. CalmTab(r)  BY <1>1, <2>2, <2>3 DEF CalmTab
  <2> QED  BY <2>3, <2>4, CalmNote
<1>4. CASE AcceptRotation(t)
  <2>1. PICK n \in 0..MaxSid : n = tab[t].sid  OBVIOUS
  <2>2. PICK r : r = SetBundle(tab[t], n)  OBVIOUS
  <2>3. r.sid = n /\ r.login = tab[t].login /\ r.out = tab[t].out
    BY <2>2, SetBundleFields
  <2>4. /\ tab' = [tab EXCEPT ![t] = r] /\ gen' = [gen EXCEPT ![t] = BumpEpoch(@)]
        /\ tab[t].fresh /\ UNCHANGED <<lock, cookie, sess, stray, chan>>
    BY <1>4, <2>1, <2>2 DEF AcceptRotation
  <2>5. CalmTab(r)  BY <1>1, <2>1, <2>3, <2>4 DEF CalmTab
  <2>6. \A u \in Tabs : CalmTab(tab'[u])  BY <2>4, <2>5 DEF Calm, Types
  <2>7. PICK g \in Refreshes : g = gen[t]  OBVIOUS
  <2>8. PICK h : h = BumpEpoch(g)  OBVIOUS
  <2>9. h.phase = g.phase /\ h.ck = g.ck /\ h.res = g.res /\ h.exp = g.exp
    BY <2>8, BumpEpochFields
  <2>10. gen'[t] = h /\ \A u \in Tabs \ {t} : gen'[u] = gen[u]
    BY <2>4, <2>7, <2>8 DEF Types
  <2>11. \A u \in Tabs : gen'[u].phase = gen[u].phase  BY <2>7, <2>9, <2>10
  <2>12. \A u \in Tabs : CalmRefresh(gen'[u])
    <3>1. CalmRefresh(gen'[t])
      <4>1. CalmRefresh(g)  BY <2>7 DEF Calm
      <4> QED  BY <2>9, <2>10, <4>1 DEF CalmRefresh
    <3> QED  BY <2>10, <3>1 DEF Calm
  <2> QED  BY <2>4, <2>6, <2>11, <2>12 DEF Calm
<1>5. ~LoginServed(t) /\ ~LogoutServed(t) /\ ~Reload(t)
  <2>1. left' # left - 1  BY <1>1
  <2>2. tab[t].out # "again"  BY <1>1 DEF CalmTab
  <2> QED  BY <2>1, <2>2 DEF LoginServed, LogoutServed, Reload
<1> QED  BY <1>2, <1>3, <1>4, <1>5 DEF User

LEMMA NothingGained ==
  ASSUME BrowserInv, [Next]_vars
  PROVE  locks' = locks /\ left' \in {left, left - 1}
<1>1. ASSUME NEW t \in Tabs, Exchange(t)
      PROVE  locks' = locks /\ left' = left
  BY <1>1 DEF Exchange, LockGrant, WaitOver, ServeRefresh, Reply
<1>2. ASSUME NEW t \in Tabs, Application(t)
      PROVE  locks' = locks /\ left' = left
  BY <1>2 DEF Application, ApiRejected, ApiRetry, LoginReply, LogoutReply, Deliver
<1>3. ASSUME NEW t \in Tabs, User(t)
      PROVE  locks' = locks /\ left' \in {left, left - 1}
  BY <1>3 DEF User, Bootstrap, AgeToken, LoginServed, AcceptRotation, LogoutServed, Reload
<1>4. ASSUME NEW t \in Tabs, Fault(t)
      PROVE  locks' = locks /\ left' \in {left, left - 1}
  BY <1>4 DEF Fault, FailRefresh, Expire, IgnoreLate
<1>5. CASE ServeStray  BY <1>5 DEF ServeStray
<1>6. ASSUME NEW s \in Sids, RevokedElsewhere(s)
      PROVE  locks' = locks /\ left' \in {left, left - 1}
  BY <1>6 DEF RevokedElsewhere
<1>7. CASE UNCHANGED vars  BY <1>7 DEF vars
<1> QED  BY <1>1, <1>2, <1>3, <1>4, <1>5, <1>6, <1>7 DEF Next

LEMMA HealthyKept ==
  ASSUME BrowserInv, [Next]_vars
  PROVE  Healthy'
<1>1. locks' = locks /\ left' \in {left, left - 1}  BY NothingGained
<1>2. left \in Int /\ MaxEvents \in Nat  BY Constants DEF BrowserInv, Types
<1> SUFFICES ASSUME locks  PROVE left' <= MaxEvents /\ (left' = MaxEvents => Calm')
  BY <1>1 DEF Healthy
<1>3. left <= MaxEvents /\ (left = MaxEvents => Calm)  BY DEF BrowserInv, Healthy
<1>4. left' <= MaxEvents  BY <1>1, <1>2, <1>3
<1>5. ASSUME left' = MaxEvents  PROVE Calm'
  <2>1. left' = left /\ Calm  BY <1>1, <1>2, <1>3, <1>5
  <2>0. left' # left - 1  BY <1>2, <2>1
  <2>2. ASSUME NEW t \in Tabs  PROVE ~Fault(t)
    BY <2>0 DEF Fault, FailRefresh, Expire, IgnoreLate
  <2>3. ~ServeStray  BY <2>1 DEF ServeStray, Calm
  <2>4. ASSUME NEW s \in Sids  PROVE ~RevokedElsewhere(s)
    BY <2>0 DEF RevokedElsewhere
  <2>5. CASE UNCHANGED vars  BY <2>1, <2>5 DEF vars, Calm
  <2> QED  BY <2>1, <2>2, <2>3, <2>4, <2>5, CalmExchange, CalmApplication, CalmUser DEF Next
<1> QED  BY <1>4, <1>5

--------------------------------------------------------------------------------
(***************************************************************************)
(* The theorems.                                                           *)
(***************************************************************************)
LEMMA InitHolds == Init => BrowserInv
<1> SUFFICES ASSUME Init  PROVE BrowserInv  OBVIOUS
<1>1. cookie \in Cookies /\ cookie.sid = 1 /\ cookie.age = Current
  BY Constants DEF Init, Cookies, Current
<1>2. \A t \in Tabs : tab[t] = NewTab /\ gen[t] = NoRefresh /\ dropped[t] = {} /\ chan[t] = <<>>
  BY DEF Init
<1>3. Types
  <2>1. tab \in [Tabs -> TabStates] /\ gen \in [Tabs -> Refreshes]  BY BlankRecords DEF Init
  <2>2. sess \in [Sids -> {"free", "active", "revoked"}]  BY DEF Init
  <2>3. <<>> \in Seq(Tabs) /\ <<>> \in Seq(Posts) /\ <<>> \in Seq(Events) /\ Len(<<>>) = 0
    OBVIOUS
  <2>4. chan \in [Tabs -> Seq(Events)] /\ \A t \in Tabs : Len(chan[t]) <= MaxQueue
    BY <2>3, Constants DEF Init
  <2>5. left \in 0..(MaxEvents + MaxUnlocked)  BY Constants DEF Init
  <2>6. dropped \in [Tabs -> SUBSET Sids]  BY DEF Init
  <2> QED  BY <1>1, <2>1, <2>2, <2>3, <2>4, <2>5, <2>6 DEF Init, Types
<1>4. \A t \in Tabs : Owned(tab[t], gen[t]) /\ Agree(tab[t], gen[t], dropped[t])
  BY <1>2, BlankRecords DEF Owned, Agree
<1>5. Births
  <2>1. \A s \in Sids : Seen(s) => s = 1
    <3> SUFFICES ASSUME NEW s \in Sids, Seen(s)  PROVE s = 1  OBVIOUS
    <3>1. s # 0  BY Constants DEF Sids
    <3>2. \A t \in Tabs : tab[t].sid = 0 /\ gen[t].ck.sid = 0  BY <1>2, BlankRecords, Constants
    <3> QED  BY <1>1, <1>2, <3>1, <3>2 DEF Seen
  <2>2. \A t \in Tabs : tab[t].login = 0  BY <1>2, BlankRecords
  <2>3. sess[1] = "active" /\ 1 # 0  BY Constants DEF Init
  <2> QED  BY <1>2, <2>1, <2>2, <2>3 DEF Births
<1>6. Healthy
  <2>1. Calm
    <3>1. \A t \in Tabs : CalmTab(tab[t]) /\ CalmRefresh(gen[t]) /\ gen[t].phase = "none"
      BY <1>2, BlankRecords DEF CalmTab, CalmRefresh
    <3>2. sess[1] = "active" /\ stray = <<>>  BY Constants DEF Init
    <3> QED  BY <1>1, <1>2, <3>1, <3>2 DEF Calm
  <2> QED  BY <2>1, Constants DEF Init, Healthy
<1> QED  BY <1>3, <1>4, <1>5, <1>6 DEF BrowserInv

(* Every step but a login's is a Step.                                     *)
LEMMA ActionSteps ==
  ASSUME BrowserInv, Next
  PROVE  Step \/ \E t \in Tabs : LoginServed(t) \/ LoginReply(t)
<1>1. ASSUME NEW t \in Tabs, Exchange(t)  PROVE Step
  BY <1>1, GrantStep, ServeRefreshStep, ReplyStep DEF Exchange
<1>2. ASSUME NEW t \in Tabs, Application(t), ~LoginReply(t)  PROVE Step
  BY <1>2, ApiRejectedStep, ApiRetryStep, LogoutReplyStep, DeliverStep DEF Application
<1>3. ASSUME NEW t \in Tabs, User(t), ~LoginServed(t)  PROVE Step
  BY <1>3, BootstrapStep, AgeTokenStep, AcceptRotationStep, LogoutServedStep, ReloadStep
  DEF User
<1>4. ASSUME NEW t \in Tabs, Fault(t)  PROVE Step
  BY <1>4, FailRefreshStep, ExpireStep, IgnoreLateStep DEF Fault
<1>5. CASE ServeStray  BY <1>5, ServeStrayStep
<1>6. ASSUME NEW s \in Sids, RevokedElsewhere(s)  PROVE Step
  BY <1>6, RevokedElsewhereStep
<1> QED  BY <1>1, <1>2, <1>3, <1>4, <1>5, <1>6 DEF Next

LEMMA StepKeeps == BrowserInv /\ [Next]_vars => BrowserInv'
<1> SUFFICES ASSUME BrowserInv, [Next]_vars  PROVE BrowserInv'  OBVIOUS
<1>1. Healthy'  BY HealthyKept
<1>2. CASE Step
  <2>1. Births'  BY <1>2, BirthsKept
  <2> QED  BY <1>1, <1>2, <2>1 DEF Step, TabStep, BrowserInv
<1>3. ASSUME NEW t \in Tabs, LoginServed(t)  PROVE BrowserInv'
  BY <1>1, <1>3, LoginServedStep DEF BrowserInv
<1>4. ASSUME NEW t \in Tabs, LoginReply(t)  PROVE BrowserInv'
  BY <1>1, <1>4, LoginReplyStep DEF BrowserInv
<1>5. CASE UNCHANGED vars
  BY <1>5 DEF BrowserInv, Types, Births, Seen, Healthy, Calm, vars
<1> QED  BY <1>2, <1>3, <1>4, <1>5, ActionSteps

(* The inductive invariant holds throughout.                               *)
THEOREM BrowserInvariant == Spec => []BrowserInv
  BY InitHolds, StepKeeps, PTL DEF Spec

(* Type correctness, the bound on the attempts of a refresh included.      *)
THEOREM TypeCorrect == Spec => []TypeOK
<1>1. BrowserInv => TypeOK
  <2> SUFFICES ASSUME BrowserInv  PROVE TypeOK  OBVIOUS
  <2>1. \A i \in DOMAIN lock : lock[i] \in Tabs  BY DEF BrowserInv, Types
  <2>2. stray = <<>> \/ stray[1] \in Posts  BY DEF BrowserInv, Types
  <2> QED  BY <2>1, <2>2 DEF BrowserInv, Types, TypeOK, Posts
<1> QED  BY <1>1, BrowserInvariant, PTL

(* A tab never shows again a revoked session it has dropped                *)
(* (isRefreshGenerationCurrent, BumpEpoch).                                *)
THEOREM DroppedForGood == Spec => []DroppedStaysDropped
<1>1. BrowserInv => DroppedStaysDropped  BY DEF BrowserInv, Agree, DroppedStaysDropped
<1> QED  BY <1>1, BrowserInvariant, PTL

(* 'checking' always has a live refresh behind it                          *)
(* (expireRefreshGeneration, bootstrapAuthentication).                     *)
THEOREM CheckingOwned == Spec => []CheckingHasOwner
<1>1. BrowserInv => CheckingHasOwner  BY DEF BrowserInv, Owned, CheckingHasOwner
<1> QED  BY <1>1, BrowserInvariant, PTL

(* With locks and without faults, no tab loses its session, however many   *)
(* tabs refresh (performRefreshWithBrowserLock).                           *)
THEOREM HealthyTabs == Spec => []HealthyStaysIn
<1>1. BrowserInv => HealthyStaysIn
  <2> SUFFICES ASSUME BrowserInv, left = MaxEvents, locks
               PROVE  /\ sess[1] = "active" /\ cookie.sid = 1
                      /\ \A t \in Tabs : tab[t].boot = "complete" => tab[t].sid = 1
    BY DEF HealthyStaysIn
  <2> QED  BY DEF BrowserInv, Healthy, Calm, CalmTab
<1> QED  BY <1>1, BrowserInvariant, PTL

(* No refresh moves a tab from one session to another without clearing it  *)
(* first (X-Auth-Session and AUTH_SESSION_MISMATCH).                       *)
THEOREM SwitchNeverSilent == Spec => NoSilentSwitch
<1>1. BrowserInv /\ BrowserInv' /\ [Next]_vars =>
        [\A t \in Tabs : tab[t].sid # 0 /\ tab'[t].sid \notin {0, tab[t].sid}
                           => tab[t].login = tab'[t].sid]_vars
  <2> SUFFICES ASSUME BrowserInv, BrowserInv', Next, NEW t \in Tabs,
                      tab[t].sid # 0, tab'[t].sid \notin {0, tab[t].sid}
               PROVE  tab[t].login = tab'[t].sid
    OBVIOUS
  <2>1. ~Step  BY DEF Step, TabStep
  <2>2. PICK u \in Tabs : LoginServed(u) \/ LoginReply(u)  BY <2>1, ActionSteps
  <2>3. ~LoginServed(u)  BY LoginServedStep
  <2>4. u = t /\ tab'[t].sid = tab[t].login  BY <2>2, <2>3, LoginReplyStep
  <2> QED  BY <2>4
<1> QED  BY <1>1, BrowserInvariant, PTL DEF Spec, NoSilentSwitch

================================================================================
