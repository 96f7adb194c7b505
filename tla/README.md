# Verification of MyAPI's billing, tasks and sessions

MyAPI is an AI API gateway written in Go: clients call it with an API token, it
chooses an upstream account, relays the request, and charges the user. The
hard part of the program is not the relaying but the bookkeeping around it.
Several nodes share one SQL database; request goroutines, retries, background
workers and human reviewers all write the same quota rows; nodes die between a
charge and its settlement; and a reply that was lost says nothing about whether
the transaction committed. Its web application, in TypeScript, shares one refresh
cookie among all tabs of a browser and streams answers into a chat page. This
directory holds TLA+ models of these protocols, TLC configurations that check
them on small instances, and theorems that TLAPS proves for every instance.

Source paths below are relative to the repository root. `PROJECT.json` maps
every definition to the lines it models.

## 1. Inventory

| Component | State it keeps | Operations | Talks to | What is hard | Status |
|---|---|---|---|---|---|
| System task runner (`model/system_task.go`, `service/system_task.go`) | task rows, one lock row per type, runner goroutines | create, claim, heartbeat, finish, stale sweep | every periodic job | lease taken and task marked in two statements, late heartbeats, crashes | modelled |
| Account quota kernel (`model/account_quota_mutation.go`) | wallet, token and subscription balances, reservation heads, receipt chains | reserve, extend, settle, refund | billing session, recovery, review | retries after lost replies, racing terminals, range limits | modelled but for direct token mutation |
| Refund recovery (`model/account_quota_recovery.go`) | one lifecycle obligation per reservation, worker claims | persist intent, claim, refund, finish or retry | kernel | crashed and slow workers, stale reads, leases | modelled but for parking of malformed rows |
| Dispatch evidence and usage review (`model/text_dispatch.go`, `model/account_quota_usage_review.go`) | pending markers, unknown-usage state | set, clear, hold, resolve | kernel, relay | a request that may have been sent must not be refunded | markers and holds modelled; realtime checkpoints not yet |
| Strict token and fee budgets (`model/token_budget.go`, `service/token_budget.go`, `middleware/token_budget.go`, `model/usage_review.go`) | budget row, reservation rows, review decisions | admit, reserve, send, settle, hold, cancel, reconcile, configure | relay, reviewers | lost replies around the send mark, review racing settlement, stale policy | modelled for one token; account thresholds and shares not yet |
| Subscription plans (`model/subscription.go`) | usage and reset times | select, reset, purchase, expire | kernel | reset under an outstanding hold | selection and reset modelled |
| Billing session, settlement and refund facts, execution permits (`service/billing_session.go`, `model/account_quota_*_fact.go`) | durable facts, permits | open, settle, refund, recover | kernel | fact before effect, permit expiry | planned |
| Quota writer epochs and batch drain (`model/quota_writer_*.go`, `model/quota_batch_drain.go`) | epoch row, Redis journal, generations | switch mode, drain, confirm | legacy and new writer | crash between Redis and database, mixed fleet | planned |
| Task recovery (`model/task_recovery.go`, `model/quota_mutation*.go`) | operations, attempts, billing events | submit, poll, bill, reclaim | task polling | reclaim racing apply | planned |
| Projection (`model/quota_projection.go`) | obligations, cache versions | project, retry | Redis | order of projections | planned |
| User sessions (`model/user_session.go`, `service/auth_session.go`) | session row, Redis snapshot, refresh chain | create, read through the cache, rotate, advance, revoke | middleware, browser | refresh replay, stale cache fill, failing Redis | one session modelled; listing and the session limit are not |
| Browser authentication client (`web/src/lib/auth-session.ts`, `auth-session-sync.ts`, `http-client.ts`, `web/src/stores/auth-store.ts`) | store of each tab, refresh generation, browser lock, shared cookie, events between tabs | bootstrap, refresh, retry a rejected request, sign in, sign out, rotate | session handlers | tabs refreshing one cookie, answers after sign-out, late events | modelled but for GET de-duplication and the capability refresh |
| Playground chat client (`web/src/features/playground`) | request generation, stream controller, chunk buffer, message list, stored copy | send, stream, stop, retry, edit, delete, clear, save, load | chat completions | late chunks, queued state updates, stop racing completion | one conversation modelled |
| Rest of the web application (`web/src`) | forms, tables, query cache of a library | render, submit | HTTP API | no protocol of its own | not modelled |
| User authorization caches and login flows (`model/auth_flow.go`) | one-time flow tokens, authorization version | begin, consume, compare | sessions | a flow consumed twice | planned |
| Credential rotation and dispatch admission (`model/token_credential_*.go`) | credentials, admissions | rotate, admit | relay | admission racing rotation | planned |
| Subscription share pools (`model/subscription_share.go`) | pools, attempts | bind, charge | billing facts | mirrors the facts | planned |
| Channel selection, affinity, failover (`service/channel_*.go`, `model/relay_account_hold.go`) | ability cache, affinity, holds | select, hold, retry | relay | stale snapshot, retry limits | planned |
| Rate limits, row caches, top-ups, options, logs, adaptors, controllers | caches, buckets, append-only rows | | | mostly I/O and conversion | planned last or not modelled |

Properties that make the parts correct:

* system tasks: no task's handler is started twice, a task ends once, and it
  always ends;
* quota: the balances are the initial ones less what the receipts say; a
  request is closed once; what may have been sent is not given back; a recorded
  refund intent is applied;
* budgets: one unresolved request per token; a called request is never released
  as unsent; limits hold; a review and the settlement agree; a policy is changed
  only from a current reading;
* sessions: what a revocation has published is never undone by a slower reader;
  without that publication, and for an advance of the version, staleness is
  bounded; only real reuse of a refresh token revokes a session;
* browser: a tab never shows another account silently, never shows again a dead
  session it has dropped, is not left checking for ever, and drops a revoked
  session; tabs that do nothing but refresh do not log each other out;
* playground: text that was received is shown in its own answer, in order and
  complete but for repeated words; the page is set busy exactly while a request
  holds its promise; leaving it saves what was last rendered.

## 2. Modules

### SystemTask

State: `status` and `owner` are the task rows (with `active_key` implied by an
active status), `lock` the lock row of the type with one bit for its lease,
`pass` a runner's position in its claim or sweep pass together with what it has
read, `lapsed` the runners whose pass read a `now` past the row's
`locked_until`, `execs` the running handlers with their heartbeat, and `starts`,
a history variable, how many handlers were ever started for each task. One
database statement is one step, so everything that happens between two
statements of `ClaimSystemTask`, `ExpireStaleSystemTaskLocks` and
`FinishSystemTask` is an interleaving, and every statement may fail.

`ClaimStalls` says whether a claimer may be delayed for longer than the lease
between acquiring the lock and marking the task. `ReleaseFails` says whether the
release of an abandoned claim, whose error `ClaimSystemTask` ignores, may leave
the lock row behind. The safety theorems hold for both values of both. The
liveness run has both `FALSE`; the counterexample runs have `ReleaseFails =
TRUE`. Acquiring the lock is one step although the code tries an insert, reads the
row and compares-and-sets what it read: an insert or a compare-and-set that
succeeds is atomic, and a loser of either gives up, which the step may do at any
time. Types do not share
rows, so one type is enough. Payload, progress and results are data. A restarted
node draws a new runner id, so a crashed runner does not come back; one runner
always survives, otherwise nothing could be expected to happen.

### AccountQuota

State: four balances, `head` (reservation head together with its terminal
receipt), `ob` (lifecycle obligation with refund intent, dispatch marker, owner,
lease and version), `work` (a recovery worker and the row it has read). Each
operation of the kernel is one transaction that locks its rows in a fixed order,
hence one step; a refusal or a replay of the same receipt changes nothing.
Callers are unconstrained: any operation may be tried at any time, which covers
retries, duplicates and goroutines of several nodes. Receipts of a request are
numbered along its chain, and `InChain` is the walk that accepts an older
receipt up to `ChainDepth` back.

Abstractions: one user, one token, one subscription. Whether a subscription is
active when a reservation selects its source is a free choice. The writer epoch
is constant. A reviewed settlement, which reopens and closes the obligation, is
one version step. A worker's claim is one step although the code reads the row
again after its compare-and-set: a refund that somebody else closes in between
is closed right after the claim in the model, with the same outcome, but a
worker so slow that its lease is lost between the two statements, and which then
reads the next worker's claim, is not in the model. The compare-and-set also
names state, lease and next attempt; every change of those moves the version.
Left out: execution guard and permits, projection obligations,
the known-quota floor of realtime usage and its checkpoints,
`MutateTokenQuotaAuthoritative`, the head backfill, the work cursor (a worker
reads any eligible row, in any order), legacy reservations, and the path that
parks a structurally invalid row (`LifecycleAgreement` says such rows do not
arise from these operations).

### TokenBudget

State: `budget` and `row` are the two tables, `relay` a request goroutine's
position with the fee policy it looked up, `late` the transactions whose reply
it lost, `called` whether the upstream was called, `draft` what an administrator
has read, `review` and `decision` the usage review. Every budget transaction is
one step. `Lost` is a reply that did not arrive: the transaction sits in `late`
and may commit at any later time, or never, while the goroutine goes on along
its error path. `Crash` ends a goroutine anywhere.

Abstractions: one token, decimals as naturals, a settlement's amounts from a
small set. Account thresholds, share bindings and the eligibility of user and
token only refuse, which the free exits cover. Replay of a policy change's
receipt and the limit of 2^53 on revisions are left out. The account-quota half
of a review, and the refund that a released request permits (the refund fact
`CancelTokenBudgetBeforeSend` writes in the same transaction), are not part of
this module. `SettleTokenBudgetUsage` reads the row without a lock before it
settles; the two are one step, since what it takes from that read (owner, bound
source, fee and price evidence) is written once, by the reservation, and the
state is checked by the transaction. Requests without a strict budget do not
touch these rows.

### StrictMeter

The abstract specification of a strict budget: one request at a time holds the
meter, each leaves it once, charged or released, and the totals move by those
charges only. `TokenBudget` instantiates it as `Meter`: the holder is
`budget.pending`, the outcome of a request is read off its row (open until it is
settled or released, then charged with the row's actual amounts), the total is
`used` and `feeUsed`. `ImplementsMeter` is the refinement, checked by
`token_budget`. It fails when a late or repeated settlement charges twice, or
when a lost reply lets a second request in before the first is resolved.

### UserSession

State: `row` is the row of one session (status, version, refresh token and its
predecessor), `cache` its Redis hash, `req` the requests in progress with what
each has read, `hist` when the row last changed. A request is a sequence of
database and Redis steps; the clock and the other requests move between any two,
and each Redis call and each revoking transaction may fail. In particular the
deadline of a cache entry is taken in one step and the row is read in another,
and `writeUserSessionCache` is three: its checks, the script on Redis, and the
check of the time the write took. Refresh secrets form
a chain (`deriveNextRefreshSecret` maps token n to n + 1), so a token is a
number.

What the model brought out, all of it consistent with the documented design:

* `RevokeUserSession` stamps its tombstone with the version it read before the
  fence, so after a concurrent advance the tombstone may be refused; from then
  on only `BoundedStaleness` protects the reader. The same holds when a
  tombstone cannot be written.
* A published advance can be shadowed. A read that stalled after it took its
  deadline may find the advanced row; the script accepts the equal version and
  shortens the life of the advance's entry, and an older observation then fills
  the empty place. So `PublishedStateHolds` is about tombstones, which no active
  snapshot can replace, and for an advance there is only `BoundedStaleness`:
  the older version is gone within the TTL.
* A rotation that read the row before an advance still issues a token of the old
  version, which the next version check refuses.
* The grace window starts at the `now` the rotating request computed, not when
  its swap commits. `CASLag` is that delay, and `GraceHonoured` is stated with it.
* A client whose refresh answer was lost and which retries after the window is
  revoked as a reuse, by design.

`RevokeUserSessionByRefreshHash` does its read, fence and update in one
transaction; the model lets others move in between, since `lockForUpdate` locks
nothing on SQLite. Not modelled: listing, counting and evicting sessions of a
user.

### BrowserAuth

State: per tab the auth store with the API request, sign-out and sign-in it has
under way (`tab`) and the refresh behind `refreshPromise` (`gen`); shared by the
tabs the browser lock, the cookie and the broadcast events (`chan`); on the
server the sessions. The refresh and logout handlers are one step each; what
happens inside such a step is UserSession. `stray` holds refreshes whose tab
gave up but which the server will still serve; the connection is gone, so the
answer and its cookie do not arrive. A refresh token is known by its age
relative to the newest of its session, and `authEpoch` by what it decides:
whether a generation is live.

What the model brought out:

* The late `Set-Cookie` of a superseded refresh can overwrite the cookie of a
  newer login; the next refresh finds the mismatch and the tab signs in again.
* The mismatch recovery of `executeLogout` ends the session of the cookie, which
  may be newer than the one the tab shows (documented in
  `docs/authentication.md`).
* A sign-out with an expired access token and an unknown or missing cookie
  answers success without revoking anything.
* Without `navigator.locks` a refresh delayed past the grace window is answered
  401 and clears a healthy browser's cookie: `HealthyStaysIn` is about browsers
  that have the lock.

Not modelled: the refreshes that `getFreshAuthHeaders` starts before a streaming
request (`auth-session.ts:523-552`; they join or start the same single-flight
refresh as a rejected request, but before a call and by the token's age),
`requiresCapabilityRefresh`, de-duplication of GET requests, the pages behind the
store. Simplified: an answer of 403, or a 200 that does not parse
(`auth-session.ts:333-337`), is not among the server's answers; a tab that is
already on `/sign-in`, where `redirectToSignIn` does nothing
(`http-client.ts:71-78`), gets a new document too; and a refresh that expires
during a race delay frees the browser lock at once, where the code keeps it
until the delay has passed.

### PlaygroundChat

State: the request generation, the stream controller, the connections, the chunk
buffer with its timer, the promise latch, React's queue of state updates, the
messages as last rendered, the open editor, and the stored copy with its save
timer. Stream events and timers queue updaters that are evaluated later; a click
is rendered within its own step, but its handler sees the list as it was last
rendered. The list holds answers; an answer's prompt is its key.

What the model brought out:

* An editor opened before a request can be saved during it. The save replaces
  the list by the one last rendered, so an update still queued is evaluated
  against another list: a chunk may be lost or an answer stay "streaming" until
  the page is loaded again. Such requests are in `lost`, for which only
  "no foreign text" is claimed. So are the requests of an earlier visit.
* A non-streaming answer accepted just before Stop is dropped when React
  evaluates it, although its promise resolved to true.
* A delta that begins with the text buffered since the last flush is taken for a
  snapshot of it, and a batch that begins with the whole answer for a snapshot
  of the answer. A stream that says "ha", "ha" within one 50 ms window shows one
  "ha". `Word` gives each chunk its word, so the model has such streams:
  `ReceivedTextKept` claims the exact text for snapshots and for deltas without
  a repeated word, and otherwise that no word is lost altogether.
* Closing the browser loses up to the 500 ms save delay and the 50 ms buffer
  (`page = "lost"`). Leaving the page within the application stores the list as
  it was last rendered; the buffer and the updates React has not evaluated are
  dropped.
* A stopped exchange counts as a failed draft, which the next send replaces.

Not modelled: a failing write to `localStorage`, which `saveMessages` swallows
(`storage.ts:412-415`), and the trimming of the stored history and of attachments
(`LeaveSaves` is modulo both), React's eager evaluation of an updater that finds
an empty queue (it only evaluates earlier what the model evaluates at the next
rendering), the moment between mount and load, editing an answer itself,
prompts without an answer, models, keys and parameters.

### MC modules and proof modules

`MCAccountQuota`, `MCTokenBudget` and `MCUserSession` hold the finite sets of an
instance and its symmetry, `MCPlaygroundChat` the words of its streams; the
other modules are run as they are. Each `X_proofs` module extends `X` and holds
its theorems; `PlaygroundMessages_proofs` continues `PlaygroundChat_proofs` with
the message list, and `SumTheorems` holds what `AccountQuota_proofs` needs to
know about sums over a finite set.

Definitions whose comment begins with *Mutant* are not part of any
specification. Each is a plausible mistake in the definition below it and breaks
the property `PROJECT.json` names for it.

## 3. Runs

Runs that pass:

| Run | Instance | Distinct states | Shows |
|---|---|---|---|
| `system_task` | 2 runners, 2 tasks, fence 1..2 | 205,115 | no task's handler is started twice, terminal states are final, a takeover never fails a running task, every active task ends |
| `account_quota` | 2 requests, 1 worker, 7 caller profiles, quotas {0, 2}, 1 fault | 856,962 | conservation, lifecycle agreement, single closing, no refund after dispatch, refunds fit, held usage moves by review only, overdraft only by settlement |
| `account_quota_recovery` | 1 request, 2 workers, 2 audit keys, 2 faults, fair | 44,771 | no stale claim revives a closed refund; a persisted refund intent is applied |
| `account_quota_reset` | 2 requests, plan resets | 239,273 | holds that a reset has cleared are extended, settled and refunded: wallet and token stay exact, the subscription never counts more than its requests cost |
| `token_budget` | 2 requests, 1 administrator, 2 reviewers, 1 lost reply or failed read per request | 1,427,335 | agreement of the two tables, a called request is not released, review and settlement agree, a clean exit resolves, and the budget implements StrictMeter |
| `token_budget_policy` | 2 requests, 1 reviewer, 3 policies, policies changed up to revision 5 | 1,839,896 | limits hold across policy changes; a change is applied only to the budget that was read |
| `user_session` | 2 requests on one session, clock 0..4, 2 tokens, 2 versions, failing Redis | 2,004,313 | a published tombstone is not undone by a slow reader, staleness stays below the cache TTL, reuse is declared only outside of the grace window |
| `browser_auth` | 2 tabs, 2 logins, 2 events, with and without the browser lock, fair | 477,543 | no silent switch of account, no dropped session revived, no tab left checking, quiet tabs stay signed in, a revoked session disappears |
| `playground` | 2 requests of 3 chunks, one with a repeated word, 1 editor, 1 visit | 3,022,162 | received text is kept and not mixed, the page is set busy exactly while a request holds the promise, leaving saves the list as last rendered |

Runs that end in a counterexample, each a disagreement between the code and what
the repository says of it:

* `system_task_stall` (`ActiveTaskEnds`): the claim marks the task running
  without checking that it still holds the lock. If it is delayed past the
  lease, the sweep finds a pending task, fails nothing and deletes the lock; the
  task then runs without a lock, its finish is refused, and no sweep sees it
  again. The type's active key stays taken.
* `system_task_sweep` (`LiveTaskNotExpired`): the sweep fails the task of each
  lock it read as expired, even if a heartbeat has renewed it in between.
* `account_quota_reset_refund` (`RefundFits`): a plan reset sets the usage to
  zero under a live hold; the refund of that hold would make it negative, is
  refused as out of range, and is retried without end.

### Bounds

Every bound is a constant. Two runners or workers are what a race over a lease
needs, and two tasks are what a takeover of another task's lock needs; `MaxFence
= 2` makes the fence token wrap, which the code does at its largest integer. In
AccountQuota the amounts 0 and 2 against balances of 3 let one request fit and
two exhaust a balance, so refusals, overdrafts and trust all occur; `MaxVersion`
bounds how often evidence and extensions rewrite a row and `ChainDepth = 2` is
exceeded within it. In TokenBudget the chat window holds exactly the input and
output of one usage and less than another, limits of 3 and 4 admit one request
of size 2 but not always a second, and one lost reply per request is enough for
a late commit to meet every later step of the same and of the other goroutine.

In UserSession a cache life of 2 within a clock of 4 lets an entry be filled,
outlive a revocation and expire, and lets the session itself expire; two tokens
and a window of 1 give replay inside and outside of the window. Three requests
with a cache life of 1, a clock of 3 and no rotation were checked as well
(2,639,079 states) and found nothing more; the theorems are about any number. In
BrowserAuth two logins
are what a switch of accounts needs; `RaceDelays` is 1 instead of 3, since one
retry already separates the first attempt from a repeated one; two events
(sign-in, sign-out, revocation, reload, failure) combine any two disturbances,
and a browser without the lock is run without events (`MaxUnlocked = 0`), where
its refreshes already race. In PlaygroundChat two requests let the end of one
meet the start of the other, and three chunks, `1 2 3` and `1 1 2`, are enough
for order, loss and a repetition that is buffered, flushed or both.

Deadlock is checked in UserSession and not elsewhere: in the other modules every
task, request or event of the instance may be used up.

### Fairness

* SystemTask: every runner keeps taking its claim and sweep passes (both run on a
  ticker; weak fairness of `ClaimStep` and `StaleStep`), a handler returns, and a
  lease that nobody renews runs out. Strong fairness is on the claim pass and on
  the success, by some runner, of the three statements a task's progress needs:
  acquiring the lock, marking the task running, and the sweep's mark. Each may
  fail, but not every time, since the passes are repeated for as long as there
  is something to do.
* AccountQuota (`FairSpec`): every live worker keeps running its pass, because the
  recovery is on a timer of each instance, and leases expire. Failures are
  limited by `MaxFaults`: a refund that fails for ever cannot be promised.
* BrowserAuth: weakly fair progress of each tab. A request is answered or times
  out, the lock is granted in the order of its queue, a timer ends, an event is
  delivered, and an open tab keeps calling the API. Only the last is about the
  user: a tab that calls nothing shows a revoked session for as long as it
  receives no event.
* UserSession and PlaygroundChat state no liveness.
* TokenBudget has no liveness property: by design there is no lease and no
  automatic resolution of a sent request ("There is intentionally no lease expiry
  or automatic refund of Sent", `model/token_budget.go`).

## 4. Proofs

The theorems hold for every value of the constants that satisfies the module's
`ASSUME`: any number of requests, workers, runners, tabs or visits, and any
bounds. The assumptions are type statements, except for these:

* `AccountQuotaAssumption`: the requests are a finite set, and the balances at
  the start lie in `0 .. MaxBalance`, which `model/quota_amount_preflight.go`
  enforces for every quota column before the server starts;
* `TokenBudgetAssumption`: the input bound of a chat request is the whole
  context window;
* `SessionBounds`: a session expires after its creation (`CreateUserSession`
  refuses an `ExpiresAt` that is not in the future).

For each component there is one inductive invariant, and every property is
derived from it.

| Module | Inductive invariant | Derived |
|---|---|---|
| `AccountQuota_proofs` | `QuotaInv` | `TypeCorrect`, `TokenConservation`, `LifecycleConsistent`, `NoRefundAfterDispatch`, `ClaimsAreFresh`, `BalancesAccounted`, `RefundsFit`; action properties `ChargesConserved`, `TerminalOnce`, `HeldUsageStays`, `NoOverdraft` |
| `TokenBudget_proofs` | `BudgetInv` | `TypeCorrect`, `PendingAgrees`, `CalledStays`, `DecisionsMatch`, `CleanExits`, `PolicyReads`, `LimitsHold`; the refinement `MeterImplemented` |
| `SystemTask_proofs` | `TaskInv` | `TypeCorrect`, `ExecutedOnce`, `TakeoverSpares`; action property `EndedStaysEnded` |
| `UserSession_proofs` | `SessionInv` | `TypeCorrect`, `PublishedHolds`, `StalenessBounded`, `GraceKept` |
| `BrowserAuth_proofs` | `BrowserInv` | `TypeCorrect`, `DroppedForGood`, `CheckingOwned`, `HealthyTabs`; action property `SwitchNeverSilent` |
| `PlaygroundChat_proofs` | `PageInv` | `LeavingSaves`, `LatchNeverStuck`, `BufferNeverStuck` |
| `PlaygroundMessages_proofs` | `PageControl`, `ChatInv` | `TypeCorrect`, `ReceivedKept`, `BusyMatchesRequest` |

**AccountQuota.** `LifecycleAgreement` fails in isolation because a worker may
write back the row it read before somebody else closed the refund;
`SnapshotFresh` excludes that: a row still at the version the worker read is the
row it read. That in turn needs that every rewrite moves the version, and
`AbsentRows` pins the version and charge of a reservation that does not exist
yet. The proof of a step is split once: `RowStep` says what a change of one
request's head and obligation must satisfy (`RowOK`), `WorkerMove` the same for
a worker's memory, and each action is then an instance of one of them.
`ChargesConserved` rests on `ApplyFacts` (each balance moves by exactly its part
of the charge). `BalancesAccounted` is its sum over all requests: `SumMoves`
turns the change of one charge into the change of the sum. A plan reset may
bring the subscription's count below the sum, never above. From that and
`InRange` (the balances lie in what the columns can hold) follows `RefundsFit`:
what one request holds is part of the sum, so giving it back cannot exceed what
the account started with. It is stated for `~Resets`; with plan resets it is
false, which is what the run `account_quota_reset_refund` shows.

**Sums.** `SumTheorems` proves that the community module's `SumFunction` is
defined on every finite set, is an integer, and moves exactly as one of its
terms does when the others stay. No theorem with an operator parameter can be
instantiated, so the induction is made on a concrete set: the subsets on which a
claim fails, ordered by strict inclusion, have a minimal element
(`SmallestSubset`, from the well-foundedness theorem of the library), and
removing one element from it contradicts its minimality. `MinOfNaturals` in
`BrowserAuth_proofs` is the same argument for natural numbers.

**TokenBudget.** Seven transactions write the two tables. `TablesInv` is proved
once for each of them, and the invariants of the goroutines (`RelayKnows`), the
reviewers (`ReviewKnows`) and the administrators (`DraftCurrent`) need only the
state change a transaction makes (`Moves`). A late commit is then the same lemma
as the timely one, applied in a later state. `RelayKnows` is where the argument
is: what a goroutine may conclude from its position depends on how many replies
it has lost. `LimitsHold` is about one row at a time (`TransactionWithin`).
`MeterImplemented` shows that each transaction is a step of `StrictMeter` under
the mapping and that every other step leaves the mapped variables unchanged;
`ReportedOnly` is the additional invariant that a charge is one a provider or a
reviewer has reported.

**SystemTask.** Neither the lease nor the unique `active_key` makes an execution
unique; what does is that the update from pending to running succeeds once per
row. `PassKnows` says what a runner still knows after it has read the lock,
`LapsedEnded` that an expired lock row a claimer may take over names its own
task or one that has ended, and `Alone` that no two runners are past that update
for the same row and that the one that is starts the row's first handler.

**UserSession.** What is in Redis was put there by a request that read the row
earlier. So the invariant bounds the deadline of every observation that may
still be written, by the revocation and by the advance it missed (`Bounded`;
the deadline is taken before the read, however late that is), and the life of
an active entry in the same way (`EntryBounded`). `Sealed` says that a published
tombstone lasts until the last active observation has run out.

**BrowserAuth.** `Agree` ties the request and the answer of a live refresh to
what its tab shows and has dropped, `Births` keeps a session that no login has
been answered with out of every tab and cookie, and `Calm` is the state of a
browser in which nothing has gone wrong: only the holder of the lock has a
request under way, so the cookie it sends is the newest. Apart from `Healthy`
each action is an instance of `Step`, which lists what a step may do to one tab.

**PlaygroundChat.** The callbacks of a request are dropped when either of two
generations has moved on, and a promise can be settled by its own request only;
`LastIsCurrent` says that of all requests only the last one sent can be current
in either, so that a new request never strands the promise or the buffer of an
older one.

`PlaygroundMessages_proofs` is about the list. Stream events only queue
updaters; React evaluates them later, at the generation it finds then, which is
the current one or, when Stop comes first, the next. `Generation` therefore
follows two lists, the one the queue would produce now and the one it would
produce after a Stop: both keep every message but the last, and the last one is
`Over` (ended, with all it received) or `Due` (pending, with a prefix of what was
received that the buffered text continues, `Fits`). Each event appends one
updater, so the step needs only what that updater does to the last message
(`BatchUpdates`, `EndUpdates`, `ResponseUpdates`), and a rendering turns one of
the two lists into the rendered one (`RenderedTo`). `PageControl` comes before
it: the request that may still be answered is the last one sent and holds the
promise, and an idle page has an empty queue. The proof rests on two groups of
lemmas about operators: `EvaluateNext`, that the fold over the queue evaluates
one updater after the other (by a smallest counterexample, as for the sums), and
`ChunkFits` and `BatchFits`, that merging deltas or snapshots into a prefix gives
the next prefix: exactly, or, when a delta repeats a word (`Covers`), with the
same words.

`BusyMatchesRequest` says that the busy flags are set exactly while a request
holds the promise. An answer that was cut may still read "streaming" on an idle
page; that is the exemption `lost`, stated in the property.

Only model-checked:

* the liveness properties `ActiveTaskEnds`, `RefundIntentApplied` and
  `RevokedIsDropped`: liveness under fairness is outside the prover's reach;
* what the three counterexample runs show.

## 5. Plan

1. Composition of TokenBudget with AccountQuota: order of the two settlements of
   a review, and the refund that a released request permits.
2. Task recovery with billing events; billing session with settlement and refund
   facts and execution permits.
3. Quota writer epochs, batch drain and the legacy reservation; projection.
4. Login flows and the authorization version; credential rotation and dispatch
   admission.
5. Subscription pre-consume and share pools; channel selection, failover and
   holds; rate limits as algorithms.

Bounds for the planned runs follow the same rule: two of every racing actor, one
failure, and amounts that fit once and not twice.

### Not modelled

The greater part of the TypeScript is forms, tables, dialogs, translations and
generated routes. They render data and submit it, and keep no state that another
actor changes under them except the query cache of a library; a model of them
would restate their assignments. What does carry a protocol there is modelled:
authentication across tabs and the streaming chat. On the Go side the components
marked *planned* above have protocols worth modelling; upstream adaptors,
start-up and the HTTP controllers are conversion and wiring.
