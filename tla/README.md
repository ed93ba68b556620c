# Summonarr: a verification of the request lifecycle and of the server process

Summonarr takes media requests from users, lets admins decide them, pushes them to
Radarr/Sonarr, notices when a title has arrived on Plex or Jellyfin, and tells the
requester once. Around that, one Node process keeps things in memory that the rest relies
on: delayed jobs, pending library scans, a cache of notification agents, the backup upload,
sign-in challenges, revocation marks. This directory models both in TLA+:

* the **request lifecycle** (`RequestFulfilment`), where every step is one SQL statement,
  one transaction or one answer of another service, and all the writers of a request
  interleave freely between them;
* the **server process** (`ServerProcess`), where a step is what a handler, timer or job
  does between two awaits, and a restart may come between any two.

TLC checks small instances; TLAPS proves every safety property the runs check, and that the
lifecycle implements its board, for every instance.

Source paths below are relative to `src/` of the application (`app/…`, `lib/…`) unless
they start with `prisma/` or `docs/`.

## 1. Inventory

### The parts, their state and how they meet

| part | code | state | operations | meets the others through |
|---|---|---|---|---|
| request table | `prisma/schema.prisma` | `MediaRequest`: status, `notifiedAvailable`, `pendingNotifyAt`, `permanentlyDeclined`, `cleanedUpAt` | – | everything writes it |
| \*arr caches | same | `Radarr/SonarrWantedItem`, `…AvailableItem` | rewritten per sync, edited by webhooks | lock 1001 serialises writers |
| hourly sync | `app/api/sync/route.ts` | two snapshots of the table, fetched libraries, in memory | two \*arr passes, overdue sweep, re-push, demotion, two library passes, notification fallback | table, caches, Radarr/Sonarr, Plex/Jellyfin; `withAdvisoryLock` |
| Resync | `app/api/sync/plex`, `…/jellyfin` | a snapshot, in memory | store one library, mark what it holds | table, wanted cache |
| per-service sync | `app/api/sync/radarr`, `…/sonarr` | – | rewrite that service's caches | caches |
| webhooks | `app/api/webhooks/radarr`, `…/sonarr` | a deferred task, in memory | verify, flip, scan, re-check, poll, announce; evict on deletion | table, caches, `webhook-replay` |
| claim and fan-out | `lib/notify-available.ts`, `lib/request-notifications.ts` | `notifiedAvailable`; map of polls in flight | claim by conditional UPDATE, then every channel | called by all of the above |
| creation | `lib/request-create.ts` | reads before the transaction | serializable create, auto-approve push, rollback, mirror of a greenlit peer | table, Radarr/Sonarr |
| decisions | `app/api/requests/[id]`, `…/batch` | the row as first read | approve, decline, reopen, mark available, retry, delete; batch | table, Radarr/Sonarr |
| removal | `app/api/admin/cleanup/delete`, `lib/arr-title-lifecycle.ts` | `cleanedUpAt`; owned stamps, in memory | stamp, delete, withdraw, re-assert; add back | table, Radarr/Sonarr |
| delayed jobs | `lib/delayed-jobs.ts` | timers, bounded queue, workers, in memory | schedule, fire or drop, run | download checks and notification retries share it |
| download follow-up | `lib/download-check.ts` | `pendingNotifyAt`; a check, in memory | 90-second check and hourly sweep, each consuming the backstop before telling | table, job pool |
| library scan | `lib/library-scan.ts` | one pending entry and one scan per media type, in memory | debounce, wait for the queue, put off, scan | awaited by the webhooks' task |
| replay guard | `lib/webhook-replay.ts` | `WebhookReplay` table | record, renew, withdraw a digest; reap | around every delivery |
| grabs | webhooks, `lib/issue-grab.ts` | `IssueGrab`, a retry marker in `Setting`, the issue | claim, push, mark, auto-resolve | inside the webhooks' handlers |
| agents | `lib/notify-agents.ts` | agent rows; a cache with a generation and one shared read, in memory | load, post, retry, record | job pool, admin's routes |
| backup upload | `lib/import-session.ts`, `db-import-chunk` | one session, a start mutex, append queues, in memory; a directory | open, append, expire, hand over, clear | the restore |
| second factor | `lib/mfa/*` | challenge ledger in memory; counters and codes in the database | mint, reserve, release, commit; lockout | sign-in, step-ups |
| accounts | `lib/account-lifecycle.ts`, `api/admin/users`, `api/profile` | role, deactivation, purge | promote, demote, disable, enable, purge, leave; lock 42 | every route |
| sessions | `lib/session-refresh.ts`, `lib/session-revocation.ts`, `lib/auth.ts` | `AuthSession`; cookies; marks and shared checks, in memory | check, rename, revoke | every route |
| others | play history, watch sync, fix-match, releases, catalogue caches, rate limits, UI | their own tables | – | read the request table at most |

`PROJECT.json` lists every part with what is modelled of it or why it is not.

### What is hard here

* **Stale reads.** The sync runs for minutes on two snapshots and never locks the table;
  each write is guarded only by its own WHERE.
* **Many announcers.** Eight paths may announce a request. One flag and one conditional
  UPDATE have to make that once.
* **Two statements per transition.** The claim marks a row and a second statement disarms
  its backstop; an admin's "mark available" is a compare-and-swap and then a claim.
* **External answers.** A push or a delete may be refused, accepted, or accepted with the
  answer lost; webhooks may be lost, late or out of order; a library may be half read.
* **Crashes.** Deferred tasks, runs and everything the process coordinates with live in
  memory only.
* **State read before an await.** A cached or shared read that an admin's write overtakes; a
  route's read of a role before its transaction; `active` after a disk operation; a cookie
  that vouches for itself.
* **Bounded things.** A pool whose timers accept what its queue drops, a ledger that evicts
  the oldest challenge, a scan that is put off a bounded number of times.
* **Absence as evidence.** Demotion concludes from what several systems do not hold.
* **Late rollbacks and overlapping removals**, each undoing "its own" write by a condition
  other writers may satisfy as well.

### What makes it correct

| part | property |
|---|---|
| claim | told at most once, only after a claim, and only what was available: `NotifiedAtMostOnce`, `RefinesBoard` |
| backstop | lives no longer than its approval: `BackstopOnlyOnLiveApproval` |
| sync | demotes only on evidence (`DemotionNeedsEvidence`), marks what arrived (`ApprovedTitleArrives`), announces what no one announced (`AvailableIsAnnounced`) |
| completeness gate | a series listed for an instance whose Sonarr arm ran is not marked off its first episodes: `ListedSeriesIsHeld` |
| decisions | status moves along the allowed edges (`RefinesBoard`); a ban is only on a declined row (`BanOnlyOnDeclined`) |
| creation | one row per requester and title (`OneRowPerRequester`); a ban is not shed by asking again (`BanNotEvaded`) |
| job pool | keeps within its caps, and no job waits beside a free worker: `PoolSound` |
| follow-up | "not started" is told once per approval (`ToldOncePerApproval`); no backstop stays armed (`BackstopSettled`) |
| scans | one at a time (`OneScan`); who asked is answered (`CallersServed`) |
| replay guard, grabs | one handling per payload and day (`HandledOnce`); one event, one push per grab (`GrabToldOnce`) |
| agents | no delivery to an agent as it was before a write (`NoStaleDelivery`, `CacheSound`); every delivery ends in an outcome unless it is withdrawn, the process ends, or a statement of its own fails (`DeliveryEnds`) |
| backup upload | the file restored is whole and stays (`ImportSound`), nothing is left on disk (`NoDirLeft`), the slot reopens (`SlotReopens`) |
| second factor | one session per challenge (`OneSignInPerChallenge`), a spent code signs in (`SpentCodeSignsIn`), a lockout is earned (`LockoutEarned`) |
| accounts | somebody can still administer, unless a leaver was promoted meanwhile (`AdminRemains`); a delegate cannot touch who was promoted meanwhile (`RowsProtected`) |
| sessions | a revocation or an edit bites on the next request (`RevocationsBite`) |
| removal | a removed title's stamps survive other removals (`SettledKeepsStamp`) and keep it from being demoted (`SettledNotDemoted`) |

## 2. Modules

```
RequestBoard        abstract: edges of a request's status, claim, told at most once
RequestStore        the tables, the outside world, the guarded statements
 ├ SyncOrchestrator   one hourly run, step by step
 ├ ArrWebhooks        Radarr/Sonarr (external), deliveries and their handlers
 ├ LibraryResync      the per-source Resync
 ├ RequestCreate      createMediaRequest
 ├ AdminDecisions     PATCH, DELETE, batch
 └ LibraryRemoval     cleanup, Remove, Add
RequestFulfilment   all of them interleaved; properties; INSTANCE RequestBoard
 ├ FulfilmentEvidence   + an observer of what could be known since a run began
 │  └ EvidenceSafety       proofs of what a demotion and a library mark rest on
 ├ FulfilmentLiveness   + fairness
 ├ FulfilmentTypes      proof of the types
 ├ FulfilmentSafety     proofs of the safety invariants
 └ FulfilmentRefinement proofs of the refinement, the stamps, the unique row and the ban
MCRequestFulfilment, MCFulfilmentEvidence, MCFulfilmentLiveness   small instances
MCAdministration    two casts of one instance, for the decisions and the creations

DelayedJobs         the pool of delayed jobs
 ├ DownloadFollowUp   the 90-second check and the hourly sweep
 └ AgentDelivery      outbound notifications, their retries, the cache of agents
GrabNotices         the grab an admin is told about
 └ WebhookIntake      the replay guard around a delivery
LibraryScan         coalescing of scans
ImportSession       the slot of the backup upload
MfaSignIn           challenges, codes, lockout
AccountAccess       roles and the removal of accounts
SessionRefresh      one browser's session
ServerProcess       all of these in one process that restarts; fairness
 └ ServerSafety       proofs of scans, deliveries, sign-ins, accounts, agents
    └ ServerJobs         proofs of the pool, the follow-up's notices and the retries
       └ ServerImport       proofs of the backup upload's slot
          └ ServerSessions     proofs of revocation, of all the types and of who waits for a scan
MCServerProcess     small instances: the workloads
```

**`RequestStore`.** A *title* stands for one `(tmdbId, mediaType, arrInstance)`. `rows`
is the table (`"NONE"` not created yet, `"GONE"` deleted; a deleted row keeps its flag in
the model so that the history of announcements can be stated). `armed` is "`pendingNotifyAt`
is not null", `stamp` is `cleanedUpAt` (an execution stands for its time). `wanted`/`avail`
are the cache tables, `arr` and `library` what the other services really hold, `mail` the
deliveries under way, `sent` the announcements made. The guards of the statements
(`Markable`, `Announceable`, `Forward`, `Imported`, `Demotable`, `Consumable`,
`RollbackAllowed`) and the rows they write are operators, shared by all routes that issue
the statement.

**`SyncOrchestrator`.** `run` is the run's memory; `run.pc` the next statement. Reads whose
results are only combined are one step. Where the code issues two UPDATEs that touch
disjoint rows back to back (the disarm of the rows a claim won and the flip of the rows it
did not: `FinishFirst`, `FinishLibrary`), they are one step; the claim before them is not.
The overdue sweep consumes a set of rows in one step, each with its own compare-and-swap.
A fetch that fails, times out or is skipped keeps the cache rows; a media server is read in
full (`sound`), in part, or not at all. The completeness gate is filled per instance that the
Sonarr arm found (`gated`), before it asks any of them: a fetch that fails leaves the gate as
it was, an arm that is skipped leaves it open.

**`ArrWebhooks`.** The outside world (external) imports, loses and removes titles and sends
deliveries. A handler (`hook`) verifies with the \*arr, flips in one transaction with the
cache rows, and goes on in memory (`scan`, re-check, `poll`, claim, deliver), where a
restart loses it. What refuses duplicated deliveries before the handler is `WebhookIntake`.

**`LibraryResync`.** Fetch, snapshot, gate, claim, finish, for one source at a time each.
It decides who was already told from its first snapshot, unlike the hourly run.

**`RequestCreate`.** Attempt `r`, when it succeeds, creates row `r`. Reads; then one
serializable transaction (delete the stale decline, insert, unique index, mirror of a
greenlit peer); then an auto-approver's push and rollback. The instance modelled has
`skipLibraryCheck`; quota, ratings and blacklist refuse an attempt before it starts.

**`AdminDecisions`.** A *desk* is one handler in flight: the row and status it read, the
compare-and-swap, the push with nothing locked, the rollback. Batches claim, re-read, push
row by row and roll the failures back at the end.

**`LibraryRemoval`.** An *execution* is its stamp: plan, stamp, delete (accepted, refused,
unknown), withdraw its own stamps, re-assert. `settled` and `removed` are history variables.

**`RequestFulfilment`** composes them. A component with an empty constant takes no step, so
each run looks at the components it is about. `reached` is history.

**`RequestBoard`** is the promise: edges of the status, nobody claims what never was
available, the requester is told at most once and only after a claim. `RefinesBoard` maps
`status`, `claimed`, `told` to `rows[r].status`, `rows[r].notified`, `sent`.

**`FulfilmentEvidence`** adds an observer (it changes nothing) of which servers lacked a
title and which titles were incomplete since the run began, so that "on evidence" can be
stated independently of what the run remembers.

**`DelayedJobs`.** `timers`, `runQueue`, `workers`. A job is refused when it is scheduled
(the caller is told) or dropped when its timer fires (only its `onDrop` is told); `Pump`
moves the head of the queue to a worker in the step that frees one, as `pump()` does.

**`DownloadFollowUp`.** `row[r].armed` names the approval that armed the backstop. An approval
claims its rows, pushes, and schedules its check; the check and the sweep look at the rows,
ask Radarr/Sonarr, consume the backstop by a conditional UPDATE and tell. Other writers of the
backstop (decline, import, rollback) are steps of the row. `faults` bounds the rows given up
on an unreadable queue or a failing statement.

**`AgentDelivery`.** One agent, whose row is a version and whether it is enabled. An admin's
route writes the row and then invalidates the cache, in two steps (`Edit`, `Invalidate`); a
read of the table is shared by those who come while it is under way, and is cached only if the
generation has not moved. A read that fails fails for all who share it: the dispatch, or the
pool's worker, logs it and the delivery is over without an outcome (`"unread"`). A failed post
schedules the next attempt in the pool; a refused or dropped attempt is an outcome. The write
of an outcome may fail as well and is only logged (`"unrecorded"`). `known` is the version of the last write that has invalidated,
`floor` (history) what `known` was when an attempt began.

**`LibraryScan`.** `entry` is the pending scan of one media type, `live` the timers,
`checking` those whose `runScan` waits for the queue check. A schedule during that check
re-arms a timer on the same entry, so two runs of `runScan` may overlap.

**`GrabNotices`, `WebhookIntake`.** A delivery records its digest (insert, or renewal of an
expired one), flips, goes through the grab (claim by `notifiedAt`, or take the retry marker;
push; mark; auto-resolve) and withdraws its digest when it throws. A restart ends the handlers
that are at work on the grab; its row and its retry marker stay, for the deliveries still to
come. `posted` says which payloads may have been posted on an earlier day, so that their
expired digest is still there. `ServerProcess` has the deferred task of an accepted delivery ask `LibraryScan` for a scan.

**`ImportSession`.** One action per await of the two routes: the start mutex, `mkdtemp`, the
per-upload append queue, the write, the hand-over to the restore and the `finally` after it.
A client posts its chunks one at a time; one more delivery of a chunk may come late, and a
client that hears of a failure, or nothing, cancels. `crossed` (history) says that a handler
went on with a session that is not its own.

**`MfaSignIn`.** The ledger of one user's challenges (`minted`, `challenge`), handlers that
reserve a challenge, spend a code by compare-and-swap and redeem, the counter and its lockout.
Statements may fail between any two (`VerifyThrows`). `sessions`, `burned`, `thrown` and
`wrong` are history.

**`AccountAccess`.** The routes of `/api/admin/users` read their target, and then decide again
in a transaction under advisory lock 42, which is one step; a self-delete reads without the
lock (`Reread`) and writes later. `overtaken` (history): it had read USER and found an ADMIN.

**`SessionRefresh`.** Requests of one browser, each with the cookie it was sent with; a check
is two reads and perhaps a rename, and is shared by requests with one cookie; a revocation and
an edit of permissions run beside it. `heard` (history) is what the callers of both have been
told when a request comes in.

**`ServerProcess`** composes them. Parts that have nothing in common are kept in different
behaviours: an initial state is chosen from `Workloads`, which says who shows up. `Restart` is
one step of every part: what is in memory goes, the rows stay.

Operators marked "Mutated form" next to a definition are the plausible bugs the properties
are tested against: each property is broken by one (`PROJECT.json`, `mutants`).

## 3. Runs

| run | instance | what it shows |
|---|---|---|
| `Fulfil` | movie, 2 requests (no preference; pinned to a server nobody configured), Plex, 1 handler, 2 outside changes | told at most once; no stray backstop; demotion only on evidence; the board |
| `Series` | series, 1 request without a preference, hourly sync whose Sonarr arm may be skipped, Plex Resync, 1 handler, 1 outside change | types; the completeness gate holds against sync, Resync and webhook; the board |
| `Decide` | two casts: 1 request from its creation, 2 desks, hourly sync; one requester, 2 attempts (the first self-approving), 1 desk | told at most once, no stray backstop, bans, one row, bans not evaded, the board, under double decisions, late rollbacks and racing creations |
| `Removal` | 1 available request, 2 executions, hourly sync | stamps survive each other; no demotion of a settled removal |
| `Live` | 3 approved requests (no preference; Plex; Jellyfin, which is not configured), 1 handler, 1 outside change, 1 run cut short | what arrived is marked, what is available is announced, also to who prefers a server nobody configured |
| `Server` | the fifteen workloads `Crowd`: approvals (one request twice, a batch of two, three jobs for a pool of two), two notifications while the agent is edited twice, a delivery with its retry or beside another of the same grab, bursts of scans, two backup uploads, two sign-ins with more challenges than are kept, three guesses at once, decisions about two admins and a user, a delegate, a session revoked, permissions changed | types; the fifteen safety properties of the process in §1 |
| `ServerLive` | the six workloads `Few` | backstops are settled, deliveries end, callers are served, the slot reopens, although jobs are refused, dropped and lost |
| `SelfDelete` | one admin, one user, one admin route at a time | see §6 |
| `ImportSlot` | one upload | see §6 |
| `WantedSeries`, `Rollback`, `RemovedTitle` | see §6 | where the code and its documents part |

Bounds (all named): `MaxChurn` changes of the outside world, `MaxAborts` runs cut short,
`sent` counts to 2 (one past the promise). One title is enough: no statement relates two
titles. Two requests of it show every per-row condition against a differing peer (mirror,
unique index, preferences); two handlers or executions show every pairwise race, and a
third would meet the same row conditions. The sync repeats for ever in every run that has
it, so a property about a later run (demotion after a mark, announcement by the fallback)
is not cut off by a bound. With one or two outside changes a title can arrive and vanish,
be lost from a library while in a cache, or arrive while its delivery is lost; which state
the outside world starts in is left open. `CHECK_DEADLOCK FALSE` is set where every request
may end deleted or declined for good (`Decide`, `Rollback`): the system then
rests. Symmetry (`Decide`, `Removal`, `Server`) exchanges handlers, executions, notifications or
requests of a browser, which differ in nothing but their name; no liveness is checked under it.

The instances of the process: `MaxFaults` 1, `MaxEdits` 2 (an edit that overtakes a read which
overtook an edit), `MaxAttempts` 1 retry, `MaxThrows` 1, one restart in most workloads. The
limits of the program are made small enough to be hit: two timers, a queue of one, one worker,
one live challenge (`MaxLive`), two wrong codes (`MaxFailures`, `LockThreshold`), one put-off
(`MaxRetries`). `Handles` 1..3: two timers on one
entry and a third for the entry after it; a burst always leaves one. Deliveries, verifiers, desks, hits, revoker and editor act once each;
two or three of them show every pair, and the second and third are there because a race for a
reservation, a lockout or a session needs a third party to be seen (`Guesses`, `Changed`). A
workload leaves the other parts idle; since the parts share nothing but the pool (in one
workload, `Crowded`) and the scan a delivery asks for, nothing is lost by that, and the proofs
of §4 hold for any set of workloads. The process may come to rest, and so may the accounts:
`CHECK_DEADLOCK FALSE` (`Server`, `ServerLive`, `SelfDelete`).

**Fairness (`ServerLive`).** Timers fire; what the process has begun goes on to its end,
because every await has a timeout of its own, so it answers or fails; the cron loop posts to
`/api/sync` every hour, which begins the sweep. All of it is weak fairness, of the process's
own steps. Clients, admins, deliveries and Radarr/Sonarr owe nothing, and faults are bounded.
`SlotReopens` says that the slot is again and again free or due to be evicted by the next
upload; it rests on the session's idle time (`ExpireSession`) passing.

**Fairness (`Live`).** The container's cron loop posts to `/api/sync` every hour and a run
goes on unless it is cut short: weak fairness of the run's steps. Radarr/Sonarr and the
configured media servers are asked again each hour; that a full answer comes infinitely
often if asked infinitely often is strong fairness of the two fetch steps. Nothing is
assumed of webhooks, deferred tasks or Resyncs: they may all be lost. Runs cut short are
bounded, since a run that is always cut short before the fallback announces nothing.

## 4. Proofs

Assumptions: only the named `ASSUME`s about constants (`StoreAssumption`, …), which TLC
evaluates in every run. All sets may be of any size; `MaxChurn` and `MaxAborts` any natural.

* `FulfilmentTypes` — `TypeCorrect`: `Spec => [](TypeOK /\ CreatesUnused)`. One lemma per
  action, composed per component. `CreatesUnused` (an attempt that has not written leaves
  its row unused) is what makes `CreateRow`'s row fresh.
* `FulfilmentSafety` — `BackstopSafe`, `BanSafe`. Every statement of every route moves a
  row by one of a short list of moves (`RowMove`, in `FulfilmentTypes`; `TableStep` shows it
  of every action once), and each move keeps `RowSound`: no backstop off a live approval, no
  ban off a decline, no flag on a row not created. So the argument is one case per kind of
  statement instead of one per action; the types give each route's row its shape.
* `FulfilmentSafety` — `NotifiedOnceSafe`. `NotifiedAtMostOnce` is not inductive: a handler
  about to deliver could hold a claim twice. The strengthening speaks of *tickets*: winning
  the claim (the flag goes from false to true) puts the row in exactly one place — a run's,
  handler's, resync's or desk's set of winners — and delivering takes it out. The invariant
  says that a row nobody claimed has no ticket and was never announced, that no two places
  hold a ticket of one row, and that a row with a ticket out was not announced yet.
  `SomebodysStep` rests on one lemma per component.
* `FulfilmentRefinement` — what `TableStep` and the tickets give together.
  * `Refinement`: `Spec => RefinesBoard`. Each row move is an edge of the board
    (`RowMoveEdges`), the tickets give its rule of telling, and `ReachedSound` its rule of
    claiming: a desk that made a row available by hand claims it later, whatever the row has
    become, so the invariant remembers that the row was available.
  * `OneRowSafe`: a row appears only in its own attempt's transaction (`BirthIsCreate`),
    which leaves no rival (`CreateAlone`); everything else only keeps or deletes rows. `Init`
    assumes what the unique index enforces of the table the system starts on.
  * `StampSafe`, `SettledStays` from `SettledSound`: a settled row that is available bears the
    stamp of an execution which, as long as it can still withdraw stamps, does not own the
    row. Without the second half a refusal would take the stamp away.
  * `BanHolds`: of the statements that delete a row, a creation's asks for an ordinary
    decline in its WHERE; the others are a desk's.

* `ServerSafety` — ten theorems about `ServerSpec`, for any `Workloads`, any number of
  handlers, events and restarts. Seen from one part, a step of the process is a step of that
  part, its share of a restart, or a stutter (`ScanSees`, `IntakeSees`, `GrabSees`, `MfaSees`,
  `AccountSees`, `AgentSees`); then each invariant is proved of its part.
  * `OneScanSafe`: the running scan is the one new callers join, and nothing is pending
    beside it.
  * `HandledOnceSafe`: a payload that is being handled, or was, has a live record, and
    renewals, withdrawals and reaping keep it so. `GrabToldOnceSafe`: the right to push is a
    token, held by at most one of the unclaimed grab, a handler and the marker. A restart takes the
    token from a handler, never from the row or the marker, so deliveries after it are covered.
  * `LockoutEarnedSafe`: each wrong code is spent on one count or on part of one lockout; the
    threshold in the WHERE of `Impose` is what keeps two handlers from spending it twice.
  * `OneSignInSafe`, `SpentCodeSafe` from `SignInSound`: at most one handler holds a
    challenge, only time takes the challenge from under it, and what it has burned it
    redeems, throws away, or finds expired. Eviction sparing what is in flight is used there.
  * `AdminRemainsSafe`, `RowsProtectedSafe` from `AccountSound`: a count above one under the
    lock means somebody else is left (`SomebodyElse`, by cardinalities), and a decision
    changes its target alone.
  * `NoStaleDeliverySafe`, `CacheSoundSafe` from `AgentSound`: a read whose generation is the
    cache's is at least as new as the last announced write, and equals the row when no write
    is under way; a read others have joined is new enough for each of them.

* `EvidenceSafety` — `DemotionEvidence`, `ListedSeriesHeld`, from `EvidenceHeld`: what a run
  carries between two statements is stale, and still backed by what the observer has seen
  since the run began. It is a chain along the run. A media server is added to `sound` with
  its library as it is then (`FetchesSound`). A title of a refreshed instance is fetched as
  complete, so written to `avail`, so read into `inArr`; where the chain breaks the title is
  doubted: it was not complete, or a deletion was in the mail before its webhook evicted the
  cache row (`RefreshSound`, `EvictionDoubted`). For the marks the carrier is the gate: a row
  picked against it has a title that was off the wanted table while the pass was in flight
  (`MarksSound`, `ResyncSound`), or, in an hourly run, whose Sonarr instance the run has not
  found (`gated`). So `ListedSeriesHeld` speaks of every Resync and of the hourly runs whose Sonarr
  arm was not skipped; of the others nothing can be promised (§6). `FulfilmentTypes`' row moves say that only the hourly run's
  `Demote` demotes.

* `ServerJobs` — the pool and what its jobs say to the requester.
  * `PoolSafe` from `PoolTidy`, `FreshChecks`, `FreshRetries`: `PoolSound` counts, and counting
    a worker that a queued job takes needs the job to be in one place of the pool. That it is
    not there already when it is scheduled is a fact about both parts that schedule: an
    approval has no job before it has pushed, a delivery none of an attempt it has not come to.
  * `ToldOnceSafe`: the notices sent, those a checker is about to send and a backstop still
    armed are together no more than the approvals of the row (`PaidFor`). An approval adds one
    to both sides; the conditional UPDATE moves one from the backstop to a checker.
  * `DeliveriesKept`, the safety half of `DeliveryEnds`: whoever waits is waited for. A delivery
    that waits for a retry has that job in the pool, a job of the pool is for the attempt its
    delivery is at, and a delivery that joined a read joined one under way. So no step
    of the follow-up, of a full queue, of another retry, of an invalidation or of a failing read
    strands one; that the jobs then run is fairness.

* `ServerImport` — `ImportSafe`, `NoDirLeftSafe` from `ImportHeld == ImportTidy /\ (crossed \/
  Orderly)`. `ImportTidy` holds always: the start mutex and the append queues are lines of
  different posts, each waiting where its line says, and a directory a handler is removing is
  gone. `Orderly` holds until a handler has gone on with another's session: the active session's
  file is its chunks so far, in order; a writer has the next chunk; one restore reads, of the
  session that is importing; every directory still there is the active one. A crossing is
  what `Orderly` does not survive, and the invariant marks the step where that happens.

* `ServerSessions` — `RevocationsSafe` from `SessionSound`: a cookie whose session no longer
  stands is covered — by a mark, by the check that has renamed the session, or by the revoker
  on its way to marking it — and permissions older than those announced are covered by the
  user's mark. `ServerTypesCorrect`: the types of all parts together. Most come with the
  parts' invariants; left are the scans, where `Handle` is a CHOOSE and needs the least
  number of a set (`LeastHandle`, from the well-foundedness of the naturals), and the codes.
  `CallersKept`, the safety half of `CallersServed`: the pending entry's own timer is set or its
  queue check is under way, although timers are replaced while older checks run and stand down;
  who waits for the entry waits for one that is pending, who waits for a scan for one that runs.

Only model-checked: the liveness properties (`ApprovedTitleArrives`, `AvailableIsAnnounced`,
`BackstopSettled`, `DeliveryEnds`, `CallersServed`, `SlotReopens`), because they rest on
fairness and so on ENABLED, which is outside TLAPS. Of two of them the part that is safety is
proved (`DeliveriesKept`, `CallersKept`): their invariants are checked by no run of their own. The properties of section 6 are violated,
and TLC's counterexamples stand for themselves.

## 5. Not modelled, and why

* Two overlapping sync runs. `withAdvisoryLock` releases the lock at its timeout while the
  aborted work may still issue the statement it is in; the model admits one run at a time
  and lets a run stop anywhere. Everything shown of the sync is shown of that.
* `sync/radarr` and `sync/sonarr`, further writers of the cache tables under the same lock.
* The flip after the Sonarr arm finds a series by `tmdbId` or, for rows without one in the
  cache, by `tvdbId`; the two paths have the same guard and are not told apart.
* Quotas and serializable retries; bulk and Discord creation; series completeness
  arithmetic. Each is separable and planned.
* In the process: more than one agent, media type, grab, user or browser at a time (no
  statement relates two, but for the cap over all users' challenges); ISSUE_ADMIN, which
  counts as USER; which permissions an edit changes; passkeys; key rotation and deadlines of
  sessions; which title a scan's queue check asks about. The revocation marks, of which the code
  keeps 1024 and evicts the oldest, are kept: what `RevocationsBite` says assumes that no 1024
  others are set within the seconds for which a cookie vouches for itself. A chunk above the
  permitted size clears its session whatever it is doing; the model's chunks keep to that size. Removing a directory takes effect
  when it is asked for, and no disk operation outlives a session's idle time.
* Restricted servers and grants, deletion votes, several instances of one media server
  except as a partial read.
* Most of the repository's lines: of some 214,000, most are the web interface, the
  catalogue and recommendation clients, play-history statistics, the OpenAPI document and the
  typed calls of the admin screens. They render, parse or read through; a state machine of
  them would restate them. So the map covers a small share of the lines, and 30 % of them is
  not within a faithful model's reach: it covers the code that coordinates.
* I/O, rendering, catalogue caches, push, e-mail and Discord channels: their order changes nothing in
  the lifecycle.
* In the lifecycle, account deactivation is a constant (`Disabled`), not an event.

## 6. Where code and documents part

* `WantedSeries` — guardrail 14a says library presence never flips a series Sonarr lists as
  wanted. The gate reads a table only the syncs fill; a series added since the last sync is
  marked and announced by a Resync off its first episode. A second way, which the same model
  allows in an hourly run: the gate is asked only for the instances the Sonarr
  arm has found. When that arm is skipped although Sonarr is configured (the feature is off, or
  reading the instances throws), the library passes of that run hold no series, although
  `app/api/sync/route.ts:165-171` says that skipping an arm needs no new downstream handling.
  (A run that winds down at a lock timeout before that arm skips the library passes as well.)
  `ListedSeriesIsHeld` is what the gate does guarantee: a series listed in the table throughout
  the pass is held by every Resync, and by every hourly run that found its instance.
* `Rollback` — a comment says the rollback must not leave Sonarr grabbing content the
  database says is pending. Its condition is the status alone, so it also undoes an approval
  another admin's retry has meanwhile had confirmed.
* `RemovedTitle` — a removal's stamps are said to keep the sync from re-adding the title. A
  request that was pending at the title manager's Remove has none; a library pass may mark
  it available afterwards and the next run demotes and re-pushes it. What is guaranteed is
  `SettledNotDemoted`, for the rows the removal stamped.

* `SelfDelete` — `app/api/profile/route.ts:71-75` re-reads the leaver's role inside the
  transaction, so that a freshly promoted last admin cannot delete themselves and leave the
  instance with none, which `lib/account-lifecycle.ts:102` rules out too. But the re-read takes no
  lock, and only an ADMIN goes on to lock 42 and the count: a leaver who is promoted after the
  re-read, by an admin who then leaves or is removed, is disabled without a count and nobody is
  left. The re-read makes the window short; it does not close it. `AdminRemains` holds but for this
  (`overtaken`).
* `ImportSlot` — a comment says a session whose file is being restored must never be
  reclaimed. The client's own cancel does reclaim it, and `uploadInChunks` sends one by itself
  when the last POST, which waits for the whole restore, times out at a gateway.

Seen while modelling, in the model's steps, and without a run of their own. The first two
contradict what the repository says, too, and are named exceptions of a property:

* `revokeSessionById` treats a row it does not find as revoked, since "the revocation the caller
  asked for is a fact" (`lib/auth.ts:634-637`). It is not when a check has renamed the session in
  between: the row is not found under the old name, the caller is told of success, and the renamed
  session stays alive. `RevocationsBite` leaves these sessions out (as it does a request
  that joins a check begun before the revocation, and a cookie signed before a restart, which
  vouches for itself for its few seconds).
* "Nothing is silently lost" (`docs/guardrails/14c.md`) holds of what the pool refuses or drops.
  A delivery whose read of the agents fails, or whose write of the outcome does, is logged and
  leaves no outcome on the agent: the ends `"unread"` and `"unrecorded"` that `DeliveryEnds`
  admits.
* A leaver who re-read ADMIN and was demoted may be refused as the last admin although they are
  not one.
* `PATCH` of permissions (`app/api/admin/users/[id]/route.ts`) writes by id after an unlocked
  read of the role.
* A delivery whose insert meets a live digest, which the first delivery's failing handler then
  withdraws, finds nothing to renew and is answered 409, although nobody handled the payload.
* A grab's retry marker is out of reach once auto-resolve has closed its issue.
* A chunk whose upload was cancelled during its write is counted on whatever session holds
  the slot by then: the exception `crossed` of `ImportSound`.

## 7. Plan

The request lifecycle came first, because everything else writes what it guards; then the
process around it. Next, in order:

1. **Overlapping runs and more cache writers** — `run` becomes a function on runs, with
   the lock's release at the timeout; `sync/radarr` and `sync/sonarr` as actions; a bound on
   what may be re-pushed (a title nobody approves any more).
2. **Proofs of more than safety** — every safety property a run checks is proved; next are the
   two abstractions below and the steps of the server that refine them.
3. Bulk and Discord creation beside `RequestCreate`; quota at its boundary; admin alert.
4. Series completeness as a pure function against a reference; the removal's history keyed
   by removal, so that `Add` racing a removal can be judged.

Abstract specifications worth stating next: a lease for `withAdvisoryLock`, and a bag with
bounded loss for the job pool.
