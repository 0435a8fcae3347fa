# InfernoLog: a TLA+ model of the API

InfernoLog lets a Geometry Dash player log completions, progress and drops of
levels, rank the classic demons they have beaten, and look back at how every
rank came about. The API (`src/apps/api`) is a set of Lambda handlers over one
Postgres database, reached through Prisma, with Cognito for sign-in and a few
slow upstreams (RobTop's servers, GDDL, AREDL). This directory models the parts
of it whose rules no single handler keeps: the demon list with the event log that
records it and the history computed from that log; the log entries everything
hangs on; the two background jobs; emailed codes and accounts, over two stores;
the level cache, which follows an upstream that is slow, wrong or away; and the
limits on what is asked of it.

Source paths below are relative to `src/apps/api/src/` unless they start with `src/`.

## The system

| Part | State it keeps | Operations | What makes it correct |
| --- | --- | --- | --- |
| Classic demon list, `services/demonList`, `utils/fractionalIndex.ts` | `classic_demon_list`: one fractional index (`Decimal(20,10)`) per placed entry | place, reorder, unplace; renumbering when a gap is below `REBALANCE_GAP` | a drop lands where it was dropped, no request disturbs anyone else, every index written is logged in the same transaction |
| Activity log, `services/activityLog/index.ts` | ranking events with an impact row per affected level | record a move, record a list-wide rewrite, purge a level's own events | the latest event naming a placed level carries its index; deleting one level opens no hole in another's history |
| Rank history, `services/activityLog/rankHistory.ts` | none: a walk over the log | `readRankHistory` | ends at the list as it is, entries join up, what events explain is never called unattributed |
| Ranking import, `services/importExport/{demonList,orderingImport}.ts` | none of its own | resolve the sheet's levels, replace the list | one event covers all of it |
| Progress logging, `services/progress`, `routes/progress/edits.ts` | `level_progress` (status) and its `progress_updates` | complete, log progress, drop, edit, delete an update, delete the entry | one completion per entry, status agrees with history, nothing is newly dated after its completion, only completed levels are listed |
| Collections, `services/collections` | collections and their ordered entries; built-in Want to Beat | add, copy, remove, reorder, rename, delete | Want to Beat holds unbeaten levels only |
| GDDL completion sync, `services/gddl/sync.ts`, `handlers/gddlSyncWorker.ts` | one job row per user | start, work, give up as stale, acknowledge | a run ends, no result is hidden before it was shown, no run is given up while its worker has time left |
| Spreadsheet import, `handlers/importWorker.ts`, `services/importExport/import/` | a job and its rows | upload, batch, re-invoke, final passes, undo a failure | every row applied once, the job ends, a newer job supersedes |
| Verification codes, `services/verification` | `email_verifications` | issue, consume | one live code per address and purpose, at most `MAX_ATTEMPTS` guesses, one use |
| Accounts, `routes/account`, `routes/auth`, `services/cognito`, `services/user` | users, auth identities, and the Cognito user pool | sign up, connect, disconnect, change email or password, delete | the two stores agree, nobody loses the last way to sign in |
| Level cache, `services/levels`, `handlers/levelSeedWorker.ts` | levels, sync cursor, `missingSince` | create, seed, refresh a rotation, delist, restore | every level is visited, nothing is delisted for an upstream's outage, no rated non-demon gets in |
| Outbound limits, `utils/*RateLimit.ts`, `utils/robtopUserBudget.ts` | counters and a cooldown per window | acquire, trip | no window exceeds its budget |
| Feed, browsing, export, ratings, upstream clients | — | reads, formatting, I/O | no protocol |

How they interact: `applyCompletion` calls `removeFromWantToBeat` in its own
transaction; `deleteProgressUpdate` and `DELETE /me/progress/:levelId` take the
list row and the level's events with them; the import and the two jobs write
the same tables as the request handlers; `readRankHistory` reads the log and the
list and trusts nothing else. Handlers share nothing but the database. Each
runs in one `prisma.$transaction` at Postgres' default isolation level, READ
COMMITTED, so the committed result is atomic but two handlers' statements may
interleave.

The hard behaviours, with their lines, are the `hazards` of `PROJECT.json`. In
short: rules kept by several handlers that each look at their own part
(completion, drop and deletion against the list and Want to Beat); histories
rebuilt from a log that deletions make holes in; equal indices; statements of
two requests interleaved; background jobs that die, run twice or finish late;
two stores without a common transaction; a delisting that must not mistake an
outage for a missing level; buckets whose attempts read the clock before they
hold the row.

## The modules

```
DemonList <--EXTENDS-- RankHistory        ImportPlan <--EXTENDS-- ImportJob --INSTANCE--> ImportStatus
    ^                                     GddlJob      Verification      Accounts
    +------EXTENDS---- Progress           LevelCache   LevelSweep        RobtopLimit
    +------EXTENDS---- ListRequests
DemonListProofs --EXTENDS--> RankHistory; ProgressProofs --EXTENDS--> Progress, DemonListProofs
...Proofs: theorems about the module they are named after    MC*: instances for TLC
```

In DemonList, RankHistory and Progress one action is one committed transaction of
one user. The others are about what happens between statements: there one action
is one statement, transaction, message or upstream call, and the program counter of a
request, an invocation or a run (`tx`, `req`, `inv`, `worker`, `check`, `run`, `caller`)
holds what it has read and not yet used.

### DemonList

| TLA+ | Code |
| --- | --- |
| `entries` | levels with a `level_progress` row |
| `list` | `classic_demon_list.listIndex`, as an integer number of the column's last digit (`One` units are 1.0) |
| `log` | ranking events in `sequence` order, with their impact rows |
| `Bisect`, `NewIndex`, `TooTight` | `bisectIndices`, `gapTooTight`: the mean is rounded half away from zero as Postgres stores a numeric |
| `Orders`, `Standings` | a snapshot reads rows by `listIndex desc`; rows with equal indices come back in any order, so a reading is any order that agrees with the indices |
| `Place`, `Reorder` | `placeCompletion`, `reorderEntry`: check the neighbours, renumber if the gap is too small (`Settled`), read, write, read, record |
| `Unplace` | `unplaceEntry`, and the same writes in `deleteProgressUpdate` |
| `BulkReplace` | `commitImportRanking` |
| `CreateEntry`, `DeleteEntry` | `findOrCreateLevelProgress`; `purgeLevelActivity`, then the entry with the row that cascades |
| `Init` | migration `rank_history_baseline`: a list from before the log begins with one list-wide event |

`positionBefore`/`positionAfter` are numbers here with 0 for `null`. A purged
event keeps its place in `log` as `Purged`, so that "later" is the order of
positions; no action reads a purged event.

### ListRequests

The same requests as DemonList's `Place`, `Reorder` and `Unplace`, statement by statement:
`Begin` (the checks of the handler), `Neighbours` (`computeIndex`), `Before`, for a renumbering
`Order`, `Renumber`, `After`, `Record` and `Neighbours` again, then `Before`, `Write`, `After`,
`Record`, `Commit`. `tx` holds what each transaction has read, written and deleted; `Sees` is
what a READ COMMITTED statement reads, `Free` the row locks a write waits for, and `lost` the rows that
were deleted after they were read, a write to which fails. An event has its place in the log from its
insert, as `sequence` is taken then, and is seen there from the commit. Which of two deadlocked
transactions Postgres ends is `Fail`, which may end any. What the events and indices are is DemonList's.

### RankHistory

`Walk(l)` is the loop of `readRankHistory` as a function of the number of events
visited, `Visit` its body, `History(l)` what the panel shows, oldest first.
`erased` and `tied` are history variables: whether a level's entry was ever
deleted, and whether two rows ever had equal indices. The next-state relation
is DemonList's.

### Progress

| TLA+ | Code |
| --- | --- |
| `status`, `updates` | `level_progress.status`, the `progress_updates` of an entry by `loggedAt` |
| `wantToBeat` | the built-in collection |
| `LogCompletion` | `applyCompletion`: an existing completion is edited in place and keeps its `loggedAt` |
| `LogProgress`, `LogDrop` | `applyProgress`, `applyDrop` |
| `EditDay` | `applyEdit`, of a date |
| `DeleteUpdate`, `EraseEntry` | `deleteProgressUpdate`, `DELETE /me/progress/:levelId` |
| `Replay`, `Replayed` | the loop of `deleteProgressUpdate` over the updates that are left, and its body |
| `WantToBeat`, `StopWanting` | `addEntry`, `copyEntries`, `removeEntry` on Want to Beat |
| `PlaceCompletion`, `ReorderEntry`, `UnplaceEntry`, `ImportRanking` | the handlers of DemonList with the conditions they ask of an entry |

`reused` is a history variable: levels that were completed again while not
COMPLETED. Left out: fields no rule reads (attempts, videos, ratings, notes,
visibility) and so the edits that change nothing else; the date of a drop; two
updates with the same `loggedAt`, a clock's tie.

### ImportPlan, ImportJob, ImportStatus

`ImportPlan` is the pure part of `services/importExport/import/`: given the log as a
worker read it and a batch of rows, `PlanBatch` says what each row comes to
(`Outcome`: committed, updated, skipped, failed) and what is written for it, `CanFlush`
whether the statements of the flush find the rows they name, `Flushed` the log after
them. A row is a type, a level, a day, one field of data and a mark; `named` rows are
those the sheet gives by name. `ImportJob` is the protocol around it:

| TLA+ | Code |
| --- | --- |
| `job` | `import_jobs` with its `import_job_rows` |
| `inv` | the worker's invocations, `queued` while Lambda has them |
| `Start`, `StartUnsent` | `POST /me/import/start`, the second when the invocation cannot be sent |
| `Deliver`, `TakeBatch`, `Plan`, `FlushBatch` | `handler`: is the job still there, the next pending rows, the reads and decisions of `processImportJobBatch`, its transaction |
| `BumpReinvokes`, `Reinvoke` | the checkpoint, when the remaining time is short |
| `FinalPasses`, `Complete`, `MarkFailed`, `Throw` | the passes after the last batch, the job's end, and the catch |
| `Retried`, `Crash`, `CrashReinvoked`, `Duplicate` | Lambda: an asynchronous invocation is delivered at least once, and again after a failure |
| `LogCompletion`, `LogProgress`, `LogDrop`, `DeleteUpdate`, `DeleteLevel`, `Want` | the user, editing the same log by hand meanwhile, as in module Progress |

`outdated` is a history variable: some batch was flushed although the log or the
rows had changed since it was read; `dropped` holds the jobs an invocation of
which Lambda gave up. The final passes themselves are `DemonList!BulkReplace`
and per-field writes; here they are the time between the last batch and the job's end.

The log here is a set of entries without their `loggedAt`, so `DeleteUpdate` takes any status the replay may come to
in some order of what is left (`Replays`). Edits of an update's date and its other fields (`applyEdit`) change neither
a status nor Want to Beat and are left out; an update deleted and logged anew is one to `outdated`.

`ImportStatus` is the abstract specification: what somebody who polls
`GET /me/import/status` may rely on, in four actions and three variables.

### GddlJob

The row `gddl_sync_jobs` is used again by every run; `run` stands for `startedAt`,
which tells them apart. `PostRead`, `Expire`, `Start`, `Invoke` are the steps of
`POST /me/gddl-sync`; `Get` and `Ack` are the client's; `Run`, `Finish`, `Kill`, `Mute` the worker and
what Lambda makes of it, `Duplicate` an invocation delivered twice. `shown` is what the client has seen. A worker's `began` is how
old the run in the row was when Lambda let it run. `Expire`, `Start` and `Finish` write the row whatever it holds by then, as the
code does: each names it by its id alone.

### Verification

`codes` are the rows of `email_verifications`; a key stands for purpose, address and account.
`issueCode` is `StartIssue` (the counts), `Replace` (the update's reading of the live codes, which it
locks) and `Create` (the insert and commit); `consumeCode` is `ReadCode` and then `CountGuess` or
`Accept`, each a conditional update. `RowLocked` makes those wait as Postgres does. `used` and
`replaces` are history variables.

### Accounts

`users` and `identities` are the two tables; `pool` is the Cognito user pool, each
user with the address it has there. A request is a record `[at, user, sub, old, new, subs]`
that walks through labels named after its next step: sign-up (`CreateAccount`, `FindWinner`,
`DiscardUser`), rejected sign-in, password sign-up and setup (`CreateNative`, `Attach`,
`FindAttached`), email change (`MoveEmail`, `FindLeftover`, `DropLeftover`, `MoveAgain`, `SaveEmail`,
`RevertEmail`), connection (`Connect`), removal (`LockUser`, `RemoveUser`, `RemoveRow` in one
transaction whose lock is `Locked`), deletion (`Purge`, `EraseUser`). `Die` cuts a request off
anywhere. The code updates and deletes an identity by its id; `Row` names it by its account and its
Cognito user, which never come back together once it is gone. `disturbed` is a history variable that
says an email change or deletion was cut off, an email change overlapped another request of
its account, or an email change (Cognito finds the user by its address) moved a Cognito user other
than the account's own.

### LevelCache and LevelSweep

`LevelCache` is one level: `gd` what GD holds, `row` its row, `used` whether somebody's log refers to
it, `check` the cron's check (`Ask`, then `Skip`, `Missing`, `Purge`, `Write`: `syncOneLevel`),
`seed` its message (`levelSeedWorker`). The ways in are `Resolve` (search), `ResolveStub` and `AddStub` (list sync, import, GDDL sync) and
`CreateByHand` (`POST /levels`, unverified and labelled by the user). `wasDemon` is a history variable: GD has rated the level a demon. A tick is a part of the confirmation window.
`LevelSweep` is the order in which the cron takes levels: three passes, each with its slice and
cursor, the circuit breaker's streak, the clock of the community pass. Levels
do not meet otherwise, which is why they are two modules.

### RobtopLimit

`bucket` are the rows of the shared token bucket and the users' budgets, in tokens and
ticks since `lastRefillAt`. An attempt is one statement whose `now()` was read when it began: `lag`
is how long ago that is. `window` and `hot` are history variables, what was
spent since some moment and how long the cooldown has been open.

## What the runs check

| Run | What it shows |
| --- | --- |
| `DemonList` | `FullyLogged`: the most recent event naming a placed level carries its index, whatever was deleted. `OrderKept`, `LandsBetween`: drops land between their neighbours and disturb nobody, renumbering included. `LeavesOnRecord`: no level leaves without an event or its entry's deletion. `WalkReachesList`: the history walk ends at the list. `HistoryContinuous`: each entry starts where the one before ended and the last ends at the present rank. |
| `Progress` | `ProgressTypeOK` (one completion, an update for every entry), `WantToBeatUnbeaten`, `ReplayAgrees`, `OrderingRule`, `PlaceOutlivesHistory` (no change of a history costs a level that keeps its completion its place, but for one completed again after a drop), and `KeepsDemonList`: Progress implements DemonList's specification. |
| `Accounts` | `KeepsIdentity`, `OnePassword` under every overlap; `EmailsAgree`: when no request runs, the account's email, its password identity's and Cognito's are the same, unless `disturbed`. |
| `Verification` | `UsedOnce`, `ReplacedIsDead` (a use that had read a code before it was replaced is refused), `LimitsHold`: guesses and sends exceed their limits by what ran at once, and no more. |
| `ImportJob` | `AppliedOnce` unless a batch was flushed over a change; `LogConsistent`: nothing beaten is wanted, ever, and unless such a flush happened statuses and completions agree as the handlers leave them; `CompletedIsDone`, `DiscardedIsDead` always; `ShowsStatus`: ImportJob implements ImportStatus; `Settles`: the job ends. |
| `GddlJob` | `AckedWasShown`: a late ack of an older run never hides a newer one's result. `GivenUpIsLate`: a run read as stale is given up over its worker only if Lambda let that worker run more than `STALE - TIMEOUT` late, whatever died, was retried or came twice. `RunEnds`. |
| `LevelCache` | `NotJustFound`: no delisting within the window after the level was found. `AdmitsOnlyDemons`: only the cron makes a row a rated non-demon, and only one it could not purge, one GD had rated a demon, or an incomplete row a user labelled one. `StubsFill`: an incomplete row is completed although its message was never sent, was lost or is dead. `TypeOK` includes that a level in use is cached. |
| `LevelSweep` | `Rotates`, `ListsAreAsked`: no level is starved, even if every run is ended by the breaker or the clock. |
| `RobtopLimit` | `RateBounded`, `CooldownBounded`. |
| `ListRequests`, `ListedUnbeaten`, `LockedOut` | one property each that the code does not keep, below. |

Bounds, and why they suffice:

- `MCDemonList`: three levels (a mover and both neighbours), `One = Gap = 2`, so
  that one bisection of a gap of 2 leaves gaps that demand a renumbering; lists
  worn to indices 1, 3, 4 at the start, so a drop meets a gap below the limit, at
  the limit and above it; `MaxEvents = 3` is a baseline and two events, which is
  one renumbering drop and nothing, or two plain requests, each of them before
  or after any number of deletions and new entries, which cost no event.
- `MCListRequests`: three levels, two of them placed or all, at indices 2, 3 and 6 (so a drop
  meets a gap below the limit and above it); two requests at once and two in all; five events, a
  baseline and two for each request, so that each may renumber.
- `MCProgress`: one classic level and one platformer, three updates together,
  two days (before and after) and undated, two events. Levels only meet in the
  demon list, which `KeepsDemonList` reduces to DemonList with three levels.
- `MCAccounts`: two accounts, two addresses, two Cognito users of each kind; two requests
  at once and four in all, of which one fails. Two rivals are enough for every
  race over an address, an identity or a lock; four requests let a pair start in what
  another pair left.
- `MCVerification`: two keys of one address, three codes (one replaced, one replacing, one of
  the other key), two requests at once, limits of 1 and 2, a clock of four values
  that reaches expiry, the end of the hour and the purge.
- `MCImportJob`: a sheet of three rows on one level in batches of two, so that there is a checkpoint
  between batches and rows that depend on each other on both sides of it; a second
  import by name and with an overwrite; a log of one session on a wanted level, which an edit may drop, beat or delete; two invocations, one fault, one retry, one re-invocation
  allowed, one edit by hand.
- `MCGddlJob`: two requests and two workers, two runs, two faults, one retry; `STALE = 2` and
  `TIMEOUT = 1` keep the code's order (20 minutes and 15).
- `MCLevelCache`: a window of two ticks, so that a check falls before, inside and after it; two
  changes on GD's side, one fault, three receives.
- `MCLevelSweep`: three levels in a slice of three with a breaker of two, so that every slice can be
  cut before its last level.
- `MCRobtopLimit`: a bucket of two calls and a budget of one, two callers, statements late by one
  tick, a window of five ticks, in which the bucket refills once.

`CHECK_DEADLOCK FALSE` stands only where the bounds can end a behaviour
(events, updates, requests, codes, imports); the handlers have no such limits. `MCGddlJob`, `MCLevelCache`, `MCLevelSweep`
and `MCRobtopLimit` check for deadlock.

Fairness, and why the code justifies it:

- `ImportJob`: an invocation that Lambda has is delivered, one that runs takes its next step or ends, and
  Lambda redelivers what failed (weak fairness of each; asynchronous invocations are queued and
  retried by Lambda). Nothing makes the user act, and nothing makes a fault happen. `Settles` excludes jobs in `dropped`:
  after its last retry nobody invokes the worker again, and the code has no sweep for
  such a job.
- `GddlJob`: the client polls (the web client does while a run is pending), a request that was sent goes on, a worker that
  runs ends, the clock moves. Nothing says when Lambda lets an invocation start, and `RunEnds` does not need it:
  the poll gives the run up.
- `LevelCache`: a check goes on until it ends, and RobTop, asked again and again for a level it has, answers
  at last (strong fairness). The seed worker is given no fairness: `StubsFill` is what the cron alone guarantees.
- `LevelSweep`: the cron starts a run every six hours and a run goes on until it ends or dies (weak
  fairness of its next step). No call need ever succeed.
- `DemonList`, `ListRequests`, `Progress`, `Accounts`, `Verification`, `RobtopLimit`: none. A handler runs when a user asks, and
  nothing in these must eventually happen.

### Where code and documentation disagree

Each has a run:

- `ListRequests`: two requests that overlap leave a placed level whose most recent logged index is not
  its own. The rows of an event come from the two readings around the write (`services/demonList/index.ts:298` and
  303), which nothing keeps from ageing: a neighbour that another request moves and commits before
  the event is inserted is named with its old index. `EveryIndexLogged` is therefore proved of requests one after another.
- `ListedUnbeaten`: complete, place, drop, delete the completion: the level stays
  listed without a completion (`services/progress/index.ts:777`).
- `LockedOut`: a removal that dies after its Cognito call and before its commit leaves the row of a user
  that is gone. `routes/account/signInMethods.ts:161` counts on a retry of the same removal; a removal of the
  other method instead counts that row as another way in, and the account has none.

Met while modelling, without a run of their own:

- `services/activityLog/rankHistory.ts:15` says a position is 1 + the count of indices ordered above. A level whose
  entry was deleted stays in the walk's map as a part of the drift (line 299); logged again and placed, it makes
  the history of another level pass through position 0. The entries stay continuous (`HistoryContinuous`).
- `services/demonList/index.ts:88` says no read observes a half-rebalanced list; a drop that overlaps a renumbering can
  have its index overwritten by it, or bisect indices that the renumbering replaces. Two drops into
  one gap at once get one index.
- `services/demonList/index.ts:87` says a renumbering preserves the order; it reads rows with equal
  indices (two drops with one neighbour make them) in an order of its own. This is why `OrderKept` speaks of strict order.
- `services/progress/index.ts:709` says a deletion replays the rules of the write paths; complete,
  drop, complete again keeps the first `loggedAt`, so the replay ends in DROPPED. `ReplayAgrees` shows that this is the only way the two part.
- `src/docs/LEVEL_LOGGING.md:140` says only an edit can strand sessions after a completion; logging a first
  completion with an early date can too (`services/progress/index.ts:307`).
- `routes/account/gddlSync.ts:67` says one job at a time, whatever is clicked twice, and line 139 that a completion stays
  visible until it was seen. Two POSTs that both read before either writes start two; Lambda may deliver one invocation twice;
  and a worker throttled for longer than the stale window runs beside its successor. Each worker writes its outcome over
  whatever the row holds (`handlers/gddlSyncWorker.ts:43`), so a run can show another's result, and a result written over a run that was
  acknowledged as failed is never shown. A request that read a stale run and writes late gives up the newer run
  in the row (line 49). The module has all of these, and what it states is what survives them.
- `handlers/importWorker.ts:93`: an invocation delivered twice is two workers that may plan the same rows and flush both. The
  second finds no constraint against it: the rows are counted twice and a level can get two completions. A batch
  planned before an edit by hand likewise writes the status it had planned, COMPLETED on a level whose completion was made and deleted
  meanwhile or over a drop. `AppliedOnce` and the larger part of `LogConsistent` therefore end with `outdated`.
- `handlers/levelSeedWorker.ts:161` says the message eventually reaches the dead-letter queue; the error is only
  logged, and the message is deleted with its batch. The cron repairs the stub (`StubsFill`).
- `services/gddl/sync.ts:452` says the enqueue is the only thing that will ever fill a sync's stubs in, as the
  level-cache sync never backfills. It does: `services/levels/sync.ts:299` writes the full snapshot on any row that is not verified.
  `StubsFill` shows that this completes a stub whose message was lost.
- `routes/levels/create.ts:9` and `services/levels/admission.ts:3` say a rated non-demon is never cached. A row created by hand with a demon's label is
  rated from the start; if GD rates the level a non-demon, the purge passes it over (`services/levels/sync.ts:228`
  asks for an unrated row) and the repair makes it a rated non-demon. `AdmitsOnlyDemons` has this as its last exception.
- `services/levels/sync.ts:170`: the seed worker does not clear `missingSince`, so a level it completes can carry an older
  missing mark; `NotJustFound` is therefore about what the cron found.
- `services/cognito/passwordUser.ts:281` says the sign-in email and the account email never disagree. The proof of
  `EmailsAgree` did not go through while only overlaps within one account were excluded, and TLC has the
  counterexample (three addresses, five requests, none of which dies): a rejected sign-in
  deletes the Cognito user of an address that a sign-up has just been verified for, the account is
  created with the user that is gone, and two accounts' email changes then cross. `changeNativeUserEmail` names the user to move by its address,
  so the second change moves the first account's user; both saves succeed. `Moves` therefore sets `disturbed`
  when the user at the address is not the account's.
- Other overlaps `EmailsAgree` excludes: three email changes of one account at once, two password setups and a removal,
  a removal or deletion during a failed email change whose undo then moves a newcomer's Cognito user.

## What is proved

Every invariant and every action property a passing run checks, and both refinements, but for
liveness: 35 properties of the 40, each as a theorem about its module's specification, without the fairness and
the history variables it does not need.

Assumptions: the named ones in the modules, and no others. `Levels` is finite and
`NoLevel` is not one of them, `Gap` is a natural number of at least 2 and `One >= Gap`
(a renumbered list has room to bisect; the code has 1 and 0.0001, which is 10^10 and 10^6
units), baselines map levels to integers. A sheet has finitely many rows in an order
(`SheetsAssumption`), a log that an import starts from is one the handlers of Progress leave: one completion per level at most,
COMPLETED only with it, and with it COMPLETED or dropped at some time, and nothing beaten on Want to Beat (`LogsAssumption`). Values that stand for nothing (`None`, `Nobody`,
`Gone`) are not ids. Nothing is assumed of the bounds but that they are numbers, so the
theorems hold for every number of levels, updates, events, requests, faults and retries.

### DemonListProofs

- `TypeCorrect`. An invariant as it stands.
- `EveryIndexLogged`. `FullyLogged` is not inductive: it names the latest event about a
  level, and deleting another level purges that level's events, which may be the
  latest ones. `Anchored` is: every placed level has an event that carries its
  index, is the level's own or list-wide (so that only its own deletion purges it),
  and is not contradicted by any later one. A move appends an event that
  anchors the mover and confirms its neighbours; a list-wide event anchors everyone;
  a purge only removes confirmations.
- `DropsLandBetween`, `OthersKeepOrder`. From `Settled`: a renumbering keeps strict
  order and leaves gaps of `One >= Gap >= 2`, in which the mean is strictly inside.
- `LeavingIsLogged`. A step that takes a level off the list appends an event with a row for it
  that ends at 0, or deletes its entry.
- `WalkEndsAtList`. `Anchored` says that the last word of the log on a placed level is right, and so is the walk's map
  there. That a level off the list is off the map too needs what became of it in between: `AllTraced`
  says that for every level that was never deleted there is a set of places in the log at which it was on the list, which
  only its own events and list-wide ones change (so no purge can), with which each of its rows agrees, and
  that only the baseline finds it on the list before the log begins.
- `ShiftsAreNeverLost`. Each step of the walk keeps a chain of entries that ends at the position the walk
  holds for the level (`Whole`): a row of the level is joined by an unattributed entry where it does not start there, an event
  without one adds the drift it causes. The one case without either is a renumbering, which the walk takes to move nobody:
  `Steady` says it does not, as long as no two rows had equal indices.

### ProgressProofs

- `HandlersKeepDemonList`. ProgressSpec implies DemonList's Spec under the
  identity: each handler is one of its steps or a stutter. `HandlersLogEveryIndex`
  carries `FullyLogged` over.
- `HandlersTypeCorrect`, `BeatenLevelsAreNotWanted`, `StatusAgreesWithReplay`. The
  inductive invariant is `TypeOK`, `EntriesOK` (entries, statuses, updates and Want to
  Beat agree level by level) and `DOMAIN list \subseteq Classic`. The lemmas `Appended`, `Redated`,
  `Joined`, `TakenOut` and `Removed` say what each way to change a history does to its
  completions and to `Replay`. `ReplayAgrees` needs the one-completion invariant: with two completions, editing both
  in place would not keep the replay.
- `PlacesOutliveHistories`. Only `Uncomplete` takes a level off the list for its history, when its status was
  COMPLETED and the replay of what is left is not. With `ReplayAgrees`, the history replayed to COMPLETED before: so a completion was in it
  that no later drop undid, and if it is still there, it is so after the deletion (the closed form `Outcome`, below).
- `OrderingRuleHolds`. Appending, redating or removing an update while the completion dates stay lets the
  stranded entries be mapped one to one into those there were before (`NoneStranded`): what is appended or redated is not
  stranded, by the handlers' check, and a removal moves the others up by one.

### ImportJobProofs

For any sheets and logs the assumptions allow, batches of any size, and any number of invocations, crashes, retries and duplicates:

- `TypeCorrect`, `OnceApplied`, `LogStaysConsistent`, `CompletedJobsAreDone`. The properties speak of the job and the
  log; what keeps them is what each invocation still carries from its last read. `ImportInv` adds it:
  an invocation at work on the current job has that job's sheet, its batch is rows of it that are still pending
  unless it is `stale`, and in the final passes none is left (`WorkerReads`); a plan about to be flushed, and not stale, fits the
  log as it is: it beats a level once at most, only if the log has not, then leaves it COMPLETED, and writes no status without the update it stands for (`PlanFits`); an entry
  of the log comes from a row that has an outcome (`FromImports`), and from one row comes one entry (`Distinct`). A flush of a
  plan that fits gives the rows their outcome in the same transaction, so another invocation with the same rows is stale from then on.
- `DiscardedStayDead`. Only a flush adds an import's entries, and it finds its job gone when a newer one has replaced it.
- `ShowsImportStatus`. Every step is a step of ImportStatus or leaves its variables alone: a completion needs `WorkerReads` (no row
  is left in the final passes), a flush that no outcome is pending. `reinvokes` has no bound
  in the invariant, as a worker that dies while it fails a job at the limit is delivered again.

A job completes only when no row is pending because a batch is empty only then: of the pending rows there is a
first (`First`), so the next batch has it.

### AccountsProofs

For any accounts, addresses and Cognito users, and any number of requests at once, in all and dying:

- `TypeCorrect`, `AlwaysAMethod`, `NoSecondPassword`. Inductive with the rest of `Structure`: a removal that holds the account's
  lock leaves another method and is the only one of the account (`LocksOK`), a request carries what its next step
  needs (`RequestsOK`), and a native Cognito user is a password with an address, one per account (`RowsOK`).
- `EmailsStayAgreed`. `EmailsAgree` says nothing while a request runs. `Agreement` does, as long as nothing was disturbed:
  a request that sets an account's email is alone with the account and what it read of the account is still so (`Alone`, with `Knows`); the
  user it is about to attach has the address it says (`Fresh`); once it has moved its user, that user has the new
  address (`HasMoved`); a deletion goes after every password of its account (`PurgesAll`); and stores disagree on a password only
  while a change is between them or the user is gone or going (`Agree`). "Or gone, or going" stands in each of them, as a rejected sign-in
  or a deletion of another account can take a Cognito user away at any time.

### RobtopLimitProofs

For any capacities, rates, lags and numbers of callers:

- `TypeCorrect`.
- `RateCorrect`. `RateBounded` bounds what was spent in the window, which says nothing of what the next attempt
  may take. `RateInv` does: what was spent plus what the bucket would hold by now is at most the capacity and
  what was refilled since the window opened and in one lag. A statement that dates the row
  with an older time gives back, at the next refill, at most the lag it is late by, which the invariant has counted.
- `CooldownCorrect`. `CoolInv`: the callers that are out when the cooldown opened are the only ones that can push it,
  and each of them has at most its call's timeout left.

### VerificationProofs

For any number of codes, keys, addresses, requests and limits, and whatever the clock's bound:

- `TypeCorrect`.
- `CodesUsedOnce`, `ReplacedStaysDead`. `DeadInv`: a row that was used or replaced is consumed or purged, and
  the rows an issue has locked, to consume them when it creates its own, are still there. Rows only
  move on (`RowsGoOn`), so both follow.
- `LimitsCorrect`. A limit that is checked before the write it limits holds only up to the requests that
  passed the check at once. `GuessInv` counts a code's attempts with the requests that have yet to count theirs;
  `Bounded` counts, for every instant, the rows of the hour that followed with the requests that may still add
  one, for any group of sends whose limit is checked when a request starts. Addresses and IPs are two such groups.

### GddlJobProofs

For any requests, invocations, retries and time limits:

- `TypeCorrect`, with the room the bound leaves for the POSTs under way.
- `AcknowledgedWasShown`. An invariant as it stands.
- `OnlyLateRunsGivenUp`. The property speaks of two ages, the row's and a worker's, that only time moves together. `NewestInv` says
  that no invocation and no request knows a run newer than the row's; `ClockInv`, that a running worker of the pending run in the row
  has run for exactly as long as the row has aged since it `began`, so that one that began early enough has had its `TIMEOUT` before the
  row is stale, and that what a request read as stale is stale still, or no longer in the row.

### LevelCacheProofs

For any window, receives, changes and faults:

- `TypeCorrect`, with what a check or a message may hold at each of its steps. That a level in use is cached
  is a part of it.
- `OnlyDemonsAdmitted`. `DemonInv`: a row, or a check's reading of one, that is complete and says demon is of a level GD has rated so (`wasDemon`).
- `DelistedAfterWindow`. `WindowInv`: neither the row nor the check's older reading of it has been missing for longer
  than the cron has not found the level; and a row the check saw present is still unmarked, so the write of a
  level that was found leaves no mark behind.

### Recursion, and what is only model-checked

The walk over the log and the loop over the updates are recursive functions, not RECURSIVE operators.
The induction theorems of the library take an operator as a parameter, which the provers cannot instantiate;
`Onwards` states the induction the proofs need over a set of numbers instead, from the least number outside it (`LeastNat`). That
such a function exists at all, without which its definition says nothing, is shown by its closed form in the
case of the loop (`Outcome`, which the proofs alone use) and by going on with a shorter walk in the case of `Walk` (`WalkExists`).

With TLC alone stay the liveness properties (`Settles`, `RunEnds`, `StubsFill`, `Rotates`, `ListsAreAsked`), as the provers have
neither fairness's ENABLED nor leads-to through a decreasing measure; with them all of LevelSweep, whose
properties are these. ListRequests, `ListedIsBeaten` and `CanSignIn` are the runs that refute a rule.

## Not modelled

- Statements of two progress requests of one user, or of one and a list request or an import, interleaved under
  READ COMMITTED: `Progress` takes a request as one step, and `ListRequests` has the requests of the list alone.
  The hazards that need it are listed without a property.
- Collections other than Want to Beat, the order of their entries, and Rated Lists: orderings without a rule of their
  own beyond the bisection that DemonList has. Reordering a collection has no check that `prev` lies before `next`.
- What a GDDL sync writes into the log (each submission is a `LogCompletion`), the community lists and Song File Hub
  data of a level, and official levels: per-field writes.
- Milestones and LOG_EDIT events, written beside the ranking events and read by nothing here.
- Password changes and resets, Discord links, names and avatars: no identity depends on them.
- Feed, browsing, export and ratings read, format or write single fields. The clients of RobTop, GDDL and AREDL and the
  email templates are I/O and parsing. `utils/listMerge.ts` computes a preview from two sequences, and no state
  depends on it. The web client (`src/apps/web`) and the shared schemas and formatters (`src/packages`)
  hold no rule the API does not decide again.

The API's rules are a small part of the repository by lines: most of it is the web client, input
schemas, presentation and clients of upstreams.

## Plan

What is left, in this order:

1. The statements of progress requests interleaved as in `ListRequests`: two first completions at once, Want to
   Beat against completing, a completion deleted while the import places it.
2. The final passes of the import with the list they rewrite, retried after edits.
3. Proofs: what ListRequests does keep when requests overlap, stated as invariants first (its row locks, and that a renumbering
   and a write never mix two readings of one row).
