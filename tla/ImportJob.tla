----------------------------- MODULE ImportJob -----------------------------
(***************************************************************************)
(* The spreadsheet import of one user: POST /me/import/start               *)
(* (routes/importExport/import.ts) stores the sheet as a job with pending  *)
(* rows and invokes the worker Lambda (handlers/importWorker.ts), which    *)
(* takes the rows in batches, re-invokes itself when its time runs out,    *)
(* and ends with the demon list, lists and ratings passes.  A new import   *)
(* deletes the job before it.                                              *)
(*                                                                         *)
(* An invocation is at `queued` until Lambda delivers it.  Lambda delivers *)
(* an asynchronous invocation at least once, and again after a failure.    *)
(* The user edits the log meanwhile.                                       *)
(***************************************************************************)
EXTENDS ImportPlan

CONSTANTS
    Sheets,       \* the sheets each import may be of, sequences of rows
    InitLogs,     \* the logs a user may have before
    Dates,        \* the days updates are logged by hand for, None for no day
    Invocations,  \* invocations that can exist at the same time
    BATCH_SIZE,
    MAX_REINVOKES,
    MaxRetries,   \* how often Lambda delivers a failed invocation again
    MaxImports,   \* bounds: imports, faults, and edits by hand
    MaxFaults,
    MaxEdits

ASSUME ImportAssumption ==
    /\ BATCH_SIZE \in Nat \ {0}
    /\ {MAX_REINVOKES, MaxRetries, MaxImports, MaxFaults, MaxEdits} \subseteq Nat

Kinds == {"COMPLETION", "DROP", "PROGRESS"}
Statuses == {"NONE", "IN_PROGRESS", "DROPPED", "COMPLETED"}

ASSUME NoneAssumption == None \notin Invocations \cup Statuses

\* A sheet has finitely many rows, in an order.
IsSheet(sheet) ==
    /\ DOMAIN sheet \subseteq Nat
    /\ IsFiniteSet(DOMAIN sheet)
    /\ \A i \in DOMAIN sheet : sheet[i].type \in Kinds /\ sheet[i].level \in Levels

ASSUME SheetsAssumption == \A j \in 1..MaxImports : \A sheet \in Sheets[j] : IsSheet(sheet)

\* What the columns of a log hold.  id[1] is the import an entry comes from, 0 for none.
IsLog(lg) ==
    /\ DOMAIN lg = {"lp", "made", "entries", "wanted"}
    /\ lg.lp \in [Levels -> [id : Nat, status : Statuses]]
    /\ lg.made \in [Levels -> Nat]
    /\ \A l \in Levels : /\ lg.lp[l].id <= lg.made[l]
                         /\ lg.lp[l].status = "NONE" <=> lg.lp[l].id = 0
    /\ \A e \in lg.entries :
          /\ DOMAIN e = {"id", "kind", "level", "date", "mark", "data"}
          /\ e.kind \in Kinds /\ e.level \in Levels /\ e.id[1] \in Nat
    /\ lg.wanted \subseteq Levels

Drops(lg, l) == {e \in lg.entries : e.kind = "DROP" /\ e.level = l}

\* A level has one completion at most, is COMPLETED only with it, and otherwise only
\* where it was dropped; it is DROPPED only by a drop.
Consistent(lg) ==
    \A l \in Levels :
        /\ \A d, e \in Completions(lg, l) : d = e
        /\ lg.lp[l].status = "COMPLETED" => HasCompletion(lg, l)
        /\ HasCompletion(lg, l) => lg.lp[l].status = "COMPLETED" \/ Drops(lg, l) # {}
        /\ lg.lp[l].status = "DROPPED" => Drops(lg, l) # {}

\* Want to Beat holds only unbeaten levels.
WantsUnbeaten(lg) == \A l \in lg.wanted : ~ HasCompletion(lg, l)

ASSUME LogsAssumption ==
    \A lg \in InitLogs :
        /\ IsLog(lg) /\ Consistent(lg) /\ WantsUnbeaten(lg)
        /\ \A e \in lg.entries : e.id[1] = 0

VARIABLES
    job,       \* the user's import_jobs row
    log,       \* level_progress, progress_updates and Want to Beat
    inv,       \* the worker's invocations
    faults, edits,
    outdated,  \* history: a batch was flushed though the log or the rows had moved since it was read
    dropped    \* history: the jobs an invocation of which was lost for good

vars == <<job, log, inv, faults, edits, outdated, dropped>>

\* rows[i] is the status of row i.
NoJob == [id |-> 0, sheet |-> <<>>, status |-> "none", rows |-> <<>>, processed |-> 0, reinvokes |-> 0]

Free == [at |-> "free", job |-> 0, tries |-> 0, batch |-> {}, sheet |-> <<>>, plan |-> <<>>, stale |-> FALSE]

Pending == {i \in DOMAIN job.rows : job.rows[i] = "pending"}
Settled == DOMAIN job.rows \ Pending

Exists(w) == job.id = inv[w].job

\* The first of the pending rows.
NextBatch == {i \in Pending : Cardinality({j \in Pending : j < i}) < BATCH_SIZE}

Init ==
    /\ job = NoJob
    /\ log \in InitLogs
    /\ inv = [w \in Invocations |-> Free]
    /\ faults = 0
    /\ edits = 0
    /\ outdated = FALSE
    /\ dropped = {}

\* A commit makes what other invocations have read out of date.
Unsettle(f, w) ==
    [v \in Invocations |-> IF v # w /\ f[v].at \in {"planning", "flushing"}
                           THEN [f[v] EXCEPT !.stale = TRUE] ELSE f[v]]

\* What an invocation had read is forgotten, and it goes on at `at`.
GoTo(i, at) == [i EXCEPT !.at = at, !.plan = <<>>, !.batch = {}, !.stale = FALSE]

Fault ==
    /\ faults < MaxFaults
    /\ faults' = faults + 1

Queued(j) == [Free EXCEPT !.at = "queued", !.job = j]

-----------------------------------------------------------------------------
(* Routes.                                                                 *)

\* Mutant of Start: the job's row is used again.
StartInPlace(sheet) ==
    /\ job' = [NoJob EXCEPT !.id = IF job.id = 0 THEN 1 ELSE job.id, !.sheet = sheet, !.status = "running",
                            !.rows = [i \in DOMAIN sheet |-> "pending"]]
    /\ \E w \in Invocations :
          /\ inv[w] = Free
          /\ inv' = [inv EXCEPT ![w] = Queued(job'.id)]
    /\ UNCHANGED <<log, faults, edits, outdated, dropped>>

\* POST /me/import/start: the transaction, then the invocation.
Start(sheet) ==
    /\ job' = [NoJob EXCEPT !.id = job.id + 1, !.sheet = sheet, !.status = "running",
                            !.rows = [i \in DOMAIN sheet |-> "pending"]]
    /\ \E w \in Invocations :
          /\ inv[w] = Free
          /\ inv' = [inv EXCEPT ![w] = Queued(job.id + 1)]
    /\ UNCHANGED <<log, faults, edits, outdated, dropped>>

\* The same, cut off before the invocation is sent.
StartUnsent(sheet) ==
    /\ Fault
    /\ job' = [NoJob EXCEPT !.id = job.id + 1, !.sheet = sheet, !.status = "running",
                            !.rows = [i \in DOMAIN sheet |-> "pending"]]
    /\ dropped' = dropped \cup {job.id + 1}
    /\ UNCHANGED <<log, inv, edits, outdated>>

-----------------------------------------------------------------------------
(* The worker.                                                             *)

\* A job that is gone or has ended is left alone.
Deliver(w) ==
    /\ inv[w].at = "queued"
    /\ inv' = [inv EXCEPT ![w] =
          IF Exists(w) /\ job.status = "running" THEN [@ EXCEPT !.at = "taking", !.sheet = job.sheet]
          ELSE Free]
    /\ UNCHANGED <<job, log, faults, edits, outdated, dropped>>

\* Mutant of TakeBatch: a batch that is not full ends the loop.
TakeBatchFull(w) ==
    LET batch == IF Exists(w) THEN NextBatch ELSE {}
    IN  /\ inv[w].at = "taking"
        /\ inv' = [inv EXCEPT ![w].at = IF Cardinality(batch) < BATCH_SIZE THEN "passes" ELSE "planning",
                              ![w].batch = batch, ![w].stale = FALSE]
        /\ UNCHANGED <<job, log, faults, edits, outdated, dropped>>

\* The next pending rows; a job that is gone has none.
TakeBatch(w) ==
    LET batch == IF Exists(w) THEN NextBatch ELSE {}
    IN  /\ inv[w].at = "taking"
        /\ inv' = [inv EXCEPT ![w].at = IF batch = {} THEN "passes" ELSE "planning",
                              ![w].batch = batch, ![w].stale = FALSE]
        /\ UNCHANGED <<job, log, faults, edits, outdated, dropped>>

\* processImportJobBatch up to its transaction.  GD may fail to confirm a row's level.
Plan(w) ==
    LET rows == [i \in inv[w].batch |-> inv[w].sheet[i]]
    IN  /\ inv[w].at = "planning"
        /\ \E bad \in SUBSET {i \in DOMAIN rows : rows[i].named} :
              inv' = [inv EXCEPT ![w].at = "flushing", ![w].plan = PlanBatch(log, rows, bad)]
        /\ UNCHANGED <<job, log, faults, edits, outdated, dropped>>

\* Mutant of FlushBatch: rows that are gone are passed over.
FlushBatchAnyway(w) ==
    LET batch == inv[w].batch
        plan == inv[w].plan
        ids == [i \in DOMAIN plan.new |-> <<inv[w].job, i, w>>]
    IN  /\ inv[w].at = "flushing"
        /\ IF CanFlush(log, plan)
           THEN /\ log' = Flushed(log, plan, ids)
                /\ job' = IF ~ Exists(w) THEN job
                          ELSE [job EXCEPT
                      !.rows = [r \in DOMAIN @ |-> IF r \in batch THEN plan.out[r] ELSE @[r]],
                      !.processed = @ + Cardinality(batch)]
                /\ \E at \in {"taking", "bumping"} : inv' = Unsettle([inv EXCEPT ![w] = GoTo(@, at)], w)
                /\ outdated' = (outdated \/ inv[w].stale)
           ELSE /\ inv' = [inv EXCEPT ![w] = GoTo(@, "failing")]
                /\ UNCHANGED <<job, log, outdated>>
        /\ UNCHANGED <<faults, edits, dropped>>

\* Mutant of FlushBatch: the rows follow in a transaction of their own, which a death may
\* come before.
FlushBatchApart(w) ==
    LET plan == inv[w].plan
        ids == [i \in DOMAIN plan.new |-> <<inv[w].job, i, w>>]
    IN  /\ inv[w].at = "flushing" /\ Exists(w) /\ CanFlush(log, plan)
        /\ log' = Flushed(log, plan, ids)
        /\ \/ /\ job' = [job EXCEPT !.rows = [r \in DOMAIN @ |-> IF r \in inv[w].batch THEN plan.out[r] ELSE @[r]],
                                    !.processed = @ + Cardinality(inv[w].batch)]
              /\ inv' = Unsettle([inv EXCEPT ![w] = GoTo(@, "taking")], w)
              /\ UNCHANGED faults
           \/ /\ Fault
              /\ \E v \in Invocations \ {w} :
                    /\ inv[v] = Free
                    /\ inv' = Unsettle([inv EXCEPT ![w] = Free, ![v] = Queued(inv[w].job)], w)
              /\ UNCHANGED job
        /\ outdated' = (outdated \/ inv[w].stale)
        /\ UNCHANGED <<edits, dropped>>

\* Its transaction: the log, the rows and the counter together.  Any row it does not
\* find rolls it back.  Then there is time left for another batch, or there is not.
FlushBatch(w) ==
    LET batch == inv[w].batch
        plan == inv[w].plan
        ids == [i \in DOMAIN plan.new |-> <<inv[w].job, i, w>>]
    IN  /\ inv[w].at = "flushing"
        /\ IF Exists(w) /\ CanFlush(log, plan)
           THEN /\ log' = Flushed(log, plan, ids)
                /\ job' = [job EXCEPT
                      !.rows = [r \in DOMAIN @ |-> IF r \in batch THEN plan.out[r] ELSE @[r]],
                      !.processed = @ + Cardinality(batch)]
                /\ \E at \in {"taking", "bumping"} : inv' = Unsettle([inv EXCEPT ![w] = GoTo(@, at)], w)
                /\ outdated' = (outdated \/ inv[w].stale)
           ELSE /\ inv' = [inv EXCEPT ![w] = GoTo(@, "failing")]
                /\ UNCHANGED <<job, log, outdated>>
        /\ UNCHANGED <<faults, edits, dropped>>

\* bumpReinvokeCount, and what follows from the count.
BumpReinvokes(w) ==
    /\ inv[w].at = "bumping"
    /\ IF Exists(w)
       THEN /\ job' = [job EXCEPT !.reinvokes = @ + 1]
            /\ inv' = [inv EXCEPT ![w].at = IF job.reinvokes + 1 > MAX_REINVOKES THEN "failing" ELSE "reinvoking"]
       ELSE /\ inv' = [inv EXCEPT ![w].at = "failing"]
            /\ UNCHANGED job
    /\ UNCHANGED <<log, faults, edits, outdated, dropped>>

\* Mutant of Reinvoke: nothing is sent.
ReinvokeUnsent(w) ==
    /\ inv[w].at = "reinvoking"
    /\ inv' = [inv EXCEPT ![w] = Free]
    /\ UNCHANGED <<job, log, faults, edits, outdated, dropped>>

\* The invocation of itself is sent, and this one returns.
Reinvoke(w) ==
    /\ inv[w].at = "reinvoking"
    /\ inv' = [inv EXCEPT ![w] = Queued(inv[w].job)]
    /\ UNCHANGED <<job, log, faults, edits, outdated, dropped>>

\* The passes over the other tabs of the sheet, none of which looks at the job.
FinalPasses(w) ==
    /\ inv[w].at = "passes"
    /\ inv' = [inv EXCEPT ![w].at = "completing"]
    /\ UNCHANGED <<job, log, faults, edits, outdated, dropped>>

Complete(w) ==
    /\ inv[w].at = "completing"
    /\ IF Exists(w)
       THEN /\ job' = [job EXCEPT !.status = "completed"]
            /\ inv' = [inv EXCEPT ![w] = Free]
       ELSE /\ inv' = [inv EXCEPT ![w].at = "failing"]
            /\ UNCHANGED job
    /\ UNCHANGED <<log, faults, edits, outdated, dropped>>

\* The handler's catch, and the cap on reinvocations.  It never throws.
MarkFailed(w) ==
    /\ inv[w].at = "failing"
    /\ job' = IF Exists(w) THEN [job EXCEPT !.status = "failed"] ELSE job
    /\ inv' = [inv EXCEPT ![w] = Free]
    /\ UNCHANGED <<log, faults, edits, outdated, dropped>>

-----------------------------------------------------------------------------
(* Faults.                                                                 *)

\* A statement of the worker fails.
Throw(w) ==
    /\ inv[w].at \notin {"free", "queued", "failing"}
    /\ Fault
    /\ inv' = [inv EXCEPT ![w] = GoTo(@, "failing")]
    /\ UNCHANGED <<job, log, edits, outdated, dropped>>

\* The worker dies or times out, and Lambda delivers the invocation again.
Retried(w) == IF inv[w].tries < MaxRetries THEN [Queued(inv[w].job) EXCEPT !.tries = inv[w].tries + 1] ELSE Free

Crash(w) ==
    /\ inv[w].at \notin {"free", "queued"}
    /\ Fault
    /\ inv' = [inv EXCEPT ![w] = Retried(w)]
    /\ dropped' = IF Retried(w) = Free THEN dropped \cup {inv[w].job} ELSE dropped
    /\ UNCHANGED <<job, log, edits, outdated>>

\* It dies after the invocation of itself was sent.
CrashReinvoked(w) ==
    /\ inv[w].at = "reinvoking"
    /\ Fault
    /\ \E v \in Invocations :
          /\ inv[v] = Free
          /\ inv' = [inv EXCEPT ![v] = Queued(inv[w].job), ![w] = Retried(w)]
    /\ UNCHANGED <<job, log, edits, outdated, dropped>>

\* Lambda delivers an invocation twice.
Duplicate(w) ==
    /\ inv[w].at = "queued"
    /\ Fault
    /\ \E v \in Invocations :
          /\ inv[v] = Free
          /\ inv' = [inv EXCEPT ![v] = inv[w]]
    /\ UNCHANGED <<job, log, edits, outdated, dropped>>

-----------------------------------------------------------------------------
(* The user's own requests, as module Progress has them.                   *)

Edit ==
    /\ edits < MaxEdits
    /\ edits' = edits + 1

\* An update entered by hand.
ByHand(l, kind, date) ==
    [id |-> <<0, edits + 100, None>>, kind |-> kind, level |-> l, date |-> date, mark |-> None, data |-> None]

\* The log with these entries, level l at `status`, its level_progress made if missing.
WithUpdates(l, status, es) ==
    LET new == log.lp[l].id = 0
    IN  [log EXCEPT !.lp[l] = [id |-> IF new THEN log.made[l] + 1 ELSE @.id, status |-> status],
                    !.made[l] = @ + IF new THEN 1 ELSE 0,
                    !.entries = es]

\* A completion is logged: an existing one is edited in place.
LogCompletion(l, date) ==
    /\ Edit
    /\ LET es == IF HasCompletion(log, l)
                 THEN {IF e = StoredCompletion(log, l) THEN [e EXCEPT !.date = date] ELSE e : e \in log.entries}
                 ELSE log.entries \cup {ByHand(l, "COMPLETION", date)}
       IN  log' = [WithUpdates(l, "COMPLETED", es) EXCEPT !.wanted = @ \ {l}]
    /\ inv' = Unsettle(inv, None)
    /\ UNCHANGED <<job, faults, outdated, dropped>>

\* Progress is logged; a beaten level stays COMPLETED, and takes none dated after.
LogProgress(l, date) ==
    /\ Edit
    /\ HasCompletion(log, l) => ~ DatedAfter(StoredCompletion(log, l).date, date)
    /\ log' = WithUpdates(l, IF log.lp[l].status = "COMPLETED" THEN "COMPLETED" ELSE "IN_PROGRESS",
                   log.entries \cup {ByHand(l, "PROGRESS", date)})
    /\ inv' = Unsettle(inv, None)
    /\ UNCHANGED <<job, faults, outdated, dropped>>

\* A level is dropped, beaten or not; its completion stays.
LogDrop(l, date) ==
    /\ Edit
    /\ log' = WithUpdates(l, "DROPPED", log.entries \cup {ByHand(l, "DROP", date)})
    /\ inv' = Unsettle(inv, None)
    /\ UNCHANGED <<job, faults, outdated, dropped>>

\* Mutant of DeleteLevel: the status stays behind.
DeleteLevelStatus(l) ==
    /\ Edit
    /\ log.lp[l].id # 0
    /\ log' = [log EXCEPT !.lp[l].id = 0, !.entries = {e \in @ : e.level # l}]
    /\ inv' = Unsettle(inv, None)
    /\ UNCHANGED <<job, faults, outdated, dropped>>

\* All of a level is deleted.
DeleteLevel(l) ==
    /\ Edit
    /\ log.lp[l].id # 0
    /\ log' = [log EXCEPT !.lp[l] = NoLp, !.entries = {e \in @ : e.level # l}]
    /\ inv' = Unsettle(inv, None)
    /\ UNCHANGED <<job, faults, outdated, dropped>>

\* What the replay of deleteProgressUpdate may come to, in whichever order updates of
\* these kinds were logged.
Replays(kinds) ==
    {s \in {"IN_PROGRESS", "DROPPED", "COMPLETED"} :
        /\ s = "COMPLETED" => "COMPLETION" \in kinds
        /\ s = "DROPPED" => "DROP" \in kinds
        /\ s = "IN_PROGRESS" => \/ {"COMPLETION", "DROP"} \cap kinds = {}
                                \/ {"DROP", "PROGRESS"} \subseteq kinds}

\* One of several updates of a level is deleted; without others DeleteLevel is what it does.
DeleteUpdate(e) ==
    LET kinds == {d.kind : d \in {d \in log.entries \ {e} : d.level = e.level}}
    IN  /\ Edit
        /\ log.lp[e.level].id # 0
        /\ kinds # {}
        /\ \E s \in Replays(kinds) :
              log' = [log EXCEPT !.lp[e.level].status = s, !.entries = @ \ {e}]
        /\ inv' = Unsettle(inv, None)
        /\ UNCHANGED <<job, faults, outdated, dropped>>

\* A level without a completion is added to Want to Beat.
Want(l) ==
    /\ Edit
    /\ ~ HasCompletion(log, l)
    /\ log' = [log EXCEPT !.wanted = @ \cup {l}]
    /\ UNCHANGED <<job, inv, faults, outdated, dropped>>

-----------------------------------------------------------------------------

Work(w) ==
    \/ Deliver(w) \/ TakeBatch(w) \/ Plan(w) \/ FlushBatch(w) \/ BumpReinvokes(w)
    \/ Reinvoke(w) \/ FinalPasses(w) \/ Complete(w) \/ MarkFailed(w)

EditByHand ==
    \/ \E l \in Levels :
          \/ \E date \in Dates : LogCompletion(l, date) \/ LogProgress(l, date) \/ LogDrop(l, date)
          \/ DeleteLevel(l) \/ Want(l)
    \/ \E e \in log.entries : DeleteUpdate(e)

Next ==
    \/ /\ job.id < MaxImports
       /\ \E sheet \in Sheets[job.id + 1] : Start(sheet) \/ StartUnsent(sheet)
    \/ \E w \in Invocations :
          \/ Work(w)
          \/ Throw(w) \/ Crash(w) \/ CrashReinvoked(w) \/ Duplicate(w)
    \/ EditByHand

\* Lambda delivers what is queued, and a worker that runs goes on.
Fairness == \A w \in Invocations : WF_vars(Work(w))

Spec == Init /\ [][Next]_vars /\ Fairness

-----------------------------------------------------------------------------
(* Properties.                                                             *)

Outcomes == {"pending", "committed", "updated", "skipped", "failed"}

TypeOK ==
    /\ job.id \in 0..MaxImports
    /\ job.status \in {"none", "running", "completed", "failed"}
    /\ job.rows \in [DOMAIN job.sheet -> Outcomes]
    /\ job.processed \in Nat /\ job.reinvokes \in Nat
    /\ IsLog(log)
    /\ \A w \in Invocations :
          /\ inv[w].at \in {"free", "queued", "taking", "planning", "flushing", "bumping",
                            "reinvoking", "passes", "completing", "failing"}
          /\ inv[w].job \in 0..job.id
          /\ inv[w].tries \in 0..MaxRetries
    /\ dropped \subseteq 1..job.id

\* Across deaths, retries and reinvocations no row of a sheet enters the log twice, and the
\* checkpoint counts each settled row once, unless two invocations flushed over each other.
AppliedOnce ==
    ~ outdated =>
        /\ job.processed = Cardinality(Settled)
        /\ \A d, e \in log.entries : d.id[1] > 0 /\ <<d.id[1], d.id[2]>> = <<e.id[1], e.id[2]>> => d = e

\* services/progress, of imports as of edits by hand: nothing beaten stays in Want to Beat,
\* whoever flushed over whom; and unless a batch was flushed over what it had not read, no
\* level has two completions, is COMPLETED without one, or loses the status without a drop.
LogConsistent == WantsUnbeaten(log) /\ (~ outdated => Consistent(log))

\* A job that completed has no row left, even if invocations of it ran at once.
CompletedIsDone == job.status = "completed" => Pending = {}

\* A job discarded by a newer import puts nothing more into the log.
DiscardedIsDead ==
    [][\A e \in log'.entries : e \notin log.entries /\ e.id[1] > 0 /\ (\A d \in log.entries : d.id # e.id)
          => e.id[1] = job.id]_vars

\* All the user sees of it is what module ImportStatus promises.
Status == INSTANCE ImportStatus WITH id <- job.id, status <- job.status, rows <- job.rows
ShowsStatus == Status!StatusSpec

\* A job that runs ends, unless an invocation of it was lost for good.
Settles ==
    \A j \in 1..MaxImports :
        job.id = j /\ job.status = "running" ~> job.id # j \/ job.status # "running" \/ j \in dropped
=============================================================================
