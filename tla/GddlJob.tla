------------------------------ MODULE GddlJob ------------------------------
(***************************************************************************)
(* One user's GDDL sync: POST, GET and ack of /me/gddl-sync                *)
(* (routes/account/gddlSync.ts) and the worker Lambda they wait for        *)
(* (handlers/gddlSyncWorker.ts).  The job is one row that every run uses   *)
(* again; `run` is its startedAt, which tells the runs apart.              *)
(*                                                                         *)
(* Requests run side by side, each a read and then its writes.  An         *)
(* invocation waits for as long as Lambda throttles it, runs for TIMEOUT   *)
(* ticks at most, and is delivered at least once, and again after a        *)
(* failure.                                                                *)
(***************************************************************************)
EXTENDS Naturals, FiniteSets

CONSTANTS
    Requests,    \* requests that can run at the same time
    Workers,     \* invocations that can exist at the same time
    STALE,       \* GDDL_SYNC_STALE_MS, in ticks
    TIMEOUT,     \* the worker's Lambda timeout, in ticks
    MaxRetries,  \* how often Lambda delivers a failed invocation again
    MaxRuns,     \* bounds: runs, and requests and workers that die
    MaxFaults

ASSUME TimeAssumption == {STALE, TIMEOUT} \subseteq Nat /\ TIMEOUT < STALE
ASSUME BoundsAssumption == {MaxRetries, MaxRuns, MaxFaults} \subseteq Nat
ASSUME RequestsAssumption == IsFiniteSet(Requests)

VARIABLES
    job,     \* the gddl_sync_jobs row
    req,     \* what each request is doing
    worker,  \* the worker's invocations
    shown,   \* what GET has shown the client: runs and their status
    runs,    \* how many runs there have been
    faults

vars == <<job, req, worker, shown, runs, faults>>

\* `age` counts the ticks since startedAt, and those an invocation has run; `began` is the
\* job's age when it was let run.
NoJob == [status |-> "none", run |-> 0, acked |-> FALSE, age |-> 0]
Idle == [at |-> "idle", kind |-> "none", run |-> 0]
Free == [at |-> "free", run |-> 0, age |-> 0, tries |-> 0, began |-> 0]

\* Mutant of Stale: a run is given up once a worker that started with it had its time.
StaleEarly == job.status = "pending" /\ job.age >= TIMEOUT

Stale == job.status = "pending" /\ job.age > STALE

\* POSTs that have read the row and will start a run.
Posted == {p \in Requests : req[p].kind = "post" /\ req[p].at \in {"expire", "start"}}

Fault ==
    /\ faults < MaxFaults
    /\ faults' = faults + 1

Init ==
    /\ job = NoJob
    /\ req = [p \in Requests |-> Idle]
    /\ worker = [w \in Workers |-> Free]
    /\ shown = {}
    /\ runs = 0
    /\ faults = 0

-----------------------------------------------------------------------------
(* POST /me/gddl-sync.                                                     *)

\* The row is read.  A pending run is left alone, unless it is stale.
PostRead(p) ==
    /\ req[p] = Idle
    /\ runs + Cardinality(Posted) < MaxRuns
    /\ job.status = "pending" => Stale
    /\ req' = [req EXCEPT ![p] =
          [at |-> IF Stale THEN "expire" ELSE "start", kind |-> "post", run |-> job.run]]
    /\ UNCHANGED <<job, worker, shown, runs, faults>>

\* expireIfStale's write, of whatever the row holds by now.  GET then shows the run it
\* read as failed.
Expire(p) ==
    /\ req[p].at = "expire"
    /\ job' = [job EXCEPT !.status = "failed"]
    /\ IF req[p].kind = "post"
       THEN /\ req' = [req EXCEPT ![p].at = "start"]
            /\ UNCHANGED shown
       ELSE /\ req' = [req EXCEPT ![p] = Idle]
            /\ shown' = shown \cup {<<req[p].run, "failed">>}
    /\ UNCHANGED <<worker, runs, faults>>

\* The upsert starts a run in the row.
Start(p) ==
    /\ req[p].at = "start"
    /\ runs' = runs + 1
    /\ job' = [NoJob EXCEPT !.status = "pending", !.run = runs + 1]
    /\ req' = [req EXCEPT ![p].at = "invoke", ![p].run = runs + 1]
    /\ UNCHANGED <<worker, shown, faults>>

Invoke(p) ==
    /\ req[p].at = "invoke"
    /\ \E w \in Workers :
          /\ worker[w] = Free
          /\ worker' = [worker EXCEPT ![w] = [Free EXCEPT !.at = "queued", !.run = req[p].run]]
    /\ req' = [req EXCEPT ![p] = Idle]
    /\ UNCHANGED <<job, shown, runs, faults>>

\* The request is cut off, or its write or its invocation fails.
Die(p) ==
    /\ req[p] # Idle
    /\ Fault
    /\ req' = [req EXCEPT ![p] = Idle]
    /\ UNCHANGED <<job, worker, shown, runs>>

-----------------------------------------------------------------------------
(* GET /me/gddl-sync, and its ack.                                         *)

\* Mutant of Get: a stale run is shown like any other.
GetAsIs(p) ==
    /\ req[p] = Idle
    /\ job.run > 0
    /\ ~ job.acked
    /\ shown' = shown \cup {<<job.run, job.status>>}
    /\ UNCHANGED <<job, req, worker, runs, faults>>

\* A run is shown while it is pending or not acknowledged.
Get(p) ==
    /\ req[p] = Idle
    /\ job.run > 0
    /\ IF Stale
       THEN /\ req' = [req EXCEPT ![p] = [at |-> "expire", kind |-> "get", run |-> job.run]]
            /\ UNCHANGED shown
       ELSE /\ shown' = IF job.acked THEN shown ELSE shown \cup {<<job.run, job.status>>}
            /\ UNCHANGED req
    /\ UNCHANGED <<job, worker, runs, faults>>

\* Mutant of Ack: startedAt is not pinned.
AckAny(run) ==
    /\ \E s \in {"completed", "failed"} : <<run, s>> \in shown
    /\ job.status # "pending"
    /\ job' = [job EXCEPT !.acked = TRUE]
    /\ UNCHANGED <<req, worker, shown, runs, faults>>

\* The client acknowledges, however late, a run it has seen the end of.
Ack(run) ==
    /\ \E s \in {"completed", "failed"} : <<run, s>> \in shown
    /\ job.run = run
    /\ job.status # "pending"
    /\ job' = [job EXCEPT !.acked = TRUE]
    /\ UNCHANGED <<req, worker, shown, runs, faults>>

-----------------------------------------------------------------------------
(* The worker.                                                             *)

Run(w) ==
    /\ worker[w].at = "queued"
    /\ worker' = [worker EXCEPT ![w].at = "running", ![w].age = 0, ![w].began = job.age]
    /\ UNCHANGED <<job, req, shown, runs, faults>>

\* The sync succeeds or fails, which is written on the row whatever it holds.
Finish(w) ==
    /\ worker[w].at = "running"
    /\ \E s \in {"completed", "failed"} : job' = [job EXCEPT !.status = s]
    /\ worker' = [worker EXCEPT ![w] = Free]
    /\ UNCHANGED <<req, shown, runs, faults>>

\* Lambda delivers an invocation twice.
Duplicate(w) ==
    /\ worker[w].at = "queued"
    /\ Fault
    /\ \E v \in Workers :
          /\ worker[v] = Free
          /\ worker' = [worker EXCEPT ![v] = worker[w]]
    /\ UNCHANGED <<job, req, shown, runs>>

\* Lambda delivers the invocation again.
Again(w) == [worker[w] EXCEPT !.at = "queued", !.age = 0, !.tries = @ + 1]

\* Mutant of Kill: it is delivered again each time.
KillForever(w) ==
    /\ worker[w].at = "running"
    /\ faults' = faults
    /\ worker' = [worker EXCEPT ![w] = Again(w)]
    /\ UNCHANGED <<job, req, shown, runs>>

\* It dies or runs out of time, and is delivered again a few times.
Kill(w) ==
    /\ worker[w].at = "running"
    /\ Fault
    /\ worker' = [worker EXCEPT ![w] =
          IF worker[w].tries < MaxRetries THEN Again(w) ELSE Free]
    /\ UNCHANGED <<job, req, shown, runs>>

\* Its last write fails too, which it swallows: nothing is delivered again.
Mute(w) ==
    /\ worker[w].at = "running"
    /\ Fault
    /\ worker' = [worker EXCEPT ![w] = Free]
    /\ UNCHANGED <<job, req, shown, runs>>

\* Time passes: no invocation runs for longer than TIMEOUT, and ages are only counted for
\* as long as they matter.
Tick ==
    /\ \A w \in Workers : worker[w].at = "running" => worker[w].age < TIMEOUT
    /\ job.status = "pending" /\ job.age <= STALE
    /\ job' = [job EXCEPT !.age = @ + 1]
    /\ worker' = [w \in Workers |-> IF worker[w].at = "running" THEN [worker[w] EXCEPT !.age = @ + 1]
                                    ELSE worker[w]]
    /\ UNCHANGED <<req, shown, runs, faults>>

Next ==
    \/ \E p \in Requests : PostRead(p) \/ Expire(p) \/ Start(p) \/ Invoke(p) \/ Die(p) \/ Get(p)
    \/ \E run \in 1..MaxRuns : Ack(run)
    \/ \E w \in Workers : Run(w) \/ Finish(w) \/ Duplicate(w) \/ Kill(w) \/ Mute(w)
    \/ Tick

\* The client polls, requests that were sent go on, a worker that runs ends, and time
\* passes.  Nothing says when Lambda lets an invocation start.
Fairness ==
    /\ \A p \in Requests : WF_vars(Get(p)) /\ WF_vars(Expire(p) \/ Start(p) \/ Invoke(p))
    /\ \A w \in Workers : WF_vars(Finish(w))
    /\ WF_vars(Tick)

Spec == Init /\ [][Next]_vars /\ Fairness

-----------------------------------------------------------------------------
(* Properties.                                                             *)

TypeOK ==
    /\ job \in [status : {"none", "pending", "completed", "failed"}, run : 0..MaxRuns, acked : BOOLEAN, age : 0..STALE + 1]
    /\ req \in [Requests -> [at : {"idle", "expire", "start", "invoke"}, kind : {"none", "post", "get"},
                             run : 0..MaxRuns]]
    /\ worker \in [Workers -> [at : {"free", "queued", "running"}, run : 0..MaxRuns,
                               age : 0..TIMEOUT, tries : 0..MaxRetries, began : 0..STALE + 1]]
    /\ shown \subseteq (1..MaxRuns) \X {"pending", "completed", "failed"}
    /\ runs \in 0..MaxRuns
    /\ faults \in 0..MaxFaults

\* Only the user's newest run is acknowledged, and only once its end was shown: a delayed
\* ack of an older run never hides it.
AckedWasShown == job.acked => \E s \in {"completed", "failed"} : <<job.run, s>> \in shown

\* The pending run that a request read as stale is given up over a worker that is still at
\* it only if Lambda let that worker run late, more than STALE - TIMEOUT after the start:
\* one let run before then has had its time, whoever died, was retried or came twice.
GivenUpIsLate ==
    [][\A p \in Requests :
          Expire(p) /\ req[p].run = job.run /\ job.status = "pending"
             => \A w \in Workers : worker[w].at = "running" /\ worker[w].run = job.run
                                    => worker[w].began > STALE - TIMEOUT]_vars

\* A pending run ends: one whose worker is lost is given up by a poll.
RunEnds ==
    \A r \in 1..MaxRuns : job.run = r /\ job.status = "pending" ~> job.run # r \/ job.status # "pending"
=============================================================================
