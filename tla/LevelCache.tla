----------------------------- MODULE LevelCache -----------------------------
(***************************************************************************)
(* One level of the shared cache of GD's levels: how it enters             *)
(* (services/levels/resolve.ts, gdSearch.ts, admission.ts, the stubs of an *)
(* import and of a GDDL sync, the form of routes/levels/create.ts), how    *)
(* the seed worker completes a stub                                        *)
(* (handlers/levelSeedWorker.ts over its SQS queue), and how the cron      *)
(* checks it, delists it once it stays missing and takes it back when it   *)
(* reappears (services/levels/sync.ts).  Levels do not meet but in the     *)
(* order the cron takes them, which is module LevelSweep's.                *)
(*                                                                         *)
(* RobTop's servers answer for a level as it is now, say -1 under load for *)
(* one that exists, or cannot be reached; a reading of the row, the answer *)
(* and the write that follows are steps of their own.  A level is its      *)
(* rating: unrated, a demon, or a rated level that is none.  A tick is a   *)
(* part of the confirmation window, far longer than a run of the cron.     *)
(***************************************************************************)
EXTENDS Integers

CONSTANTS
    CONFIRM,      \* DELIST_CONFIRM_MS in ticks
    RECEIVES,     \* how often SQS delivers a message before it is dead
    MaxChanges,   \* bounds: how often GD rates, deletes or takes back the level, and
    MaxFaults     \* workers that die, writes that fail, messages lost or duplicated

ASSUME LimitsAssumption == {CONFIRM, RECEIVES} \subseteq Nat \ {0}
ASSUME BoundsAssumption == {MaxChanges, MaxFaults} \subseteq Nat

VARIABLES
    gd,      \* what GD holds
    row,     \* the level's row in the levels table
    used,    \* whether progress or a collection entry refers to it
    check,   \* the cron's check of it
    seed,    \* its message in the seed queue
    since,   \* history: ticks since the cron last found it
    wasDemon, \* history: GD has rated it a demon at some time
    changes, \* counts for the bounds
    faults

vars == <<gd, row, used, check, seed, since, wasDemon, changes, faults>>

-----------------------------------------------------------------------------
(* Levels, RobTop's answers, and admission.                                *)

Ratings == {"unrated", "demon", "other"}
NotMissing == -1

NoRow == [rating |-> "none", verified |-> FALSE, missing |-> NotMissing, delisted |-> FALSE]
Stub == [NoRow EXCEPT !.rating = "unrated"]
Snapshot(rating) == [NoRow EXCEPT !.rating = rating, !.verified = TRUE]

Cached == row # NoRow
Live == Cached /\ ~ row.delisted

Answers == {"unreachable", "not_found"} \cup ({gd} \ {"absent"})
Admissible(rating) == rating # "other"

\* buildRobtopRefreshData: the columns RobTop owns, and no others.
Refresh(r, rating) == [r EXCEPT !.rating = rating, !.verified = TRUE]

Idle == [at |-> "idle", seen |-> NoRow, answer |-> "none", kept |-> FALSE]
NoMessage == [at |-> "none", tries |-> 0, answer |-> "none"]

Fault ==
    /\ faults < MaxFaults
    /\ faults' = faults + 1

Init ==
    /\ gd \in Ratings
    /\ row = NoRow
    /\ used = FALSE
    /\ check = Idle
    /\ seed = NoMessage
    /\ since = CONFIRM
    /\ wasDemon = (gd = "demon")
    /\ changes = 0
    /\ faults = 0

\* GD rates or deletes the level, or takes it back.
Change ==
    /\ changes < MaxChanges
    /\ changes' = changes + 1
    /\ gd' \in (Ratings \cup {"absent"}) \ {gd}
    /\ wasDemon' = (wasDemon \/ gd' = "demon")
    /\ UNCHANGED <<row, used, check, seed, since, faults>>

\* The cron is six hours apart: no check is under way when the window moves on.
Tick ==
    /\ check = Idle
    /\ row' = [row EXCEPT !.missing = IF @ \in 0..CONFIRM - 1 THEN @ + 1 ELSE @]
    /\ since' = IF since < CONFIRM THEN since + 1 ELSE CONFIRM
    /\ <<row, since>>' # <<row, since>>
    /\ UNCHANGED <<gd, used, check, seed, wasDemon, changes, faults>>

-----------------------------------------------------------------------------
(* The ways in, and the references.                                        *)

\* Mutant of Resolve: whatever GD has is cached.
ResolveAnything ==
    /\ ~ Cached
    /\ gd # "absent"
    /\ row' = Snapshot(gd)
    /\ UNCHANGED <<gd, used, check, seed, since, wasDemon, changes, faults>>

\* A level page, a search of GD, a list sync, a GDDL sync or an import asks GD for a level
\* that is not cached, and caches what GD has, unless it is a rated non-demon.
Resolve ==
    /\ ~ Cached
    /\ gd # "absent" /\ Admissible(gd)
    /\ row' = Snapshot(gd)
    /\ UNCHANGED <<gd, used, check, seed, since, wasDemon, changes, faults>>

\* The list sync finds an incomplete row instead: it completes it, or purges it.
ResolveStub ==
    /\ Cached /\ ~ row.verified
    /\ gd # "absent"
    /\ Admissible(gd) \/ ~ used
    /\ row' = IF Admissible(gd) THEN Refresh(row, gd) ELSE NoRow
    /\ UNCHANGED <<gd, used, check, seed, since, wasDemon, changes, faults>>

\* A GDDL sync or an import that could not ask GD caches a stub, logs it, and queues it
\* for the seed worker once committed; the message may never be sent.
AddStub ==
    /\ ~ Cached
    /\ row' = Stub
    /\ used' = TRUE
    /\ \/ /\ seed' = IF seed.at \in {"none", "dead"} THEN [NoMessage EXCEPT !.at = "queued"] ELSE seed
          /\ UNCHANGED faults
       \/ /\ Fault
          /\ UNCHANGED seed
    /\ UNCHANGED <<gd, check, since, wasDemon, changes>>

\* POST /levels: a row typed in by hand when GD was not reached.  The label is the user's,
\* a demon tier, which counts as rated, or unrated; GD is not asked.
CreateByHand ==
    /\ ~ Cached
    /\ \E label \in {"unrated", "demon"} : row' = [Stub EXCEPT !.rating = label]
    /\ UNCHANGED <<gd, used, check, seed, since, wasDemon, changes, faults>>

\* Somebody logs or collects it; a GDDL sync that does queues an incomplete row again.
Use ==
    /\ Cached
    /\ used' = TRUE
    /\ \/ UNCHANGED seed
       \/ /\ ~ row.verified /\ seed.at \in {"none", "dead"}
          /\ seed' = [NoMessage EXCEPT !.at = "queued"]
    /\ UNCHANGED <<gd, row, check, since, wasDemon, changes, faults>>

\* The last who did deletes it.
Unuse ==
    /\ used
    /\ used' = FALSE
    /\ UNCHANGED <<gd, row, check, seed, since, wasDemon, changes, faults>>

-----------------------------------------------------------------------------
(* The cron's check.                                                       *)

\* syncOneLevel reads the row, and RobTop is asked.
Ask ==
    /\ check = Idle
    /\ Live
    /\ \E answer \in Answers : check' = [Idle EXCEPT !.at = "answered", !.seen = row, !.answer = answer]
    /\ UNCHANGED <<gd, row, used, seed, since, wasDemon, changes, faults>>

\* RobTop was not reached, or the write fails, or finds no row: nothing changes.
Skip ==
    /\ check # Idle
    /\ \/ /\ \/ check.answer = "unreachable"
             \/ ~ Cached /\ (check.at = "write" \/ check.answer = "not_found")
          /\ UNCHANGED faults
       \/ Fault
    /\ check' = Idle
    /\ UNCHANGED <<gd, row, used, seed, since, wasDemon, changes>>

\* RobTop has no such level: the first time is noted, and once it has been missing for
\* long enough it is delisted.
Missing ==
    /\ check.at = "answered" /\ check.answer = "not_found"
    /\ Cached
    /\ row' = IF check.seen.missing = NotMissing THEN [row EXCEPT !.missing = 0]
              ELSE [row EXCEPT !.delisted = @ \/ check.seen.missing >= CONFIRM]
    /\ check' = Idle
    /\ UNCHANGED <<gd, used, seed, since, wasDemon, changes, faults>>

\* It exists.  A level cached as unrated that is now a rated non-demon leaves the cache,
\* unless it is in use.
Purge ==
    /\ check.at = "answered" /\ check.answer \in Ratings
    /\ IF check.seen.rating = "unrated" /\ ~ Admissible(check.answer)
       THEN IF Cached /\ ~ used
            THEN row' = NoRow /\ check' = Idle
            ELSE row' = row /\ check' = [check EXCEPT !.at = "write", !.kept = TRUE]
       ELSE row' = row /\ check' = [check EXCEPT !.at = "write"]
    /\ UNCHANGED <<gd, used, seed, since, wasDemon, changes, faults>>

\* The columns that differ from the row as it was read; a level that is back is no longer
\* missing.
Drift == [row EXCEPT !.rating = IF check.answer # check.seen.rating THEN check.answer ELSE @,
                     !.missing = IF check.seen.missing # NotMissing THEN NotMissing ELSE @]

\* Mutants of Write: a level that is back stays missing; an incomplete row is compared
\* like any other.
WriteMissing ==
    /\ check.at = "write"
    /\ Cached
    /\ row' = Refresh(row, check.answer)
    /\ since' = 0
    /\ check' = Idle
    /\ UNCHANGED <<gd, used, seed, wasDemon, changes, faults>>

WriteDrift ==
    /\ check.at = "write"
    /\ Cached
    /\ row' = Drift
    /\ since' = 0
    /\ check' = Idle
    /\ UNCHANGED <<gd, used, seed, wasDemon, changes, faults>>

\* A complete row gets what drifted, a stub all of it.
Write ==
    /\ check.at = "write"
    /\ Cached
    /\ row' = IF check.seen.verified THEN Drift ELSE Refresh(Drift, check.answer)
    /\ since' = 0
    /\ check' = Idle
    /\ UNCHANGED <<gd, used, seed, wasDemon, changes, faults>>

\* runDelistedReverifySlice: what RobTop has again is live again.
Reverify ==
    /\ check = Idle
    /\ Cached /\ row.delisted
    /\ gd # "absent"
    /\ row' = [row EXCEPT !.delisted = FALSE, !.missing = NotMissing]
    /\ since' = 0
    /\ UNCHANGED <<gd, used, check, seed, wasDemon, changes, faults>>

-----------------------------------------------------------------------------
(* The seed worker.                                                        *)

\* Mutant of Redelivered: there is no dead-letter queue.
RedeliveredForever == [NoMessage EXCEPT !.at = "queued", !.tries = seed.tries + 1]

Redelivered ==
    IF seed.tries + 1 < RECEIVES THEN [NoMessage EXCEPT !.at = "queued", !.tries = seed.tries + 1]
    ELSE [NoMessage EXCEPT !.at = "dead"]

\* Another worker may have completed the stub; if not, RobTop is asked.
SeedAsk ==
    /\ seed.at = "queued"
    /\ IF row.verified
       THEN seed' = NoMessage
       ELSE \E answer \in Answers : seed' = [seed EXCEPT !.at = "answered", !.answer = answer]
    /\ UNCHANGED <<gd, row, used, check, since, wasDemon, changes, faults>>

\* Not reached: the invocation fails, for SQS to deliver the message again.
SeedRetry ==
    /\ seed.at = "answered" /\ seed.answer = "unreachable"
    /\ seed' = Redelivered
    /\ UNCHANGED <<gd, row, used, check, since, wasDemon, changes, faults>>

\* Every other answer ends the message.  The stub of a rated non-demon is purged unless it
\* is in use; a write that fails, or finds no row, is only logged.
SeedSettle ==
    /\ seed.at = "answered" /\ seed.answer # "unreachable"
    /\ seed' = NoMessage
    /\ \/ /\ row' = CASE seed.answer = "not_found" \/ ~ Cached -> row
                      [] seed.answer = "other" -> IF used THEN row ELSE NoRow
                      [] OTHER -> Refresh(row, seed.answer)
          /\ UNCHANGED faults
       \/ /\ Fault
          /\ UNCHANGED row
    /\ UNCHANGED <<gd, used, check, since, wasDemon, changes>>

\* The worker dies, or SQS delivers a message twice.
SeedFault ==
    /\ Fault
    /\ \/ /\ seed.at = "answered"
          /\ seed' = Redelivered
       \/ /\ seed.at = "none" /\ Cached
          /\ seed' = [seed EXCEPT !.at = "queued"]
    /\ UNCHANGED <<gd, row, used, check, since, wasDemon, changes>>

-----------------------------------------------------------------------------

Settle == Skip \/ Missing \/ Purge \/ Write

Next ==
    \/ Change \/ Tick
    \/ Resolve \/ ResolveStub \/ AddStub \/ CreateByHand \/ Use \/ Unuse
    \/ Ask \/ Settle \/ Reverify
    \/ SeedAsk \/ SeedRetry \/ SeedSettle \/ SeedFault

\* The rotation comes back to the level (module LevelSweep), each check goes on until it
\* ends, and RobTop, asked again and again for a level it has, answers at last.
AskFound == Ask /\ check'.answer \in Ratings
Fairness == WF_vars(Settle) /\ SF_vars(AskFound)

Spec == Init /\ [][Next]_vars /\ Fairness

-----------------------------------------------------------------------------
(* Properties.                                                             *)

Rows == {NoRow} \cup [rating : Ratings, verified : BOOLEAN, missing : {NotMissing} \cup 0..CONFIRM,
                      delisted : BOOLEAN]

\* The shape of the state.  A level that is in use is cached: purging one somebody has
\* logged would take their data with it.
TypeOK ==
    /\ gd \in Ratings \cup {"absent"}
    /\ row \in Rows
    /\ used \in BOOLEAN
    /\ used => Cached
    /\ check \in [at : {"idle", "answered", "write"}, seen : Rows, kept : BOOLEAN,
                  answer : Ratings \cup {"none", "unreachable", "not_found"}]
    /\ seed \in [at : {"none", "queued", "answered", "dead"}, tries : 0..RECEIVES,
                 answer : Ratings \cup {"none", "unreachable", "not_found"}]
    /\ since \in 0..CONFIRM
    /\ wasDemon \in BOOLEAN
    /\ changes \in 0..MaxChanges
    /\ faults \in 0..MaxFaults

\* A level is not delisted within the confirmation window after the cron last found it,
\* whatever RobTop answered in between and whoever else wrote its row.
NotJustFound == [][row'.delisted /\ ~ row.delisted => since = CONFIRM]_vars

\* A level turns up in the cache as a rated non-demon only through the cron, and only if it
\* was in use, or gone, when the cron would have purged it, if it was completed as a demon,
\* which GD then had rated it, or if its row is incomplete and a user's label made it rated.
AdmitsOnlyDemons ==
    [][row'.rating = "other" /\ row.rating # "other" =>
          /\ check.at = "write"
          /\ \/ check.kept
             \/ check.seen.verified /\ check.seen.rating = "demon" /\ wasDemon
             \/ ~ check.seen.verified /\ check.seen.rating # "unrated"]_vars

\* A live row that was never complete, of a level GD keeps, is completed in the end, though
\* its message was never sent, was lost or is dead: the cron repairs it.
StubsFill == Cached /\ ~ row.verified ~> ~ Live \/ row.verified \/ gd = "absent"
=============================================================================
