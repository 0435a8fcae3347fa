----------------------------- MODULE LevelSweep -----------------------------
(***************************************************************************)
(* The order in which the cron looks at the level cache                    *)
(* (handlers/levelSyncWorker.ts, services/levels/sync.ts): a slice of the  *)
(* live levels, cut short by a circuit breaker; a slice of the delisted    *)
(* ones; a slice of those due for the community lists, cut short by the    *)
(* clock.  Each pass has a cursor of its own, which says where the next    *)
(* run goes on.  What a check makes of one level is module LevelCache's;   *)
(* levels enter and leave the cache meanwhile.                             *)
(***************************************************************************)
EXTENDS Naturals, FiniteSets, FiniteSetsExt

CONSTANTS
    Ids,       \* level ids, in the order of their rotation
    SLICE,     \* SYNC_SLICE_SIZE, and the sizes of the other two slices
    STREAK,    \* CIRCUIT_BREAKER_STREAK
    MaxFaults  \* bound: runs that die

ASSUME IdsAssumption == Ids \subseteq Nat \ {0} /\ IsFiniteSet(Ids)
ASSUME LimitsAssumption == {SLICE, STREAK} \subseteq Nat \ {0} /\ MaxFaults \in Nat

VARIABLES
    level,   \* whether each level is cached, and live
    due,     \* the levels due for a check of the community lists
    cursor,  \* level_sync_cursor: one row per pass
    run,     \* the run of the cron
    faults

vars == <<level, due, cursor, run, faults>>

Passes == {"main", "reverify", "community"}
States == {"none", "live", "delisted"}

\* The pass, the rest of its slice, the last level tried and the breaker's streak.
Idle == [at |-> "idle", pass |-> "main", left |-> {}, id |-> 0, streak |-> 0]

Init ==
    /\ level \in [Ids -> States]
    /\ due = Ids
    /\ cursor = [pass \in Passes |-> 0]
    /\ run = Idle
    /\ faults = 0

-----------------------------------------------------------------------------

Eligible(pass) ==
    CASE pass = "main" -> {id \in Ids : level[id] = "live"}
      [] pass = "reverify" -> {id \in Ids : level[id] = "delisted"}
      [] pass = "community" -> {id \in due : level[id] = "live"}

\* nextSlice: the first ids past the cursor, or from the start of the rotation again.
Slice(pass) ==
    LET past == {id \in Eligible(pass) : id > cursor[pass]}
        rest == IF past = {} THEN Eligible(pass) ELSE past
    IN  {id \in rest : Cardinality({i \in rest : i < id}) < SLICE}

\* Another path caches a level, or deletes one it may not keep.
Come(id) ==
    /\ level[id] = "none"
    /\ level' = [level EXCEPT ![id] = "live"]
    /\ due' = due \cup {id}
    /\ UNCHANGED <<cursor, run, faults>>

Go(id) ==
    /\ level[id] = "live"
    /\ level' = [level EXCEPT ![id] = "none"]
    /\ UNCHANGED <<due, cursor, run, faults>>

\* A week has passed since the level's last check of the community lists.
Age(id) ==
    /\ id \notin due
    /\ due' = due \cup {id}
    /\ UNCHANGED <<level, cursor, run, faults>>

-----------------------------------------------------------------------------
(* One run: for each pass Begin, then Ask and an answer for each level, then Save. *)

After(pass, aborted) ==
    CASE pass = "main" -> [Idle EXCEPT !.at = "begin", !.pass = IF aborted THEN "community" ELSE "reverify"]
      [] pass = "reverify" -> [Idle EXCEPT !.at = "begin", !.pass = "community"]
      [] pass = "community" -> Idle

Begin ==
    /\ run.at \in {"idle", "begin"}
    /\ run' = IF Slice(run.pass) = {} THEN After(run.pass, FALSE)
              ELSE [run EXCEPT !.at = "pick", !.left = Slice(run.pass)]
    /\ run' # run
    /\ UNCHANGED <<level, due, cursor, faults>>

\* A level's row is read, and asked about.
Ask ==
    /\ run.at = "pick"
    /\ run' = [run EXCEPT !.at = "asked", !.id = Min(run.left), !.left = @ \ {Min(@)}]
    /\ UNCHANGED <<level, due, cursor, faults>>

\* The slice ends with its last level, and the main one when STREAK levels in a row were
\* missing, not reached or failed.
Done(streak) ==
    run' = [run EXCEPT !.streak = streak,
                       !.at = IF run.left = {} \/ streak = STREAK THEN "save" ELSE "pick"]

\* The main pass found the level, which may leave the cache as a rated non-demon.
Hit ==
    /\ run.at = "asked" /\ run.pass = "main"
    /\ level[run.id] # "none"
    /\ level' \in {level, [level EXCEPT ![run.id] = "none"]}
    /\ Done(0)
    /\ UNCHANGED <<due, cursor, faults>>

\* It was missing, which may delist it, or not reached, or its write failed.
Miss ==
    /\ run.at = "asked" /\ run.pass = "main"
    /\ level' \in {level} \cup (IF level[run.id] = "live" THEN {[level EXCEPT ![run.id] = "delisted"]} ELSE {})
    /\ Done(run.streak + 1)
    /\ UNCHANGED <<due, cursor, faults>>

\* Its row is gone, which says nothing of RobTop.
Vanished ==
    /\ run.at = "asked" /\ run.pass = "main"
    /\ level[run.id] = "none"
    /\ Done(run.streak)
    /\ UNCHANGED <<level, due, cursor, faults>>

\* The second pass takes back a level that RobTop has again.
Recheck ==
    /\ run.at = "asked" /\ run.pass = "reverify"
    /\ level' \in {level} \cup (IF level[run.id] = "delisted" THEN {[level EXCEPT ![run.id] = "live"]} ELSE {})
    /\ Done(0)
    /\ UNCHANGED <<due, cursor, faults>>

\* The third pass: a level some list answered for is not due for a while, one that no
\* list answered for stays due.
CheckLists ==
    /\ run.at = "asked" /\ run.pass = "community"
    /\ due' \in {due, due \ {run.id}}
    /\ Done(0)
    /\ UNCHANGED <<level, cursor, faults>>

\* It is out of time, which it cannot be before its first level.
OutOfTime ==
    /\ run.at = "pick" /\ run.pass = "community" /\ run.id # 0
    /\ run' = [run EXCEPT !.at = "save"]
    /\ UNCHANGED <<level, due, cursor, faults>>

\* Mutants of Save: the cursor moves past the slice, cut short or not; it moves only when
\* the slice was not cut short.
SavePast ==
    /\ run.at = "save"
    /\ cursor' = [cursor EXCEPT ![run.pass] = Max(run.left \cup {run.id})]
    /\ run' = After(run.pass, run.streak = STREAK)
    /\ UNCHANGED <<level, due, faults>>

SaveWhole ==
    /\ run.at = "save"
    /\ cursor' = IF run.left = {} THEN [cursor EXCEPT ![run.pass] = run.id] ELSE cursor
    /\ run' = After(run.pass, run.streak = STREAK)
    /\ UNCHANGED <<level, due, faults>>

\* The cursor moves to the last level tried.  An aborted main pass skips the second.
Save ==
    /\ run.at = "save"
    /\ cursor' = [cursor EXCEPT ![run.pass] = run.id]
    /\ run' = After(run.pass, run.streak = STREAK)
    /\ UNCHANGED <<level, due, faults>>

\* The run dies: no cursor moves.
Die ==
    /\ run # Idle
    /\ faults < MaxFaults
    /\ faults' = faults + 1
    /\ run' = Idle
    /\ UNCHANGED <<level, due, cursor>>

-----------------------------------------------------------------------------

Step == Begin \/ Ask \/ Hit \/ Miss \/ Vanished \/ Recheck \/ CheckLists \/ OutOfTime \/ Save

Next ==
    \/ Step \/ Die
    \/ \E id \in Ids : Come(id) \/ Go(id) \/ Age(id)

\* The cron starts a run every six hours, and a run goes on until it ends or dies.
Spec == Init /\ [][Next]_vars /\ WF_vars(Step)

-----------------------------------------------------------------------------
(* Properties.                                                             *)

Tries(pass, id) == run.at = "asked" /\ run.pass = pass /\ run.id = id

TypeOK ==
    /\ level \in [Ids -> States]
    /\ due \subseteq Ids
    /\ cursor \in [Passes -> Ids \cup {0}]
    /\ run \in [at : {"idle", "begin", "pick", "asked", "save"}, pass : Passes, left : SUBSET Ids,
                id : Ids \cup {0}, streak : 0..STREAK]
    /\ faults \in 0..MaxFaults

\* Every level that stays live is tried again and again, even while RobTop answers for
\* none and the breaker ends every run: an aborted slice skips nothing, and nothing holds
\* up the rotation.
Rotates == \A id \in Ids : []<>(level[id] # "live" \/ Tries("main", id))

\* So is a level due for the community lists, even while no list answers and every slice
\* runs out of time after its first level.
ListsAreAsked == \A id \in Ids : []<>(level[id] # "live" \/ id \notin due \/ Tries("community", id))
=============================================================================
