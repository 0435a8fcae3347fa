------------------------------ MODULE Progress ------------------------------
(***************************************************************************)
(* The log entries of one user and what hangs on them: services/progress   *)
(* (completions, progress, drops, edits, deletions), the Want to Beat       *)
(* collection, and the demon list of module DemonList.                     *)
(*                                                                         *)
(* An entry (level_progress) has a status and a history of updates in the  *)
(* order of their loggedAt.  Completing a level a second time edits its    *)
(* completion in place, so an update keeps the place it was first given.   *)
(* One action is one handler, committed as a whole.                        *)
(***************************************************************************)
EXTENDS DemonList, SequencesExt

CONSTANTS
    Classic,    \* the levels of level type CLASSIC
    MaxDay,     \* calendar days 1..MaxDay; 0 is an update without a date
    MaxUpdates  \* bound on the updates of all entries together

ASSUME ClassicAssumption == Classic \subseteq Levels
ASSUME MaxDayAssumption == MaxDay \in Nat
ASSUME MaxUpdatesAssumption == MaxUpdates \in Nat

VARIABLES
    status,     \* level_progress.status; "NONE" where there is no entry
    updates,    \* the progress_updates of each entry, by loggedAt
    wantToBeat, \* the levels of the built-in Want to Beat collection
    reused      \* history: the levels completed again while not COMPLETED

progressVars == <<entries, list, log, status, updates, wantToBeat, reused>>

Days == 0..MaxDay
Statuses == {"NONE", "IN_PROGRESS", "COMPLETED", "DROPPED"}
Update(kind, day) == [kind |-> kind, day |-> day]

\* The places of l's completions in its history.
Completions(l) == {i \in DOMAIN updates[l] : updates[l][i].kind = "COMPLETION"}
Beaten == {l \in Levels : Completions(l) # {}}

\* isDatedAfterCompletion, of an entry dated `day` on level l.
DatedAfter(l, day) ==
    \E i \in Completions(l) : updates[l][i].day # 0 /\ day > updates[l][i].day

\* The bound: an update is only added to fewer than MaxUpdates.
RoomForUpdate ==
    Cardinality(UNION {{l} \X DOMAIN updates[l] : l \in Levels}) < MaxUpdates

\* Mutant of Replayed: progress undoes a completion too.
ReplayedForgetfully(s, update) ==
    CASE update.kind = "COMPLETION" -> "COMPLETED"
      [] update.kind = "DROP" -> "DROPPED"
      [] update.kind = "PROGRESS" -> "IN_PROGRESS"

\* The body of deleteProgressUpdate's loop: what an update makes of the status s.
Replayed(s, update) ==
    CASE update.kind = "COMPLETION" -> "COMPLETED"
      [] update.kind = "DROP" -> "DROPPED"
      [] update.kind = "PROGRESS" -> IF s = "DROPPED" THEN "IN_PROGRESS" ELSE s

\* The status that loop gives the updates h, one after the other.
Replay(h) ==
    LET after[i \in 0..Len(h)] ==
            IF i = 0 THEN "IN_PROGRESS" ELSE Replayed(after[i - 1], h[i])
    IN  after[Len(h)]

-----------------------------------------------------------------------------
(* Actions.                                                                *)

ProgressInit ==
    /\ Init
    /\ entries = {}
    /\ status = [l \in Levels |-> "NONE"]
    /\ updates = [l \in Levels |-> <<>>]
    /\ wantToBeat = {}
    /\ reused = {}

\* findOrCreateLevelProgress.
FindOrCreate(l) == IF l \in entries THEN UNCHANGED <<entries, list, log>> ELSE CreateEntry(l)

SetStatus(l, s) == status' = [status EXCEPT ![l] = s]

AddUpdate(l, kind, day) ==
    /\ RoomForUpdate
    /\ updates' = [updates EXCEPT ![l] = Append(@, Update(kind, day))]

\* Mutant of removeFromWantToBeat: only the first completion removes the level.
LeaveWantToBeatOnce(l) ==
    wantToBeat' = IF l \in entries THEN wantToBeat ELSE wantToBeat \ {l}

\* removeFromWantToBeat.
LeaveWantToBeat(l) == wantToBeat' = wantToBeat \ {l}

\* Mutant of LogCompletion: a completion is always a new update.
LogCompletionAnew(l, day) ==
    /\ FindOrCreate(l)
    /\ AddUpdate(l, "COMPLETION", day)
    /\ SetStatus(l, "COMPLETED")
    /\ LeaveWantToBeat(l)
    /\ UNCHANGED reused

\* applyCompletion: an existing completion is edited in place, and keeps its
\* loggedAt.
LogCompletion(l, day) ==
    /\ FindOrCreate(l)
    /\ IF Completions(l) = {}
       THEN AddUpdate(l, "COMPLETION", day) /\ UNCHANGED reused
       ELSE /\ updates' = [updates EXCEPT ![l] =
                              [i \in DOMAIN @ |-> IF i \in Completions(l)
                                                  THEN Update("COMPLETION", day) ELSE @[i]]]
            /\ reused' = IF status[l] = "COMPLETED" THEN reused ELSE reused \cup {l}
    /\ SetStatus(l, "COMPLETED")
    /\ LeaveWantToBeat(l)

\* applyProgress: resumes a dropped level and leaves a completed one alone.
LogProgress(l, day) ==
    /\ ~ DatedAfter(l, day)
    /\ FindOrCreate(l)
    /\ AddUpdate(l, "PROGRESS", day)
    /\ SetStatus(l, IF status[l] = "COMPLETED" THEN "COMPLETED" ELSE "IN_PROGRESS")
    /\ UNCHANGED <<wantToBeat, reused>>

\* applyDrop: whatever the status was, and without a look at the demon list.
\* Its date, which no rule reads, is left out.
LogDrop(l) ==
    /\ FindOrCreate(l)
    /\ AddUpdate(l, "DROP", 0)
    /\ SetStatus(l, "DROPPED")
    /\ UNCHANGED <<wantToBeat, reused>>

\* Mutant of EditDay: the rule is only asked when progress is logged.
EditDayFreely(l, i, day) ==
    /\ i \in DOMAIN updates[l]
    /\ updates[l][i].kind # "DROP"
    /\ updates' = [updates EXCEPT ![l][i].day = day]
    /\ UNCHANGED <<entries, list, log, status, wantToBeat, reused>>

\* applyEdit, of an update's date.  Only a progress entry can be refused.
EditDay(l, i, day) ==
    /\ i \in DOMAIN updates[l]
    /\ updates[l][i].kind # "DROP"
    /\ updates[l][i].kind = "PROGRESS" => ~ DatedAfter(l, day)
    /\ updates' = [updates EXCEPT ![l][i].day = day]
    /\ UNCHANGED <<entries, list, log, status, wantToBeat, reused>>

\* The whole entry goes: DELETE /me/progress/:levelId, or the last update.
EraseEntry(l) ==
    /\ DeleteEntry(l)
    /\ updates' = [updates EXCEPT ![l] = <<>>]
    /\ SetStatus(l, "NONE")
    /\ reused' = reused \ {l}
    /\ UNCHANGED wantToBeat

\* Mutant of Uncomplete: the row goes without an event.
UncompleteSilently(l) ==
    /\ list' = Without(list, l)
    /\ UNCHANGED <<entries, log>>

\* What the list does when l stops being completed.
Uncomplete(l) == IF l \in DOMAIN list THEN Unplace(l) ELSE UNCHANGED <<entries, list, log>>

\* deleteProgressUpdate: the status is replayed from the updates that remain, and
\* a level whose status was COMPLETED and no longer is leaves the list.
DeleteUpdate(l, i) ==
    /\ i \in DOMAIN updates[l]
    /\ IF Len(updates[l]) = 1
       THEN EraseEntry(l)
       ELSE LET remaining == RemoveAt(updates[l], i)
            IN  /\ updates' = [updates EXCEPT ![l] = remaining]
                /\ SetStatus(l, Replay(remaining))
                /\ IF status[l] = "COMPLETED" /\ Replay(remaining) # "COMPLETED"
                   THEN Uncomplete(l)
                   ELSE UNCHANGED <<entries, list, log>>
                /\ reused' = reused \ {l}
                /\ UNCHANGED wantToBeat

\* addEntry and copyEntries into Want to Beat; removeEntry.
WantToBeat(l) ==
    /\ l \notin Beaten
    /\ wantToBeat' = wantToBeat \cup {l}
    /\ UNCHANGED <<entries, list, log, status, updates, reused>>

StopWanting(l) ==
    /\ l \in wantToBeat
    /\ wantToBeat' = wantToBeat \ {l}
    /\ UNCHANGED <<entries, list, log, status, updates, reused>>

\* placeCompletion, with the checks before it writes.
PlaceCompletion(l, above, below) ==
    /\ status[l] = "COMPLETED"
    /\ l \in Classic
    /\ Place(l, above, below)
    /\ UNCHANGED <<status, updates, wantToBeat, reused>>

ReorderEntry(l, above, below) ==
    /\ Reorder(l, above, below)
    /\ UNCHANGED <<status, updates, wantToBeat, reused>>

UnplaceEntry(l) ==
    /\ Unplace(l)
    /\ UNCHANGED <<status, updates, wantToBeat, reused>>

\* commitImportRanking on the targets resolveOrderingTargets finds: the classic
\* levels with a completion, whatever their status.
ImportRanking(S, p) ==
    /\ S \subseteq Beaten \cap Classic
    /\ BulkReplace(S, p)
    /\ UNCHANGED <<status, updates, wantToBeat, reused>>

ProgressNext ==
    \/ \E l \in Levels :
          \/ \E day \in Days : LogCompletion(l, day) \/ LogProgress(l, day)
          \/ LogDrop(l)
          \/ \E i \in DOMAIN updates[l] :
                DeleteUpdate(l, i) \/ \E day \in Days : EditDay(l, i, day)
          \/ EraseEntry(l)
          \/ WantToBeat(l)
          \/ StopWanting(l)
          \/ UnplaceEntry(l)
          \/ \E above, below \in Levels \cup {NoLevel} :
                PlaceCompletion(l, above, below) \/ ReorderEntry(l, above, below)
    \/ \E S \in SUBSET Levels : \E p \in Orders[S] : ImportRanking(S, p)

ProgressSpec == ProgressInit /\ [][ProgressNext]_progressVars

-----------------------------------------------------------------------------
(* Properties.                                                             *)

\* Every variable holds a value of its column, an entry has a status and at least
\* one update, no entry has two completions, and only classic levels are placed.
ProgressTypeOK ==
    /\ TypeOK
    /\ status \in [Levels -> Statuses]
    /\ updates \in [Levels -> Seq([kind : {"COMPLETION", "PROGRESS", "DROP"}, day : Days])]
    /\ wantToBeat \subseteq Levels
    /\ reused \subseteq entries
    /\ DOMAIN list \subseteq Classic
    /\ \A l \in Levels :
          /\ l \in entries <=> status[l] # "NONE"
          /\ l \in entries <=> updates[l] # <<>>
          /\ \A i, j \in Completions(l) : i = j

\* invariants.integration.test.ts: Want to Beat holds only unbeaten levels, however
\* completing, dropping, deleting and wanting again alternate.
WantToBeatUnbeaten == wantToBeat \cap Beaten = {}

\* Deleting an update replays the history under the rules the handlers apply: what
\* they made of a level's status and what a replay would make of it agree, except
\* after a dropped level was completed again.
ReplayAgrees ==
    \A l \in entries : status[l] = Replay(updates[l]) \/ (l \in reused /\ status[l] = "COMPLETED")

\* services/progress/index.ts:777: a level leaves the demon list by way of its history
\* only when its status walks away from COMPLETED.  So whichever updates a user adds,
\* edits or deletes, a level that keeps its completion keeps its place, except after
\* it was dropped and completed again.
PlaceOutlivesHistory ==
    [][ \A l \in DOMAIN list \cap Beaten' :
          updates'[l] # updates[l] => l \in DOMAIN list' \cup reused ]_progressVars

\* docs/LEVEL_LOGGING.md, the ordering rule: as long as a level's completion stays
\* as it is, no progress entry comes to lie after it that did not before.
Stranded(l) == {i \in DOMAIN updates[l] :
                  updates[l][i].kind = "PROGRESS" /\ DatedAfter(l, updates[l][i].day)}

CompletionDays(l) == {updates[l][i].day : i \in Completions(l)}

OrderingRule ==
    [][ \A l \in Levels :
          CompletionDays(l)' = CompletionDays(l) =>
              Cardinality(Stranded(l)') <= Cardinality(Stranded(l)) ]_progressVars

\* The demon list the handlers keep is the one module DemonList specifies: each
\* handler takes one of its steps, or leaves it alone.
KeepsDemonList == Spec

\* progress/index.ts: only COMPLETED entries may have a list row, so a level
\* without a completion never has one.
ListedIsBeaten == DOMAIN list \subseteq Beaten
=============================================================================
