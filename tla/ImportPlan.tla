----------------------------- MODULE ImportPlan -----------------------------
(***************************************************************************)
(* What one batch of spreadsheet rows does to a user's log: the planning   *)
(* of processImportJobBatch (services/importExport/import), which decides  *)
(* every write in memory against a log it read beforehand, and the flush   *)
(* that applies the writes to the log as it is by then.                    *)
(*                                                                         *)
(* A row is [type, level, named, id, date, mark, data, resolution] and an  *)
(* entry (progress_update) is [id, kind, level, date, mark, data].  `mark` *)
(* stands for the percentage and the run, `data` for every other field;    *)
(* None is a blank cell.  The rows of a batch are a function on their      *)
(* numbers in the sheet.                                                   *)
(***************************************************************************)
EXTENDS Naturals, FiniteSets, FiniteSetsExt

CONSTANTS
    Levels,
    None     \* a blank cell; in no other set

\* A log is [lp, made, entries, wanted].  lp[l] is the level_progress of level l: `id` 0
\* where there is none, and made[l] counts the ones there have been.
NoLp == [id |-> 0, status |-> "NONE"]

Completions(log, l) == {e \in log.entries : e.kind = "COMPLETION" /\ e.level = l}

\* The one completion the prefetch takes.
HasCompletion(log, l) == Completions(log, l) # {}
StoredCompletion(log, l) == CHOOSE e \in Completions(log, l) : TRUE

-----------------------------------------------------------------------------
(* Which rows count.                                                       *)

Key(x) == <<x.date, x.mark>>
HasKey(x) == Key(x) # <<None, None>>

\* What only the last row of a batch may write: a level's completion, or the event that
\* an id or else a key names.
Target(r) ==
    IF r.type = "COMPLETION" THEN <<r.type, r.level>>
    ELSE IF r.id # None THEN <<r.type, r.id>>
    ELSE <<r.type, r.level, Key(r)>>

HasTarget(r) == r.type = "COMPLETION" \/ r.id # None \/ HasKey(r)

\* `bad` are the rows whose level GD does not confirm.
Superseded(rows, bad, i) ==
    /\ HasTarget(rows[i])
    /\ \E j \in DOMAIN rows \ bad : j > i /\ HasTarget(rows[j]) /\ Target(rows[j]) = Target(rows[i])

Discarded(r) == r.resolution \in {"drop", "duplicate"}

\* completionDateByLevel: the date level l's completion will carry after the batch.
CompletionDate(log, rows, bad, l) ==
    LET moves == {i \in DOMAIN rows \ bad :
                    /\ rows[i].type = "COMPLETION" /\ rows[i].level = l
                    /\ rows[i].date # None
                    /\ ~ Discarded(rows[i])
                    /\ HasCompletion(log, l) => rows[i].resolution # None}
    IN  IF moves # {} THEN rows[Max(moves)].date
        ELSE IF HasCompletion(log, l) THEN StoredCompletion(log, l).date
        ELSE None

\* isDatedAfterCompletion
DatedAfter(line, date) == line # None /\ date # None /\ date > line

\* matchExistingEvent: the stored events with the row's key, and one that agrees in all
\* else the row provides.
ExactDuplicate(log, r) ==
    /\ HasKey(r)
    /\ \E e \in log.entries :
          /\ e.kind = r.type /\ e.level = r.level /\ Key(e) = Key(r)
          /\ r.data \in {None, e.data}

\* The entry an id names; a progress_id may name one of any kind.
Matched(log, r) ==
    {e \in log.entries : e.id = r.id /\ e.level = r.level /\ (r.type = "DROP" => e.kind = "DROP")}

-----------------------------------------------------------------------------
(* What becomes of each row.                                               *)

\* Mutant of CompletionOutcome: an existing completion is not looked for.
CompletionOutcomeBlindly(log, r) == IF Discarded(r) THEN "skipped" ELSE "committed"

\* planCompletion
CompletionOutcome(log, r) ==
    CASE Discarded(r) \/ (HasCompletion(log, r.level) /\ r.resolution = None) -> "skipped"
      [] ~ Discarded(r) /\ HasCompletion(log, r.level) /\ r.resolution # None -> "updated"
      [] OTHER -> "committed"

\* planDrop and planProgress, from the lookup of the row's id on.
EventOutcome(log, r) ==
    CASE Matched(log, r) # {} -> "updated"
      [] Matched(log, r) = {} /\ ExactDuplicate(log, r) -> "skipped"
      [] OTHER -> "committed"

\* A beaten level takes no progress dated after its completion.
Refused(log, rows, bad, i) ==
    /\ rows[i].type = "PROGRESS"
    /\ DatedAfter(CompletionDate(log, rows, bad, rows[i].level), rows[i].date)

Outcome(log, rows, bad, i) ==
    IF i \in bad THEN "failed"
    ELSE IF Superseded(rows, bad, i) THEN "skipped"
    ELSE IF rows[i].type = "COMPLETION" THEN CompletionOutcome(log, rows[i])
    ELSE IF Discarded(rows[i]) \/ Refused(log, rows, bad, i) THEN "skipped"
    ELSE EventOutcome(log, rows[i])

-----------------------------------------------------------------------------
(* The plan of a batch: what is written, decided against `log`.            *)

Entry(r) == [kind |-> r.type, level |-> r.level, date |-> r.date, mark |-> r.mark, data |-> r.data]

Overwrites(r) == r.resolution = "overwrite"
Blank(r) == ~ Overwrites(r) /\ <<r.date, r.mark, r.data>> = <<None, None, None>>

\* An overwrite replaces every field, a merge those the row provides.
PatchOf(log, r) ==
    [id |-> IF r.type = "COMPLETION" THEN StoredCompletion(log, r.level).id ELSE r.id,
     whole |-> Overwrites(r), date |-> r.date, mark |-> r.mark, data |-> r.data]

\* The status level l is left with, None where it is not written.  A completion beats it
\* for good; a drop takes it down unless it is beaten by then.
StatusAfter(log, rows, out, l) ==
    LET rowsOf(type, outcomes) == {i \in DOMAIN rows : /\ rows[i].type = type /\ rows[i].level = l
                                                       /\ out[i] \in outcomes}
    IN  CASE rowsOf("COMPLETION", {"committed"}) # {} -> "COMPLETED"
          [] /\ rowsOf("COMPLETION", {"committed"}) = {}
             /\ rowsOf("DROP", {"committed", "updated"}) # {}
             /\ log.lp[l].status # "COMPLETED" -> "DROPPED"
          [] /\ rowsOf("COMPLETION", {"committed"}) = {}
             /\ rowsOf("DROP", {"committed"}) # {}
             /\ log.lp[l].status = "COMPLETED" -> "COMPLETED"
          [] OTHER -> IF log.lp[l].id = 0 THEN "IN_PROGRESS" ELSE None

\* lp[l].id is the level_progress that was read, 0 for one to create; `touched` where it
\* is written.
PlanBatch(log, rows, bad) ==
    LET out == [i \in DOMAIN rows |-> Outcome(log, rows, bad, i)]
        written(l) == {i \in DOMAIN rows : rows[i].level = l /\ out[i] \in {"committed", "updated"}}
    IN  [out |-> out,
         lp |-> [l \in Levels |->
            [planned |-> written(l) # {},
             id |-> log.lp[l].id,
             status |-> StatusAfter(log, rows, out, l),
             touched |-> \/ StatusAfter(log, rows, out, l) # None
                         \/ \E i \in written(l) :
                               /\ rows[i].type # "PROGRESS"
                               /\ rows[i].mark # None \/ (rows[i].type = "COMPLETION" /\ Overwrites(rows[i]))]],
         new |-> [i \in {i \in DOMAIN rows : out[i] = "committed"} |-> Entry(rows[i])],
         patches |-> [i \in {i \in DOMAIN rows : out[i] = "updated" /\ ~ Blank(rows[i])} |->
                        PatchOf(log, rows[i])],
         beaten |-> {l \in Levels : \E i \in written(l) : rows[i].type = "COMPLETION"}]

-----------------------------------------------------------------------------
(* The flush.                                                              *)

\* Each statement finds the rows it needs: no other level_progress of a new one's level,
\* and the level_progresses and entries the plan read.
CanFlush(log, plan) ==
    /\ \A l \in Levels : plan.lp[l].planned /\ (plan.lp[l].id = 0 \/ plan.lp[l].touched)
                            => log.lp[l].id = plan.lp[l].id
    /\ \A i \in DOMAIN plan.new : LET l == plan.new[i].level IN log.lp[l].id = plan.lp[l].id
    /\ \A i \in DOMAIN plan.patches : \E e \in log.entries : e.id = plan.patches[i].id

\* An entry after the patches, applied in the order of their rows.
Patched(e, patches) ==
    LET field(old, New(_)) ==
            LET ps == {i \in DOMAIN patches : patches[i].id = e.id /\ (patches[i].whole \/ New(patches[i]) # None)}
            IN  IF ps = {} THEN old ELSE New(patches[Max(ps)])
    IN  [e EXCEPT !.date = field(@, LAMBDA p : p.date),
                  !.mark = field(@, LAMBDA p : p.mark),
                  !.data = field(@, LAMBDA p : p.data)]

WithId(id, e) == [id |-> id, kind |-> e.kind, level |-> e.level, date |-> e.date, mark |-> e.mark, data |-> e.data]

\* The log after the plan's writes.  ids[i] is the id of the entry row i creates.
Flushed(log, plan, ids) ==
    LET fresh(l) == plan.lp[l].planned /\ plan.lp[l].id = 0
        set(l) == plan.lp[l].planned /\ plan.lp[l].status # None
    IN  [lp |-> [l \in Levels |->
            [id |-> IF fresh(l) THEN log.made[l] + 1 ELSE log.lp[l].id,
             status |-> IF set(l) THEN plan.lp[l].status ELSE log.lp[l].status]],
         made |-> [l \in Levels |-> log.made[l] + IF fresh(l) THEN 1 ELSE 0],
         entries |-> {Patched(e, plan.patches) : e \in log.entries}
                        \cup {WithId(ids[i], plan.new[i]) : i \in DOMAIN plan.new},
         wanted |-> log.wanted \ plan.beaten]
=============================================================================
