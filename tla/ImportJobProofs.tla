-------------------------- MODULE ImportJobProofs --------------------------
(***************************************************************************)
(* What the spreadsheet import promises holds for any sheets and logs, any *)
(* number of invocations, imports, retries, faults and edits, and batches  *)
(* of any size.                                                            *)
(***************************************************************************)
EXTENDS ImportJob, FiniteSetTheorems, WellFoundedInduction, TLAPS

-----------------------------------------------------------------------------
(* The inductive invariant.                                                *)

JobFields == {"id", "sheet", "status", "rows", "processed", "reinvokes"}
WorkerFields == {"at", "job", "tries", "batch", "sheet", "plan", "stale"}
EntryFields == {"id", "kind", "level", "date", "mark", "data"}

Labels == {"free", "queued", "taking", "planning", "flushing", "bumping", "reinvoking", "passes",
           "completing", "failing"}

Left(jb) == {r \in DOMAIN jb.rows : jb.rows[r] = "pending"}

\* A job completes only when no row is left.
JobOK(jb) ==
    /\ DOMAIN jb = JobFields
    /\ jb.id \in 0..MaxImports
    /\ IsSheet(jb.sheet)
    /\ jb.status \in {"none", "running", "completed", "failed"}
    /\ jb.rows \in [DOMAIN jb.sheet -> Outcomes]
    /\ jb.processed \in Nat /\ jb.reinvokes \in Nat
    /\ jb.status = "completed" => Left(jb) = {}

WorkerTyped(i, jb) ==
    /\ DOMAIN i = WorkerFields
    /\ i.at \in Labels
    /\ i.tries \in 0..MaxRetries
    /\ i.stale \in BOOLEAN
    /\ i.job \in 0..jb.id
    /\ i.at # "free" => i.job # 0

\* What a plan for the rows of a batch says of each, and of each level.
PlanTyped(plan, batch) ==
    /\ DOMAIN plan.out = batch
    /\ \A r \in batch : plan.out[r] \in Outcomes \ {"pending"}
    /\ DOMAIN plan.new \subseteq batch
    /\ \A r \in DOMAIN plan.new :
          /\ plan.new[r].kind \in Kinds /\ plan.new[r].level \in Levels
          /\ plan.new[r].kind = "COMPLETION" => plan.new[r].level \in plan.beaten
    /\ \A l \in Levels :
          /\ plan.lp[l].id \in Nat
          /\ plan.lp[l].planned \in BOOLEAN
          /\ plan.lp[l].status \in {None} \cup (Statuses \ {"NONE"})
          /\ plan.lp[l].id = 0 => plan.lp[l].status # None
          /\ plan.lp[l].status # None => plan.lp[l].touched

\* An invocation at work on the job has its sheet, rows of it in its batch, which are still
\* pending unless it is stale, and in the final passes none is left.
WorkerReads(i, jb) ==
    i.at \notin {"free", "queued"} /\ i.job = jb.id =>
        /\ i.sheet = jb.sheet
        /\ i.at \in {"planning", "flushing"} =>
              /\ i.batch \subseteq DOMAIN jb.sheet
              /\ ~ i.stale => i.batch \subseteq Left(jb)
        /\ i.at \in {"passes", "completing"} => Left(jb) = {}
        /\ i.at = "flushing" => PlanTyped(i.plan, i.batch)

\* The entries of a kind a plan adds at level l.
Adds(plan, kind, l) ==
    {r \in DOMAIN plan.new : plan.new[r].kind = kind /\ plan.new[r].level = l}
Beats(plan, l) == Adds(plan, "COMPLETION", l)

\* The plan is one for the log lg: it beats a level once, and only if it is not beaten; it
\* leaves a level COMPLETED if it beats it or finds it so, DROPPED if the log or the plan
\* has a drop, and IN_PROGRESS if it makes it.
PlanFits(plan, lg) ==
    \A l \in Levels :
        /\ \A r, s \in Beats(plan, l) : r = s
        /\ Beats(plan, l) # {} =>
              /\ ~ HasCompletion(lg, l)
              /\ plan.lp[l].planned
              /\ plan.lp[l].status = "COMPLETED"
        /\ plan.lp[l].planned =>
              /\ plan.lp[l].status = "COMPLETED" => Beats(plan, l) # {} \/ lg.lp[l].status = "COMPLETED"
              /\ plan.lp[l].status = "DROPPED" => Adds(plan, "DROP", l) # {} \/ Drops(lg, l) # {}
              /\ plan.lp[l].status = "IN_PROGRESS" => lg.lp[l].id = 0

WorkerFits(i, jb, lg) ==
    i.at = "flushing" /\ i.job = jb.id /\ ~ i.stale => PlanFits(i.plan, lg)

\* The entries of a log come from the imports until jb, and those of jb from rows that
\* have an outcome.
FromImports(lg, jb) ==
    \A e \in lg.entries :
        /\ e.id[1] <= jb.id
        /\ e.id[1] = jb.id /\ jb.id # 0 => e.id[2] \in DOMAIN jb.rows \ Left(jb)

\* Two entries that come from one row are one.
Distinct(lg) ==
    \A d, e \in lg.entries : d.id[1] > 0 /\ d.id[1] = e.id[1] /\ d.id[2] = e.id[2] => d = e

WorkerOK(i, jb, lg) ==
    /\ WorkerTyped(i, jb)
    /\ WorkerReads(i, jb)
    /\ WorkerFits(i, jb, lg)

ImportInv ==
    /\ JobOK(job)
    /\ IsLog(log)
    /\ WantsUnbeaten(log)
    /\ DOMAIN inv = Invocations
    /\ \A w \in Invocations : WorkerOK(inv[w], job, log)
    /\ FromImports(log, job)
    /\ outdated \in BOOLEAN
    /\ dropped \subseteq 1..job.id
    /\ edits \in Nat
    /\ faults \in Nat
    /\ ~ outdated => /\ job.processed = Cardinality(DOMAIN job.rows \ Left(job))
                     /\ Distinct(log)
                     /\ Consistent(log)

-----------------------------------------------------------------------------
(* Constants, and the first of the rows.                                   *)

LEMMA Limits ==
    /\ BATCH_SIZE \in Nat /\ BATCH_SIZE > 0
    /\ MaxRetries \in Nat /\ MaxImports \in Nat
    /\ None \notin Statuses
BY ImportAssumption, NoneAssumption

LEMMA First ==
    ASSUME NEW S \in SUBSET Nat, IsFiniteSet(S), S # {}
    PROVE  \E m \in S : \A n \in S : m <= n
<1> DEFINE Below(m) == {n \in S : n < m}
           R == StrictSubsetOrdering(S)
<1>1. IsWellFoundedOn(R, SUBSET S)
  BY FS_StrictSubsetOrderingWellFounded, FS_FiniteSubsetsOfFinite
<1>2. PICK x \in {Below(m) : m \in S} : \A y \in {Below(m) : m \in S} : <<y, x>> \notin R
  <2>1. {Below(m) : m \in S} \subseteq SUBSET S /\ {Below(m) : m \in S} # {}
    OBVIOUS
  <2> HIDE DEF Below, R
  <2> QED
    BY <1>1, <2>1, WFMin
<1>3. PICK m \in S : x = Below(m)
  BY <1>2
<1>4. ASSUME NEW n \in S, n < m
      PROVE  FALSE
  <2>1. \A y \in S : y \in Nat
    OBVIOUS
  <2>2. Below(n) \subseteq Below(m) /\ n \in Below(m) /\ n \notin Below(n)
    <3>1. \A y \in S : y < n => y < m
      BY <1>4, <2>1
    <3>2. ~ (n < n)
      BY <2>1
    <3> QED
      BY <1>4, <3>1, <3>2
  <2>3. <<Below(n), Below(m)>> \in R
    BY <2>2 DEF StrictSubsetOrdering
  <2> QED
    BY <1>2, <1>3, <2>3
<1> QED
  BY <1>4

\* As long as a row is pending there is a next batch, of pending rows.
LEMMA BatchFromRows ==
    ASSUME JobOK(job)
    PROVE  /\ NextBatch \subseteq Pending
           /\ NextBatch = {} => Pending = {}
<1>1. Pending \in SUBSET Nat /\ IsFiniteSet(Pending)
  BY FS_Subset DEF JobOK, IsSheet, Pending
<1>2. ASSUME Pending # {}
      PROVE  NextBatch # {}
  <2>1. PICK m \in Pending : \A n \in Pending : m <= n
    BY <1>1, <1>2, First
  <2>2. {j \in Pending : j < m} = {}
    <3>1. \A j \in Pending : j \in Nat
      BY <1>1
    <3> QED
      BY <2>1, <3>1
  <2>3. Cardinality({j \in Pending : j < m}) = 0
    BY <2>2, FS_EmptySet
  <2> QED
    BY <2>1, <2>3, Limits DEF NextBatch
<1> QED
  BY <1>2 DEF NextBatch

-----------------------------------------------------------------------------
(* What a plan says.                                                       *)

LEMMA OutcomeType ==
    ASSUME NEW lg, NEW rows, NEW bad, NEW i
    PROVE  Outcome(lg, rows, bad, i) \in Outcomes \ {"pending"}
<1>1. CompletionOutcome(lg, rows[i]) \in {"skipped", "updated", "committed"}
  BY DEF CompletionOutcome
<1>2. EventOutcome(lg, rows[i]) \in {"skipped", "updated", "committed"}
  BY DEF EventOutcome
<1> QED
  BY <1>1, <1>2 DEF Outcome, Outcomes

\* The parts of a plan.
LEMMA PlanParts ==
    ASSUME NEW lg, NEW rows, NEW bad, NEW plan, plan = PlanBatch(lg, rows, bad)
    PROVE  /\ plan.out = [i \in DOMAIN rows |-> Outcome(lg, rows, bad, i)]
           /\ DOMAIN plan.new = {i \in DOMAIN rows : Outcome(lg, rows, bad, i) = "committed"}
           /\ \A i \in DOMAIN plan.new : plan.new[i] = Entry(rows[i])
           /\ \A l \in Levels :
                 /\ plan.lp[l].planned <=>
                      \E i \in DOMAIN rows : /\ rows[i].level = l
                                              /\ Outcome(lg, rows, bad, i) \in {"committed", "updated"}
                 /\ plan.lp[l].planned \in BOOLEAN
                 /\ plan.lp[l].id = lg.lp[l].id
                 /\ plan.lp[l].status = StatusAfter(lg, rows, plan.out, l)
                 /\ plan.lp[l].status # None => plan.lp[l].touched
                 /\ l \in plan.beaten <=>
                      \E i \in DOMAIN rows :
                          /\ rows[i].level = l /\ rows[i].type = "COMPLETION"
                          /\ Outcome(lg, rows, bad, i) \in {"committed", "updated"}
BY DEF PlanBatch

\* The rows of a type that reach one of the outcomes at level l.
RowsOf(rows, out, l, type, outcomes) ==
    {i \in DOMAIN rows : rows[i].type = type /\ rows[i].level = l /\ out[i] \in outcomes}

LEMMA StatusCases ==
    ASSUME NEW lg, IsLog(lg), NEW rows, NEW out, NEW l \in Levels, NEW s,
           s = StatusAfter(lg, rows, out, l)
    PROVE  /\ s \in {None} \cup (Statuses \ {"NONE"})
           /\ lg.lp[l].id = 0 => s # None
           /\ RowsOf(rows, out, l, "COMPLETION", {"committed"}) # {} => s = "COMPLETED"
           /\ RowsOf(rows, out, l, "COMPLETION", {"committed"}) = {} =>
                 /\ s = "COMPLETED" => lg.lp[l].status = "COMPLETED"
                 /\ s = "DROPPED" => RowsOf(rows, out, l, "DROP", {"committed", "updated"}) # {}
                 /\ s = "IN_PROGRESS" => lg.lp[l].id = 0
<1>1. None \notin Statuses
  BY Limits
<1>2. lg.lp[l].status = "NONE" <=> lg.lp[l].id = 0
  BY DEF IsLog
<1> QED
  BY <1>1, <1>2 DEF StatusAfter, RowsOf, Statuses

\* What a worker plans for its batch is a plan for the log it reads.
LEMMA PlanHolds ==
    ASSUME NEW lg, IsLog(lg), NEW sheet, IsSheet(sheet), NEW batch \in SUBSET DOMAIN sheet,
           NEW rows, rows = [i \in batch |-> sheet[i]], NEW bad,
           NEW plan, plan = PlanBatch(lg, rows, bad)
    PROVE  PlanTyped(plan, batch) /\ PlanFits(plan, lg)
<1> DEFINE out == plan.out
<1> HIDE DEF out
<1>1. /\ DOMAIN rows = batch
      /\ \A i \in batch : rows[i].type \in Kinds /\ rows[i].level \in Levels /\ i \in Nat
  BY DEF IsSheet
<1>2. /\ out = [i \in DOMAIN rows |-> Outcome(lg, rows, bad, i)]
      /\ DOMAIN plan.new = {i \in DOMAIN rows : out[i] = "committed"}
      /\ \A i \in DOMAIN plan.new : plan.new[i] = Entry(rows[i])
      /\ \A l \in Levels :
            /\ plan.lp[l].planned <=>
                 \E i \in DOMAIN rows : rows[i].level = l /\ out[i] \in {"committed", "updated"}
            /\ plan.lp[l].planned \in BOOLEAN
            /\ plan.lp[l].id = lg.lp[l].id
            /\ plan.lp[l].status = StatusAfter(lg, rows, out, l)
            /\ plan.lp[l].status # None => plan.lp[l].touched
            /\ l \in plan.beaten <=>
                 \E i \in DOMAIN rows : /\ rows[i].level = l /\ rows[i].type = "COMPLETION"
                                         /\ out[i] \in {"committed", "updated"}
  BY PlanParts DEF out
<1>3. \A i \in batch : out[i] = Outcome(lg, rows, bad, i) /\ out[i] \in Outcomes \ {"pending"}
  BY <1>1, <1>2, OutcomeType
<1>4. ASSUME NEW i \in DOMAIN plan.new
      PROVE  plan.new[i].kind = rows[i].type /\ plan.new[i].level = rows[i].level
  <2>1. plan.new[i] = Entry(rows[i])
    BY <1>2
  <2> QED
    BY <2>1 DEF Entry
<1>5. \A l \in Levels : \A kind : Adds(plan, kind, l) = RowsOf(rows, out, l, kind, {"committed"})
  <2>1. DOMAIN plan.new = {i \in DOMAIN rows : out[i] = "committed"}
    BY <1>2
  <2> QED
    BY <1>4, <2>1 DEF Adds, RowsOf
<1>6. PlanTyped(plan, batch)
  <2>1. \A l \in Levels : lg.lp[l].id \in Nat
    BY DEF IsLog
  <2>2. \A i \in DOMAIN plan.new :
            /\ plan.new[i].kind \in Kinds /\ plan.new[i].level \in Levels
            /\ plan.new[i].kind = "COMPLETION" => plan.new[i].level \in plan.beaten
    <3> TAKE i \in DOMAIN plan.new
    <3>1. i \in DOMAIN rows /\ out[i] = "committed"
      BY <1>2
    <3>2. rows[i].type \in Kinds /\ rows[i].level \in Levels
      BY <1>1, <3>1
    <3>3. rows[i].type = "COMPLETION" => rows[i].level \in plan.beaten
      BY <1>2, <3>1, <3>2
    <3> QED
      BY <1>4, <3>2, <3>3
  <2> QED
    BY <1>1, <1>2, <1>3, <2>1, <2>2, StatusCases DEF PlanTyped, out
<1>7. ASSUME NEW l \in Levels
      PROVE  /\ \A r, s \in Beats(plan, l) : r = s
             /\ Beats(plan, l) # {} => ~ HasCompletion(lg, l)
  <2>1. \A i \in Beats(plan, l) : /\ i \in batch /\ out[i] = "committed"
                                  /\ rows[i].type = "COMPLETION" /\ rows[i].level = l
    BY <1>1, <1>5 DEF RowsOf, Beats
  <2>2. ASSUME NEW i \in Beats(plan, l), NEW j \in Beats(plan, l), j > i
        PROVE  FALSE
    <3>1. j \notin bad
      BY <1>3, <2>1 DEF Outcome
    <3>2. HasTarget(rows[i]) /\ HasTarget(rows[j]) /\ Target(rows[i]) = Target(rows[j])
      BY <2>1 DEF HasTarget, Target
    <3>3. Superseded(rows, bad, i)
      BY <1>1, <2>1, <2>2, <3>1, <3>2 DEF Superseded
    <3> QED
      BY <1>3, <2>1, <3>3 DEF Outcome
  <2>3. ASSUME NEW i \in Beats(plan, l)
        PROVE  ~ HasCompletion(lg, l)
    <3>1. CompletionOutcome(lg, rows[i]) = "committed"
      BY <1>3, <2>1 DEF Outcome
    <3> QED
      BY <2>1, <3>1 DEF CompletionOutcome
  <2> QED
    BY <1>1, <2>1, <2>2, <2>3
<1>8. PlanFits(plan, lg)
  <2> SUFFICES ASSUME NEW l \in Levels
               PROVE  /\ Beats(plan, l) # {} => plan.lp[l].planned /\ plan.lp[l].status = "COMPLETED"
                      /\ plan.lp[l].status = "COMPLETED" =>
                             Beats(plan, l) # {} \/ lg.lp[l].status = "COMPLETED"
                      /\ plan.lp[l].status = "DROPPED" =>
                             Adds(plan, "DROP", l) # {} \/ Drops(lg, l) # {}
                      /\ plan.lp[l].status = "IN_PROGRESS" => lg.lp[l].id = 0
    BY <1>7 DEF PlanFits
  <2>1. plan.lp[l].status = StatusAfter(lg, rows, out, l)
    BY <1>2
  <2>2. Beats(plan, l) = RowsOf(rows, out, l, "COMPLETION", {"committed"})
    BY <1>5 DEF Beats
  <2>3. ASSUME NEW i \in Beats(plan, l)
        PROVE  plan.lp[l].planned
    <3>1. i \in DOMAIN rows /\ rows[i].level = l /\ out[i] = "committed"
      BY <2>2 DEF RowsOf
    <3> QED
      BY <1>2, <3>1
  <2>4. ASSUME NEW i \in RowsOf(rows, out, l, "DROP", {"committed", "updated"})
        PROVE  Adds(plan, "DROP", l) # {} \/ Drops(lg, l) # {}
    <3>1. i \in batch /\ rows[i].type = "DROP" /\ rows[i].level = l /\ out[i] \in {"committed", "updated"}
      BY <1>1 DEF RowsOf
    <3>2. CASE out[i] = "committed"
      <4>1. i \in RowsOf(rows, out, l, "DROP", {"committed"})
        BY <1>1, <3>1, <3>2 DEF RowsOf
      <4> QED
        BY <4>1, <1>5
    <3>3. CASE out[i] = "updated"
      <4>1. EventOutcome(lg, rows[i]) = "updated"
        BY <1>3, <3>1, <3>3 DEF Outcome
      <4>2. Matched(lg, rows[i]) # {}
        BY <4>1 DEF EventOutcome
      <4> QED
        BY <3>1, <4>2 DEF Matched, Drops
    <3> QED
      BY <3>1, <3>2, <3>3
  <2> QED
    BY <2>1, <2>2, <2>3, <2>4, StatusCases
<1> QED
  BY <1>6, <1>8

-----------------------------------------------------------------------------
(* What a flush leaves.                                                    *)

LEMMA PatchedKeeps ==
    ASSUME NEW e, DOMAIN e = EntryFields, NEW patches
    PROVE  /\ DOMAIN Patched(e, patches) = EntryFields
           /\ Patched(e, patches).id = e.id
           /\ Patched(e, patches).kind = e.kind
           /\ Patched(e, patches).level = e.level
BY DEF Patched, EntryFields

\* The entries after a flush: those before, patched, and the plan's own.
LEMMA FlushedEntries ==
    ASSUME NEW lg, IsLog(lg), NEW plan, NEW batch, PlanTyped(plan, batch), NEW ids,
           NEW e \in Flushed(lg, plan, ids).entries
    PROVE  \/ /\ \E d \in lg.entries : e = Patched(d, plan.patches)
              /\ \E d \in lg.entries : /\ e = Patched(d, plan.patches)
                                         /\ e.id = d.id /\ e.kind = d.kind /\ e.level = d.level
                                         /\ DOMAIN e = EntryFields
           \/ \E r \in DOMAIN plan.new :
                 /\ e = WithId(ids[r], plan.new[r])
                 /\ e.id = ids[r] /\ e.kind = plan.new[r].kind /\ e.level = plan.new[r].level
                 /\ DOMAIN e = EntryFields
<1>1. \A d \in lg.entries : DOMAIN d = EntryFields
  BY DEF IsLog, EntryFields
<1>2. \/ \E d \in lg.entries : e = Patched(d, plan.patches)
      \/ \E r \in DOMAIN plan.new : e = WithId(ids[r], plan.new[r])
  BY DEF Flushed
<1>3. CASE \E d \in lg.entries : e = Patched(d, plan.patches)
  BY <1>1, <1>3, PatchedKeeps
<1>4. CASE \E r \in DOMAIN plan.new : e = WithId(ids[r], plan.new[r])
  BY <1>4 DEF WithId, EntryFields
<1> QED
  BY <1>2, <1>3, <1>4

LEMMA FlushedLog ==
    ASSUME NEW lg, IsLog(lg), NEW plan, NEW batch, PlanTyped(plan, batch), CanFlush(lg, plan),
           NEW ids, \A r \in DOMAIN plan.new : ids[r][1] \in Nat
    PROVE  IsLog(Flushed(lg, plan, ids))
<1> DEFINE after == Flushed(lg, plan, ids)
<1>1. /\ DOMAIN after = {"lp", "made", "entries", "wanted"}
      /\ after.wanted = lg.wanted \ plan.beaten
      /\ after.made = [l \in Levels |-> lg.made[l] +
                         IF plan.lp[l].planned /\ plan.lp[l].id = 0 THEN 1 ELSE 0]
      /\ after.lp = [l \in Levels |->
            [id |-> IF plan.lp[l].planned /\ plan.lp[l].id = 0 THEN lg.made[l] + 1 ELSE lg.lp[l].id,
             status |-> IF plan.lp[l].planned /\ plan.lp[l].status # None
                        THEN plan.lp[l].status ELSE lg.lp[l].status]]
  BY DEF Flushed
<1>2. \A e \in after.entries :
          DOMAIN e = EntryFields /\ e.kind \in Kinds /\ e.level \in Levels /\ e.id[1] \in Nat
  BY FlushedEntries DEF IsLog, PlanTyped
<1>3. ASSUME NEW l \in Levels
      PROVE  /\ after.lp[l] \in [id : Nat, status : Statuses]
             /\ after.made[l] \in Nat
             /\ after.lp[l].id <= after.made[l]
             /\ after.lp[l].status = "NONE" <=> after.lp[l].id = 0
  <2>1. /\ lg.lp[l].id \in Nat /\ lg.lp[l].status \in Statuses
        /\ lg.made[l] \in Nat /\ lg.lp[l].id <= lg.made[l]
        /\ lg.lp[l].status = "NONE" <=> lg.lp[l].id = 0
    BY DEF IsLog
  <2>2. /\ plan.lp[l].status # None => plan.lp[l].status \in Statuses /\ plan.lp[l].status # "NONE"
        /\ plan.lp[l].id = 0 => plan.lp[l].status # None
        /\ plan.lp[l].status # None => plan.lp[l].touched
    BY DEF PlanTyped
  <2>3. plan.lp[l].planned /\ (plan.lp[l].id = 0 \/ plan.lp[l].touched) =>
            lg.lp[l].id = plan.lp[l].id
    BY DEF CanFlush
  <2>4. /\ after.made[l] = lg.made[l] + IF plan.lp[l].planned /\ plan.lp[l].id = 0 THEN 1 ELSE 0
        /\ after.lp[l] =
             [id |-> IF plan.lp[l].planned /\ plan.lp[l].id = 0 THEN lg.made[l] + 1 ELSE lg.lp[l].id,
              status |-> IF plan.lp[l].planned /\ plan.lp[l].status # None
                         THEN plan.lp[l].status ELSE lg.lp[l].status]
    BY <1>1
  <2> HIDE DEF after
  <2> QED
    BY <2>1, <2>2, <2>3, <2>4
<1>4. after.wanted \subseteq Levels
  BY <1>1 DEF IsLog
<1>5. after.lp \in [Levels -> [id : Nat, status : Statuses]] /\ after.made \in [Levels -> Nat]
  <2>1. \A l \in Levels : after.lp[l] \in [id : Nat, status : Statuses] /\ after.made[l] \in Nat
    BY <1>3
  <2>2. DOMAIN after.lp = Levels /\ DOMAIN after.made = Levels
    BY <1>1
  <2>3. /\ after.lp = [l \in Levels |-> after.lp[l]]
        /\ after.made = [l \in Levels |-> after.made[l]]
    BY <1>1
  <2> HIDE DEF after
  <2> QED
    BY <2>1, <2>3
<1> HIDE DEF after
<1>6. IsLog(after)
  BY <1>1, <1>2, <1>3, <1>4, <1>5 DEF IsLog, EntryFields
<1> QED
  BY <1>6 DEF after

\* What a flush adds to the completions and the drops of a level.
LEMMA FlushedKinds ==
    ASSUME NEW lg, IsLog(lg), NEW plan, NEW batch, PlanTyped(plan, batch), NEW ids,
           NEW l \in Levels
    PROVE  LET after == Flushed(lg, plan, ids)
           IN  /\ \A e \in Completions(after, l) :
                     \/ \E d \in Completions(lg, l) : e = Patched(d, plan.patches)
                     \/ \E r \in Beats(plan, l) : e = WithId(ids[r], plan.new[r])
               /\ HasCompletion(after, l) <=> Beats(plan, l) # {} \/ HasCompletion(lg, l)
               /\ Adds(plan, "DROP", l) # {} \/ Drops(lg, l) # {} => Drops(after, l) # {}
<1> DEFINE after == Flushed(lg, plan, ids)
           of(g, kind) == {e \in g.entries : e.kind = kind /\ e.level = l}
<1>1. \A g : Completions(g, l) = of(g, "COMPLETION") /\ Drops(g, l) = of(g, "DROP")
  BY DEF Completions, Drops
<1>2. \A e \in Completions(after, l) :
          \/ \E d \in Completions(lg, l) : e = Patched(d, plan.patches)
          \/ \E r \in Beats(plan, l) : e = WithId(ids[r], plan.new[r])
  <2> TAKE e \in Completions(after, l)
  <2>1. e \in after.entries /\ e.kind = "COMPLETION" /\ e.level = l
    BY DEF Completions
  <2>2. \/ \E d \in lg.entries : /\ e = Patched(d, plan.patches)
                                 /\ e.kind = d.kind /\ e.level = d.level
        \/ \E r \in DOMAIN plan.new : /\ e = WithId(ids[r], plan.new[r])
                                      /\ e.kind = plan.new[r].kind /\ e.level = plan.new[r].level
    BY <2>1, FlushedEntries
  <2> QED
    BY <2>1, <2>2 DEF Completions, Beats, Adds
<1>3. ASSUME NEW kind, NEW d \in of(lg, kind)
      PROVE  of(after, kind) # {}
  <2>1. d \in lg.entries /\ d.kind = kind /\ d.level = l /\ DOMAIN d = EntryFields
    BY DEF IsLog, EntryFields
  <2>2. Patched(d, plan.patches) \in after.entries
    BY <2>1 DEF Flushed
  <2>3. Patched(d, plan.patches) \in of(after, kind)
    BY <2>1, <2>2, PatchedKeeps
  <2> QED
    BY <2>3
<1>4. ASSUME NEW kind, NEW r \in Adds(plan, kind, l)
      PROVE  of(after, kind) # {}
  <2>1. r \in DOMAIN plan.new /\ plan.new[r].kind = kind /\ plan.new[r].level = l
    BY DEF Adds
  <2>2. WithId(ids[r], plan.new[r]) \in after.entries
    BY <2>1 DEF Flushed
  <2>3. WithId(ids[r], plan.new[r]) \in of(after, kind)
    BY <2>1, <2>2 DEF WithId
  <2> QED
    BY <2>3
<1> HIDE DEF after, of
<1>5. HasCompletion(after, l) <=> Beats(plan, l) # {} \/ HasCompletion(lg, l)
  BY <1>1, <1>2, <1>3, <1>4 DEF HasCompletion, Beats
<1>6. Adds(plan, "DROP", l) # {} \/ Drops(lg, l) # {} => Drops(after, l) # {}
  BY <1>1, <1>3, <1>4
<1> QED
  BY <1>2, <1>5, <1>6 DEF after

\* A flush takes off Want to Beat whatever it beats, even over a newer log.
LEMMA FlushedWants ==
    ASSUME NEW lg, IsLog(lg), WantsUnbeaten(lg), NEW plan, NEW batch, PlanTyped(plan, batch), NEW ids
    PROVE  WantsUnbeaten(Flushed(lg, plan, ids))
<1> DEFINE after == Flushed(lg, plan, ids)
<1>1. after.wanted = lg.wanted \ plan.beaten
  BY DEF Flushed
<1> SUFFICES ASSUME NEW l \in after.wanted
             PROVE  ~ HasCompletion(after, l)
  BY DEF WantsUnbeaten
<1>2. l \in Levels /\ l \notin plan.beaten /\ ~ HasCompletion(lg, l)
  BY <1>1 DEF WantsUnbeaten, IsLog
<1>3. Beats(plan, l) = {}
  BY <1>2 DEF Beats, Adds, PlanTyped
<1> QED
  BY <1>2, <1>3, FlushedKinds

LEMMA FlushedConsistent ==
    ASSUME NEW lg, IsLog(lg), Consistent(lg), NEW plan, NEW batch, PlanTyped(plan, batch),
           PlanFits(plan, lg), NEW ids
    PROVE  Consistent(Flushed(lg, plan, ids))
<1> DEFINE after == Flushed(lg, plan, ids)
<1> SUFFICES ASSUME NEW l \in Levels
             PROVE  /\ \A d, e \in Completions(after, l) : d = e
                    /\ after.lp[l].status = "COMPLETED" => HasCompletion(after, l)
                    /\ HasCompletion(after, l) =>
                           after.lp[l].status = "COMPLETED" \/ Drops(after, l) # {}
                    /\ after.lp[l].status = "DROPPED" => Drops(after, l) # {}
  BY DEF Consistent
<1>1. /\ \A d, e \in Completions(lg, l) : d = e
      /\ lg.lp[l].status = "COMPLETED" => HasCompletion(lg, l)
      /\ HasCompletion(lg, l) => lg.lp[l].status = "COMPLETED" \/ Drops(lg, l) # {}
      /\ lg.lp[l].status = "DROPPED" => Drops(lg, l) # {}
  BY DEF Consistent
<1>2. /\ \A r, s \in Beats(plan, l) : r = s
      /\ Beats(plan, l) # {} => /\ ~ HasCompletion(lg, l)
                                /\ plan.lp[l].planned
                                /\ plan.lp[l].status = "COMPLETED"
      /\ plan.lp[l].planned =>
            /\ plan.lp[l].status = "COMPLETED" => Beats(plan, l) # {} \/ lg.lp[l].status = "COMPLETED"
            /\ plan.lp[l].status = "DROPPED" => Adds(plan, "DROP", l) # {} \/ Drops(lg, l) # {}
            /\ plan.lp[l].status = "IN_PROGRESS" => lg.lp[l].id = 0
  BY DEF PlanFits
<1>3. /\ \A e \in Completions(after, l) :
            \/ \E d \in Completions(lg, l) : e = Patched(d, plan.patches)
            \/ \E r \in Beats(plan, l) : e = WithId(ids[r], plan.new[r])
      /\ HasCompletion(after, l) <=> Beats(plan, l) # {} \/ HasCompletion(lg, l)
      /\ Adds(plan, "DROP", l) # {} \/ Drops(lg, l) # {} => Drops(after, l) # {}
  BY FlushedKinds
<1>4. after.lp[l].status = IF plan.lp[l].planned /\ plan.lp[l].status # None
                           THEN plan.lp[l].status ELSE lg.lp[l].status
  BY DEF Flushed
<1>5. /\ plan.lp[l].planned \in BOOLEAN /\ plan.lp[l].status \in {None} \cup (Statuses \ {"NONE"})
      /\ lg.lp[l].status = "NONE" <=> lg.lp[l].id = 0
  BY DEF PlanTyped, IsLog
<1> HIDE DEF after
<1>6. \A d, e \in Completions(after, l) : d = e
  BY <1>1, <1>2, <1>3 DEF HasCompletion
<1>7. CASE plan.lp[l].planned /\ plan.lp[l].status # None
  BY <1>1, <1>2, <1>3, <1>4, <1>5, <1>6, <1>7 DEF Statuses
<1>8. CASE ~ (plan.lp[l].planned /\ plan.lp[l].status # None)
  <2>1. None # "COMPLETED"
    BY Limits DEF Statuses
  <2>2. Beats(plan, l) = {}
    BY <1>2, <1>8, <2>1
  <2>3. after.lp[l].status = lg.lp[l].status
    BY <1>4, <1>8
  <2>4. (HasCompletion(after, l) <=> HasCompletion(lg, l)) /\ (Drops(lg, l) # {} => Drops(after, l) # {})
    BY <1>3, <2>2
  <2> QED
    BY <1>1, <1>6, <2>3, <2>4
<1> QED
  BY <1>7, <1>8

\* The entries a job has left so far, after those of another batch of its rows.
LEMMA FlushedFrom ==
    ASSUME NEW lg, IsLog(lg), NEW plan, NEW batch, PlanTyped(plan, batch),
           NEW j \in Nat \ {0}, NEW ids,
           \A r \in DOMAIN plan.new : ids[r][1] = j /\ ids[r][2] = r
    PROVE  /\ \A e \in Flushed(lg, plan, ids).entries :
                  \/ \E d \in lg.entries : e.id = d.id
                  \/ e.id[1] = j /\ e.id[2] \in batch
           /\ /\ Distinct(lg)
              /\ \A e \in lg.entries : e.id[1] = j => e.id[2] \notin batch
              => Distinct(Flushed(lg, plan, ids))
<1> DEFINE after == Flushed(lg, plan, ids)
<1>1. DOMAIN plan.new \subseteq batch
  BY DEF PlanTyped
<1>2. \A e \in after.entries :
          \/ \E d \in lg.entries : e = Patched(d, plan.patches) /\ e.id = d.id
          \/ \E r \in DOMAIN plan.new :
                e = WithId(ids[r], plan.new[r]) /\ e.id[1] = j /\ e.id[2] = r /\ r \in batch
  <2> TAKE e \in after.entries
  <2>1. \/ \E d \in lg.entries : e = Patched(d, plan.patches) /\ e.id = d.id
        \/ \E r \in DOMAIN plan.new : e = WithId(ids[r], plan.new[r]) /\ e.id = ids[r]
    BY FlushedEntries
  <2>2. \A r \in DOMAIN plan.new : ids[r][1] = j /\ ids[r][2] = r /\ r \in batch
    BY <1>1
  <2> QED
    BY <2>1, <2>2
<1> HIDE DEF after
<1>3. ASSUME Distinct(lg), \A e \in lg.entries : e.id[1] = j => e.id[2] \notin batch
      PROVE  Distinct(after)
  <2> SUFFICES ASSUME NEW d \in after.entries, NEW e \in after.entries,
                      d.id[1] > 0, d.id[1] = e.id[1], d.id[2] = e.id[2]
               PROVE  d = e
    BY DEF Distinct
  <2>1. CASE \E c \in lg.entries : d = Patched(c, plan.patches) /\ d.id = c.id
    <3>1. PICK c \in lg.entries : d = Patched(c, plan.patches) /\ d.id = c.id
      BY <2>1
    <3>2. ~ \E r \in DOMAIN plan.new : e.id[1] = j /\ e.id[2] = r /\ r \in batch
      BY <1>3, <3>1
    <3>3. PICK b \in lg.entries : e = Patched(b, plan.patches) /\ e.id = b.id
      BY <1>2, <3>2
    <3>4. c = b
      BY <1>3, <3>1, <3>3 DEF Distinct
    <3> QED
      BY <3>1, <3>3, <3>4
  <2>2. CASE \E r \in DOMAIN plan.new : /\ d = WithId(ids[r], plan.new[r])
                                         /\ d.id[1] = j /\ d.id[2] = r /\ r \in batch
    BY <1>2, <1>3, <2>2
  <2> QED
    BY <1>2, <2>1, <2>2
<1>4. \A e \in after.entries : \/ \E d \in lg.entries : e.id = d.id
                               \/ e.id[1] = j /\ e.id[2] \in batch
  BY <1>2
<1> QED
  BY <1>3, <1>4 DEF after

-----------------------------------------------------------------------------
(* What a step may do to an invocation.                                    *)

\* An invocation that waits or is over holds nothing.
LEMMA RestOK ==
    ASSUME NEW i, NEW jb, WorkerTyped(i, jb), i.at \in {"free", "queued"}, NEW lg
    PROVE  WorkerOK(i, jb, lg)
BY DEF WorkerOK, WorkerReads, WorkerFits

LEMMA FreeOK ==
    ASSUME NEW jb, jb.id \in Nat, NEW lg
    PROVE  WorkerOK(Free, jb, lg)
<1>1. WorkerTyped(Free, jb) /\ Free.at = "free"
  BY Limits DEF Free, WorkerTyped, WorkerFields, Labels
<1> QED
  BY <1>1, RestOK

LEMMA QueuedOK ==
    ASSUME NEW jb, jb.id \in Nat, NEW lg, NEW j \in 1..jb.id
    PROVE  WorkerOK(Queued(j), jb, lg)
<1>1. WorkerTyped(Queued(j), jb) /\ Queued(j).at = "queued"
  BY Limits DEF Free, Queued, WorkerTyped, WorkerFields, Labels
<1> QED
  BY <1>1, RestOK

LEMMA RetriedOK ==
    ASSUME NEW jb, jb.id \in Nat, NEW lg, NEW w, WorkerOK(inv[w], jb, lg), inv[w].at # "free"
    PROVE  WorkerOK(Retried(w), jb, lg)
<1>1. CASE inv[w].tries < MaxRetries
  <2> DEFINE r == [Queued(inv[w].job) EXCEPT !.tries = inv[w].tries + 1]
  <2>1. WorkerTyped(r, jb) /\ r.at = "queued"
    BY <1>1, Limits DEF WorkerOK, WorkerTyped, Queued, Free, WorkerFields, Labels
  <2> HIDE DEF r
  <2>2. WorkerOK(r, jb, lg)
    BY <2>1, RestOK
  <2> QED
    BY <1>1, <2>2 DEF Retried, r
<1>2. CASE ~ (inv[w].tries < MaxRetries)
  BY <1>2, FreeOK DEF Retried
<1> QED
  BY <1>1, <1>2

LEMMA GoToOK ==
    ASSUME NEW i, NEW jb, NEW lg, WorkerOK(i, jb, lg), i.at \notin {"free", "queued"},
           NEW at \in {"taking", "bumping", "failing"}
    PROVE  WorkerOK(GoTo(i, at), jb, lg)
<1>1. /\ DOMAIN GoTo(i, at) = WorkerFields
      /\ GoTo(i, at).at = at /\ GoTo(i, at).job = i.job /\ GoTo(i, at).sheet = i.sheet
      /\ GoTo(i, at).tries = i.tries /\ GoTo(i, at).stale = FALSE
  BY DEF GoTo, WorkerOK, WorkerTyped, WorkerFields
<1> QED
  BY <1>1 DEF WorkerOK, WorkerTyped, WorkerReads, WorkerFits, Labels

\* A step that leaves the job and the log alone, and every invocation it touches in order.
LEMMA WorkersStep ==
    ASSUME ImportInv, UNCHANGED <<job, log, outdated>>, DOMAIN inv' = Invocations,
           \A v \in Invocations : inv'[v] = inv[v] \/ WorkerOK(inv'[v], job, log),
           dropped' \subseteq 1..job.id, edits' \in Nat, faults' \in Nat
    PROVE  ImportInv'
BY DEF ImportInv

LEMMA OneWorkerStep ==
    ASSUME ImportInv, UNCHANGED <<job, log, outdated>>, NEW w \in Invocations, NEW r,
           inv' = [inv EXCEPT ![w] = r], WorkerOK(r, job, log),
           dropped' \subseteq 1..job.id, edits' \in Nat, faults' \in Nat
    PROVE  ImportInv'
<1>1. /\ DOMAIN inv' = Invocations
      /\ \A v \in Invocations : inv'[v] = IF v = w THEN r ELSE inv[v]
  BY DEF ImportInv
<1> QED
  BY <1>1, WorkersStep

LEMMA FaultStep == faults \in Nat /\ Fault => faults' \in Nat
BY DEF Fault

\* What has been read is stale once somebody else has committed.
LEMMA UnsettleOK ==
    ASSUME NEW f, DOMAIN f = Invocations, NEW w, NEW jb, NEW lg, NEW old, NEW oldLog,
           jb.id = old.id, jb.sheet = old.sheet, Left(jb) \subseteq Left(old),
           \A v \in Invocations \ {w} : WorkerOK(f[v], old, oldLog),
           NEW v \in Invocations \ {w}
    PROVE  WorkerOK(Unsettle(f, w)[v], jb, lg)
<1> DEFINE i == f[v]
           u == Unsettle(f, w)[v]
<1>1. u = IF i.at \in {"planning", "flushing"} THEN [i EXCEPT !.stale = TRUE] ELSE i
  BY DEF Unsettle
<1>2. WorkerTyped(i, old) /\ WorkerReads(i, old)
  BY DEF WorkerOK
<1> HIDE DEF i, u
<1>3. /\ DOMAIN u = WorkerFields
      /\ u.at = i.at /\ u.job = i.job /\ u.sheet = i.sheet /\ u.tries = i.tries
      /\ u.batch = i.batch /\ u.plan = i.plan
      /\ u.stale = IF i.at \in {"planning", "flushing"} THEN TRUE ELSE i.stale
  BY <1>1, <1>2 DEF WorkerTyped, WorkerFields
<1>4. WorkerTyped(u, jb)
  BY <1>2, <1>3 DEF WorkerTyped
<1>5. WorkerReads(u, jb)
  BY <1>2, <1>3 DEF WorkerReads
<1>6. WorkerFits(u, jb, lg)
  BY <1>3 DEF WorkerFits
<1> QED
  BY <1>4, <1>5, <1>6 DEF WorkerOK, u

\* Invocations of the jobs before one have no business with it.
LEMMA EarlierOK ==
    ASSUME NEW i, NEW old, NEW jb, old.id \in Nat, jb.id = old.id + 1, NEW oldLog, NEW lg,
           WorkerOK(i, old, oldLog)
    PROVE  WorkerOK(i, jb, lg)
<1>1. i.job \in 0..jb.id /\ i.job # jb.id
  BY DEF WorkerOK, WorkerTyped
<1> QED
  BY <1>1 DEF WorkerOK, WorkerTyped, WorkerReads, WorkerFits

-----------------------------------------------------------------------------
(* The invariant.                                                          *)

LEMMA InvInit == Init => ImportInv
<1> SUFFICES ASSUME Init
             PROVE  ImportInv
  OBVIOUS
<1>1. DOMAIN NoJob = JobFields /\ NoJob.id = 0 /\ NoJob.sheet = <<>> /\ NoJob.rows = <<>>
      /\ NoJob.status = "none" /\ NoJob.processed = 0 /\ NoJob.reinvokes = 0
  BY DEF NoJob, JobFields
<1>2. DOMAIN <<>> = {} /\ IsFiniteSet({}) /\ Cardinality({}) = 0
  BY FS_EmptySet
<1>3. Left(NoJob) = {}
  BY <1>1, <1>2 DEF Left
<1>4. IsSheet(<<>>)
  BY <1>2 DEF IsSheet
<1>5. <<>> \in [DOMAIN <<>> -> Outcomes]
  BY <1>2
<1>6. JobOK(job)
  BY <1>1, <1>3, <1>4, <1>5, Limits DEF Init, JobOK
<1>7. /\ IsLog(log) /\ Consistent(log) /\ WantsUnbeaten(log)
      /\ \A e \in log.entries : e.id[1] = 0
  BY LogsAssumption DEF Init
<1>8. \A w \in Invocations : WorkerOK(inv[w], job, log)
  BY <1>1, FreeOK DEF Init
<1>9. DOMAIN job.rows \ Left(job) = {}
  BY <1>1, <1>2 DEF Init
<1>10. FromImports(log, job) /\ Distinct(log)
  <2>1. \A e \in log.entries : e.id[1] = 0
    BY <1>7
  <2>2. job.id = 0
    BY <1>1 DEF Init
  <2> QED
    BY <2>1, <2>2 DEF FromImports, Distinct
<1>11. job.processed = Cardinality(DOMAIN job.rows \ Left(job))
  BY <1>1, <1>2, <1>9 DEF Init
<1> QED
  BY <1>6, <1>7, <1>8, <1>10, <1>11 DEF Init, ImportInv

\* A new job: nothing of it is done yet.
LEMMA NewJobStep ==
    ASSUME ImportInv, job.id < MaxImports, NEW sheet \in Sheets[job.id + 1],
           job' = [NoJob EXCEPT !.id = job.id + 1, !.sheet = sheet, !.status = "running",
                                !.rows = [i \in DOMAIN sheet |-> "pending"]],
           UNCHANGED <<log, edits, outdated>>, faults' \in Nat,
           DOMAIN inv' = Invocations,
           \A v \in Invocations : inv'[v] = inv[v] \/ WorkerOK(inv'[v], job', log),
           dropped' \subseteq dropped \cup {job.id + 1}
    PROVE  ImportInv'
<1>1. /\ DOMAIN job' = JobFields
      /\ job'.id = job.id + 1 /\ job'.sheet = sheet /\ job'.status = "running"
      /\ job'.rows = [i \in DOMAIN sheet |-> "pending"]
      /\ job'.processed = 0 /\ job'.reinvokes = 0
  BY DEF NoJob, JobFields
<1>2. job.id \in Nat /\ MaxImports \in Nat /\ job'.id \in 1..MaxImports
  BY <1>1, Limits DEF ImportInv, JobOK
<1>3. IsSheet(sheet)
  BY <1>1, <1>2, SheetsAssumption
<1>4. Left(job') = DOMAIN job'.rows
  BY <1>1 DEF Left
<1>5. JobOK(job')
  BY <1>1, <1>2, <1>3 DEF JobOK, Outcomes
<1>6. ASSUME NEW v \in Invocations
      PROVE  WorkerOK(inv'[v], job', log)
  <2>1. WorkerOK(inv[v], job, log)
    BY DEF ImportInv
  <2>2. job.id \in Nat /\ job'.id = job.id + 1
    BY <1>1, <1>2
  <2>3. WorkerOK(inv[v], job', log)
    BY <2>1, <2>2, EarlierOK, Zenon
  <2> QED
    BY <2>3
<1>7. FromImports(log, job')
  <2> SUFFICES ASSUME NEW e \in log.entries
               PROVE  e.id[1] <= job'.id /\ e.id[1] # job'.id
    BY DEF FromImports
  <2>1. e.id[1] <= job.id /\ e.id[1] \in Nat
    BY DEF ImportInv, FromImports, IsLog
  <2> QED
    BY <1>1, <1>2, <2>1
<1>8. Cardinality(DOMAIN job'.rows \ Left(job')) = 0
  <2>1. DOMAIN job'.rows \ Left(job') = {}
    BY <1>4
  <2> QED
    BY <2>1, FS_EmptySet
<1>9. dropped' \subseteq 1..job'.id
  BY <1>1, <1>2 DEF ImportInv
<1> QED
  BY <1>1, <1>5, <1>6, <1>7, <1>8, <1>9 DEF ImportInv

LEMMA StartStep ==
    ASSUME ImportInv, job.id < MaxImports, NEW sheet \in Sheets[job.id + 1], Start(sheet)
    PROVE  ImportInv'
<1>1. job'.id = job.id + 1 /\ job'.id \in Nat /\ job'.id \in 1..job'.id
  BY DEF Start, NoJob, ImportInv, JobOK
<1>2. PICK w \in Invocations : inv' = [inv EXCEPT ![w] = Queued(job.id + 1)]
  BY DEF Start
<1>3. /\ DOMAIN inv' = Invocations
      /\ \A v \in Invocations : inv'[v] = IF v = w THEN Queued(job.id + 1) ELSE inv[v]
  BY <1>2 DEF ImportInv
<1>4. WorkerOK(Queued(job.id + 1), job', log)
  BY <1>1, QueuedOK
<1> QED
  BY <1>3, <1>4, NewJobStep DEF Start, ImportInv

LEMMA StartUnsentStep ==
    ASSUME ImportInv, job.id < MaxImports, NEW sheet \in Sheets[job.id + 1], StartUnsent(sheet)
    PROVE  ImportInv'
<1>1. faults' \in Nat
  BY FaultStep DEF StartUnsent, ImportInv
<1> QED
  BY <1>1, NewJobStep DEF StartUnsent, ImportInv

\* A queued invocation takes the job up, or finds nothing to do.
LEMMA DeliverStep ==
    ASSUME ImportInv, NEW w \in Invocations, Deliver(w)
    PROVE  ImportInv'
<1>1. WorkerOK(inv[w], job, log) /\ job.id \in Nat
  BY DEF ImportInv, JobOK
<1> DEFINE r == [inv[w] EXCEPT !.at = "taking", !.sheet = job.sheet]
<1>2. WorkerOK(r, job, log)
  <2>1. /\ DOMAIN r = WorkerFields
        /\ r.at = "taking" /\ r.sheet = job.sheet
        /\ r.job = inv[w].job /\ r.tries = inv[w].tries /\ r.stale = inv[w].stale
    BY <1>1 DEF WorkerOK, WorkerTyped, WorkerFields
  <2> HIDE DEF r
  <2>2. inv[w].job # 0
    BY <1>1 DEF Deliver, WorkerOK, WorkerTyped
  <2> QED
    BY <1>1, <2>1, <2>2 DEF WorkerOK, WorkerTyped, WorkerReads, WorkerFits, Labels
<1>3. PICK s : inv' = [inv EXCEPT ![w] = s] /\ (s = r \/ s = Free)
  BY DEF Deliver
<1>4. WorkerOK(s, job, log)
  BY <1>1, <1>2, <1>3, FreeOK
<1> HIDE DEF r
<1> QED
  BY <1>3, <1>4, OneWorkerStep DEF Deliver, ImportInv

\* A batch that is taken is pending, and if there is none the passes may begin.
LEMMA TakeBatchStep ==
    ASSUME ImportInv, NEW w \in Invocations, TakeBatch(w)
    PROVE  ImportInv'
<1> DEFINE batch == IF Exists(w) THEN NextBatch ELSE {}
           r == [inv[w] EXCEPT !.at = IF batch = {} THEN "passes" ELSE "planning",
                               !.batch = batch, !.stale = FALSE]
<1>1. WorkerOK(inv[w], job, log) /\ JobOK(job) /\ inv[w].at = "taking"
  BY DEF ImportInv, TakeBatch
<1>2. inv' = [inv EXCEPT ![w] = r]
  BY DEF TakeBatch
<1>3. /\ DOMAIN r = WorkerFields
      /\ r.at = IF batch = {} THEN "passes" ELSE "planning"
      /\ r.batch = batch /\ r.stale = FALSE
      /\ r.job = inv[w].job /\ r.tries = inv[w].tries /\ r.sheet = inv[w].sheet
  BY <1>1 DEF WorkerOK, WorkerTyped, WorkerFields
<1>4. Pending = Left(job) /\ Pending \subseteq DOMAIN job.sheet
  BY <1>1 DEF Pending, Left, JobOK
<1>5. NextBatch \subseteq Pending /\ (NextBatch = {} => Pending = {})
  BY <1>1, BatchFromRows
<1>6. inv[w].job = job.id => batch = NextBatch
  BY DEF Exists
<1> HIDE DEF r, batch
<1>7. WorkerTyped(r, job)
  BY <1>1, <1>3 DEF WorkerOK, WorkerTyped, Labels
<1>8. WorkerReads(r, job)
  BY <1>1, <1>3, <1>4, <1>5, <1>6 DEF WorkerOK, WorkerReads
<1>9. WorkerFits(r, job, log)
  BY <1>3 DEF WorkerFits
<1> QED
  BY <1>2, <1>7, <1>8, <1>9, OneWorkerStep DEF TakeBatch, ImportInv, WorkerOK

\* A batch of the job's rows is planned for the log as it is.
LEMMA PlanStep ==
    ASSUME ImportInv, NEW w \in Invocations, Plan(w)
    PROVE  ImportInv'
<1> DEFINE rows == [i \in inv[w].batch |-> inv[w].sheet[i]]
<1>1. WorkerOK(inv[w], job, log) /\ JobOK(job) /\ IsLog(log) /\ inv[w].at = "planning"
  BY DEF ImportInv, Plan
<1>2. PICK bad : inv' = [inv EXCEPT ![w].at = "flushing", ![w].plan = PlanBatch(log, rows, bad)]
  BY DEF Plan
<1> DEFINE plan == PlanBatch(log, rows, bad)
           r == [inv[w] EXCEPT !.at = "flushing", !.plan = plan]
<1>3. inv' = [inv EXCEPT ![w] = r]
  BY <1>2 DEF ImportInv
<1>4. /\ DOMAIN r = WorkerFields
      /\ r.at = "flushing" /\ r.plan = plan /\ r.batch = inv[w].batch /\ r.sheet = inv[w].sheet
      /\ r.job = inv[w].job /\ r.tries = inv[w].tries /\ r.stale = inv[w].stale
  BY <1>1 DEF WorkerOK, WorkerTyped, WorkerFields
<1>5. ASSUME inv[w].job = job.id
      PROVE  /\ inv[w].sheet = job.sheet /\ inv[w].batch \subseteq DOMAIN job.sheet
             /\ ~ inv[w].stale => inv[w].batch \subseteq Left(job)
             /\ PlanTyped(plan, inv[w].batch) /\ PlanFits(plan, log)
  <2>1. /\ inv[w].sheet = job.sheet /\ inv[w].batch \subseteq DOMAIN job.sheet
        /\ ~ inv[w].stale => inv[w].batch \subseteq Left(job)
    BY <1>1, <1>5 DEF WorkerOK, WorkerReads
  <2>2. rows = [i \in inv[w].batch |-> job.sheet[i]]
    BY <2>1
  <2>3. IsSheet(job.sheet)
    BY <1>1 DEF JobOK
  <2> HIDE DEF rows
  <2> QED
    BY <1>1, <2>1, <2>2, <2>3, PlanHolds
<1> HIDE DEF r, plan
<1>6. WorkerTyped(r, job)
  BY <1>1, <1>4 DEF WorkerOK, WorkerTyped, Labels
<1>7. WorkerReads(r, job)
  BY <1>4, <1>5 DEF WorkerReads
<1>8. WorkerFits(r, job, log)
  BY <1>4, <1>5 DEF WorkerFits
<1> QED
  BY <1>3, <1>6, <1>7, <1>8, OneWorkerStep DEF Plan, ImportInv, WorkerOK

\* A batch is flushed: each of its rows gets its outcome, and what others have read is stale.
FlushesTo(w, ids, at) ==
    /\ inv[w].at = "flushing" /\ Exists(w) /\ CanFlush(log, inv[w].plan)
    /\ \A r \in DOMAIN inv[w].plan.new : ids[r] = <<inv[w].job, r, w>>
    /\ log' = Flushed(log, inv[w].plan, ids)
    /\ job' = [job EXCEPT
                  !.rows = [r \in DOMAIN job.rows |-> IF r \in inv[w].batch THEN inv[w].plan.out[r]
                                                      ELSE job.rows[r]],
                  !.processed = job.processed + Cardinality(inv[w].batch)]
    /\ inv' = Unsettle([inv EXCEPT ![w] = GoTo(inv[w], at)], w)
    /\ outdated' = (outdated \/ inv[w].stale)
    /\ UNCHANGED <<faults, edits, dropped>>

LEMMA FlushesStep ==
    ASSUME ImportInv, NEW w \in Invocations, NEW ids, NEW at \in {"taking", "bumping"},
           FlushesTo(w, ids, at)
    PROVE  ImportInv'
<1> DEFINE batch == inv[w].batch
           plan == inv[w].plan
           f == [inv EXCEPT ![w] = GoTo(inv[w], at)]
<1>1. /\ JobOK(job) /\ IsLog(log) /\ DOMAIN inv = Invocations /\ FromImports(log, job)
      /\ WantsUnbeaten(log)
      /\ WorkerOK(inv[w], job, log)
  BY DEF ImportInv
<1>2. /\ inv[w].job = job.id /\ job.id \in Nat \ {0}
      /\ batch \subseteq DOMAIN job.sheet /\ PlanTyped(plan, batch)
      /\ ~ inv[w].stale => batch \subseteq Left(job) /\ PlanFits(plan, log)
  BY <1>1 DEF FlushesTo, Exists, WorkerOK, WorkerTyped, WorkerReads, WorkerFits, JobOK
<1>3. /\ DOMAIN job = JobFields /\ job.rows \in [DOMAIN job.sheet -> Outcomes]
      /\ DOMAIN job.rows = DOMAIN job.sheet /\ IsFiniteSet(DOMAIN job.sheet)
      /\ IsFiniteSet(batch) /\ Cardinality(batch) \in Nat
  BY <1>1, <1>2, FS_Subset, FS_CardinalityType DEF JobOK, IsSheet
<1>4. /\ DOMAIN job' = JobFields
      /\ job'.id = job.id /\ job'.sheet = job.sheet /\ job'.status = job.status
      /\ job'.rows = [r \in DOMAIN job.rows |-> IF r \in batch THEN plan.out[r] ELSE job.rows[r]]
      /\ job'.processed = job.processed + Cardinality(batch)
      /\ job'.reinvokes = job.reinvokes
  BY <1>3 DEF JobFields, FlushesTo
<1>5. Left(job') = Left(job) \ batch
  <2>1. \A r \in batch : plan.out[r] # "pending"
    BY <1>2 DEF PlanTyped
  <2> QED
    BY <1>3, <1>4, <2>1 DEF Left
<1>6. JobOK(job')
  <2>1. \A r \in batch : plan.out[r] \in Outcomes
    BY <1>2 DEF PlanTyped
  <2>2. job'.rows \in [DOMAIN job.sheet -> Outcomes]
    BY <1>3, <1>4, <2>1
  <2> HIDE DEF batch, plan
  <2> QED
    BY <1>1, <1>3, <1>4, <1>5, <2>2 DEF JobOK
<1>7. IsLog(log')
  <2>1. \A r \in DOMAIN plan.new : ids[r][1] = job.id
    BY <1>2 DEF FlushesTo
  <2>2. log' = Flushed(log, plan, ids) /\ CanFlush(log, plan)
    BY DEF FlushesTo
  <2> QED
    BY <1>1, <1>2, <2>1, <2>2, FlushedLog
<1>8. \A v \in Invocations : WorkerOK(inv'[v], job', log')
  <2>1. DOMAIN f = Invocations /\ f[w] = GoTo(inv[w], at) /\ \A v \in Invocations \ {w} : f[v] = inv[v]
    BY <1>1
  <2> HIDE DEF f
  <2>2. inv' = Unsettle(f, w)
    BY DEF f, FlushesTo
  <2>3. \A v \in Invocations \ {w} : WorkerOK(f[v], job, log)
    BY <2>1 DEF ImportInv
  <2>4. ASSUME NEW v \in Invocations \ {w}
        PROVE  WorkerOK(inv'[v], job', log')
    <3> HIDE DEF batch
    <3> QED
      BY <1>4, <1>5, <2>1, <2>2, <2>3, UnsettleOK
  <2>5. WorkerOK(inv'[w], job', log')
    <3>1. inv'[w] = GoTo(inv[w], at)
      BY <2>1, <2>2 DEF Unsettle
    <3>2. WorkerOK(GoTo(inv[w], at), job, log)
      BY <1>1, GoToOK DEF FlushesTo
    <3>3. GoTo(inv[w], at).at = at
      BY <1>1 DEF GoTo, WorkerOK, WorkerTyped, WorkerFields
    <3> HIDE DEF batch
    <3> QED
      BY <1>4, <3>1, <3>2, <3>3 DEF WorkerOK, WorkerTyped, WorkerReads, WorkerFits
  <2> QED
    BY <2>4, <2>5
<1>9. /\ \A e \in log'.entries : \/ \E d \in log.entries : e.id = d.id
                                 \/ e.id[1] = job.id /\ e.id[2] \in batch
      /\ /\ Distinct(log)
         /\ \A e \in log.entries : e.id[1] = job.id => e.id[2] \notin batch
         => Distinct(log')
  <2>1. \A r \in DOMAIN plan.new : ids[r][1] = job.id /\ ids[r][2] = r
    BY <1>2 DEF FlushesTo
  <2>2. log' = Flushed(log, plan, ids)
    BY DEF FlushesTo
  <2>3. IsLog(log) /\ PlanTyped(plan, batch) /\ job.id \in Nat \ {0}
    BY <1>1, <1>2
  <2> HIDE DEF batch, plan
  <2> QED
    BY <2>1, <2>2, <2>3, FlushedFrom
<1>10. FromImports(log', job')
  <2> SUFFICES ASSUME NEW e \in log'.entries
               PROVE  /\ e.id[1] <= job.id
                      /\ e.id[1] = job.id => e.id[2] \in DOMAIN job'.rows \ Left(job')
    BY <1>4 DEF FromImports
  <2>1. CASE \E d \in log.entries : e.id = d.id
    BY <1>1, <1>2, <1>4, <1>5, <2>1 DEF FromImports
  <2>2. CASE e.id[1] = job.id /\ e.id[2] \in batch
    BY <1>2, <1>3, <1>4, <1>5, <2>2
  <2> QED
    BY <1>9, <2>1, <2>2
<1>11. ASSUME ~ outdated'
       PROVE  /\ job'.processed = Cardinality(DOMAIN job'.rows \ Left(job'))
              /\ Distinct(log')
              /\ Consistent(log')
  <2>1. ~ outdated /\ ~ inv[w].stale
    BY <1>11 DEF FlushesTo
  <2>2. /\ job.processed = Cardinality(DOMAIN job.rows \ Left(job))
        /\ Distinct(log) /\ Consistent(log)
    BY <2>1 DEF ImportInv
  <2>3. batch \subseteq Left(job) /\ PlanFits(plan, log)
    BY <1>2, <2>1
  <2>4. job'.processed = Cardinality(DOMAIN job'.rows \ Left(job'))
    <3> DEFINE done == DOMAIN job.rows \ Left(job)
    <3>1. IsFiniteSet(done) /\ Cardinality(done) \in Nat
      BY <1>3, FS_Subset, FS_CardinalityType
    <3>2. done \cap batch = {} /\ DOMAIN job'.rows \ Left(job') = done \cup batch
      BY <1>2, <1>3, <1>4, <1>5, <2>3 DEF Left
    <3>3. Cardinality(done \cap batch) = 0
      BY <3>2, FS_EmptySet
    <3> HIDE DEF done, batch
    <3>4. Cardinality(done \cup batch) = Cardinality(done) + Cardinality(batch)
      <4>1. Cardinality(done \cup batch) = Cardinality(done) + Cardinality(batch) - Cardinality(done \cap batch)
        BY <1>3, <3>1, FS_Union DEF batch
      <4> QED
        BY <1>3, <3>1, <3>3, <4>1 DEF batch
    <3> QED
      BY <1>4, <2>2, <3>2, <3>4 DEF done
  <2>5. \A e \in log.entries : e.id[1] = job.id => e.id[2] \notin batch
    BY <1>1, <1>2, <2>3 DEF FromImports
  <2>6. Consistent(log')
    <3>1. log' = Flushed(log, plan, ids)
      BY DEF FlushesTo
    <3> QED
      BY <1>1, <1>2, <2>2, <2>3, <3>1, FlushedConsistent
  <2> QED
    BY <1>9, <2>2, <2>4, <2>5, <2>6
<1>12. DOMAIN inv' = Invocations /\ WantsUnbeaten(log')
  <2>1. log' = Flushed(log, plan, ids)
    BY DEF FlushesTo
  <2>2. WantsUnbeaten(log')
    BY <1>1, <1>2, <2>1, FlushedWants
  <2> QED
    BY <2>2 DEF Unsettle, FlushesTo
<1>13. outdated' \in BOOLEAN /\ dropped' \subseteq 1..job'.id /\ edits' \in Nat /\ faults' \in Nat
  BY <1>4 DEF ImportInv, FlushesTo
<1> HIDE DEF batch, plan, f
<1> QED
  BY <1>6, <1>7, <1>8, <1>10, <1>11, <1>12, <1>13 DEF ImportInv

LEMMA FlushBatchStep ==
    ASSUME ImportInv, NEW w \in Invocations, FlushBatch(w)
    PROVE  ImportInv'
<1> DEFINE plan == inv[w].plan
           ids == [i \in DOMAIN plan.new |-> <<inv[w].job, i, w>>]
<1>1. CASE Exists(w) /\ CanFlush(log, plan)
  <2>1. PICK at \in {"taking", "bumping"} : inv' = Unsettle([inv EXCEPT ![w] = GoTo(inv[w], at)], w)
    BY <1>1 DEF FlushBatch
  <2>2. \A r \in DOMAIN plan.new : ids[r] = <<inv[w].job, r, w>>
    OBVIOUS
  <2>3. /\ inv[w].at = "flushing"
        /\ log' = Flushed(log, plan, ids)
        /\ job' = [job EXCEPT
                      !.rows = [r \in DOMAIN job.rows |-> IF r \in inv[w].batch THEN plan.out[r]
                                                          ELSE job.rows[r]],
                      !.processed = job.processed + Cardinality(inv[w].batch)]
        /\ outdated' = (outdated \/ inv[w].stale)
        /\ UNCHANGED <<faults, edits, dropped>>
    BY <1>1 DEF FlushBatch
  <2> HIDE DEF ids
  <2>4. FlushesTo(w, ids, at)
    BY <1>1, <2>1, <2>2, <2>3 DEF FlushesTo
  <2> QED
    BY <2>4, FlushesStep
<1>2. CASE ~ (Exists(w) /\ CanFlush(log, plan))
  <2>1. /\ inv[w].at = "flushing" /\ inv' = [inv EXCEPT ![w] = GoTo(inv[w], "failing")]
        /\ UNCHANGED <<job, log, outdated, faults, edits, dropped>>
    BY <1>2 DEF FlushBatch
  <2>2. WorkerOK(GoTo(inv[w], "failing"), job, log)
    BY <2>1, GoToOK DEF ImportInv
  <2> QED
    BY <2>1, <2>2, OneWorkerStep DEF ImportInv
<1> QED
  BY <1>1, <1>2

\* An invocation goes on at a label where it needs nothing more of the job.
LEMMA GoesOnOK ==
    ASSUME NEW i, NEW lg, NEW jb, WorkerOK(i, jb, lg), i.at \in {"bumping", "passes", "completing"},
           NEW at \in {"failing", "reinvoking", "completing"}, at = "completing" => i.at = "passes"
    PROVE  WorkerOK([i EXCEPT !.at = at], jb, lg)
<1> DEFINE r == [i EXCEPT !.at = at]
<1>1. /\ DOMAIN r = WorkerFields
      /\ r.at = at /\ r.job = i.job /\ r.sheet = i.sheet /\ r.tries = i.tries /\ r.stale = i.stale
  BY DEF WorkerOK, WorkerTyped, WorkerFields
<1> HIDE DEF r
<1>2. WorkerOK(r, jb, lg)
  BY <1>1 DEF WorkerOK, WorkerTyped, WorkerReads, WorkerFits, Labels
<1> QED
  BY <1>2 DEF r

\* Invocations look at the sheet and the rows of the job only.
LEMMA SameRowsOK ==
    ASSUME NEW i, NEW old, NEW jb, NEW lg, WorkerOK(i, old, lg),
           jb.id = old.id, jb.sheet = old.sheet, jb.rows = old.rows
    PROVE  WorkerOK(i, jb, lg)
<1>1. Left(jb) = Left(old)
  BY DEF Left
<1> QED
  BY <1>1 DEF WorkerOK, WorkerTyped, WorkerReads, WorkerFits

\* A step of one invocation on the status or the count of reinvocations of the job.
LEMMA SameRowsStep ==
    ASSUME ImportInv, NEW w \in Invocations, NEW r, inv' = [inv EXCEPT ![w] = r],
           WorkerOK(r, job, log),
           NEW status \in {"running", "completed", "failed"}, NEW n \in Nat,
           job' = [job EXCEPT !.reinvokes = n] \/ job' = [job EXCEPT !.status = status],
           status = "completed" => Left(job) = {},
           UNCHANGED <<log, faults, edits, outdated, dropped>>
    PROVE  ImportInv'
<1>1. JobOK(job)
  BY DEF ImportInv
<1>2. /\ DOMAIN job' = JobFields
      /\ job'.id = job.id /\ job'.sheet = job.sheet /\ job'.rows = job.rows
      /\ job'.processed = job.processed
      /\ job'.status \in {job.status, status} /\ job'.reinvokes \in {job.reinvokes, n}
  BY <1>1 DEF JobOK, JobFields
<1>3. Left(job') = Left(job)
  BY <1>2 DEF Left
<1>4. JobOK(job')
  BY <1>1, <1>2, <1>3 DEF JobOK
<1>5. /\ DOMAIN inv' = Invocations
      /\ \A v \in Invocations : inv'[v] = IF v = w THEN r ELSE inv[v]
  BY DEF ImportInv
<1>6. \A v \in Invocations : WorkerOK(inv'[v], job', log)
  <2> TAKE v \in Invocations
  <2>1. WorkerOK(inv'[v], job, log)
    BY <1>5 DEF ImportInv
  <2> QED
    BY <1>2, <2>1, SameRowsOK
<1>7. FromImports(log, job')
  BY <1>2, <1>3 DEF ImportInv, FromImports
<1> QED
  BY <1>2, <1>3, <1>4, <1>5, <1>6, <1>7 DEF ImportInv

LEMMA BumpReinvokesStep ==
    ASSUME ImportInv, NEW w \in Invocations, BumpReinvokes(w)
    PROVE  ImportInv'
<1>1. WorkerOK(inv[w], job, log) /\ inv[w].at = "bumping" /\ job.reinvokes \in Nat
  BY DEF BumpReinvokes, ImportInv, JobOK
<1>2. PICK at \in {"failing", "reinvoking"} : inv' = [inv EXCEPT ![w] = [inv[w] EXCEPT !.at = at]]
  BY DEF BumpReinvokes, ImportInv
<1>3. WorkerOK([inv[w] EXCEPT !.at = at], job, log)
  BY <1>1, GoesOnOK
<1>4. CASE Exists(w)
  <2>1. job' = [job EXCEPT !.reinvokes = job.reinvokes + 1] /\ job.reinvokes + 1 \in Nat
    BY <1>1, <1>4 DEF BumpReinvokes
  <2> QED
    BY <1>2, <1>3, <2>1, SameRowsStep DEF BumpReinvokes
<1>5. CASE ~ Exists(w)
  BY <1>2, <1>3, <1>5, OneWorkerStep DEF BumpReinvokes, ImportInv
<1> QED
  BY <1>4, <1>5

LEMMA ReinvokeStep ==
    ASSUME ImportInv, NEW w \in Invocations, Reinvoke(w)
    PROVE  ImportInv'
<1>1. job.id \in Nat /\ inv[w].job \in 1..job.id
  BY DEF Reinvoke, ImportInv, JobOK, WorkerOK, WorkerTyped
<1>2. WorkerOK(Queued(inv[w].job), job, log)
  BY <1>1, QueuedOK
<1> QED
  BY <1>2, OneWorkerStep DEF Reinvoke, ImportInv

LEMMA FinalPassesStep ==
    ASSUME ImportInv, NEW w \in Invocations, FinalPasses(w)
    PROVE  ImportInv'
<1>1. WorkerOK(inv[w], job, log) /\ inv[w].at = "passes"
  BY DEF FinalPasses, ImportInv
<1>2. WorkerOK([inv[w] EXCEPT !.at = "completing"], job, log)
  BY <1>1, GoesOnOK
<1>3. inv' = [inv EXCEPT ![w] = [inv[w] EXCEPT !.at = "completing"]]
  BY DEF FinalPasses
<1> QED
  BY <1>2, <1>3, OneWorkerStep DEF FinalPasses, ImportInv

LEMMA CompleteStep ==
    ASSUME ImportInv, NEW w \in Invocations, Complete(w)
    PROVE  ImportInv'
<1>1. WorkerOK(inv[w], job, log) /\ inv[w].at = "completing" /\ job.id \in Nat
  BY DEF Complete, ImportInv, JobOK
<1>2. CASE Exists(w)
  <2>1. Left(job) = {}
    BY <1>1, <1>2 DEF Exists, WorkerOK, WorkerReads
  <2>2. WorkerOK(Free, job, log)
    BY <1>1, FreeOK
  <2>3. job' = [job EXCEPT !.status = "completed"] /\ inv' = [inv EXCEPT ![w] = Free]
    BY <1>2 DEF Complete
  <2> QED
    BY <2>1, <2>2, <2>3, SameRowsStep DEF Complete
<1>3. CASE ~ Exists(w)
  <2>1. WorkerOK([inv[w] EXCEPT !.at = "failing"], job, log)
    BY <1>1, GoesOnOK
  <2>2. inv' = [inv EXCEPT ![w] = [inv[w] EXCEPT !.at = "failing"]] /\ UNCHANGED job
    BY <1>3 DEF Complete
  <2> QED
    BY <2>1, <2>2, OneWorkerStep DEF Complete, ImportInv
<1> QED
  BY <1>2, <1>3

LEMMA MarkFailedStep ==
    ASSUME ImportInv, NEW w \in Invocations, MarkFailed(w)
    PROVE  ImportInv'
<1>1. WorkerOK(Free, job, log)
  BY FreeOK DEF ImportInv, JobOK
<1>2. CASE Exists(w)
  BY <1>1, <1>2, SameRowsStep DEF MarkFailed
<1>3. CASE ~ Exists(w)
  BY <1>1, <1>3, OneWorkerStep DEF MarkFailed, ImportInv
<1> QED
  BY <1>2, <1>3

LEMMA ThrowStep ==
    ASSUME ImportInv, NEW w \in Invocations, Throw(w)
    PROVE  ImportInv'
<1>1. WorkerOK(GoTo(inv[w], "failing"), job, log)
  BY GoToOK DEF Throw, ImportInv
<1>2. inv' = [inv EXCEPT ![w] = GoTo(inv[w], "failing")]
  BY DEF Throw
<1> QED
  BY <1>1, <1>2, FaultStep, OneWorkerStep DEF Throw, ImportInv

LEMMA CrashStep ==
    ASSUME ImportInv, NEW w \in Invocations, Crash(w)
    PROVE  ImportInv'
<1>1. WorkerOK(inv[w], job, log) /\ job.id \in Nat /\ inv[w].at # "free" /\ inv[w].job \in 1..job.id
  BY DEF Crash, ImportInv, JobOK, WorkerOK, WorkerTyped
<1>2. WorkerOK(Retried(w), job, log)
  BY <1>1, RetriedOK
<1>3. dropped' \subseteq 1..job.id
  BY <1>1 DEF Crash, ImportInv
<1> QED
  BY <1>2, <1>3, FaultStep, OneWorkerStep DEF Crash, ImportInv

LEMMA CrashReinvokedStep ==
    ASSUME ImportInv, NEW w \in Invocations, CrashReinvoked(w)
    PROVE  ImportInv'
<1>1. WorkerOK(inv[w], job, log) /\ job.id \in Nat /\ inv[w].at # "free" /\ inv[w].job \in 1..job.id
  BY DEF CrashReinvoked, ImportInv, JobOK, WorkerOK, WorkerTyped
<1>2. PICK v \in Invocations : inv' = [inv EXCEPT ![v] = Queued(inv[w].job), ![w] = Retried(w)]
  BY DEF CrashReinvoked
<1>3. WorkerOK(Retried(w), job, log) /\ WorkerOK(Queued(inv[w].job), job, log)
  BY <1>1, RetriedOK, QueuedOK
<1>4. /\ DOMAIN inv' = Invocations
      /\ \A u \in Invocations : inv'[u] \in {inv[u], Queued(inv[w].job), Retried(w)}
  BY <1>2 DEF ImportInv
<1> QED
  BY <1>3, <1>4, FaultStep, WorkersStep DEF CrashReinvoked, ImportInv

LEMMA DuplicateStep ==
    ASSUME ImportInv, NEW w \in Invocations, Duplicate(w)
    PROVE  ImportInv'
<1>1. PICK v \in Invocations : inv' = [inv EXCEPT ![v] = inv[w]]
  BY DEF Duplicate
<1>2. WorkerOK(inv[w], job, log)
  BY DEF ImportInv
<1> QED
  BY <1>1, <1>2, FaultStep, OneWorkerStep DEF Duplicate, ImportInv

\* What the user does to the log makes what invocations have read stale.
LEMMA EditStep ==
    ASSUME ImportInv, inv' = Unsettle(inv, None), Edit,
           UNCHANGED <<job, faults, outdated, dropped>>,
           IsLog(log'), FromImports(log', job), WantsUnbeaten(log'),
           ~ outdated => Distinct(log') /\ Consistent(log')
    PROVE  ImportInv'
<1>1. /\ DOMAIN inv' = Invocations /\ Invocations \ {None} = Invocations
      /\ DOMAIN inv = Invocations /\ \A v \in Invocations : WorkerOK(inv[v], job, log)
  BY NoneAssumption DEF ImportInv, Unsettle
<1>2. \A v \in Invocations : WorkerOK(Unsettle(inv, None)[v], job, log')
  BY <1>1, UnsettleOK
<1>3. edits' \in Nat
  BY DEF Edit, ImportInv
<1> QED
  BY <1>1, <1>2, <1>3 DEF ImportInv

\* An entry that comes from one of lg, or from the user's hand.
Descends(e, lg, l) ==
    /\ DOMAIN e = EntryFields
    /\ \/ \E d \in lg.entries : e.id = d.id /\ e.kind = d.kind /\ e.level = d.level
       \/ e.id[1] = 0 /\ e.kind \in Kinds /\ e.level = l

\* A log left with such entries, and level l with a status.
LEMMA LeftLog ==
    ASSUME IsLog(log), FromImports(log, job), job.id \in Nat, NEW l \in Levels,
           NEW s \in Statuses \ {"NONE"}, NEW es, \A e \in es : Descends(e, log, l),
           NEW after, after = WithUpdates(l, s, es)
    PROVE  /\ IsLog(after)
           /\ FromImports(after, job)
           /\ after.entries = es
           /\ after.wanted = log.wanted
           /\ DOMAIN after = {"lp", "made", "entries", "wanted"}
           /\ \A m \in Levels : after.lp[m].status = IF m = l THEN s ELSE log.lp[m].status
<1>1. /\ DOMAIN after = DOMAIN log
      /\ after.lp = [log.lp EXCEPT ![l] = [id |-> IF log.lp[l].id = 0 THEN log.made[l] + 1 ELSE log.lp[l].id,
                                           status |-> s]]
      /\ after.made = [log.made EXCEPT ![l] = log.made[l] + IF log.lp[l].id = 0 THEN 1 ELSE 0]
      /\ after.entries = es
      /\ after.wanted = log.wanted
  BY DEF WithUpdates, IsLog
<1>2. DOMAIN log.lp = Levels /\ DOMAIN log.made = Levels
  BY DEF IsLog
<1>3. \A e \in es :
          DOMAIN e = EntryFields /\ e.kind \in Kinds /\ e.level \in Levels /\ e.id[1] \in Nat
  BY DEF IsLog, Descends
<1>4. ASSUME NEW m \in Levels
      PROVE  /\ after.lp[m] \in [id : Nat, status : Statuses] /\ after.made[m] \in Nat
             /\ after.lp[m].id <= after.made[m]
             /\ after.lp[m].status = "NONE" <=> after.lp[m].id = 0
             /\ after.lp[m].status = IF m = l THEN s ELSE log.lp[m].status
  <2>1. /\ log.lp[m].id \in Nat /\ log.lp[m].status \in Statuses
        /\ log.made[m] \in Nat /\ log.lp[m].id <= log.made[m]
        /\ log.lp[m].status = "NONE" <=> log.lp[m].id = 0
        /\ log.lp[m] \in [id : Nat, status : Statuses]
    BY DEF IsLog
  <2>2. CASE m = l
    <3>1. /\ after.lp[m] = [id |-> IF log.lp[m].id = 0 THEN log.made[m] + 1 ELSE log.lp[m].id,
                            status |-> s]
          /\ after.made[m] = log.made[m] + IF log.lp[m].id = 0 THEN 1 ELSE 0
      BY <1>1, <1>2, <2>2
    <3> QED
      BY <2>1, <2>2, <3>1
  <2>3. CASE m # l
    BY <1>1, <1>2, <2>1, <2>3
  <2> QED
    BY <2>2, <2>3
<1>5. after.lp \in [Levels -> [id : Nat, status : Statuses]] /\ after.made \in [Levels -> Nat]
  <2>1. after.lp = [m \in Levels |-> after.lp[m]] /\ after.made = [m \in Levels |-> after.made[m]]
    BY <1>1, <1>2
  <2> QED
    BY <1>4, <2>1
<1>6. IsLog(after)
  BY <1>1, <1>3, <1>4, <1>5 DEF IsLog, EntryFields
<1>7. FromImports(after, job)
  BY <1>1 DEF FromImports, Descends
<1> QED
  BY <1>1, <1>4, <1>6, <1>7 DEF IsLog

\* An update by hand, of any kind.
LEMMA ByHandDescends ==
    ASSUME NEW l, NEW kind \in Kinds, NEW date
    PROVE  /\ Descends(ByHand(l, kind, date), log, l)
           /\ ByHand(l, kind, date).kind = kind /\ ByHand(l, kind, date).level = l
           /\ ByHand(l, kind, date).id[1] = 0
BY DEF ByHand, Descends, EntryFields

\* A log with one update by hand more than before.
LEMMA AddedLog ==
    ASSUME IsLog(log), NEW l, NEW kind \in Kinds, NEW date, NEW after,
           after.entries = log.entries \cup {ByHand(l, kind, date)}
    PROVE  /\ \A e \in after.entries : Descends(e, log, l)
           /\ Distinct(log) => Distinct(after)
           /\ \A m : /\ Completions(after, m) = Completions(log, m) \cup
                            IF m = l /\ kind = "COMPLETION" THEN {ByHand(l, kind, date)} ELSE {}
                     /\ Drops(after, m) = Drops(log, m) \cup
                            IF m = l /\ kind = "DROP" THEN {ByHand(l, kind, date)} ELSE {}
<1> DEFINE added == ByHand(l, kind, date)
<1>1. Descends(added, log, l) /\ added.kind = kind /\ added.level = l /\ added.id[1] = 0
  BY ByHandDescends
<1>2. \A d \in log.entries : Descends(d, log, l)
  BY DEF IsLog, Descends, EntryFields
<1> HIDE DEF added
<1>3. after.entries = log.entries \cup {added}
  BY DEF added
<1>4. Distinct(log) => Distinct(after)
  BY <1>1, <1>3 DEF Distinct
<1> QED
  BY <1>1, <1>2, <1>3, <1>4 DEF Completions, Drops, added

\* A completion by hand: the level's own is edited, or one that no import made is added.
LEMMA LogCompletionStep ==
    ASSUME ImportInv, NEW l \in Levels, NEW date, LogCompletion(l, date)
    PROVE  ImportInv'
<1> DEFINE edited(e) == IF e = StoredCompletion(log, l) THEN [e EXCEPT !.date = date] ELSE e
           added == ByHand(l, "COMPLETION", date)
           es == IF HasCompletion(log, l) THEN {edited(e) : e \in log.entries}
                 ELSE log.entries \cup {added}
           after == WithUpdates(l, "COMPLETED", es)
<1>1. IsLog(log) /\ FromImports(log, job) /\ job.id \in Nat /\ WantsUnbeaten(log)
  BY DEF ImportInv, JobOK
<1>2. \A e \in log.entries : DOMAIN e = EntryFields
  BY <1>1 DEF IsLog, EntryFields
<1>3. \A e \in log.entries : /\ DOMAIN edited(e) = EntryFields
                             /\ edited(e).id = e.id /\ edited(e).kind = e.kind
                             /\ edited(e).level = e.level
  BY <1>2 DEF EntryFields
<1>4. Descends(added, log, l) /\ added.kind = "COMPLETION" /\ added.level = l /\ added.id[1] = 0
  BY ByHandDescends DEF Kinds
<1>5. log' = [after EXCEPT !.wanted = after.wanted \ {l}]
  BY DEF LogCompletion
<1> HIDE DEF edited, added
<1>6. ASSUME NEW e \in es
      PROVE  \/ \E d \in log.entries : /\ e = IF HasCompletion(log, l) THEN edited(d) ELSE d
                                       /\ e.id = d.id /\ e.kind = d.kind /\ e.level = d.level
                                       /\ DOMAIN e = EntryFields
             \/ e = added /\ ~ HasCompletion(log, l)
  BY <1>2, <1>3
<1>7. \A e \in es : Descends(e, log, l)
  BY <1>4, <1>6 DEF Descends
<1>8. \A d \in log.entries : (IF HasCompletion(log, l) THEN edited(d) ELSE d) \in es
  OBVIOUS
<1>9. ~ HasCompletion(log, l) => added \in es
  OBVIOUS
<1> HIDE DEF es
<1>10. /\ IsLog(after) /\ FromImports(after, job)
       /\ after.entries = es /\ after.wanted = log.wanted
       /\ DOMAIN after = {"lp", "made", "entries", "wanted"}
       /\ \A m \in Levels : after.lp[m].status = IF m = l THEN "COMPLETED" ELSE log.lp[m].status
  BY <1>1, <1>7, LeftLog DEF Statuses
<1> HIDE DEF after
<1>11. /\ log'.entries = es /\ log'.wanted = log.wanted \ {l}
       /\ log'.lp = after.lp /\ log'.made = after.made /\ DOMAIN log' = DOMAIN after
  BY <1>5, <1>10
<1>12. IsLog(log') /\ FromImports(log', job)
  BY <1>10, <1>11 DEF IsLog, FromImports
<1>13. ASSUME Distinct(log)
       PROVE  Distinct(log')
  <2> SUFFICES ASSUME NEW d \in es, NEW e \in es,
                      d.id[1] > 0, d.id[1] = e.id[1], d.id[2] = e.id[2]
               PROVE  d = e
    BY <1>11 DEF Distinct
  <2>1. d # added /\ e # added
    BY <1>4
  <2>2. PICK b \in log.entries : d.id = b.id /\ d = IF HasCompletion(log, l) THEN edited(b) ELSE b
    BY <1>6, <2>1
  <2>3. PICK c \in log.entries : e.id = c.id /\ e = IF HasCompletion(log, l) THEN edited(c) ELSE c
    BY <1>6, <2>1
  <2>4. b = c
    BY <1>13, <2>2, <2>3 DEF Distinct
  <2> QED
    BY <2>2, <2>3, <2>4
<1>14. ASSUME NEW m \in Levels
       PROVE  /\ \A e \in Completions(log', m) :
                    \/ \E d \in Completions(log, m) : e = IF HasCompletion(log, l) THEN edited(d) ELSE d
                    \/ e = added /\ m = l /\ ~ HasCompletion(log, l)
              /\ HasCompletion(log', m) <=> HasCompletion(log, m) \/ m = l
              /\ Drops(log, m) # {} => Drops(log', m) # {}
  <2>1. \A e \in Completions(log', m) :
            \/ \E d \in Completions(log, m) : e = IF HasCompletion(log, l) THEN edited(d) ELSE d
            \/ e = added /\ m = l /\ ~ HasCompletion(log, l)
    BY <1>4, <1>6, <1>11 DEF Completions
  <2>2. \A d \in Completions(log, m) :
            (IF HasCompletion(log, l) THEN edited(d) ELSE d) \in Completions(log', m)
    BY <1>3, <1>8, <1>11 DEF Completions
  <2>3. \A d \in Drops(log, m) :
            (IF HasCompletion(log, l) THEN edited(d) ELSE d) \in Drops(log', m)
    BY <1>3, <1>8, <1>11 DEF Drops
  <2>4. ~ HasCompletion(log, l) => added \in Completions(log', l)
    BY <1>4, <1>9, <1>11 DEF Completions
  <2> QED
    BY <2>1, <2>2, <2>3, <2>4 DEF HasCompletion
<1>15. WantsUnbeaten(log')
  BY <1>1, <1>11, <1>14 DEF WantsUnbeaten, IsLog
<1>16. ASSUME Consistent(log)
       PROVE  Consistent(log')
  <2> SUFFICES ASSUME NEW m \in Levels
               PROVE  /\ \A d, e \in Completions(log', m) : d = e
                      /\ log'.lp[m].status = "COMPLETED" => HasCompletion(log', m)
                      /\ HasCompletion(log', m) =>
                             log'.lp[m].status = "COMPLETED" \/ Drops(log', m) # {}
                      /\ log'.lp[m].status = "DROPPED" => Drops(log', m) # {}
    BY DEF Consistent
  <2>1. /\ \A d, e \in Completions(log, m) : d = e
        /\ log.lp[m].status = "COMPLETED" => HasCompletion(log, m)
        /\ HasCompletion(log, m) => log.lp[m].status = "COMPLETED" \/ Drops(log, m) # {}
        /\ log.lp[m].status = "DROPPED" => Drops(log, m) # {}
    BY <1>16 DEF Consistent
  <2>2. \A d, e \in Completions(log', m) : d = e
    BY <1>14, <2>1 DEF HasCompletion
  <2>3. log'.lp[m].status = IF m = l THEN "COMPLETED" ELSE log.lp[m].status
    BY <1>10, <1>11
  <2> QED
    BY <1>14, <2>1, <2>2, <2>3
<1> QED
  BY <1>12, <1>13, <1>15, <1>16, EditStep DEF LogCompletion, ImportInv

\* Progress leaves a beaten level COMPLETED; a drop takes it down, and is its reason.
LEMMA LogOtherStep ==
    ASSUME ImportInv, NEW l \in Levels, NEW date, LogProgress(l, date) \/ LogDrop(l, date)
    PROVE  ImportInv'
<1>1. IsLog(log) /\ FromImports(log, job) /\ job.id \in Nat /\ WantsUnbeaten(log)
  BY DEF ImportInv, JobOK
<1>2. PICK kind \in {"PROGRESS", "DROP"}, s \in {"COMPLETED", "IN_PROGRESS", "DROPPED"} :
          /\ log' = WithUpdates(l, s, log.entries \cup {ByHand(l, kind, date)})
          /\ kind = "PROGRESS" => s = IF log.lp[l].status = "COMPLETED" THEN "COMPLETED" ELSE "IN_PROGRESS"
          /\ kind = "DROP" => s = "DROPPED"
  BY DEF LogProgress, LogDrop
<1> DEFINE es == log.entries \cup {ByHand(l, kind, date)}
<1>3. kind \in Kinds /\ s \in Statuses \ {"NONE"}
  BY DEF Kinds, Statuses
<1>4. \A e \in es : Descends(e, log, l)
  <2> DEFINE lg == [entries |-> es]
  <2>1. lg.entries = log.entries \cup {ByHand(l, kind, date)}
    OBVIOUS
  <2> HIDE DEF lg
  <2> QED
    BY <1>1, <1>3, <2>1, AddedLog
<1>5. log' = WithUpdates(l, s, es)
  BY <1>2
<1> HIDE DEF es
<1>6. /\ IsLog(log') /\ FromImports(log', job)
      /\ log'.entries = es /\ log'.wanted = log.wanted
      /\ \A m \in Levels : log'.lp[m].status = IF m = l THEN s ELSE log.lp[m].status
  BY <1>1, <1>3, <1>4, <1>5, LeftLog
<1>7. /\ Distinct(log) => Distinct(log')
      /\ \A m : /\ Completions(log', m) = Completions(log, m)
                /\ Drops(log, m) \subseteq Drops(log', m)
      /\ kind = "DROP" => Drops(log', l) # {}
  <2> DEFINE after == log'
  <2>1. after.entries = log.entries \cup {ByHand(l, kind, date)}
    BY <1>6 DEF es
  <2> HIDE DEF after
  <2>2. /\ Distinct(log) => Distinct(after)
        /\ \A m : /\ Completions(after, m) = Completions(log, m) \cup
                         IF m = l /\ kind = "COMPLETION" THEN {ByHand(l, kind, date)} ELSE {}
                  /\ Drops(after, m) = Drops(log, m) \cup
                         IF m = l /\ kind = "DROP" THEN {ByHand(l, kind, date)} ELSE {}
    BY <1>1, <1>3, <2>1, AddedLog
  <2>3. \A m : /\ Completions(after, m) = Completions(log, m)
               /\ Drops(log, m) \subseteq Drops(after, m)
    BY <2>2
  <2>4. kind = "DROP" => Drops(after, l) # {}
    BY <2>2
  <2> QED
    BY <2>2, <2>3, <2>4 DEF after
<1>8. WantsUnbeaten(log')
  BY <1>1, <1>6, <1>7 DEF WantsUnbeaten, HasCompletion
<1>9. ASSUME Consistent(log)
      PROVE  Consistent(log')
  <2> SUFFICES ASSUME NEW m \in Levels
               PROVE  /\ \A d, e \in Completions(log', m) : d = e
                      /\ log'.lp[m].status = "COMPLETED" => HasCompletion(log', m)
                      /\ HasCompletion(log', m) =>
                             log'.lp[m].status = "COMPLETED" \/ Drops(log', m) # {}
                      /\ log'.lp[m].status = "DROPPED" => Drops(log', m) # {}
    BY DEF Consistent
  <2>1. /\ \A d, e \in Completions(log, m) : d = e
        /\ log.lp[m].status = "COMPLETED" => HasCompletion(log, m)
        /\ HasCompletion(log, m) => log.lp[m].status = "COMPLETED" \/ Drops(log, m) # {}
        /\ log.lp[m].status = "DROPPED" => Drops(log, m) # {}
    BY <1>9 DEF Consistent
  <2>2. HasCompletion(log', m) <=> HasCompletion(log, m)
    BY <1>7 DEF HasCompletion
  <2>3. log'.lp[m].status = IF m = l THEN s ELSE log.lp[m].status
    BY <1>6
  <2>4. CASE m # l
    BY <1>7, <2>1, <2>2, <2>3, <2>4
  <2>5. CASE m = l
    BY <1>2, <1>7, <2>1, <2>2, <2>3, <2>5
  <2> QED
    BY <2>4, <2>5
<1> QED
  BY <1>6, <1>7, <1>8, <1>9, EditStep DEF LogProgress, LogDrop, ImportInv

\* A log with fewer entries.
LEMMA FewerEntries ==
    ASSUME NEW after, after.entries \subseteq log.entries
    PROVE  /\ Distinct(log) => Distinct(after)
           /\ FromImports(log, job) => FromImports(after, job)
           /\ \A m : /\ Completions(after, m) \subseteq Completions(log, m)
                     /\ HasCompletion(after, m) => HasCompletion(log, m)
BY DEF Distinct, FromImports, Completions, HasCompletion

LEMMA DeleteLevelStep ==
    ASSUME ImportInv, NEW l \in Levels, DeleteLevel(l)
    PROVE  ImportInv'
<1>1. IsLog(log) /\ FromImports(log, job) /\ WantsUnbeaten(log)
  BY DEF ImportInv
<1>2. /\ DOMAIN log' = DOMAIN log
      /\ log'.lp = [log.lp EXCEPT ![l] = NoLp] /\ log'.made = log.made
      /\ log'.entries = {e \in log.entries : e.level # l} /\ log'.wanted = log.wanted
  BY <1>1 DEF DeleteLevel, IsLog
<1>3. IsLog(log')
  BY <1>1, <1>2 DEF IsLog, NoLp, Statuses
<1>4. /\ FromImports(log', job)
      /\ Distinct(log) => Distinct(log')
      /\ WantsUnbeaten(log')
  BY <1>1, <1>2, FewerEntries DEF WantsUnbeaten
<1>5. ASSUME Consistent(log)
      PROVE  Consistent(log')
  <2> SUFFICES ASSUME NEW m \in Levels
               PROVE  /\ \A d, e \in Completions(log', m) : d = e
                      /\ log'.lp[m].status = "COMPLETED" => HasCompletion(log', m)
                      /\ HasCompletion(log', m) =>
                             log'.lp[m].status = "COMPLETED" \/ Drops(log', m) # {}
                      /\ log'.lp[m].status = "DROPPED" => Drops(log', m) # {}
    BY DEF Consistent
  <2>1. /\ \A d, e \in Completions(log, m) : d = e
        /\ log.lp[m].status = "COMPLETED" => HasCompletion(log, m)
        /\ HasCompletion(log, m) => log.lp[m].status = "COMPLETED" \/ Drops(log, m) # {}
        /\ log.lp[m].status = "DROPPED" => Drops(log, m) # {}
    BY <1>5 DEF Consistent
  <2>2. /\ Completions(log', m) = IF m = l THEN {} ELSE Completions(log, m)
        /\ Drops(log', m) = IF m = l THEN {} ELSE Drops(log, m)
    BY <1>2 DEF Completions, Drops
  <2>3. log'.lp[m].status = IF m = l THEN "NONE" ELSE log.lp[m].status
    BY <1>1, <1>2 DEF IsLog, NoLp
  <2> QED
    BY <1>2, <2>1, <2>2, <2>3 DEF HasCompletion
<1> QED
  BY <1>3, <1>4, <1>5, EditStep DEF DeleteLevel, ImportInv

\* One of several updates is deleted: the status is one that those left can bring about.
LEMMA DeleteUpdateStep ==
    ASSUME ImportInv, NEW e \in log.entries, DeleteUpdate(e)
    PROVE  ImportInv'
<1> DEFINE l == e.level
           kinds == {d.kind : d \in {d \in log.entries \ {e} : d.level = e.level}}
<1>1. IsLog(log) /\ FromImports(log, job) /\ WantsUnbeaten(log) /\ l \in Levels
  BY DEF ImportInv, IsLog
<1>2. PICK s \in Replays(kinds) :
          log' = [log EXCEPT !.lp[e.level].status = s, !.entries = log.entries \ {e}]
  BY DEF DeleteUpdate
<1>3. /\ s \in Statuses \ {"NONE"}
      /\ s = "COMPLETED" => "COMPLETION" \in kinds
      /\ s = "DROPPED" => "DROP" \in kinds
      /\ s = "IN_PROGRESS" => "COMPLETION" \notin kinds \/ "DROP" \in kinds
  BY DEF Replays, Statuses
<1>4. /\ DOMAIN log' = DOMAIN log
      /\ log'.lp = [log.lp EXCEPT ![l].status = s] /\ log'.made = log.made
      /\ log'.entries = log.entries \ {e} /\ log'.wanted = log.wanted
  BY <1>1, <1>2 DEF IsLog
<1>5. log.lp[l].id # 0
  BY DEF DeleteUpdate
<1>6. /\ "COMPLETION" \in kinds <=> HasCompletion(log', l)
      /\ "DROP" \in kinds <=> Drops(log', l) # {}
  <2>1. Completions(log', l) = {d \in {d \in log.entries \ {e} : d.level = e.level} : d.kind = "COMPLETION"}
    BY <1>4 DEF Completions
  <2>2. Drops(log', l) = {d \in {d \in log.entries \ {e} : d.level = e.level} : d.kind = "DROP"}
    BY <1>4 DEF Drops
  <2> QED
    BY <2>1, <2>2 DEF HasCompletion
<1> HIDE DEF l, kinds
<1>7. ASSUME NEW m \in Levels
      PROVE  /\ log'.lp[m] = IF m = l THEN [id |-> log.lp[m].id, status |-> s] ELSE log.lp[m]
             /\ log'.lp[m] \in [id : Nat, status : Statuses]
             /\ m = l => log'.lp[m].status = s
  <2>1. log.lp[m] \in [id : Nat, status : Statuses] /\ DOMAIN log.lp = Levels
    BY <1>1 DEF IsLog
  <2> QED
    BY <1>3, <1>4, <2>1
<1>8. IsLog(log')
  <2>1. DOMAIN log'.lp = Levels /\ log'.lp = [m \in DOMAIN log'.lp |-> log'.lp[m]]
    BY <1>1, <1>4 DEF IsLog
  <2>2. log'.lp \in [Levels -> [id : Nat, status : Statuses]]
    BY <1>7, <2>1
  <2> QED
    BY <1>1, <1>3, <1>4, <1>5, <1>7, <2>2 DEF IsLog
<1>9. /\ FromImports(log', job)
      /\ Distinct(log) => Distinct(log')
      /\ WantsUnbeaten(log')
      /\ \A m : Completions(log', m) \subseteq Completions(log, m)
  BY <1>1, <1>4, FewerEntries DEF WantsUnbeaten
<1>10. ASSUME Consistent(log)
       PROVE  Consistent(log')
  <2> SUFFICES ASSUME NEW m \in Levels
               PROVE  /\ \A c, d \in Completions(log', m) : c = d
                      /\ log'.lp[m].status = "COMPLETED" => HasCompletion(log', m)
                      /\ HasCompletion(log', m) =>
                             log'.lp[m].status = "COMPLETED" \/ Drops(log', m) # {}
                      /\ log'.lp[m].status = "DROPPED" => Drops(log', m) # {}
    BY DEF Consistent
  <2>1. /\ \A c, d \in Completions(log, m) : c = d
        /\ log.lp[m].status = "COMPLETED" => HasCompletion(log, m)
        /\ HasCompletion(log, m) => log.lp[m].status = "COMPLETED" \/ Drops(log, m) # {}
        /\ log.lp[m].status = "DROPPED" => Drops(log, m) # {}
    BY <1>10 DEF Consistent
  <2>2. \A c, d \in Completions(log', m) : c = d
    BY <1>9, <2>1
  <2>3. CASE m = l
    <3>1. log'.lp[m].status = s
      BY <1>7, <2>3
    <3> QED
      BY <1>3, <1>6, <2>2, <2>3, <3>1 DEF Statuses
  <2>4. CASE m # l
    <3>1. Completions(log', m) = Completions(log, m) /\ Drops(log', m) = Drops(log, m)
      BY <1>4, <2>4 DEF Completions, Drops, l
    <3> QED
      BY <1>7, <2>1, <2>4, <3>1 DEF HasCompletion
  <2> QED
    BY <2>3, <2>4
<1> QED
  BY <1>8, <1>9, <1>10, EditStep DEF DeleteUpdate, ImportInv

\* Only an unbeaten level is wanted; what is planned does not look at Want to Beat.
LEMMA WantStep ==
    ASSUME ImportInv, NEW l \in Levels, Want(l)
    PROVE  ImportInv'
<1>1. /\ DOMAIN log' = DOMAIN log
      /\ log'.lp = log.lp /\ log'.made = log.made /\ log'.entries = log.entries
      /\ log'.wanted = log.wanted \cup {l}
  BY DEF Want, ImportInv, IsLog
<1>2. IsLog(log')
  BY <1>1 DEF ImportInv, IsLog
<1>3. FromImports(log', job) /\ (Distinct(log) => Distinct(log'))
  BY <1>1 DEF ImportInv, FromImports, Distinct
<1>4. \A m : /\ Completions(log', m) = Completions(log, m)
             /\ HasCompletion(log', m) <=> HasCompletion(log, m)
             /\ Drops(log', m) = Drops(log, m)
  BY <1>1 DEF Completions, HasCompletion, Drops
<1>5. WantsUnbeaten(log') /\ (Consistent(log) => Consistent(log'))
  BY <1>1, <1>4 DEF Consistent, WantsUnbeaten, Want, ImportInv
<1>6. ASSUME NEW v \in Invocations
      PROVE  WorkerOK(inv[v], job, log')
  <2>1. WorkerOK(inv[v], job, log)
    BY DEF ImportInv
  <2>2. \A plan : PlanFits(plan, log) => PlanFits(plan, log')
    BY <1>1, <1>4 DEF PlanFits
  <2> QED
    BY <2>1, <2>2 DEF WorkerOK, WorkerFits
<1>7. edits' \in Nat
  BY DEF Want, Edit, ImportInv
<1> QED
  BY <1>2, <1>3, <1>5, <1>6, <1>7 DEF Want, ImportInv

LEMMA EditByHandStep == ImportInv /\ EditByHand => ImportInv'
BY LogCompletionStep, LogOtherStep, DeleteLevelStep, DeleteUpdateStep, WantStep DEF EditByHand

LEMMA InvNext == ImportInv /\ [Next]_vars => ImportInv'
<1> SUFFICES ASSUME ImportInv, [Next]_vars
             PROVE  ImportInv'
  OBVIOUS
<1>1. CASE job.id < MaxImports /\ \E sheet \in Sheets[job.id + 1] : Start(sheet) \/ StartUnsent(sheet)
  BY <1>1, StartStep, StartUnsentStep
<1>2. ASSUME NEW w \in Invocations, Work(w)
      PROVE  ImportInv'
  BY <1>2, DeliverStep, TakeBatchStep, PlanStep, FlushBatchStep, BumpReinvokesStep, ReinvokeStep,
     FinalPassesStep, CompleteStep, MarkFailedStep DEF Work
<1>3. ASSUME NEW w \in Invocations, Throw(w) \/ Crash(w) \/ CrashReinvoked(w) \/ Duplicate(w)
      PROVE  ImportInv'
  BY <1>3, ThrowStep, CrashStep, CrashReinvokedStep, DuplicateStep
<1>4. CASE EditByHand
  BY <1>4, EditByHandStep
<1>5. CASE UNCHANGED vars
  BY <1>5 DEF vars, ImportInv
<1> QED
  BY <1>1, <1>2, <1>3, <1>4, <1>5 DEF Next

LEMMA Invariance == Spec => []ImportInv
BY InvInit, InvNext, PTL DEF Spec

-----------------------------------------------------------------------------
(* What the import promises.                                               *)

LEMMA InvTypeOK == ImportInv => TypeOK
BY DEF ImportInv, JobOK, WorkerOK, WorkerTyped, Labels, TypeOK

\* Types: every number, label and column of the job, the log and the invocations.
THEOREM TypeCorrect == Spec => []TypeOK
BY InvTypeOK, Invariance, PTL

LEMMA InvAppliedOnce == ImportInv => AppliedOnce
<1> SUFFICES ASSUME ImportInv, ~ outdated
             PROVE  /\ job.processed = Cardinality(Settled)
                    /\ \A d, e \in log.entries :
                          d.id[1] > 0 /\ <<d.id[1], d.id[2]>> = <<e.id[1], e.id[2]>> => d = e
  BY DEF AppliedOnce
<1>1. Settled = DOMAIN job.rows \ Left(job)
  BY DEF Settled, Pending, Left
<1>2. job.processed = Cardinality(DOMAIN job.rows \ Left(job)) /\ Distinct(log)
  BY DEF ImportInv
<1> QED
  BY <1>1, <1>2 DEF Distinct

\* Whatever dies, is retried, delivered twice or sent again: no row of a sheet enters the log
\* twice and the counter is the number of rows that have an outcome, as long as no
\* invocation has flushed over what another commit had changed.
THEOREM OnceApplied == Spec => []AppliedOnce
BY InvAppliedOnce, Invariance, PTL

LEMMA InvLogConsistent == ImportInv => LogConsistent
BY DEF ImportInv, LogConsistent

\* Whatever imports and edits by hand alternate, drops of beaten levels included, nothing
\* beaten stays on Want to Beat, and under the same condition every level's completions,
\* drops and status agree.
THEOREM LogStaysConsistent == Spec => []LogConsistent
BY InvLogConsistent, Invariance, PTL

LEMMA InvCompletedIsDone == ImportInv => CompletedIsDone
BY DEF ImportInv, JobOK, CompletedIsDone, Pending, Left

\* A job that completed has no row left, however many invocations of it ran at once.
THEOREM CompletedJobsAreDone == Spec => []CompletedIsDone
BY InvCompletedIsDone, Invariance, PTL

\* An entry that a step adds to the log under a new id, if not by hand, is of the current job.
Dead ==
    \A e \in log'.entries : e \notin log.entries /\ e.id[1] > 0 /\ (\A d \in log.entries : d.id # e.id)
        => e.id[1] = job.id

LEMMA FlushDead ==
    ASSUME ImportInv, NEW w \in Invocations, FlushBatch(w)
    PROVE  Dead
<1> DEFINE plan == inv[w].plan
           batch == inv[w].batch
           ids == [i \in DOMAIN plan.new |-> <<inv[w].job, i, w>>]
<1>1. CASE Exists(w) /\ CanFlush(log, plan)
  <2>1. WorkerOK(inv[w], job, log) /\ JobOK(job) /\ IsLog(log) /\ inv[w].at = "flushing"
    BY DEF ImportInv, FlushBatch
  <2>2. inv[w].job = job.id /\ PlanTyped(plan, batch)
    BY <1>1, <2>1 DEF Exists, WorkerOK, WorkerReads
  <2>3. \A r \in DOMAIN plan.new : ids[r] = <<job.id, r, w>>
    BY <2>2
  <2>4. log' = Flushed(log, plan, ids)
    BY <1>1 DEF FlushBatch
  <2> HIDE DEF plan, batch, ids
  <2>5. ASSUME NEW e \in log'.entries
        PROVE  \/ \E d \in log.entries : e.id = d.id
               \/ \E r \in DOMAIN plan.new : e.id = ids[r]
    BY <2>1, <2>2, <2>4, <2>5, FlushedEntries
  <2> QED
    BY <2>3, <2>5 DEF Dead
<1>2. CASE ~ (Exists(w) /\ CanFlush(log, plan))
  BY <1>2 DEF FlushBatch, Dead
<1> QED
  BY <1>1, <1>2

LEMMA EditDead ==
    ASSUME ImportInv, EditByHand
    PROVE  Dead
<1>1. IsLog(log)
  BY DEF ImportInv
<1>2. ASSUME NEW l, NEW date, LogCompletion(l, date)
      PROVE  Dead
  <2> SUFFICES ASSUME NEW e \in log'.entries
               PROVE  \/ e.id[1] = 0
                      \/ \E d \in log.entries : e.id = d.id
    BY DEF Dead
  <2> DEFINE added == ByHand(l, "COMPLETION", date)
  <2>1. log'.entries = IF HasCompletion(log, l)
                       THEN {IF e0 = StoredCompletion(log, l) THEN [e0 EXCEPT !.date = date] ELSE e0 :
                               e0 \in log.entries}
                       ELSE log.entries \cup {added}
    BY <1>1, <1>2 DEF LogCompletion, WithUpdates, IsLog
  <2>2. \A d \in log.entries : DOMAIN d = EntryFields
    BY <1>1 DEF IsLog, EntryFields
  <2>3. added.id[1] = 0
    BY DEF ByHand
  <2> HIDE DEF added
  <2> QED
    BY <2>1, <2>2, <2>3 DEF EntryFields
<1>3. ASSUME NEW l, NEW date, LogProgress(l, date) \/ LogDrop(l, date)
      PROVE  Dead
  <2>1. PICK kind : log'.entries = log.entries \cup {ByHand(l, kind, date)}
    BY <1>1, <1>3 DEF LogProgress, LogDrop, WithUpdates, IsLog
  <2>2. ByHand(l, kind, date).id[1] = 0
    BY DEF ByHand
  <2> QED
    BY <2>1, <2>2 DEF Dead
<1>4. ASSUME \/ \E l : DeleteLevel(l) \/ Want(l)
             \/ \E e : DeleteUpdate(e)
      PROVE  Dead
  <2>1. ASSUME NEW l, DeleteLevel(l)
        PROVE  log'.entries \subseteq log.entries
    BY <1>1, <2>1 DEF DeleteLevel, IsLog
  <2>2. ASSUME NEW l, Want(l)
        PROVE  log'.entries \subseteq log.entries
    BY <1>1, <2>2 DEF Want, IsLog
  <2>3. ASSUME NEW e, DeleteUpdate(e)
        PROVE  log'.entries \subseteq log.entries
    <3>1. PICK s : log' = [log EXCEPT !.lp[e.level].status = s, !.entries = log.entries \ {e}]
      BY <2>3 DEF DeleteUpdate
    <3> QED
      BY <1>1, <3>1 DEF IsLog
  <2>4. log'.entries \subseteq log.entries
    BY <1>4, <2>1, <2>2, <2>3
  <2> QED
    BY <2>4 DEF Dead
<1> QED
  BY <1>2, <1>3, <1>4 DEF EditByHand

LEMMA NextDead == ImportInv /\ [Next]_vars => Dead
<1> SUFFICES ASSUME ImportInv, [Next]_vars
             PROVE  Dead
  OBVIOUS
<1>1. UNCHANGED log => Dead
  BY DEF Dead
<1>2. CASE \E sheet \in Sheets[job.id + 1] : Start(sheet) \/ StartUnsent(sheet)
  BY <1>1, <1>2 DEF Start, StartUnsent
<1>3. ASSUME NEW w \in Invocations, Work(w)
      PROVE  Dead
  BY <1>1, <1>3, FlushDead DEF Work, Deliver, TakeBatch, Plan, BumpReinvokes, Reinvoke,
     FinalPasses, Complete, MarkFailed
<1>4. ASSUME NEW w \in Invocations, Throw(w) \/ Crash(w) \/ CrashReinvoked(w) \/ Duplicate(w)
      PROVE  Dead
  BY <1>1, <1>4 DEF Throw, Crash, CrashReinvoked, Duplicate
<1>5. CASE EditByHand
  BY <1>5, EditDead
<1>6. CASE UNCHANGED vars
  BY <1>1, <1>6 DEF vars
<1> QED
  BY <1>2, <1>3, <1>4, <1>5, <1>6 DEF Next

\* A job discarded by a newer import puts nothing more into the log.
THEOREM DiscardedStayDead == Spec => DiscardedIsDead
<1>1. ImportInv /\ [Next]_vars => [Dead]_vars
  BY NextDead
<1> QED
  BY <1>1, Invariance, PTL DEF Spec, DiscardedIsDead, Dead

-----------------------------------------------------------------------------
(* What the user sees of it.                                               *)

LEMMA StartShows ==
    ASSUME NEW sheet, Start(sheet) \/ StartUnsent(sheet)
    PROVE  Status!Begin
BY DEF Start, StartUnsent, NoJob, Status!Begin

LEMMA FlushShows ==
    ASSUME ImportInv, NEW w \in Invocations, FlushBatch(w)
    PROVE  Status!Settle \/ UNCHANGED job
<1> DEFINE plan == inv[w].plan
           batch == inv[w].batch
<1> SUFFICES ASSUME Exists(w), CanFlush(log, plan)
             PROVE  Status!Settle
  BY DEF FlushBatch
<1>1. WorkerOK(inv[w], job, log) /\ JobOK(job) /\ inv[w].at = "flushing"
  BY DEF ImportInv, FlushBatch
<1>2. job.id \in Nat \ {0} /\ batch \subseteq DOMAIN job.sheet /\ PlanTyped(plan, batch)
  BY <1>1 DEF Exists, WorkerOK, WorkerTyped, WorkerReads, JobOK
<1>3. /\ job'.id = job.id /\ job'.status = job.status
      /\ job'.rows = [r \in DOMAIN job.rows |-> IF r \in batch THEN plan.out[r] ELSE job.rows[r]]
  BY <1>1 DEF FlushBatch, JobOK, JobFields
<1>4. \A r \in batch : plan.out[r] \in Outcomes \ {"pending"}
  BY <1>2 DEF PlanTyped
<1>5. \A r \in DOMAIN job.rows : job.rows[r] \in Outcomes
  BY <1>1 DEF JobOK
<1> HIDE DEF plan, batch
<1> QED
  BY <1>2, <1>3, <1>4, <1>5 DEF Status!Settle, Status!Outcomes, Outcomes

LEMMA EndShows ==
    ASSUME ImportInv, NEW w \in Invocations, Complete(w) \/ MarkFailed(w)
    PROVE  Status!Finish \/ Status!Fail \/ UNCHANGED job
<1>1. WorkerOK(inv[w], job, log) /\ JobOK(job)
  BY DEF ImportInv
<1>2. inv[w].at \in {"completing", "failing"} /\ inv[w].job \in Nat \ {0}
  BY <1>1 DEF Complete, MarkFailed, JobOK, WorkerOK, WorkerTyped
<1>3. CASE Exists(w) /\ Complete(w)
  <2>1. Left(job) = {}
    BY <1>1, <1>3 DEF Complete, Exists, WorkerOK, WorkerReads
  <2>2. Status!Unsettled = {}
    BY <2>1 DEF Status!Unsettled, Left
  <2>3. job'.id = job.id /\ job'.rows = job.rows /\ job'.status = "completed"
    BY <1>1, <1>3 DEF Complete, JobOK, JobFields
  <2> QED
    BY <1>2, <1>3, <2>2, <2>3 DEF Exists, Status!Finish
<1>4. CASE Exists(w) /\ MarkFailed(w)
  <2>1. job'.id = job.id /\ job'.rows = job.rows /\ job'.status = "failed"
    BY <1>1, <1>4 DEF MarkFailed, JobOK, JobFields
  <2> QED
    BY <1>2, <1>4, <2>1 DEF Exists, Status!Fail
<1>5. CASE ~ Exists(w)
  BY <1>5 DEF Complete, MarkFailed
<1> QED
  BY <1>3, <1>4, <1>5

LEMMA NextShows == ImportInv /\ [Next]_vars => [Status!StatusNext]_(Status!statusVars)
<1> SUFFICES ASSUME ImportInv, [Next]_vars
             PROVE  Status!StatusNext \/ UNCHANGED <<job.id, job.status, job.rows>>
  BY DEF Status!statusVars
<1>1. CASE \E sheet \in Sheets[job.id + 1] : Start(sheet) \/ StartUnsent(sheet)
  BY <1>1, StartShows DEF Status!StatusNext
<1>2. ASSUME NEW w \in Invocations, Work(w)
      PROVE  Status!StatusNext \/ UNCHANGED <<job.id, job.status, job.rows>>
  <2>1. CASE FlushBatch(w)
    BY <2>1, FlushShows DEF Status!StatusNext
  <2>2. CASE Complete(w) \/ MarkFailed(w)
    BY <2>2, EndShows DEF Status!StatusNext
  <2>3. CASE BumpReinvokes(w)
    BY <2>3 DEF BumpReinvokes, ImportInv, JobOK, JobFields
  <2>4. CASE Deliver(w) \/ TakeBatch(w) \/ Plan(w) \/ Reinvoke(w) \/ FinalPasses(w)
    BY <2>4 DEF Deliver, TakeBatch, Plan, Reinvoke, FinalPasses
  <2> QED
    BY <1>2, <2>1, <2>2, <2>3, <2>4 DEF Work
<1>3. ASSUME NEW w \in Invocations, Throw(w) \/ Crash(w) \/ CrashReinvoked(w) \/ Duplicate(w)
      PROVE  UNCHANGED job
  BY <1>3 DEF Throw, Crash, CrashReinvoked, Duplicate
<1>4. CASE EditByHand
  BY <1>4 DEF EditByHand, LogCompletion, LogProgress, LogDrop, DeleteLevel, DeleteUpdate, Want
<1>5. CASE UNCHANGED vars
  BY <1>5 DEF vars
<1> QED
  BY <1>1, <1>2, <1>3, <1>4, <1>5 DEF Next

\* The import implements what module ImportStatus promises the user who polls its status.
THEOREM ShowsImportStatus == Spec => ShowsStatus
<1>1. Init => Status!StatusInit
  BY DEF Init, NoJob, Status!StatusInit
<1> QED
  BY <1>1, NextShows, Invariance, PTL DEF Spec, ShowsStatus, Status!StatusSpec

=============================================================================
