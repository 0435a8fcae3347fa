------------------------------ MODULE DemonList ------------------------------
(***************************************************************************)
(* The classic demon list of one user, with the part of the activity log   *)
(* that records it: services/demonList/index.ts, services/activityLog/     *)
(* index.ts, utils/fractionalIndex.ts, the ranking half of the import, and *)
(* what the progress handlers do to the list.  Which entries may be placed  *)
(* and when an entry leaves is module Progress's part.                     *)
(*                                                                         *)
(* A list row carries a fractional index; the list is read by index,       *)
(* highest (hardest) first.  An entry is inserted by bisecting the gap of  *)
(* the two entries the client drops it between, and the whole list is      *)
(* renumbered first when that gap is too small.  Every write of an index   *)
(* must leave an event with the new index behind, in the same transaction. *)
(*                                                                         *)
(* One action is one committed transaction.                                *)
(***************************************************************************)
EXTENDS Integers, Sequences, FiniteSets

CONSTANTS
    Levels,     \* the levels of the shared cache
    NoLevel,    \* an omitted aboveId or belowId; the levelId of a list-wide event
    One,        \* the integer 1 in index units (10^10 units for Decimal(20,10))
    Gap,        \* REBALANCE_GAP in index units
    Baselines,  \* the lists users had when the log was introduced
    MaxEvents   \* bound on the length of the log

ASSUME LevelsAssumption == IsFiniteSet(Levels) /\ NoLevel \notin Levels

ASSUME IndexAssumption == /\ One \in Nat
                          /\ Gap \in Nat
                          /\ Gap >= 2
                          /\ One >= Gap

ASSUME BaselinesAssumption ==
    \A f \in Baselines : DOMAIN f \subseteq Levels /\ f \in [DOMAIN f -> Int]

ASSUME MaxEventsAssumption == MaxEvents \in Nat \ {0}

VARIABLES
    entries,    \* the levels with a level_progress row
    list,       \* classic_demon_list: listIndex per placed level
    log         \* the ranking events, in `sequence` order

vars == <<entries, list, log>>

-----------------------------------------------------------------------------
(* Indices.  All of them are in units of the last digit the column keeps.  *)

\* bisectIndices of two bounds: their mean, rounded half away from zero when
\* the column stores it.
Bisect(lower, higher) ==
    LET sum == lower + higher
    IN  IF sum >= 0 THEN (sum + 1) \div 2 ELSE sum \div 2

\* The drop between `above` (harder, the higher index) and `below`.
NewIndex(f, above, below) ==
    IF above # NoLevel /\ below # NoLevel THEN Bisect(f[below], f[above])
    ELSE IF below # NoLevel THEN f[below] + One
    ELSE IF above # NoLevel THEN f[above] - One
    ELSE One

\* Mutant of TooTight: only a closed gap is too tight.
TooTightLate(f, above, below) ==
    /\ above # NoLevel
    /\ below # NoLevel
    /\ f[above] - f[below] < 1

\* gapTooTight.
TooTight(f, above, below) ==
    /\ above # NoLevel
    /\ below # NoLevel
    /\ f[above] - f[below] < Gap

\* What neighbourIndex and computeIndex refuse.
NeighboursValid(f, above, below) ==
    /\ above \in DOMAIN f \cup {NoLevel}
    /\ below \in DOMAIN f \cup {NoLevel}
    /\ above # NoLevel /\ below # NoLevel => f[above] > f[below]

Put(f, l, x) == [m \in DOMAIN f \cup {l} |-> IF m = l THEN x ELSE f[m]]

Without(f, l) == [m \in DOMAIN f \ {l} |-> f[m]]

-----------------------------------------------------------------------------
(* Readings of the list.                                                   *)

\* The orders in which the rows of a list S can come back.
Orders == [S \in SUBSET Levels |->
              {p \in [S -> 1..Cardinality(S)] : \A a, b \in S : p[a] = p[b] => a = b}]

\* readRankingSnapshot: the position of each entry, by index descending.  Rows
\* with equal indices come back in any order.
Standings(f) ==
    {p \in Orders[DOMAIN f] : \A a, b \in DOMAIN f : f[a] > f[b] => p[a] < p[b]}

\* Mutant of Numbered: the hardest entry gets 1.
NumberedUpwards(p) == [m \in DOMAIN p |-> p[m] * One]

\* Whole numbers, N for the hardest entry to 1 for the easiest: what both the
\* renormalisation and the import write for the order p.
Numbered(p) ==
    [m \in DOMAIN p |-> (Cardinality(DOMAIN p) + 1 - p[m]) * One]

-----------------------------------------------------------------------------
(* Events.  A row's position is 0 where the code stores null.              *)

\* A purged event keeps its place, so that `sequence` is the place in the log.
Purged == [type |-> "PURGED", level |-> NoLevel, rows |-> {}]

PositionIn(p, m) == IF m \in DOMAIN p THEN p[m] ELSE 0

\* Mutant of ImpactRows: the reading before the write wins.
ImpactRowsBefore(S, f, p, g, q) ==
    {[level  |-> m,
      index  |-> IF m \in DOMAIN f THEN f[m] ELSE g[m],
      before |-> PositionIn(p, m),
      after  |-> PositionIn(q, m)] : m \in S}

\* impactRow, for each level of S: the list f in order p became g in order q.
ImpactRows(S, f, p, g, q) ==
    {[level  |-> m,
      index  |-> IF m \in DOMAIN g THEN g[m] ELSE f[m],
      before |-> PositionIn(p, m),
      after  |-> PositionIn(q, m)] : m \in S}

ImmediateNeighbours(p, m) ==
    {n \in DOMAIN p : m \in DOMAIN p /\ p[n] \in {p[m] - 1, p[m] + 1}}

MoveEvent(type, m, f, p, g, q) ==
    LET named == {m} \cup ImmediateNeighbours(p, m) \cup ImmediateNeighbours(q, m)
    IN  [type |-> type, level |-> m, rows |-> ImpactRows(named, f, p, g, q)]

ListWideEvent(type, f, p, g, q) ==
    [type  |-> type, level |-> NoLevel,
     rows  |-> ImpactRows(DOMAIN f \cup DOMAIN g, f, p, g, q)]

\* recordRankingMove around the write that turns list f into g, after lg.
RecordMove(type, m, f, g, lg) ==
    \E p \in Standings(f), q \in Standings(g) :
        log' = Append(lg, MoveEvent(type, m, f, p, g, q))

\* What `rebalance` can leave: the rows are renumbered in the order r of a
\* reading of their own, between the two readings of the event.
Rebalances ==
    UNION {{[list |-> Numbered(r),
             log  |-> Append(log, ListWideEvent("REBALANCE", list, p, Numbered(r), q))] :
               p \in Standings(list), q \in Standings(Numbered(r))} :
            r \in Standings(list)}

\* What computeIndex leaves of the list and the log before it bisects.
Settled(above, below) ==
    IF TooTight(list, above, below) THEN Rebalances ELSE {[list |-> list, log |-> log]}

-----------------------------------------------------------------------------
(* Actions.                                                                *)

\* A list from before the log starts with a baseline event for all of it
\* (migration rank_history_baseline); a new user has neither.
Init ==
    /\ list \in Baselines
    /\ entries = DOMAIN list
    /\ IF entries = {}
       THEN log = <<>>
       ELSE \E p \in Standings(list) :
               log = <<ListWideEvent("REBALANCE", list, p, list, p)>>

\* The bound on the log: an event is only added to one of fewer than MaxEvents.
Room(lg) == Len(lg) < MaxEvents

\* Move l to the gap between above and below, renumbering first if it must.
Land(type, l, above, below) ==
    \E s \in Settled(above, below) :
        /\ Room(s.log)
        /\ list' = Put(s.list, l, NewIndex(s.list, above, below))
        /\ RecordMove(type, l, s.list, list', s.log)

\* placeCompletion, for an entry that may be placed.
Place(l, above, below) ==
    /\ l \in entries \ DOMAIN list
    /\ NeighboursValid(list, above, below)
    /\ Room(log)
    /\ Land("PLACEMENT", l, above, below)
    /\ UNCHANGED entries

\* reorderEntry.
Reorder(l, above, below) ==
    /\ l \in DOMAIN list
    /\ l \notin {above, below}
    /\ NeighboursValid(list, above, below)
    /\ Room(log)
    /\ Land("REORDER", l, above, below)
    /\ UNCHANGED entries

\* Mutant of Unplace: the row goes without an event.
UnplaceSilently(l) ==
    /\ l \in DOMAIN list
    /\ list' = Without(list, l)
    /\ UNCHANGED <<entries, log>>

\* unplaceEntry, and what deleteProgressUpdate does to the list when an entry is
\* no longer completed: delete l's row and record the removal.
Unplace(l) ==
    /\ l \in DOMAIN list
    /\ Room(log)
    /\ list' = Without(list, l)
    /\ RecordMove("REMOVED", l, list, list', log)
    /\ UNCHANGED entries

\* commitImportRanking: the sheet's entries S, in its order p, replace the list.
BulkReplace(S, p) ==
    /\ Room(log)
    /\ S # {}
    /\ S \subseteq entries
    /\ p \in Orders[S]
    /\ list' = Numbered(p)
    /\ \E q \in Standings(list), r \in Standings(list') :
            log' = Append(log, ListWideEvent("BULK_REPLACE", list, q, list', r))
    /\ UNCHANGED entries

\* findOrCreateLevelProgress, of an entry that does not exist yet.
CreateEntry(l) ==
    /\ l \notin entries
    /\ entries' = entries \cup {l}
    /\ UNCHANGED <<list, log>>

\* Mutant of DeleteEntry: the list row does not go with the entry.
DeleteEntryOnly(l) ==
    /\ l \in entries
    /\ entries' = entries \ {l}
    /\ log' = [i \in DOMAIN log |-> IF log[i].level = l THEN Purged ELSE log[i]]
    /\ UNCHANGED list

\* purgeLevelActivity, then the entry with the list row that hangs on it.
DeleteEntry(l) ==
    /\ l \in entries
    /\ entries' = entries \ {l}
    /\ list' = Without(list, l)
    /\ log' = [i \in DOMAIN log |-> IF log[i].level = l THEN Purged ELSE log[i]]

Next ==
    \/ \E l \in Levels, above, below \in Levels \cup {NoLevel} :
          Place(l, above, below) \/ Reorder(l, above, below)
    \/ \E S \in SUBSET Levels : \E p \in Orders[S] : BulkReplace(S, p)
    \/ \E l \in Levels : Unplace(l) \/ CreateEntry(l) \/ DeleteEntry(l)

Spec == Init /\ [][Next]_vars

-----------------------------------------------------------------------------
(* Properties.                                                             *)

ImpactRow == [level : Levels, index : Int, before : Nat, after : Nat]

Events == [type  : {"PLACEMENT", "REORDER", "REMOVED", "BULK_REPLACE", "REBALANCE", "PURGED"},
           level : Levels \cup {NoLevel},
           rows  : SUBSET ImpactRow]

\* Every variable holds a value of its column, and a list row hangs on an entry.
TypeOK ==
    /\ entries \subseteq Levels
    /\ DOMAIN list \subseteq entries
    /\ list \in [DOMAIN list -> Int]
    /\ log \in Seq(Events)

\* What an event's impact rows say about l, if there are any.
Names(event, l) == \E r \in event.rows : r.level = l
Says(event, l, index) ==
    \A r \in event.rows : r.level = l => r.index = index /\ r.after > 0

Naming(l) == {i \in DOMAIN log : Names(log[i], l)}

\* docs/DEMON_LIST.md: every placed entry's current index is the most recent one
\* logged for that level.  No order of placements, renumberings, imports and
\* deletions of other entries, whose events are purged, leaves a hole.
FullyLogged ==
    \A l \in DOMAIN list :
        /\ Naming(l) # {}
        /\ \A i \in Naming(l) :
              (\A j \in Naming(l) : j <= i) => Says(log[i], l, list[l])

\* The event i of lg carries the index of l in f, stands as long as l's own entry
\* does, and no later event says otherwise.
Anchors(f, lg, i, l) ==
    /\ Names(lg[i], l)
    /\ lg[i].level \in {l, NoLevel}
    /\ \A j \in DOMAIN lg : j >= i => Says(lg[j], l, f[l])

AnchoredIn(f, lg) == \A l \in DOMAIN f : \E i \in DOMAIN lg : Anchors(f, lg, i, l)

\* The inductive reason for FullyLogged: what purgeLevelActivity deletes for
\* another level is never the event a placed level's index rests on.
Anchored == AnchoredIn(list, log)

\* Between two entries that stay, no request but the import changes which is
\* harder, except for the entry it logs as moved: a renumbering keeps the order
\* of the others, and an insertion disturbs nobody.
Moved == {log'[i].level : i \in DOMAIN log' \ DOMAIN log}

KeepsOrder ==
    \/ \E i \in DOMAIN log' \ DOMAIN log : log'[i].type = "BULK_REPLACE"
    \/ \A a, b \in (DOMAIN list \cap DOMAIN list') \ Moved :
          list[a] > list[b] => list'[a] > list'[b]

OrderKept == [][KeepsOrder]_vars

\* A drop lands strictly between the entries it was dropped between, in the
\* coordinates the list has afterwards, however small the gap was.
DropsBetween ==
    \A l \in Levels, above, below \in Levels \cup {NoLevel} :
        Place(l, above, below) \/ Reorder(l, above, below) =>
            /\ above # NoLevel => list'[above] > list'[l]
            /\ below # NoLevel => list'[l] > list'[below]

LandsBetween == [][DropsBetween]_vars

\* A level leaves the list with an event that says so, or with its whole entry.
LeavesOnRecord ==
    [][ \A l \in DOMAIN list \ DOMAIN list' :
          \/ l \notin entries'
          \/ \E i \in DOMAIN log' \ DOMAIN log : \E r \in log'[i].rows :
                r.level = l /\ r.after = 0 ]_vars
=============================================================================
