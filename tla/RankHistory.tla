----------------------------- MODULE RankHistory -----------------------------
(***************************************************************************)
(* The rank-history panel of one level: services/activityLog/               *)
(* rankHistory.ts, read against every log the demon list can write.        *)
(*                                                                         *)
(* The walk replays the impact rows of the log into a map of indices and   *)
(* tells apart what the user did to the level (DIRECT), what moving other  *)
(* levels did to it (INDIRECT, reconstructed) and what no event explains   *)
(* (UNATTRIBUTED).                                                         *)
(***************************************************************************)
EXTENDS DemonList

VARIABLES
    erased,     \* the levels whose entry was deleted at some time
    tied        \* TRUE once two entries had equal indices

historyVars == <<entries, list, log, erased, tied>>

Tie(f) == \E a, b \in DOMAIN f : a # b /\ f[a] = f[b]

HistoryInit == Init /\ erased = {} /\ tied = Tie(list)

HistoryNext ==
    /\ Next
    /\ erased' = erased \cup (entries \ entries')
    /\ tied' = (tied \/ Tie(list'))

HistorySpec == HistoryInit /\ [][HistoryNext]_historyVars

-----------------------------------------------------------------------------
(* The walk.  A position is 0 where the code has null.                     *)

\* positionIn, and readCurrentPosition of the list itself: ties share a place.
PlaceIn(indices, l) ==
    IF l \in DOMAIN indices
    THEN 1 + Cardinality({m \in DOMAIN indices : indices[m] > indices[l]})
    ELSE 0

\* Mutant of Applied: takes the index of a row that says the level left.
AppliedBlindly(indices, rows) ==
    [m \in DOMAIN indices \cup {r.level : r \in rows} |->
        IF \E r \in rows : r.level = m
        THEN (CHOOSE r \in rows : r.level = m).index
        ELSE indices[m]]

\* applyImpacts.
Applied(indices, rows) ==
    LET left == {r.level : r \in {r \in rows : r.after = 0}}
        set  == {r \in rows : r.after # 0}
    IN  [m \in (DOMAIN indices \cup {r.level : r \in set}) \ left |->
            IF \E r \in set : r.level = m
            THEN (CHOOSE r \in set : r.level = m).index
            ELSE indices[m]]

Entry(kind, before, after) == [kind |-> kind, before |-> before, after |-> after]

\* The impact rows of the event i about l itself: one or none.
RowsFor(i, l) == {r \in log[i].rows : r.level = l}

\* The stored position wins over the one the walk held.
Missed(held, row) == row.before # 0 /\ row.before # held

\* Mutant of DriftAfter: the correction is not carried forward.
DriftForgotten(drift, before, after, row) == drift

\* The drift after the level's own row: re-anchored on what the row stored.
\* `before` and `after` are the recomputed positions.
DriftAfter(drift, before, after, row) ==
    IF 0 \notin {after, row.after} THEN row.after - after
    ELSE IF before # 0 /\ Missed(before + drift, row) THEN row.before - before
    ELSE drift

\* What the level's own row adds to the history.
OwnEntries(type, drift, before, row) ==
    (IF before # 0 /\ Missed(before + drift, row)
     THEN <<Entry("UNATTRIBUTED", before + drift, row.before)>> ELSE <<>>)
    \o (IF type = "REBALANCE" THEN <<>> ELSE <<Entry("DIRECT", row.before, row.after)>>)

\* What an event without a row of the level's own adds.
IndirectEntries(type, drift, before, after) ==
    IF type = "REBALANCE" \/ 0 \in {before, after} \/ before = after
    THEN <<>>
    ELSE <<Entry("INDIRECT", before + drift, after + drift)>>

\* The loop body of readRankHistory on the event i: what it makes of the map,
\* the drift and the entries of the walk w so far.
Visit(w, i, l) ==
    LET type    == log[i].type
        indices == Applied(w.indices, log[i].rows)
        before  == PlaceIn(w.indices, l)
        after   == PlaceIn(indices, l)
        own     == RowsFor(i, l)
        row     == CHOOSE r \in own : TRUE
    IN  IF own = {}
        THEN [indices |-> indices,
              drift   |-> w.drift,
              entries |-> w.entries \o IndirectEntries(type, w.drift, before, after)]
        ELSE [indices |-> indices,
              drift   |-> DriftAfter(w.drift, before, after, row),
              entries |-> w.entries \o OwnEntries(type, w.drift, before, row)]

\* The walk for l over the whole log.
Walk(l) ==
    LET upTo[i \in 0..Len(log)] ==
            IF i = 0
            THEN [indices |-> [m \in {} |-> 0], drift |-> 0, entries |-> <<>>]
            ELSE Visit(upTo[i - 1], i, l)
    IN  upTo[Len(log)]

\* readRankHistory, oldest first: the walk, and its last check against the list.
History(l) ==
    LET walk == Walk(l)
        now  == PlaceIn(walk.indices, l)
    IN  IF /\ \E i \in DOMAIN log : log[i] # Purged
           /\ 0 \notin {now, PlaceIn(list, l)}
           /\ now + walk.drift # PlaceIn(list, l)
        THEN Append(walk.entries, Entry("UNATTRIBUTED", now + walk.drift, PlaceIn(list, l)))
        ELSE walk.entries

-----------------------------------------------------------------------------
(* Properties.                                                             *)

\* The map the walk ends with is the demon list, save for levels whose entry was
\* deleted: their own last event is gone, so the map keeps counting them.
WalkReachesList ==
    \A l \in Levels :
        LET indices == Walk(l).indices
        IN  /\ DOMAIN list \subseteq DOMAIN indices
            /\ \A m \in DOMAIN list : indices[m] = list[m]
            /\ DOMAIN indices \ DOMAIN list \subseteq erased

\* docs/EVENT_LOG.md: a shift is never lost.  Whatever was deleted meanwhile, each
\* entry of a level's history starts at the position where the one before it
\* ended, and the last ends at the position the level has now.
HistoryContinuous ==
    ~ tied => \A l \in Levels \ erased :
        LET history == History(l)
        IN  /\ \A i \in 1..(Len(history) - 1) : history[i].after = history[i + 1].before
            /\ history # <<>> => history[Len(history)].after = PlaceIn(list, l)
=============================================================================
