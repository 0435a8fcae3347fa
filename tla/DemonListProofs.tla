--------------------------- MODULE DemonListProofs ---------------------------
(***************************************************************************)
(* What holds of the demon list, its log and the history read from it, for  *)
(* any number of levels, any index units and a log of any length.          *)
(***************************************************************************)
EXTENDS RankHistory, FiniteSetTheorems, SequenceTheorems, TLAPS

-----------------------------------------------------------------------------
(* Orders and readings of a list.                                          *)

\* A set of levels is finite, so its size is a number.
LEMMA Sizes ==
    ASSUME NEW S \in SUBSET Levels
    PROVE  Cardinality(S) \in Nat
BY LevelsAssumption, FS_Subset, FS_CardinalityType

\* A position is a number from 1 on.
LEMMA OrderType ==
    ASSUME NEW S \in SUBSET Levels, NEW p \in Orders[S]
    PROVE  /\ DOMAIN p = S
           /\ \A m \in S : p[m] \in Nat /\ p[m] >= 1 /\ p[m] <= Cardinality(S)
<1>1. p \in [S -> 1..Cardinality(S)]
  BY DEF Orders
<1> QED
  BY <1>1, Sizes

\* Reading a list gives a position to each of its levels, by index descending.
LEMMA StandingType ==
    ASSUME NEW f, DOMAIN f \subseteq Levels, NEW p \in Standings(f)
    PROVE  /\ DOMAIN p = DOMAIN f
           /\ \A m \in DOMAIN f : p[m] \in Nat /\ p[m] >= 1 /\ p[m] <= Cardinality(DOMAIN f)
           /\ \A a, b \in DOMAIN f : f[a] > f[b] => p[a] < p[b]
BY OrderType DEF Standings

\* Renumbering gives whole numbers to the same levels.
LEMMA NumberedType ==
    ASSUME NEW S \in SUBSET Levels, NEW p \in Orders[S]
    PROVE  Numbered(p) \in [S -> Int]
BY OrderType, Sizes, IndexAssumption DEF Numbered

-----------------------------------------------------------------------------
(* Indices.                                                                *)

\* The rounded mean of two bounds that are two units apart lies between them.
LEMMA BisectBetween ==
    ASSUME NEW lower \in Int, NEW higher \in Int, higher - lower >= 2
    PROVE  /\ Bisect(lower, higher) \in Int
           /\ lower < Bisect(lower, higher)
           /\ Bisect(lower, higher) < higher
BY DEF Bisect

\* An index computed from a list of integers is an integer.
LEMMA NewIndexType ==
    ASSUME NEW S, NEW f \in [S -> Int],
           NEW above \in S \cup {NoLevel}, NEW below \in S \cup {NoLevel}
    PROVE  NewIndex(f, above, below) \in Int
BY IndexAssumption DEF NewIndex, Bisect

-----------------------------------------------------------------------------
(* Events.                                                                 *)

\* The rows of an event are impact rows.
LEMMA ImpactRowsType ==
    ASSUME NEW F \in SUBSET Levels, NEW f \in [F -> Int], NEW p \in Standings(f),
           NEW G \in SUBSET Levels, NEW g \in [G -> Int], NEW q \in Standings(g),
           NEW S \in SUBSET (F \cup G)
    PROVE  ImpactRows(S, f, p, g, q) \in SUBSET ImpactRow
<1>1. \A m \in Levels : PositionIn(p, m) \in Nat /\ PositionIn(q, m) \in Nat
  BY StandingType DEF PositionIn
<1> QED
  BY <1>1 DEF ImpactRows, ImpactRow

\* The neighbours of a level are entries of the list.
LEMMA NeighboursType ==
    ASSUME NEW f, DOMAIN f \subseteq Levels, NEW p \in Standings(f), NEW m
    PROVE  ImmediateNeighbours(p, m) \subseteq DOMAIN f
BY StandingType DEF ImmediateNeighbours

\* A move's event.
LEMMA MoveEventType ==
    ASSUME NEW F \in SUBSET Levels, NEW f \in [F -> Int], NEW p \in Standings(f),
           NEW G \in SUBSET Levels, NEW g \in [G -> Int], NEW q \in Standings(g),
           NEW m \in F \cup G, NEW type \in {"PLACEMENT", "REORDER", "REMOVED"}
    PROVE  MoveEvent(type, m, f, p, g, q) \in Events
<1> DEFINE named == {m} \cup ImmediateNeighbours(p, m) \cup ImmediateNeighbours(q, m)
<1>1. named \in SUBSET (F \cup G)
  BY NeighboursType
<1>2. ImpactRows(named, f, p, g, q) \in SUBSET ImpactRow
  BY <1>1, ImpactRowsType
<1> QED
  BY <1>2 DEF MoveEvent, Events

\* The event of a rewrite of the whole list.
LEMMA ListWideEventType ==
    ASSUME NEW F \in SUBSET Levels, NEW f \in [F -> Int], NEW p \in Standings(f),
           NEW G \in SUBSET Levels, NEW g \in [G -> Int], NEW q \in Standings(g),
           NEW type \in {"BULK_REPLACE", "REBALANCE"}
    PROVE  ListWideEvent(type, f, p, g, q) \in Events
<1>1. ImpactRows(F \cup G, f, p, g, q) \in SUBSET ImpactRow
  BY ImpactRowsType
<1> QED
  BY <1>1 DEF ListWideEvent, Events

-----------------------------------------------------------------------------
(* Type correctness.                                                       *)

\* What a renumbering may leave.
LEMMA RebalanceType ==
    ASSUME TypeOK, NEW s \in Rebalances
    PROVE  /\ s.list \in [DOMAIN list -> Int]
           /\ s.log \in Seq(Events)
           /\ \E r \in Standings(list), p \in Standings(list) : \E q \in Standings(s.list) :
                 /\ s.list = Numbered(r)
                 /\ s.log = Append(log, ListWideEvent("REBALANCE", list, p, s.list, q))
<1> DEFINE F == DOMAIN list
<1>1. F \in SUBSET Levels /\ list \in [F -> Int]
  BY DEF TypeOK
<1>2. PICK r \in Standings(list), p \in Standings(list) : \E q \in Standings(Numbered(r)) :
         s = [list |-> Numbered(r),
              log  |-> Append(log, ListWideEvent("REBALANCE", list, p, Numbered(r), q))]
  BY DEF Rebalances
<1>3. Numbered(r) \in [F -> Int]
  BY <1>1, NumberedType DEF Standings
<1>4. PICK q \in Standings(Numbered(r)) :
         s = [list |-> Numbered(r),
              log  |-> Append(log, ListWideEvent("REBALANCE", list, p, Numbered(r), q))]
  BY <1>2
<1>5. ListWideEvent("REBALANCE", list, p, Numbered(r), q) \in Events
  BY <1>1, <1>3, ListWideEventType
<1> QED
  BY <1>3, <1>4, <1>5 DEF TypeOK

\* The list computeIndex bisects is one of integers, over the same levels.
LEMMA SettledType ==
    ASSUME TypeOK, NEW above, NEW below, NEW s \in Settled(above, below)
    PROVE  s.list \in [DOMAIN list -> Int] /\ s.log \in Seq(Events)
<1>1. CASE TooTight(list, above, below)
  BY <1>1, RebalanceType DEF Settled
<1>2. CASE ~ TooTight(list, above, below)
  BY <1>2 DEF Settled, TypeOK
<1> QED
  BY <1>1, <1>2

\* A drop leaves a well-typed list and log.
LEMMA LandType ==
    ASSUME TypeOK, NEW l \in entries, NEW above, NEW below,
           NeighboursValid(list, above, below),
           NEW type \in {"PLACEMENT", "REORDER", "REMOVED"},
           Land(type, l, above, below), UNCHANGED entries
    PROVE  TypeOK'
<1> DEFINE F == DOMAIN list
           G == F \cup {l}
<1>1. PICK s \in Settled(above, below) :
         /\ list' = Put(s.list, l, NewIndex(s.list, above, below))
         /\ RecordMove(type, l, s.list, list', s.log)
  BY DEF Land
<1>2. s.list \in [F -> Int] /\ s.log \in Seq(Events) /\ F \in SUBSET Levels /\ G \in SUBSET Levels
  BY SettledType DEF TypeOK
<1>3. NewIndex(s.list, above, below) \in Int
  BY <1>2, NewIndexType DEF NeighboursValid
<1>4. list' \in [G -> Int]
  BY <1>1, <1>2, <1>3 DEF Put
<1>5. PICK p \in Standings(s.list), q \in Standings(list') :
         log' = Append(s.log, MoveEvent(type, l, s.list, p, list', q))
  BY <1>1 DEF RecordMove
<1>6. MoveEvent(type, l, s.list, p, list', q) \in Events
  BY <1>2, <1>4, MoveEventType
<1>7. log' \in Seq(Events)
  BY <1>2, <1>5, <1>6
<1> QED
  BY <1>4, <1>7 DEF TypeOK

\* The initial states are well-typed.
LEMMA InitType == Init => TypeOK
<1> SUFFICES ASSUME Init PROVE TypeOK
  OBVIOUS
<1>1. DOMAIN list \in SUBSET Levels /\ list \in [DOMAIN list -> Int] /\ entries = DOMAIN list
  BY BaselinesAssumption DEF Init
<1>2. log \in Seq(Events)
  <2>1. CASE entries = {}
    BY <2>1 DEF Init
  <2>2. CASE entries # {}
    <3>1. PICK p \in Standings(list) : log = <<ListWideEvent("REBALANCE", list, p, list, p)>>
      BY <2>2 DEF Init
    <3>2. ListWideEvent("REBALANCE", list, p, list, p) \in Events
      BY <1>1, ListWideEventType
    <3> QED
      BY <3>1, <3>2
  <2> QED
    BY <2>1, <2>2
<1> QED
  BY <1>1, <1>2 DEF TypeOK

\* Every step keeps the types.
LEMMA StepType == TypeOK /\ [Next]_vars => TypeOK'
<1> SUFFICES ASSUME TypeOK, [Next]_vars PROVE TypeOK'
  OBVIOUS
<1>1. ASSUME NEW l \in Levels, NEW above, NEW below, Place(l, above, below)
      PROVE  TypeOK'
  BY <1>1, LandType DEF Place
<1>2. ASSUME NEW l \in Levels, NEW above, NEW below, Reorder(l, above, below)
      PROVE  TypeOK'
  <2>1. l \in entries
    BY <1>2 DEF Reorder, TypeOK
  <2> QED
    BY <1>2, <2>1, LandType DEF Reorder
<1>3. ASSUME NEW l \in Levels, Unplace(l)
      PROVE  TypeOK'
  <2> DEFINE F == DOMAIN list
             G == F \ {l}
  <2>1. F \in SUBSET Levels /\ G \in SUBSET Levels /\ list \in [F -> Int] /\ list' \in [G -> Int]
    BY <1>3 DEF TypeOK, Unplace, Without
  <2>2. PICK p \in Standings(list), q \in Standings(list') :
           log' = Append(log, MoveEvent("REMOVED", l, list, p, list', q))
    BY <1>3 DEF Unplace, RecordMove
  <2>3. MoveEvent("REMOVED", l, list, p, list', q) \in Events
    BY <1>3, <2>1, MoveEventType DEF Unplace
  <2> QED
    BY <1>3, <2>1, <2>2, <2>3 DEF TypeOK, Unplace
<1>4. ASSUME NEW S \in SUBSET Levels, NEW p \in Orders[S], BulkReplace(S, p)
      PROVE  TypeOK'
  <2>1. list' \in [S -> Int] /\ DOMAIN list \in SUBSET Levels /\ list \in [DOMAIN list -> Int]
    BY <1>4, NumberedType DEF BulkReplace, TypeOK
  <2>2. PICK q \in Standings(list), r \in Standings(list') :
           log' = Append(log, ListWideEvent("BULK_REPLACE", list, q, list', r))
    BY <1>4 DEF BulkReplace
  <2>3. ListWideEvent("BULK_REPLACE", list, q, list', r) \in Events
    BY <2>1, ListWideEventType
  <2> QED
    BY <1>4, <2>1, <2>2, <2>3 DEF TypeOK, BulkReplace
<1>5. ASSUME NEW l \in Levels, CreateEntry(l)
      PROVE  TypeOK'
  BY <1>5 DEF CreateEntry, TypeOK
<1>6. ASSUME NEW l \in Levels, DeleteEntry(l)
      PROVE  TypeOK'
  <2>1. Purged \in Events
    BY DEF Purged, Events
  <2>2. log' \in Seq(Events)
    BY <1>6, <2>1 DEF DeleteEntry, TypeOK
  <2> QED
    BY <1>6, <2>2 DEF DeleteEntry, TypeOK, Without
<1>7. CASE UNCHANGED vars
  BY <1>7 DEF vars, TypeOK
<1> QED
  BY <1>1, <1>2, <1>3, <1>4, <1>5, <1>6, <1>7 DEF Next

\* The list and the log are well-typed in every reachable state.
THEOREM TypeCorrect == Spec => []TypeOK
BY InitType, StepType, PTL DEF Spec
-----------------------------------------------------------------------------
(* The log keeps the index of every placed entry.                          *)

\* The event e accounts for the list g that replaces f: it anchors a level, or
\* leaves its index alone and says so.
Accounts(e, f, g) ==
    \A l \in DOMAIN g :
        /\ Says(e, l, g[l])
        /\ \/ Names(e, l) /\ e.level \in {l, NoLevel}
           \/ l \in DOMAIN f /\ f[l] = g[l]

\* Appending such an event keeps every level anchored.
LEMMA AppendAnchors ==
    ASSUME NEW f, NEW g, NEW lg \in Seq(Events), NEW e \in Events,
           AnchoredIn(f, lg), Accounts(e, f, g)
    PROVE  AnchoredIn(g, Append(lg, e))
<1> DEFINE new == Append(lg, e)
           n   == Len(lg) + 1
<1>1. /\ DOMAIN lg \subseteq Nat
      /\ DOMAIN new = DOMAIN lg \cup {n}
      /\ new[n] = e
      /\ \A i \in DOMAIN lg : new[i] = lg[i] /\ i < n
      /\ n \in Nat
  OBVIOUS
<1>2. SUFFICES ASSUME NEW l \in DOMAIN g
               PROVE  \E i \in DOMAIN new : Anchors(g, new, i, l)
  BY DEF AnchoredIn
<1> HIDE DEF new, n
<1>3. CASE Names(e, l) /\ e.level \in {l, NoLevel}
  <2>1. n \in DOMAIN new /\ \A j \in DOMAIN new : j >= n => j = n
    BY <1>1
  <2> QED
    BY <1>1, <1>3, <2>1 DEF Anchors, Accounts
<1>4. CASE l \in DOMAIN f /\ f[l] = g[l]
  <2>1. PICK i \in DOMAIN lg : Anchors(f, lg, i, l)
    BY <1>4 DEF AnchoredIn
  <2>2. ASSUME NEW j \in DOMAIN new, j >= i PROVE Says(new[j], l, g[l])
    <3>1. CASE j \in DOMAIN lg
      BY <1>1, <1>4, <2>1, <2>2, <3>1 DEF Anchors
    <3>2. CASE j \notin DOMAIN lg
      <4>1. j = n
        BY <1>1, <3>2
      <4> QED
        BY <1>1, <4>1 DEF Accounts
    <3> QED
      BY <3>1, <3>2
  <2>3. i \in DOMAIN new /\ new[i] = lg[i]
    BY <1>1
  <2> QED
    BY <2>1, <2>2, <2>3 DEF Anchors
<1> QED
  BY <1>3, <1>4 DEF Accounts

\* A row for a level of the list g carries its index there and a position.
LEMMA RowsSay ==
    ASSUME NEW f, NEW p, NEW g, DOMAIN g \subseteq Levels, NEW q \in Standings(g),
           NEW S, NEW r \in ImpactRows(S, f, p, g, q), r.level \in DOMAIN g
    PROVE  r.index = g[r.level] /\ r.after > 0
BY StandingType DEF ImpactRows, PositionIn

\* There is a row for each level asked for.
LEMMA RowsName ==
    ASSUME NEW S, NEW m \in S, NEW f, NEW p, NEW g, NEW q
    PROVE  \E r \in ImpactRows(S, f, p, g, q) : r.level = m
<1> DEFINE r == [level  |-> m,
                 index  |-> IF m \in DOMAIN g THEN g[m] ELSE f[m],
                 before |-> PositionIn(p, m),
                 after  |-> PositionIn(q, m)]
<1>1. r \in ImpactRows(S, f, p, g, q)
  BY DEF ImpactRows
<1>2. r.level = m
  OBVIOUS
<1> QED
  BY <1>1, <1>2

\* A move's event accounts for a list that differs only at the mover.
LEMMA MoveAccounts ==
    ASSUME NEW f, DOMAIN f \subseteq Levels, NEW p \in Standings(f),
           NEW g, DOMAIN g \subseteq Levels, NEW q \in Standings(g),
           NEW m, NEW type,
           \A l \in DOMAIN g \ {m} : l \in DOMAIN f /\ f[l] = g[l]
    PROVE  Accounts(MoveEvent(type, m, f, p, g, q), f, g)
<1> DEFINE e == MoveEvent(type, m, f, p, g, q)
           S == {m} \cup ImmediateNeighbours(p, m) \cup ImmediateNeighbours(q, m)
<1>1. e.rows = ImpactRows(S, f, p, g, q) /\ e.level = m
  BY DEF MoveEvent
<1>2. \A l \in DOMAIN g : Says(e, l, g[l])
  BY <1>1, RowsSay DEF Says
<1>3. Names(e, m)
  BY <1>1, RowsName DEF Names
<1> QED
  BY <1>1, <1>2, <1>3 DEF Accounts

\* The event of a rewrite of the whole list accounts for it.
LEMMA ListWideAccounts ==
    ASSUME NEW f, DOMAIN f \subseteq Levels, NEW p \in Standings(f),
           NEW g, DOMAIN g \subseteq Levels, NEW q \in Standings(g), NEW type
    PROVE  Accounts(ListWideEvent(type, f, p, g, q), f, g)
<1> DEFINE e == ListWideEvent(type, f, p, g, q)
<1>1. e.rows = ImpactRows(DOMAIN f \cup DOMAIN g, f, p, g, q) /\ e.level = NoLevel
  BY DEF ListWideEvent
<1>2. \A l \in DOMAIN g : Says(e, l, g[l])
  BY <1>1, RowsSay DEF Says
<1>3. \A l \in DOMAIN g : Names(e, l)
  BY <1>1, RowsName DEF Names
<1> QED
  BY <1>1, <1>2, <1>3 DEF Accounts

\* Computing an index keeps every level anchored, renumbering or not.
LEMMA SettledAnchored ==
    ASSUME TypeOK, Anchored, NEW above, NEW below, NEW s \in Settled(above, below)
    PROVE  AnchoredIn(s.list, s.log)
<1>1. CASE TooTight(list, above, below)
  <2>1. s \in Rebalances
    BY <1>1 DEF Settled
  <2>2. PICK r \in Standings(list), p \in Standings(list) : \E q \in Standings(s.list) :
           /\ s.list = Numbered(r)
           /\ s.log = Append(log, ListWideEvent("REBALANCE", list, p, s.list, q))
    BY <2>1, RebalanceType
  <2>3. PICK q \in Standings(s.list) :
           s.log = Append(log, ListWideEvent("REBALANCE", list, p, s.list, q))
    BY <2>2
  <2>4. DOMAIN list \subseteq Levels /\ s.list \in [DOMAIN list -> Int] /\ list \in [DOMAIN list -> Int]
    BY <2>1, RebalanceType DEF TypeOK
  <2>5. ListWideEvent("REBALANCE", list, p, s.list, q) \in Events
    BY <2>4, ListWideEventType
  <2>6. Accounts(ListWideEvent("REBALANCE", list, p, s.list, q), list, s.list)
    BY <2>4, ListWideAccounts
  <2> QED
    BY <2>3, <2>5, <2>6, AppendAnchors DEF TypeOK, Anchored
<1>2. CASE ~ TooTight(list, above, below)
  BY <1>2 DEF Settled, Anchored
<1> QED
  BY <1>1, <1>2

\* A drop keeps every level anchored.
LEMMA LandAnchored ==
    ASSUME TypeOK, Anchored, NEW l \in entries, NEW above, NEW below,
           NeighboursValid(list, above, below),
           NEW type \in {"PLACEMENT", "REORDER", "REMOVED"},
           Land(type, l, above, below)
    PROVE  Anchored'
<1> DEFINE F == DOMAIN list
           G == F \cup {l}
<1>1. PICK s \in Settled(above, below) :
         /\ list' = Put(s.list, l, NewIndex(s.list, above, below))
         /\ RecordMove(type, l, s.list, list', s.log)
  BY DEF Land
<1>2. s.list \in [F -> Int] /\ s.log \in Seq(Events) /\ F \in SUBSET Levels /\ G \in SUBSET Levels
  BY SettledType DEF TypeOK
<1>3. list' \in [G -> Int]
  BY <1>1, <1>2, NewIndexType DEF Put, NeighboursValid
<1>4. PICK p \in Standings(s.list), q \in Standings(list') :
         log' = Append(s.log, MoveEvent(type, l, s.list, p, list', q))
  BY <1>1 DEF RecordMove
<1>5. MoveEvent(type, l, s.list, p, list', q) \in Events
  BY <1>2, <1>3, MoveEventType
<1>6. \A m \in DOMAIN list' \ {l} : m \in DOMAIN s.list /\ s.list[m] = list'[m]
  BY <1>1, <1>2, <1>3 DEF Put
<1>7. Accounts(MoveEvent(type, l, s.list, p, list', q), s.list, list')
  BY <1>2, <1>3, <1>6, MoveAccounts
<1>8. AnchoredIn(s.list, s.log)
  BY SettledAnchored
<1> QED
  BY <1>2, <1>4, <1>5, <1>7, <1>8, AppendAnchors DEF Anchored

\* A new user has nothing placed, and a baseline event names all an old one has.
LEMMA InitAnchored == Init => Anchored
<1> SUFFICES ASSUME Init, entries # {} PROVE Anchored
  BY DEF Init, Anchored, AnchoredIn
<1>1. PICK p \in Standings(list) : log = <<ListWideEvent("REBALANCE", list, p, list, p)>>
  BY DEF Init
<1>2. DOMAIN list \subseteq Levels
  BY BaselinesAssumption DEF Init
<1> DEFINE e == ListWideEvent("REBALANCE", list, p, list, p)
<1>3. \A l \in DOMAIN list : Says(e, l, list[l]) /\ Names(e, l) /\ e.level = NoLevel
  <2>1. e.rows = ImpactRows(DOMAIN list, list, p, list, p) /\ e.level = NoLevel
    BY DEF ListWideEvent
  <2> QED
    BY <1>2, <2>1, RowsSay, RowsName DEF Says, Names
<1>4. DOMAIN log = {1} /\ log[1] = e
  BY <1>1
<1> QED
  BY <1>3, <1>4 DEF Anchored, AnchoredIn, Anchors

\* Every step keeps every level anchored.
LEMMA StepAnchored == TypeOK /\ Anchored /\ [Next]_vars => Anchored'
<1> SUFFICES ASSUME TypeOK, Anchored, [Next]_vars PROVE Anchored'
  OBVIOUS
<1>1. ASSUME NEW l \in Levels, NEW above, NEW below, Place(l, above, below)
      PROVE  Anchored'
  BY <1>1, LandAnchored DEF Place
<1>2. ASSUME NEW l \in Levels, NEW above, NEW below, Reorder(l, above, below)
      PROVE  Anchored'
  <2>1. l \in entries
    BY <1>2 DEF Reorder, TypeOK
  <2> QED
    BY <1>2, <2>1, LandAnchored DEF Reorder
<1>3. ASSUME NEW l \in Levels, Unplace(l)
      PROVE  Anchored'
  <2> DEFINE F == DOMAIN list
             G == F \ {l}
  <2>1. F \in SUBSET Levels /\ G \in SUBSET Levels /\ list \in [F -> Int] /\ list' \in [G -> Int]
    BY <1>3 DEF TypeOK, Unplace, Without
  <2>2. PICK p \in Standings(list), q \in Standings(list') :
           log' = Append(log, MoveEvent("REMOVED", l, list, p, list', q))
    BY <1>3 DEF Unplace, RecordMove
  <2>3. MoveEvent("REMOVED", l, list, p, list', q) \in Events
    BY <1>3, <2>1, MoveEventType DEF Unplace
  <2>4. Accounts(MoveEvent("REMOVED", l, list, p, list', q), list, list')
    <3>1. \A m \in DOMAIN list' \ {l} : m \in DOMAIN list /\ list[m] = list'[m]
      BY <1>3 DEF Unplace, Without
    <3> QED
      BY <2>1, <3>1, MoveAccounts
  <2> QED
    BY <2>2, <2>3, <2>4, AppendAnchors DEF TypeOK, Anchored
<1>4. ASSUME NEW S \in SUBSET Levels, NEW p \in Orders[S], BulkReplace(S, p)
      PROVE  Anchored'
  <2>1. list' \in [S -> Int] /\ DOMAIN list \in SUBSET Levels /\ list \in [DOMAIN list -> Int]
    BY <1>4, NumberedType DEF BulkReplace, TypeOK
  <2>2. PICK q \in Standings(list), r \in Standings(list') :
           log' = Append(log, ListWideEvent("BULK_REPLACE", list, q, list', r))
    BY <1>4 DEF BulkReplace
  <2>3. ListWideEvent("BULK_REPLACE", list, q, list', r) \in Events
    BY <2>1, ListWideEventType
  <2>4. Accounts(ListWideEvent("BULK_REPLACE", list, q, list', r), list, list')
    BY <2>1, ListWideAccounts
  <2> QED
    BY <2>2, <2>3, <2>4, AppendAnchors DEF TypeOK, Anchored
<1>5. ASSUME NEW l \in Levels, CreateEntry(l)
      PROVE  Anchored'
  BY <1>5 DEF CreateEntry, Anchored
<1>6. ASSUME NEW l \in Levels, DeleteEntry(l)
      PROVE  Anchored'
  <2>1. SUFFICES ASSUME NEW m \in DOMAIN list \ {l}
                 PROVE  \E i \in DOMAIN log' : Anchors(list', log', i, m)
    BY <1>6 DEF DeleteEntry, Without, Anchored, AnchoredIn
  <2>2. PICK i \in DOMAIN log : Anchors(list, log, i, m)
    BY DEF Anchored, AnchoredIn
  <2>3. DOMAIN log' = DOMAIN log /\ list'[m] = list[m]
    BY <1>6 DEF DeleteEntry, Without
  <2>4. log'[i] = log[i]
    BY <1>6, <2>2, LevelsAssumption DEF DeleteEntry, Anchors
  <2>5. ASSUME NEW j \in DOMAIN log, j >= i PROVE Says(log'[j], m, list'[m])
    <3>1. Says(log[j], m, list[m])
      BY <2>2, <2>5 DEF Anchors
    <3>2. log'[j] \in {log[j], Purged}
      BY <1>6 DEF DeleteEntry
    <3> QED
      BY <2>3, <3>1, <3>2 DEF Says, Purged
  <2> QED
    BY <2>2, <2>3, <2>4, <2>5 DEF Anchors
<1>7. CASE UNCHANGED vars
  BY <1>7 DEF vars, Anchored
<1> QED
  BY <1>1, <1>2, <1>3, <1>4, <1>5, <1>6, <1>7 DEF Next

\* An anchored list is a logged one: the newest row for a level is no older than
\* its anchor.
LEMMA AnchoredIsLogged == TypeOK /\ Anchored => FullyLogged
<1> SUFFICES ASSUME TypeOK, Anchored, NEW l \in DOMAIN list
             PROVE  /\ Naming(l) # {}
                    /\ \A i \in Naming(l) :
                          (\A j \in Naming(l) : j <= i) => Says(log[i], l, list[l])
  BY DEF FullyLogged
<1>1. PICK k \in DOMAIN log : Anchors(list, log, k, l)
  BY DEF Anchored, AnchoredIn
<1>2. k \in Naming(l)
  BY <1>1 DEF Anchors, Naming
<1>3. ASSUME NEW i \in Naming(l), \A j \in Naming(l) : j <= i
      PROVE  Says(log[i], l, list[l])
  <2>1. i \in DOMAIN log /\ i \in Nat /\ k \in Nat
    BY DEF Naming, TypeOK
  <2>2. k <= i
    BY <1>2, <1>3
  <2> QED
    BY <1>1, <2>1, <2>2 DEF Anchors
<1> QED
  BY <1>2, <1>3

\* docs/DEMON_LIST.md: every placed entry's current index is the most recent one
\* logged for it, and no purge of other levels' events can change that.
THEOREM EveryIndexLogged == Spec => []FullyLogged
<1>1. Init => TypeOK /\ Anchored
  BY InitType, InitAnchored
<1>2. TypeOK /\ Anchored /\ [Next]_vars => (TypeOK /\ Anchored)'
  BY StepType, StepAnchored
<1> QED
  BY <1>1, <1>2, AnchoredIsLogged, PTL DEF Spec
-----------------------------------------------------------------------------
(* Order.                                                                  *)

\* A renumbering keeps the order of entries with different indices, and puts a
\* whole number between them.
LEMMA RebalanceKeepsOrder ==
    ASSUME TypeOK, NEW s \in Rebalances,
           NEW a \in DOMAIN list, NEW b \in DOMAIN list, list[a] > list[b]
    PROVE  s.list[a] - s.list[b] >= One
<1>1. PICK r \in Standings(list) : s.list = Numbered(r)
  BY RebalanceType
<1> DEFINE N == Cardinality(DOMAIN list)
<1>2. /\ DOMAIN r = DOMAIN list
      /\ r[a] \in Nat /\ r[b] \in Nat /\ r[a] < r[b] /\ N \in Nat
  BY StandingType, Sizes DEF TypeOK
<1>3. s.list[a] = (N + 1 - r[a]) * One /\ s.list[b] = (N + 1 - r[b]) * One
  BY <1>1, <1>2 DEF Numbered
<1> HIDE DEF N
<1>4. PICK x \in Int, y \in Int : x = N + 1 - r[a] /\ y = N + 1 - r[b]
  BY <1>2
<1>5. x - y >= 1
  BY <1>2, <1>4
<1>6. x * One - y * One = (x - y) * One /\ (x - y) * One >= One
  <2>1. PICK d \in Nat : x - y = d + 1
    BY <1>5
  <2>2. d * One \in Nat /\ (d + 1) * One = d * One + One
    BY IndexAssumption
  <2>3. x * One - y * One = (x - y) * One
    BY IndexAssumption
  <2> QED
    BY <2>1, <2>2, <2>3, IndexAssumption
<1> QED
  BY <1>3, <1>4, <1>6

\* So does whatever computeIndex leaves, and the gap it bisects is two units wide.
LEMMA SettledOrder ==
    ASSUME TypeOK, NEW above, NEW below, NeighboursValid(list, above, below),
           NEW s \in Settled(above, below)
    PROVE  /\ \A a, b \in DOMAIN list : list[a] > list[b] => s.list[a] > s.list[b]
           /\ above # NoLevel /\ below # NoLevel => s.list[above] - s.list[below] >= 2
<1>1. s.list \in [DOMAIN list -> Int] /\ list \in [DOMAIN list -> Int]
  BY SettledType DEF TypeOK
<1>2. CASE TooTight(list, above, below)
  <2>1. s \in Rebalances
    BY <1>2 DEF Settled
  <2>2. \A a, b \in DOMAIN list : list[a] > list[b] => s.list[a] - s.list[b] >= One
    BY <2>1, RebalanceKeepsOrder
  <2>3. One >= 2
    BY IndexAssumption
  <2> QED
    BY <1>1, <2>2, <2>3, IndexAssumption DEF NeighboursValid
<1>3. CASE ~ TooTight(list, above, below)
  <2>1. s.list = list
    BY <1>3 DEF Settled
  <2>2. ASSUME above # NoLevel, below # NoLevel PROVE list[above] - list[below] >= 2
    <3>1. list[above] \in Int /\ list[below] \in Int
      BY <1>1, <2>2 DEF NeighboursValid
    <3> QED
      BY <1>3, <2>2, <3>1, IndexAssumption DEF TooTight
  <2> QED
    BY <2>1, <2>2
<1> QED
  BY <1>2, <1>3

\* A drop of l lands where it was dropped and moves nobody else past anyone.
LEMMA LandOrder ==
    ASSUME TypeOK, NEW l \in Levels, NEW above, NEW below, l \notin {above, below},
           NeighboursValid(list, above, below), NEW type, Land(type, l, above, below)
    PROVE  /\ above # NoLevel => list'[above] > list'[l]
           /\ below # NoLevel => list'[l] > list'[below]
           /\ \A a, b \in DOMAIN list \ {l} : list[a] > list[b] => list'[a] > list'[b]
<1>1. PICK s \in Settled(above, below) :
         list' = Put(s.list, l, NewIndex(s.list, above, below))
  BY DEF Land
<1> DEFINE F == DOMAIN list
           x == NewIndex(s.list, above, below)
<1>2. s.list \in [F -> Int]
  BY SettledType
<1>3. list'[l] = x /\ \A m \in F \ {l} : list'[m] = s.list[m]
  BY <1>1, <1>2 DEF Put
<1>4. /\ above # NoLevel => above \in F /\ s.list[above] \in Int
      /\ below # NoLevel => below \in F /\ s.list[below] \in Int
  BY <1>2 DEF NeighboursValid
<1>5. \A a, b \in F \ {l} : list[a] > list[b] => list'[a] > list'[b]
  BY <1>3, SettledOrder
<1>6. CASE above # NoLevel /\ below # NoLevel
  <2>1. x = Bisect(s.list[below], s.list[above])
    BY <1>6 DEF NewIndex
  <2>2. s.list[above] - s.list[below] >= 2
    BY <1>6, SettledOrder
  <2>3. s.list[below] < x /\ x < s.list[above]
    BY <1>4, <1>6, <2>1, <2>2, BisectBetween
  <2> QED
    BY <1>3, <1>4, <1>5, <1>6, <2>1, <2>3, BisectBetween, <2>2
<1>7. CASE ~ (above # NoLevel /\ below # NoLevel)
  <2>1. above # NoLevel => x = s.list[above] - One
    BY <1>7 DEF NewIndex
  <2>2. below # NoLevel => x = s.list[below] + One
    BY <1>7 DEF NewIndex
  <2> QED
    BY <1>3, <1>4, <1>5, <1>7, <2>1, <2>2, IndexAssumption
<1> QED
  BY <1>6, <1>7

\* services/demonList: a level dropped between two others is read back between
\* them, whether or not the list had to be renumbered for it.
THEOREM DropsLandBetween == Spec => LandsBetween
<1>1. TypeOK /\ [Next]_vars => [DropsBetween]_vars
  <2> SUFFICES ASSUME TypeOK,
                      NEW l \in Levels, NEW above \in Levels \cup {NoLevel},
                      NEW below \in Levels \cup {NoLevel},
                      Place(l, above, below) \/ Reorder(l, above, below)
               PROVE  /\ above # NoLevel => list'[above] > list'[l]
                      /\ below # NoLevel => list'[l] > list'[below]
    BY DEF DropsBetween
  <2>1. CASE Place(l, above, below)
    <3>1. l \notin {above, below}
      BY <2>1, LevelsAssumption DEF Place, NeighboursValid
    <3> QED
      BY <2>1, <3>1, LandOrder DEF Place
  <2>2. CASE Reorder(l, above, below)
    BY <2>2, LandOrder DEF Reorder
  <2> QED
    BY <2>1, <2>2
<1> QED
  BY <1>1, TypeCorrect, PTL DEF Spec, LandsBetween

\* A drop of l is logged as a move of l.
LEMMA LandMoves ==
    ASSUME TypeOK, NEW l \in Levels, NEW above \in Levels \cup {NoLevel},
           NEW below \in Levels \cup {NoLevel}, NEW type, Land(type, l, above, below)
    PROVE  l \in Moved
<1>1. PICK s \in Settled(above, below) : RecordMove(type, l, s.list, list', s.log)
  BY DEF Land
<1>2. PICK p \in Standings(s.list), q \in Standings(list') :
         log' = Append(s.log, MoveEvent(type, l, s.list, p, list', q))
  BY <1>1 DEF RecordMove
<1>3. s.log \in Seq(Events) /\ Len(s.log) >= Len(log) /\ Len(log) \in Nat
  <2>1. CASE TooTight(list, above, below)
    <3>1. s \in Rebalances
      BY <2>1 DEF Settled
    <3> QED
      BY <3>1, RebalanceType DEF TypeOK
  <2>2. CASE ~ TooTight(list, above, below)
    BY <2>2 DEF Settled, TypeOK
  <2> QED
    BY <2>1, <2>2
<1> DEFINE e == MoveEvent(type, l, s.list, p, list', q)
<1>4. e.level = l
  BY DEF MoveEvent
<1> HIDE DEF e
<1>5. /\ Len(s.log) + 1 \in DOMAIN log' \ DOMAIN log
      /\ log'[Len(s.log) + 1] = e
  BY <1>2, <1>3 DEF TypeOK, e
<1> QED
  BY <1>4, <1>5 DEF Moved

\* No request but the import reorders two entries it does not move.
THEOREM OthersKeepOrder == Spec => OrderKept
<1>1. TypeOK /\ [Next]_vars => [KeepsOrder]_vars
  <2> SUFFICES ASSUME TypeOK, Next PROVE KeepsOrder
    OBVIOUS
  <2>1. ASSUME NEW l \in Levels, NEW above \in Levels \cup {NoLevel},
               NEW below \in Levels \cup {NoLevel}, Place(l, above, below)
        PROVE  KeepsOrder
    <3>1. l \notin {above, below}
      BY <2>1, LevelsAssumption DEF Place, NeighboursValid
    <3> QED
      BY <2>1, <3>1, LandOrder, LandMoves DEF Place, KeepsOrder
  <2>2. ASSUME NEW l \in Levels, NEW above \in Levels \cup {NoLevel},
               NEW below \in Levels \cup {NoLevel}, Reorder(l, above, below)
        PROVE  KeepsOrder
    BY <2>2, LandOrder, LandMoves DEF Reorder, KeepsOrder
  <2>3. ASSUME NEW S \in SUBSET Levels, NEW p \in Orders[S], BulkReplace(S, p)
        PROVE  KeepsOrder
    <3>1. PICK q \in Standings(list), r \in Standings(list') :
             log' = Append(log, ListWideEvent("BULK_REPLACE", list, q, list', r))
      BY <2>3 DEF BulkReplace
    <3>2. ListWideEvent("BULK_REPLACE", list, q, list', r).type = "BULK_REPLACE"
      BY DEF ListWideEvent
    <3>3. /\ Len(log) + 1 \in DOMAIN log' \ DOMAIN log
          /\ log'[Len(log) + 1] = ListWideEvent("BULK_REPLACE", list, q, list', r)
      BY <3>1 DEF TypeOK
    <3> QED
      BY <3>2, <3>3 DEF KeepsOrder, TypeOK
  <2>4. ASSUME NEW l \in Levels, Unplace(l) \/ CreateEntry(l) \/ DeleteEntry(l)
        PROVE  KeepsOrder
    <3>1. \A m \in DOMAIN list \cap DOMAIN list' : list'[m] = list[m]
      BY <2>4 DEF Unplace, CreateEntry, DeleteEntry, Without
    <3> QED
      BY <3>1 DEF KeepsOrder
  <2> QED
    BY <2>1, <2>2, <2>3, <2>4 DEF Next
<1> QED
  BY <1>1, TypeCorrect, PTL DEF Spec, OrderKept

\* A level leaves the list with an event that says so, in the log before anybody can
\* read the list without it, or with its whole entry.
THEOREM LeavingIsLogged == Spec => LeavesOnRecord
<1> DEFINE Recorded(l) == \/ l \notin entries'
                          \/ \E i \in DOMAIN log' \ DOMAIN log : \E r \in log'[i].rows :
                                r.level = l /\ r.after = 0
<1>1. ASSUME TypeOK, Next, NEW l \in DOMAIN list \ DOMAIN list'
      PROVE  Recorded(l)
  <2>1. ASSUME NEW m \in Levels, NEW above, NEW below,
               Place(m, above, below) \/ Reorder(m, above, below)
        PROVE  FALSE
    <3>1. PICK s \in Settled(above, below) : \E x : list' = Put(s.list, m, x)
      BY <2>1 DEF Place, Reorder, Land
    <3>2. DOMAIN s.list = DOMAIN list
      BY <1>1, SettledType
    <3> QED
      BY <1>1, <3>1, <3>2 DEF Put
  <2>2. ASSUME NEW e \in Events, log' = Append(log, e), NEW S, NEW p, l \in S,
               NEW q \in Standings(list'), DOMAIN list' \subseteq Levels,
               e.rows = ImpactRows(S, list, p, list', q)
        PROVE  Recorded(l)
    <3>1. PICK r \in e.rows : r.level = l
      BY <2>2, RowsName
    <3>2. r.after = 0
      BY <2>2, <3>1, StandingType DEF ImpactRows, PositionIn
    <3>3. Len(log) + 1 \in DOMAIN log' \ DOMAIN log /\ log'[Len(log) + 1] = e
      BY <1>1, <2>2 DEF TypeOK
    <3> QED
      BY <3>1, <3>2, <3>3
  <2>3. ASSUME NEW m \in Levels, Unplace(m)
        PROVE  Recorded(l)
    <3> DEFINE F == DOMAIN list
               G == F \ {m}
    <3>1. /\ F \in SUBSET Levels /\ G \in SUBSET Levels /\ list \in [F -> Int] /\ list' \in [G -> Int]
          /\ l = m
      BY <1>1, <2>3 DEF TypeOK, Unplace, Without
    <3>2. PICK p \in Standings(list), q \in Standings(list') :
             log' = Append(log, MoveEvent("REMOVED", m, list, p, list', q))
      BY <2>3 DEF Unplace, RecordMove
    <3> DEFINE e == MoveEvent("REMOVED", m, list, p, list', q)
               S == {m} \cup ImmediateNeighbours(p, m) \cup ImmediateNeighbours(q, m)
    <3>3. e \in Events
      BY <2>3, <3>1, MoveEventType DEF Unplace
    <3>4. e.rows = ImpactRows(S, list, p, list', q)
      BY DEF MoveEvent
    <3>5. l \in S
      BY <3>1
    <3> HIDE DEF e, S
    <3>6. log' = Append(log, e)
      BY <3>2 DEF e
    <3> QED
      BY <2>2, <3>1, <3>3, <3>4, <3>5, <3>6
  <2>4. ASSUME NEW T \in SUBSET Levels, NEW p \in Orders[T], BulkReplace(T, p)
        PROVE  Recorded(l)
    <3>1. list' \in [T -> Int] /\ DOMAIN list \in SUBSET Levels /\ list \in [DOMAIN list -> Int]
      BY <1>1, <2>4, NumberedType DEF BulkReplace, TypeOK
    <3>2. PICK q \in Standings(list), r \in Standings(list') :
             log' = Append(log, ListWideEvent("BULK_REPLACE", list, q, list', r))
      BY <2>4 DEF BulkReplace
    <3> DEFINE e == ListWideEvent("BULK_REPLACE", list, q, list', r)
               S == DOMAIN list \cup DOMAIN list'
    <3>3. e \in Events
      BY <3>1, ListWideEventType
    <3>4. e.rows = ImpactRows(S, list, q, list', r) /\ l \in S
      BY DEF ListWideEvent
    <3> HIDE DEF e, S
    <3>5. log' = Append(log, e)
      BY <3>2 DEF e
    <3> QED
      BY <2>2, <3>1, <3>3, <3>4, <3>5
  <2>5. ASSUME NEW m \in Levels, CreateEntry(m) \/ DeleteEntry(m)
        PROVE  Recorded(l)
    BY <2>5 DEF CreateEntry, DeleteEntry, Without
  <2> QED
    BY <1>1, <2>1, <2>3, <2>4, <2>5 DEF Next
<1>2. TypeOK /\ [Next]_vars => [\A l \in DOMAIN list \ DOMAIN list' : Recorded(l)]_vars
  BY <1>1
<1> QED
  BY <1>2, TypeCorrect, PTL DEF Spec, LeavesOnRecord
-----------------------------------------------------------------------------
(* What the log keeps of the levels that were never deleted.               *)

\* T has the places in the log lg, 0 being the time before it, at which l was on
\* the list, f being the list now.  Only an event of l's own or a list-wide one,
\* which no deletion of another level purges, changes that, each row of l agrees
\* with it, and only the baseline can find l on the list before the log.
PlacedAt(T, l, f, lg) ==
    /\ T \in SUBSET (0..Len(lg))
    /\ Len(lg) \in T <=> l \in DOMAIN f
    /\ 0 \in T => /\ 1 \in DOMAIN lg /\ Names(lg[1], l)
                  /\ lg[1].type = "REBALANCE" /\ lg[1].level = NoLevel
    /\ \A i \in DOMAIN lg :
          /\ \/ i \in T <=> i - 1 \in T
             \/ Names(lg[i], l) /\ lg[i].level \in {l, NoLevel}
          /\ lg[i].type = "REBALANCE" /\ i \in T => Names(lg[i], l)
          /\ \A r \in lg[i].rows : r.level = l =>
                /\ r.before # 0 <=> i - 1 \in T
                /\ r.after # 0 <=> i \in T

Traced(l, f, lg) == \E T : PlacedAt(T, l, f, lg)

AllTraced == \A l \in Levels \ erased : Traced(l, list, log)

\* The event e, that turned the list f into g, says so of l.
Tells(e, l, f, g) ==
    /\ \/ l \in DOMAIN f <=> l \in DOMAIN g
       \/ Names(e, l) /\ e.level \in {l, NoLevel}
    /\ e.type = "REBALANCE" /\ l \in DOMAIN g => Names(e, l)
    /\ \A r \in e.rows : r.level = l =>
          /\ r.before # 0 <=> l \in DOMAIN f
          /\ r.after # 0 <=> l \in DOMAIN g

\* Appending an event that tells what became of l keeps l traced.
LEMMA AppendTraced ==
    ASSUME NEW l, NEW f, NEW g, NEW lg \in Seq(Events), NEW e \in Events,
           Traced(l, f, lg), Tells(e, l, f, g)
    PROVE  Traced(l, g, Append(lg, e))
<1> DEFINE new == Append(lg, e)
           n   == Len(lg) + 1
<1>1. /\ DOMAIN lg = 1..Len(lg)
      /\ DOMAIN new = DOMAIN lg \cup {n}
      /\ new[n] = e
      /\ \A i \in DOMAIN lg : new[i] = lg[i]
      /\ Len(new) = n
      /\ Len(lg) \in Nat
  OBVIOUS
<1>2. PICK S : PlacedAt(S, l, f, lg)
  BY DEF Traced
<1> DEFINE T == IF l \in DOMAIN g THEN S \cup {n} ELSE S
<1>3. /\ T \in SUBSET (0..n)
      /\ n \in T <=> l \in DOMAIN g
      /\ \A i \in 0..Len(lg) : i \in T <=> i \in S
      /\ n - 1 = Len(lg)
  <2>1. S \in SUBSET (0..Len(lg)) /\ 0..Len(lg) \subseteq 0..n /\ n \in 0..n /\ n \notin 0..Len(lg)
    BY <1>1, <1>2 DEF PlacedAt
  <2>2. n - 1 = Len(lg)
    BY <1>1
  <2> HIDE DEF n
  <2> QED
    BY <2>1, <2>2
<1> HIDE DEF T, new, n
<1>4. 0 \in T => /\ 1 \in DOMAIN new /\ Names(new[1], l)
                /\ new[1].type = "REBALANCE" /\ new[1].level = NoLevel
  BY <1>1, <1>2, <1>3 DEF PlacedAt
<1>5. ASSUME NEW i \in DOMAIN new
      PROVE  /\ (i \in T <=> i - 1 \in T) \/ (Names(new[i], l) /\ new[i].level \in {l, NoLevel})
             /\ new[i].type = "REBALANCE" /\ i \in T => Names(new[i], l)
             /\ \A r \in new[i].rows : r.level = l =>
                   /\ r.before # 0 <=> i - 1 \in T
                   /\ r.after # 0 <=> i \in T
  <2>1. CASE i \in DOMAIN lg
    <3>1. i \in 0..Len(lg) /\ i - 1 \in 0..Len(lg) /\ new[i] = lg[i]
      BY <1>1, <2>1
    <3>2. (i \in T <=> i \in S) /\ (i - 1 \in T <=> i - 1 \in S)
      BY <1>3, <3>1
    <3> QED
      BY <1>2, <2>1, <3>1, <3>2 DEF PlacedAt
  <2>2. CASE i = n
    <3>1. i - 1 \in 0..Len(lg) /\ i - 1 = Len(lg) /\ new[i] = e
      BY <1>1, <1>3, <2>2
    <3>2. (i \in T <=> l \in DOMAIN g) /\ (i - 1 \in T <=> l \in DOMAIN f)
      BY <1>2, <1>3, <2>2, <3>1 DEF PlacedAt
    <3> QED
      BY <3>1, <3>2 DEF Tells
  <2> QED
    BY <1>1, <2>1, <2>2
<1>6. PlacedAt(T, l, g, new)
  BY <1>1, <1>3, <1>4, <1>5 DEF PlacedAt
<1> QED
  BY <1>6 DEF Traced, new

\* A row of a reading before and one after says whether the level was there.
LEMMA RowsTell ==
    ASSUME NEW f, DOMAIN f \subseteq Levels, NEW p \in Standings(f),
           NEW g, DOMAIN g \subseteq Levels, NEW q \in Standings(g),
           NEW S, NEW r \in ImpactRows(S, f, p, g, q)
    PROVE  /\ r.before # 0 <=> r.level \in DOMAIN f
           /\ r.after # 0 <=> r.level \in DOMAIN g
BY StandingType DEF ImpactRows, PositionIn

\* A move's event tells what became of every level.
LEMMA MoveTells ==
    ASSUME NEW f, DOMAIN f \subseteq Levels, NEW p \in Standings(f),
           NEW g, DOMAIN g \subseteq Levels, NEW q \in Standings(g),
           NEW m, NEW type \in {"PLACEMENT", "REORDER", "REMOVED"},
           DOMAIN f \ {m} = DOMAIN g \ {m}, NEW l
    PROVE  Tells(MoveEvent(type, m, f, p, g, q), l, f, g)
<1> DEFINE e == MoveEvent(type, m, f, p, g, q)
           S == {m} \cup ImmediateNeighbours(p, m) \cup ImmediateNeighbours(q, m)
<1>1. e.rows = ImpactRows(S, f, p, g, q) /\ e.level = m /\ e.type # "REBALANCE"
  BY DEF MoveEvent
<1>2. Names(e, m)
  <2>1. m \in S
    OBVIOUS
  <2> HIDE DEF S, e
  <2>2. \E r \in ImpactRows(S, f, p, g, q) : r.level = m
    BY <2>1, RowsName
  <2> QED
    BY <1>1, <2>2 DEF Names
<1>3. (l \in DOMAIN f <=> l \in DOMAIN g) \/ l = m
  OBVIOUS
<1> HIDE DEF e, S
<1>4. \A r \in e.rows : r.level = l =>
         /\ r.before # 0 <=> l \in DOMAIN f
         /\ r.after # 0 <=> l \in DOMAIN g
  BY <1>1, RowsTell
<1>5. Tells(e, l, f, g)
  BY <1>1, <1>2, <1>3, <1>4 DEF Tells
<1> QED
  BY <1>5 DEF e

\* So does the event of a rewrite of the whole list.
LEMMA ListWideTells ==
    ASSUME NEW f, DOMAIN f \subseteq Levels, NEW p \in Standings(f),
           NEW g, DOMAIN g \subseteq Levels, NEW q \in Standings(g), NEW type, NEW l
    PROVE  Tells(ListWideEvent(type, f, p, g, q), l, f, g)
<1> DEFINE e == ListWideEvent(type, f, p, g, q)
           S == DOMAIN f \cup DOMAIN g
<1>1. e.rows = ImpactRows(S, f, p, g, q) /\ e.level = NoLevel
  BY DEF ListWideEvent
<1> HIDE DEF e, S
<1>2. l \in S => Names(e, l)
  <2>1. l \in S => \E r \in ImpactRows(S, f, p, g, q) : r.level = l
    BY RowsName
  <2> QED
    BY <1>1, <2>1 DEF Names
<1>4. \A r \in e.rows : r.level = l =>
         /\ r.before # 0 <=> l \in DOMAIN f
         /\ r.after # 0 <=> l \in DOMAIN g
  BY <1>1, RowsTell
<1>5. Tells(e, l, f, g)
  BY <1>1, <1>2, <1>4 DEF Tells, S
<1> QED
  BY <1>5 DEF e

\* Computing an index keeps every level traced.
LEMMA SettledTraced ==
    ASSUME TypeOK, NEW l, Traced(l, list, log),
           NEW above, NEW below, NEW s \in Settled(above, below)
    PROVE  Traced(l, s.list, s.log)
<1>1. CASE TooTight(list, above, below)
  <2>1. s \in Rebalances
    BY <1>1 DEF Settled
  <2>2. PICK r \in Standings(list), p \in Standings(list) : \E q \in Standings(s.list) :
           /\ s.list = Numbered(r)
           /\ s.log = Append(log, ListWideEvent("REBALANCE", list, p, s.list, q))
    BY <2>1, RebalanceType
  <2>3. PICK q \in Standings(s.list) :
           s.log = Append(log, ListWideEvent("REBALANCE", list, p, s.list, q))
    BY <2>2
  <2>4. DOMAIN list \subseteq Levels /\ s.list \in [DOMAIN list -> Int] /\ list \in [DOMAIN list -> Int]
    BY <2>1, RebalanceType DEF TypeOK
  <2>5. ListWideEvent("REBALANCE", list, p, s.list, q) \in Events
    BY <2>4, ListWideEventType
  <2>6. Tells(ListWideEvent("REBALANCE", list, p, s.list, q), l, list, s.list)
    BY <2>4, ListWideTells
  <2> QED
    BY <2>3, <2>5, <2>6, AppendTraced DEF TypeOK
<1>2. CASE ~ TooTight(list, above, below)
  BY <1>2 DEF Settled
<1> QED
  BY <1>1, <1>2

\* A drop keeps every level traced.
LEMMA LandTraced ==
    ASSUME TypeOK, NEW m, Traced(m, list, log), NEW l \in entries, NEW above, NEW below,
           NeighboursValid(list, above, below),
           NEW type \in {"PLACEMENT", "REORDER", "REMOVED"},
           Land(type, l, above, below)
    PROVE  Traced(m, list', log')
<1> DEFINE F == DOMAIN list
           G == F \cup {l}
<1>1. PICK s \in Settled(above, below) :
         /\ list' = Put(s.list, l, NewIndex(s.list, above, below))
         /\ RecordMove(type, l, s.list, list', s.log)
  BY DEF Land
<1>2. s.list \in [F -> Int] /\ s.log \in Seq(Events) /\ F \in SUBSET Levels /\ G \in SUBSET Levels
  BY SettledType DEF TypeOK
<1>3. list' \in [G -> Int]
  BY <1>1, <1>2, NewIndexType DEF Put, NeighboursValid
<1>4. PICK p \in Standings(s.list), q \in Standings(list') :
         log' = Append(s.log, MoveEvent(type, l, s.list, p, list', q))
  BY <1>1 DEF RecordMove
<1>5. MoveEvent(type, l, s.list, p, list', q) \in Events
  BY <1>2, <1>3, MoveEventType
<1>6. DOMAIN s.list \ {l} = DOMAIN list' \ {l}
  BY <1>2, <1>3
<1>7. Tells(MoveEvent(type, l, s.list, p, list', q), m, s.list, list')
  BY <1>2, <1>3, <1>6, MoveTells
<1>8. Traced(m, s.list, s.log)
  BY SettledTraced
<1> QED
  BY <1>2, <1>4, <1>5, <1>7, <1>8, AppendTraced

\* A new user's list is empty, and a baseline event names all an old one has.
LEMMA InitTraced == HistoryInit => AllTraced
<1> SUFFICES ASSUME HistoryInit, NEW l \in Levels PROVE Traced(l, list, log)
  BY DEF AllTraced
<1>1. DOMAIN list \subseteq Levels
  BY BaselinesAssumption DEF HistoryInit, Init
<1>2. CASE entries = {}
  <2>1. log = <<>> /\ DOMAIN list = {}
    BY <1>2 DEF HistoryInit, Init
  <2>2. PlacedAt({}, l, list, log)
    BY <2>1 DEF PlacedAt
  <2> QED
    BY <2>2 DEF Traced
<1>3. CASE entries # {}
  <2>1. PICK p \in Standings(list) : log = <<ListWideEvent("REBALANCE", list, p, list, p)>>
    BY <1>3 DEF HistoryInit, Init
  <2> DEFINE e == ListWideEvent("REBALANCE", list, p, list, p)
             T == IF l \in DOMAIN list THEN {0, 1} ELSE {}
  <2>2. Tells(e, l, list, list) /\ e.type = "REBALANCE" /\ e.level = NoLevel
    BY <1>1, ListWideTells DEF ListWideEvent
  <2> HIDE DEF e
  <2>3. DOMAIN log = {1} /\ log[1] = e /\ Len(log) = 1
    BY <2>1 DEF e
  <2>4. T \in SUBSET (0..1) /\ (1 \in T <=> l \in DOMAIN list) /\ (1 - 1 \in T <=> l \in DOMAIN list)
        /\ (0 \in T => l \in DOMAIN list)
    OBVIOUS
  <2> HIDE DEF T
  <2>5. PlacedAt(T, l, list, log)
    BY <2>2, <2>3, <2>4 DEF PlacedAt, Tells
  <2> QED
    BY <2>5 DEF Traced
<1> QED
  BY <1>2, <1>3

\* Every step keeps every level traced that it does not erase.
LEMMA StepTraced == TypeOK /\ AllTraced /\ [HistoryNext]_historyVars => AllTraced'
<1> SUFFICES ASSUME TypeOK, AllTraced, [HistoryNext]_historyVars,
                    NEW m \in Levels \ erased'
             PROVE  Traced(m, list', log')
  BY DEF AllTraced
<1>0. CASE UNCHANGED historyVars
  BY <1>0 DEF historyVars, AllTraced
<1> SUFFICES ASSUME HistoryNext PROVE Traced(m, list', log')
  BY <1>0
<1> USE DEF HistoryNext
<1>a. Traced(m, list, log)
  BY DEF AllTraced
<1>1. ASSUME NEW l \in Levels, NEW above, NEW below, Place(l, above, below)
      PROVE  Traced(m, list', log')
  BY <1>a, <1>1, LandTraced DEF Place
<1>2. ASSUME NEW l \in Levels, NEW above, NEW below, Reorder(l, above, below)
      PROVE  Traced(m, list', log')
  <2>1. l \in entries
    BY <1>2 DEF Reorder, TypeOK
  <2> QED
    BY <1>a, <1>2, <2>1, LandTraced DEF Reorder
<1>3. ASSUME NEW l \in Levels, Unplace(l)
      PROVE  Traced(m, list', log')
  <2> DEFINE F == DOMAIN list
             G == F \ {l}
  <2>1. F \in SUBSET Levels /\ G \in SUBSET Levels /\ list \in [F -> Int] /\ list' \in [G -> Int]
    BY <1>3 DEF TypeOK, Unplace, Without
  <2>2. PICK p \in Standings(list), q \in Standings(list') :
           log' = Append(log, MoveEvent("REMOVED", l, list, p, list', q))
    BY <1>3 DEF Unplace, RecordMove
  <2>3. MoveEvent("REMOVED", l, list, p, list', q) \in Events
    BY <1>3, <2>1, MoveEventType DEF Unplace
  <2>4. DOMAIN list \ {l} = DOMAIN list' \ {l}
    BY <2>1
  <2>5. Tells(MoveEvent("REMOVED", l, list, p, list', q), m, list, list')
    BY <2>1, <2>4, MoveTells
  <2> QED
    BY <1>a, <2>2, <2>3, <2>5, AppendTraced DEF TypeOK
<1>4. ASSUME NEW S \in SUBSET Levels, NEW p \in Orders[S], BulkReplace(S, p)
      PROVE  Traced(m, list', log')
  <2>1. list' \in [S -> Int] /\ DOMAIN list \in SUBSET Levels /\ list \in [DOMAIN list -> Int]
    BY <1>4, NumberedType DEF BulkReplace, TypeOK
  <2>2. PICK q \in Standings(list), r \in Standings(list') :
           log' = Append(log, ListWideEvent("BULK_REPLACE", list, q, list', r))
    BY <1>4 DEF BulkReplace
  <2>3. ListWideEvent("BULK_REPLACE", list, q, list', r) \in Events
    BY <2>1, ListWideEventType
  <2>4. Tells(ListWideEvent("BULK_REPLACE", list, q, list', r), m, list, list')
    BY <2>1, ListWideTells
  <2> QED
    BY <1>a, <2>2, <2>3, <2>4, AppendTraced DEF TypeOK
<1>5. ASSUME NEW l \in Levels, CreateEntry(l)
      PROVE  Traced(m, list', log')
  BY <1>a, <1>5 DEF CreateEntry
<1>6. ASSUME NEW l \in Levels, DeleteEntry(l)
      PROVE  Traced(m, list', log')
  <2>1. m # l
    BY <1>6 DEF DeleteEntry
  <2>2. /\ m \in DOMAIN list' <=> m \in DOMAIN list
        /\ DOMAIN log' = DOMAIN log /\ Len(log') = Len(log)
        /\ \A i \in DOMAIN log : log'[i] = IF log[i].level = l THEN Purged ELSE log[i]
    BY <1>6, <2>1 DEF DeleteEntry, Without, TypeOK
  <2>3. PICK T : PlacedAt(T, m, list, log)
    BY <1>a DEF Traced
  <2>4. 0 \in T => /\ 1 \in DOMAIN log' /\ Names(log'[1], m)
                  /\ log'[1].type = "REBALANCE" /\ log'[1].level = NoLevel
    BY <2>2, <2>3, LevelsAssumption DEF PlacedAt
  <2>5. ASSUME NEW i \in DOMAIN log
        PROVE  /\ (i \in T <=> i - 1 \in T) \/ (Names(log'[i], m) /\ log'[i].level \in {m, NoLevel})
               /\ log'[i].type = "REBALANCE" /\ i \in T => Names(log'[i], m)
               /\ \A r \in log'[i].rows : r.level = m =>
                     /\ r.before # 0 <=> i - 1 \in T
                     /\ r.after # 0 <=> i \in T
    <3>1. CASE log[i].level = l
      <4>1. log'[i].rows = {} /\ log'[i].type # "REBALANCE"
        BY <2>2, <3>1 DEF Purged
      <4>2. log[i].level \notin {m, NoLevel}
        BY <2>1, <3>1, LevelsAssumption
      <4> QED
        BY <2>3, <4>1, <4>2 DEF PlacedAt
    <3>2. CASE log[i].level # l
      BY <2>2, <2>3, <3>2 DEF PlacedAt
    <3> QED
      BY <3>1, <3>2
  <2>6. PlacedAt(T, m, list', log')
    BY <2>2, <2>3, <2>4, <2>5 DEF PlacedAt
  <2> QED
    BY <2>6 DEF Traced
<1> QED
  BY <1>1, <1>2, <1>3, <1>4, <1>5, <1>6 DEF Next
-----------------------------------------------------------------------------
(* Renumberings of a list without ties.                                    *)

\* The position of a level is one more than how many have a higher index.
LEMMA StandingCounts ==
    ASSUME NEW F \in SUBSET Levels, NEW f \in [F -> Int], ~ Tie(f),
           NEW p \in Standings(f), NEW m \in F
    PROVE  p[m] = 1 + Cardinality({n \in F : f[n] > f[m]})
<1> DEFINE N == Cardinality(F)
           A == {n \in F : f[n] > f[m]}
           k == p[m] - 1
           h == [n \in A |-> p[n]]
<1>1. N \in Nat /\ IsFiniteSet(F) /\ IsFiniteSet(A)
  BY Sizes, LevelsAssumption, FS_Subset
<1>2. p \in [F -> 1..N] /\ \A a, b \in F : p[a] = p[b] => a = b
  BY DEF Standings, Orders
<1>3. \A a \in F : p[a] \in 1..N /\ p[a] \in Nat
  BY <1>1, <1>2
<1>4. IsFiniteSet(1..N) /\ Cardinality(1..N) = N
  BY <1>1, FS_Interval
<1>5. p \in Injection(F, 1..N)
  BY <1>2 DEF Injection, IsInjective
<1>6. p \in Surjection(F, 1..N)
  BY <1>4, <1>5, FS_Injection
<1>7. \A a, b \in F : f[a] > f[b] <=> p[a] < p[b]
  <2>1. \A a, b \in F : f[a] > f[b] => p[a] < p[b]
    BY StandingType
  <2>2. \A a, b \in F : a # b => f[a] # f[b]
    BY DEF Tie
  <2> SUFFICES ASSUME NEW a \in F, NEW b \in F, p[a] < p[b] PROVE f[a] > f[b]
    BY <2>1
  <2>3. a # b /\ ~ (f[b] > f[a])
    BY <1>3, <2>1
  <2>4. f[a] # f[b] /\ f[a] \in Int /\ f[b] \in Int
    BY <2>2, <2>3
  <2> QED
    BY <2>3, <2>4
<1>8. k \in Nat /\ k <= N
  <2>1. N \in Nat /\ p[m] \in 1..N
    BY <1>1, <1>3
  <2> HIDE DEF N
  <2> QED
    BY <2>1
<1>9. h \in Bijection(A, 1..k)
  <2>1. \A n \in A : p[n] \in 1..k
    BY <1>3, <1>7
  <2>2. h \in Injection(A, 1..k)
    BY <1>2, <2>1 DEF Injection, IsInjective
  <2>3. ASSUME NEW x \in 1..k PROVE \E n \in A : h[n] = x
    <3>1. x \in 1..N
      BY <1>1, <1>8
    <3>2. PICK n \in F : p[n] = x
      BY <1>6, <3>1 DEF Surjection
    <3>3. p[n] < p[m]
      BY <1>3, <3>2
    <3>4. n \in A
      BY <1>7, <3>3
    <3> QED
      BY <3>2, <3>4
  <2> QED
    BY <2>2, <2>3 DEF Bijection, Injection, Surjection
<1> HIDE DEF h, k, A
<1>10. Cardinality(1..k) = k
  BY <1>8, FS_Interval
<1>11. Cardinality(1..k) = Cardinality(A)
  BY <1>1, <1>9, FS_Bijection DEF ExistsBijection
<1>12. p[m] = 1 + k
  BY <1>3 DEF k
<1> QED
  BY <1>10, <1>11, <1>12 DEF A

\* So there is only one reading of a list without ties.
LEMMA OneStanding ==
    ASSUME NEW F \in SUBSET Levels, NEW f \in [F -> Int], ~ Tie(f),
           NEW p \in Standings(f), NEW q \in Standings(f)
    PROVE  p = q
<1>1. ASSUME NEW m \in F PROVE p[m] = q[m]
  <2>1. p[m] = 1 + Cardinality({n \in F : f[n] > f[m]})
    BY StandingCounts
  <2>2. q[m] = 1 + Cardinality({n \in F : f[n] > f[m]})
    BY StandingCounts
  <2> QED
    BY <2>1, <2>2
<1>2. p \in [F -> 1..Cardinality(F)] /\ q \in [F -> 1..Cardinality(F)]
  BY DEF Standings, Orders
<1> QED
  BY <1>1, <1>2

\* A renumbered list has no ties, and is read in the order it was renumbered in.
LEMMA NumberedStanding ==
    ASSUME NEW S \in SUBSET Levels, NEW p \in Orders[S]
    PROVE  ~ Tie(Numbered(p)) /\ p \in Standings(Numbered(p))
<1> DEFINE N == Cardinality(S)
<1>1. DOMAIN p = S /\ N \in Nat /\ \A m \in S : p[m] \in Nat
  BY OrderType, Sizes
<1>2. \A a, b \in S : p[a] = p[b] => a = b
  BY DEF Orders
<1>3. \A m \in S : Numbered(p)[m] = (N + 1 - p[m]) * One
  BY <1>1 DEF Numbered
<1>4. DOMAIN Numbered(p) = S
  BY <1>1 DEF Numbered
<1> HIDE DEF N
<1>5. ASSUME NEW a \in S, NEW b \in S, p[a] < p[b]
      PROVE  Numbered(p)[a] > Numbered(p)[b]
  <2>1. PICK x \in Int, y \in Int : x = N + 1 - p[a] /\ y = N + 1 - p[b]
    BY <1>1
  <2>2. PICK d \in Nat : x - y = d + 1
    BY <1>1, <1>5, <2>1
  <2>3. d * One \in Nat /\ (d + 1) * One = d * One + One /\ One > 0 /\ One \in Nat
    BY IndexAssumption
  <2>4. x = y + (d + 1)
    BY <2>2
  <2>5. x * One = y * One + (d + 1) * One
    BY <2>3, <2>4
  <2>6. y * One \in Int
    BY <2>3
  <2>7. x * One > y * One
    BY <2>3, <2>5, <2>6
  <2> QED
    BY <1>3, <2>1, <2>7
<1>6. \A a, b \in S : a # b => p[a] < p[b] \/ p[b] < p[a]
  BY <1>1, <1>2
<1>7. \A a \in S : Numbered(p)[a] \in Int
  BY NumberedType
<1>8. ~ Tie(Numbered(p))
  BY <1>4, <1>5, <1>6, <1>7 DEF Tie
<1>9. \A a, b \in S : Numbered(p)[a] > Numbered(p)[b] => p[a] < p[b]
  <2> SUFFICES ASSUME NEW a \in S, NEW b \in S, Numbered(p)[a] > Numbered(p)[b]
               PROVE  p[a] < p[b]
    OBVIOUS
  <2>1. a # b /\ ~ (Numbered(p)[b] > Numbered(p)[a])
    BY <1>7
  <2> QED
    BY <1>5, <1>6, <2>1
<1> QED
  BY <1>4, <1>8, <1>9 DEF Standings

\* As long as no two entries had equal indices, a renumbering moves nobody.
Even(lg) ==
    \A i \in DOMAIN lg : lg[i].type = "REBALANCE" =>
        \A r \in lg[i].rows : r.before = r.after

Steady == ~ tied => ~ Tie(list) /\ Even(log)

\* An event that is no renumbering leaves the log even.
LEMMA AppendEven ==
    ASSUME NEW lg \in Seq(Events), NEW e \in Events, Even(lg),
           e.type = "REBALANCE" => \A r \in e.rows : r.before = r.after
    PROVE  Even(Append(lg, e))
<1> DEFINE new == Append(lg, e)
           n   == Len(lg) + 1
<1>1. /\ DOMAIN new = DOMAIN lg \cup {n}
      /\ new[n] = e
      /\ \A i \in DOMAIN lg : new[i] = lg[i]
  OBVIOUS
<1> HIDE DEF new, n
<1>2. Even(new)
  BY <1>1 DEF Even
<1> QED
  BY <1>2 DEF new

\* Neither does computing an index of a list without ties.
LEMMA SettledEven ==
    ASSUME TypeOK, ~ Tie(list), Even(log),
           NEW above, NEW below, NEW s \in Settled(above, below)
    PROVE  Even(s.log)
<1>1. CASE TooTight(list, above, below)
  <2>1. s \in Rebalances
    BY <1>1 DEF Settled
  <2>2. PICK r \in Standings(list), p \in Standings(list) : \E q \in Standings(s.list) :
           /\ s.list = Numbered(r)
           /\ s.log = Append(log, ListWideEvent("REBALANCE", list, p, s.list, q))
    BY <2>1, RebalanceType
  <2>3. PICK q \in Standings(s.list) :
           s.log = Append(log, ListWideEvent("REBALANCE", list, p, s.list, q))
    BY <2>2
  <2>4. DOMAIN list \in SUBSET Levels /\ s.list \in [DOMAIN list -> Int] /\ list \in [DOMAIN list -> Int]
    BY <2>1, RebalanceType DEF TypeOK
  <2>5. ListWideEvent("REBALANCE", list, p, s.list, q) \in Events
    BY <2>4, ListWideEventType
  <2>6. r \in Standings(s.list) /\ ~ Tie(s.list)
    BY <2>2, <2>4, NumberedStanding DEF Standings
  <2>7. p = r /\ r = q
    BY <2>4, <2>6, OneStanding
  <2>8. \A x \in ListWideEvent("REBALANCE", list, p, s.list, q).rows : x.before = x.after
    <3>1. \A x \in ImpactRows(DOMAIN list \cup DOMAIN s.list, list, p, s.list, q) : x.before = x.after
      BY <2>7 DEF ImpactRows
    <3> QED
      BY <3>1 DEF ListWideEvent
  <2> QED
    BY <2>3, <2>5, <2>8, AppendEven DEF TypeOK
<1>2. CASE ~ TooTight(list, above, below)
  BY <1>2 DEF Settled
<1> QED
  BY <1>1, <1>2

\* Nor does a drop.
LEMMA LandEven ==
    ASSUME TypeOK, ~ Tie(list), Even(log), NEW l \in entries, NEW above, NEW below,
           NeighboursValid(list, above, below),
           NEW type \in {"PLACEMENT", "REORDER", "REMOVED"},
           Land(type, l, above, below)
    PROVE  Even(log')
<1> DEFINE F == DOMAIN list
           G == F \cup {l}
<1>1. PICK s \in Settled(above, below) :
         /\ list' = Put(s.list, l, NewIndex(s.list, above, below))
         /\ RecordMove(type, l, s.list, list', s.log)
  BY DEF Land
<1>2. s.list \in [F -> Int] /\ s.log \in Seq(Events) /\ F \in SUBSET Levels /\ G \in SUBSET Levels
  BY SettledType DEF TypeOK
<1>3. list' \in [G -> Int]
  BY <1>1, <1>2, NewIndexType DEF Put, NeighboursValid
<1>4. PICK p \in Standings(s.list), q \in Standings(list') :
         log' = Append(s.log, MoveEvent(type, l, s.list, p, list', q))
  BY <1>1 DEF RecordMove
<1>5. MoveEvent(type, l, s.list, p, list', q) \in Events
  BY <1>2, <1>3, MoveEventType
<1>6. MoveEvent(type, l, s.list, p, list', q).type # "REBALANCE"
  BY DEF MoveEvent
<1> QED
  BY <1>2, <1>4, <1>5, <1>6, SettledEven, AppendEven

\* A user's first event reads one list in one order.
LEMMA InitSteady == HistoryInit => Steady
<1> SUFFICES ASSUME HistoryInit, ~ tied PROVE Even(log)
  BY DEF Steady, HistoryInit
<1>1. CASE entries = {}
  BY <1>1 DEF HistoryInit, Init, Even
<1>2. CASE entries # {}
  <2>1. PICK p \in Standings(list) : log = <<ListWideEvent("REBALANCE", list, p, list, p)>>
    BY <1>2 DEF HistoryInit, Init
  <2> DEFINE e == ListWideEvent("REBALANCE", list, p, list, p)
  <2>2. \A x \in ImpactRows(DOMAIN list \cup DOMAIN list, list, p, list, p) : x.before = x.after
    BY DEF ImpactRows
  <2>3. \A x \in e.rows : x.before = x.after
    BY <2>2 DEF ListWideEvent
  <2> HIDE DEF e
  <2>4. DOMAIN log = {1} /\ log[1] = e
    BY <2>1 DEF e
  <2> QED
    BY <2>3, <2>4 DEF Even
<1> QED
  BY <1>1, <1>2

\* Every step keeps the log steady.
LEMMA StepSteady == TypeOK /\ Steady /\ [HistoryNext]_historyVars => Steady'
<1> SUFFICES ASSUME TypeOK, Steady, [HistoryNext]_historyVars, ~ tied'
             PROVE  ~ Tie(list') /\ Even(log')
  BY DEF Steady, Tie, Even
<1>0. CASE UNCHANGED historyVars
  BY <1>0 DEF historyVars, Steady
<1> SUFFICES ASSUME HistoryNext PROVE ~ Tie(list') /\ Even(log')
  BY <1>0
<1>a. ~ Tie(list) /\ Even(log) /\ ~ Tie(list')
  BY DEF Steady, HistoryNext
<1>1. ASSUME NEW l \in Levels, NEW above, NEW below, Place(l, above, below)
      PROVE  Even(log')
  BY <1>a, <1>1, LandEven DEF Place
<1>2. ASSUME NEW l \in Levels, NEW above, NEW below, Reorder(l, above, below)
      PROVE  Even(log')
  <2>1. l \in entries
    BY <1>2 DEF Reorder, TypeOK
  <2> QED
    BY <1>a, <1>2, <2>1, LandEven DEF Reorder
<1>3. ASSUME NEW l \in Levels, Unplace(l)
      PROVE  Even(log')
  <2> DEFINE F == DOMAIN list
             G == F \ {l}
  <2>1. F \in SUBSET Levels /\ G \in SUBSET Levels /\ list \in [F -> Int] /\ list' \in [G -> Int]
    BY <1>3 DEF TypeOK, Unplace, Without
  <2>2. PICK p \in Standings(list), q \in Standings(list') :
           log' = Append(log, MoveEvent("REMOVED", l, list, p, list', q))
    BY <1>3 DEF Unplace, RecordMove
  <2>3. MoveEvent("REMOVED", l, list, p, list', q) \in Events
    BY <1>3, <2>1, MoveEventType DEF Unplace
  <2>4. MoveEvent("REMOVED", l, list, p, list', q).type # "REBALANCE"
    BY DEF MoveEvent
  <2> QED
    BY <1>a, <2>2, <2>3, <2>4, AppendEven DEF TypeOK
<1>4. ASSUME NEW S \in SUBSET Levels, NEW p \in Orders[S], BulkReplace(S, p)
      PROVE  Even(log')
  <2>1. list' \in [S -> Int] /\ DOMAIN list \in SUBSET Levels /\ list \in [DOMAIN list -> Int]
    BY <1>4, NumberedType DEF BulkReplace, TypeOK
  <2>2. PICK q \in Standings(list), r \in Standings(list') :
           log' = Append(log, ListWideEvent("BULK_REPLACE", list, q, list', r))
    BY <1>4 DEF BulkReplace
  <2>3. ListWideEvent("BULK_REPLACE", list, q, list', r) \in Events
    BY <2>1, ListWideEventType
  <2>4. ListWideEvent("BULK_REPLACE", list, q, list', r).type # "REBALANCE"
    BY DEF ListWideEvent
  <2> QED
    BY <1>a, <2>2, <2>3, <2>4, AppendEven DEF TypeOK
<1>5. ASSUME NEW l \in Levels, CreateEntry(l) \/ DeleteEntry(l)
      PROVE  Even(log')
  <2>1. /\ DOMAIN log' = DOMAIN log
        /\ \A i \in DOMAIN log : log'[i] \in {log[i], Purged}
    BY <1>5 DEF CreateEntry, DeleteEntry
  <2>2. Purged.type # "REBALANCE"
    BY DEF Purged
  <2> QED
    BY <1>a, <2>1, <2>2 DEF Even
<1> QED
  BY <1>a, <1>1, <1>2, <1>3, <1>4, <1>5 DEF HistoryNext, Next
-----------------------------------------------------------------------------
(* The walk.                                                               *)

\* A set of natural numbers has a least one.
LEMMA LeastNat ==
    ASSUME NEW S \in SUBSET Nat, S # {}
    PROVE  \E n \in S : \A m \in S : n <= m
<1> DEFINE R == {ss \in Nat \X Nat : ss[1] < ss[2]}
<1>1. IsWellFoundedOn(R, Nat)
  BY NatLessThanWellFounded DEF OpToRel
<1>2. \A n, m \in Nat : n < m => <<n, m>> \in R
  OBVIOUS
<1> HIDE DEF R
<1>3. PICK n \in S : \A m \in S : ~ (<<m, n>> \in R)
  BY <1>1, WFMin
<1>4. \A m \in S : ~ (m < n)
  BY <1>2, <1>3
<1> QED
  BY <1>4

\* What holds at k and passes from each number to the next holds from k to n.
LEMMA Onwards ==
    ASSUME NEW k \in Nat, NEW n \in Nat, NEW G, k \in G,
           \A i \in k..n : i # k /\ i - 1 \in G => i \in G
    PROVE  \A i \in k..n : i \in G
<1> DEFINE S == {i \in k..n : i \notin G}
<1>1. SUFFICES ASSUME S # {} PROVE FALSE
  OBVIOUS
<1>2. S \in SUBSET Nat
  OBVIOUS
<1> HIDE DEF S
<1>3. PICK m \in S : \A i \in S : m <= i
  BY <1>1, <1>2, LeastNat
<1>4. m # k /\ m \in k..n /\ m - 1 \in k..n /\ ~ (m <= m - 1)
  BY DEF S
<1>5. m - 1 \notin S
  BY <1>3, <1>4
<1>6. m - 1 \in G
  BY <1>4, <1>5 DEF S
<1> QED
  BY <1>4, <1>6 DEF S

Start == [indices |-> [m \in {} |-> 0], drift |-> 0, entries |-> <<>>]

\* w is what the walk for l holds after each of the first n events.
IsWalk(w, n, l) ==
    w = [i \in 0..n |-> IF i = 0 THEN Start ELSE Visit(w[i - 1], i, l)]

\* There is such a function, however long the log.
LEMMA WalkExists ==
    ASSUME NEW l, NEW n \in Nat
    PROVE  \E w : IsWalk(w, n, l)
<1> DEFINE G == {i \in Nat : \E w : IsWalk(w, i, l)}
<1>1. 0 \in G
  <2>1. IsWalk([i \in 0..0 |-> Start], 0, l)
    BY DEF IsWalk
  <2> QED
    BY <2>1
<1>2. ASSUME NEW m \in 1..n, m - 1 \in G PROVE m \in G
  <2>1. PICK w : IsWalk(w, m - 1, l)
    BY <1>2
  <2> DEFINE v == [i \in 0..m |-> IF i = m THEN Visit(w[m - 1], m, l) ELSE w[i]]
  <2>2. ASSUME NEW i \in 0..m
        PROVE  v[i] = IF i = 0 THEN Start ELSE Visit(v[i - 1], i, l)
    <3>1. CASE i = m
      BY <3>1
    <3>2. CASE i # m
      <4>1. i \in 0..(m - 1) /\ (i # 0 => i - 1 \in 0..(m - 1))
        BY <3>2
      <4>2. w[i] = IF i = 0 THEN Start ELSE Visit(w[i - 1], i, l)
        BY <2>1, <4>1 DEF IsWalk
      <4>3. v[i] = w[i] /\ (i # 0 => v[i - 1] = w[i - 1])
        BY <3>2, <4>1
      <4> QED
        BY <4>2, <4>3
    <3> QED
      BY <3>1, <3>2
  <2>3. v = [i \in 0..m |-> v[i]]
    OBVIOUS
  <2> HIDE DEF v
  <2>4. IsWalk(v, m, l)
    BY <2>2, <2>3 DEF IsWalk
  <2> QED
    BY <2>4
<1>3. n \in 0..n /\ \A i \in 0..n : i # 0 => i \in 1..n
  OBVIOUS
<1> HIDE DEF G
<1>4. n \in G
  BY <1>1, <1>2, <1>3, Onwards
<1> QED
  BY <1>4 DEF G

\* And Walk is where it ends.
LEMMA WalkEnds ==
    ASSUME NEW l, Len(log) \in Nat
    PROVE  \E w : IsWalk(w, Len(log), l) /\ Walk(l) = w[Len(log)]
<1>1. \E w : IsWalk(w, Len(log), l)
  BY WalkExists
<1>2. PICK w : IsWalk(w, Len(log), l) /\ w = CHOOSE v : IsWalk(v, Len(log), l)
  BY <1>1
<1>3. Walk(l) = w[Len(log)]
  BY <1>2 DEF Walk, IsWalk, Start
<1> QED
  BY <1>2, <1>3

\* The walk starts with nothing and visits one event after the other.
LEMMA WalkSteps ==
    ASSUME NEW l, NEW n \in Nat, NEW w, IsWalk(w, n, l)
    PROVE  /\ w[0] = Start
           /\ \A i \in 1..n : w[i] = Visit(w[i - 1], i, l)
BY DEF IsWalk

\* What an event's rows make of a level's place in the map of indices.
LEMMA AppliedDomain ==
    ASSUME NEW indices, NEW rows, NEW m
    PROVE  m \in DOMAIN Applied(indices, rows) <=>
              /\ m \in DOMAIN indices \/ \E r \in rows : r.level = m /\ r.after # 0
              /\ \A r \in rows : r.level = m => r.after # 0
BY DEF Applied

LEMMA AppliedIndex ==
    ASSUME NEW indices, NEW rows, NEW m \in DOMAIN Applied(indices, rows), NEW x,
           \A r \in rows : r.level = m => r.index = x,
           (\A r \in rows : r.level # m) => indices[m] = x
    PROVE  Applied(indices, rows)[m] = x
<1> DEFINE S == {r \in rows : r.after # 0}
<1>1. Applied(indices, rows)[m] = IF \E r \in S : r.level = m
                                  THEN (CHOOSE r \in S : r.level = m).index
                                  ELSE indices[m]
  BY DEF Applied
<1>2. CASE \E r \in S : r.level = m
  <2>1. (CHOOSE r \in S : r.level = m) \in S /\ (CHOOSE r \in S : r.level = m).level = m
    BY <1>2
  <2> QED
    BY <1>1, <1>2, <2>1
<1>3. CASE ~ \E r \in S : r.level = m
  <2>1. \A r \in rows : r.level # m
    BY <1>3, AppliedDomain
  <2> QED
    BY <1>1, <1>3, <2>1
<1> QED
  BY <1>2, <1>3

\* The map does not depend on whose history is walked.
LEMMA VisitIndices ==
    ASSUME NEW v, NEW i, NEW l
    PROVE  Visit(v, i, l).indices = Applied(v.indices, log[i].rows)
BY DEF Visit

\* So the maps of the walk are the log applied event by event.
LEMMA WalkMaps ==
    ASSUME TypeOK, NEW l, NEW w, IsWalk(w, Len(log), l)
    PROVE  /\ Len(log) \in Nat /\ DOMAIN log = 1..Len(log)
           /\ DOMAIN w[0].indices = {}
           /\ \A i \in 1..Len(log) : w[i].indices = Applied(w[i - 1].indices, log[i].rows)
<1>1. Len(log) \in Nat /\ DOMAIN log = 1..Len(log)
  BY DEF TypeOK
<1>2. w[0] = Start
  BY <1>1, WalkSteps
<1>3. DOMAIN w[0].indices = {}
  BY <1>2 DEF Start
<1>4. ASSUME NEW i \in 1..Len(log)
      PROVE  w[i].indices = Applied(w[i - 1].indices, log[i].rows)
  <2>1. w[i] = Visit(w[i - 1], i, l)
    BY <1>1, WalkSteps
  <2> QED
    BY <2>1, VisitIndices
<1> QED
  BY <1>1, <1>3, <1>4

\* What the rows of the log hold.
LEMMA RowTypes ==
    ASSUME TypeOK, NEW i \in DOMAIN log, NEW r \in log[i].rows
    PROVE  r.level \in Levels /\ r.index \in Int /\ r.before \in Nat /\ r.after \in Nat
<1>1. log[i] \in Events
  BY DEF TypeOK
<1>2. r \in ImpactRow
  BY <1>1 DEF Events
<1> QED
  BY <1>2 DEF ImpactRow

\* The map holds levels only.
LEMMA WalkLevels ==
    ASSUME TypeOK, NEW l, NEW w, IsWalk(w, Len(log), l)
    PROVE  \A i \in 0..Len(log) : DOMAIN w[i].indices \subseteq Levels
<1> DEFINE n == Len(log)
           G == {i \in 0..n : DOMAIN w[i].indices \subseteq Levels}
<1>1. /\ n \in Nat /\ DOMAIN log = 1..n /\ 0 \in 0..n /\ \A i \in 0..n : i # 0 => i \in 1..n
      /\ DOMAIN w[0].indices = {}
  BY WalkMaps
<1>2. 0 \in G
  BY <1>1
<1>3. ASSUME NEW i \in 1..n, i - 1 \in G PROVE i \in G
  <2>1. w[i].indices = Applied(w[i - 1].indices, log[i].rows)
    BY WalkMaps
  <2>2. \A r \in log[i].rows : r.level \in Levels
    BY <1>1, RowTypes
  <2>3. DOMAIN w[i].indices \subseteq Levels
    BY <1>3, <2>1, <2>2, AppliedDomain
  <2> QED
    BY <2>3
<1> HIDE DEF G, n
<1>4. \A i \in 0..n : i \in G
  BY <1>1, <1>2, <1>3, Onwards
<1> QED
  BY <1>4 DEF G, n

\* From its anchor on, the map holds a placed level with its index.
LEMMA WalkAnchored ==
    ASSUME TypeOK, NEW l, NEW w, IsWalk(w, Len(log), l),
           NEW m \in DOMAIN list, NEW k \in DOMAIN log, Anchors(list, log, k, m)
    PROVE  \A i \in k..Len(log) : m \in DOMAIN w[i].indices /\ w[i].indices[m] = list[m]
<1> DEFINE n == Len(log)
           G == {i \in k..n : m \in DOMAIN w[i].indices /\ w[i].indices[m] = list[m]}
<1>1. n \in Nat /\ DOMAIN log = 1..n /\ k \in Nat /\ k \in 1..n
  BY WalkMaps
<1>2. \A i \in k..n : w[i].indices = Applied(w[i - 1].indices, log[i].rows)
  BY <1>1, WalkMaps
<1>3. \A i \in k..n : \A r \in log[i].rows : r.level = m => r.index = list[m] /\ r.after # 0
  <2> SUFFICES ASSUME NEW i \in k..n, NEW r \in log[i].rows, r.level = m
               PROVE  r.index = list[m] /\ r.after # 0
    OBVIOUS
  <2>1. i \in DOMAIN log /\ i >= k
    BY <1>1
  <2>2. Says(log[i], m, list[m])
    BY <2>1 DEF Anchors
  <2>3. r.after \in Nat
    BY <2>1, RowTypes
  <2> QED
    BY <2>2, <2>3 DEF Says
<1>4. k \in G
  <2>1. \E r \in log[k].rows : r.level = m
    BY DEF Anchors, Names
  <2>2. k \in k..n
    BY <1>1
  <2>3. m \in DOMAIN w[k].indices
    BY <1>2, <1>3, <2>1, <2>2, AppliedDomain
  <2>4. Applied(w[k - 1].indices, log[k].rows)[m] = list[m]
    <3>1. m \in DOMAIN Applied(w[k - 1].indices, log[k].rows)
      BY <1>2, <2>2, <2>3
    <3>2. /\ \A r \in log[k].rows : r.level = m => r.index = list[m]
          /\ ~ \A r \in log[k].rows : r.level # m
      BY <1>3, <2>1, <2>2
    <3> QED
      BY <3>1, <3>2, AppliedIndex
  <2> QED
    BY <1>2, <2>2, <2>3, <2>4
<1>5. ASSUME NEW i \in k..n, i - 1 \in G PROVE i \in G
  <2>1. i \in k..n
    OBVIOUS
  <2>2. m \in DOMAIN w[i].indices
    BY <1>2, <1>3, <1>5, <2>1, AppliedDomain
  <2>3. Applied(w[i - 1].indices, log[i].rows)[m] = list[m]
    <3> DEFINE f == w[i - 1].indices
               rows == log[i].rows
               x == list[m]
    <3>1. m \in DOMAIN Applied(f, rows)
      BY <1>2, <2>2
    <3>2. f[m] = x
      BY <1>5
    <3>3. \A r \in rows : r.level = m => r.index = x
      BY <1>3
    <3> HIDE DEF f, rows, x
    <3>4. Applied(f, rows)[m] = x
      BY <3>1, <3>2, <3>3, AppliedIndex
    <3> QED
      BY <3>4 DEF f, rows, x
  <2> QED
    BY <1>2, <2>2, <2>3
<1> HIDE DEF G, n
<1>6. \A i \in k..n : i \in G
  BY <1>1, <1>4, <1>5, Onwards
<1> QED
  BY <1>6 DEF G, n

\* The map holds a traced level when it was on the list.
LEMMA WalkTraced ==
    ASSUME TypeOK, NEW l, NEW w, IsWalk(w, Len(log), l), NEW m, NEW T, PlacedAt(T, m, list, log)
    PROVE  \A i \in 1..Len(log) : m \in DOMAIN w[i].indices <=> i \in T
<1> DEFINE n == Len(log)
           G == {i \in 0..n : i # 0 => (m \in DOMAIN w[i].indices <=> i \in T)}
<1>1. /\ n \in Nat /\ DOMAIN log = 1..n /\ 0 \in 0..n /\ \A i \in 0..n : i # 0 => i \in 1..n
      /\ DOMAIN w[0].indices = {}
  BY WalkMaps
<1>2. 0 \in G
  BY <1>1
<1>3. ASSUME NEW i \in 1..n, i - 1 \in G PROVE i \in G
  <2>1. w[i].indices = Applied(w[i - 1].indices, log[i].rows)
    BY WalkMaps
  <2>2. /\ \/ i \in T <=> i - 1 \in T
           \/ Names(log[i], m)
        /\ \A r \in log[i].rows : r.level = m => (r.after # 0 <=> i \in T)
    BY <1>1 DEF PlacedAt
  <2>3. CASE Names(log[i], m)
    BY <2>1, <2>2, <2>3, AppliedDomain DEF Names
  <2>4. CASE ~ Names(log[i], m)
    <3>1. m \in DOMAIN w[i].indices <=> m \in DOMAIN w[i - 1].indices
      BY <2>1, <2>4, AppliedDomain DEF Names
    <3>2. CASE i = 1
      <4>1. m \notin DOMAIN w[0].indices
        BY <1>1
      <4>2. 0 \notin T
        BY <2>4, <3>2 DEF PlacedAt
      <4> QED
        BY <2>2, <2>4, <3>1, <3>2, <4>1, <4>2
    <3>3. CASE i # 1
      BY <1>3, <2>2, <2>4, <3>1, <3>3
    <3> QED
      BY <3>2, <3>3
  <2> QED
    BY <2>3, <2>4
<1> HIDE DEF G, n
<1>4. \A i \in 0..n : i \in G
  BY <1>1, <1>2, <1>3, Onwards
<1> QED
  BY <1>4 DEF G, n

\* So the map ends as the list.
LEMMA TracedWalkReaches == TypeOK /\ Anchored /\ AllTraced => WalkReachesList
<1> SUFFICES ASSUME TypeOK, Anchored, AllTraced, NEW l \in Levels
             PROVE  /\ DOMAIN list \subseteq DOMAIN Walk(l).indices
                    /\ \A m \in DOMAIN list : Walk(l).indices[m] = list[m]
                    /\ DOMAIN Walk(l).indices \ DOMAIN list \subseteq erased
  BY DEF WalkReachesList
<1> DEFINE n == Len(log)
<1>1. n \in Nat /\ DOMAIN log = 1..n
  BY DEF TypeOK
<1>2. PICK w : IsWalk(w, n, l) /\ Walk(l) = w[n]
  BY <1>1, WalkEnds
<1>3. ASSUME NEW m \in DOMAIN list
      PROVE  m \in DOMAIN w[n].indices /\ w[n].indices[m] = list[m]
  <2>1. PICK k \in DOMAIN log : Anchors(list, log, k, m)
    BY DEF Anchored, AnchoredIn
  <2>2. n \in k..n
    BY <1>1
  <2> QED
    BY <1>2, <2>1, <2>2, WalkAnchored
<1>4. ASSUME NEW m \in DOMAIN w[n].indices, m \notin erased
      PROVE  m \in DOMAIN list
  <2>1. m \in Levels
    BY <1>1, <1>2, WalkLevels
  <2>2. PICK T : PlacedAt(T, m, list, log)
    BY <1>4, <2>1 DEF AllTraced, Traced
  <2>3. n # 0
    BY <1>1, <1>2, <1>4, WalkMaps
  <2>4. n \in T
    BY <1>1, <1>2, <2>2, <2>3, WalkTraced
  <2> QED
    BY <2>2, <2>4 DEF PlacedAt
<1> QED
  BY <1>2, <1>3, <1>4

\* services/activityLog/rankHistory.ts: whatever was placed, moved, renumbered,
\* imported, removed and deleted, the map of a walk over the log ends as the list
\* is, save for levels whose own last event went with their entry.
THEOREM WalkEndsAtList == HistorySpec => []WalkReachesList
<1> DEFINE Inv == TypeOK /\ Anchored /\ AllTraced
<1>1. HistoryInit => Inv
  BY InitType, InitAnchored, InitTraced DEF HistoryInit
<1>2. Inv /\ [HistoryNext]_historyVars => Inv'
  <2>1. [HistoryNext]_historyVars => [Next]_vars
    BY DEF HistoryNext, historyVars, vars
  <2> QED
    BY <2>1, StepType, StepAnchored, StepTraced
<1>3. Inv => WalkReachesList
  BY TracedWalkReaches
<1> QED
  BY <1>1, <1>2, <1>3, PTL DEF HistorySpec
-----------------------------------------------------------------------------
(* The history.                                                            *)

HistoryEntry == [kind : {"DIRECT", "INDIRECT", "UNATTRIBUTED"}, before : Int, after : Int]

\* The entries of h join up and end at the position x.
ChainTo(h, x) ==
    /\ h \in Seq(HistoryEntry)
    /\ \A i \in 1..(Len(h) - 1) : h[i].after = h[i + 1].before
    /\ h # <<>> => h[Len(h)].after = x

\* An entry that starts where the chain ends goes on with it.
LEMMA ChainOn ==
    ASSUME NEW h, NEW x \in Int, NEW y \in Int, ChainTo(h, x),
           NEW kind \in {"DIRECT", "INDIRECT", "UNATTRIBUTED"}
    PROVE  /\ ChainTo(Append(h, Entry(kind, x, y)), y)
           /\ h \o <<Entry(kind, x, y)>> = Append(h, Entry(kind, x, y))
<1> DEFINE e == Entry(kind, x, y)
           g == Append(h, e)
<1>1. e \in HistoryEntry /\ e.before = x /\ e.after = y
  BY DEF Entry, HistoryEntry
<1>2. h \in Seq(HistoryEntry)
  BY DEF ChainTo
<1> HIDE DEF e
<1>3. h \o <<e>> = g /\ g \in Seq(HistoryEntry)
  BY <1>1, <1>2
<1>4. /\ Len(h) \in Nat /\ Len(g) = Len(h) + 1
      /\ g[Len(h) + 1] = e
      /\ \A i \in 1..Len(h) : g[i] = h[i]
      /\ Len(h) # 0 => h # <<>>
  BY <1>1, <1>2
<1> HIDE DEF g
<1>5. ASSUME NEW i \in 1..(Len(g) - 1) PROVE g[i].after = g[i + 1].before
  <2>1. i \in 1..Len(h) /\ g[i] = h[i]
    BY <1>4
  <2>2. CASE i = Len(h)
    <3>1. h # <<>> /\ g[i + 1] = e
      BY <1>4, <2>1, <2>2
    <3> QED
      BY <1>1, <2>1, <2>2, <3>1 DEF ChainTo
  <2>3. CASE i # Len(h)
    <3>1. i \in 1..(Len(h) - 1) /\ i + 1 \in 1..Len(h)
      BY <1>4, <2>1, <2>3
    <3> QED
      BY <1>4, <2>1, <3>1 DEF ChainTo
  <2> QED
    BY <2>2, <2>3
<1>6. ChainTo(g, y)
  BY <1>1, <1>3, <1>4, <1>5 DEF ChainTo
<1> QED
  BY <1>3, <1>6 DEF e, g

\* The position of a level in a map of indices.
LEMMA PlaceType ==
    ASSUME NEW f, DOMAIN f \subseteq Levels, NEW l
    PROVE  PlaceIn(f, l) \in Nat /\ (PlaceIn(f, l) # 0 <=> l \in DOMAIN f)
<1> DEFINE S == {m \in DOMAIN f : f[m] > f[l]}
<1>1. Cardinality(S) \in Nat
  BY Sizes
<1> HIDE DEF S
<1>2. PlaceIn(f, l) = IF l \in DOMAIN f THEN 1 + Cardinality(S) ELSE 0
  BY DEF PlaceIn, S
<1> QED
  BY <1>1, <1>2

\* The position the walk v holds for l.
Held(v, l) == IF l \in DOMAIN v.indices THEN PlaceIn(v.indices, l) + v.drift ELSE 0

\* The walk v has a whole chain that ends at the position it holds.
Whole(v, l) == v.drift \in Int /\ ChainTo(v.entries, Held(v, l))

\* An event without a row of l leaves the chain whole.
LEMMA WholeWithoutRow ==
    ASSUME NEW l, NEW i, NEW v, Whole(v, l), RowsFor(i, l) = {},
           DOMAIN v.indices \subseteq Levels, DOMAIN Visit(v, i, l).indices \subseteq Levels,
           l \in DOMAIN v.indices <=> l \in DOMAIN Visit(v, i, l).indices,
           log[i].type = "REBALANCE" => l \notin DOMAIN v.indices
    PROVE  Whole(Visit(v, i, l), l)
<1> DEFINE new    == Visit(v, i, l)
           before == PlaceIn(v.indices, l)
           after  == PlaceIn(new.indices, l)
           more   == IndirectEntries(log[i].type, v.drift, before, after)
<1>1. new.drift = v.drift /\ new.entries = v.entries \o more
  BY VisitIndices DEF Visit
<1>2. /\ before \in Nat /\ after \in Nat /\ v.drift \in Int
      /\ before # 0 <=> l \in DOMAIN v.indices
      /\ after # 0 <=> l \in DOMAIN v.indices
  BY PlaceType DEF Whole
<1>3. Held(v, l) = (IF before # 0 THEN before + v.drift ELSE 0)
  BY <1>2 DEF Held
<1>4. Held(new, l) = (IF after # 0 THEN after + v.drift ELSE 0)
  BY <1>1, <1>2 DEF Held
<1>5. v.entries \o <<>> = v.entries
  BY DEF Whole, ChainTo
<1> HIDE DEF new, before, after
<1>6. CASE more = <<>>
  <2>1. Held(new, l) = Held(v, l)
    BY <1>2, <1>3, <1>4, <1>6 DEF IndirectEntries
  <2> QED
    BY <1>1, <1>2, <1>5, <1>6, <2>1 DEF Whole, new
<1>7. CASE more # <<>>
  <2>1. more = <<Entry("INDIRECT", before + v.drift, after + v.drift)>> /\ before # 0 /\ after # 0
    BY <1>7 DEF IndirectEntries
  <2>2. ChainTo(v.entries, before + v.drift)
    BY <1>3, <2>1 DEF Whole
  <2>3. before + v.drift \in Int /\ after + v.drift \in Int
    BY <1>2
  <2> HIDE DEF more
  <2>4. ChainTo(v.entries \o more, after + v.drift)
    <3> DEFINE x == before + v.drift
               y == after + v.drift
    <3> HIDE DEF x, y
    <3>1. ChainTo(v.entries, x) /\ x \in Int /\ y \in Int /\ more = <<Entry("INDIRECT", x, y)>>
      BY <2>1, <2>2, <2>3 DEF x, y
    <3>2. ChainTo(v.entries \o more, y)
      BY <3>1, ChainOn
    <3> QED
      BY <3>2 DEF y
  <2> QED
    BY <1>1, <1>2, <1>4, <2>1, <2>4 DEF Whole, new
<1> QED
  BY <1>6, <1>7

\* A row of l that starts from nothing while the walk has nothing, or that starts
\* from a position while the walk has one, leaves the chain whole; so does the
\* baseline, before which there is no chain.
LEMMA WholeWithRow ==
    ASSUME NEW l, NEW i, NEW v, Whole(v, l), RowsFor(i, l) # {},
           DOMAIN v.indices \subseteq Levels, DOMAIN Visit(v, i, l).indices \subseteq Levels,
           \A r \in RowsFor(i, l) :
              /\ r.before \in Nat /\ r.after \in Nat
              /\ r.after # 0 <=> l \in DOMAIN Visit(v, i, l).indices
              /\ \/ r.before # 0 <=> l \in DOMAIN v.indices
                 \/ log[i].type = "REBALANCE" /\ v.entries = <<>> /\ l \notin DOMAIN v.indices
              /\ log[i].type = "REBALANCE" => r.before = r.after
    PROVE  Whole(Visit(v, i, l), l)
<1> DEFINE new    == Visit(v, i, l)
           before == PlaceIn(v.indices, l)
           after  == PlaceIn(new.indices, l)
           row    == CHOOSE r \in RowsFor(i, l) : TRUE
           held   == before + v.drift
           one    == IF before # 0 /\ Missed(held, row)
                     THEN <<Entry("UNATTRIBUTED", held, row.before)>> ELSE <<>>
           two    == IF log[i].type = "REBALANCE"
                     THEN <<>> ELSE <<Entry("DIRECT", row.before, row.after)>>
<1>1. /\ new.drift = DriftAfter(v.drift, before, after, row)
      /\ new.entries = v.entries \o (one \o two)
  BY VisitIndices DEF Visit, OwnEntries
<1>2. row \in RowsFor(i, l)
  OBVIOUS
<1>3. /\ before \in Nat /\ after \in Nat /\ v.drift \in Int
      /\ before # 0 <=> l \in DOMAIN v.indices
      /\ after # 0 <=> l \in DOMAIN new.indices
  BY PlaceType DEF Whole
<1>4. /\ row.before \in Nat /\ row.after \in Nat
      /\ row.after # 0 <=> after # 0
      /\ \/ row.before # 0 <=> before # 0
         \/ log[i].type = "REBALANCE" /\ v.entries = <<>> /\ before = 0
      /\ log[i].type = "REBALANCE" => row.before = row.after
  BY <1>2, <1>3
<1>5. ChainTo(v.entries, IF before # 0 THEN held ELSE 0)
  BY <1>3 DEF Whole, Held
<1> HIDE DEF row, new, before, after
<1>6. new.drift \in Int /\ (after # 0 => new.drift = row.after - after)
  BY <1>1, <1>3, <1>4 DEF DriftAfter
<1>7. Held(new, l) = row.after
  <2>1. Held(new, l) = IF after # 0 THEN after + new.drift ELSE 0
    BY <1>3 DEF Held, after
  <2> QED
    BY <1>3, <1>4, <1>6, <2>1
<1>8. held \in Int
  BY <1>3
<1> DEFINE mid == v.entries \o one
<1>9. \/ ChainTo(mid, row.before)
      \/ log[i].type = "REBALANCE" /\ mid = <<>>
  <2>1. CASE before # 0 /\ Missed(held, row)
    <3>1. one = <<Entry("UNATTRIBUTED", held, row.before)>>
      BY <2>1
    <3>2. ChainTo(v.entries, held) /\ row.before \in Int
      BY <1>4, <1>5, <2>1
    <3> QED
      BY <1>8, <3>1, <3>2, ChainOn
  <2>2. CASE before # 0 /\ ~ Missed(held, row)
    <3>1. one = <<>> /\ mid = v.entries
      BY <1>5, <2>2 DEF ChainTo
    <3>2. row.before = held
      BY <1>4, <2>2 DEF Missed
    <3> QED
      BY <1>5, <2>2, <3>1, <3>2
  <2>3. CASE before = 0
    <3>1. one = <<>> /\ mid = v.entries
      BY <1>5, <2>3 DEF ChainTo
    <3> QED
      BY <1>4, <1>5, <2>3, <3>1
  <2> QED
    BY <2>1, <2>2, <2>3
<1>10. ChainTo(new.entries, row.after)
  <2>1. CASE log[i].type = "REBALANCE"
    <3>1. two = <<>> /\ one \o two = one
      BY <2>1
    <3>2. ChainTo(<<>>, row.after)
      BY DEF ChainTo
    <3> QED
      BY <1>1, <1>4, <1>9, <2>1, <3>1, <3>2
  <2>2. CASE log[i].type # "REBALANCE"
    <3>1. ChainTo(mid, row.before) /\ two = <<Entry("DIRECT", row.before, row.after)>>
      BY <1>9, <2>2
    <3>2. row.before \in Int /\ row.after \in Int
      BY <1>4
    <3>3. ChainTo(mid \o two, row.after)
      BY <3>1, <3>2, ChainOn
    <3>4. mid \o two = v.entries \o (one \o two)
      <4>1. v.entries \in Seq(HistoryEntry)
        BY <1>5 DEF ChainTo
      <4>2. one \in Seq(HistoryEntry) /\ two \in Seq(HistoryEntry)
        <5> DEFINE a == Entry("UNATTRIBUTED", held, row.before)
                   b == Entry("DIRECT", row.before, row.after)
        <5>1. a \in HistoryEntry /\ b \in HistoryEntry
          BY <1>4, <1>8 DEF Entry, HistoryEntry
        <5> HIDE DEF a, b
        <5>2. one \in {<<>>, <<a>>} /\ two \in {<<>>, <<b>>}
          BY DEF a, b
        <5>3. <<>> \in Seq(HistoryEntry) /\ <<a>> \in Seq(HistoryEntry) /\ <<b>> \in Seq(HistoryEntry)
          BY <5>1
        <5> HIDE DEF one, two
        <5> QED
          BY <5>2, <5>3
      <4>3. \A s, t, u \in Seq(HistoryEntry) : (s \o t) \o u = s \o (t \o u)
        BY ConcatAssociative
      <4> HIDE DEF one, two
      <4> QED
        BY <4>1, <4>2, <4>3
    <3> QED
      BY <1>1, <3>3, <3>4
  <2> QED
    BY <2>1, <2>2
<1> QED
  BY <1>6, <1>7, <1>10 DEF Whole, new

\* So the chain of a traced level is whole after every event, if no renumbering
\* moved anybody.
LEMMA WalkWhole ==
    ASSUME TypeOK, Even(log), NEW l, NEW w, IsWalk(w, Len(log), l), Traced(l, list, log)
    PROVE  Whole(w[Len(log)], l)
<1> DEFINE n == Len(log)
           G == {i \in 0..n : Whole(w[i], l)}
<1>1. /\ n \in Nat /\ DOMAIN log = 1..n /\ 0 \in 0..n /\ n \in 0..n
      /\ \A i \in 0..n : i # 0 => i \in 1..n
      /\ DOMAIN w[0].indices = {}
      /\ \A i \in 0..n : DOMAIN w[i].indices \subseteq Levels
  BY WalkMaps, WalkLevels
<1>2. /\ w[0] = Start
      /\ \A i \in 1..n : w[i] = Visit(w[i - 1], i, l)
  BY <1>1, WalkSteps
<1>3. PICK T : PlacedAt(T, l, list, log)
  BY DEF Traced
<1>4. \A i \in 1..n : l \in DOMAIN w[i].indices <=> i \in T
  BY <1>3, WalkTraced
<1>5. 0 \in G
  <2>1. w[0].drift = 0 /\ w[0].entries = <<>>
    BY <1>2 DEF Start
  <2>2. ChainTo(<<>>, Held(w[0], l))
    BY DEF ChainTo
  <2> QED
    BY <1>1, <2>1, <2>2 DEF Whole
<1>6. ASSUME NEW i \in 1..n, i - 1 \in G PROVE i \in G
  <2> DEFINE v == w[i - 1]
  <2>1. w[i] = Visit(v, i, l) /\ Whole(v, l) /\ i - 1 \in 0..n /\ i \in 0..n /\ i \in DOMAIN log
    BY <1>1, <1>2, <1>6
  <2>2. DOMAIN v.indices \subseteq Levels /\ DOMAIN Visit(v, i, l).indices \subseteq Levels
    BY <1>1, <2>1
  <2>3. l \in DOMAIN Visit(v, i, l).indices <=> i \in T
    BY <1>4, <2>1
  <2>4. \/ l \in DOMAIN v.indices <=> i - 1 \in T
        \/ /\ log[i].type = "REBALANCE" /\ Names(log[i], l)
           /\ v.entries = <<>> /\ l \notin DOMAIN v.indices
    <3>1. CASE i = 1
      <4>1. v.entries = <<>> /\ DOMAIN v.indices = {}
        BY <1>1, <1>2, <3>1 DEF Start
      <4> QED
        BY <1>3, <3>1, <4>1 DEF PlacedAt
    <3>2. CASE i # 1
      <4>1. i - 1 \in 1..n
        BY <1>1, <3>2
      <4> QED
        BY <1>4, <4>1
    <3> QED
      BY <3>1, <3>2
  <2>5. CASE RowsFor(i, l) = {}
    <3>1. ~ Names(log[i], l)
      BY <2>5 DEF RowsFor, Names
    <3>2. /\ i \in T <=> i - 1 \in T
          /\ log[i].type = "REBALANCE" => i \notin T
      BY <1>3, <2>1, <3>1 DEF PlacedAt
    <3>3. /\ l \in DOMAIN v.indices <=> l \in DOMAIN Visit(v, i, l).indices
          /\ log[i].type = "REBALANCE" => l \notin DOMAIN v.indices
      BY <2>3, <2>4, <3>1, <3>2
    <3> HIDE DEF v
    <3>4. Whole(Visit(v, i, l), l)
      BY <2>1, <2>2, <2>5, <3>3, WholeWithoutRow
    <3> QED
      BY <2>1, <3>4
  <2>6. CASE RowsFor(i, l) # {}
    <3>1. ASSUME NEW r \in RowsFor(i, l)
          PROVE  /\ r.before \in Nat /\ r.after \in Nat
                 /\ r.after # 0 <=> l \in DOMAIN Visit(v, i, l).indices
                 /\ \/ r.before # 0 <=> l \in DOMAIN v.indices
                    \/ log[i].type = "REBALANCE" /\ v.entries = <<>> /\ l \notin DOMAIN v.indices
                 /\ log[i].type = "REBALANCE" => r.before = r.after
      <4>1. r \in log[i].rows /\ r.level = l
        BY DEF RowsFor
      <4>2. r.before \in Nat /\ r.after \in Nat
        BY <2>1, <4>1, RowTypes
      <4>3. /\ r.before # 0 <=> i - 1 \in T
            /\ r.after # 0 <=> i \in T
        BY <1>3, <2>1, <4>1 DEF PlacedAt
      <4>4. log[i].type = "REBALANCE" => r.before = r.after
        BY <2>1, <4>1 DEF Even
      <4> HIDE DEF v
      <4> QED
        BY <2>3, <2>4, <4>2, <4>3, <4>4
    <3> HIDE DEF v
    <3>2. Whole(Visit(v, i, l), l)
      BY <2>1, <2>2, <2>6, <3>1, WholeWithRow
    <3> QED
      BY <2>1, <3>2
  <2> QED
    BY <2>5, <2>6
<1> HIDE DEF G, n
<1>7. \A i \in 0..n : i \in G
  BY <1>1, <1>5, <1>6, Onwards
<1> QED
  BY <1>1, <1>7 DEF G, n

\* The last check closes the chain at the level's position in the list.
LEMMA WholeHistory ==
    ASSUME TypeOK, Anchored, AllTraced, Even(log), NEW l \in Levels \ erased
    PROVE  ChainTo(History(l), PlaceIn(list, l))
<1> DEFINE walk  == Walk(l)
           now   == PlaceIn(walk.indices, l)
           place == PlaceIn(list, l)
<1>1. PICK w : IsWalk(w, Len(log), l) /\ walk = w[Len(log)]
  BY WalkEnds DEF TypeOK
<1>2. Whole(walk, l)
  BY <1>1, WalkWhole DEF AllTraced
<1>3. DOMAIN walk.indices \subseteq Levels /\ DOMAIN list \subseteq Levels
  BY <1>1, WalkMaps, WalkLevels DEF TypeOK
<1>4. l \in DOMAIN walk.indices <=> l \in DOMAIN list
  BY TracedWalkReaches DEF WalkReachesList
<1>5. l \in DOMAIN list => \E i \in DOMAIN log : log[i] # Purged
  <2> SUFFICES ASSUME l \in DOMAIN list PROVE \E i \in DOMAIN log : log[i] # Purged
    OBVIOUS
  <2>1. PICK i \in DOMAIN log : Names(log[i], l)
    BY DEF Anchored, AnchoredIn, Anchors
  <2>2. log[i] # Purged
    BY <2>1 DEF Names, Purged
  <2> QED
    BY <2>2
<1>6. History(l) = IF /\ \E i \in DOMAIN log : log[i] # Purged
                      /\ 0 \notin {now, place}
                      /\ now + walk.drift # place
                   THEN Append(walk.entries, Entry("UNATTRIBUTED", now + walk.drift, place))
                   ELSE walk.entries
  BY DEF History
<1>7. /\ now \in Nat /\ place \in Nat /\ walk.drift \in Int
      /\ now # 0 <=> l \in DOMAIN list
      /\ place # 0 <=> l \in DOMAIN list
  BY <1>2, <1>3, <1>4, PlaceType DEF Whole
<1>8. ChainTo(walk.entries, IF now # 0 THEN now + walk.drift ELSE 0)
  BY <1>2, <1>4, <1>7 DEF Whole, Held
<1> HIDE DEF walk, now, place
<1>9. ChainTo(History(l), place)
  <2>1. CASE now = 0
    BY <1>6, <1>7, <1>8, <2>1
  <2>2. CASE now # 0 /\ now + walk.drift = place
    BY <1>6, <1>7, <1>8, <2>2
  <2>3. CASE now # 0 /\ now + walk.drift # place
    <3>1. History(l) = Append(walk.entries, Entry("UNATTRIBUTED", now + walk.drift, place))
      BY <1>5, <1>6, <1>7, <2>3
    <3>2. now + walk.drift \in Int /\ place \in Int
      BY <1>7
    <3>3. ChainTo(walk.entries, now + walk.drift)
      BY <1>8, <2>3
    <3> QED
      BY <3>1, <3>2, <3>3, ChainOn
  <2> QED
    BY <2>1, <2>2, <2>3
<1> QED
  BY <1>9 DEF place

\* docs/EVENT_LOG.md: a shift is never lost.  Whatever events deletions have taken
\* out of the log, every entry of a level's history starts where the one before it
\* ended, and the last ends at the level's position, as long as no two entries
\* ever had equal indices.
THEOREM ShiftsAreNeverLost == HistorySpec => []HistoryContinuous
<1> DEFINE Inv == TypeOK /\ Anchored /\ AllTraced /\ Steady
<1>1. HistoryInit => Inv
  BY InitType, InitAnchored, InitTraced, InitSteady DEF HistoryInit
<1>2. Inv /\ [HistoryNext]_historyVars => Inv'
  <2>1. [HistoryNext]_historyVars => [Next]_vars
    BY DEF HistoryNext, historyVars, vars
  <2> QED
    BY <2>1, StepType, StepAnchored, StepTraced, StepSteady
<1>3. Inv => HistoryContinuous
  <2> SUFFICES ASSUME Inv, ~ tied, NEW l \in Levels \ erased
               PROVE  /\ \A i \in 1..(Len(History(l)) - 1) :
                            History(l)[i].after = History(l)[i + 1].before
                      /\ History(l) # <<>> =>
                            History(l)[Len(History(l))].after = PlaceIn(list, l)
    BY DEF HistoryContinuous
  <2>1. ChainTo(History(l), PlaceIn(list, l))
    BY WholeHistory DEF Steady
  <2> QED
    BY <2>1 DEF ChainTo
<1> QED
  BY <1>1, <1>2, <1>3, PTL DEF HistorySpec
=============================================================================
