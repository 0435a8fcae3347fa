---------------------------- MODULE ProgressProofs ----------------------------
(***************************************************************************)
(* What is proved of module Progress for any number of levels, days,       *)
(* updates and events.                                                     *)
(***************************************************************************)
EXTENDS Progress, DemonListProofs

-----------------------------------------------------------------------------
(* The handlers keep the demon list.                                       *)

LEMMA FindOrCreateSteps ==
    ASSUME NEW l \in Levels, FindOrCreate(l)
    PROVE  [Next]_vars
<1>1. CASE l \in entries
    BY <1>1 DEF FindOrCreate, vars
<1>2. CASE l \notin entries
    BY <1>2 DEF FindOrCreate, Next
<1> QED BY <1>1, <1>2

LEMMA EraseSteps ==
    ASSUME NEW l \in Levels, EraseEntry(l)
    PROVE  Next
BY DEF EraseEntry, Next

LEMMA DeleteUpdateSteps ==
    ASSUME NEW l \in Levels, NEW i, DeleteUpdate(l, i)
    PROVE  [Next]_vars
<1>1. CASE Len(updates[l]) = 1
    BY <1>1, EraseSteps DEF DeleteUpdate
<1>2. CASE Len(updates[l]) # 1
  <2>1. Uncomplete(l) \/ UNCHANGED <<entries, list, log>>
    BY <1>2 DEF DeleteUpdate
  <2>2. Unplace(l) \/ UNCHANGED <<entries, list, log>>
    BY <2>1 DEF Uncomplete
  <2> QED BY <2>2 DEF Next, vars
<1> QED BY <1>1, <1>2

\* A step of a handler is a step of the demon list, or leaves it as it is.
LEMMA HandlerSteps ==
    ASSUME [ProgressNext]_progressVars
    PROVE  [Next]_vars
<1>1. CASE UNCHANGED progressVars
    BY <1>1 DEF progressVars, vars
<1>2. ASSUME NEW l \in Levels, NEW day \in Days, LogCompletion(l, day)
      PROVE  [Next]_vars
    BY <1>2, FindOrCreateSteps DEF LogCompletion
<1>3. ASSUME NEW l \in Levels, NEW day \in Days, LogProgress(l, day)
      PROVE  [Next]_vars
    BY <1>3, FindOrCreateSteps DEF LogProgress
<1>4. ASSUME NEW l \in Levels, LogDrop(l)
      PROVE  [Next]_vars
    BY <1>4, FindOrCreateSteps DEF LogDrop
<1>5. ASSUME NEW l \in Levels, NEW i \in DOMAIN updates[l], DeleteUpdate(l, i)
      PROVE  [Next]_vars
    BY <1>5, DeleteUpdateSteps
<1>6. ASSUME NEW l \in Levels, NEW i \in DOMAIN updates[l], NEW day \in Days,
             EditDay(l, i, day)
      PROVE  [Next]_vars
    BY <1>6 DEF EditDay, vars
<1>7. ASSUME NEW l \in Levels, EraseEntry(l)
      PROVE  [Next]_vars
    BY <1>7, EraseSteps
<1>8. ASSUME NEW l \in Levels, WantToBeat(l) \/ StopWanting(l)
      PROVE  [Next]_vars
    BY <1>8 DEF WantToBeat, StopWanting, vars
<1>9. ASSUME NEW l \in Levels, UnplaceEntry(l)
      PROVE  [Next]_vars
    BY <1>9 DEF UnplaceEntry, Next
<1>10. ASSUME NEW l \in Levels, NEW above \in Levels \cup {NoLevel},
              NEW below \in Levels \cup {NoLevel},
              PlaceCompletion(l, above, below) \/ ReorderEntry(l, above, below)
       PROVE  [Next]_vars
    BY <1>10 DEF PlaceCompletion, ReorderEntry, Next
<1>11. ASSUME NEW S \in SUBSET Levels, NEW p \in Orders[S], ImportRanking(S, p)
       PROVE  [Next]_vars
    BY <1>11 DEF ImportRanking, Next
<1> QED
    BY <1>1, <1>2, <1>3, <1>4, <1>5, <1>6, <1>7, <1>8, <1>9, <1>10, <1>11
    DEF ProgressNext

\* services/progress only ever does to the demon list what module DemonList says,
\* so all that is proved of that module holds of the handlers.
THEOREM HandlersKeepDemonList == ProgressSpec => KeepsDemonList
<1>1. ProgressInit => Init
    BY DEF ProgressInit
<1>2. [ProgressNext]_progressVars => [Next]_vars
    BY HandlerSteps
<1> QED BY <1>1, <1>2, PTL DEF ProgressSpec, KeepsDemonList, Spec

\* Whatever sequence of completions, drops, edits and deletions a user makes, the
\* most recent event that names a placed level carries the index it has.
THEOREM HandlersLogEveryIndex == ProgressSpec => []FullyLogged
BY HandlersKeepDemonList, EveryIndexLogged, PTL DEF KeepsDemonList

-----------------------------------------------------------------------------
(* Histories.                                                              *)

Updates == [kind : {"COMPLETION", "PROGRESS", "DROP"}, day : Days]

CompletionsIn(h) == {i \in DOMAIN h : h[i].kind = "COMPLETION"}

AtMostOne(S) == \A i, j \in S : i = j

\* The status after the first i updates of h, in closed form.
StatusAfter(h, i) ==
    CASE \E j \in 1..i : /\ h[j].kind = "COMPLETION"
                         /\ \A k \in 1..i : k > j => h[k].kind # "DROP" -> "COMPLETED"
      [] i # 0 /\ h[i].kind = "DROP" -> "DROPPED"
      [] OTHER -> "IN_PROGRESS"

\* f holds the status of the loop before the first and after each of n updates.
IsLoop(f, n, h) ==
    f = [i \in 0..n |-> IF i = 0 THEN "IN_PROGRESS" ELSE Replayed(f[i - 1], h[i])]

\* The next update makes of the closed form what the loop makes of its status.
LEMMA StatusAfterNext ==
    ASSUME NEW h \in Seq(Updates), NEW i \in 1..Len(h)
    PROVE  StatusAfter(h, i) = Replayed(StatusAfter(h, i - 1), h[i])
<1>1. i \in Nat /\ i # 0 /\ i - 1 \in Nat /\ i \in 1..i /\ 1..i = 1..(i - 1) \cup {i}
  OBVIOUS
<1>2. \A j \in 1..(i - 1) : i > j /\ ~ (j > i) /\ j \in 1..i
  OBVIOUS
<1>3. h[i].kind \in {"COMPLETION", "PROGRESS", "DROP"}
  <2>1. h[i] \in Updates
    OBVIOUS
  <2> QED
    BY <2>1 DEF Updates
<1> DEFINE beaten(n) == \E j \in 1..n : /\ h[j].kind = "COMPLETION"
                                        /\ \A k \in 1..n : k > j => h[k].kind # "DROP"
<1>4. CASE h[i].kind = "COMPLETION"
  <2>1. \A k \in 1..i : ~ (k > i)
    OBVIOUS
  <2>2. beaten(i)
    BY <1>1, <1>4, <2>1
  <2> QED
    BY <1>4, <2>2 DEF StatusAfter, Replayed
<1>5. CASE h[i].kind = "DROP"
  <2>1. ~ beaten(i)
    BY <1>1, <1>2, <1>5
  <2> QED
    BY <1>1, <1>5, <2>1 DEF StatusAfter, Replayed
<1>6. CASE h[i].kind = "PROGRESS"
  <2>1. beaten(i) <=> beaten(i - 1)
    BY <1>1, <1>2, <1>6
  <2>2. StatusAfter(h, i) = IF beaten(i - 1) THEN "COMPLETED" ELSE "IN_PROGRESS"
    BY <1>1, <1>6, <2>1 DEF StatusAfter
  <2>3. StatusAfter(h, i - 1) = IF beaten(i - 1) THEN "COMPLETED"
                                ELSE IF i - 1 # 0 /\ h[i - 1].kind = "DROP" THEN "DROPPED"
                                ELSE "IN_PROGRESS"
    BY DEF StatusAfter
  <2> HIDE DEF beaten
  <2> QED
    BY <1>6, <2>2, <2>3 DEF Replayed
<1> QED
  BY <1>3, <1>4, <1>5, <1>6

\* What the loop amounts to: only a drop undoes a completion, and any later update
\* undoes a drop.
Outcome(h) ==
    CASE \E i \in DOMAIN h : /\ h[i].kind = "COMPLETION"
                             /\ \A j \in DOMAIN h : j > i => h[j].kind # "DROP" -> "COMPLETED"
      [] h # <<>> /\ h[Len(h)].kind = "DROP" -> "DROPPED"
      [] OTHER -> "IN_PROGRESS"

LEMMA LoopReplays ==
    ASSUME NEW h \in Seq(Updates)
    PROVE  Replay(h) = Outcome(h)
<1> DEFINE n == Len(h)
           f == [i \in 0..n |-> StatusAfter(h, i)]
           G(g) == {i \in 0..n : g[i] = StatusAfter(h, i)}
<1>1. n \in Nat /\ DOMAIN h = 1..n /\ 0 \in 0..n /\ n \in 0..n
  OBVIOUS
<1>2. StatusAfter(h, 0) = "IN_PROGRESS"
  BY DEF StatusAfter
<1>3. IsLoop(f, n, h)
  <2>1. ASSUME NEW i \in 0..n
        PROVE  f[i] = IF i = 0 THEN "IN_PROGRESS" ELSE Replayed(f[i - 1], h[i])
    <3>1. CASE i = 0
      BY <1>2, <3>1
    <3>2. CASE i # 0
      <4>1. i \in 1..n /\ i - 1 \in 0..n
        BY <3>2
      <4> QED
        BY <3>2, <4>1, StatusAfterNext
    <3> QED
      BY <3>1, <3>2
  <2>2. f = [i \in 0..n |-> f[i]]
    OBVIOUS
  <2> HIDE DEF f
  <2> QED
    BY <2>1, <2>2 DEF IsLoop
<1>4. PICK g : IsLoop(g, n, h) /\ g = CHOOSE v : IsLoop(v, n, h)
  BY <1>3
<1>5. Replay(h) = g[n]
  BY <1>4 DEF Replay, IsLoop
<1>6. 0 \in G(g)
  BY <1>1, <1>2, <1>4 DEF IsLoop
<1>7. ASSUME NEW i \in 0..n, i # 0, i - 1 \in G(g) PROVE i \in G(g)
  <2>1. i \in 1..n
    BY <1>7
  <2>2. g[i] = Replayed(g[i - 1], h[i])
    BY <1>4, <1>7 DEF IsLoop
  <2> QED
    BY <1>7, <2>1, <2>2, StatusAfterNext
<1> HIDE DEF G, n
<1>8. \A i \in 0..n : i \in G(g)
  BY <1>1, <1>6, <1>7, Onwards
<1>9. g[n] = StatusAfter(h, n)
  BY <1>1, <1>8 DEF G
<1>10. h # <<>> <=> n # 0
  BY DEF n
<1>11. StatusAfter(h, n) = Outcome(h)
  BY <1>1, <1>10 DEF StatusAfter, Outcome, n
<1> QED
  BY <1>5, <1>9, <1>11

LEMMA ReplayType ==
    ASSUME NEW h \in Seq(Updates)
    PROVE  Replay(h) \in Statuses \ {"NONE"}
BY LoopReplays DEF Outcome, Statuses

\* What adding an update does to a history.
LEMMA Appended ==
    ASSUME NEW h \in Seq(Updates), NEW u \in Updates
    PROVE  /\ Append(h, u) \in Seq(Updates)
           /\ Append(h, u) # <<>>
           /\ CompletionsIn(Append(h, u)) =
                  CompletionsIn(h) \cup (IF u.kind = "COMPLETION" THEN {Len(h) + 1} ELSE {})
           /\ u.kind = "COMPLETION" => Replay(Append(h, u)) = "COMPLETED"
           /\ u.kind = "DROP" => Replay(Append(h, u)) = "DROPPED"
           /\ u.kind = "PROGRESS" => Replay(Append(h, u)) =
                  IF Replay(h) = "COMPLETED" THEN "COMPLETED" ELSE "IN_PROGRESS"
<1> DEFINE g == Append(h, u)
<1>1. /\ g \in Seq(Updates)
      /\ Len(g) = Len(h) + 1
      /\ DOMAIN g = 1..(Len(h) + 1)
      /\ DOMAIN h = 1..Len(h)
      /\ Len(h) \in Nat
      /\ g[Len(h) + 1] = u
      /\ \A i \in 1..Len(h) : g[i] = h[i]
    OBVIOUS
<1>2. g # <<>>
    BY <1>1
<1>7. Replay(g) = Outcome(g) /\ Replay(h) = Outcome(h)
  <2> HIDE DEF g
  <2> QED BY <1>1, LoopReplays
<1>3. CompletionsIn(g) = CompletionsIn(h) \cup (IF u.kind = "COMPLETION" THEN {Len(h) + 1} ELSE {})
    BY <1>1 DEF CompletionsIn
<1>4. CASE u.kind = "COMPLETION"
  <2>1. /\ Len(h) + 1 \in DOMAIN g
        /\ \A j \in DOMAIN g : ~ (j > Len(h) + 1)
      BY <1>1
  <2>2. \E i \in DOMAIN g : /\ g[i].kind = "COMPLETION"
                            /\ \A j \in DOMAIN g : j > i => g[j].kind # "DROP"
      BY <2>1, <1>1, <1>4
  <2>3. Replay(g) = "COMPLETED"
      BY <2>2, <1>7 DEF Outcome
  <2> QED BY <1>1, <1>2, <1>3, <1>4, <2>3
<1>5. CASE u.kind = "DROP"
  <2>1. ~ \E i \in DOMAIN g : /\ g[i].kind = "COMPLETION"
                              /\ \A j \in DOMAIN g : j > i => g[j].kind # "DROP"
      BY <1>1, <1>5
  <2>2. Replay(g) = "DROPPED"
      BY <2>1, <1>1, <1>2, <1>5, <1>7 DEF Outcome
  <2> QED BY <1>1, <1>2, <1>3, <1>5, <2>2
<1>6. CASE u.kind = "PROGRESS"
  <2>1. (\E i \in DOMAIN g : /\ g[i].kind = "COMPLETION"
                             /\ \A j \in DOMAIN g : j > i => g[j].kind # "DROP")
        <=> (\E i \in DOMAIN h : /\ h[i].kind = "COMPLETION"
                                 /\ \A j \in DOMAIN h : j > i => h[j].kind # "DROP")
      BY <1>1, <1>6
  <2>2. Outcome(g) = IF Outcome(h) = "COMPLETED" THEN "COMPLETED" ELSE "IN_PROGRESS"
      BY <2>1, <1>1, <1>2, <1>6 DEF Outcome
  <2>3. Replay(g) = IF Replay(h) = "COMPLETED" THEN "COMPLETED" ELSE "IN_PROGRESS"
      BY <2>2, <1>7
  <2> QED BY <1>1, <1>2, <1>3, <1>6, <2>3
<1> QED BY <1>4, <1>5, <1>6 DEF Updates

\* Changing dates changes neither the completions nor what the replay makes of them.
LEMMA Redated ==
    ASSUME NEW h \in Seq(Updates), NEW g \in Seq(Updates), DOMAIN g = DOMAIN h,
           \A i \in DOMAIN h : g[i].kind = h[i].kind
    PROVE  /\ CompletionsIn(g) = CompletionsIn(h)
           /\ Replay(g) = Replay(h)
           /\ g # <<>> <=> h # <<>>
<1>1. CompletionsIn(g) = CompletionsIn(h)
    BY DEF CompletionsIn
<1>2. /\ Len(g) = Len(h)
      /\ g # <<>> <=> h # <<>>
      /\ h # <<>> => Len(h) \in DOMAIN h
    OBVIOUS
<1>3. (\E i \in DOMAIN g : /\ g[i].kind = "COMPLETION"
                           /\ \A j \in DOMAIN g : j > i => g[j].kind # "DROP")
      <=> (\E i \in DOMAIN h : /\ h[i].kind = "COMPLETION"
                               /\ \A j \in DOMAIN h : j > i => h[j].kind # "DROP")
    OBVIOUS
<1>4. Replay(g) = Replay(h)
  <2>1. Outcome(g) = Outcome(h)
      BY <1>2, <1>3 DEF Outcome
  <2>2. Replay(g) = Outcome(g) /\ Replay(h) = Outcome(h)
      BY LoopReplays
  <2> QED BY <2>1, <2>2
<1> QED BY <1>1, <1>2, <1>4

LEMMA Joined ==
    ASSUME NEW S, NEW g \in Seq(S), NEW h \in Seq(S)
    PROVE  /\ g \o h \in Seq(S)
           /\ Len(g \o h) = Len(g) + Len(h)
           /\ \A j \in 1..(Len(g) + Len(h)) :
                 (g \o h)[j] = IF j <= Len(g) THEN g[j] ELSE h[j - Len(g)]
OBVIOUS

\* Taking an update out moves the later ones up by one.
LEMMA TakenOut ==
    ASSUME NEW h \in Seq(Updates), NEW i \in DOMAIN h
    PROVE  /\ RemoveAt(h, i) \in Seq(Updates)
           /\ Len(RemoveAt(h, i)) = Len(h) - 1
           /\ DOMAIN RemoveAt(h, i) = 1..(Len(h) - 1)
           /\ \A j \in 1..(Len(h) - 1) : RemoveAt(h, i)[j] = IF j < i THEN h[j] ELSE h[j + 1]
<1> DEFINE g == RemoveAt(h, i)
<1>0. Len(h) \in Nat /\ DOMAIN h = 1..Len(h)
    OBVIOUS
<1>1. /\ i \in Nat /\ i >= 1 /\ i <= Len(h)
      /\ Len(h) \in Nat
      /\ DOMAIN h = 1..Len(h)
    BY <1>0
<1> DEFINE front == SubSeq(h, 1, i - 1)
           back == SubSeq(h, i + 1, Len(h))
<1>2. /\ front \in Seq(Updates)
      /\ Len(front) = i - 1
      /\ \A j \in 1..(i - 1) : front[j] = h[j]
    BY <1>1
<1>3. /\ back \in Seq(Updates)
      /\ Len(back) = Len(h) - i
      /\ \A j \in 1..(Len(h) - i) : back[j] = h[i + j]
    BY <1>1
<1>4. g = front \o back
    BY DEF RemoveAt
<1> HIDE DEF g, front, back
<1>5. /\ g \in Seq(Updates)
      /\ Len(g) = Len(front) + Len(back)
      /\ \A j \in 1..(Len(front) + Len(back)) :
            g[j] = IF j <= Len(front) THEN front[j] ELSE back[j - Len(front)]
    BY <1>4, <1>2, <1>3, Joined
<1>6. /\ Len(g) = Len(h) - 1
      /\ DOMAIN g = 1..(Len(h) - 1)
    BY <1>5, <1>1, <1>2, <1>3
<1>7. ASSUME NEW j \in 1..(Len(h) - 1)
      PROVE  g[j] = IF j < i THEN h[j] ELSE h[j + 1]
  <2>1. CASE j < i
      BY <2>1, <1>5, <1>1, <1>2, <1>3
  <2>2. CASE ~ (j < i)
    <3>1. j - (i - 1) \in 1..(Len(h) - i) /\ i + (j - (i - 1)) = j + 1
        BY <2>2, <1>1
    <3>2. g[j] = back[j - (i - 1)]
        BY <2>2, <1>5, <1>1, <1>2, <1>3
    <3>3. back[j - (i - 1)] = h[j + 1]
        BY <3>1, <1>3
    <3> QED BY <3>2, <3>3, <2>2
  <2> QED BY <2>1, <2>2
<1> QED BY <1>5, <1>6, <1>7 DEF g

\* What taking one of several updates out leaves.
LEMMA Removed ==
    ASSUME NEW h \in Seq(Updates), NEW i \in DOMAIN h, Len(h) # 1
    PROVE  /\ RemoveAt(h, i) \in Seq(Updates)
           /\ RemoveAt(h, i) # <<>>
           /\ CompletionsIn(RemoveAt(h, i)) # {} => CompletionsIn(h) # {}
           /\ AtMostOne(CompletionsIn(h)) => AtMostOne(CompletionsIn(RemoveAt(h, i)))
           /\ Replay(h) = "COMPLETED" /\ h[i].kind # "COMPLETION" =>
                  Replay(RemoveAt(h, i)) = "COMPLETED"
<1> DEFINE g == RemoveAt(h, i)
<1>0. Len(h) \in Nat /\ DOMAIN h = 1..Len(h)
    OBVIOUS
<1>1. /\ i \in Nat /\ i >= 1 /\ i <= Len(h)
      /\ Len(h) \in Nat /\ Len(h) > 1
      /\ DOMAIN h = 1..Len(h)
    BY <1>0
<1>4. /\ g \in Seq(Updates)
      /\ Len(g) = Len(h) - 1
      /\ DOMAIN g = 1..(Len(h) - 1)
      /\ \A j \in 1..(Len(h) - 1) : g[j] = IF j < i THEN h[j] ELSE h[j + 1]
    BY TakenOut
<1>5. g # <<>>
    BY <1>1, <1>4
<1>6. \A j \in CompletionsIn(g) : (IF j < i THEN j ELSE j + 1) \in CompletionsIn(h)
    BY <1>1, <1>4 DEF CompletionsIn
<1>7. CompletionsIn(g) # {} => CompletionsIn(h) # {}
    BY <1>6
<1>8. CompletionsIn(g) \subseteq Int
    BY <1>4 DEF CompletionsIn
<1>9. ASSUME AtMostOne(CompletionsIn(h)), NEW j \in CompletionsIn(g), NEW k \in CompletionsIn(g)
      PROVE  j = k
  <2>1. (IF j < i THEN j ELSE j + 1) = (IF k < i THEN k ELSE k + 1)
      BY <1>6, <1>9 DEF AtMostOne
  <2> QED BY <2>1, <1>1, <1>8
<1>10. ASSUME Replay(h) = "COMPLETED", h[i].kind # "COMPLETION"
       PROVE  Replay(g) = "COMPLETED"
  <2>1. PICK c \in DOMAIN h : /\ h[c].kind = "COMPLETION"
                              /\ \A j \in DOMAIN h : j > c => h[j].kind # "DROP"
      BY <1>10, LoopReplays DEF Outcome
  <2> DEFINE d == IF c < i THEN c ELSE c - 1
  <2>2. c # i /\ c \in 1..Len(h)
      BY <1>1, <1>10, <2>1
  <2>3. d \in DOMAIN g /\ g[d] = h[c]
      BY <1>1, <1>4, <2>2
  <2>4. ASSUME NEW j \in DOMAIN g, j > d
        PROVE  g[j].kind # "DROP"
    <3>1. (IF j < i THEN j ELSE j + 1) \in DOMAIN h /\ (IF j < i THEN j ELSE j + 1) > c
        BY <1>1, <1>4, <2>2, <2>4
    <3> QED BY <3>1, <2>1, <1>4
  <2>5. Outcome(g) = "COMPLETED"
      BY <2>1, <2>3, <2>4 DEF Outcome
  <2>6. Replay(g) = Outcome(g)
    <3> HIDE DEF g
    <3> QED BY <1>4, LoopReplays
  <2> QED BY <2>5, <2>6
<1> QED BY <1>4, <1>5, <1>7, <1>9, <1>10 DEF AtMostOne

\* Without its only completion a history has none.
LEMMA OnlyCompletion ==
    ASSUME NEW h \in Seq(Updates), AtMostOne(CompletionsIn(h)), NEW i \in CompletionsIn(h)
    PROVE  CompletionsIn(RemoveAt(h, i)) = {}
<1> SUFFICES ASSUME NEW j \in CompletionsIn(RemoveAt(h, i)) PROVE FALSE
    OBVIOUS
<1>1. i \in DOMAIN h /\ DOMAIN h = 1..Len(h) /\ Len(h) \in Nat
    BY DEF CompletionsIn
<1>2. /\ j \in 1..(Len(h) - 1)
      /\ RemoveAt(h, i)[j].kind = "COMPLETION"
      /\ RemoveAt(h, i)[j] = IF j < i THEN h[j] ELSE h[j + 1]
    BY <1>1, TakenOut DEF CompletionsIn
<1> DEFINE k == IF j < i THEN j ELSE j + 1
<1>3. k \in CompletionsIn(h) /\ k # i
    BY <1>1, <1>2 DEF CompletionsIn
<1> QED BY <1>3 DEF AtMostOne

-----------------------------------------------------------------------------
(* Entries.                                                                *)

\* The log entry of one level: whether it exists, its status and its history, and
\* whether it was completed again.
EntryOK(exists, s, h, again) ==
    /\ s \in Statuses
    /\ h \in Seq(Updates)
    /\ exists <=> s # "NONE"
    /\ exists <=> h # <<>>
    /\ again => exists
    /\ exists => s = Replay(h) \/ (again /\ s = "COMPLETED")
    /\ AtMostOne(CompletionsIn(h))

\* The invariant of the handlers apart from the demon list.
EntriesOK ==
    /\ status \in [Levels -> Statuses]
    /\ updates \in [Levels -> Seq(Updates)]
    /\ wantToBeat \subseteq Levels
    /\ reused \subseteq Levels
    /\ \A l \in Levels : EntryOK(l \in entries, status[l], updates[l], l \in reused)
    /\ \A l \in wantToBeat : CompletionsIn(updates[l]) = {}

LEMMA CompletionsHere ==
    ASSUME NEW l
    PROVE  Completions(l) = CompletionsIn(updates[l])
BY DEF Completions, CompletionsIn

\* A step that leaves every entry but l's alone, and l's as it should be.
LEMMA OneEntry ==
    ASSUME EntriesOK, NEW l \in Levels, NEW s, NEW h,
           status' = [status EXCEPT ![l] = s],
           updates' = [updates EXCEPT ![l] = h],
           \A m \in Levels \ {l} : m \in entries' <=> m \in entries,
           \A m \in Levels \ {l} : m \in reused' <=> m \in reused,
           reused' \subseteq Levels,
           EntryOK(l \in entries', s, h, l \in reused'),
           wantToBeat' \subseteq wantToBeat,
           CompletionsIn(h) # {} => CompletionsIn(updates[l]) # {} \/ l \notin wantToBeat'
    PROVE  EntriesOK'
<1>1. s \in Statuses /\ h \in Seq(Updates)
    BY DEF EntryOK
<1>2. /\ status' \in [Levels -> Statuses]
      /\ updates' \in [Levels -> Seq(Updates)]
      /\ status'[l] = s
      /\ updates'[l] = h
      /\ \A m \in Levels \ {l} : status'[m] = status[m] /\ updates'[m] = updates[m]
    BY <1>1 DEF EntriesOK
<1>3. ASSUME NEW m \in Levels
      PROVE  EntryOK(m \in entries', status'[m], updates'[m], m \in reused')
  <2>1. CASE m = l
      BY <2>1, <1>2
  <2>2. CASE m # l
    <3>1. EntryOK(m \in entries, status[m], updates[m], m \in reused)
        BY DEF EntriesOK
    <3> QED BY <3>1, <2>2, <1>2 DEF EntryOK
  <2> QED BY <2>1, <2>2
<1>4. ASSUME NEW m \in wantToBeat'
      PROVE  CompletionsIn(updates'[m]) = {}
  <2>1. m \in Levels /\ CompletionsIn(updates[m]) = {}
      BY DEF EntriesOK
  <2> QED BY <2>1, <1>2
<1>5. wantToBeat' \subseteq Levels
    BY DEF EntriesOK
<1> QED BY <1>2, <1>3, <1>4, <1>5 DEF EntriesOK

LEMMA FindOrCreateEntries ==
    ASSUME NEW l, FindOrCreate(l)
    PROVE  entries' = entries \cup {l}
BY DEF FindOrCreate, CreateEntry

LEMMA LogCompletionEntries ==
    ASSUME EntriesOK, NEW l \in Levels, NEW day \in Days, LogCompletion(l, day)
    PROVE  EntriesOK'
<1>1. EntryOK(l \in entries, status[l], updates[l], l \in reused)
    BY DEF EntriesOK
<1>2. entries' = entries \cup {l} /\ l \in entries'
    BY FindOrCreateEntries DEF LogCompletion
<1>3. status' = [status EXCEPT ![l] = "COMPLETED"] /\ wantToBeat' = wantToBeat \ {l}
    BY DEF LogCompletion, SetStatus, LeaveWantToBeat
<1>4. Update("COMPLETION", day) \in Updates
    BY DEF Update, Updates
<1>5. CASE Completions(l) = {}
  <2> DEFINE h == Append(updates[l], Update("COMPLETION", day))
  <2>1. updates' = [updates EXCEPT ![l] = h] /\ reused' = reused
      BY <1>5 DEF LogCompletion, AddUpdate
  <2>2. /\ h \in Seq(Updates) /\ h # <<>>
        /\ CompletionsIn(h) = {Len(updates[l]) + 1}
        /\ Replay(h) = "COMPLETED"
      BY <1>1, <1>4, <1>5, Appended, CompletionsHere DEF EntryOK, Update
  <2>3. EntryOK(l \in entries', "COMPLETED", h, l \in reused')
      BY <2>1, <2>2, <1>2 DEF EntryOK, Statuses, AtMostOne
  <2> QED BY <2>1, <2>3, <1>2, <1>3, OneEntry DEF EntriesOK
<1>6. CASE Completions(l) # {}
  <2> DEFINE h == [i \in DOMAIN updates[l] |->
                      IF i \in Completions(l) THEN Update("COMPLETION", day) ELSE updates[l][i]]
  <2>1. /\ updates' = [updates EXCEPT ![l] = h]
        /\ reused' = IF status[l] = "COMPLETED" THEN reused ELSE reused \cup {l}
      BY <1>6 DEF LogCompletion, EntriesOK
  <2>2. h \in Seq(Updates) /\ DOMAIN h = DOMAIN updates[l]
      BY <1>1, <1>4 DEF EntryOK
  <2>3. \A i \in DOMAIN updates[l] : h[i].kind = updates[l][i].kind
      BY DEF Completions, Update
  <2>4. /\ CompletionsIn(h) = CompletionsIn(updates[l])
        /\ Replay(h) = Replay(updates[l])
        /\ h # <<>> <=> updates[l] # <<>>
      BY <2>2, <2>3, <1>1, Redated DEF EntryOK
  <2>5. l \in entries
      BY <1>1, <1>6 DEF EntryOK, Completions
  <2>6. EntryOK(l \in entries', "COMPLETED", h, l \in reused')
      BY <2>1, <2>2, <2>4, <2>5, <1>1, <1>2 DEF EntryOK, Statuses
  <2> QED BY <2>1, <2>4, <2>6, <1>2, <1>3, OneEntry DEF EntriesOK
<1> QED BY <1>5, <1>6

LEMMA LogProgressEntries ==
    ASSUME EntriesOK, NEW l \in Levels, NEW day \in Days, LogProgress(l, day)
    PROVE  EntriesOK'
<1> DEFINE h == Append(updates[l], Update("PROGRESS", day))
           s == IF status[l] = "COMPLETED" THEN "COMPLETED" ELSE "IN_PROGRESS"
<1>1. EntryOK(l \in entries, status[l], updates[l], l \in reused)
    BY DEF EntriesOK
<1>2. entries' = entries \cup {l} /\ l \in entries'
    BY FindOrCreateEntries DEF LogProgress
<1>3. /\ status' = [status EXCEPT ![l] = s]
      /\ updates' = [updates EXCEPT ![l] = h]
      /\ reused' = reused /\ wantToBeat' = wantToBeat
    BY DEF LogProgress, SetStatus, AddUpdate
<1>4. Update("PROGRESS", day) \in Updates
    BY DEF Update, Updates
<1>5. /\ h \in Seq(Updates) /\ h # <<>>
      /\ CompletionsIn(h) = CompletionsIn(updates[l])
      /\ Replay(h) = IF Replay(updates[l]) = "COMPLETED" THEN "COMPLETED" ELSE "IN_PROGRESS"
    BY <1>1, <1>4, Appended DEF EntryOK, Update
<1>6. CASE l \in entries
  <2>1. status[l] = Replay(updates[l]) \/ (l \in reused /\ status[l] = "COMPLETED")
      BY <1>1, <1>6 DEF EntryOK
  <2>2. s = Replay(h) \/ (l \in reused /\ s = "COMPLETED")
      BY <2>1, <1>5
  <2>3. EntryOK(l \in entries', s, h, l \in reused')
      BY <2>2, <1>1, <1>2, <1>3, <1>5, <1>6 DEF EntryOK, Statuses
  <2> QED BY <2>3, <1>2, <1>3, <1>5, OneEntry DEF EntriesOK
<1>7. CASE l \notin entries
  <2>1. updates[l] = <<>> /\ s = "IN_PROGRESS"
      BY <1>1, <1>7 DEF EntryOK
  <2>2. Replay(updates[l]) = "IN_PROGRESS"
    <3>1. Replay(updates[l]) = Outcome(updates[l])
        BY <1>1, LoopReplays DEF EntryOK
    <3> QED BY <3>1, <2>1 DEF Outcome
  <2>3. EntryOK(l \in entries', s, h, l \in reused')
      BY <2>1, <2>2, <1>1, <1>2, <1>3, <1>5, <1>7 DEF EntryOK, Statuses
  <2> QED BY <2>3, <1>2, <1>3, <1>5, OneEntry DEF EntriesOK
<1> QED BY <1>6, <1>7

LEMMA LogDropEntries ==
    ASSUME EntriesOK, NEW l \in Levels, LogDrop(l)
    PROVE  EntriesOK'
<1> DEFINE h == Append(updates[l], Update("DROP", 0))
<1>1. EntryOK(l \in entries, status[l], updates[l], l \in reused)
    BY DEF EntriesOK
<1>2. entries' = entries \cup {l} /\ l \in entries'
    BY FindOrCreateEntries DEF LogDrop
<1>3. /\ status' = [status EXCEPT ![l] = "DROPPED"]
      /\ updates' = [updates EXCEPT ![l] = h]
      /\ reused' = reused /\ wantToBeat' = wantToBeat
    BY DEF LogDrop, SetStatus, AddUpdate
<1>4. Update("DROP", 0) \in Updates
    BY MaxDayAssumption DEF Update, Updates, Days
<1>5. /\ h \in Seq(Updates) /\ h # <<>>
      /\ CompletionsIn(h) = CompletionsIn(updates[l])
      /\ Replay(h) = "DROPPED"
    BY <1>1, <1>4, Appended DEF EntryOK, Update
<1>6. EntryOK(l \in entries', "DROPPED", h, l \in reused')
    BY <1>1, <1>2, <1>3, <1>5 DEF EntryOK, Statuses
<1> QED BY <1>2, <1>3, <1>5, <1>6, OneEntry DEF EntriesOK

LEMMA RedatedUpdate ==
    ASSUME NEW u \in Updates, NEW day \in Days
    PROVE  /\ u \in Updates
           /\ [u EXCEPT !.day = day] \in Updates
           /\ [u EXCEPT !.day = day].kind = u.kind
BY DEF Updates

LEMMA EditDayEntries ==
    ASSUME EntriesOK, NEW l \in Levels, NEW i, NEW day \in Days, EditDay(l, i, day)
    PROVE  EntriesOK'
<1> DEFINE h == [updates[l] EXCEPT ![i].day = day]
<1>1. EntryOK(l \in entries, status[l], updates[l], l \in reused)
    BY DEF EntriesOK
<1>2. /\ i \in DOMAIN updates[l]
      /\ entries' = entries /\ reused' = reused /\ wantToBeat' = wantToBeat
      /\ updates' = [updates EXCEPT ![l] = h]
    BY DEF EditDay
<1>3. status' = [status EXCEPT ![l] = status[l]]
    BY DEF EditDay, EntriesOK
<1>4. updates[l] \in Seq(Updates)
    BY <1>1 DEF EntryOK
<1>5. /\ updates[l][i] \in Updates
      /\ [updates[l][i] EXCEPT !.day = day] \in Updates
      /\ [updates[l][i] EXCEPT !.day = day].kind = updates[l][i].kind
  <2>1. updates[l][i] \in Updates
      BY <1>2, <1>4
  <2> QED BY <2>1, RedatedUpdate
<1>6. /\ h = [updates[l] EXCEPT ![i] = [updates[l][i] EXCEPT !.day = day]]
      /\ h \in Seq(Updates) /\ DOMAIN h = DOMAIN updates[l]
      /\ \A j \in DOMAIN updates[l] : h[j].kind = updates[l][j].kind
    BY <1>2, <1>4, <1>5
<1>7. /\ CompletionsIn(h) = CompletionsIn(updates[l])
      /\ Replay(h) = Replay(updates[l])
      /\ h # <<>> <=> updates[l] # <<>>
    BY <1>4, <1>6, Redated
<1>8. EntryOK(l \in entries', status[l], h, l \in reused')
    BY <1>1, <1>2, <1>6, <1>7 DEF EntryOK
<1> QED BY <1>2, <1>3, <1>7, <1>8, OneEntry DEF EntriesOK

LEMMA EraseEntries ==
    ASSUME EntriesOK, NEW l \in Levels, EraseEntry(l)
    PROVE  EntriesOK'
<1>1. /\ entries' = entries \ {l} /\ l \notin entries'
      /\ updates' = [updates EXCEPT ![l] = <<>>]
      /\ status' = [status EXCEPT ![l] = "NONE"]
      /\ reused' = reused \ {l} /\ wantToBeat' = wantToBeat
    BY DEF EraseEntry, DeleteEntry, SetStatus
<1>2. CompletionsIn(<<>>) = {}
    BY DEF CompletionsIn
<1>3. EntryOK(l \in entries', "NONE", <<>>, l \in reused')
    BY <1>1, <1>2 DEF EntryOK, Statuses, AtMostOne
<1> QED BY <1>1, <1>2, <1>3, OneEntry DEF EntriesOK

LEMMA DeleteUpdateEntries ==
    ASSUME EntriesOK, NEW l \in Levels, NEW i, DeleteUpdate(l, i)
    PROVE  EntriesOK'
<1>1. CASE Len(updates[l]) = 1
    BY <1>1, EraseEntries DEF DeleteUpdate
<1>2. CASE Len(updates[l]) # 1
  <2> DEFINE h == RemoveAt(updates[l], i)
  <2>1. EntryOK(l \in entries, status[l], updates[l], l \in reused)
      BY DEF EntriesOK
  <2>2. /\ i \in DOMAIN updates[l]
        /\ updates' = [updates EXCEPT ![l] = h]
        /\ status' = [status EXCEPT ![l] = Replay(h)]
        /\ reused' = reused \ {l} /\ wantToBeat' = wantToBeat
        /\ Uncomplete(l) \/ UNCHANGED <<entries, list, log>>
      BY <1>2 DEF DeleteUpdate, SetStatus
  <2>3. entries' = entries
      BY <2>2 DEF Uncomplete, Unplace
  <2>4. /\ h \in Seq(Updates) /\ h # <<>>
        /\ CompletionsIn(h) # {} => CompletionsIn(updates[l]) # {}
        /\ AtMostOne(CompletionsIn(h))
      BY <2>1, <2>2, <1>2, Removed DEF EntryOK
  <2>5. l \in entries
      BY <2>1, <2>2 DEF EntryOK
  <2> HIDE DEF h
  <2>6. EntryOK(l \in entries', Replay(h), h, l \in reused')
      BY <2>2, <2>3, <2>4, <2>5, ReplayType DEF EntryOK
  <2> QED BY <2>2, <2>3, <2>4, <2>6, OneEntry DEF EntriesOK
<1> QED BY <1>1, <1>2

LEMMA WantingEntries ==
    ASSUME EntriesOK, NEW l \in Levels, WantToBeat(l) \/ StopWanting(l)
    PROVE  EntriesOK'
<1>1. /\ status' = status /\ updates' = updates
      /\ entries' = entries /\ reused' = reused
    BY DEF WantToBeat, StopWanting
<1>2. /\ wantToBeat' \subseteq wantToBeat \cup {l}
      /\ wantToBeat' \subseteq wantToBeat \/ l \notin Beaten
    BY DEF WantToBeat, StopWanting
<1>3. l \notin Beaten => CompletionsIn(updates[l]) = {}
    BY CompletionsHere DEF Beaten
<1> QED BY <1>1, <1>2, <1>3 DEF EntriesOK

LEMMA ListingEntries ==
    ASSUME EntriesOK,
           \/ \E l, above, below : PlaceCompletion(l, above, below) \/ ReorderEntry(l, above, below)
           \/ \E l : UnplaceEntry(l)
           \/ \E S, p : ImportRanking(S, p)
    PROVE  EntriesOK'
<1>1. /\ status' = status /\ updates' = updates /\ wantToBeat' = wantToBeat
      /\ entries' = entries /\ reused' = reused
    BY DEF PlaceCompletion, ReorderEntry, UnplaceEntry, ImportRanking,
           Place, Reorder, Unplace, BulkReplace
<1> QED BY <1>1 DEF EntriesOK

LEMMA StepEntries == EntriesOK /\ [ProgressNext]_progressVars => EntriesOK'
<1> SUFFICES ASSUME EntriesOK, [ProgressNext]_progressVars PROVE EntriesOK'
    OBVIOUS
<1>1. CASE UNCHANGED progressVars
    BY <1>1 DEF progressVars, EntriesOK
<1>2. ASSUME NEW l \in Levels, NEW day \in Days, LogCompletion(l, day) \/ LogProgress(l, day)
      PROVE  EntriesOK'
    BY <1>2, LogCompletionEntries, LogProgressEntries
<1>3. ASSUME NEW l \in Levels, LogDrop(l) \/ EraseEntry(l) \/ WantToBeat(l) \/ StopWanting(l)
      PROVE  EntriesOK'
    BY <1>3, LogDropEntries, EraseEntries, WantingEntries
<1>4. ASSUME NEW l \in Levels, NEW i \in DOMAIN updates[l],
             DeleteUpdate(l, i) \/ \E day \in Days : EditDay(l, i, day)
      PROVE  EntriesOK'
    BY <1>4, DeleteUpdateEntries, EditDayEntries
<1>5. ASSUME \/ \E l, above, below : PlaceCompletion(l, above, below) \/ ReorderEntry(l, above, below)
             \/ \E l : UnplaceEntry(l)
             \/ \E S, p : ImportRanking(S, p)
      PROVE  EntriesOK'
    BY <1>5, ListingEntries
<1> QED BY <1>1, <1>2, <1>3, <1>4, <1>5 DEF ProgressNext

LEMMA InitEntries == ProgressInit => EntriesOK
<1> SUFFICES ASSUME ProgressInit PROVE EntriesOK
    OBVIOUS
<1>1. CompletionsIn(<<>>) = {}
    BY DEF CompletionsIn
<1>2. \A l \in Levels : EntryOK(l \in entries, status[l], updates[l], l \in reused)
    BY <1>1 DEF ProgressInit, EntryOK, Statuses, AtMostOne
<1> QED BY <1>1, <1>2 DEF ProgressInit, EntriesOK, Statuses

-----------------------------------------------------------------------------
(* Only classic levels are placed.                                         *)

LEMMA ListAfterLand ==
    ASSUME TypeOK, NEW l, NEW type, NEW above, NEW below, Land(type, l, above, below)
    PROVE  DOMAIN list' = DOMAIN list \cup {l}
<1>1. PICK s \in Settled(above, below) :
         list' = Put(s.list, l, NewIndex(s.list, above, below))
    BY DEF Land
<1>2. DOMAIN s.list = DOMAIN list
    BY SettledType
<1> QED BY <1>1, <1>2 DEF Put

LEMMA StepClassic ==
    ASSUME TypeOK, DOMAIN list \subseteq Classic, [ProgressNext]_progressVars
    PROVE  DOMAIN list' \subseteq Classic
<1> DEFINE Shrinks == DOMAIN list' \subseteq DOMAIN list
<1>1. CASE UNCHANGED progressVars
    BY <1>1 DEF progressVars
<1>2. ASSUME NEW l, FindOrCreate(l)
      PROVE  Shrinks
    BY <1>2 DEF FindOrCreate, CreateEntry
<1>3. ASSUME NEW l, EraseEntry(l) \/ Unplace(l) \/ Uncomplete(l) \/ UNCHANGED <<entries, list, log>>
      PROVE  Shrinks
    BY <1>3 DEF EraseEntry, DeleteEntry, Uncomplete, Unplace, Without
<1>4. ASSUME NEW l \in Levels, NEW day \in Days, LogCompletion(l, day) \/ LogProgress(l, day)
      PROVE  Shrinks
    BY <1>2, <1>4 DEF LogCompletion, LogProgress
<1>5. ASSUME NEW l \in Levels,
             LogDrop(l) \/ EraseEntry(l) \/ WantToBeat(l) \/ StopWanting(l) \/ UnplaceEntry(l)
      PROVE  Shrinks
    BY <1>2, <1>3, <1>5 DEF LogDrop, WantToBeat, StopWanting, UnplaceEntry
<1>6. ASSUME NEW l \in Levels, NEW i \in DOMAIN updates[l],
             DeleteUpdate(l, i) \/ \E day \in Days : EditDay(l, i, day)
      PROVE  Shrinks
  <2>1. EraseEntry(l) \/ Uncomplete(l) \/ UNCHANGED <<entries, list, log>>
      BY <1>6 DEF DeleteUpdate, EditDay
  <2> QED BY <1>3, <2>1
<1>7. ASSUME NEW l \in Levels, NEW above, NEW below,
             PlaceCompletion(l, above, below) \/ ReorderEntry(l, above, below)
      PROVE  DOMAIN list' \subseteq Classic
  <2>1. CASE PlaceCompletion(l, above, below)
    <3>1. l \in Classic /\ Land("PLACEMENT", l, above, below)
        BY <2>1 DEF PlaceCompletion, Place
    <3>2. DOMAIN list' = DOMAIN list \cup {l}
        BY <3>1, ListAfterLand, Zenon
    <3> QED BY <3>1, <3>2
  <2>2. CASE ReorderEntry(l, above, below)
    <3>1. l \in DOMAIN list /\ Land("REORDER", l, above, below)
        BY <2>2 DEF ReorderEntry, Reorder
    <3>2. DOMAIN list' = DOMAIN list \cup {l}
        BY <3>1, ListAfterLand, Zenon
    <3> QED BY <3>1, <3>2
  <2> QED BY <1>7, <2>1, <2>2
<1>8. ASSUME NEW S \in SUBSET Levels, NEW p \in Orders[S], ImportRanking(S, p)
      PROVE  DOMAIN list' \subseteq Classic
  <2>1. list' = Numbered(p) /\ S \subseteq Classic
      BY <1>8 DEF ImportRanking, BulkReplace
  <2>2. DOMAIN Numbered(p) = S
      BY OrderType DEF Numbered
  <2> QED BY <2>1, <2>2
<1> QED BY <1>1, <1>4, <1>5, <1>6, <1>7, <1>8 DEF ProgressNext

-----------------------------------------------------------------------------
(* The invariants of the handlers.                                         *)

LEMMA InvariantsMean ==
    ASSUME TypeOK, EntriesOK, DOMAIN list \subseteq Classic
    PROVE  ProgressTypeOK /\ WantToBeatUnbeaten /\ ReplayAgrees
<1>1. \A l \in Levels : EntryOK(l \in entries, status[l], updates[l], l \in reused)
    BY DEF EntriesOK
<1>2. reused \subseteq entries
    BY <1>1 DEF EntriesOK, EntryOK
<1>3. ProgressTypeOK
    BY <1>1, <1>2, CompletionsHere DEF ProgressTypeOK, EntriesOK, EntryOK, Updates, AtMostOne
<1>4. WantToBeatUnbeaten
    BY CompletionsHere DEF WantToBeatUnbeaten, EntriesOK, Beaten
<1>5. ReplayAgrees
    BY <1>1 DEF ReplayAgrees, EntryOK, TypeOK
<1> QED BY <1>3, <1>4, <1>5

LEMMA InvariantsHold == ProgressSpec => [](ProgressTypeOK /\ WantToBeatUnbeaten /\ ReplayAgrees)
<1>1. ProgressInit => TypeOK /\ EntriesOK /\ DOMAIN list \subseteq Classic
    BY InitType, InitEntries DEF ProgressInit, TypeOK
<1>2. TypeOK /\ EntriesOK /\ DOMAIN list \subseteq Classic /\ [ProgressNext]_progressVars
        => (TypeOK /\ EntriesOK /\ DOMAIN list \subseteq Classic)'
    BY HandlerSteps, StepType, StepEntries, StepClassic
<1>3. TypeOK /\ EntriesOK /\ DOMAIN list \subseteq Classic
        => ProgressTypeOK /\ WantToBeatUnbeaten /\ ReplayAgrees
    BY InvariantsMean
<1> QED BY <1>1, <1>2, <1>3, PTL DEF ProgressSpec

\* However the handlers alternate, an entry never has a second completion, never
\* stays behind without an update, and never brings a platformer onto the list.
THEOREM HandlersTypeCorrect == ProgressSpec => []ProgressTypeOK
BY InvariantsHold, PTL

\* A beaten level is never on Want to Beat.
THEOREM BeatenLevelsAreNotWanted == ProgressSpec => []WantToBeatUnbeaten
BY InvariantsHold, PTL

\* The status the handlers set one by one is the status deleteProgressUpdate would
\* replay, but for a level completed again after a drop.
THEOREM StatusAgreesWithReplay == ProgressSpec => []ReplayAgrees
BY InvariantsHold, PTL
-----------------------------------------------------------------------------
(* A place on the list outlives what is done to the history under it.      *)

\* The only handler that takes a place away and changes a history it leaves standing.
LEMMA PlaceKept ==
    ASSUME TypeOK, EntriesOK, [ProgressNext]_progressVars,
           NEW l \in DOMAIN list, l \in Beaten', updates'[l] # updates[l]
    PROVE  l \in DOMAIN list' \cup reused
<1>0. l \in Levels
    BY DEF Beaten
<1> SUFFICES ASSUME l \notin reused PROVE l \in DOMAIN list'
    OBVIOUS
<1>1. CompletionsIn(updates'[l]) # {}
    BY DEF Beaten, Completions, CompletionsIn
<1>2. ASSUME NEW m, FindOrCreate(m)
      PROVE  list' = list
    BY <1>2 DEF FindOrCreate, CreateEntry
<1>3. ASSUME NEW m \in Levels, NEW day \in Days, LogCompletion(m, day) \/ LogProgress(m, day)
      PROVE  list' = list
    BY <1>2, <1>3 DEF LogCompletion, LogProgress
<1>4. ASSUME NEW m \in Levels, LogDrop(m)
      PROVE  list' = list
    BY <1>2, <1>4 DEF LogDrop
<1>5. ASSUME NEW m \in Levels, EraseEntry(m)
      PROVE  FALSE
  <2>1. updates' = [updates EXCEPT ![m] = <<>>]
      BY <1>5 DEF EraseEntry
  <2>2. updates'[l] = <<>>
      BY <2>1, <1>0 DEF EntriesOK
  <2> QED BY <1>1, <2>2 DEF CompletionsIn
<1>6. ASSUME NEW m \in Levels, NEW i \in DOMAIN updates[m], DeleteUpdate(m, i)
      PROVE  list' = list
  <2>1. Len(updates[m]) # 1
      BY <1>5, <1>6 DEF DeleteUpdate
  <2>2. updates' = [updates EXCEPT ![m] = RemoveAt(updates[m], i)]
      BY <1>6, <2>1 DEF DeleteUpdate
  <2>3. m = l /\ updates'[l] = RemoveAt(updates[l], i)
      BY <2>2, <1>0 DEF EntriesOK
  <2>4. EntryOK(l \in entries, status[l], updates[l], l \in reused)
      BY <1>0 DEF EntriesOK
  <2>5. updates[l][i].kind # "COMPLETION"
    <3> SUFFICES ASSUME i \in CompletionsIn(updates[l]) PROVE FALSE
        BY <1>6, <2>3 DEF CompletionsIn
    <3>1. CompletionsIn(RemoveAt(updates[l], i)) = {}
        BY <2>3, <2>4, <1>6, OnlyCompletion DEF EntryOK
    <3> QED BY <3>1, <2>3, <1>1
  <2>6. status[l] = "COMPLETED" => Replay(RemoveAt(updates[l], i)) = "COMPLETED"
    <3>1. l \in entries
        BY <2>3, <2>4, <1>6 DEF EntryOK
    <3> QED BY <3>1, <2>1, <2>3, <2>4, <2>5, <1>6, Removed DEF EntryOK
  <2> QED BY <1>6, <2>1, <2>3, <2>6 DEF DeleteUpdate
<1>7. ASSUME NEW m \in Levels, NEW i \in DOMAIN updates[m], NEW day \in Days, EditDay(m, i, day)
      PROVE  list' = list
    BY <1>7 DEF EditDay
<1>8. ASSUME \/ UNCHANGED progressVars
             \/ \E m : WantToBeat(m) \/ StopWanting(m) \/ UnplaceEntry(m)
             \/ \E m, above, below : PlaceCompletion(m, above, below) \/ ReorderEntry(m, above, below)
             \/ \E S, p : ImportRanking(S, p)
      PROVE  FALSE
    BY <1>8 DEF progressVars, WantToBeat, StopWanting, UnplaceEntry, PlaceCompletion, ReorderEntry,
                ImportRanking
<1> QED BY <1>3, <1>4, <1>5, <1>6, <1>7, <1>8 DEF ProgressNext

\* services/progress: whatever a user adds to, edits in or deletes from a level's
\* history, the level keeps its place on the demon list as long as it keeps its
\* completion, unless it was dropped and completed again.
THEOREM PlacesOutliveHistories == ProgressSpec => PlaceOutlivesHistory
<1> DEFINE Kept == \A l \in DOMAIN list \cap Beaten' :
                      updates'[l] # updates[l] => l \in DOMAIN list' \cup reused
<1>1. TypeOK /\ EntriesOK /\ [ProgressNext]_progressVars => Kept
    BY PlaceKept
<1>2. ProgressInit => TypeOK /\ EntriesOK
    BY InitType, InitEntries DEF ProgressInit
<1>3. TypeOK /\ EntriesOK /\ [ProgressNext]_progressVars => (TypeOK /\ EntriesOK)'
    BY HandlerSteps, StepType, StepEntries
<1>4. PlaceOutlivesHistory <=> [][Kept]_progressVars
    BY DEF PlaceOutlivesHistory
<1> QED BY <1>1, <1>2, <1>3, <1>4, PTL DEF ProgressSpec

-----------------------------------------------------------------------------
(* The ordering rule.                                                      *)

DaysIn(h) == {h[i].day : i \in CompletionsIn(h)}

StrandedIn(h) ==
    {i \in DOMAIN h : /\ h[i].kind = "PROGRESS"
                      /\ \E day \in DaysIn(h) : day # 0 /\ h[i].day > day}

LEMMA StrandedHere ==
    ASSUME NEW l
    PROVE  /\ CompletionDays(l) = DaysIn(updates[l])
           /\ Stranded(l) = StrandedIn(updates[l])
<1>1. Completions(l) = CompletionsIn(updates[l])
  BY CompletionsHere
<1>2. CompletionDays(l) = DaysIn(updates[l])
  BY <1>1 DEF CompletionDays, DaysIn
<1>3. Stranded(l) = StrandedIn(updates[l])
  BY <1>1 DEF Stranded, StrandedIn, DatedAfter, DaysIn
<1> QED
  BY <1>2, <1>3

\* Without a new completion date, entries that were not stranded stay so, however
\* the others move.
LEMMA NoneStranded ==
    ASSUME NEW h \in Seq(Updates), NEW g, NEW m,
           \A i \in StrandedIn(g) : m[i] \in StrandedIn(h),
           \A i, j \in StrandedIn(g) : m[i] = m[j] => i = j
    PROVE  Cardinality(StrandedIn(g)) <= Cardinality(StrandedIn(h))
<1> DEFINE f == [i \in StrandedIn(g) |-> m[i]]
<1>1. IsFiniteSet(StrandedIn(h))
  <2>1. StrandedIn(h) \subseteq 1..Len(h) /\ Len(h) \in Nat
    BY DEF StrandedIn
  <2>2. IsFiniteSet(1..Len(h))
    BY <2>1, FS_Interval
  <2> QED
    BY <2>1, <2>2, FS_Subset
<1>2. f \in Injection(StrandedIn(g), StrandedIn(h))
  BY DEF Injection, IsInjective
<1> HIDE DEF f
<1> QED
  BY <1>1, <1>2, FS_Injection

\* A history that differs by updates that are not stranded.
LEMMA SameStranded ==
    ASSUME NEW h \in Seq(Updates), NEW g, StrandedIn(g) \subseteq StrandedIn(h)
    PROVE  Cardinality(StrandedIn(g)) <= Cardinality(StrandedIn(h))
<1> DEFINE m == [i \in StrandedIn(g) |-> i]
<1>1. /\ \A i \in StrandedIn(g) : m[i] \in StrandedIn(h)
      /\ \A i, j \in StrandedIn(g) : m[i] = m[j] => i = j
  OBVIOUS
<1> HIDE DEF m
<1> QED
  BY <1>1, NoneStranded

\* Each way to change a history keeps the rule.
LEMMA AppendedRule ==
    ASSUME NEW h \in Seq(Updates), NEW u \in Updates, DaysIn(Append(h, u)) = DaysIn(h),
           u.kind = "PROGRESS" => ~ \E day \in DaysIn(h) : day # 0 /\ u.day > day
    PROVE  Cardinality(StrandedIn(Append(h, u))) <= Cardinality(StrandedIn(h))
<1> DEFINE g == Append(h, u)
<1>1. /\ DOMAIN g = DOMAIN h \cup {Len(h) + 1}
      /\ g[Len(h) + 1] = u
      /\ \A i \in DOMAIN h : g[i] = h[i]
  OBVIOUS
<1> HIDE DEF g
<1>2. StrandedIn(g) \subseteq StrandedIn(h)
  BY <1>1 DEF StrandedIn, g
<1>3. Cardinality(StrandedIn(g)) <= Cardinality(StrandedIn(h))
  BY <1>2, SameStranded
<1> QED
  BY <1>3 DEF g

LEMMA RemovedRule ==
    ASSUME NEW h \in Seq(Updates), NEW i \in DOMAIN h, DaysIn(RemoveAt(h, i)) = DaysIn(h)
    PROVE  Cardinality(StrandedIn(RemoveAt(h, i))) <= Cardinality(StrandedIn(h))
<1> DEFINE g == RemoveAt(h, i)
           m == [j \in 1..(Len(h) - 1) |-> IF j < i THEN j ELSE j + 1]
<1>1. /\ DOMAIN g = 1..(Len(h) - 1)
      /\ \A j \in 1..(Len(h) - 1) : g[j] = h[m[j]]
  BY TakenOut
<1>2. \A j \in 1..(Len(h) - 1) : m[j] \in DOMAIN h
  OBVIOUS
<1>3. \A j, k \in 1..(Len(h) - 1) : m[j] = m[k] => j = k
  BY Z3
<1> HIDE DEF m
<1>4. \A j \in StrandedIn(g) : j \in 1..(Len(h) - 1) /\ m[j] \in StrandedIn(h)
  BY <1>1, <1>2 DEF StrandedIn
<1> HIDE DEF g
<1>5. Cardinality(StrandedIn(g)) <= Cardinality(StrandedIn(h))
  BY <1>3, <1>4, NoneStranded
<1> QED
  BY <1>5 DEF g

\* The rule for one history: h became g.
KeepsRule(g, h) ==
    DaysIn(g) = DaysIn(h) => Cardinality(StrandedIn(g)) <= Cardinality(StrandedIn(h))

\* A step that leaves every history but l's alone.
LEMMA OneHistoryRule ==
    ASSUME EntriesOK, NEW l \in Levels, NEW g,
           updates' = [updates EXCEPT ![l] = g], KeepsRule(g, updates[l])
    PROVE  \A m \in Levels : KeepsRule(updates'[m], updates[m])
<1> SUFFICES ASSUME NEW m \in Levels PROVE KeepsRule(updates'[m], updates[m])
    OBVIOUS
<1>1. CASE m = l
    BY <1>1 DEF EntriesOK
<1>2. CASE m # l
  <2>1. updates'[m] = updates[m] /\ updates[m] \in Seq(Updates)
      BY <1>2 DEF EntriesOK
  <2> QED BY <2>1, SameStranded DEF KeepsRule
<1> QED BY <1>1, <1>2

LEMMA SameHistoriesRule ==
    ASSUME EntriesOK, updates' = updates
    PROVE  \A m \in Levels : KeepsRule(updates'[m], updates[m])
BY SameStranded DEF EntriesOK, KeepsRule

LEMMA LogCompletionRule ==
    ASSUME EntriesOK, NEW l \in Levels, NEW day \in Days, LogCompletion(l, day)
    PROVE  \A m \in Levels : KeepsRule(updates'[m], updates[m])
<1>1. updates[l] \in Seq(Updates)
    BY DEF EntriesOK
<1>2. CASE Completions(l) = {}
  <2> DEFINE u == Update("COMPLETION", day)
  <2>1. updates' = [updates EXCEPT ![l] = Append(updates[l], u)]
      BY <1>2 DEF LogCompletion, AddUpdate
  <2>2. u \in Updates /\ u.kind # "PROGRESS"
      BY DEF Update, Updates
  <2> HIDE DEF u
  <2>3. KeepsRule(Append(updates[l], u), updates[l])
      BY <1>1, <2>2, AppendedRule DEF KeepsRule
  <2> QED BY <2>1, <2>3, OneHistoryRule
<1>3. CASE Completions(l) # {}
  <2> DEFINE g == [i \in DOMAIN updates[l] |->
                      IF i \in Completions(l) THEN Update("COMPLETION", day) ELSE updates[l][i]]
  <2>1. updates' = [updates EXCEPT ![l] = g]
      BY <1>3 DEF LogCompletion, EntriesOK
  <2>2. /\ DOMAIN g = DOMAIN updates[l]
        /\ \A i \in DOMAIN updates[l] : g[i].kind = "PROGRESS" => g[i] = updates[l][i]
      BY DEF Update
  <2> HIDE DEF g
  <2>3. DaysIn(g) = DaysIn(updates[l]) => StrandedIn(g) \subseteq StrandedIn(updates[l])
      BY <2>2 DEF StrandedIn
  <2>4. KeepsRule(g, updates[l])
      BY <1>1, <2>3, SameStranded DEF KeepsRule
  <2> QED BY <2>1, <2>4, OneHistoryRule
<1> QED BY <1>2, <1>3

LEMMA DatedAfterHere ==
    ASSUME NEW l, NEW day
    PROVE  DatedAfter(l, day) <=> \E d \in DaysIn(updates[l]) : d # 0 /\ day > d
BY CompletionsHere DEF DatedAfter, DaysIn

LEMMA LoggingRule ==
    ASSUME EntriesOK, NEW l \in Levels,
           LogDrop(l) \/ \E day \in Days : LogProgress(l, day)
    PROVE  \A m \in Levels : KeepsRule(updates'[m], updates[m])
<1>1. updates[l] \in Seq(Updates)
    BY DEF EntriesOK
<1>2. PICK u \in Updates :
          /\ updates' = [updates EXCEPT ![l] = Append(updates[l], u)]
          /\ u.kind = "PROGRESS" => ~ DatedAfter(l, u.day)
  <2>1. ASSUME LogDrop(l)
        PROVE  \E u \in Updates :
                  /\ updates' = [updates EXCEPT ![l] = Append(updates[l], u)]
                  /\ u.kind # "PROGRESS"
    <3>1. Update("DROP", 0) \in Updates /\ Update("DROP", 0).kind # "PROGRESS"
        BY MaxDayAssumption DEF Update, Updates, Days
    <3> QED BY <2>1, <3>1 DEF LogDrop, AddUpdate
  <2>2. ASSUME NEW day \in Days, LogProgress(l, day)
        PROVE  \E u \in Updates :
                  /\ updates' = [updates EXCEPT ![l] = Append(updates[l], u)]
                  /\ ~ DatedAfter(l, u.day)
    <3>1. Update("PROGRESS", day) \in Updates /\ Update("PROGRESS", day).day = day
        BY DEF Update, Updates
    <3> QED BY <2>2, <3>1 DEF LogProgress, AddUpdate
  <2> QED BY <2>1, <2>2
<1>3. KeepsRule(Append(updates[l], u), updates[l])
    BY <1>1, <1>2, AppendedRule, DatedAfterHere DEF KeepsRule
<1> QED BY <1>2, <1>3, OneHistoryRule

LEMMA EditDayRule ==
    ASSUME EntriesOK, NEW l \in Levels, NEW i, NEW day \in Days, EditDay(l, i, day)
    PROVE  \A m \in Levels : KeepsRule(updates'[m], updates[m])
<1> DEFINE g == [updates[l] EXCEPT ![i].day = day]
<1>1. /\ i \in DOMAIN updates[l]
      /\ updates[l] \in Seq(Updates)
      /\ updates' = [updates EXCEPT ![l] = g]
    BY DEF EditDay, EntriesOK
<1>2. updates[l][i] \in Updates
    BY <1>1
<1>3. /\ DOMAIN g = DOMAIN updates[l]
      /\ g[i].kind = updates[l][i].kind /\ g[i].day = day
      /\ \A j \in DOMAIN updates[l] : j # i => g[j] = updates[l][j]
    BY <1>1, <1>2 DEF Updates
<1>4. g[i].kind = "PROGRESS" => ~ \E d \in DaysIn(updates[l]) : d # 0 /\ day > d
    BY <1>3, DatedAfterHere DEF EditDay
<1> HIDE DEF g
<1>5. DaysIn(g) = DaysIn(updates[l]) => StrandedIn(g) \subseteq StrandedIn(updates[l])
    BY <1>1, <1>3, <1>4 DEF StrandedIn
<1>6. KeepsRule(g, updates[l])
    BY <1>1, <1>5, SameStranded DEF KeepsRule
<1> QED BY <1>1, <1>6, OneHistoryRule

LEMMA EraseRule ==
    ASSUME EntriesOK, NEW l \in Levels, EraseEntry(l)
    PROVE  \A m \in Levels : KeepsRule(updates'[m], updates[m])
<1>1. updates' = [updates EXCEPT ![l] = <<>>] /\ updates[l] \in Seq(Updates)
    BY DEF EraseEntry, EntriesOK
<1>2. StrandedIn(<<>>) = {}
    BY DEF StrandedIn
<1>3. KeepsRule(<<>>, updates[l])
    BY <1>1, <1>2, SameStranded DEF KeepsRule
<1> QED BY <1>1, <1>3, OneHistoryRule

LEMMA DeleteUpdateRule ==
    ASSUME EntriesOK, NEW l \in Levels, NEW i, DeleteUpdate(l, i)
    PROVE  \A m \in Levels : KeepsRule(updates'[m], updates[m])
<1>1. CASE Len(updates[l]) = 1
    BY <1>1, EraseRule DEF DeleteUpdate
<1>2. CASE Len(updates[l]) # 1
  <2>1. /\ i \in DOMAIN updates[l]
        /\ updates[l] \in Seq(Updates)
        /\ updates' = [updates EXCEPT ![l] = RemoveAt(updates[l], i)]
      BY <1>2 DEF DeleteUpdate, EntriesOK
  <2>2. KeepsRule(RemoveAt(updates[l], i), updates[l])
      BY <2>1, RemovedRule DEF KeepsRule
  <2> QED BY <2>1, <2>2, OneHistoryRule
<1> QED BY <1>1, <1>2

LEMMA StepRule ==
    ASSUME EntriesOK, [ProgressNext]_progressVars
    PROVE  \A m \in Levels : KeepsRule(updates'[m], updates[m])
<1>1. CASE UNCHANGED progressVars
    BY <1>1, SameHistoriesRule DEF progressVars
<1>2. ASSUME NEW l \in Levels, NEW day \in Days, LogCompletion(l, day) \/ LogProgress(l, day)
      PROVE  \A m \in Levels : KeepsRule(updates'[m], updates[m])
    BY <1>2, LogCompletionRule, LoggingRule
<1>3. ASSUME NEW l \in Levels, LogDrop(l) \/ EraseEntry(l)
      PROVE  \A m \in Levels : KeepsRule(updates'[m], updates[m])
    BY <1>3, LoggingRule, EraseRule
<1>4. ASSUME NEW l \in Levels, NEW i \in DOMAIN updates[l],
             DeleteUpdate(l, i) \/ \E day \in Days : EditDay(l, i, day)
      PROVE  \A m \in Levels : KeepsRule(updates'[m], updates[m])
    BY <1>4, DeleteUpdateRule, EditDayRule
<1>5. ASSUME \/ \E l : WantToBeat(l) \/ StopWanting(l) \/ UnplaceEntry(l)
             \/ \E l, above, below : PlaceCompletion(l, above, below) \/ ReorderEntry(l, above, below)
             \/ \E S, p : ImportRanking(S, p)
      PROVE  \A m \in Levels : KeepsRule(updates'[m], updates[m])
  <2>1. updates' = updates
      BY <1>5 DEF WantToBeat, StopWanting, UnplaceEntry, PlaceCompletion, ReorderEntry, ImportRanking
  <2> QED BY <2>1, SameHistoriesRule
<1> QED BY <1>1, <1>2, <1>3, <1>4, <1>5 DEF ProgressNext

\* docs/LEVEL_LOGGING.md, the ordering rule: as long as a level's completion dates
\* stay as they are, no step leaves more progress entries dated after them.
THEOREM OrderingRuleHolds == ProgressSpec => OrderingRule
<1> DEFINE Kept == \A l \in Levels :
                      CompletionDays(l)' = CompletionDays(l) =>
                          Cardinality(Stranded(l)') <= Cardinality(Stranded(l))
<1>1. EntriesOK /\ [ProgressNext]_progressVars => Kept
  <2> SUFFICES ASSUME EntriesOK, [ProgressNext]_progressVars, NEW l \in Levels
               PROVE  CompletionDays(l)' = CompletionDays(l) =>
                          Cardinality(Stranded(l)') <= Cardinality(Stranded(l))
      OBVIOUS
  <2>1. KeepsRule(updates'[l], updates[l])
      BY StepRule
  <2>2. CompletionDays(l) = DaysIn(updates[l]) /\ Stranded(l) = StrandedIn(updates[l])
      BY StrandedHere
  <2>3. CompletionDays(l)' = DaysIn(updates'[l]) /\ Stranded(l)' = StrandedIn(updates'[l])
      BY DEF CompletionDays, Stranded, DatedAfter, Completions, DaysIn, StrandedIn, CompletionsIn
  <2> QED BY <2>1, <2>2, <2>3 DEF KeepsRule
<1>2. EntriesOK /\ [ProgressNext]_progressVars => EntriesOK'
    BY StepEntries
<1>3. ProgressInit => EntriesOK
    BY InitEntries
<1>4. OrderingRule <=> [][Kept]_progressVars
    BY DEF OrderingRule
<1> QED BY <1>1, <1>2, <1>3, <1>4, PTL DEF ProgressSpec
=============================================================================
