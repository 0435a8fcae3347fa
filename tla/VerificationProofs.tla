------------------------ MODULE VerificationProofs ------------------------
(***************************************************************************)
(* What the emailed codes promise holds for any number of codes, keys and  *)
(* requests at once, any limits, and any clock.                            *)
(***************************************************************************)
EXTENDS Verification, FiniteSetTheorems, TLAPS

-----------------------------------------------------------------------------
(* The type invariant.                                                     *)

CodeRow == [status : {"unused", "live", "consumed", "purged"}, key : Keys \cup {None},
            ip : Ips \cup {None}, secret : Secrets \cup {None}, attempts : Nat, created : Nat]

Request == [at : {"idle", "replace", "create", "count", "accept"}, key : Keys \cup {None},
            ip : Ips \cup {None}, id : Ids \cup {None}, seen : SUBSET Ids, now : Nat]

LEMMA IdleType == Idle \in Request
BY DEF Idle, Request

LEMMA UnusedType == Unused \in CodeRow /\ [Unused EXCEPT !.status = "purged"] \in CodeRow
BY DEF Unused, CodeRow

\* A step of one request that goes on as r, and leaves the clock alone.
LEMMA RequestType ==
    ASSUME TypeOK, NEW p \in Slots, NEW r \in Request, req' = [req EXCEPT ![p] = r], UNCHANGED now,
           codes' \in [Ids -> CodeRow], used' \in [Ids -> Nat], replaces' \in [Ids -> SUBSET Ids]
    PROVE  TypeOK'
BY DEF TypeOK, Request, CodeRow

LEMMA TypeInit == Init => TypeOK
BY IdleType, UnusedType DEF Init, TypeOK, CodeRow, Request

LEMMA TypeNext == TypeOK /\ [Next]_vars => TypeOK'
<1> SUFFICES ASSUME TypeOK, [Next]_vars PROVE TypeOK'
  OBVIOUS
<1>1. /\ codes \in [Ids -> CodeRow] /\ used \in [Ids -> Nat] /\ replaces \in [Ids -> SUBSET Ids]
      /\ req \in [Slots -> Request] /\ now \in Nat
  BY DEF TypeOK, CodeRow, Request
<1>2. ASSUME NEW p \in Slots, NEW k \in Keys, NEW ip \in Ips, StartIssue(p, k, ip)
      PROVE  TypeOK'
  <2>1. [Idle EXCEPT !.at = "replace", !.key = k, !.ip = ip, !.now = now] \in Request
    BY <1>1 DEF Idle, Request
  <2> QED
    BY <1>1, <1>2, <2>1, RequestType DEF StartIssue
<1>3. ASSUME NEW p \in Slots, Replace(p)
      PROVE  TypeOK'
  <2>1. Live(req[p].key) \in SUBSET Ids
    BY DEF Live
  <2>2. [req[p] EXCEPT !.at = "create", !.seen = Live(req[p].key)] \in Request
    BY <1>1, <2>1 DEF Request
  <2>3. req' = [req EXCEPT ![p] = [req[p] EXCEPT !.at = "create", !.seen = Live(req[p].key)]]
    BY <1>1, <1>3 DEF Replace, Request
  <2> QED
    BY <1>1, <1>3, <2>2, <2>3, RequestType DEF Replace
<1>4. ASSUME NEW p \in Slots, Create(p)
      PROVE  TypeOK'
  <2>1. req[p] \in Request
    BY <1>1
  <2>2. PICK i \in Ids, s \in Secrets :
           /\ codes' = [j \in Ids |->
                 IF j = i
                 THEN [status |-> "live", key |-> req[p].key, ip |-> req[p].ip, secret |-> s,
                       attempts |-> 0, created |-> req[p].now]
                 ELSE IF j \in req[p].seen THEN [codes[j] EXCEPT !.status = "consumed"]
                 ELSE codes[j]]
           /\ replaces' = [replaces EXCEPT ![i] = req[p].seen]
    BY <1>4 DEF Create
  <2>3. [status |-> "live", key |-> req[p].key, ip |-> req[p].ip, secret |-> s,
         attempts |-> 0, created |-> req[p].now] \in CodeRow
    BY <2>1 DEF Request, CodeRow
  <2>4. \A j \in Ids : codes[j] \in CodeRow /\ [codes[j] EXCEPT !.status = "consumed"] \in CodeRow
    BY <1>1 DEF CodeRow
  <2>5. codes' \in [Ids -> CodeRow]
    BY <2>2, <2>3, <2>4
  <2>6. replaces' \in [Ids -> SUBSET Ids]
    BY <1>1, <2>1, <2>2 DEF Request
  <2> QED
    BY <1>1, <1>4, <2>5, <2>6, IdleType, RequestType DEF Create
<1>5. ASSUME NEW p \in Slots, NEW k \in Keys, NEW guess \in Secrets, ReadCode(p, k, guess)
      PROVE  TypeOK'
  <2>1. PICK i \in Newest(k) :
           req' = [req EXCEPT ![p] =
              [Idle EXCEPT !.at = IF guess = codes[i].secret THEN "accept" ELSE "count", !.id = i]]
    BY <1>5 DEF ReadCode
  <2>2. i \in Ids
    BY DEF Newest, Live
  <2>3. [Idle EXCEPT !.at = IF guess = codes[i].secret THEN "accept" ELSE "count", !.id = i] \in Request
    BY <2>2 DEF Idle, Request
  <2> QED
    BY <1>1, <1>5, <2>1, <2>3, RequestType DEF ReadCode
<1>6. ASSUME NEW p \in Slots, CountGuess(p)
      PROVE  TypeOK'
  <2>1. codes' \in [Ids -> CodeRow]
    <3>1. codes' = codes \/ codes' = [codes EXCEPT ![req[p].id] = [codes[req[p].id] EXCEPT !.attempts = @ + 1]]
      BY <1>1, <1>6 DEF CountGuess
    <3>2. \A i \in Ids : [codes[i] EXCEPT !.attempts = @ + 1] \in CodeRow
      BY <1>1 DEF CodeRow
    <3> QED
      BY <1>1, <3>1, <3>2
  <2> QED
    BY <1>1, <1>6, <2>1, IdleType, RequestType DEF CountGuess
<1>7. ASSUME NEW p \in Slots, Accept(p)
      PROVE  TypeOK'
  <2>1. codes' \in [Ids -> CodeRow]
    <3>1. codes' = codes \/ codes' = [codes EXCEPT ![req[p].id] = [codes[req[p].id] EXCEPT !.status = "consumed"]]
      BY <1>1, <1>7 DEF Accept
    <3>2. \A i \in Ids : [codes[i] EXCEPT !.status = "consumed"] \in CodeRow
      BY <1>1 DEF CodeRow
    <3> QED
      BY <1>1, <3>1, <3>2
  <2>2. used' \in [Ids -> Nat]
    BY <1>1, <1>7 DEF Accept
  <2> QED
    BY <1>1, <1>7, <2>1, <2>2, IdleType, RequestType DEF Accept
<1>8. ASSUME NEW p \in Slots, Die(p)
      PROVE  TypeOK'
  BY <1>1, <1>8, IdleType, RequestType DEF Die
<1>9. CASE Purge
  <2>1. codes' \in [Ids -> CodeRow]
    BY <1>1, <1>9, UnusedType DEF Purge
  <2> QED
    BY <1>9, <2>1 DEF Purge, TypeOK, CodeRow
<1>10. CASE Tick
  BY <1>1, <1>10 DEF Tick, TypeOK
<1>11. CASE UNCHANGED vars
  BY <1>11 DEF vars, TypeOK
<1> QED
  BY <1>2, <1>3, <1>4, <1>5, <1>6, <1>7, <1>8, <1>9, <1>10, <1>11 DEF Next

\* Codes, requests and the histories of their use stay well-typed.
THEOREM TypeCorrect == Spec => []TypeOK
BY TypeInit, TypeNext, PTL DEF Spec

-----------------------------------------------------------------------------
(* A code is used once, and not after it was replaced.                     *)

Dead(i) == codes[i].status \in {"consumed", "purged"}

\* What keeps a used or a replaced code from being used again is that its row, like one that
\* an open transaction is about to consume, never comes back.
DeadInv ==
    /\ \A i \in Ids : used[i] = 0 \/ (used[i] = 1 /\ Dead(i))
    /\ \A i, j \in Ids : i \in replaces[j] => Dead(i)
    /\ \A p \in Slots : \A i \in req[p].seen : i \in Rows /\ req[p].at = "create"

\* No step brings a row back.
LEMMA RowsGoOn ==
    ASSUME TypeOK, [Next]_vars, NEW i \in Ids
    PROVE  /\ Dead(i) => Dead(i)'
           /\ i \in Rows => i \in Rows' \/ Purge
<1>1. codes \in [Ids -> CodeRow]
  BY DEF TypeOK, CodeRow
<1>2. CASE UNCHANGED codes
  BY <1>2 DEF Dead, Rows
<1>3. ASSUME NEW p \in Slots, Create(p)
      PROVE  /\ Dead(i) => Dead(i)'
             /\ i \in Rows => i \in Rows'
  <2>1. PICK n \in Ids, s \in Secrets :
           /\ codes[n].status = "unused"
           /\ codes' = [j \in Ids |->
                 IF j = n
                 THEN [status |-> "live", key |-> req[p].key, ip |-> req[p].ip, secret |-> s,
                       attempts |-> 0, created |-> req[p].now]
                 ELSE IF j \in req[p].seen THEN [codes[j] EXCEPT !.status = "consumed"]
                 ELSE codes[j]]
    BY <1>3 DEF Create
  <2> QED
    BY <1>1, <2>1 DEF Dead, Rows, CodeRow
<1>4. ASSUME NEW p \in Slots, CountGuess(p) \/ Accept(p)
      PROVE  /\ Dead(i) => Dead(i)'
             /\ i \in Rows => i \in Rows'
  BY <1>1, <1>4 DEF CountGuess, Accept, Dead, Rows, CodeRow
<1>5. CASE Purge
  BY <1>1, <1>5 DEF Purge, Dead, CodeRow, Unused, Rows
<1> QED
  BY <1>2, <1>3, <1>4, <1>5 DEF Next, vars, StartIssue, Replace, ReadCode, Die, Tick

LEMMA DeadInit == Init => DeadInv
BY DEF Init, DeadInv, Idle

LEMMA DeadNext == TypeOK /\ DeadInv /\ [Next]_vars => DeadInv'
<1> SUFFICES ASSUME TypeOK, DeadInv, [Next]_vars PROVE DeadInv'
  OBVIOUS
<1>1. /\ codes \in [Ids -> CodeRow] /\ used \in [Ids -> Nat] /\ replaces \in [Ids -> SUBSET Ids]
      /\ req \in [Slots -> Request]
  BY DEF TypeOK, CodeRow, Request
<1>2. \A i \in Ids : used'[i] = 0 \/ (used'[i] = 1 /\ Dead(i)')
  <2>1. CASE UNCHANGED used
    BY <2>1, RowsGoOn DEF DeadInv
  <2>2. ASSUME NEW p \in Slots, Accept(p), used' # used
        PROVE  \A i \in Ids : used'[i] = 0 \/ (used'[i] = 1 /\ Dead(i)')
    <3>1. /\ codes[req[p].id].status = "live"
          /\ codes' = [codes EXCEPT ![req[p].id].status = "consumed"]
          /\ used' = [used EXCEPT ![req[p].id] = @ + 1]
      BY <2>2 DEF Accept
    <3>2. ASSUME NEW i \in Ids, i = req[p].id
          PROVE  used'[i] = 1 /\ Dead(i)'
      BY <1>1, <3>1, <3>2 DEF DeadInv, Dead, CodeRow
    <3>3. ASSUME NEW i \in Ids, i # req[p].id
          PROVE  used'[i] = 0 \/ (used'[i] = 1 /\ Dead(i)')
      BY <1>1, <3>1, <3>3, RowsGoOn DEF DeadInv
    <3> QED
      BY <3>2, <3>3
  <2> QED
    BY <2>1, <2>2 DEF Next, vars, StartIssue, Replace, Create, ReadCode, CountGuess, Die, Purge, Tick
<1>3. \A i, j \in Ids : i \in replaces'[j] => Dead(i)'
  <2>1. CASE UNCHANGED replaces
    BY <2>1, RowsGoOn DEF DeadInv
  <2>2. ASSUME NEW p \in Slots, Create(p)
        PROVE  \A i, j \in Ids : i \in replaces'[j] => Dead(i)'
    <3>1. PICK n \in Ids, s \in Secrets :
             /\ codes[n].status = "unused"
             /\ codes' = [j \in Ids |->
                   IF j = n
                   THEN [status |-> "live", key |-> req[p].key, ip |-> req[p].ip, secret |-> s,
                         attempts |-> 0, created |-> req[p].now]
                   ELSE IF j \in req[p].seen THEN [codes[j] EXCEPT !.status = "consumed"]
                   ELSE codes[j]]
             /\ replaces' = [replaces EXCEPT ![n] = req[p].seen]
      BY <2>2 DEF Create
    <3>2. n \notin req[p].seen
      BY <3>1 DEF DeadInv, Rows
    <3>3. \A i \in Ids : i \in req[p].seen => Dead(i)'
      BY <1>1, <3>1, <3>2 DEF Dead, CodeRow
    <3> QED
      BY <1>1, <3>1, <3>3, RowsGoOn DEF DeadInv
  <2> QED
    BY <2>1, <2>2 DEF Next, vars, StartIssue, Replace, ReadCode, CountGuess, Accept, Die, Purge, Tick
<1>4. \A p \in Slots : \A i \in req'[p].seen : i \in Rows' /\ req'[p].at = "create"
  <2>1. ASSUME NEW p \in Slots, ~ Purge, req'[p] = req[p] \/ req'[p].seen = {}
        PROVE  \A i \in req'[p].seen : i \in Rows' /\ req'[p].at = "create"
    BY <1>1, <2>1, RowsGoOn DEF DeadInv, Request
  <2>2. CASE Purge
    <3>1. \A p \in Slots : \A i \in req[p].seen : RowLocked(i) /\ i \in Rows
      BY DEF DeadInv, RowLocked
    <3>2. \A p \in Slots : \A i \in req[p].seen : i \in Ids /\ codes'[i] = codes[i]
      BY <1>1, <2>2, <3>1 DEF Purge, Rows
    <3> QED
      BY <2>2, <3>1, <3>2 DEF Purge, Rows, DeadInv
  <2>3. ASSUME NEW p \in Slots, NEW q \in Slots, Replace(q), ~ Purge
        PROVE  \A i \in req'[p].seen : i \in Rows' /\ req'[p].at = "create"
    <3>1. req'[q].seen = Live(req[q].key) /\ req'[q].at = "create" /\ UNCHANGED codes
      BY <1>1, <2>3 DEF Replace, Request
    <3>2. CASE p = q
      BY <3>1, <3>2 DEF Live, Rows
    <3>3. CASE p # q
      BY <1>1, <2>1, <2>3, <3>3 DEF Replace
    <3> QED
      BY <3>2, <3>3
  <2>4. ASSUME NEW p \in Slots, NEW q \in Slots, Create(q) \/ CountGuess(q) \/ Accept(q) \/ Die(q)
        PROVE  req'[p] = req[p] \/ req'[p].seen = {}
    BY <1>1, <2>4 DEF Create, CountGuess, Accept, Die, Idle
  <2>5. ASSUME NEW p \in Slots, NEW q \in Slots, NEW k \in Keys, NEW ip \in Ips, StartIssue(q, k, ip)
        PROVE  req'[p] = req[p] \/ req'[p].seen = {}
    BY <1>1, <2>5 DEF StartIssue, Idle
  <2>6. ASSUME NEW p \in Slots, NEW q \in Slots, NEW k \in Keys, NEW g \in Secrets, ReadCode(q, k, g)
        PROVE  req'[p] = req[p] \/ req'[p].seen = {}
    BY <1>1, <2>6 DEF ReadCode, Idle
  <2> QED
    BY <2>1, <2>2, <2>3, <2>4, <2>5, <2>6 DEF Next, vars, Tick
<1> QED
  BY <1>2, <1>3, <1>4 DEF DeadInv

\* Of two uses of a right code that interleave, one is refused.
THEOREM CodesUsedOnce == Spec => []UsedOnce
<1>1. DeadInv => UsedOnce
  BY DEF DeadInv, UsedOnce
<1> QED
  BY <1>1, TypeInit, TypeNext, DeadInit, DeadNext, PTL DEF Spec

\* A use that read a code before a newer one replaced it is refused too.
THEOREM ReplacedStaysDead == Spec => ReplacedIsDead
<1>1. TypeOK /\ DeadInv /\ [Next]_vars => [\A i, j \in Ids : used'[i] > used[i] => i \notin replaces[j]]_vars
  <2> SUFFICES ASSUME TypeOK, DeadInv, [Next]_vars, NEW i \in Ids, NEW j \in Ids, used'[i] > used[i]
               PROVE  i \notin replaces[j]
    OBVIOUS
  <2>1. used[i] \in Nat /\ used \in [Ids -> Nat]
    BY DEF TypeOK
  <2>2. used' # used
    BY <2>1
  <2>3. PICK p \in Slots : Accept(p)
    BY <2>2 DEF Next, vars, StartIssue, Replace, Create, ReadCode, CountGuess, Die, Purge, Tick
  <2>4. codes[i].status = "live"
    BY <2>1, <2>2, <2>3 DEF Accept
  <2> QED
    BY <2>4 DEF DeadInv, Dead
<1> QED
  BY <1>1, TypeInit, TypeNext, DeadInit, DeadNext, PTL DEF Spec, ReplacedIsDead
-----------------------------------------------------------------------------
(* The limits.                                                             *)

LEMMA Constants ==
    /\ MAX_ATTEMPTS \in Nat \ {0}
    /\ MAX_SENDS_PER_ADDRESS_PER_HOUR \in Nat \ {0} /\ MAX_SENDS_PER_IP_PER_HOUR \in Nat \ {0}
    /\ Hour \in Nat
    /\ Cardinality(Slots) \in Nat
BY LimitsAssumption, FS_CardinalityType

\* Sets of requests and of codes are finite.
LEMMA Finite ==
    /\ \A S \in SUBSET Slots : IsFiniteSet(S) /\ Cardinality(S) \in Nat /\ Cardinality(S) <= Cardinality(Slots)
    /\ \A S \in SUBSET Ids : IsFiniteSet(S) /\ Cardinality(S) \in Nat
BY LimitsAssumption, FS_Subset, FS_CardinalityType

\* Wrong guesses that were compared and are not counted yet.
Counting(i) == {p \in Slots : req[p].at = "count" /\ req[p].id = i}

\* Counted guesses alone are no invariant: what is under way will still be counted.
GuessInv ==
    \A i \in Ids : codes[i].attempts + Cardinality(Counting(i)) <= MAX_ATTEMPTS - 1 + Cardinality(Slots)

LEMMA GuessInit == Init => GuessInv
<1> SUFFICES ASSUME Init, NEW i \in Ids
             PROVE  codes[i].attempts + Cardinality(Counting(i)) <= MAX_ATTEMPTS - 1 + Cardinality(Slots)
  BY DEF GuessInv
<1>1. codes[i].attempts = 0
  BY DEF Init, Unused
<1>2. Counting(i) \in SUBSET Slots
  BY DEF Counting
<1> QED
  BY <1>1, <1>2, Finite, Constants

LEMMA GuessNext == TypeOK /\ GuessInv /\ [Next]_vars => GuessInv'
<1> SUFFICES ASSUME TypeOK, GuessInv, [Next]_vars, NEW i \in Ids
             PROVE  codes'[i].attempts + Cardinality(Counting(i)') <= MAX_ATTEMPTS - 1 + Cardinality(Slots)
  BY DEF GuessInv
<1>1. codes \in [Ids -> CodeRow] /\ req \in [Slots -> Request]
  BY DEF TypeOK, CodeRow, Request
<1>2. codes[i].attempts \in Nat
  BY <1>1 DEF CodeRow
<1>3. Counting(i) \in SUBSET Slots /\ Counting(i)' \in SUBSET Slots
  BY DEF Counting
<1>4. codes[i].attempts + Cardinality(Counting(i)) <= MAX_ATTEMPTS - 1 + Cardinality(Slots)
  BY DEF GuessInv
<1>5. ASSUME codes'[i].attempts = codes[i].attempts \/ codes'[i].attempts = 0,
             Counting(i)' \subseteq Counting(i)
      PROVE  codes'[i].attempts + Cardinality(Counting(i)') <= MAX_ATTEMPTS - 1 + Cardinality(Slots)
  <2>1. Cardinality(Counting(i)') <= Cardinality(Counting(i))
    BY <1>3, <1>5, Finite, FS_Subset
  <2> QED
    BY <1>2, <1>3, <1>4, <1>5, <2>1, Finite, Constants
<1>6. ASSUME NEW p \in Slots, NEW k \in Keys, NEW ip \in Ips, StartIssue(p, k, ip)
      PROVE  Counting(i)' \subseteq Counting(i) /\ codes' = codes
  BY <1>1, <1>6 DEF StartIssue, Counting, Idle
<1>7. ASSUME NEW p \in Slots, Replace(p) \/ Create(p) \/ Accept(p) \/ Die(p) \/ CountGuess(p)
      PROVE  Counting(i)' \subseteq Counting(i)
  BY <1>1, <1>7 DEF Replace, Create, Accept, Die, CountGuess, Counting, Idle, Request
<1>8. ASSUME NEW p \in Slots, Replace(p) \/ Create(p) \/ Accept(p) \/ Die(p)
      PROVE  codes'[i].attempts = codes[i].attempts \/ codes'[i].attempts = 0
  <2>1. CASE Create(p)
    <3>1. PICK n \in Ids, s \in Secrets :
             codes' = [j \in Ids |->
                IF j = n
                THEN [status |-> "live", key |-> req[p].key, ip |-> req[p].ip, secret |-> s,
                      attempts |-> 0, created |-> req[p].now]
                ELSE IF j \in req[p].seen THEN [codes[j] EXCEPT !.status = "consumed"]
                ELSE codes[j]]
      BY <2>1 DEF Create
    <3> QED
      BY <1>1, <3>1 DEF CodeRow
  <2>2. CASE Accept(p)
    BY <1>1, <2>2 DEF Accept, CodeRow
  <2>3. CASE UNCHANGED codes
    BY <2>3
  <2> QED
    BY <1>8, <2>1, <2>2, <2>3 DEF Replace, Die
<1>9. ASSUME NEW p \in Slots, CountGuess(p)
      PROVE  codes'[i].attempts + Cardinality(Counting(i)') <= MAX_ATTEMPTS - 1 + Cardinality(Slots)
  <2>1. CASE req[p].id = i
    <3>1. codes'[i].attempts <= codes[i].attempts + 1 /\ codes'[i].attempts \in Nat
      BY <1>1, <1>2, <1>9, <2>1 DEF CountGuess, CodeRow
    <3>2. Counting(i)' = Counting(i) \ {p} /\ p \in Counting(i)
      BY <1>1, <1>9, <2>1 DEF CountGuess, Counting, Idle
    <3>3. Cardinality(Counting(i)') = Cardinality(Counting(i)) - 1
      BY <1>3, <3>2, Finite, FS_RemoveElement
    <3> QED
      BY <1>2, <1>3, <1>4, <3>1, <3>3, Finite, Constants
  <2>2. CASE req[p].id # i
    <3>1. codes'[i].attempts = codes[i].attempts
      BY <1>1, <1>9, <2>2 DEF CountGuess
    <3> QED
      BY <1>5, <1>7, <1>9, <3>1
  <2> QED
    BY <2>1, <2>2
<1>10. ASSUME NEW p \in Slots, NEW k \in Keys, NEW guess \in Secrets, ReadCode(p, k, guess)
       PROVE  codes'[i].attempts + Cardinality(Counting(i)') <= MAX_ATTEMPTS - 1 + Cardinality(Slots)
  <2>1. PICK n \in Newest(k) :
           /\ codes[n].attempts < MAX_ATTEMPTS
           /\ req' = [req EXCEPT ![p] =
                 [Idle EXCEPT !.at = IF guess = codes[n].secret THEN "accept" ELSE "count", !.id = n]]
    BY <1>10 DEF ReadCode
  <2>2. codes' = codes
    BY <1>10 DEF ReadCode
  <2>3. CASE n = i
    <3>1. codes[i].attempts <= MAX_ATTEMPTS - 1
      BY <1>2, <2>1, <2>3, Constants
    <3> QED
      BY <1>2, <1>3, <2>2, <3>1, Finite, Constants
  <2>4. CASE n # i
    <3>1. Counting(i)' \subseteq Counting(i)
      BY <1>1, <2>1, <2>4 DEF Counting, Idle
    <3> QED
      BY <1>5, <2>2, <3>1
  <2> QED
    BY <2>3, <2>4
<1>11. CASE Purge
  <2>1. codes'[i].attempts = codes[i].attempts \/ codes'[i].attempts = 0
    BY <1>1, <1>11 DEF Purge, Unused
  <2> QED
    BY <1>5, <1>11, <2>1 DEF Purge, Counting
<1>12. CASE Tick \/ UNCHANGED vars
  BY <1>5, <1>12 DEF Tick, vars, Counting
<1> QED
  BY <1>5, <1>6, <1>7, <1>8, <1>9, <1>10, <1>11, <1>12 DEF Next

\* No row and no request is from the future.
ClockInv ==
    /\ \A i \in Ids : codes[i].created <= now
    /\ \A p \in Slots : req[p].now <= now

LEMMA ClockInit == Init => ClockInv
BY DEF Init, ClockInv, Unused, Idle

LEMMA ClockNext == TypeOK /\ ClockInv /\ [Next]_vars => ClockInv'
<1> SUFFICES ASSUME TypeOK, ClockInv, [Next]_vars PROVE ClockInv'
  OBVIOUS
<1>1. codes \in [Ids -> CodeRow] /\ req \in [Slots -> Request] /\ now \in Nat
  BY DEF TypeOK, CodeRow, Request
<1>2. \A i \in Ids : codes[i].created \in Nat
  BY <1>1 DEF CodeRow
<1>3. \A p \in Slots : req[p].now \in Nat
  BY <1>1 DEF Request
<1>4. now' = now \/ now' = now + 1
  BY DEF Next, vars, StartIssue, Replace, Create, ReadCode, CountGuess, Accept, Die, Purge, Tick
<1>5. \A i \in Ids : codes'[i].created <= now \/ codes'[i].created = 0
  <2>1. ASSUME NEW p \in Slots, Create(p), NEW i \in Ids
        PROVE  codes'[i].created <= now
    <3>1. PICK n \in Ids, s \in Secrets :
             codes' = [j \in Ids |->
                IF j = n
                THEN [status |-> "live", key |-> req[p].key, ip |-> req[p].ip, secret |-> s,
                      attempts |-> 0, created |-> req[p].now]
                ELSE IF j \in req[p].seen THEN [codes[j] EXCEPT !.status = "consumed"]
                ELSE codes[j]]
      BY <2>1 DEF Create
    <3> QED
      BY <1>1, <3>1 DEF ClockInv, CodeRow
  <2>2. ASSUME NEW p \in Slots, CountGuess(p) \/ Accept(p), NEW i \in Ids
        PROVE  codes'[i].created = codes[i].created
    BY <1>1, <2>2 DEF CountGuess, Accept, CodeRow
  <2>3. ASSUME Purge, NEW i \in Ids
        PROVE  codes'[i].created = codes[i].created \/ codes'[i].created = 0
    BY <1>1, <2>3 DEF Purge, Unused
  <2>4. CASE UNCHANGED codes
    BY <2>4 DEF ClockInv
  <2> QED
    BY <2>1, <2>2, <2>3, <2>4 DEF ClockInv, Next, vars, StartIssue, Replace, ReadCode, Die, Tick
<1>6. \A p \in Slots : req'[p].now <= now \/ req'[p].now = 0
  <2>1. ASSUME NEW p \in Slots, NEW q \in Slots, NEW k \in Keys, NEW ip \in Ips, StartIssue(q, k, ip)
        PROVE  req'[p].now <= now
    BY <1>1, <2>1 DEF StartIssue, Idle, ClockInv
  <2>2. ASSUME NEW p \in Slots, NEW q \in Slots, Replace(q)
        PROVE  req'[p].now = req[p].now
    BY <1>1, <2>2 DEF Replace, Request
  <2>3. ASSUME NEW p \in Slots, NEW q \in Slots, Create(q) \/ CountGuess(q) \/ Accept(q) \/ Die(q)
        PROVE  req'[p].now = req[p].now \/ req'[p].now = 0
    BY <1>1, <2>3 DEF Create, CountGuess, Accept, Die, Idle
  <2>4. ASSUME NEW p \in Slots, NEW q \in Slots, NEW k \in Keys, NEW g \in Secrets, ReadCode(q, k, g)
        PROVE  req'[p].now = req[p].now \/ req'[p].now = 0
    BY <1>1, <2>4 DEF ReadCode, Idle
  <2>5. CASE UNCHANGED req
    BY <2>5 DEF ClockInv
  <2> QED
    BY <2>1, <2>2, <2>3, <2>4, <2>5 DEF ClockInv, Next, vars, Purge, Tick
<1>7. \A i \in Ids : codes'[i].created \in Nat
  BY TypeNext DEF TypeOK
<1>8. \A p \in Slots : req'[p].now \in Nat
  BY TypeNext DEF TypeOK
<1> QED
  BY <1>1, <1>4, <1>5, <1>6, <1>7, <1>8 DEF ClockInv

\* W stands for the pairs of a key and an ip of one address, or of one requester.  The codes
\* sent for W in the hour up to t, and the requests of that hour that may still add one.
SentBy(W, t) ==
    {i \in Rows : <<codes[i].key, codes[i].ip>> \in W /\ codes[i].created + Hour > t /\ codes[i].created <= t}

AskedBy(W, t) ==
    {p \in Slots : /\ req[p].at \in {"replace", "create"} /\ <<req[p].key, req[p].ip>> \in W
                   /\ req[p].now + Hour > t /\ req[p].now <= t}

Bounded(W, max) ==
    \A t \in 0..now : Cardinality(SentBy(W, t)) + Cardinality(AskedBy(W, t)) <= max - 1 + Cardinality(Slots)

LEMMA BoundedInit ==
    ASSUME Init, NEW W, NEW max \in Nat \ {0}
    PROVE  Bounded(W, max)
<1> SUFFICES ASSUME NEW t \in 0..now
             PROVE  Cardinality(SentBy(W, t)) + Cardinality(AskedBy(W, t)) <= max - 1 + Cardinality(Slots)
  BY DEF Bounded
<1>1. SentBy(W, t) = {} /\ AskedBy(W, t) = {}
  BY DEF Init, SentBy, AskedBy, Rows, Unused, Idle
<1> QED
  BY <1>1, FS_EmptySet, Constants

\* The limit is checked by every request of W when it starts: then the bound is inductive.
LEMMA BoundedNext ==
    ASSUME TypeOK, DeadInv, ClockInv, [Next]_vars, NEW W, NEW max \in Nat \ {0}, Bounded(W, max),
           \A p \in Slots, k \in Keys, ip \in Ips :
              StartIssue(p, k, ip) /\ <<k, ip>> \in W => Cardinality(SentBy(W, now)) < max
    PROVE  Bounded(W, max)'
<1> SUFFICES ASSUME NEW t \in 0..now'
             PROVE  Cardinality(SentBy(W, t)') + Cardinality(AskedBy(W, t)') <= max - 1 + Cardinality(Slots)
  BY DEF Bounded
<1>1. codes \in [Ids -> CodeRow] /\ req \in [Slots -> Request] /\ now \in Nat
  BY DEF TypeOK, CodeRow, Request
<1>2. /\ SentBy(W, t) \in SUBSET Ids /\ AskedBy(W, t) \in SUBSET Slots
      /\ SentBy(W, t)' \in SUBSET Ids /\ AskedBy(W, t)' \in SUBSET Slots
  BY DEF SentBy, AskedBy, Rows
<1>3. ASSUME t \in 0..now, SentBy(W, t)' \subseteq SentBy(W, t), AskedBy(W, t)' \subseteq AskedBy(W, t)
      PROVE  Cardinality(SentBy(W, t)') + Cardinality(AskedBy(W, t)') <= max - 1 + Cardinality(Slots)
  <2>1. /\ Cardinality(SentBy(W, t)') <= Cardinality(SentBy(W, t))
        /\ Cardinality(AskedBy(W, t)') <= Cardinality(AskedBy(W, t))
    BY <1>2, <1>3, Finite, FS_Subset
  <2>2. Cardinality(SentBy(W, t)) + Cardinality(AskedBy(W, t)) <= max - 1 + Cardinality(Slots)
    BY <1>3 DEF Bounded
  <2> QED
    BY <1>2, <2>1, <2>2, Finite, Constants
<1>4. ASSUME NEW p \in Slots, NEW k \in Keys, NEW ip \in Ips, StartIssue(p, k, ip)
      PROVE  Cardinality(SentBy(W, t)') + Cardinality(AskedBy(W, t)') <= max - 1 + Cardinality(Slots)
  <2>1. SentBy(W, t)' = SentBy(W, t) /\ t \in 0..now
    BY <1>4 DEF StartIssue, SentBy, Rows
  <2>2. CASE t = now /\ <<k, ip>> \in W
    <3>1. Cardinality(SentBy(W, t)) < max
      BY <1>4, <2>2
    <3> QED
      BY <1>2, <2>1, <3>1, Finite, Constants
  <2>3. CASE ~ (t = now /\ <<k, ip>> \in W)
    <3>1. AskedBy(W, t)' \subseteq AskedBy(W, t)
      <4> SUFFICES ASSUME NEW x \in Slots, x \in AskedBy(W, t)'
                   PROVE  x \in AskedBy(W, t)
        BY <1>2
      <4>1. /\ req'[x].at \in {"replace", "create"} /\ <<req'[x].key, req'[x].ip>> \in W
            /\ req'[x].now + Hour > t /\ req'[x].now <= t
        BY DEF AskedBy
      <4>2. x # p
        <5> SUFFICES ASSUME x = p PROVE FALSE
          OBVIOUS
        <5>1. req'[p].key = k /\ req'[p].ip = ip /\ req'[p].now = now
          BY <1>1, <1>4 DEF StartIssue, Idle
        <5>2. t = now
          BY <1>1, <2>1, <4>1, <5>1
        <5> QED
          BY <2>3, <4>1, <5>1, <5>2
      <4>3. req'[x] = req[x]
        BY <1>1, <1>4, <4>2 DEF StartIssue
      <4> QED
        BY <4>1, <4>3 DEF AskedBy
    <3> QED
      BY <1>3, <2>1, <3>1
  <2> QED
    BY <2>2, <2>3
<1>5. ASSUME NEW p \in Slots, Create(p)
      PROVE  Cardinality(SentBy(W, t)') + Cardinality(AskedBy(W, t)') <= max - 1 + Cardinality(Slots)
  <2>1. PICK n \in Ids, s \in Secrets :
           codes' = [j \in Ids |->
              IF j = n
              THEN [status |-> "live", key |-> req[p].key, ip |-> req[p].ip, secret |-> s,
                    attempts |-> 0, created |-> req[p].now]
              ELSE IF j \in req[p].seen THEN [codes[j] EXCEPT !.status = "consumed"]
              ELSE codes[j]]
    BY <1>5 DEF Create
  <2>2. \A i \in req[p].seen : i \in Rows
    BY DEF DeadInv
  <2>3. SentBy(W, t)' \subseteq SentBy(W, t) \cup {n}
    BY <1>1, <2>1, <2>2 DEF SentBy, Rows, CodeRow
  <2>4. AskedBy(W, t)' = AskedBy(W, t) \ {p}
    BY <1>1, <1>5 DEF Create, AskedBy, Idle
  <2>5. t \in 0..now
    BY <1>5 DEF Create
  <2>6. CASE p \in AskedBy(W, t)
    <3>1. Cardinality(AskedBy(W, t)') = Cardinality(AskedBy(W, t)) - 1
      BY <1>2, <2>4, <2>6, Finite, FS_RemoveElement
    <3>2. Cardinality(SentBy(W, t) \cup {n}) <= Cardinality(SentBy(W, t)) + 1
      BY <1>2, Finite, FS_AddElement
    <3>3. Cardinality(SentBy(W, t)') <= Cardinality(SentBy(W, t) \cup {n})
      BY <1>2, <2>3, Finite, FS_Subset
    <3>4. SentBy(W, t) \cup {n} \in SUBSET Ids
      BY <1>2
    <3>5. Cardinality(SentBy(W, t)) + Cardinality(AskedBy(W, t)) <= max - 1 + Cardinality(Slots)
      BY <2>5 DEF Bounded
    <3> QED
      BY <1>2, <3>1, <3>2, <3>3, <3>4, <3>5, Finite, Constants
  <2>7. CASE p \notin AskedBy(W, t)
    <3>1. ~ (<<req[p].key, req[p].ip>> \in W /\ req[p].now + Hour > t /\ req[p].now <= t)
      BY <1>5, <2>7 DEF Create, AskedBy
    <3>2. SentBy(W, t)' \subseteq SentBy(W, t)
      BY <1>1, <2>1, <2>2, <3>1 DEF SentBy, Rows, CodeRow
    <3> QED
      BY <1>3, <2>4, <2>5, <3>2
  <2> QED
    BY <2>6, <2>7
<1>6. ASSUME NEW p \in Slots, Replace(p) \/ CountGuess(p) \/ Accept(p) \/ Die(p)
      PROVE  Cardinality(SentBy(W, t)') + Cardinality(AskedBy(W, t)') <= max - 1 + Cardinality(Slots)
  <2>1. SentBy(W, t)' \subseteq SentBy(W, t)
    BY <1>1, <1>6 DEF Replace, CountGuess, Accept, Die, SentBy, Rows, CodeRow
  <2>2. AskedBy(W, t)' \subseteq AskedBy(W, t)
    <3>1. CASE Replace(p)
      BY <1>1, <3>1 DEF Replace, AskedBy, Request
    <3>2. CASE CountGuess(p) \/ Accept(p) \/ Die(p)
      BY <1>1, <3>2 DEF CountGuess, Accept, Die, AskedBy, Idle
    <3> QED
      BY <1>6, <3>1, <3>2
  <2>3. t \in 0..now
    BY <1>6 DEF Replace, CountGuess, Accept, Die
  <2> QED
    BY <1>3, <2>1, <2>2, <2>3
<1>7. ASSUME NEW p \in Slots, NEW k \in Keys, NEW guess \in Secrets, ReadCode(p, k, guess)
      PROVE  Cardinality(SentBy(W, t)') + Cardinality(AskedBy(W, t)') <= max - 1 + Cardinality(Slots)
  <2>1. SentBy(W, t)' \subseteq SentBy(W, t) /\ t \in 0..now
    BY <1>7 DEF ReadCode, SentBy, Rows
  <2>2. AskedBy(W, t)' \subseteq AskedBy(W, t)
    BY <1>1, <1>7 DEF ReadCode, AskedBy, Idle
  <2> QED
    BY <1>3, <2>1, <2>2
<1>8. CASE Purge
  <2>1. SentBy(W, t)' \subseteq SentBy(W, t)
    BY <1>1, <1>8 DEF Purge, SentBy, Rows, Unused
  <2>2. AskedBy(W, t)' \subseteq AskedBy(W, t) /\ t \in 0..now
    BY <1>8 DEF Purge, AskedBy
  <2> QED
    BY <1>3, <2>1, <2>2
<1>9. CASE Tick
  <2>1. now' = now + 1 /\ codes' = codes /\ req' = req
    BY <1>9 DEF Tick
  <2>2. CASE t \in 0..now
    <3>1. SentBy(W, t)' \subseteq SentBy(W, t) /\ AskedBy(W, t)' \subseteq AskedBy(W, t)
      BY <2>1 DEF SentBy, AskedBy, Rows
    <3> QED
      BY <1>3, <2>2, <3>1
  <2>3. CASE t = now + 1
    <3>1. \A i \in Ids : codes[i].created \in Nat /\ codes[i].created <= now
      BY <1>1 DEF CodeRow, ClockInv
    <3>2. \A p \in Slots : req[p].now \in Nat /\ req[p].now <= now
      BY <1>1 DEF Request, ClockInv
    <3>3. SentBy(W, t)' \subseteq SentBy(W, now)
      BY <1>1, <2>1, <2>3, <3>1, Constants DEF SentBy, Rows
    <3>4. AskedBy(W, t)' \subseteq AskedBy(W, now)
      BY <1>1, <2>1, <2>3, <3>2, Constants DEF AskedBy
    <3>5. SentBy(W, now) \in SUBSET Ids /\ AskedBy(W, now) \in SUBSET Slots
      BY DEF SentBy, AskedBy, Rows
    <3>6. /\ Cardinality(SentBy(W, t)') <= Cardinality(SentBy(W, now))
          /\ Cardinality(AskedBy(W, t)') <= Cardinality(AskedBy(W, now))
      BY <3>3, <3>4, <3>5, Finite, FS_Subset
    <3>7. Cardinality(SentBy(W, now)) + Cardinality(AskedBy(W, now)) <= max - 1 + Cardinality(Slots)
      BY <1>1 DEF Bounded
    <3> QED
      BY <1>2, <3>5, <3>6, <3>7, Finite, Constants
  <2> QED
    BY <1>1, <2>1, <2>2, <2>3
<1>10. CASE UNCHANGED vars
  <2>1. SentBy(W, t)' \subseteq SentBy(W, t) /\ AskedBy(W, t)' \subseteq AskedBy(W, t) /\ t \in 0..now
    BY <1>10 DEF vars, SentBy, AskedBy, Rows
  <2> QED
    BY <1>3, <2>1
<1> QED
  BY <1>4, <1>5, <1>6, <1>7, <1>8, <1>9, <1>10 DEF Next

OfAddress(a) == {w \in (Keys \cup {None}) \X (Ips \cup {None}) : AddressOf[w[1]] = a}
OfIp(ip) == {w \in (Keys \cup {None}) \X (Ips \cup {None}) : w[2] = ip}

SendsInv ==
    /\ \A k \in Keys : Bounded(OfAddress(AddressOf[k]), MAX_SENDS_PER_ADDRESS_PER_HOUR)
    /\ \A ip \in Ips : Bounded(OfIp(ip), MAX_SENDS_PER_IP_PER_HOUR)

\* The rows a request counts are those of its address, and of its requester.
LEMMA Groups ==
    ASSUME TypeOK, NEW t \in Nat
    PROVE  /\ \A a : SentBy(OfAddress(a), t) = {i \in SentTo(a, t) : codes[i].created <= t}
           /\ \A ip \in Ips : SentBy(OfIp(ip), t) = {i \in SentFrom(ip, t) : codes[i].created <= t}
<1>1. \A i \in Ids : codes[i].key \in Keys \cup {None} /\ codes[i].ip \in Ips \cup {None}
  BY DEF TypeOK
<1> QED
  BY <1>1 DEF SentBy, SentTo, SentFrom, OfAddress, OfIp, Rows

LEMMA SendsNext == TypeOK /\ DeadInv /\ ClockInv /\ SendsInv /\ [Next]_vars => SendsInv'
<1> SUFFICES ASSUME TypeOK, DeadInv, ClockInv, SendsInv, [Next]_vars PROVE SendsInv'
  OBVIOUS
<1>1. now \in Nat
  BY DEF TypeOK
<1>2. ASSUME NEW k \in Keys
      PROVE  Bounded(OfAddress(AddressOf[k]), MAX_SENDS_PER_ADDRESS_PER_HOUR)'
  <2>1. ASSUME NEW p \in Slots, NEW j \in Keys, NEW ip \in Ips, StartIssue(p, j, ip),
               <<j, ip>> \in OfAddress(AddressOf[k])
        PROVE  Cardinality(SentBy(OfAddress(AddressOf[k]), now)) < MAX_SENDS_PER_ADDRESS_PER_HOUR
    <3>1. AddressOf[j] = AddressOf[k]
      BY <2>1 DEF OfAddress
    <3>2. Cardinality(SentTo(AddressOf[k], now)) < MAX_SENDS_PER_ADDRESS_PER_HOUR
      BY <2>1, <3>1 DEF StartIssue
    <3>3. SentBy(OfAddress(AddressOf[k]), now) \subseteq SentTo(AddressOf[k], now)
      BY <1>1, Groups
    <3>4. SentTo(AddressOf[k], now) \in SUBSET Ids
      BY DEF SentTo, Rows
    <3>5. Cardinality(SentBy(OfAddress(AddressOf[k]), now)) <= Cardinality(SentTo(AddressOf[k], now))
      BY <3>3, <3>4, Finite, FS_Subset
    <3>6. SentBy(OfAddress(AddressOf[k]), now) \in SUBSET Ids
      BY <3>3, <3>4
    <3> QED
      BY <3>2, <3>4, <3>5, <3>6, Finite, Constants
  <2>2. Bounded(OfAddress(AddressOf[k]), MAX_SENDS_PER_ADDRESS_PER_HOUR)
    BY DEF SendsInv
  <2> QED
    BY <2>1, <2>2, BoundedNext, Constants
<1>3. ASSUME NEW a \in Ips
      PROVE  Bounded(OfIp(a), MAX_SENDS_PER_IP_PER_HOUR)'
  <2>1. ASSUME NEW p \in Slots, NEW k \in Keys, NEW ip \in Ips, StartIssue(p, k, ip),
               <<k, ip>> \in OfIp(a)
        PROVE  Cardinality(SentBy(OfIp(a), now)) < MAX_SENDS_PER_IP_PER_HOUR
    <3>1. ip = a
      BY <2>1 DEF OfIp
    <3>2. Cardinality(SentFrom(a, now)) < MAX_SENDS_PER_IP_PER_HOUR
      BY <2>1, <3>1 DEF StartIssue
    <3>3. SentBy(OfIp(a), now) \subseteq SentFrom(a, now)
      BY <1>1, Groups
    <3>4. SentFrom(a, now) \in SUBSET Ids
      BY DEF SentFrom, Rows
    <3>5. Cardinality(SentBy(OfIp(a), now)) <= Cardinality(SentFrom(a, now))
      BY <3>3, <3>4, Finite, FS_Subset
    <3>6. SentBy(OfIp(a), now) \in SUBSET Ids
      BY <3>3, <3>4
    <3> QED
      BY <3>2, <3>4, <3>5, <3>6, Finite, Constants
  <2>2. Bounded(OfIp(a), MAX_SENDS_PER_IP_PER_HOUR)
    BY DEF SendsInv
  <2> QED
    BY <2>1, <2>2, BoundedNext, Constants
<1> QED
  BY <1>2, <1>3 DEF SendsInv

\* Guesses and sends exceed their limits by what runs at once, and never by more.
THEOREM LimitsCorrect == Spec => []LimitsHold
<1>1. Init => SendsInv
  BY BoundedInit, Constants DEF SendsInv
<1>2. TypeOK /\ GuessInv => GuessesBounded
  <2> SUFFICES ASSUME TypeOK, GuessInv, NEW i \in Ids
               PROVE  codes[i].attempts <= MAX_ATTEMPTS + Cardinality(Slots) - 1
    BY DEF GuessesBounded
  <2>1. codes[i].attempts \in Nat /\ Counting(i) \in SUBSET Slots
    BY DEF TypeOK, Counting
  <2>2. codes[i].attempts + Cardinality(Counting(i)) <= MAX_ATTEMPTS - 1 + Cardinality(Slots)
    BY DEF GuessInv
  <2> QED
    BY <2>1, <2>2, Finite, Constants
<1>3. TypeOK /\ SendsInv => SendsBounded
  <2> SUFFICES ASSUME TypeOK, SendsInv, NEW t \in 0..now
               PROVE  /\ \A k \in Keys : Cardinality({i \in SentTo(AddressOf[k], t) : codes[i].created <= t})
                                            <= MAX_SENDS_PER_ADDRESS_PER_HOUR + Cardinality(Slots) - 1
                      /\ \A ip \in Ips : Cardinality({i \in SentFrom(ip, t) : codes[i].created <= t})
                                            <= MAX_SENDS_PER_IP_PER_HOUR + Cardinality(Slots) - 1
    BY DEF SendsBounded
  <2>1. t \in Nat
    BY DEF TypeOK
  <2>2. \A W : SentBy(W, t) \in SUBSET Ids /\ AskedBy(W, t) \in SUBSET Slots
    BY DEF SentBy, AskedBy, Rows
  <2>3. ASSUME NEW W, NEW max \in Nat \ {0}, Bounded(W, max)
        PROVE  Cardinality(SentBy(W, t)) <= max + Cardinality(Slots) - 1
    <3>1. Cardinality(SentBy(W, t)) + Cardinality(AskedBy(W, t)) <= max - 1 + Cardinality(Slots)
      BY <2>3 DEF Bounded
    <3> QED
      BY <2>2, <3>1, Finite, Constants
  <2>4. ASSUME NEW k \in Keys
        PROVE  Cardinality({i \in SentTo(AddressOf[k], t) : codes[i].created <= t})
                  <= MAX_SENDS_PER_ADDRESS_PER_HOUR + Cardinality(Slots) - 1
    <3>1. Cardinality(SentBy(OfAddress(AddressOf[k]), t)) <= MAX_SENDS_PER_ADDRESS_PER_HOUR + Cardinality(Slots) - 1
      BY <2>3, Constants DEF SendsInv
    <3> QED
      BY <2>1, <3>1, Groups
  <2>5. ASSUME NEW ip \in Ips
        PROVE  Cardinality({i \in SentFrom(ip, t) : codes[i].created <= t})
                  <= MAX_SENDS_PER_IP_PER_HOUR + Cardinality(Slots) - 1
    <3>1. Cardinality(SentBy(OfIp(ip), t)) <= MAX_SENDS_PER_IP_PER_HOUR + Cardinality(Slots) - 1
      BY <2>3, Constants DEF SendsInv
    <3> QED
      BY <2>1, <3>1, Groups
  <2> QED
    BY <2>4, <2>5
<1>4. TypeOK /\ GuessInv /\ SendsInv => LimitsHold
  BY <1>2, <1>3 DEF LimitsHold
<1> QED
  BY <1>1, <1>4, TypeInit, TypeNext, DeadInit, DeadNext, ClockInit, ClockNext, GuessInit, GuessNext,
     SendsNext, PTL DEF Spec
=============================================================================
