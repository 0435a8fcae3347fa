------------------------- MODULE RobtopLimitProofs -------------------------
(***************************************************************************)
(* The limits on the calls to RobTop hold for any number of users and      *)
(* callers, any capacities and rates, and however long a statement waits   *)
(* for its row.                                                            *)
(***************************************************************************)
EXTENDS RobtopLimit, TLAPS

-----------------------------------------------------------------------------
(* The type invariant.                                                     *)

\* What the constants are.
LEMMA Constants ==
    /\ COST \in Nat \ {0} /\ COST <= CAPACITY /\ COST <= BUDGET_CAPACITY
    /\ \A b \in Buckets : Capacity(b) \in Nat /\ Refill(b) \in Nat /\ COST <= Capacity(b)
    /\ MAX_COOLDOWN \in Nat /\ FETCH_TIMEOUT \in Nat /\ MAX_WAIT \in Nat
    /\ LAG \in Nat /\ WINDOW \in Nat
BY TokensAssumption, TicksAssumption DEF Capacity, Refill

\* What a row holds is a number of tokens.
LEMMA LevelType ==
    ASSUME TypeOK, NEW b \in Buckets, NEW lag \in Nat
    PROVE  /\ Level(b, lag) \in Int
           /\ Level(b, lag) <= Capacity(b)
           /\ Level(b, lag) <= bucket[b].tokens + (bucket[b].age - lag) * Refill(b)
<1>1. Capacity(b) \in Nat /\ Refill(b) \in Nat
  BY Constants
<1>2. bucket[b].tokens \in Nat /\ bucket[b].age \in Nat
  BY DEF TypeOK
<1>3. (bucket[b].age - lag) * Refill(b) \in Int
  BY <1>1, <1>2
<1> QED
  BY <1>1, <1>2, <1>3 DEF Level, Least

\* Spending leaves a row and a window of the right type.
LEMMA SpendType ==
    ASSUME TypeOK, NEW b \in Buckets, NEW lag \in Nat, Spend(b, lag)
    PROVE  /\ bucket' \in [Buckets -> [tokens : Nat, age : Nat]]
           /\ window' \in [elapsed : 0..WINDOW, spent : [Buckets -> Nat]]
<1>1. Level(b, lag) - COST \in Nat /\ COST \in Nat
  BY LevelType, Constants DEF Spend
<1>2. [tokens |-> Level(b, lag) - COST, age |-> lag] \in [tokens : Nat, age : Nat]
  BY <1>1
<1>3. bucket' \in [Buckets -> [tokens : Nat, age : Nat]]
  BY <1>2 DEF TypeOK, Spend
<1>4. window' \in [elapsed : 0..WINDOW, spent : [Buckets -> Nat]]
  BY <1>1 DEF TypeOK, Spend
<1> QED
  BY <1>3, <1>4

\* The part of the type invariant that a caller's step disturbs.
CallersOK ==
    /\ caller \in [Callers -> [at : {"idle", "charge", "ask", "call"}, user : Buckets,
                               lag : Nat, waited : 0..MAX_WAIT]]
    /\ \A c \in Callers : /\ Busy(c) => caller[c].lag <= LAG
                          /\ caller[c].at = "call" => caller[c].lag <= FETCH_TIMEOUT

\* A caller's step, when what it is doing next is of the right type.
LEMMA CallerType ==
    ASSUME TypeOK, NEW c \in Callers,
           NEW new \in [at : {"idle", "charge", "ask", "call"}, user : Buckets,
                        lag : Nat, waited : 0..MAX_WAIT],
           new.lag = 0,
           caller' = [caller EXCEPT ![c] = new]
    PROVE  CallersOK'
<1>1. caller' \in [Callers -> [at : {"idle", "charge", "ask", "call"}, user : Buckets,
                               lag : Nat, waited : 0..MAX_WAIT]]
  BY DEF TypeOK
<1>2. ASSUME NEW d \in Callers
      PROVE  /\ Busy(d)' => caller'[d].lag <= LAG
             /\ caller'[d].at = "call" => caller'[d].lag <= FETCH_TIMEOUT
  <2>1. CASE d = c
    <3>1. caller'[d] = new
      BY <2>1 DEF TypeOK
    <3> QED
      BY <3>1, Constants
  <2>2. CASE d # c
    <3>1. caller'[d] = caller[d]
      BY <2>2 DEF TypeOK
    <3> QED
      BY <3>1 DEF TypeOK, Busy
  <2> QED
    BY <2>1, <2>2
<1> QED
  BY <1>1, <1>2 DEF CallersOK

LEMMA IdleType ==
    /\ Idle \in [at : {"idle", "charge", "ask", "call"}, user : Buckets,
                 lag : Nat, waited : 0..MAX_WAIT]
    /\ Idle.lag = 0
BY Constants DEF Idle, Begin, Buckets

LEMMA TypeInit == Init => TypeOK
<1> SUFFICES ASSUME Init PROVE TypeOK
  OBVIOUS
<1>1. \A b \in Buckets : [tokens |-> Capacity(b), age |-> 0] \in [tokens : Nat, age : Nat]
  BY Constants
<1>2. bucket \in [Buckets -> [tokens : Nat, age : Nat]]
  BY <1>1 DEF Init
<1>3. caller \in [Callers -> [at : {"idle", "charge", "ask", "call"}, user : Buckets,
                              lag : Nat, waited : 0..MAX_WAIT]]
  BY IdleType DEF Init
<1>4. \A c \in Callers : caller[c].at = "idle"
  BY DEF Init, Idle, Begin
<1>5. window \in [elapsed : 0..WINDOW, spent : [Buckets -> Nat]]
  BY Constants DEF Init
<1> QED
  BY <1>2, <1>3, <1>4, <1>5, Constants DEF TypeOK, Busy, Init

\* A step in which one caller moves on and no row is written.
LEMMA MoveType ==
    ASSUME TypeOK, NEW c \in Callers,
           \/ Request(c) \/ Exhausted(c) \/ Work(c) \/ GiveUp(c) \/ Poll(c) \/ Answer(c) \/ Throttled(c)
    PROVE  TypeOK'
<1>1. UNCHANGED <<bucket, hot, window>>
  BY DEF Request, Exhausted, Work, GiveUp, Poll, Answer, Throttled
<1>2. cooldown' \in - LAG..MAX_COOLDOWN
  <2>1. CASE Throttled(c)
    <3>1. PICK ms \in 0..MAX_COOLDOWN + 1 : cooldown' = Greatest(cooldown, Least(ms, MAX_COOLDOWN))
      BY <2>1 DEF Throttled
    <3>2. ms \in Nat /\ cooldown \in - LAG..MAX_COOLDOWN
      BY Constants DEF TypeOK
    <3> QED
      BY <3>1, <3>2, Constants DEF Least, Greatest
  <2>2. CASE cooldown' = cooldown
    BY <2>2 DEF TypeOK
  <2> QED
    BY <2>1, <2>2 DEF Request, Exhausted, Work, GiveUp, Poll, Answer
<1>3. CallersOK'
  <2>1. CASE caller' = [caller EXCEPT ![c] = Idle]
    BY <2>1, IdleType, CallerType
  <2>2. CASE Request(c) \/ Work(c)
    <3>1. PICK a \in {"charge", "ask"}, u \in Buckets : caller' = [caller EXCEPT ![c] = Begin(a, u)]
      BY <2>2 DEF Request, Work, Buckets
    <3>2. /\ Begin(a, u) \in [at : {"idle", "charge", "ask", "call"}, user : Buckets,
                              lag : Nat, waited : 0..MAX_WAIT]
          /\ Begin(a, u).lag = 0
      BY Constants DEF Begin
    <3> QED
      BY <3>1, <3>2, CallerType
  <2>3. CASE Poll(c)
    <3>1. caller[c] \in [at : {"idle", "charge", "ask", "call"}, user : Buckets,
                         lag : Nat, waited : 0..MAX_WAIT]
      BY DEF TypeOK
    <3>2. caller' = [caller EXCEPT ![c] = [caller[c] EXCEPT !.lag = 0]]
      BY <2>3 DEF Poll
    <3> QED
      BY <3>1, <3>2, CallerType
  <2> QED
    BY <2>1, <2>2, <2>3 DEF Exhausted, GiveUp, Answer, Throttled
<1> QED
  BY <1>1, <1>2, <1>3 DEF TypeOK, CallersOK, Busy

\* A step in which a caller is granted its tokens.
LEMMA GrantType ==
    ASSUME TypeOK, NEW c \in Callers, Charge(c) \/ Acquire(c)
    PROVE  TypeOK'
<1>1. caller[c] \in [at : {"idle", "charge", "ask", "call"}, user : Buckets,
                     lag : Nat, waited : 0..MAX_WAIT]
  BY DEF TypeOK
<1>2. UNCHANGED <<cooldown, hot>>
  BY DEF Charge, Acquire
<1>3. /\ bucket' \in [Buckets -> [tokens : Nat, age : Nat]]
      /\ window' \in [elapsed : 0..WINDOW, spent : [Buckets -> Nat]]
  BY <1>1, SpendType DEF Charge, Acquire, Buckets
<1>4. CallersOK'
  <2>1. PICK a \in {"ask", "call"} : caller' = [caller EXCEPT ![c] = [caller[c] EXCEPT !.at = a, !.lag = 0]]
    BY DEF Charge, Acquire
  <2> QED
    BY <1>1, <2>1, CallerType
<1> QED
  BY <1>2, <1>3, <1>4 DEF TypeOK, CallersOK, Busy

\* Time passes for every row and every caller.
LEMMA TickType ==
    ASSUME TypeOK, Tick
    PROVE  TypeOK'
<1>1. bucket' \in [Buckets -> [tokens : Nat, age : Nat]]
  <2>1. \A b \in Buckets : /\ bucket[b] \in [tokens : Nat, age : Nat]
                           /\ [bucket[b] EXCEPT !.age = @ + 1] \in [tokens : Nat, age : Nat]
    BY DEF TypeOK
  <2> QED
    BY <2>1 DEF Tick
<1>2. cooldown' \in - LAG..MAX_COOLDOWN
  BY Constants DEF TypeOK, Tick, Greatest
<1>3. ASSUME NEW c \in Callers
      PROVE  /\ Later(c) \in [at : {"idle", "charge", "ask", "call"}, user : Buckets,
                              lag : Nat, waited : 0..MAX_WAIT]
             /\ caller'[c] = Later(c)
             /\ Busy(c)' => caller'[c].lag <= LAG
             /\ caller'[c].at = "call" => caller'[c].lag <= FETCH_TIMEOUT
  <2>1. caller[c] \in [at : {"idle", "charge", "ask", "call"}, user : Buckets,
                       lag : Nat, waited : 0..MAX_WAIT]
    BY DEF TypeOK
  <2>2. caller'[c] = Later(c)
    BY DEF Tick
  <2>3. Later(c) \in [at : {"idle", "charge", "ask", "call"}, user : Buckets,
                      lag : Nat, waited : 0..MAX_WAIT]
    <3>1. (IF caller[c].at = "idle" THEN 0 ELSE caller[c].lag + 1) \in Nat
      BY <2>1
    <3>2. (IF caller[c].at = "ask" THEN Least(caller[c].waited + 1, MAX_WAIT) ELSE caller[c].waited)
            \in 0..MAX_WAIT
      BY <2>1, Constants DEF Least
    <3> QED
      BY <2>1, <3>1, <3>2 DEF Later
  <2>4. Later(c).at = caller[c].at /\ (caller[c].at # "idle" => Later(c).lag = caller[c].lag + 1)
    BY <2>1 DEF Later
  <2> QED
    BY <2>1, <2>2, <2>3, <2>4, Constants DEF Tick, Busy
<1>4. caller' \in [Callers -> [at : {"idle", "charge", "ask", "call"}, user : Buckets,
                               lag : Nat, waited : 0..MAX_WAIT]]
  BY <1>3 DEF Tick
<1>5. hot' \in Nat
  BY DEF TypeOK, Tick
<1>6. window' \in [elapsed : 0..WINDOW, spent : [Buckets -> Nat]]
  <2>1. window.elapsed \in Nat /\ window.elapsed + 1 <= WINDOW
    BY Constants DEF TypeOK, Tick
  <2> QED
    BY <2>1, Constants DEF TypeOK, Tick
<1> QED
  BY <1>1, <1>2, <1>3, <1>4, <1>5, <1>6 DEF TypeOK, Busy

LEMMA TypeNext == TypeOK /\ [Next]_vars => TypeOK'
<1> SUFFICES ASSUME TypeOK, [Next]_vars PROVE TypeOK'
  OBVIOUS
<1>1. CASE Tick
  BY <1>1, TickType
<1>2. CASE OpenWindow
  <2>1. window' \in [elapsed : 0..WINDOW, spent : [Buckets -> Nat]]
    BY <1>2, Constants DEF OpenWindow
  <2> QED
    BY <1>2, <2>1 DEF TypeOK, OpenWindow, Busy
<1>3. CASE UNCHANGED vars
  BY <1>3 DEF TypeOK, vars, Busy
<1>4. CASE \E c \in Callers : \/ Request(c) \/ Charge(c) \/ Exhausted(c) \/ Work(c)
                              \/ Acquire(c) \/ GiveUp(c) \/ Poll(c) \/ Answer(c) \/ Throttled(c)
  BY <1>4, MoveType, GrantType
<1> QED
  BY <1>1, <1>2, <1>3, <1>4 DEF Next

\* Every row holds a number of tokens, no statement outlives its wait nor a call its
\* timeout, and the cooldown never passes its cap.
THEOREM TypeCorrect == Spec => []TypeOK
<1>1. Init => TypeOK
  BY TypeInit
<1>2. TypeOK /\ [Next]_vars => TypeOK'
  BY TypeNext
<1> QED
  BY <1>1, <1>2, PTL DEF Spec

-----------------------------------------------------------------------------
(* The rate.                                                               *)

\* What row b will have held, were it never full, and the most of it that counts: what a
\* statement with the longest wait can find there.
Held(b) == bucket[b].tokens + bucket[b].age * Refill(b)
Counted(b) == Least(Held(b), Capacity(b) + LAG * Refill(b))

\* The inductive invariant: what was spent in the window and what the row still holds came
\* from one full bucket and the refill since.
RateInv ==
    \A b \in Buckets :
        window.spent[b] + Counted(b) <= Capacity(b) + (window.elapsed + LAG) * Refill(b)

\* Products of integers are integers and distribute over sums.
LEMMA Products ==
    ASSUME NEW x \in Int, NEW y \in Int, NEW r \in Int
    PROVE  /\ x * r \in Int
           /\ (x + y) * r = x * r + y * r
           /\ (x - y) * r = x * r - y * r
           /\ (x + 1) * r = x * r + r
OBVIOUS

\* A longer time refills more.
LEMMA Monotone ==
    ASSUME NEW x \in Nat, NEW y \in Nat, NEW r \in Nat, x <= y
    PROVE  x * r <= y * r
<1>1. y * r = x * r + (y - x) * r
  BY Products
<1>2. (y - x) * r >= 0
  OBVIOUS
<1> QED
  BY <1>1, <1>2, Products

\* A spent call comes out of what counts, however late its statement got the row.
LEMMA SpendCounted ==
    ASSUME TypeOK, NEW b \in Buckets, NEW lag \in Nat, lag <= LAG, Spend(b, lag)
    PROVE  Counted(b)' + COST <= Counted(b)
<1> DEFINE r == Refill(b)
           t == bucket[b].tokens
           a == bucket[b].age
<1>1. Capacity(b) \in Nat /\ r \in Nat /\ COST \in Nat /\ LAG \in Nat
  BY Constants
<1>2. t \in Nat /\ a \in Nat
  BY DEF TypeOK
<1>3. bucket'[b] = [tokens |-> Level(b, lag) - COST, age |-> lag]
  BY DEF Spend, TypeOK
<1>4. Held(b)' = Level(b, lag) - COST + lag * r
  BY <1>3 DEF Held
<1>5. /\ lag * r \in Int /\ a * r \in Int /\ LAG * r \in Int
      /\ (a - lag) * r = a * r - lag * r
  <2>1. \A x, y \in Int : x * r \in Int /\ (x - y) * r = x * r - y * r
    <3> HIDE DEF r
    <3> QED
      BY <1>1, Products
  <2> HIDE DEF r, a
  <2> QED
    BY <1>1, <1>2, <2>1
<1>6. lag * r <= LAG * r
  BY <1>1, Monotone
<1>7. /\ Level(b, lag) \in Int
      /\ Level(b, lag) <= Capacity(b)
      /\ Level(b, lag) <= t + (a - lag) * r
  BY LevelType
<1>8. Held(b) = t + a * r
  BY DEF Held
<1>9. Counted(b)' = Least(Held(b)', Capacity(b) + LAG * r)
  BY DEF Counted
<1>10. Counted(b) = Least(Held(b), Capacity(b) + LAG * r)
  BY DEF Counted
<1> HIDE DEF r, t, a
<1> QED
  BY <1>1, <1>2, <1>4, <1>5, <1>6, <1>7, <1>8, <1>9, <1>10 DEF Least

LEMMA RateInit == Init => RateInv
<1> SUFFICES ASSUME Init, NEW b \in Buckets
             PROVE  window.spent[b] + Counted(b) <= Capacity(b) + (window.elapsed + LAG) * Refill(b)
  BY DEF RateInv
<1> DEFINE r == Refill(b)
<1>1. r \in Nat /\ Capacity(b) \in Nat /\ LAG \in Nat /\ LAG * r \in Nat
  BY Constants
<1>2. window.spent[b] = 0 /\ window.elapsed = 0
  BY DEF Init
<1>3. Held(b) = Capacity(b)
  <2>1. bucket[b].tokens = Capacity(b) /\ bucket[b].age = 0
    BY DEF Init
  <2> QED
    BY <2>1, <1>1 DEF Held
<1>4. Counted(b) <= Capacity(b) + LAG * r
  BY <1>1, <1>3 DEF Counted, Least
<1> QED
  BY <1>1, <1>2, <1>3, <1>4 DEF Counted, Least

\* When a row is full for every statement that waits, no more of it counts.
LEMMA TickCounted ==
    ASSUME TypeOK, NEW b \in Buckets, Tick
    PROVE  Counted(b)' <= Counted(b) + Refill(b)
<1> DEFINE r == Refill(b)
           a == bucket[b].age
           t == bucket[b].tokens
<1>1. Capacity(b) \in Nat /\ r \in Nat /\ LAG \in Nat /\ a \in Nat /\ t \in Nat
  BY Constants DEF TypeOK
<1>2. a * r \in Int /\ LAG * r \in Int /\ (a + 1) * r = a * r + r
  <2> HIDE DEF a, r
  <2> QED
    BY <1>1, Products
<1>3. Held(b) = t + a * r
  BY DEF Held
<1>4. Held(b) \in Int /\ t + (a + 1) * r = Held(b) + r
  <2> HIDE DEF r, a, t
  <2> QED
    BY <1>1, <1>2, <1>3
<1>5. Held(b)' = Held(b) \/ Held(b)' = Held(b) + r
  <2>1. CASE bucket'[b] = bucket[b]
    BY <2>1 DEF Held
  <2>2. CASE bucket'[b] = [bucket[b] EXCEPT !.age = @ + 1]
    <3>1. bucket[b] \in [tokens : Nat, age : Nat]
      BY DEF TypeOK
    <3>2. bucket'[b].tokens = t /\ bucket'[b].age = a + 1
      BY <2>2, <3>1
    <3>3. Held(b)' = t + (a + 1) * r
      BY <3>2 DEF Held
    <3> QED
      BY <1>4, <3>3
  <2>3. bucket'[b] = bucket[b] \/ bucket'[b] = [bucket[b] EXCEPT !.age = @ + 1]
    BY DEF Tick
  <2> QED
    BY <2>1, <2>2, <2>3
<1>6. /\ Counted(b) = Least(Held(b), Capacity(b) + LAG * r)
      /\ Counted(b)' = Least(Held(b)', Capacity(b) + LAG * r)
  BY DEF Counted
<1> QED
  BY <1>1, <1>2, <1>4, <1>5, <1>6 DEF Least

\* Every amount the invariant adds up is an integer.
LEMMA RateTypes ==
    ASSUME TypeOK, NEW b \in Buckets
    PROVE  /\ Capacity(b) \in Nat /\ Refill(b) \in Nat /\ LAG \in Nat
           /\ LAG * Refill(b) \in Nat
           /\ Held(b) \in Nat
           /\ Counted(b) \in Nat
           /\ Counted(b) <= Capacity(b) + LAG * Refill(b)
           /\ window.elapsed \in Nat /\ window.spent[b] \in Nat
           /\ (window.elapsed + LAG) * Refill(b) \in Nat
<1>1. /\ Capacity(b) \in Nat /\ Refill(b) \in Nat /\ LAG \in Nat
      /\ window.elapsed \in Nat /\ window.spent[b] \in Nat
      /\ bucket[b].tokens \in Nat /\ bucket[b].age \in Nat
  BY Constants DEF TypeOK
<1>2. \A x, y \in Nat : x * y \in Nat
  OBVIOUS
<1>3. /\ LAG * Refill(b) \in Nat /\ bucket[b].age * Refill(b) \in Nat
      /\ (window.elapsed + LAG) * Refill(b) \in Nat
  BY <1>1, <1>2
<1> QED
  BY <1>1, <1>3 DEF Held, Counted, Least

LEMMA RateNext ==
    ASSUME TypeOK, RateInv, [Next]_vars
    PROVE  RateInv'
<1> SUFFICES ASSUME NEW b \in Buckets
             PROVE  window'.spent[b] + Counted(b)'
                        <= Capacity(b) + (window'.elapsed + LAG) * Refill(b)
  BY DEF RateInv
<1>1. TypeOK'
  BY TypeNext
<1>2. window.spent[b] + Counted(b) <= Capacity(b) + (window.elapsed + LAG) * Refill(b)
  BY DEF RateInv
<1>0. Counted(b)' \in Nat
  <2>1. bucket'[b].tokens \in Nat /\ bucket'[b].age \in Nat
    BY <1>1 DEF TypeOK
  <2>2. \A x, y \in Nat : x * y \in Nat
    OBVIOUS
  <2> QED
    BY <2>1, <2>2, RateTypes DEF Counted, Held, Least
<1>3. CASE UNCHANGED <<bucket, window>>
  <2>1. Counted(b)' = Counted(b)
    BY <1>3 DEF Counted, Held
  <2> QED
    BY <1>2, <1>3, <2>1
<1>4. ASSUME NEW k \in Buckets, NEW lag \in Nat, lag <= LAG, Spend(k, lag)
      PROVE  window'.spent[b] + Counted(b)'
                 <= Capacity(b) + (window'.elapsed + LAG) * Refill(b)
  <2>1. window'.elapsed = window.elapsed
    BY <1>4 DEF Spend, TypeOK
  <2>2. CASE k = b
    <3>1. window'.spent[b] = window.spent[b] + COST
      BY <1>4, <2>2 DEF Spend, TypeOK
    <3>2. Counted(b)' + COST <= Counted(b)
      BY <1>4, <2>2, SpendCounted
    <3>3. Counted(b)' \in Nat /\ Counted(b) \in Nat /\ COST \in Nat /\ window.spent[b] \in Nat
      BY <1>0, RateTypes, Constants
    <3>4. (window.elapsed + LAG) * Refill(b) \in Nat /\ Capacity(b) \in Nat
      BY RateTypes
    <3> QED
      BY <1>2, <2>1, <3>1, <3>2, <3>3, <3>4
  <2>3. CASE k # b
    <3>1. window'.spent[b] = window.spent[b]
      BY <1>4, <2>3 DEF Spend, TypeOK
    <3>2. bucket'[b] = bucket[b]
      BY <1>4, <2>3 DEF Spend, TypeOK
    <3>3. Counted(b)' = Counted(b)
      BY <3>2 DEF Counted, Held
    <3> QED
      BY <1>2, <2>1, <3>1, <3>3
  <2> QED
    BY <2>2, <2>3
<1>5. ASSUME NEW c \in Callers, Charge(c) \/ Acquire(c)
      PROVE  \E k \in Buckets, lag \in Nat : lag <= LAG /\ Spend(k, lag)
  BY <1>5 DEF Charge, Acquire, TypeOK, Busy, Buckets
<1>6. CASE Tick
  <2>1. window'.spent[b] = window.spent[b] /\ window'.elapsed = window.elapsed + 1
    BY <1>6 DEF Tick, TypeOK
  <2>2. Counted(b)' <= Counted(b) + Refill(b)
    BY <1>6, TickCounted
  <2>3. (window'.elapsed + LAG) * Refill(b) = (window.elapsed + LAG) * Refill(b) + Refill(b)
    <3>1. window.elapsed + LAG \in Int /\ Refill(b) \in Int
      BY RateTypes
    <3>2. ((window.elapsed + LAG) + 1) * Refill(b) = (window.elapsed + LAG) * Refill(b) + Refill(b)
      BY <3>1, Products
    <3>3. window'.elapsed + LAG = (window.elapsed + LAG) + 1
      BY <2>1, RateTypes
    <3> QED
      BY <3>2, <3>3
  <2> QED
    BY <1>0, <1>2, <2>1, <2>2, <2>3, RateTypes
<1>7. CASE OpenWindow
  <2>1. window'.spent[b] = 0 /\ window'.elapsed = 0
    BY <1>7 DEF OpenWindow
  <2>2. Counted(b)' = Counted(b)
    BY <1>7 DEF OpenWindow, Counted, Held
  <2>3. (0 + LAG) * Refill(b) = LAG * Refill(b)
    BY Constants
  <2> QED
    BY <2>1, <2>2, <2>3, RateTypes
<1> QED
  BY <1>3, <1>4, <1>5, <1>6, <1>7
     DEF Next, vars, Request, Exhausted, Work, GiveUp, Poll, Answer, Throttled

\* However the attempts race for a row, the calls and the charges of any stretch of time
\* stay within one full bucket and what was refilled meanwhile.
THEOREM RateCorrect == Spec => []RateBounded
<1>1. Init => TypeOK /\ RateInv
  BY TypeInit, RateInit
<1>2. TypeOK /\ RateInv /\ [Next]_vars => TypeOK' /\ RateInv'
  BY TypeNext, RateNext
<1>3. TypeOK /\ RateInv => RateBounded
  <2> SUFFICES ASSUME TypeOK, RateInv, NEW b \in Buckets
               PROVE  window.spent[b] <= Capacity(b) + (window.elapsed + LAG) * Refill(b)
    BY DEF RateBounded
  <2>1. window.spent[b] + Counted(b) <= Capacity(b) + (window.elapsed + LAG) * Refill(b)
    BY DEF RateInv
  <2> QED
    BY <2>1, RateTypes
<1> QED
  BY <1>1, <1>2, <1>3, PTL DEF Spec

-----------------------------------------------------------------------------
(* The cooldown.                                                           *)

\* The inductive invariant: while the cooldown lasts, every call that is out was out when
\* it opened, so that a refusal can come for FETCH_TIMEOUT ticks and no longer.
CoolInv ==
    /\ cooldown > 0 => /\ hot + cooldown <= FETCH_TIMEOUT + MAX_COOLDOWN
                       /\ \A c \in Callers : caller[c].at = "call" => caller[c].lag >= hot
    /\ cooldown <= 0 => hot = 0

LEMMA CoolNext ==
    ASSUME TypeOK, CoolInv, [Next]_vars
    PROVE  CoolInv'
<1>1. /\ cooldown \in Int /\ hot \in Nat
      /\ MAX_COOLDOWN \in Nat /\ FETCH_TIMEOUT \in Nat /\ LAG \in Nat
      /\ \A c \in Callers : caller[c].lag \in Nat
  BY Constants DEF TypeOK
<1>2. CASE UNCHANGED <<cooldown, hot>> /\ \A d \in Callers :
               caller'[d].at = "call" => caller'[d] = caller[d] \/ cooldown <= 0
  BY <1>1, <1>2 DEF CoolInv
<1>3. ASSUME NEW c \in Callers, NEW new, caller' = [caller EXCEPT ![c] = new],
             new.at # "call" \/ cooldown <= 0
      PROVE  \A d \in Callers : caller'[d].at = "call" => caller'[d] = caller[d] \/ cooldown <= 0
  BY <1>3 DEF TypeOK
<1>4. ASSUME NEW c \in Callers, Throttled(c)
      PROVE  CoolInv'
  <2>1. PICK ms \in 0..MAX_COOLDOWN + 1 : cooldown' = Greatest(cooldown, Least(ms, MAX_COOLDOWN))
    BY <1>4 DEF Throttled
  <2>2. hot' = hot /\ caller' = [caller EXCEPT ![c] = Idle] /\ caller[c].at = "call"
    BY <1>4 DEF Throttled
  <2>3. \A d \in Callers : caller'[d].at = "call" => caller'[d] = caller[d]
    BY <2>2 DEF TypeOK, Idle, Begin
  <2>4. caller[c].lag <= FETCH_TIMEOUT
    BY <2>2 DEF TypeOK
  <2>5. hot <= FETCH_TIMEOUT
    BY <1>1, <2>2, <2>4 DEF CoolInv
  <2>6. cooldown' = cooldown \/ cooldown' \in 0..MAX_COOLDOWN
    BY <1>1, <2>1 DEF Greatest, Least
  <2>7. cooldown' >= cooldown
    BY <1>1, <2>1 DEF Greatest, Least
  <2> QED
    BY <1>1, <2>2, <2>3, <2>5, <2>6, <2>7 DEF CoolInv
<1>5. CASE Tick
  <2>1. cooldown' = Greatest(cooldown - 1, - LAG) /\ hot' = IF cooldown > 1 THEN hot + 1 ELSE 0
    BY <1>5 DEF Tick
  <2>2. \A c \in Callers : caller'[c].at = "call" =>
                               caller[c].at = "call" /\ caller'[c].lag = caller[c].lag + 1
    <3>1. \A c \in Callers : caller'[c] = Later(c) /\ caller[c] \in
             [at : {"idle", "charge", "ask", "call"}, user : Buckets, lag : Nat, waited : 0..MAX_WAIT]
      BY <1>5 DEF Tick, TypeOK
    <3> QED
      BY <3>1 DEF Later
  <2>3. CASE cooldown > 1
    BY <1>1, <2>1, <2>2, <2>3 DEF CoolInv, Greatest
  <2>4. CASE cooldown <= 1
    BY <1>1, <2>1, <2>4 DEF CoolInv, Greatest
  <2> QED
    BY <1>1, <2>3, <2>4
<1>6. CASE OpenWindow \/ UNCHANGED vars
  BY <1>2, <1>6 DEF OpenWindow, vars
<1>7. ASSUME NEW c \in Callers, Request(c) \/ Exhausted(c) \/ Work(c) \/ GiveUp(c) \/ Answer(c)
      PROVE  CoolInv'
  <2>1. PICK a \in {"idle", "charge", "ask"}, u \in Buckets : caller' = [caller EXCEPT ![c] = Begin(a, u)]
    BY <1>7 DEF Request, Exhausted, Work, GiveUp, Answer, Idle, Buckets
  <2>2. UNCHANGED <<cooldown, hot>> /\ Begin(a, u).at # "call"
    BY <1>7 DEF Request, Exhausted, Work, GiveUp, Answer, Begin
  <2> QED
    BY <1>2, <1>3, <2>1, <2>2
<1>8. ASSUME NEW c \in Callers, Charge(c) \/ Poll(c)
      PROVE  CoolInv'
  <2>1. caller[c] \in [at : {"idle", "charge", "ask", "call"}, user : Buckets,
                       lag : Nat, waited : 0..MAX_WAIT]
    BY DEF TypeOK
  <2>2. caller'[c].at = "ask"
    <3>1. CASE Charge(c)
      BY <2>1, <3>1 DEF Charge, TypeOK
    <3>2. CASE Poll(c)
      BY <2>1, <3>2 DEF Poll, TypeOK
    <3> QED
      BY <1>8, <3>1, <3>2
  <2>3. \A d \in Callers \ {c} : caller'[d] = caller[d]
    BY <1>8 DEF Charge, Poll, TypeOK
  <2>4. UNCHANGED <<cooldown, hot>>
    BY <1>8 DEF Charge, Poll
  <2> QED
    BY <1>2, <2>2, <2>3, <2>4
<1>9. ASSUME NEW c \in Callers, Acquire(c)
      PROVE  CoolInv'
  <2>1. UNCHANGED <<cooldown, hot>> /\ cooldown <= 0
    BY <1>1, <1>9 DEF Acquire, Cooling
  <2> QED
    BY <1>2, <2>1
<1> QED
  BY <1>4, <1>5, <1>6, <1>7, <1>8, <1>9 DEF Next

\* Refusals never hold the callers off for longer than a call and the cap.
THEOREM CooldownCorrect == Spec => []CooldownBounded
<1>1. Init => TypeOK /\ CoolInv
  BY TypeInit DEF Init, CoolInv
<1>2. TypeOK /\ CoolInv /\ [Next]_vars => TypeOK' /\ CoolInv'
  BY TypeNext, CoolNext
<1>3. TypeOK /\ CoolInv => CooldownBounded
  BY Constants DEF TypeOK, CoolInv, CooldownBounded, Greatest
<1> QED
  BY <1>1, <1>2, <1>3, PTL DEF Spec
=============================================================================
