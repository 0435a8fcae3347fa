---------------------------- MODULE RobtopLimit ----------------------------
(***************************************************************************)
(* What bounds the calls to RobTop's servers: the token bucket and the     *)
(* cooldown that every caller shares (utils/robtopRateLimit.ts), each      *)
(* user's budget in front of them (utils/robtopUserBudget.ts), and the     *)
(* fetch that asks for a slot and reports a refusal (utils/robtop.ts).     *)
(*                                                                         *)
(* A bucket is one row and an attempt on it one statement.  Statements on  *)
(* a row run one after another, but now() is when the statement began,     *)
(* which may be LAG ticks before it got the row's lock: another, begun     *)
(* later, can have written the row by then, so that the time since         *)
(* lastRefillAt is negative.  Tokens are counted in units of which a call  *)
(* costs COST.                                                             *)
(***************************************************************************)
EXTENDS Integers

CONSTANTS
    Users,
    Callers,          \* requests and workers that can call at the same time
    COST,
    CAPACITY,         \* of the shared bucket, and its refill in a tick
    REFILL,
    BUDGET_CAPACITY,  \* of a user's, and its refill in a tick
    BUDGET_REFILL,
    MAX_COOLDOWN,     \* MAX_COOLDOWN_MS, in ticks
    FETCH_TIMEOUT,    \* the longest a call lasts
    MAX_WAIT,         \* the longest any caller polls for a slot
    LAG,              \* the longest a statement waits for its row
    WINDOW            \* bound: the ticks over which calls are counted

Shared == "shared"
Buckets == Users \cup {Shared}

ASSUME UsersAssumption == Shared \notin Users
ASSUME TokensAssumption ==
    /\ {COST, CAPACITY, REFILL, BUDGET_CAPACITY, BUDGET_REFILL} \subseteq Nat \ {0}
    /\ COST <= CAPACITY /\ COST <= BUDGET_CAPACITY
ASSUME TicksAssumption == {MAX_COOLDOWN, FETCH_TIMEOUT, MAX_WAIT, LAG, WINDOW} \subseteq Nat

VARIABLES
    bucket,    \* each row: its tokens and the ticks since lastRefillAt
    cooldown,  \* ticks until cooldownUntil: not positive once it has passed
    caller,    \* what each caller is doing
    hot,       \* history: ticks since the cooldown opened
    window     \* history: the ticks since some moment, and what was spent since

vars == <<bucket, cooldown, caller, hot, window>>

Capacity(b) == IF b = Shared THEN CAPACITY ELSE BUDGET_CAPACITY
Refill(b) == IF b = Shared THEN REFILL ELSE BUDGET_REFILL
Least(x, y) == IF x <= y THEN x ELSE y
Greatest(x, y) == IF x >= y THEN x ELSE y

\* `lag` is the age of a statement or of a call, `waited` the time since the slot was
\* asked for.
Begin(at, user) == [at |-> at, user |-> user, lag |-> 0, waited |-> 0]
Idle == Begin("idle", Shared)

\* What row b held when a statement began that now has the lock.
Level(b, lag) == Least(Capacity(b), bucket[b].tokens + (bucket[b].age - lag) * Refill(b))

\* Mutant of Spend: the time since the last refill is taken to be positive.
SpendUnsigned(b, lag) ==
    LET level == Least(Capacity(b), bucket[b].tokens + Greatest(bucket[b].age - lag, 0) * Refill(b)) IN
    /\ level >= COST
    /\ bucket' = [bucket EXCEPT ![b] = [tokens |-> level - COST, age |-> lag]]
    /\ window' = [window EXCEPT !.spent[b] = @ + COST]

\* The statement takes a call's tokens, and dates the row with its own now().
Spend(b, lag) ==
    /\ Level(b, lag) >= COST
    /\ bucket' = [bucket EXCEPT ![b] = [tokens |-> Level(b, lag) - COST, age |-> lag]]
    /\ window' = [window EXCEPT !.spent[b] = @ + COST]

Init ==
    /\ bucket = [b \in Buckets |-> [tokens |-> Capacity(b), age |-> 0]]
    /\ cooldown = 0
    /\ caller = [c \in Callers |-> Idle]
    /\ hot = 0
    /\ window = [elapsed |-> 0, spent |-> [b \in Buckets |-> 0]]

-----------------------------------------------------------------------------
(* The budget.                                                             *)

\* A request misses the cache, and charges its user before it calls.
Request(c) ==
    /\ caller[c].at = "idle"
    /\ \E u \in Users : caller' = [caller EXCEPT ![c] = Begin("charge", u)]
    /\ UNCHANGED <<bucket, cooldown, hot, window>>

Charge(c) ==
    /\ caller[c].at = "charge"
    /\ Spend(caller[c].user, caller[c].lag)
    /\ caller' = [caller EXCEPT ![c] = [@ EXCEPT !.at = "ask", !.lag = 0]]
    /\ UNCHANGED <<cooldown, hot>>

\* The user's budget is spent: 429.
Exhausted(c) ==
    /\ caller[c].at = "charge"
    /\ Level(caller[c].user, caller[c].lag) < COST
    /\ caller' = [caller EXCEPT ![c] = Idle]
    /\ UNCHANGED <<bucket, cooldown, hot, window>>

-----------------------------------------------------------------------------
(* The shared bucket.                                                      *)

\* A worker, or a request that charges nobody, asks for a slot.
Work(c) ==
    /\ caller[c].at = "idle"
    /\ caller' = [caller EXCEPT ![c] = Begin("ask", Shared)]
    /\ UNCHANGED <<bucket, cooldown, hot, window>>

\* The cooldown had not passed when the statement began.
Cooling(c) == cooldown + caller[c].lag > 0

Acquire(c) ==
    /\ caller[c].at = "ask"
    /\ ~ Cooling(c)
    /\ Spend(Shared, caller[c].lag)
    /\ caller' = [caller EXCEPT ![c] = [@ EXCEPT !.at = "call", !.lag = 0]]
    /\ UNCHANGED <<cooldown, hot>>

\* The caller gives up, at once when it sees the cooldown: the statement reads that before
\* it has the lock, so it may miss one that was opened meanwhile.  For a slot each caller
\* waits as long as it is willing to.
GiveUp(c) ==
    /\ caller[c].at = "ask"
    /\ \/ Cooling(c)
       \/ Level(Shared, caller[c].lag) < COST
    /\ caller' = [caller EXCEPT ![c] = Idle]
    /\ UNCHANGED <<bucket, cooldown, hot, window>>

\* Or it tries again a little later.
Poll(c) ==
    /\ caller[c].at = "ask"
    /\ Cooling(c) \/ Level(Shared, caller[c].lag) < COST
    /\ caller[c].waited < MAX_WAIT
    /\ caller' = [caller EXCEPT ![c].lag = 0]
    /\ UNCHANGED <<bucket, cooldown, hot, window>>

-----------------------------------------------------------------------------
(* The call.                                                               *)

\* RobTop answers, fails with another status, or does not answer in time; or the report of
\* its refusal is lost.
Answer(c) ==
    /\ caller[c].at = "call"
    /\ caller' = [caller EXCEPT ![c] = Idle]
    /\ UNCHANGED <<bucket, cooldown, hot, window>>

\* Mutant of Throttled: Retry-After is taken as it comes.
ThrottledUncapped(c) ==
    /\ caller[c].at = "call"
    /\ \E retryAfter \in 0..MAX_COOLDOWN + 1 : cooldown' = Greatest(cooldown, retryAfter)
    /\ caller' = [caller EXCEPT ![c] = Idle]
    /\ UNCHANGED <<bucket, hot, window>>

\* It answers 429, with any Retry-After, or Cloudflare 403.
Throttled(c) ==
    /\ caller[c].at = "call"
    /\ \E retryAfter \in 0..MAX_COOLDOWN + 1 :
          cooldown' = Greatest(cooldown, Least(retryAfter, MAX_COOLDOWN))
    /\ caller' = [caller EXCEPT ![c] = Idle]
    /\ UNCHANGED <<bucket, hot, window>>

-----------------------------------------------------------------------------
(* Time, and the window over which calls are counted.                      *)

Busy(c) == caller[c].at \in {"charge", "ask"}

Later(c) ==
    [caller[c] EXCEPT !.lag = IF caller[c].at = "idle" THEN 0 ELSE @ + 1,
                      !.waited = IF caller[c].at = "ask" THEN Least(@ + 1, MAX_WAIT) ELSE @]

\* Ages and the cooldown are counted for as long as they matter to a statement.
Tick ==
    /\ \A c \in Callers : /\ Busy(c) => caller[c].lag < LAG
                          /\ caller[c].at = "call" => caller[c].lag < FETCH_TIMEOUT
    /\ window.elapsed < WINDOW
    /\ bucket' = [b \in Buckets |-> IF Level(b, LAG) >= Capacity(b) THEN bucket[b]
                                    ELSE [bucket[b] EXCEPT !.age = @ + 1]]
    /\ cooldown' = Greatest(cooldown - 1, - LAG)
    /\ caller' = [c \in Callers |-> Later(c)]
    /\ hot' = IF cooldown > 1 THEN hot + 1 ELSE 0
    /\ window' = [window EXCEPT !.elapsed = @ + 1]

\* A window may open at any moment.
OpenWindow ==
    /\ window' = [elapsed |-> 0, spent |-> [b \in Buckets |-> 0]]
    /\ UNCHANGED <<bucket, cooldown, caller, hot>>

Next ==
    \/ \E c \in Callers : \/ Request(c) \/ Charge(c) \/ Exhausted(c) \/ Work(c)
                          \/ Acquire(c) \/ GiveUp(c) \/ Poll(c) \/ Answer(c) \/ Throttled(c)
    \/ Tick
    \/ OpenWindow

Spec == Init /\ [][Next]_vars

-----------------------------------------------------------------------------
(* Properties.                                                             *)

TypeOK ==
    /\ bucket \in [Buckets -> [tokens : Nat, age : Nat]]
    /\ cooldown \in - LAG..MAX_COOLDOWN
    /\ caller \in [Callers -> [at : {"idle", "charge", "ask", "call"}, user : Buckets,
                               lag : Nat, waited : 0..MAX_WAIT]]
    /\ \A c \in Callers : /\ Busy(c) => caller[c].lag <= LAG
                          /\ caller[c].at = "call" => caller[c].lag <= FETCH_TIMEOUT
    /\ hot \in Nat
    /\ window \in [elapsed : 0..WINDOW, spent : [Buckets -> Nat]]

\* However the attempts race for a row, over any stretch of time the calls to RobTop, and
\* each user's charges, stay within one full bucket and what was refilled meanwhile.
RateBounded ==
    \A b \in Buckets : window.spent[b] <= Capacity(b) + (window.elapsed + LAG) * Refill(b)

\* No refusal, and no run of them, holds the callers off for longer than the cap: the
\* cooldown is over MAX_COOLDOWN after the last call that was out when it opened.
CooldownBounded == hot + Greatest(cooldown, 0) <= FETCH_TIMEOUT + MAX_COOLDOWN
=============================================================================
