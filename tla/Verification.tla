---------------------------- MODULE Verification ----------------------------
(***************************************************************************)
(* Emailed verification codes: services/verification/index.ts.             *)
(*                                                                         *)
(* Several requests issue and consume codes at once.  issueCode counts the *)
(* rows of the past hour, then opens a transaction that consumes the codes *)
(* it can see and adds its own; consumeCode reads the newest code, then    *)
(* updates it on a condition.  One action is one of these statements, and  *)
(* a transaction holds the row locks of what it consumed until it ends.    *)
(* `Key` stands for purpose, address and account together.                 *)
(***************************************************************************)
EXTENDS Naturals, FiniteSets

CONSTANTS
    Ids,         \* rows of email_verifications
    Keys,
    AddressOf,   \* the address of each key
    Ips,
    Secrets,     \* the six digits
    Slots,       \* requests that can run at the same time
    None,        \* in none of these sets
    MAX_ATTEMPTS,
    MAX_SENDS_PER_ADDRESS_PER_HOUR,
    MAX_SENDS_PER_IP_PER_HOUR,
    CodeTtl,     \* in ticks, as the next two
    Hour,
    Retention,
    MaxNow       \* bound on the clock

ASSUME LimitsAssumption ==
    /\ {MAX_ATTEMPTS, MAX_SENDS_PER_ADDRESS_PER_HOUR, MAX_SENDS_PER_IP_PER_HOUR} \subseteq Nat \ {0}
    /\ {CodeTtl, Hour, Retention, MaxNow} \subseteq Nat
    /\ CodeTtl <= Hour /\ Hour <= Retention
    /\ IsFiniteSet(Slots) /\ IsFiniteSet(Ids)

ASSUME NoneAssumption == None \notin Ids \cup Keys \cup Ips \cup Secrets

VARIABLES
    codes,    \* each row, "unused" until it is created
    used,     \* history: how often a code was accepted
    replaces, \* history: the codes each code consumed when it was issued
    req,      \* what each slot is doing
    now

vars == <<codes, used, replaces, req, now>>

Unused == [status |-> "unused", key |-> None, ip |-> None, secret |-> None,
           attempts |-> 0, created |-> 0]

Idle == [at |-> "idle", key |-> None, ip |-> None, id |-> None, seen |-> {}, now |-> 0]

Rows == {i \in Ids : codes[i].status \in {"live", "consumed"}}
Live(k) == {i \in Ids : codes[i].status = "live" /\ codes[i].key = k}
Newest(k) == {i \in Live(k) : \A j \in Live(k) : codes[j].created <= codes[i].created}

\* Rows a request that started at `t` counts.
SentTo(address, t) == {i \in Rows : AddressOf[codes[i].key] = address /\ codes[i].created + Hour > t}
SentFrom(ip, t) == {i \in Rows : codes[i].ip = ip /\ codes[i].created + Hour > t}

\* Row locks of the transactions that are open.
RowLocked(i) == \E p \in Slots : req[p].at = "create" /\ i \in req[p].seen

Init ==
    /\ codes = [i \in Ids |-> Unused]
    /\ used = [i \in Ids |-> 0]
    /\ replaces = [i \in Ids |-> {}]
    /\ req = [p \in Slots |-> Idle]
    /\ now = 0

-----------------------------------------------------------------------------
(* issueCode.                                                              *)

\* Both counts are under their limits: a request over one ends here.
StartIssue(p, k, ip) ==
    /\ req[p] = Idle
    /\ Cardinality(SentTo(AddressOf[k], now)) < MAX_SENDS_PER_ADDRESS_PER_HOUR
    /\ Cardinality(SentFrom(ip, now)) < MAX_SENDS_PER_IP_PER_HOUR
    /\ req' = [req EXCEPT ![p] = [Idle EXCEPT !.at = "replace", !.key = k, !.ip = ip, !.now = now]]
    /\ UNCHANGED <<codes, used, replaces, now>>

\* The transaction's update sees the codes committed by now.  One that another open
\* transaction consumes too is waited for, and then left as that one left it.
Replace(p) ==
    /\ req[p].at = "replace"
    /\ req' = [req EXCEPT ![p].at = "create", ![p].seen = Live(req[p].key)]
    /\ UNCHANGED <<codes, used, replaces, now>>

\* Mutant of Create: an earlier code is left alive.
CreateAnother(p) ==
    LET r == req[p]
    IN  /\ r.at = "create"
        /\ \E i \in Ids, s \in Secrets :
              /\ codes[i].status = "unused"
              /\ codes' = [codes EXCEPT ![i] =
                    [status |-> "live", key |-> r.key, ip |-> r.ip, secret |-> s,
                     attempts |-> 0, created |-> r.now]]
              /\ replaces' = [replaces EXCEPT ![i] = r.seen]
        /\ req' = [req EXCEPT ![p] = Idle]
        /\ UNCHANGED <<used, now>>

\* The insert, and the commit.
Create(p) ==
    LET r == req[p]
    IN  /\ r.at = "create"
        /\ \E i \in Ids, s \in Secrets :
              /\ codes[i].status = "unused"
              /\ codes' = [j \in Ids |->
                    IF j = i
                    THEN [status |-> "live", key |-> r.key, ip |-> r.ip, secret |-> s,
                          attempts |-> 0, created |-> r.now]
                    ELSE IF j \in r.seen THEN [codes[j] EXCEPT !.status = "consumed"]
                    ELSE codes[j]]
              /\ replaces' = [replaces EXCEPT ![i] = r.seen]
        /\ req' = [req EXCEPT ![p] = Idle]
        /\ UNCHANGED <<used, now>>

-----------------------------------------------------------------------------
(* consumeCode.                                                            *)

\* Mutant of ReadCode: the attempts are left to the update's condition.
ReadAnyCode(p, k, guess) ==
    /\ req[p] = Idle
    /\ \E i \in Newest(k) :
          /\ codes[i].created + CodeTtl > now
          /\ req' = [req EXCEPT ![p] =
                [Idle EXCEPT !.at = IF guess = codes[i].secret THEN "accept" ELSE "count", !.id = i]]
    /\ UNCHANGED <<codes, used, replaces, now>>

\* The newest unconsumed code is read, and the guess compared with it.  Without one
\* that is alive and under the limit the request ends here.
ReadCode(p, k, guess) ==
    /\ req[p] = Idle
    /\ \E i \in Newest(k) :
          /\ codes[i].created + CodeTtl > now
          /\ codes[i].attempts < MAX_ATTEMPTS
          /\ req' = [req EXCEPT ![p] =
                [Idle EXCEPT !.at = IF guess = codes[i].secret THEN "accept" ELSE "count", !.id = i]]
    /\ UNCHANGED <<codes, used, replaces, now>>

\* Mutant of CountGuess: a decrement.
CountDown(p) ==
    LET i == req[p].id
    IN  /\ req[p].at = "count"
        /\ ~ RowLocked(i)
        /\ codes' = IF codes[i].status = "live" THEN [codes EXCEPT ![i].attempts = @ - 1] ELSE codes
        /\ req' = [req EXCEPT ![p] = Idle]
        /\ UNCHANGED <<used, replaces, now>>

\* A wrong guess counts, if the code is still unconsumed.
CountGuess(p) ==
    LET i == req[p].id
    IN  /\ req[p].at = "count"
        /\ ~ RowLocked(i)
        /\ codes' = IF codes[i].status = "live" THEN [codes EXCEPT ![i].attempts = @ + 1] ELSE codes
        /\ req' = [req EXCEPT ![p] = Idle]
        /\ UNCHANGED <<used, replaces, now>>

\* Mutant of Accept: without the condition on consumedAt.
AcceptAgain(p) ==
    LET i == req[p].id
    IN  /\ req[p].at = "accept"
        /\ ~ RowLocked(i)
        /\ IF codes[i].status \in {"live", "consumed"} /\ codes[i].attempts < MAX_ATTEMPTS
           THEN /\ codes' = [codes EXCEPT ![i].status = "consumed"]
                /\ used' = [used EXCEPT ![i] = @ + 1]
           ELSE UNCHANGED <<codes, used>>
        /\ req' = [req EXCEPT ![p] = Idle]
        /\ UNCHANGED <<replaces, now>>

\* A right guess uses the code up, if it is still unconsumed and under the limit.
Accept(p) ==
    LET i == req[p].id
    IN  /\ req[p].at = "accept"
        /\ ~ RowLocked(i)
        /\ IF codes[i].status = "live" /\ codes[i].attempts < MAX_ATTEMPTS
           THEN /\ codes' = [codes EXCEPT ![i].status = "consumed"]
                /\ used' = [used EXCEPT ![i] = @ + 1]
           ELSE UNCHANGED <<codes, used>>
        /\ req' = [req EXCEPT ![p] = Idle]
        /\ UNCHANGED <<replaces, now>>

-----------------------------------------------------------------------------
(* The cron, the clock, and requests that die.                             *)

\* purgeExpiredVerifications, which waits for row locks like any other delete.
Purge ==
    LET old == {i \in Rows : codes[i].created + Retention < now}
    IN  /\ old # {}
        /\ \A i \in old : ~ RowLocked(i)
        /\ codes' = [i \in Ids |-> IF i \in old THEN [Unused EXCEPT !.status = "purged"] ELSE codes[i]]
        /\ UNCHANGED <<used, replaces, req, now>>

Tick ==
    /\ now < MaxNow
    /\ now' = now + 1
    /\ UNCHANGED <<codes, used, replaces, req>>

\* A transaction that is open is rolled back.
Die(p) ==
    /\ req[p] # Idle
    /\ req' = [req EXCEPT ![p] = Idle]
    /\ UNCHANGED <<codes, used, replaces, now>>

Next ==
    \/ \E p \in Slots :
          \/ \E k \in Keys, ip \in Ips : StartIssue(p, k, ip)
          \/ \E k \in Keys, guess \in Secrets : ReadCode(p, k, guess)
          \/ Replace(p) \/ Create(p) \/ CountGuess(p) \/ Accept(p) \/ Die(p)
    \/ Purge
    \/ Tick

Spec == Init /\ [][Next]_vars

-----------------------------------------------------------------------------
(* Properties.                                                             *)

TypeOK ==
    /\ codes \in [Ids -> [status : {"unused", "live", "consumed", "purged"}, key : Keys \cup {None},
                          ip : Ips \cup {None}, secret : Secrets \cup {None},
                          attempts : Nat, created : Nat]]
    /\ used \in [Ids -> Nat]
    /\ replaces \in [Ids -> SUBSET Ids]
    /\ req \in [Slots -> [at : {"idle", "replace", "create", "count", "accept"}, key : Keys \cup {None},
                          ip : Ips \cup {None}, id : Ids \cup {None}, seen : SUBSET Ids, now : Nat]]
    /\ now \in Nat

\* A right code works once: of two concurrent uses one loses.
UsedOnce == \A i \in Ids : used[i] <= 1

\* An earlier code stops working the moment it is replaced: a use that had read it
\* before does not get it accepted afterwards.
ReplacedIsDead ==
    [][\A i, j \in Ids : used'[i] > used[i] => i \notin replaces[j]]_vars

\* A burst of guesses exceeds the limit by its size less one at most.
GuessesBounded ==
    \A i \in Ids : codes[i].attempts <= MAX_ATTEMPTS + Cardinality(Slots) - 1

\* A burst of requests exceeds the hourly limits by its size less one at most, in every
\* hour.
SendsBounded ==
    \A t \in 0..now :
        /\ \A k \in Keys : Cardinality({i \in SentTo(AddressOf[k], t) : codes[i].created <= t})
                              <= MAX_SENDS_PER_ADDRESS_PER_HOUR + Cardinality(Slots) - 1
        /\ \A ip \in Ips : Cardinality({i \in SentFrom(ip, t) : codes[i].created <= t})
                              <= MAX_SENDS_PER_IP_PER_HOUR + Cardinality(Slots) - 1

\* The limits on guesses and on codes sent are only ever exceeded by what runs at once.
LimitsHold == GuessesBounded /\ SendsBounded
=============================================================================
