---------------------------- MODULE ListRequests ----------------------------
(***************************************************************************)
(* Demon list requests of one user that overlap: the placements, moves and *)
(* removals of services/demonList/index.ts statement by statement.  Module *)
(* DemonList takes each as one step, and has what they write.              *)
(*                                                                         *)
(* The transactions are READ COMMITTED, as utils/prisma.ts leaves them,    *)
(* and lock no user: each statement reads the rows committed by then and   *)
(* those it wrote itself, and waits only for a row another has written.    *)
(***************************************************************************)
EXTENDS DemonList

CONSTANTS
    Slots,       \* requests that can run at the same time
    MaxRequests  \* bound on the requests

VARIABLES
    tx,       \* each slot's transaction
    requests  \* requests started

allVars == <<vars, tx, requests>>

\* `doing` is the event it is about to record; `own` and `gone` are the rows it has
\* written and deleted, `lost` those it has read that another has deleted since.
NoTx == [at |-> "idle", type |-> "PURGED", doing |-> "PURGED",
         level |-> NoLevel, above |-> NoLevel, below |-> NoLevel, index |-> 0,
         before |-> <<>>, after |-> <<>>, todo |-> <<>>,
         own |-> <<>>, gone |-> {}, lost |-> {}, events |-> {}]

Locked(q) == DOMAIN tx[q].own \cup tx[q].gone
Free(p, l) == \A q \in Slots \ {p} : l \notin Locked(q)

\* What a statement of p reads.
Sees(p) ==
    [m \in (DOMAIN list \cup DOMAIN tx[p].own) \ tx[p].gone |->
        IF m \in DOMAIN tx[p].own THEN tx[p].own[m] ELSE list[m]]

RequestsInit ==
    /\ list \in Baselines
    /\ entries = Levels
    /\ \E p \in Standings(list) : log = <<ListWideEvent("REBALANCE", list, p, list, p)>>
    /\ tx = [p \in Slots |-> NoTx]
    /\ requests = 0

Goto(p, t) == tx' = [tx EXCEPT ![p] = t]
Reads == UNCHANGED <<vars, requests>>

\* An error rolls the transaction back.
RollBack(p) == Goto(p, NoTx) /\ Reads

-----------------------------------------------------------------------------

\* The request is checked against the entry's row.
Begin(p, type, l, above, below) ==
    /\ tx[p] = NoTx
    /\ requests < MaxRequests
    /\ requests' = requests + 1
    /\ (l \in DOMAIN list) = (type # "PLACEMENT")
    /\ l \notin {above, below}
    /\ type = "REMOVED" => above = NoLevel /\ below = NoLevel
    /\ Goto(p, [NoTx EXCEPT !.at = IF type = "REMOVED" THEN "before" ELSE "neighbours",
                            !.type = type, !.doing = type,
                            !.level = l, !.above = above, !.below = below])
    /\ UNCHANGED vars

\* computeIndex reads the neighbours, and again once it has renumbered, without asking
\* for their order then.
Neighbours(p) ==
    LET t == tx[p]
        f == Sees(p)
        again == t.at = "neighbours again"
    IN  /\ t.at \in {"neighbours", "neighbours again"}
        /\ IF again THEN {t.above, t.below} \subseteq DOMAIN f \cup {NoLevel}
           ELSE NeighboursValid(f, t.above, t.below)
        /\ Goto(p, IF ~ again /\ TooTight(f, t.above, t.below)
                   THEN [t EXCEPT !.at = "before", !.doing = "REBALANCE"]
                   ELSE [t EXCEPT !.at = "before", !.index = NewIndex(f, t.above, t.below)])
        /\ Reads

Before(p) ==
    LET t == tx[p]
    IN  /\ t.at = "before"
        /\ Goto(p, [t EXCEPT !.at = IF t.doing = "REBALANCE" THEN "order" ELSE "write",
                             !.before = Sees(p)])
        /\ Reads

\* `rebalance` reads the rows again, and writes one after the other, the easiest first.
Order(p) ==
    /\ tx[p].at = "order"
    /\ \E r \in Standings(Sees(p)) :
          Goto(p, [tx[p] EXCEPT !.at = "renumber", !.todo = Numbered(r),
                                !.lost = @ \cap {tx[p].level}])
    /\ Reads

Renumber(p) ==
    LET t == tx[p]
    IN  /\ t.at = "renumber"
        /\ IF DOMAIN t.todo = {}
           THEN Goto(p, [t EXCEPT !.at = "after"])
           ELSE \E m \in DOMAIN t.todo :
                   /\ \A n \in DOMAIN t.todo : t.todo[m] <= t.todo[n]
                   /\ Free(p, m)
                   /\ m \notin t.lost
                   /\ Goto(p, [t EXCEPT !.own = Put(@, m, t.todo[m]), !.todo = Without(@, m)])
        /\ Reads

\* The row is created, moved or deleted.
Write(p) ==
    LET t == tx[p]
    IN  /\ t.at = "write"
        /\ Free(p, t.level)
        /\ IF t.type = "PLACEMENT" THEN t.level \notin DOMAIN list ELSE t.level \notin t.lost
        /\ Goto(p, IF t.type = "REMOVED" THEN [t EXCEPT !.at = "after", !.gone = {t.level}]
                   ELSE [t EXCEPT !.at = "after", !.own = Put(@, t.level, t.index)])
        /\ Reads

After(p) ==
    /\ tx[p].at = "after"
    /\ Goto(p, [tx[p] EXCEPT !.at = "record", !.after = Sees(p)])
    /\ Reads

\* The event takes its place in the log, and is seen there once it is committed.
Record(p) ==
    LET t == tx[p]
        place == Len(log) + 1
    IN  /\ t.at = "record"
        /\ Room(log)
        /\ log' = Append(log, Purged)
        /\ \E q \in Standings(t.before), r \in Standings(t.after) :
              Goto(p, IF t.doing = "REBALANCE"
                      THEN [t EXCEPT !.at = "neighbours again", !.doing = t.type,
                                     !.events = {<<place, ListWideEvent("REBALANCE", t.before, q, t.after, r)>>}]
                      ELSE [t EXCEPT !.at = "commit",
                                     !.events = @ \cup {<<place,
                                         MoveEvent(t.type, t.level, t.before, q, t.after, r)>>}])
        /\ UNCHANGED <<entries, list, requests>>

Commit(p) ==
    /\ tx[p].at = "commit"
    /\ list' = Sees(p)
    /\ log' = [i \in DOMAIN log |->
                  IF \E e \in tx[p].events : e[1] = i
                  THEN (CHOOSE e \in tx[p].events : e[1] = i)[2]
                  ELSE log[i]]
    /\ tx' = [q \in Slots |-> IF q = p THEN NoTx
                              ELSE IF tx[q].at = "idle" THEN tx[q]
                              ELSE [tx[q] EXCEPT !.lost = @ \cup tx[p].gone]]
    /\ UNCHANGED <<entries, requests>>

\* A check that fails, a row that is gone or is there already, a deadlock that Postgres
\* breaks, or a request that is cut off.
Fail(p) ==
    /\ tx[p] # NoTx
    /\ RollBack(p)

RequestsNext ==
    \E p \in Slots :
        \/ \E type \in {"PLACEMENT", "REORDER", "REMOVED"}, l \in entries,
              above, below \in Levels \cup {NoLevel} : Begin(p, type, l, above, below)
        \/ Neighbours(p) \/ Before(p) \/ Order(p) \/ Renumber(p) \/ Write(p) \/ After(p)
        \/ Record(p) \/ Commit(p) \/ Fail(p)

RequestsSpec == RequestsInit /\ [][RequestsNext]_allVars
=============================================================================
