--------------------------- MODULE GddlJobProofs ---------------------------
(***************************************************************************)
(* What the GDDL sync's job row says holds for any number of requests and  *)
(* invocations at once, any time limits and any number of retries.         *)
(***************************************************************************)
EXTENDS GddlJob, FiniteSetTheorems, TLAPS

-----------------------------------------------------------------------------
(* The type invariant.                                                     *)

Job == [status : {"none", "pending", "completed", "failed"}, run : 0..MaxRuns, acked : BOOLEAN, age : 0..STALE + 1]

Request == [at : {"idle", "expire", "start", "invoke"}, kind : {"none", "post", "get"},
            run : 0..MaxRuns]

Invocation == [at : {"free", "queued", "running"}, run : 0..MaxRuns,
               age : 0..TIMEOUT, tries : 0..MaxRetries, began : 0..STALE + 1]

\* A run that a POST will start is one the bound still allows, so `runs` stays under it.
RoomForPosted == runs + Cardinality(Posted) <= MaxRuns

LEMMA Limits ==
    /\ STALE \in Nat /\ TIMEOUT \in Nat /\ MaxRetries \in Nat /\ MaxRuns \in Nat /\ MaxFaults \in Nat
    /\ 0 \in 0..STALE + 1 /\ 0 \in 0..TIMEOUT /\ 0 \in 0..MaxRetries /\ 0 \in 0..MaxRuns
    /\ 0 \in 0..MaxFaults
    /\ IsFiniteSet(Requests)
BY TimeAssumption, BoundsAssumption, RequestsAssumption

LEMMA Records ==
    /\ NoJob \in Job /\ Idle \in Request /\ Free \in Invocation
    /\ TypeOK <=> /\ job \in Job /\ req \in [Requests -> Request] /\ worker \in [Workers -> Invocation]
                  /\ shown \subseteq (1..MaxRuns) \X {"pending", "completed", "failed"}
                  /\ runs \in 0..MaxRuns /\ faults \in 0..MaxFaults
BY Limits DEF TypeOK, NoJob, Idle, Free, Job, Request, Invocation

\* The POSTs that will start a run are finitely many.
LEMMA PostedFinite == IsFiniteSet(Posted) /\ Cardinality(Posted) \in Nat
<1>1. Posted \subseteq Requests
  BY DEF Posted
<1> QED
  BY <1>1, Limits, FS_Subset, FS_CardinalityType

\* Of a run that has been started the row has a status, so GET shows no run as "none"; and
\* only a POST gets as far as starting one.
ShownInv ==
    /\ job.run > 0 => job.status # "none"
    /\ \A p \in Requests : req[p].at = "expire" /\ req[p].kind # "post" => req[p].run > 0
    /\ \A p \in Requests : req[p].at = "start" => req[p].kind = "post"

TypeInv == TypeOK /\ RoomForPosted /\ ShownInv

LEMMA TypeInit == Init => TypeInv
<1> SUFFICES ASSUME Init PROVE TypeInv
  OBVIOUS
<1>1. TypeOK
  BY Records, Limits DEF Init
<1>2. ShownInv
  BY DEF Init, ShownInv, NoJob, Idle
<1>3. Posted = {}
  BY DEF Init, Posted, Idle
<1> QED
  BY <1>1, <1>2, <1>3, FS_EmptySet, Limits DEF Init, TypeInv, RoomForPosted

\* A step that leaves no more POSTs than there were keeps the room for them.
LEMMA RoomKept ==
    ASSUME RoomForPosted, runs \in Nat, UNCHANGED runs, Posted' \subseteq Posted
    PROVE  RoomForPosted'
<1>1. Posted' \subseteq Requests /\ IsFiniteSet(Posted)
  BY PostedFinite DEF Posted
<1>2. IsFiniteSet(Posted') /\ Cardinality(Posted') <= Cardinality(Posted)
  BY <1>1, FS_Subset
<1>3. Cardinality(Posted') \in Nat /\ Cardinality(Posted) \in Nat
  BY <1>1, <1>2, FS_CardinalityType
<1> QED
  BY <1>2, <1>3, Limits DEF RoomForPosted

LEMMA TypeNext == TypeInv /\ [Next]_vars => TypeInv'
<1> SUFFICES ASSUME TypeInv, [Next]_vars PROVE TypeInv'
  OBVIOUS
<1>1. /\ job \in Job /\ req \in [Requests -> Request] /\ worker \in [Workers -> Invocation]
      /\ shown \subseteq (1..MaxRuns) \X {"pending", "completed", "failed"}
      /\ runs \in 0..MaxRuns /\ faults \in 0..MaxFaults
      /\ RoomForPosted /\ ShownInv
  BY Records DEF TypeInv
<1>2. SUFFICES /\ job' \in Job /\ req' \in [Requests -> Request] /\ worker' \in [Workers -> Invocation]
               /\ shown' \subseteq (1..MaxRuns) \X {"pending", "completed", "failed"}
               /\ runs' \in 0..MaxRuns /\ faults' \in 0..MaxFaults
               /\ RoomForPosted' /\ ShownInv'
  BY Limits DEF TypeInv, TypeOK, Job, Request, Invocation
<1>3. ASSUME NEW p \in Requests, PostRead(p)
      PROVE  <1>2!1
  <2>1. PICK label \in {"expire", "start"} :
           req' = [req EXCEPT ![p] = [at |-> label, kind |-> "post", run |-> job.run]]
    BY <1>3 DEF PostRead
  <2>2. [at |-> label, kind |-> "post", run |-> job.run] \in Request
    BY <1>1 DEF Job, Request
  <2>3. req' \in [Requests -> Request] /\ ShownInv'
    BY <1>1, <1>3, <2>1, <2>2 DEF PostRead, ShownInv
  <2>4. Posted' = Posted \cup {p} /\ p \notin Posted
    BY <1>1, <1>3, <2>1 DEF PostRead, Posted, Idle, Request
  <2>5. Cardinality(Posted') = Cardinality(Posted) + 1
    BY <2>4, PostedFinite, FS_AddElement
  <2>6. RoomForPosted'
    BY <1>1, <1>3, <2>5, PostedFinite, Limits DEF PostRead, RoomForPosted
  <2> QED
    BY <1>1, <1>3, <2>3, <2>6 DEF PostRead
<1>4. ASSUME NEW p \in Requests, Expire(p)
      PROVE  <1>2!1
  <2>1. job' \in Job
    <3>1. job' = [job EXCEPT !.status = "failed"]
      BY <1>4 DEF Expire
    <3> QED
      BY <1>1, <3>1 DEF Job
  <2>2. req' \in [Requests -> Request] /\ shown' \subseteq (1..MaxRuns) \X {"pending", "completed", "failed"}
    <3>1. req[p] \in Request /\ [req[p] EXCEPT !.at = "start"] \in Request /\ Idle \in Request
      BY <1>1, Records DEF Request
    <3>2. CASE req[p].kind = "post"
      <4>1. req' = [req EXCEPT ![p] = [req[p] EXCEPT !.at = "start"]] /\ shown' = shown
        BY <1>1, <1>4, <3>2 DEF Expire
      <4> QED
        BY <1>1, <3>1, <4>1
    <3>3. CASE req[p].kind # "post"
      <4>2. req' = [req EXCEPT ![p] = Idle] /\ shown' = shown \cup {<<req[p].run, "failed">>}
        BY <1>4, <3>3 DEF Expire
      <4>3. req[p].run \in 1..MaxRuns
        BY <1>1, <1>4, <3>1, <3>3, Limits DEF Expire, ShownInv, Request
      <4> QED
        BY <1>1, <3>1, <4>2, <4>3
    <3> QED
      BY <3>2, <3>3
  <2>3. ShownInv'
    BY <1>1, <1>4 DEF Expire, ShownInv, Job, Request, Idle
  <2>4. Posted' \subseteq Posted
    BY <1>1, <1>4 DEF Expire, Posted, Request, Idle
  <2>5. RoomForPosted'
    BY <1>1, <1>4, <2>4, RoomKept, Limits DEF Expire
  <2> QED
    BY <1>1, <1>4, <2>1, <2>2, <2>3, <2>5 DEF Expire
<1>5. ASSUME NEW p \in Requests, Start(p)
      PROVE  <1>2!1
  <2>1. req[p].kind = "post"
    BY <1>1, <1>5 DEF Start, ShownInv
  <2>2. p \in Posted /\ Posted' = Posted \ {p}
    BY <1>1, <1>5, <2>1 DEF Start, Posted, Request
  <2>3. Cardinality(Posted') = Cardinality(Posted) - 1
    BY <2>2, PostedFinite, FS_RemoveElement
  <2>4. Cardinality(Posted) > 0
    BY <2>2, PostedFinite, FS_EmptySet
  <2>5. runs + 1 \in 0..MaxRuns /\ RoomForPosted'
    BY <1>1, <1>5, <2>3, <2>4, PostedFinite, Limits DEF Start, RoomForPosted
  <2>6. job' \in Job
    <3>1. [NoJob EXCEPT !.status = "pending", !.run = runs + 1] \in Job
      BY <2>5, Records DEF Job
    <3> QED
      BY <1>5, <3>1 DEF Start
  <2>7. [req[p] EXCEPT !.at = "invoke", !.run = runs + 1] \in Request
    BY <1>1, <2>5 DEF Request
  <2>8. req' \in [Requests -> Request]
    BY <1>1, <1>5, <2>7 DEF Start
  <2>9. ShownInv'
    BY <1>1, <1>5 DEF Start, ShownInv, NoJob, Request
  <2> QED
    BY <1>1, <1>5, <2>5, <2>6, <2>8, <2>9 DEF Start
<1>6. ASSUME NEW p \in Requests, Invoke(p) \/ Die(p)
      PROVE  <1>2!1
  <2>1. req' = [req EXCEPT ![p] = Idle]
    BY <1>6 DEF Invoke, Die
  <2>2. req' \in [Requests -> Request] /\ ShownInv' /\ Posted' \subseteq Posted
    BY <1>1, <1>6, <2>1, Records DEF Invoke, Die, ShownInv, Posted, Idle
  <2>3. RoomForPosted'
    BY <1>1, <1>6, <2>2, RoomKept, Limits DEF Invoke, Die
  <2>4. worker' \in [Workers -> Invocation]
    <3>1. CASE Invoke(p)
      <4>1. PICK w \in Workers :
               worker' = [worker EXCEPT ![w] = [Free EXCEPT !.at = "queued", !.run = req[p].run]]
        BY <3>1 DEF Invoke
      <4>2. [Free EXCEPT !.at = "queued", !.run = req[p].run] \in Invocation
        BY <1>1, Records DEF Invocation, Request
      <4> QED
        BY <1>1, <4>1, <4>2
    <3>2. CASE Die(p)
      BY <1>1, <3>2 DEF Die
    <3> QED
      BY <1>6, <3>1, <3>2
  <2>5. faults' \in 0..MaxFaults
    BY <1>1, <1>6, Limits DEF Invoke, Die, Fault
  <2> QED
    BY <1>1, <1>6, <2>2, <2>3, <2>4, <2>5 DEF Invoke, Die
<1>7. ASSUME NEW p \in Requests, Get(p)
      PROVE  <1>2!1
  <2>1. [at |-> "expire", kind |-> "get", run |-> job.run] \in Request
    BY <1>1 DEF Job, Request
  <2>2. req' \in [Requests -> Request] /\ ShownInv'
    BY <1>1, <1>7, <2>1 DEF Get, ShownInv, Job, Request
  <2>3. <<job.run, job.status>> \in (1..MaxRuns) \X {"pending", "completed", "failed"}
    BY <1>1, <1>7, Limits DEF Get, ShownInv, Job
  <2>4. Posted' \subseteq Posted
    BY <1>1, <1>7 DEF Get, Posted
  <2>5. RoomForPosted'
    BY <1>1, <1>7, <2>4, RoomKept, Limits DEF Get
  <2> QED
    BY <1>1, <1>7, <2>2, <2>3, <2>5 DEF Get
<1>8. ASSUME NEW run \in 1..MaxRuns, Ack(run)
      PROVE  <1>2!1
  <2>1. job' \in Job /\ ShownInv'
    BY <1>1, <1>8 DEF Ack, Job, ShownInv
  <2>2. RoomForPosted'
    BY <1>1, <1>8, RoomKept, Limits DEF Ack, Posted
  <2> QED
    BY <1>1, <1>8, <2>1, <2>2 DEF Ack
<1>9. ASSUME NEW w \in Workers, Run(w) \/ Finish(w) \/ Duplicate(w) \/ Kill(w) \/ Mute(w)
      PROVE  <1>2!1
  <2>1. worker[w] \in Invocation
    BY <1>1
  <2>2. PICK v \in Workers, x \in Invocation : worker' = [worker EXCEPT ![v] = x]
    <3>1. /\ [worker[w] EXCEPT !.at = "running", !.age = 0, !.began = job.age] \in Invocation
          /\ Free \in Invocation
      BY <1>1, <2>1, Records, Limits DEF Invocation, Job
    <3>2. CASE Run(w)
      <4>1. worker' = [worker EXCEPT ![w] = [worker[w] EXCEPT !.at = "running", !.age = 0, !.began = job.age]]
        BY <1>1, <3>2 DEF Run
      <4> QED
        BY <3>1, <4>1
    <3>3. CASE Finish(w) \/ Mute(w)
      BY <3>1, <3>3 DEF Finish, Mute
    <3>5. CASE Duplicate(w)
      BY <2>1, <3>5 DEF Duplicate
    <3>4. CASE Kill(w)
      <4>1. CASE worker[w].tries < MaxRetries
        <5>1. Again(w) \in Invocation
          <6>1. worker[w].tries + 1 \in 0..MaxRetries
            BY <2>1, <4>1, Limits DEF Invocation
          <6> QED
            BY <2>1, <6>1, Limits DEF Again, Invocation
        <5>2. worker' = [worker EXCEPT ![w] = Again(w)]
          BY <1>1, <3>4, <4>1 DEF Kill
        <5> QED
          BY <5>1, <5>2
      <4>2. CASE ~ (worker[w].tries < MaxRetries)
        BY <3>1, <3>4, <4>2 DEF Kill
      <4> QED
        BY <4>1, <4>2
    <3> QED
      BY <1>9, <3>2, <3>3, <3>4, <3>5
  <2>3. worker' \in [Workers -> Invocation]
    BY <1>1, <2>2
  <2>4. job' \in Job /\ ShownInv'
    BY <1>1, <1>9, <2>1 DEF Run, Finish, Duplicate, Kill, Mute, Job, ShownInv, Invocation
  <2>5. faults' \in 0..MaxFaults
    BY <1>1, <1>9, Limits DEF Run, Finish, Duplicate, Kill, Mute, Fault
  <2>6. RoomForPosted'
    BY <1>1, <1>9, RoomKept, Limits DEF Run, Finish, Duplicate, Kill, Mute, Posted
  <2> QED
    BY <1>1, <1>9, <2>3, <2>4, <2>5, <2>6 DEF Run, Finish, Duplicate, Kill, Mute
<1>10. CASE Tick
  <2>1. job' \in Job /\ ShownInv'
    BY <1>1, <1>10, Limits DEF Tick, Job, ShownInv
  <2>2. worker' \in [Workers -> Invocation]
    <3>1. ASSUME NEW w \in Workers
          PROVE  (IF worker[w].at = "running" THEN [worker[w] EXCEPT !.age = @ + 1] ELSE worker[w]) \in Invocation
      <4>1. worker[w] \in Invocation
        BY <1>1
      <4> QED
        BY <1>10, <4>1, Limits DEF Tick, Invocation
    <3> QED
      BY <1>10, <3>1 DEF Tick
  <2>3. RoomForPosted'
    BY <1>1, <1>10, RoomKept, Limits DEF Tick, Posted
  <2> QED
    BY <1>1, <1>10, <2>1, <2>2, <2>3 DEF Tick
<1>11. CASE UNCHANGED vars
  <2>1. RoomForPosted'
    BY <1>1, <1>11, RoomKept, Limits DEF vars, Posted
  <2> QED
    BY <1>1, <1>11, <2>1 DEF vars, ShownInv
<1> QED
  BY <1>3, <1>4, <1>5, <1>6, <1>7, <1>8, <1>9, <1>10, <1>11 DEF Next

\* Every variable keeps to its columns, for any requests, invocations and limits.
THEOREM TypeCorrect == Spec => []TypeOK
<1>1. Spec => []TypeInv
  BY TypeInit, TypeNext, PTL DEF Spec
<1> QED
  BY <1>1, PTL DEF TypeInv

-----------------------------------------------------------------------------
(* An acknowledged run was shown.                                          *)

\* The client acknowledges only a run whose end it was shown, whatever came in between.
THEOREM AcknowledgedWasShown == Spec => []AckedWasShown
<1>1. Init => AckedWasShown
  BY DEF Init, AckedWasShown, NoJob
<1>2. TypeOK /\ AckedWasShown /\ [Next]_vars => AckedWasShown'
  <2> SUFFICES ASSUME TypeOK, AckedWasShown, [Next]_vars PROVE AckedWasShown'
    OBVIOUS
  <2>1. job \in Job
    BY Records
  <2>2. ASSUME shown \subseteq shown', job'.acked = job.acked, job'.run = job.run
        PROVE  AckedWasShown'
    BY <2>2 DEF AckedWasShown
  <2>3. ASSUME NEW p \in Requests, Start(p)
        PROVE  AckedWasShown'
    <3>1. job'.acked = FALSE
      BY <2>3 DEF Start, NoJob
    <3> QED
      BY <3>1 DEF AckedWasShown
  <2>4. ASSUME NEW run \in 1..MaxRuns, Ack(run)
        PROVE  AckedWasShown'
    <3>1. job'.run = run /\ shown' = shown
      BY <2>1, <2>4 DEF Ack, Job
    <3> QED
      BY <2>4, <3>1 DEF Ack, AckedWasShown
  <2>5. ASSUME NEW p \in Requests, PostRead(p) \/ Invoke(p) \/ Die(p) \/ Get(p)
        PROVE  AckedWasShown'
    <3>1. shown \subseteq shown' /\ job' = job
      BY <2>5 DEF PostRead, Invoke, Die, Get
    <3> QED
      BY <2>2, <3>1
  <2>6. ASSUME NEW p \in Requests, Expire(p)
        PROVE  AckedWasShown'
    <3>1. shown \subseteq shown' /\ job' = [job EXCEPT !.status = "failed"]
      BY <2>6 DEF Expire
    <3> QED
      BY <2>1, <2>2, <3>1 DEF Job
  <2>7. ASSUME NEW w \in Workers, Run(w) \/ Finish(w) \/ Duplicate(w) \/ Kill(w) \/ Mute(w)
        PROVE  AckedWasShown'
    <3>1. shown' = shown /\ job'.acked = job.acked /\ job'.run = job.run
      BY <2>1, <2>7 DEF Run, Finish, Duplicate, Kill, Mute, Job
    <3> QED
      BY <2>2, <3>1
  <2>8. CASE Tick
    <3>1. shown' = shown /\ job'.acked = job.acked /\ job'.run = job.run
      BY <2>1, <2>8 DEF Tick, Job
    <3> QED
      BY <2>2, <3>1
  <2>9. CASE UNCHANGED vars
    BY <2>2, <2>9 DEF vars
  <2> QED
    BY <2>3, <2>4, <2>5, <2>6, <2>7, <2>8, <2>9 DEF Next
<1>3. Spec => [][Next]_vars /\ Init
  BY PTL DEF Spec
<1> QED
  BY <1>1, <1>2, <1>3, TypeCorrect, PTL

-----------------------------------------------------------------------------
(* A run is given up late.                                                 *)

\* The row holds the newest run, and no request or invocation is of a later one.  While
\* the run is pending its clock and that of a worker at it go together, and a request that
\* has read it as stale has read the truth.
NewestInv ==
    /\ job.run = runs
    /\ \A p \in Requests : req[p].run <= runs
    /\ \A w \in Workers : worker[w].run <= runs

ClockInv ==
    job.status = "pending" =>
        /\ \A w \in Workers : worker[w].at = "running" /\ worker[w].run = job.run
                                => worker[w].began + worker[w].age = job.age
        /\ \A p \in Requests : req[p].at = "expire" /\ req[p].run = job.run => job.age > STALE

LateInv == NewestInv /\ ClockInv

LEMMA LateInit == Init => LateInv
BY DEF Init, LateInv, NewestInv, ClockInv, NoJob, Idle, Free

LEMMA LateNext == TypeOK /\ LateInv /\ [Next]_vars => LateInv'
<1> SUFFICES ASSUME TypeOK, LateInv, [Next]_vars PROVE LateInv'
  OBVIOUS
<1>1. /\ job \in Job /\ req \in [Requests -> Request] /\ worker \in [Workers -> Invocation]
      /\ runs \in Nat /\ NewestInv /\ ClockInv
  BY Records, Limits DEF LateInv
<1>2. /\ \A p \in Requests : req[p] \in Request /\ req[p].run \in Nat /\ req[p].run <= runs
      /\ \A w \in Workers : /\ worker[w] \in Invocation /\ worker[w].run \in Nat
                             /\ worker[w].age \in Nat /\ worker[w].began \in Nat
                             /\ worker[w].run <= runs
      /\ job.run = runs /\ job.age \in Nat
  BY <1>1, Limits DEF Request, Invocation, Job, NewestInv
<1>3. ASSUME NEW p \in Requests, PostRead(p) \/ Get(p)
      PROVE  LateInv'
  <2>1. job' = job /\ worker' = worker /\ runs' = runs
    BY <1>3 DEF PostRead, Get
  <2>2. ASSUME NEW q \in Requests
        PROVE  \/ req'[q] = req[q]
               \/ req'[q].run = job.run /\ (req'[q].at = "expire" => Stale)
    BY <1>1, <1>3 DEF PostRead, Get
  <2>3. Stale => job.age > STALE
    BY DEF Stale
  <2> QED
    BY <1>1, <1>2, <2>1, <2>2, <2>3 DEF LateInv, NewestInv, ClockInv
<1>4. ASSUME NEW p \in Requests, Expire(p)
      PROVE  LateInv'
  <2>1. worker' = worker /\ runs' = runs /\ job'.run = job.run /\ job'.status = "failed"
    BY <1>1, <1>4 DEF Expire, Job
  <2>2. \A q \in Requests : req'[q].run \in {0, req[q].run}
    BY <1>1, <1>2, <1>4 DEF Expire, Idle, Request
  <2>3. \A q \in Requests : req'[q].run <= runs
    BY <1>1, <1>2, <2>2
  <2> QED
    BY <1>1, <1>2, <2>1, <2>3 DEF LateInv, NewestInv, ClockInv
<1>5. ASSUME NEW p \in Requests, Start(p)
      PROVE  LateInv'
  <2>1. worker' = worker /\ runs' = runs + 1 /\ job'.run = runs + 1
    BY <1>5 DEF Start, NoJob
  <2>2. /\ req'[p].at = "invoke" /\ req'[p].run = runs + 1
        /\ \A q \in Requests \ {p} : req'[q] = req[q]
    BY <1>1, <1>2, <1>5 DEF Start, Request
  <2>3. \A q \in Requests : req'[q].run <= runs + 1 /\ (q # p => req'[q].run < runs + 1)
    BY <1>1, <1>2, <2>2
  <2>4. \A w \in Workers : worker'[w].run < runs + 1
    BY <1>1, <1>2, <2>1
  <2>5. NewestInv'
    BY <1>1, <1>2, <2>1, <2>3, <2>4 DEF NewestInv
  <2>6. ClockInv'
    BY <1>1, <1>2, <2>1, <2>2, <2>3, <2>4 DEF ClockInv
  <2> QED
    BY <2>5, <2>6 DEF LateInv
<1>6. ASSUME NEW p \in Requests, Invoke(p) \/ Die(p)
      PROVE  LateInv'
  <2>1. job' = job /\ runs' = runs /\ req' = [req EXCEPT ![p] = Idle]
    BY <1>6 DEF Invoke, Die
  <2>2. \A q \in Requests : req'[q] \in {Idle, req[q]}
    BY <1>1, <2>1
  <2>3. \A w \in Workers : \/ worker'[w] = worker[w]
                           \/ worker'[w].at = "queued" /\ worker'[w].run = req[p].run
    <3>1. CASE Invoke(p)
      BY <1>1, <3>1 DEF Invoke, Free
    <3>2. CASE Die(p)
      BY <3>2 DEF Die
    <3> QED
      BY <1>6, <3>1, <3>2
  <2> QED
    BY <1>1, <1>2, <2>1, <2>2, <2>3 DEF LateInv, NewestInv, ClockInv, Idle
<1>7. ASSUME NEW run \in 1..MaxRuns, Ack(run)
      PROVE  LateInv'
  <2>1. /\ job'.status = job.status /\ job'.run = job.run /\ job'.age = job.age
        /\ worker' = worker /\ req' = req /\ runs' = runs
    BY <1>1, <1>7 DEF Ack, Job
  <2> QED
    BY <1>1, <2>1 DEF LateInv, NewestInv, ClockInv
<1>8. ASSUME NEW w \in Workers, Run(w)
      PROVE  LateInv'
  <2>1. job' = job /\ req' = req /\ runs' = runs
    BY <1>8 DEF Run
  <2>2. /\ worker'[w].run = worker[w].run /\ worker'[w].age = 0 /\ worker'[w].began = job.age
        /\ \A v \in Workers \ {w} : worker'[v] = worker[v]
    BY <1>1, <1>2, <1>8 DEF Run, Invocation
  <2> QED
    BY <1>1, <1>2, <2>1, <2>2 DEF LateInv, NewestInv, ClockInv
<1>9. ASSUME NEW w \in Workers, Finish(w)
      PROVE  LateInv'
  <2>1. /\ job'.run = job.run /\ job'.status # "pending" /\ req' = req /\ runs' = runs
        /\ \A v \in Workers : worker'[v] \in {Free, worker[v]}
    BY <1>1, <1>9 DEF Finish, Job
  <2> QED
    BY <1>1, <1>2, <2>1 DEF LateInv, NewestInv, ClockInv, Free
<1>10. ASSUME NEW w \in Workers, Duplicate(w) \/ Kill(w) \/ Mute(w)
       PROVE  LateInv'
  <2>1. job' = job /\ req' = req /\ runs' = runs
    BY <1>10 DEF Duplicate, Kill, Mute
  <2>2. \A v \in Workers : \/ worker'[v] \in {Free, worker[v]}
                           \/ worker'[v].at = "queued" /\ worker'[v].run = worker[w].run
    <3>1. Again(w).at = "queued" /\ Again(w).run = worker[w].run
      BY <1>2 DEF Again, Invocation
    <3>2. CASE Duplicate(w)
      BY <1>1, <3>2 DEF Duplicate
    <3>3. CASE Kill(w) \/ Mute(w)
      BY <1>1, <3>1, <3>3 DEF Kill, Mute
    <3> QED
      BY <1>10, <3>2, <3>3
  <2> QED
    BY <1>1, <1>2, <2>1, <2>2 DEF LateInv, NewestInv, ClockInv, Free
<1>11. CASE Tick
  <2>1. /\ job'.status = job.status /\ job'.run = job.run /\ job'.age = job.age + 1
        /\ req' = req /\ runs' = runs
    BY <1>1, <1>11 DEF Tick, Job
  <2>2. ASSUME NEW v \in Workers
        PROVE  /\ worker'[v].run = worker[v].run /\ worker'[v].at = worker[v].at
               /\ worker'[v].began = worker[v].began
               /\ worker[v].at = "running" => worker'[v].age = worker[v].age + 1
    BY <1>1, <1>2, <1>11 DEF Tick, Invocation
  <2>3. STALE \in Nat
    BY Limits
  <2> QED
    BY <1>1, <1>2, <2>1, <2>2, <2>3 DEF LateInv, NewestInv, ClockInv
<1>12. CASE UNCHANGED vars
  BY <1>1, <1>12 DEF vars, LateInv, NewestInv, ClockInv
<1> QED
  BY <1>3, <1>4, <1>5, <1>6, <1>7, <1>8, <1>9, <1>10, <1>11, <1>12 DEF Next

\* A worker is cut off by a poll that gives its run up only if Lambda let it run late, for
\* any limits with TIMEOUT below STALE: one let run by STALE - TIMEOUT has had its time.
THEOREM OnlyLateRunsGivenUp == Spec => GivenUpIsLate
<1>1. Spec => [](TypeOK /\ LateInv)
  BY TypeCorrect, LateInit, LateNext, PTL DEF Spec
<1>2. ASSUME TypeOK, LateInv, NEW p \in Requests, Expire(p), req[p].run = job.run, job.status = "pending",
             NEW w \in Workers, worker[w].at = "running", worker[w].run = job.run
      PROVE  worker[w].began > STALE - TIMEOUT
  <2>1. req[p].at = "expire"
    BY <1>2 DEF Expire
  <2>2. job.age > STALE /\ worker[w].began + worker[w].age = job.age
    BY <1>2, <2>1 DEF LateInv, ClockInv
  <2>3. worker[w].age \in 0..TIMEOUT /\ worker[w].began \in Nat /\ job.age \in Nat
    BY <1>2, Limits, Records DEF Invocation, Job
  <2> QED
    BY <2>2, <2>3, Limits
<1> DEFINE Late == \A p \in Requests :
               Expire(p) /\ req[p].run = job.run /\ job.status = "pending"
                  => \A w \in Workers : worker[w].at = "running" /\ worker[w].run = job.run
                                         => worker[w].began > STALE - TIMEOUT
<1>3. TypeOK /\ LateInv => Late
  BY <1>2
<1>4. GivenUpIsLate <=> [][Late]_vars
  BY DEF GivenUpIsLate
<1> HIDE DEF Late
<1> QED
  BY <1>1, <1>3, <1>4, PTL
=============================================================================
