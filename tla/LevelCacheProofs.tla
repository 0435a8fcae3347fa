-------------------------- MODULE LevelCacheProofs --------------------------
(***************************************************************************)
(* What the shared cache of levels promises holds for any confirmation     *)
(* window, any number of receives, and any changes and faults.             *)
(***************************************************************************)
EXTENDS LevelCache, TLAPS

-----------------------------------------------------------------------------
(* The type invariant.                                                     *)

Row == [rating : Ratings, verified : BOOLEAN, missing : {NotMissing} \cup 0..CONFIRM,
        delisted : BOOLEAN]

Check == [at : {"idle", "answered", "write"}, seen : Rows, kept : BOOLEAN,
          answer : Ratings \cup {"none", "unreachable", "not_found"}]

Message == [at : {"none", "queued", "answered", "dead"}, tries : 0..RECEIVES,
            answer : Ratings \cup {"none", "unreachable", "not_found"}]

LEMMA Limits ==
    /\ CONFIRM \in Nat /\ CONFIRM > 0 /\ RECEIVES \in Nat /\ RECEIVES > 0
    /\ MaxChanges \in Nat /\ MaxFaults \in Nat
    /\ 0 \in 0..CONFIRM /\ CONFIRM \in 0..CONFIRM /\ 0 \in 0..RECEIVES
    /\ 0 \in 0..MaxChanges /\ 0 \in 0..MaxFaults
BY LimitsAssumption, BoundsAssumption

\* What the ways in write are rows, and a row is cached.
LEMMA RowTypes ==
    /\ Rows = Row \cup {NoRow}
    /\ NoRow \notin Row
    /\ Stub \in Row
    /\ \A label \in {"unrated", "demon"} : [Stub EXCEPT !.rating = label] \in Row
    /\ \A rating \in Ratings : Snapshot(rating) \in Row
    /\ \A r \in Row, rating \in Ratings : Refresh(r, rating) \in Row
<1>1. Rows = Row \cup {NoRow}
  BY DEF Rows, Row
<1>2. NoRow \notin Row
  BY DEF NoRow, Row, Ratings
<1>3. /\ Stub \in Row
      /\ \A label \in {"unrated", "demon"} : [Stub EXCEPT !.rating = label] \in Row
      /\ \A rating \in Ratings : Snapshot(rating) \in Row
  BY DEF Stub, Snapshot, NoRow, Row, Ratings, NotMissing
<1>4. \A r \in Row, rating \in Ratings : Refresh(r, rating) \in Row
  BY DEF Refresh, Row
<1> QED
  BY <1>1, <1>2, <1>3, <1>4

LEMMA Records ==
    /\ Idle \in Check /\ NoMessage \in Message
    /\ TypeOK <=> /\ gd \in Ratings \cup {"absent"} /\ row \in Rows
                  /\ used \in BOOLEAN /\ (used => Cached)
                  /\ check \in Check /\ seed \in Message
                  /\ since \in 0..CONFIRM /\ wasDemon \in BOOLEAN
                  /\ changes \in 0..MaxChanges /\ faults \in 0..MaxFaults
BY Limits DEF TypeOK, Idle, NoMessage, NoRow, Check, Message, Rows

\* While the cron is checking a level it has seen a row, as it was last asked for; it
\* writes what RobTop answered, and a rated non-demon only over a row that was no longer
\* unrated, or was in use.
CheckInv ==
    /\ check.at # "idle" => check.seen \in Row
    /\ check.at = "answered" => check.answer \in Ratings \cup {"unreachable", "not_found"}
    /\ check.at = "write" => check.answer \in Ratings
    /\ check.at = "write" /\ check.answer = "other" => check.kept \/ check.seen.rating # "unrated"

SeedInv == seed.at = "answered" => seed.answer \in Ratings \cup {"unreachable", "not_found"}

TypeInv == TypeOK /\ CheckInv /\ SeedInv

LEMMA TypeInit == Init => TypeInv
<1> SUFFICES ASSUME Init PROVE TypeInv
  OBVIOUS
<1>1. TypeOK
  BY Records, Limits, RowTypes DEF Init
<1>2. CheckInv /\ SeedInv
  BY DEF Init, CheckInv, SeedInv, Idle, NoMessage
<1> QED
  BY <1>1, <1>2 DEF TypeInv

LEMMA AnswerTypes == gd \in Ratings \cup {"absent"} => Answers \subseteq Ratings \cup {"unreachable", "not_found"}
BY DEF Answers

LEMMA Redelivery == seed \in Message /\ TypeOK => Redelivered \in Message /\ Redelivered.at # "answered"
<1> SUFFICES ASSUME seed \in Message PROVE Redelivered \in Message /\ Redelivered.at # "answered"
  OBVIOUS
<1>1. CASE seed.tries + 1 < RECEIVES
  <2>1. seed.tries + 1 \in 0..RECEIVES
    BY <1>1, Limits DEF Message
  <2> QED
    BY <1>1, <2>1, Limits DEF Redelivered, NoMessage, Message
<1>2. CASE ~ (seed.tries + 1 < RECEIVES)
  BY <1>2, Limits DEF Redelivered, NoMessage, Message
<1> QED
  BY <1>1, <1>2

\* What the cron writes is a row.
LEMMA DriftType ==
    ASSUME row \in Row, check.seen \in Row, check.answer \in Ratings
    PROVE  Drift \in Row
<1>1. (IF check.answer # check.seen.rating THEN check.answer ELSE row.rating) \in Ratings
  BY DEF Row
<1>2. (IF check.seen.missing # NotMissing THEN NotMissing ELSE row.missing) \in {NotMissing} \cup 0..CONFIRM
  BY DEF Row
<1> QED
  BY <1>1, <1>2 DEF Drift, Row

LEMMA TypeNext == TypeInv /\ [Next]_vars => TypeInv'
<1> SUFFICES ASSUME TypeInv, [Next]_vars PROVE TypeInv'
  OBVIOUS
<1>1. /\ gd \in Ratings \cup {"absent"} /\ row \in Rows
      /\ used \in BOOLEAN /\ (used => row # NoRow)
      /\ check \in Check /\ seed \in Message
      /\ since \in 0..CONFIRM /\ wasDemon \in BOOLEAN
      /\ changes \in 0..MaxChanges /\ faults \in 0..MaxFaults
      /\ CheckInv /\ SeedInv
      /\ (Cached => row \in Row)
  BY Records, RowTypes DEF TypeInv, Cached
<1>2. ASSUME gd' \in Ratings \cup {"absent"}, row' \in Rows, used' \in BOOLEAN, used' => row' # NoRow,
             check' \in Check, seed' \in Message, since' \in 0..CONFIRM, wasDemon' \in BOOLEAN,
             changes' \in 0..MaxChanges, faults' \in 0..MaxFaults, CheckInv', SeedInv'
      PROVE  TypeInv'
  BY <1>2 DEF TypeInv, TypeOK, Check, Message, Cached
\* The steps that leave the cron and the seed worker alone.
<1>3. ASSUME UNCHANGED <<check, seed>>, gd' \in Ratings \cup {"absent"}, row' \in Rows, used' \in BOOLEAN,
             used' => row' # NoRow, since' \in 0..CONFIRM, wasDemon' \in BOOLEAN,
             changes' \in 0..MaxChanges, faults' \in 0..MaxFaults
      PROVE  TypeInv'
  BY <1>1, <1>2, <1>3 DEF CheckInv, SeedInv
<1>4. CASE Change
  <2>1. changes' \in 0..MaxChanges /\ wasDemon' \in BOOLEAN
    BY <1>1, <1>4, Limits DEF Change
  <2> QED
    BY <1>1, <1>3, <1>4, <2>1 DEF Change
<1>5. CASE Tick
  <2>1. row' \in Rows /\ (row # NoRow => row' # NoRow)
    <3>1. CASE row \in Row
      <4>1. (IF row.missing \in 0..CONFIRM - 1 THEN row.missing + 1 ELSE row.missing)
               \in {NotMissing} \cup 0..CONFIRM
        BY <3>1, Limits DEF Row
      <4>2. row' \in Row
        BY <1>5, <3>1, <4>1 DEF Tick, Row
      <4> QED
        BY <4>2, RowTypes
    <3>2. CASE row = NoRow
      <4>1. row' = row
        BY <1>5, <3>2, Limits DEF Tick, NoRow, NotMissing
      <4> QED
        BY <1>1, <3>2, <4>1
    <3> QED
      BY <1>1, <3>1, <3>2, RowTypes
  <2>2. since' \in 0..CONFIRM
    BY <1>1, <1>5, Limits DEF Tick
  <2> QED
    BY <1>1, <1>3, <1>5, <2>1, <2>2 DEF Tick
<1>6. CASE Resolve \/ ResolveStub
  <2>1. gd \in Ratings
    BY <1>1, <1>6 DEF Resolve, ResolveStub
  <2>2. row' \in Rows /\ (used => row' # NoRow)
    <3>1. CASE Resolve
      BY <1>1, <2>1, <3>1, RowTypes DEF Resolve
    <3>2. CASE ResolveStub
      BY <1>1, <2>1, <3>2, RowTypes DEF ResolveStub
    <3> QED
      BY <1>6, <3>1, <3>2
  <2> QED
    BY <1>1, <1>3, <1>6, <2>2 DEF Resolve, ResolveStub
<1>7. CASE AddStub \/ Use
  <2>1. row' \in Rows /\ row' # NoRow /\ used' = TRUE
    BY <1>1, <1>7, RowTypes DEF AddStub, Use, Cached
  <2>2. seed' = seed \/ seed' = [NoMessage EXCEPT !.at = "queued"]
    BY <1>7 DEF AddStub, Use
  <2>3. [NoMessage EXCEPT !.at = "queued"] \in Message /\ [NoMessage EXCEPT !.at = "queued"].at # "answered"
    BY Records DEF NoMessage, Message
  <2>4. seed' \in Message /\ SeedInv'
    BY <1>1, <2>2, <2>3 DEF SeedInv
  <2>5. faults' \in 0..MaxFaults
    BY <1>1, <1>7, Limits DEF AddStub, Use, Fault
  <2> QED
    BY <1>1, <1>2, <1>7, <2>1, <2>4, <2>5 DEF AddStub, Use, CheckInv
<1>8. CASE Unuse
  BY <1>1, <1>3, <1>8 DEF Unuse
<1>9. CASE Ask
  <2>1. row \in Row
    BY <1>1, <1>9 DEF Ask, Live
  <2>2. PICK answer \in Answers : check' = [Idle EXCEPT !.at = "answered", !.seen = row, !.answer = answer]
    BY <1>9 DEF Ask
  <2>3. answer \in Ratings \cup {"unreachable", "not_found"}
    BY <1>1, <2>2, AnswerTypes
  <2>4. check' \in Check /\ CheckInv'
    <3>1. /\ check'.at = "answered" /\ check'.seen = row /\ check'.answer = answer
          /\ check' = [at |-> "answered", seen |-> row, answer |-> answer, kept |-> FALSE]
      BY <2>2 DEF Idle
    <3>2. check' \in Check
      BY <2>1, <2>3, <3>1, RowTypes DEF Check
    <3>3. CheckInv'
      BY <2>1, <2>3, <3>1 DEF CheckInv
    <3> QED
      BY <3>2, <3>3
  <2> QED
    BY <1>1, <1>2, <1>9, <2>4 DEF Ask, SeedInv
<1>10. CASE Skip \/ Missing \/ Write
  <2>1. check' = Idle /\ check' \in Check /\ CheckInv'
    <3>1. check' = Idle
      BY <1>10 DEF Skip, Missing, Write
    <3>2. check'.at = "idle"
      BY <3>1 DEF Idle
    <3> QED
      BY <3>1, <3>2, Records DEF CheckInv
  <2>2. row' \in Rows /\ (used => row' # NoRow)
    <3>1. CASE Skip
      BY <1>1, <3>1 DEF Skip
    <3>2. CASE Missing
      <4>1. row \in Row
        BY <1>1, <3>2 DEF Missing
      <4>2. [row EXCEPT !.missing = 0] \in Row
        BY <4>1, Limits DEF Row
      <4>3. [row EXCEPT !.delisted = @ \/ check.seen.missing >= CONFIRM] \in Row
        BY <4>1 DEF Row
      <4>4. row' \in Row
        BY <3>2, <4>2, <4>3 DEF Missing
      <4> QED
        BY <4>4, RowTypes
    <3>3. CASE Write
      <4>1. row \in Row /\ check.seen \in Row /\ check.answer \in Ratings
        BY <1>1, <3>3 DEF Write, CheckInv
      <4>2. Drift \in Row /\ Refresh(Drift, check.answer) \in Row
        BY <4>1, DriftType, RowTypes
      <4> QED
        BY <3>3, <4>2, RowTypes DEF Write
    <3> QED
      BY <1>10, <3>1, <3>2, <3>3
  <2>3. since' \in 0..CONFIRM /\ faults' \in 0..MaxFaults
    BY <1>1, <1>10, Limits DEF Skip, Missing, Write, Fault
  <2> QED
    BY <1>1, <1>2, <1>10, <2>1, <2>2, <2>3 DEF Skip, Missing, Write, SeedInv
<1>11. CASE Purge
  <2>1. row' \in Rows /\ (used => row' # NoRow)
    BY <1>1, <1>11, RowTypes DEF Purge
  <2>2. check' \in Check /\ CheckInv'
    <3>1. CASE check' = Idle
      BY <3>1, Records DEF CheckInv, Idle
    <3>2. CASE check' = [check EXCEPT !.at = "write", !.kept = TRUE]
      BY <1>1, <1>11, <3>2 DEF Purge, Check, CheckInv
    <3>3. CASE /\ ~ (check.seen.rating = "unrated" /\ ~ Admissible(check.answer))
               /\ check' = [check EXCEPT !.at = "write"]
      BY <1>1, <1>11, <3>3 DEF Purge, Check, CheckInv, Admissible
    <3> QED
      BY <1>11, <3>1, <3>2, <3>3 DEF Purge
  <2> QED
    BY <1>1, <1>2, <1>11, <2>1, <2>2 DEF Purge, SeedInv
<1>12. CASE Reverify
  <2>1. row \in Row
    BY <1>1, <1>12 DEF Reverify
  <2>2. row' \in Row
    BY <1>12, <2>1 DEF Reverify, Row
  <2> QED
    BY <1>1, <1>3, <1>12, <2>2, RowTypes, Limits DEF Reverify
<1>13. CASE SeedAsk
  <2>1. seed' \in Message /\ SeedInv'
    <3>1. CASE seed' = NoMessage
      BY <3>1, Records DEF SeedInv, NoMessage
    <3>2. ASSUME NEW answer \in Answers, seed' = [seed EXCEPT !.at = "answered", !.answer = answer]
          PROVE  seed' \in Message /\ SeedInv'
      <4>1. answer \in Ratings \cup {"unreachable", "not_found"}
        BY <1>1, <3>2, AnswerTypes
      <4> QED
        BY <1>1, <3>2, <4>1 DEF Message, SeedInv
    <3> QED
      BY <1>13, <3>1, <3>2 DEF SeedAsk
  <2> QED
    BY <1>1, <1>2, <1>13, <2>1 DEF SeedAsk, CheckInv
<1>14. CASE SeedRetry
  <2>1. seed' \in Message /\ SeedInv'
    BY <1>1, <1>14, Redelivery DEF SeedRetry, SeedInv, TypeInv
  <2> QED
    BY <1>1, <1>2, <1>14, <2>1 DEF SeedRetry, CheckInv
<1>15. CASE SeedSettle
  <2>1. seed' \in Message /\ SeedInv'
    BY <1>15, Records DEF SeedSettle, SeedInv, NoMessage
  <2>2. row' \in Rows /\ (used => row' # NoRow)
    <3>1. CASE row' = row
      BY <1>1, <3>1
    <3>2. CASE row' = NoRow /\ ~ used
      BY <3>2, RowTypes
    <3>3. CASE Cached /\ seed.answer \in Ratings /\ row' = Refresh(row, seed.answer)
      BY <1>1, <3>3, RowTypes
    <3> QED
      BY <1>1, <1>15, <3>1, <3>2, <3>3 DEF SeedSettle, SeedInv
  <2>3. faults' \in 0..MaxFaults
    BY <1>1, <1>15, Limits DEF SeedSettle, Fault
  <2> QED
    BY <1>1, <1>2, <1>15, <2>1, <2>2, <2>3 DEF SeedSettle, CheckInv
<1>16. CASE SeedFault
  <2>1. seed' \in Message /\ SeedInv'
    <3>1. CASE seed' = Redelivered
      BY <1>1, <3>1, Redelivery DEF SeedInv, TypeInv
    <3>2. CASE seed' = [seed EXCEPT !.at = "queued"]
      BY <1>1, <3>2 DEF Message, SeedInv
    <3> QED
      BY <1>16, <3>1, <3>2 DEF SeedFault
  <2>2. faults' \in 0..MaxFaults
    BY <1>1, <1>16, Limits DEF SeedFault, Fault
  <2> QED
    BY <1>1, <1>2, <1>16, <2>1, <2>2 DEF SeedFault, CheckInv
<1>17. CASE UNCHANGED vars
  BY <1>1, <1>3, <1>17 DEF vars
<1>18. CASE CreateByHand
  <2>1. row' \in Row
    BY <1>18, RowTypes DEF CreateByHand
  <2> QED
    BY <1>1, <1>3, <1>18, <2>1, RowTypes DEF CreateByHand
<1> QED
  BY <1>4, <1>5, <1>6, <1>7, <1>8, <1>9, <1>10, <1>11, <1>12, <1>13, <1>14, <1>15, <1>16, <1>17,
     <1>18
     DEF Next, Settle

\* Every variable keeps to its columns, and a level that is in use is cached.
THEOREM TypeCorrect == Spec => []TypeOK
<1>1. Spec => []TypeInv
  BY TypeInit, TypeNext, PTL DEF Spec
<1> QED
  BY <1>1, PTL DEF TypeInv

-----------------------------------------------------------------------------
(* The ways in and the seed worker.                                        *)

\* They neither delist a level nor find it missing.
LEMMA WaysIn ==
    ASSUME TypeInv, Resolve \/ ResolveStub \/ AddStub \/ CreateByHand \/ SeedSettle
    PROVE  row'.missing \in {row.missing, NotMissing} /\ row'.delisted \in {row.delisted, FALSE}
<1>1. row \in Rows /\ (Cached => row \in Row)
  BY Records, RowTypes DEF TypeInv, Cached
<1>2. \A x : Snapshot(x).missing = NotMissing /\ Snapshot(x).delisted = FALSE
  BY DEF Snapshot, NoRow
<1>3. /\ NoRow.missing = NotMissing /\ NoRow.delisted = FALSE
      /\ Stub.missing = NotMissing /\ Stub.delisted = FALSE
  BY DEF Stub, NoRow
<1>4. ASSUME NEW x, Cached, row' = Refresh(row, x)
      PROVE  row'.missing = row.missing /\ row'.delisted = row.delisted
  BY <1>1, <1>4 DEF Refresh, Row
<1>5. CASE Resolve
  BY <1>2, <1>5 DEF Resolve
<1>6. CASE ResolveStub
  BY <1>3, <1>4, <1>6 DEF ResolveStub
<1>7. CASE AddStub
  BY <1>3, <1>7 DEF AddStub
<1>8. CASE SeedSettle
  <2>1. row' = row \/ row' = NoRow \/ (Cached /\ row' = Refresh(row, seed.answer))
    BY <1>8 DEF SeedSettle
  <2> QED
    BY <1>3, <1>4, <2>1
<1>9. CASE CreateByHand
  <2>1. \A label : [Stub EXCEPT !.rating = label].missing = NotMissing
                /\ [Stub EXCEPT !.rating = label].delisted = FALSE
    BY DEF Stub, NoRow
  <2> QED
    BY <1>9, <2>1 DEF CreateByHand
<1> QED
  BY <1>5, <1>6, <1>7, <1>8, <1>9

-----------------------------------------------------------------------------
(* Admission.                                                              *)

\* What is known of a demon: GD has rated a level so, where it does, where RobTop's answer
\* says so, and where a complete row does.
DemonInv ==
    wasDemon \/ /\ gd # "demon"
                /\ ~ (row.verified /\ row.rating = "demon")
                /\ ~ (check.seen.verified /\ check.seen.rating = "demon")
                /\ check.answer # "demon"
                /\ seed.answer # "demon"

LEMMA DemonInit == Init => DemonInv
<1> SUFFICES ASSUME Init, gd # "demon" PROVE DemonInv
  BY DEF Init, DemonInv
<1>1. row = NoRow /\ check = Idle /\ seed = NoMessage
  BY DEF Init
<1> QED
  BY <1>1 DEF DemonInv, NoRow, Idle, NoMessage

LEMMA DemonNext == TypeInv /\ DemonInv /\ [Next]_vars => DemonInv'
<1> SUFFICES ASSUME TypeInv, DemonInv, [Next]_vars, ~ wasDemon' PROVE DemonInv'
  BY DEF DemonInv
<1>1. /\ row \in Rows /\ CheckInv /\ check \in Check /\ seed \in Message /\ wasDemon \in BOOLEAN
      /\ (Cached => row \in Row)
  BY Records, RowTypes DEF TypeInv, Cached
<1>2. ~ wasDemon /\ gd' # "demon"
  BY <1>1 DEF Next, Settle, vars, Change, Tick, Resolve, ResolveStub, AddStub, CreateByHand, Use, Unuse,
              Ask, Skip, Missing, Purge, Write, Reverify, SeedAsk, SeedRetry, SeedSettle, SeedFault,
              DemonInv
<1>3. /\ gd # "demon" /\ check.answer # "demon" /\ seed.answer # "demon"
      /\ ~ (row.verified /\ row.rating = "demon")
      /\ ~ (check.seen.verified /\ check.seen.rating = "demon")
  BY <1>2 DEF DemonInv
<1>4. ASSUME ~ (row'.verified /\ row'.rating = "demon"), check'.answer # "demon", seed'.answer # "demon",
             ~ (check'.seen.verified /\ check'.seen.rating = "demon")
      PROVE  DemonInv'
  BY <1>2, <1>4 DEF DemonInv
<1>5. CASE Change \/ Use \/ Unuse \/ Skip \/ SeedAsk \/ SeedRetry \/ SeedFault \/ UNCHANGED vars
  <2>1. row' = row
    BY <1>5 DEF Change, Use, Unuse, Skip, SeedAsk, SeedRetry, SeedFault, vars
  <2>2. check' = check \/ check' = Idle
    BY <1>5 DEF Change, Use, Unuse, Skip, SeedAsk, SeedRetry, SeedFault, vars
  <2>3. seed'.answer # "demon"
    <3>1. Redelivered.answer = "none" /\ NoMessage.answer = "none"
      BY DEF Redelivered, NoMessage
    <3>2. CASE SeedAsk
      <4>1. \A answer \in Answers : answer # "demon"
        BY <1>3 DEF Answers
      <4> QED
        BY <1>1, <3>1, <3>2, <4>1 DEF SeedAsk, Message
    <3>3. CASE SeedFault
      BY <1>1, <1>3, <3>1, <3>3 DEF SeedFault, Message
    <3>4. CASE Use
      BY <1>3, <3>1, <3>4 DEF Use, NoMessage
    <3> QED
      BY <1>3, <1>5, <3>1, <3>2, <3>3, <3>4 DEF Change, Unuse, Skip, SeedRetry, vars
  <2> QED
    BY <1>3, <1>4, <2>1, <2>2, <2>3 DEF Idle, NoRow
<1>6. CASE Resolve \/ ResolveStub \/ AddStub \/ CreateByHand
  <2>1. check' = check /\ seed'.answer # "demon"
    BY <1>3, <1>6 DEF Resolve, ResolveStub, AddStub, CreateByHand, NoMessage
  <2>2. \/ row' = Snapshot(gd) \/ row'.verified = FALSE
        \/ Cached /\ row' = Refresh(row, gd)
    <3>1. NoRow.verified = FALSE /\ Stub.verified = FALSE /\ \A x : [Stub EXCEPT !.rating = x].verified = FALSE
      BY DEF Stub, NoRow
    <3>2. CASE Resolve
      BY <3>2 DEF Resolve
    <3>3. CASE ResolveStub
      BY <3>1, <3>3 DEF ResolveStub
    <3>4. CASE AddStub \/ CreateByHand
      BY <3>1, <3>4 DEF AddStub, CreateByHand
    <3> QED
      BY <1>6, <3>2, <3>3, <3>4
  <2>3. Snapshot(gd).rating = gd /\ (Cached => Refresh(row, gd).rating = gd)
    BY <1>1 DEF Snapshot, Refresh, NoRow, Row
  <2> QED
    BY <1>3, <1>4, <2>1, <2>2, <2>3
<1>7. CASE Tick \/ Missing \/ Reverify
  <2>1. /\ check' = check \/ check' = Idle
        /\ seed' = seed
    BY <1>7 DEF Tick, Missing, Reverify
  <2>2. row'.verified = row.verified /\ row'.rating = row.rating
    <3>1. CASE row \in Row
      BY <1>7, <3>1 DEF Tick, Missing, Reverify, Row
    <3>2. CASE row = NoRow
      BY <1>7, <3>2, Limits DEF Tick, Missing, Reverify, Cached, NoRow, NotMissing
    <3> QED
      BY <1>1, <3>1, <3>2, RowTypes
  <2> QED
    BY <1>3, <1>4, <2>1, <2>2 DEF Idle, NoRow
<1>8. CASE Ask
  <2>1. PICK answer \in Answers : check' = [Idle EXCEPT !.at = "answered", !.seen = row, !.answer = answer]
    BY <1>8 DEF Ask
  <2>2. check'.seen = row /\ check'.answer = answer /\ row' = row /\ seed' = seed
    BY <1>8, <2>1 DEF Ask, Idle
  <2> QED
    BY <1>3, <1>4, <2>1, <2>2 DEF Answers
<1>9. CASE Purge
  <2>1. (row' = row \/ row' = NoRow) /\ seed' = seed
    BY <1>9 DEF Purge
  <2>2. check' = Idle \/ (check'.seen = check.seen /\ check'.answer = check.answer)
    BY <1>1, <1>9 DEF Purge, Check
  <2> QED
    BY <1>3, <1>4, <2>1, <2>2 DEF Idle, NoRow
<1>10. CASE Write
  <2>1. row \in Row /\ check.seen \in Row /\ check.answer \in Ratings /\ seed' = seed /\ check' = Idle
    BY <1>1, <1>10 DEF Write, CheckInv
  <2>2. /\ Drift \in Row /\ Drift.verified = row.verified
        /\ Drift.rating = IF check.answer # check.seen.rating THEN check.answer ELSE row.rating
    BY <2>1, DriftType DEF Drift, Row
  <2>3. row' = Drift \/ row'.rating = check.answer
    BY <1>10, <2>2 DEF Write, Refresh, Row
  <2> QED
    BY <1>3, <1>4, <2>1, <2>2, <2>3 DEF Idle, NoRow
<1>11. CASE SeedSettle
  <2>1. check' = check /\ seed' = NoMessage
    BY <1>11 DEF SeedSettle
  <2>2. row' = row \/ row' = NoRow \/ (Cached /\ row' = Refresh(row, seed.answer))
    BY <1>11 DEF SeedSettle
  <2>3. Cached => Refresh(row, seed.answer).rating = seed.answer
    BY <1>1 DEF Refresh, Row
  <2> QED
    BY <1>3, <1>4, <2>1, <2>2, <2>3 DEF NoMessage, NoRow
<1> QED
  BY <1>5, <1>6, <1>7, <1>8, <1>9, <1>10, <1>11 DEF Next, Settle

\* A level becomes a rated non-demon in the cache only by the cron's write, where it was in
\* use or gone, was a demon of GD's once, or was labelled by hand: no other way in, repair
\* or refresh admits one.
THEOREM OnlyDemonsAdmitted == Spec => AdmitsOnlyDemons
<1>1. ASSUME TypeInv, DemonInv, [Next]_vars
      PROVE  [row'.rating = "other" /\ row.rating # "other" =>
                 /\ check.at = "write"
                 /\ \/ check.kept
                    \/ check.seen.verified /\ check.seen.rating = "demon" /\ wasDemon
                    \/ ~ check.seen.verified /\ check.seen.rating # "unrated"]_vars
  <2> SUFFICES ASSUME row'.rating = "other", row.rating # "other"
               PROVE  /\ check.at = "write"
                      /\ \/ check.kept
                         \/ check.seen.verified /\ check.seen.rating = "demon" /\ wasDemon
                         \/ ~ check.seen.verified /\ check.seen.rating # "unrated"
    OBVIOUS
  <2>1. /\ gd \in Ratings \cup {"absent"} /\ row \in Rows /\ CheckInv /\ SeedInv
        /\ (Cached => row \in Row)
    BY <1>1, Records, RowTypes DEF TypeInv, Cached
  <2>2. row' # row /\ row' # NoRow
    BY DEF NoRow
  <2>3. CASE Write
    <3>1. row \in Row /\ check.seen \in Row /\ check.answer \in Ratings /\ check.at = "write"
      BY <2>1, <2>3 DEF Write, CheckInv
    <3>2. Drift.rating = IF check.answer # check.seen.rating THEN check.answer ELSE row.rating
      BY <3>1 DEF Drift, Row
    <3>3. Drift \in Row
      BY <3>1, DriftType
    <3>4. row'.rating \in {check.answer, Drift.rating}
      BY <2>3, <3>3 DEF Write, Refresh, Row
    <3>5. check.answer = "other"
      BY <3>2, <3>4
    <3>6. check.kept \/ check.seen.rating # "unrated"
      BY <2>1, <3>1, <3>5 DEF CheckInv
    <3>7. check.seen.verified \in BOOLEAN /\ check.seen.rating \in Ratings
      BY <3>1 DEF Row
    <3>8. CASE check.seen.verified
      <4>1. row' = Drift
        BY <2>3, <3>8 DEF Write
      <4>2. check.seen.rating # "other"
        BY <3>2, <3>5, <4>1
      <4>3. check.seen.rating = "demon" => wasDemon
        BY <1>1, <3>8 DEF DemonInv
      <4> QED
        BY <3>1, <3>6, <3>7, <3>8, <4>2, <4>3 DEF Ratings
    <3> QED
      BY <3>1, <3>6, <3>7, <3>8
  <2>4. CASE Resolve \/ ResolveStub
    <3>1. gd \in Ratings /\ gd # "other"
      BY <2>1, <2>2, <2>4 DEF Resolve, ResolveStub, Admissible
    <3>2. row' = Snapshot(gd) \/ (row \in Row /\ row' = Refresh(row, gd))
      BY <2>1, <2>2, <2>4 DEF Resolve, ResolveStub
    <3>3. row'.rating = gd
      BY <3>2 DEF Snapshot, Refresh, NoRow, Row
    <3> QED
      BY <3>1, <3>3
  <2>5. CASE SeedSettle
    <3>1. Cached /\ seed.answer # "other" /\ row' = Refresh(row, seed.answer)
      BY <2>2, <2>5 DEF SeedSettle
    <3>2. row'.rating = seed.answer
      BY <2>1, <3>1 DEF Refresh, Row
    <3> QED
      BY <3>1, <3>2
  <2>6. CASE AddStub \/ CreateByHand
    BY <2>6 DEF AddStub, CreateByHand, Stub, NoRow
  <2>7. CASE Tick \/ Missing \/ Reverify
    <3>1. Cached
      <4>1. CASE Tick
        <5>1. ASSUME row = NoRow PROVE FALSE
          BY <2>2, <4>1, <5>1, Limits DEF Tick, NoRow, NotMissing
        <5> QED
          BY <5>1 DEF Cached
      <4> QED
        BY <2>7, <4>1 DEF Missing, Reverify
    <3>2. row \in Row
      BY <2>1, <3>1
    <3>3. row'.rating = row.rating
      BY <2>7, <3>2 DEF Tick, Missing, Reverify, Row
    <3> QED
      BY <3>3
  <2>8. CASE Purge
    BY <2>2, <2>8 DEF Purge
  <2>9. CASE UNCHANGED row
    BY <2>2, <2>9
  <2> QED
    BY <1>1, <2>3, <2>4, <2>5, <2>6, <2>7, <2>8, <2>9
       DEF Next, Settle, Change, Use, Unuse, Ask, Skip, SeedAsk, SeedRetry, SeedFault, vars
<1>2. Spec => []TypeInv /\ []DemonInv /\ [][Next]_vars
  BY TypeInit, TypeNext, DemonInit, DemonNext, PTL DEF Spec
<1> QED
  BY <1>1, <1>2, PTL DEF AdmitsOnlyDemons

-----------------------------------------------------------------------------
(* Delisting.                                                              *)

\* A level has been missing for no longer than the cron has not found it; a check that
\* saw it missing is no different, though the row may have been purged and cached anew,
\* and one that did not will find it so.
WindowInv ==
    /\ row.missing <= since
    /\ check.at # "idle" => check.seen.missing <= since
    /\ check.at # "idle" /\ check.seen.missing = NotMissing => row.missing = NotMissing

LEMMA WindowInit == Init => WindowInv
BY Limits DEF Init, WindowInv, NoRow, Idle, NotMissing

LEMMA WindowNext == TypeInv /\ WindowInv /\ [Next]_vars => WindowInv'
<1> SUFFICES ASSUME TypeInv, WindowInv, [Next]_vars PROVE WindowInv'
  OBVIOUS
<1>1. /\ row \in Rows /\ since \in 0..CONFIRM /\ CheckInv /\ check \in Check
      /\ row.missing \in {NotMissing} \cup 0..CONFIRM
      /\ (Cached => row \in Row)
  BY Records, RowTypes DEF TypeInv, Cached, NoRow, Row
\* The steps that leave the cron alone, and the missing time or reset it.
<1>2. ASSUME UNCHANGED <<check, since>>, row'.missing \in {row.missing, NotMissing}
      PROVE  WindowInv'
  BY <1>1, <1>2, Limits DEF WindowInv, NotMissing
\* The steps that end a check.
<1>3. ASSUME check'.at = "idle", row'.missing <= since'
      PROVE  WindowInv'
  BY <1>3 DEF WindowInv
<1>4. CASE Tick
  <2>1. check.at = "idle" /\ check' = check
    BY <1>4 DEF Tick, Idle
  <2>2. CASE row = NoRow
    <3>1. row' = row
      BY <1>4, <2>2, Limits DEF Tick, NoRow, NotMissing
    <3> QED
      BY <1>1, <1>3, <1>4, <2>1, <2>2, <3>1, Limits DEF Tick, NoRow, NotMissing
  <2>3. CASE row \in Row
    <3>1. row'.missing = IF row.missing \in 0..CONFIRM - 1 THEN row.missing + 1 ELSE row.missing
      BY <1>4, <2>3 DEF Tick, Row
    <3>2. since' = IF since < CONFIRM THEN since + 1 ELSE CONFIRM
      BY <1>4 DEF Tick
    <3>3. row.missing <= since
      BY DEF WindowInv
    <3>4. row'.missing <= since'
      BY <1>1, <3>1, <3>2, <3>3, Limits DEF NotMissing
    <3> QED
      BY <1>3, <2>1, <3>4
  <2> QED
    BY <1>1, <2>2, <2>3 DEF Cached
<1>5. CASE Resolve \/ ResolveStub \/ AddStub \/ CreateByHand
  <2>1. row'.missing \in {row.missing, NotMissing}
    BY <1>5, WaysIn
  <2> QED
    BY <1>2, <1>5, <2>1 DEF Resolve, ResolveStub, AddStub, CreateByHand
<1>6. CASE Ask
  <2>1. check'.seen = row
    BY <1>6 DEF Ask, Idle
  <2> QED
    BY <1>6, <2>1 DEF Ask, WindowInv
<1>7. CASE Skip
  BY <1>3, <1>7 DEF Skip, Idle, WindowInv
<1>8. CASE Missing
  <2>1. row \in Row /\ check'.at = "idle" /\ since' = since
    BY <1>1, <1>8 DEF Missing, Idle
  <2>2. row'.missing \in {0, row.missing}
    BY <1>8, <2>1 DEF Missing, Row
  <2> QED
    BY <1>1, <1>3, <2>1, <2>2, Limits DEF WindowInv
<1>9. CASE Purge
  <2>1. row'.missing \in {row.missing, NotMissing} /\ since' = since
    BY <1>9 DEF Purge, NoRow
  <2>2. check'.at = "idle" \/ (check'.seen = check.seen /\ check.at # "idle")
    <3>1. CASE check' = Idle
      BY <3>1 DEF Idle
    <3>2. CASE check' # Idle
      <4>1. check.at = "answered" /\ check' \in {[check EXCEPT !.at = "write", !.kept = TRUE],
                                                 [check EXCEPT !.at = "write"]}
        BY <1>9, <3>2 DEF Purge
      <4> QED
        BY <1>1, <4>1 DEF Check
    <3> QED
      BY <3>1, <3>2
  <2> QED
    BY <1>1, <2>1, <2>2, Limits DEF WindowInv, NotMissing
<1>10. CASE Write
  <2>1. row \in Row /\ check.seen \in Row /\ check.answer \in Ratings /\ check.at # "idle"
    BY <1>1, <1>10 DEF Write, CheckInv
  <2>2. Drift \in Row
    BY <2>1, DriftType
  <2>3. Drift.missing = NotMissing
    BY <2>1 DEF Drift, Row, WindowInv
  <2>4. row'.missing = NotMissing
    BY <1>10, <2>2, <2>3 DEF Write, Refresh, Row
  <2> QED
    BY <1>3, <1>10, <2>4 DEF Write, Idle, NotMissing
<1>11. CASE Reverify
  <2>1. row'.missing = NotMissing
    BY <1>1, <1>11 DEF Reverify, Row
  <2> QED
    BY <1>3, <1>11, <2>1 DEF Reverify, Idle, NotMissing
<1>12. CASE SeedSettle
  <2>1. row'.missing \in {row.missing, NotMissing}
    BY <1>12, WaysIn
  <2> QED
    BY <1>2, <1>12, <2>1 DEF SeedSettle
<1>13. CASE UNCHANGED <<row, check, since>>
  BY <1>2, <1>13
<1> QED
  BY <1>4, <1>5, <1>6, <1>7, <1>8, <1>9, <1>10, <1>11, <1>12, <1>13
     DEF Next, Settle, Change, Use, Unuse, SeedAsk, SeedRetry, SeedFault, vars

\* A level is not delisted within the confirmation window after the cron last found it.
THEOREM DelistedAfterWindow == Spec => NotJustFound
<1>1. ASSUME TypeInv, WindowInv, [Next]_vars
      PROVE  [row'.delisted /\ ~ row.delisted => since = CONFIRM]_vars
  <2> SUFFICES ASSUME row'.delisted, ~ row.delisted
               PROVE  since = CONFIRM
    OBVIOUS
  <2>1. /\ row \in Rows /\ since \in 0..CONFIRM /\ CheckInv
        /\ (Cached => row \in Row)
    BY <1>1, Records, RowTypes DEF TypeInv, Cached
  <2>2. CASE Missing
    <3>1. row \in Row /\ check.at # "idle" /\ check.seen \in Row
      BY <2>1, <2>2 DEF Missing, CheckInv
    <3>2. check.seen.missing >= CONFIRM
      BY <2>2, <3>1 DEF Missing, Row
    <3>3. check.seen.missing <= since
      BY <1>1, <3>1 DEF WindowInv
    <3> QED
      BY <2>1, <3>1, <3>2, <3>3, Limits DEF Row, NotMissing
  <2>3. ASSUME row' = row \/ row'.delisted = row.delisted \/ row'.delisted = FALSE
        PROVE  FALSE
    BY <2>3
  <2>4. CASE Resolve \/ ResolveStub \/ AddStub \/ CreateByHand \/ Reverify \/ SeedSettle
    <3>1. row'.delisted \in {FALSE, row.delisted}
      <4>1. CASE Reverify
        BY <2>1, <4>1 DEF Reverify, Row
      <4> QED
        BY <1>1, <2>4, <4>1, WaysIn
    <3> QED
      BY <2>3, <3>1
  <2>5. CASE Tick
    <3>1. CASE row = NoRow
      BY <2>5, <3>1, Limits DEF Tick, NoRow, NotMissing
    <3>2. CASE row \in Row
      BY <2>5, <3>2 DEF Tick, Row
    <3> QED
      BY <2>1, <3>1, <3>2 DEF Cached
  <2>6. CASE Write
    <3>1. row \in Row /\ check.seen \in Row /\ check.answer \in Ratings
      BY <2>1, <2>6 DEF Write, CheckInv
    <3>2. Drift \in Row /\ Drift.delisted = row.delisted
      BY <3>1, DriftType DEF Drift, Row
    <3>3. row'.delisted = row.delisted
      BY <2>6, <3>2 DEF Write, Refresh, Row
    <3> QED
      BY <3>3
  <2>7. CASE Purge
    BY <2>7 DEF Purge, NoRow
  <2>8. CASE UNCHANGED row
    BY <2>8
  <2> QED
    BY <1>1, <2>2, <2>4, <2>5, <2>6, <2>7, <2>8
       DEF Next, Settle, Change, Use, Unuse, Ask, Skip, SeedAsk, SeedRetry, SeedFault, vars
<1>2. Spec => []TypeInv /\ []WindowInv /\ [][Next]_vars
  BY TypeInit, TypeNext, WindowInit, WindowNext, PTL DEF Spec
<1> QED
  BY <1>1, <1>2, PTL DEF NotJustFound
=============================================================================
