--------------------------- MODULE AccountsProofs ---------------------------
(***************************************************************************)
(* What sign-in methods promise holds for any accounts, addresses and      *)
(* Cognito users, and any number of requests at once, in all and dying.    *)
(***************************************************************************)
EXTENDS Accounts, FiniteSetTheorems, TLAPS

-----------------------------------------------------------------------------
(* The inductive invariant.                                                *)

\* An email change before and after its call to Cognito.
Moving == {"moveEmail", "findLeftover", "dropLeftover", "moveAgain"}
Moved == {"saveEmail", "revertEmail"}

\* A removal that holds the lock.
Removing == {"removeUser", "removeRow"}

ReqType == [at : Labels, user : Accounts \cup {Nobody}, sub : Subs \cup {Nobody},
            old : Emails \cup {Nobody}, new : Emails \cup {Nobody}, subs : SUBSET Subs]

\* What a request carries with it.
Carries(r) ==
    /\ r.at = "createAccount" \/ r.at = "createSignup" \/ SetsEmail(r) => r.new \in Emails
    /\ r.at \in {"createAccount", "findWinner", "discardUser", "findAttached", "lockUser"} \cup Removing
          => r.sub \in Subs
    /\ r.at = "connect" => r.sub \in GoogleSubs
    /\ r.at = "attach" => r.sub \in NativeSubs
    /\ r.at \in Moving \cup Moved =>
          \/ r.sub \in NativeSubs /\ r.old \in Emails
          \/ r.sub = Nobody /\ r.at = "saveEmail"
    /\ r.at \in {"connect", "lockUser", "purge"} \cup Removing \/ SetsEmail(r) => r.user \in Accounts

Passwords == {i \in identities : i.provider = "PASSWORD"}

\* A native user is a password, and has an email; an account has one.
RowsOK ==
    /\ \A i \in identities : i.provider = "PASSWORD" <=> i.sub \in NativeSubs
    /\ \A i \in Passwords : i.email \in Emails
    /\ \A i, j \in Passwords : i.user = j.user => i = j

\* A removal that has the lock is alone with the account, which keeps another method.
LocksOK ==
    \A p \in Slots : req[p].at \in Removing =>
        /\ \E i \in MethodsOf(req[p].user) : i.sub # req[p].sub
        /\ \A q \in Slots \ {p} : req[q].at \in Removing => req[q].user # req[p].user

RequestsOK ==
    \A p \in Slots :
        /\ Carries(req[p])
        /\ req[p].user \in Accounts => users[req[p].user] # Nobody
        /\ req[p].at = "removeRow" => pool[req[p].sub] = Gone

Structure ==
    /\ TypeOK
    /\ disturbed \in BOOLEAN
    /\ RowsOK
    /\ LocksOK
    /\ RequestsOK
    /\ KeepsIdentity

\* A deletion that will still delete the Cognito user s.
Erasing(s) == \E q \in Slots : req[q].at = "eraseUsers" /\ s \in req[q].subs

\* What a request that sets an account's email knows of the account.
Knows(r) ==
    /\ r.at \in {"createNative", "attach"} => users[r.user] = r.old
    /\ r.at \in Moving \cup Moved /\ r.sub # Nobody =>
          /\ users[r.user] = r.old
          /\ Identity(r.user, "PASSWORD", r.sub, r.old) \in identities
    /\ r.at = "saveEmail" /\ r.sub = Nobody => PasswordOf(r.user) = {}

\* Such a request is alone with the account.
Alone ==
    \A p \in Slots : SetsEmail(req[p]) =>
        Knows(req[p]) /\ \A q \in Slots \ {p} : req[q].user # req[p].user

\* The Cognito user a request is about to give an account has the address it says.
Fresh(r) ==
    r.at \in {"createAccount", "attach"} /\ r.sub \in NativeSubs =>
        pool[r.sub] \in {r.new, Gone} \/ Attached(r.sub) \/ Erasing(r.sub)

\* An email change has moved its Cognito user.
HasMoved(r) ==
    r.at \in Moved /\ r.sub # Nobody => pool[r.sub] \in {r.new, Gone} \/ Erasing(r.sub)

\* A deletion goes after every password of its account.
PurgesAll(r) == r.at = "purge" => \A i \in PasswordOf(r.user) : i.sub \in r.subs

\* The stores agree on a password but while an email change is between them, or its
\* Cognito user is gone or going.
Agree ==
    \A i \in Passwords :
        /\ i.email = users[i.user]
        /\ \/ pool[i.sub] \in {users[i.user], Gone}
           \/ Erasing(i.sub)
           \/ \E p \in Slots : req[p].at \in Moved /\ req[p].user = i.user /\ req[p].sub = i.sub

Agreement ==
    /\ Alone
    /\ \A p \in Slots : Fresh(req[p]) /\ HasMoved(req[p]) /\ PurgesAll(req[p])
    /\ Agree

AccountsInv ==
    /\ Structure
    /\ ~ disturbed => Agreement

-----------------------------------------------------------------------------
(* The parts of a state and of a request.                                  *)

LEMMA Sets ==
    /\ Nobody \notin Accounts \cup Emails \cup Subs
    /\ Gone \notin Accounts \cup Emails \cup Subs
    /\ Nobody # Gone
    /\ NativeSubs \subseteq Subs /\ GoogleSubs \subseteq Subs
    /\ \A s \in Subs : s \in NativeSubs <=> s \notin GoogleSubs
BY NobodyAssumption DEF Subs

LEMMA IdleReq ==
    /\ Idle \in ReqType /\ Idle.at = "idle" /\ Idle.user = Nobody /\ Idle.sub = Nobody
    /\ Carries(Idle) /\ ~ SetsEmail(Idle)
BY DEF Idle, ReqType, Labels, Carries, SetsEmail, Moving, Moved, Removing

\* A request that goes on at another label.
LEMMA GotoReq ==
    ASSUME NEW r \in ReqType, NEW label \in Labels
    PROVE  LET n == [r EXCEPT !.at = label]
           IN  /\ n \in ReqType
               /\ n.at = label /\ n.user = r.user /\ n.sub = r.sub /\ n.old = r.old
               /\ n.new = r.new /\ n.subs = r.subs
BY DEF ReqType

LEMMA ReqFields ==
    ASSUME TypeOK, NEW p \in Slots
    PROVE  /\ req[p] \in ReqType
           /\ req[p].at \in Labels /\ req[p].user \in Accounts \cup {Nobody}
           /\ req[p].sub \in Subs \cup {Nobody} /\ req[p].old \in Emails \cup {Nobody}
           /\ req[p].new \in Emails \cup {Nobody} /\ req[p].subs \in SUBSET Subs
BY DEF TypeOK, ReqType

LEMMA RowFields ==
    ASSUME TypeOK, NEW i \in identities
    PROVE  /\ i.user \in Known /\ i.user \in Accounts /\ i.provider \in {"GOOGLE", "PASSWORD"}
           /\ i.sub \in Subs /\ i.email \in Emails \cup {Nobody}
BY DEF TypeOK, Known

LEMMA IdentityFields ==
    ASSUME NEW u, NEW provider, NEW s, NEW email
    PROVE  LET i == Identity(u, provider, s, email)
           IN  i.user = u /\ i.provider = provider /\ i.sub = s /\ i.email = email
BY DEF Identity

\* A step of one request that leaves the database alone.
LEMMA StructureStep ==
    ASSUME Structure, NEW p \in Slots, NEW r \in ReqType, req' = [req EXCEPT ![p] = r],
           SameDatabase, pool' \in [Subs -> Emails \cup {Nobody, Gone}],
           \A s \in Subs : pool[s] = Gone => pool'[s] = Gone,
           disturbed' \in BOOLEAN,
           Carries(r), r.user \in Accounts => users[r.user] # Nobody,
           r.at = "removeRow" => pool'[r.sub] = Gone,
           r.at \in Removing =>
               \/ req[p].at \in Removing /\ r.user = req[p].user /\ r.sub = req[p].sub
               \/ /\ \E i \in MethodsOf(r.user) : i.sub # r.sub
                  /\ ~ Locked(r.user)
    PROVE  Structure'
<1>1. TypeOK /\ RowsOK /\ LocksOK /\ RequestsOK /\ KeepsIdentity
  BY DEF Structure
<1>2. /\ DOMAIN req = Slots
      /\ \A q \in Slots : req'[q] = IF q = p THEN r ELSE req[q]
      /\ req' \in [Slots -> ReqType]
  BY <1>1 DEF TypeOK, ReqType
<1>3. TypeOK'
  BY <1>1, <1>2 DEF TypeOK, ReqType, Known, SameDatabase
<1>4. RowsOK' /\ KeepsIdentity'
  BY <1>1 DEF RowsOK, KeepsIdentity, Passwords, Known, MethodsOf, SameDatabase
<1>5. \A u : MethodsOf(u)' = MethodsOf(u)
  BY DEF MethodsOf, SameDatabase
<1>6. LocksOK'
  <2> SUFFICES ASSUME NEW q \in Slots, req'[q].at \in Removing
               PROVE  /\ \E i \in MethodsOf(req'[q].user) : i.sub # req'[q].sub
                      /\ \A o \in Slots \ {q} : req'[o].at \in Removing => req'[o].user # req'[q].user
    BY <1>5 DEF LocksOK
  <2>1. \A o \in Slots : req[o].at \in Removing =>
            /\ \E i \in MethodsOf(req[o].user) : i.sub # req[o].sub
            /\ \A k \in Slots \ {o} : req[k].at \in Removing => req[k].user # req[o].user
            /\ Locked(req[o].user)
    BY <1>1 DEF LocksOK, Locked, Removing
  <2> QED
    BY <1>2, <2>1
<1>7. RequestsOK'
  <2> SUFFICES ASSUME NEW q \in Slots
               PROVE  /\ Carries(req'[q])
                      /\ req'[q].user \in Accounts => users[req'[q].user] # Nobody
                      /\ req'[q].at = "removeRow" => pool'[req'[q].sub] = Gone
    BY DEF RequestsOK, SameDatabase
  <2>1. /\ Carries(req[q])
        /\ req[q].user \in Accounts => users[req[q].user] # Nobody
        /\ req[q].at = "removeRow" => pool[req[q].sub] = Gone
    BY <1>1 DEF RequestsOK
  <2>2. req[q].at = "removeRow" => req[q].sub \in Subs
    BY <2>1 DEF Carries, Removing
  <2> QED
    BY <1>2, <2>1, <2>2
<1> QED
  BY <1>3, <1>4, <1>6, <1>7 DEF Structure

\* The same, of a request that ends or goes on at a label that asks for nothing more.
LEMMA StructureDone ==
    ASSUME Structure, NEW p \in Slots, Done(p), SameDatabase,
           pool' \in [Subs -> Emails \cup {Nobody, Gone}],
           \A s \in Subs : pool[s] = Gone => pool'[s] = Gone, disturbed' \in BOOLEAN
    PROVE  Structure'
<1>1. req' = [req EXCEPT ![p] = Idle]
  BY DEF Done
<1>2. Idle.user \notin Accounts /\ Idle.at \notin Removing
  BY IdleReq, Sets DEF Removing
<1> QED
  BY <1>1, <1>2, IdleReq, StructureStep DEF Removing

LEMMA StructureGoto ==
    ASSUME Structure, NEW p \in Slots, NEW label \in Labels, Goto(p, label), SameDatabase,
           pool' \in [Subs -> Emails \cup {Nobody, Gone}],
           \A s \in Subs : pool[s] = Gone => pool'[s] = Gone, disturbed' \in BOOLEAN,
           Carries([req[p] EXCEPT !.at = label]),
           label = "removeRow" => pool'[req[p].sub] = Gone,
           label \in Removing =>
               \/ req[p].at \in Removing
               \/ (\E i \in MethodsOf(req[p].user) : i.sub # req[p].sub) /\ ~ Locked(req[p].user)
    PROVE  Structure'
<1> DEFINE r == [req[p] EXCEPT !.at = label]
<1>1. /\ r \in ReqType /\ r.at = label
      /\ r.user = req[p].user /\ r.sub = req[p].sub
  BY ReqFields, GotoReq DEF Structure
<1>2. req' = [req EXCEPT ![p] = r]
  BY DEF Goto
<1>3. r.user \in Accounts => users[r.user] # Nobody
  BY <1>1 DEF Structure, RequestsOK
<1>4. Carries(r)
  OBVIOUS
<1> HIDE DEF r
<1> QED
  BY <1>1, <1>2, <1>3, <1>4, StructureStep

LEMMA StructureBegin ==
    ASSUME Structure, NEW p \in Slots, NEW r \in ReqType, Begin(p, r), Carries(r),
           r.user \in Accounts => users[r.user] # Nobody, r.at \notin Removing
    PROVE  Structure'
<1>1. req' = [req EXCEPT ![p] = r] /\ SameDatabase /\ pool' = pool /\ disturbed' \in BOOLEAN
  BY DEF Begin, SameDatabase, Structure
<1>2. pool' \in [Subs -> Emails \cup {Nobody, Gone}]
  BY <1>1 DEF Structure, TypeOK
<1> QED
  BY <1>1, <1>2, StructureStep DEF Removing

\* What the stores' Cognito half may do to itself.
LEMMA PoolGone ==
    ASSUME TypeOK, NEW s, pool' = [pool EXCEPT ![s] = Gone]
    PROVE  /\ pool' \in [Subs -> Emails \cup {Nobody, Gone}]
           /\ \A n \in Subs : pool[n] = Gone => pool'[n] = Gone
           /\ \A n \in Subs : pool'[n] = pool[n] \/ pool'[n] = Gone
           /\ s \in Subs => pool'[s] = Gone
BY DEF TypeOK

LEMMA PoolMoved ==
    ASSUME TypeOK, NEW s, NEW old \in Emails, NEW new \in Emails, Moves(s, old, new)
    PROVE  /\ pool' \in [Subs -> Emails \cup {Nobody, Gone}]
           /\ \A n \in Subs : pool[n] = Gone => pool'[n] = Gone
           /\ ~ disturbed' => /\ s \in NativeSubs /\ pool[s] = old /\ pool'[s] = new
                              /\ \A n \in Subs \ {s} : pool'[n] = pool[n]
           /\ disturbed \in BOOLEAN => disturbed' \in BOOLEAN
           /\ ~ disturbed' => ~ disturbed
<1>1. pool' = [n \in Subs |-> IF n \in Holder(old) THEN new ELSE pool[n]]
      /\ disturbed' = (disturbed \/ Holder(old) # {s})
  BY DEF Moves
<1>2. pool \in [Subs -> Emails \cup {Nobody, Gone}]
  BY DEF TypeOK
<1>3. \A n \in Subs : n \in Holder(old) => pool[n] # Gone
  BY Sets DEF Holder
<1>4. Holder(old) \subseteq NativeSubs /\ NativeSubs \subseteq Subs /\ \A n \in Holder(old) : pool[n] = old
  BY Sets DEF Holder
<1>5. \A n \in Subs : pool'[n] = IF n \in Holder(old) THEN new ELSE pool[n]
  BY <1>1
<1>6. pool' \in [Subs -> Emails \cup {Nobody, Gone}]
  BY <1>1, <1>2
<1>7. ~ disturbed' => ~ disturbed /\ Holder(old) = {s}
  BY <1>1
<1>8. disturbed \in BOOLEAN => disturbed' \in BOOLEAN
  BY <1>1
<1> QED
  BY <1>3, <1>4, <1>5, <1>6, <1>7, <1>8

LEMMA PoolSame ==
    ASSUME TypeOK, UNCHANGED pool
    PROVE  /\ pool' \in [Subs -> Emails \cup {Nobody, Gone}]
           /\ \A n \in Subs : pool[n] = Gone => pool'[n] = Gone
BY DEF TypeOK

-----------------------------------------------------------------------------
(* Requests start.                                                         *)

\* What each request begins with.
Begins(r) ==
    \/ /\ r.at = "createAccount" /\ r.user = Nobody /\ r.sub \in Subs /\ r.new \in Emails
       /\ pool[r.sub] = r.new
    \/ r.at = "discardUser" /\ r.sub \in Subs /\ r.user \in Known \cup {Nobody}
    \/ r.at = "createSignup" /\ r.user = Nobody /\ r.new \in Emails
    \/ /\ r.at = "createNative" /\ r.user \in Known /\ r.old = users[r.user] /\ r.new \in Emails
    \/ /\ r.at = "saveEmail" /\ r.user \in Known /\ r.sub = Nobody /\ r.new \in Emails
       /\ PasswordOf(r.user) = {}
    \/ /\ r.at = "moveEmail" /\ r.user \in Known /\ r.new \in Emails
       /\ \E i \in PasswordOf(r.user) : r.sub = i.sub /\ r.old = i.email
    \/ r.at = "connect" /\ r.user \in Known /\ r.sub \in GoogleSubs
    \/ r.at = "lockUser" /\ r.user \in Known /\ r.sub \in Subs
    \/ r.at = "purge" /\ r.user \in Known /\ r.subs = {i.sub : i \in MethodsOf(r.user)}

Starts(p) ==
    \/ \E s \in Subs : StartSignup(p, s) \/ RejectSignIn(p, s)
    \/ \E email \in Emails : VerifySignup(p, email)
    \/ \E u \in Accounts :
          \/ \E email \in Emails : SetUpPassword(p, u, email) \/ ChangeEmail(p, u, email)
          \/ \E g \in GoogleSubs : ConnectGoogle(p, u, g)
          \/ DeleteAccount(p, u)
    \/ \E i \in identities : RemoveMethod(p, i)

LEMMA StartsBegin ==
    ASSUME Structure, NEW p \in Slots, Starts(p)
    PROVE  \E r \in ReqType : Begin(p, r) /\ Begins(r)
<1>1. TypeOK /\ RowsOK
  BY DEF Structure
<1>2. \A s \in Subs : Alive(s) => pool[s] \in Emails
  BY <1>1 DEF TypeOK, Alive
<1>3. \A u \in Known : u \in Accounts /\ users[u] \in Emails
  BY <1>1 DEF TypeOK, Known
<1>4. ASSUME NEW s \in Subs, StartSignup(p, s)
      PROVE  \E r \in ReqType : Begin(p, r) /\ Begins(r)
  <2> DEFINE r == [Idle EXCEPT !.at = "createAccount", !.sub = s, !.new = pool[s]]
  <2>2. pool[s] \in Emails /\ Begin(p, r)
    BY <1>2, <1>4 DEF StartSignup
  <2>3. "createAccount" \in Labels
    BY DEF Labels
  <2>4. /\ r \in ReqType
        /\ r.at = "createAccount" /\ r.user = Nobody /\ r.sub = s /\ r.new = pool[s]
    BY <2>2, <2>3 DEF Idle, ReqType
  <2> QED
    BY <2>2, <2>4 DEF Begins
<1>5. ASSUME NEW s \in Subs, RejectSignIn(p, s)
      PROVE  \E r \in ReqType : Begin(p, r) /\ Begins(r)
  <2> DEFINE r == [Idle EXCEPT !.at = "discardUser", !.sub = s]
  <2>2. Begin(p, r)
    BY <1>5 DEF RejectSignIn
  <2>3. "discardUser" \in Labels
    BY DEF Labels
  <2>4. r \in ReqType /\ r.at = "discardUser" /\ r.user = Nobody /\ r.sub = s
    BY <2>3 DEF Idle, ReqType
  <2> QED
    BY <2>2, <2>4 DEF Begins
<1>6. ASSUME NEW email \in Emails, VerifySignup(p, email)
      PROVE  \E r \in ReqType : Begin(p, r) /\ Begins(r)
  <2> DEFINE r == [Idle EXCEPT !.at = "createSignup", !.new = email]
  <2>2. Begin(p, r)
    BY <1>6 DEF VerifySignup
  <2>3. "createSignup" \in Labels
    BY DEF Labels
  <2>4. r \in ReqType /\ r.at = "createSignup" /\ r.user = Nobody /\ r.new = email
    BY <2>3 DEF Idle, ReqType
  <2> QED
    BY <2>2, <2>4 DEF Begins
<1>7. ASSUME NEW u \in Accounts, NEW email \in Emails, SetUpPassword(p, u, email)
      PROVE  \E r \in ReqType : Begin(p, r) /\ Begins(r)
  <2> DEFINE r == [Idle EXCEPT !.at = "createNative", !.user = u, !.old = users[u], !.new = email]
  <2>2. Begin(p, r) /\ u \in Known /\ users[u] \in Emails
    BY <1>3, <1>7 DEF SetUpPassword
  <2>3. "createNative" \in Labels
    BY DEF Labels
  <2>4. /\ r \in ReqType
        /\ r.at = "createNative" /\ r.user = u /\ r.old = users[u] /\ r.new = email
    BY <2>2, <2>3 DEF Idle, ReqType
  <2> QED
    BY <2>2, <2>4 DEF Begins
<1>8. ASSUME NEW u \in Accounts, NEW email \in Emails, ChangeEmail(p, u, email)
      PROVE  \E r \in ReqType : Begin(p, r) /\ Begins(r)
  <2>1. CASE PasswordOf(u) = {}
    <3> DEFINE none == Identity(u, "PASSWORD", Nobody, Nobody)
               r == [Idle EXCEPT !.at = "saveEmail", !.user = u, !.sub = Nobody, !.old = Nobody,
                                 !.new = email]
    <3>1. u \in Known /\ Begin(p, [Idle EXCEPT !.at = IF none.sub = Nobody THEN "saveEmail" ELSE "moveEmail",
                                  !.user = u, !.sub = none.sub, !.old = none.email, !.new = email])
      BY <1>8, <2>1 DEF ChangeEmail
    <3>2. none.sub = Nobody /\ none.email = Nobody
      BY DEF Identity
    <3> HIDE DEF none
    <3>3. Begin(p, r)
      BY <3>1, <3>2
    <3>5. "saveEmail" \in Labels
      BY DEF Labels
    <3>6. r \in ReqType /\ r.at = "saveEmail" /\ r.user = u /\ r.sub = Nobody /\ r.new = email
      BY <3>5 DEF Idle, ReqType
    <3> QED
      BY <2>1, <3>1, <3>3, <3>6 DEF Begins
  <2>2. CASE PasswordOf(u) # {}
    <3>1. PICK i \in PasswordOf(u) :
              u \in Known /\ Begin(p, [Idle EXCEPT !.at = IF i.sub = Nobody THEN "saveEmail" ELSE "moveEmail",
                                  !.user = u, !.sub = i.sub, !.old = i.email, !.new = email])
      BY <1>8, <2>2 DEF ChangeEmail
    <3> DEFINE r == [Idle EXCEPT !.at = "moveEmail", !.user = u, !.sub = i.sub, !.old = i.email,
                                 !.new = email]
    <3>2. i.sub \in Subs /\ i.sub # Nobody /\ i.email \in Emails \cup {Nobody}
      BY <1>1, RowFields, Sets DEF PasswordOf, MethodsOf
    <3>3. Begin(p, r)
      BY <3>1, <3>2
    <3>5. "moveEmail" \in Labels
      BY DEF Labels
    <3>6. /\ r \in ReqType
          /\ r.at = "moveEmail" /\ r.user = u /\ r.sub = i.sub /\ r.old = i.email /\ r.new = email
      BY <3>2, <3>5 DEF Idle, ReqType
    <3> QED
      BY <3>1, <3>3, <3>6 DEF Begins
  <2> QED
    BY <2>1, <2>2
<1>9. ASSUME NEW u \in Accounts, NEW g \in GoogleSubs, ConnectGoogle(p, u, g)
      PROVE  \E r \in ReqType : Begin(p, r) /\ Begins(r)
  <2> DEFINE r == [Idle EXCEPT !.at = IF HasGoogle(u) THEN "discardUser" ELSE "connect",
                               !.user = u, !.sub = g]
  <2>2. Begin(p, r) /\ u \in Known
    BY <1>9 DEF ConnectGoogle
  <2>3. "discardUser" \in Labels /\ "connect" \in Labels /\ g \in Subs
    BY Sets DEF Labels
  <2>4. /\ r \in ReqType
        /\ r.at \in {"discardUser", "connect"} /\ r.user = u /\ r.sub = g
    BY <2>3 DEF Idle, ReqType
  <2> QED
    BY <2>2, <2>3, <2>4 DEF Begins
<1>10. ASSUME NEW u \in Accounts, DeleteAccount(p, u)
       PROVE  \E r \in ReqType : Begin(p, r) /\ Begins(r)
  <2> DEFINE subs == {i.sub : i \in MethodsOf(u)}
             r == [Idle EXCEPT !.at = "purge", !.user = u, !.subs = subs]
  <2>2. Begin(p, r) /\ u \in Known
    BY <1>10 DEF DeleteAccount
  <2>3. "purge" \in Labels /\ subs \in SUBSET Subs
    BY <1>1, RowFields DEF Labels, MethodsOf
  <2>4. r \in ReqType /\ r.at = "purge" /\ r.user = u /\ r.subs = subs
    <3> HIDE DEF subs
    <3> QED
      BY <2>3 DEF Idle, ReqType
  <2> QED
    BY <2>2, <2>4 DEF Begins
<1>11. ASSUME NEW i \in identities, RemoveMethod(p, i)
       PROVE  \E r \in ReqType : Begin(p, r) /\ Begins(r)
  <2> DEFINE r == [Idle EXCEPT !.at = "lockUser", !.user = i.user, !.sub = i.sub]
  <2>2. Begin(p, r)
    BY <1>11 DEF RemoveMethod
  <2>3. "lockUser" \in Labels /\ i.user \in Known /\ i.user \in Accounts /\ i.sub \in Subs
    BY <1>1, RowFields DEF Labels
  <2>4. r \in ReqType /\ r.at = "lockUser" /\ r.user = i.user /\ r.sub = i.sub
    BY <2>3 DEF Idle, ReqType
  <2> QED
    BY <2>2, <2>3, <2>4 DEF Begins
<1> QED
  BY <1>4, <1>5, <1>6, <1>7, <1>8, <1>9, <1>10, <1>11 DEF Starts

LEMMA StructureStarts ==
    ASSUME Structure, NEW p \in Slots, NEW r \in ReqType, Begin(p, r), Begins(r)
    PROVE  Structure'
<1>1. TypeOK /\ RowsOK
  BY DEF Structure
<1>2. \A u \in Known : u \in Accounts /\ users[u] \in Emails /\ users[u] # Nobody
  BY <1>1, Sets DEF TypeOK, Known
<1>3. \A u \in Accounts : \A i \in PasswordOf(u) : i.sub \in NativeSubs /\ i.email \in Emails
  BY <1>1 DEF RowsOK, PasswordOf, MethodsOf, Passwords
<1>4. Carries(r)
  BY <1>2, <1>3 DEF Begins, Carries, SetsEmail, Moving, Moved, Removing
<1>5. r.user \in Accounts => users[r.user] # Nobody
  BY <1>2, Sets DEF Begins
<1>6. r.at \notin Removing
  BY DEF Begins, Removing
<1> QED
  BY <1>4, <1>5, <1>6, StructureBegin

-----------------------------------------------------------------------------
(* Requests go on, or die.                                                 *)

\* The steps of a request that leave the database alone.
Continues(p) ==
    \/ FindWinner(p) \/ DiscardUser(p) \/ CreateNative(p) \/ FindAttached(p)
    \/ MoveEmail(p) \/ FindLeftover(p) \/ DropLeftover(p) \/ MoveAgain(p) \/ RevertEmail(p)
    \/ LockUser(p) \/ RemoveUser(p) \/ EraseUser(p)
    \/ Die(p) \/ FailToSave(p)

\* What a request carries suits the labels it can go to.
LEMMA CarriesOn ==
    ASSUME Structure, NEW p \in Slots, NEW label \in Labels,
           \/ req[p].at \in {"findWinner", "findAttached"} /\ label = "discardUser"
           \/ req[p].at = "createAccount" /\ label = "findWinner"
           \/ req[p].at = "attach" /\ label = "findAttached"
           \/ req[p].at = "moveEmail" /\ label \in {"saveEmail", "findLeftover"}
           \/ req[p].at = "findLeftover" /\ label = "dropLeftover"
           \/ req[p].at = "dropLeftover" /\ label = "moveAgain"
           \/ req[p].at = "moveAgain" /\ label = "saveEmail"
           \/ req[p].at = "saveEmail" /\ req[p].sub # Nobody /\ label = "revertEmail"
           \/ req[p].at = "lockUser" /\ label = "removeUser"
           \/ req[p].at = "removeUser" /\ label = "removeRow"
           \/ req[p].at = "purge" /\ label = "eraseUsers"
    PROVE  Carries([req[p] EXCEPT !.at = label])
<1>1. Carries(req[p]) /\ req[p] \in ReqType
  BY ReqFields DEF Structure, RequestsOK
<1> DEFINE r == [req[p] EXCEPT !.at = label]
<1>2. /\ r.at = label /\ r.user = req[p].user /\ r.sub = req[p].sub
      /\ r.old = req[p].old /\ r.new = req[p].new
  BY <1>1 DEF ReqType
<1>3. NativeSubs \subseteq Subs
  BY Sets
<1> HIDE DEF r
<1> SUFFICES Carries(r)
  BY DEF r
<1> QED
  BY <1>1, <1>2, <1>3 DEF Carries, SetsEmail, Moving, Moved, Removing

LEMMA StructureContinues ==
    ASSUME Structure, NEW p \in Slots, Continues(p)
    PROVE  Structure'
<1>1. TypeOK /\ disturbed \in BOOLEAN /\ RequestsOK
  BY DEF Structure
<1>2. /\ Carries(req[p])
      /\ Labels = {"idle", "createAccount", "findWinner", "discardUser", "createSignup",
                   "createNative", "attach", "findAttached", "moveEmail", "findLeftover",
                   "dropLeftover", "moveAgain", "saveEmail", "revertEmail", "connect",
                   "lockUser", "removeUser", "removeRow", "purge", "eraseUsers"}
  BY <1>1 DEF RequestsOK, Labels
<1>3. CASE FindWinner(p) \/ FindAttached(p)
  <2>1. SameDatabase /\ UNCHANGED pool /\ disturbed' \in BOOLEAN
    BY <1>1, <1>3 DEF FindWinner, FindAttached, SameStores, SameDatabase, SameHistory
  <2>2. Done(p) \/ (Goto(p, "discardUser") /\ req[p].at \in {"findWinner", "findAttached"})
    BY <1>3 DEF FindWinner, FindAttached, At
  <2>3. "discardUser" \in Labels /\ "discardUser" \notin Removing
    BY <1>2 DEF Removing
  <2> QED
    BY <1>1, <2>1, <2>2, <2>3, PoolSame, CarriesOn, StructureDone, StructureGoto
<1>4. CASE DiscardUser(p)
  BY <1>1, <1>4, PoolGone, StructureDone DEF DiscardUser, SameHistory
<1>5. CASE CreateNative(p)
  <2>1. SameDatabase /\ disturbed' \in BOOLEAN
    BY <1>1, <1>5 DEF CreateNative, SameHistory
  <2>2. req[p].new \in Emails /\ (req[p].at = "createNative" => req[p].user \in Accounts)
    BY <1>2, <1>5 DEF CreateNative, At, Carries, SetsEmail
  <2>3. /\ pool' \in [Subs -> Emails \cup {Nobody, Gone}]
        /\ \A s \in Subs : pool[s] = Gone => pool'[s] = Gone
    <3>1. CASE UNCHANGED pool
      BY <1>1, <3>1, PoolSame
    <3>2. CASE \E n \in NativeSubs : pool[n] = Nobody /\ pool' = [pool EXCEPT ![n] = req[p].new]
      <4>1. PICK n \in NativeSubs : pool[n] = Nobody /\ pool' = [pool EXCEPT ![n] = req[p].new]
        BY <3>2
      <4>2. pool[n] # Gone /\ n \in Subs /\ pool \in [Subs -> Emails \cup {Nobody, Gone}]
        BY <1>1, <4>1, Sets DEF TypeOK
      <4> QED
        BY <2>2, <4>1, <4>2
    <3> QED
      BY <1>5, <3>1, <3>2 DEF CreateNative
  <2>4. CASE Done(p)
    BY <2>1, <2>3, <2>4, StructureDone
  <2>5. CASE \E n \in NativeSubs : /\ At(p, "createNative")
                                   /\ req' = [req EXCEPT ![p] = [req[p] EXCEPT !.at = "attach", !.sub = n]]
    <3>1. PICK n \in NativeSubs :
              /\ At(p, "createNative")
              /\ req' = [req EXCEPT ![p] = [req[p] EXCEPT !.at = "attach", !.sub = n]]
      BY <2>5
    <3> DEFINE r == [req[p] EXCEPT !.at = "attach", !.sub = n]
    <3>2. req[p] \in ReqType /\ "attach" \in Labels /\ n \in Subs
      BY <1>1, <1>2, ReqFields, Sets
    <3>3. /\ r \in ReqType
          /\ r.at = "attach" /\ r.sub = n /\ r.user = req[p].user /\ r.new = req[p].new
      BY <3>2 DEF ReqType
    <3> HIDE DEF r
    <3>4. Carries(r)
      BY <2>2, <3>1, <3>3 DEF At, Carries, SetsEmail, Moving, Moved, Removing
    <3>5. r.user \in Accounts => users[r.user] # Nobody
      BY <1>1, <3>3 DEF RequestsOK
    <3>6. r.at \notin Removing /\ r.at # "removeRow"
      BY <3>3 DEF Removing
    <3>7. req' = [req EXCEPT ![p] = r]
      BY <3>1 DEF r
    <3> QED
      BY <2>1, <2>3, <3>3, <3>4, <3>5, <3>6, <3>7, StructureStep
  <2>6. Holder(req[p].new) \subseteq NativeSubs
    BY DEF Holder
  <2>7. Done(p) \/ \E n \in NativeSubs :
                       /\ At(p, "createNative")
                       /\ req' = [req EXCEPT ![p] = [req[p] EXCEPT !.at = "attach", !.sub = n]]
    <3>1. At(p, "createSignup") \/ At(p, "createNative")
      BY <1>5 DEF CreateNative
    <3>2. ~ (At(p, "createSignup") /\ At(p, "createNative"))
      BY DEF At
    <3> QED
      BY <1>5, <2>6, <3>1, <3>2 DEF CreateNative, Done
  <2> QED
    BY <2>4, <2>5, <2>7
<1>6. CASE MoveEmail(p) \/ MoveAgain(p)
  <2>1. SameDatabase
    BY <1>6 DEF MoveEmail, MoveAgain
  <2>2. /\ req[p].at \in {"moveEmail", "moveAgain"}
        /\ req[p].old \in Emails /\ req[p].new \in Emails
    BY <1>2, <1>6 DEF MoveEmail, MoveAgain, At, Carries, SetsEmail, Moving
  <2>3. CASE Moves(req[p].sub, req[p].old, req[p].new) /\ Goto(p, "saveEmail")
    <3>1. /\ pool' \in [Subs -> Emails \cup {Nobody, Gone}]
          /\ \A n \in Subs : pool[n] = Gone => pool'[n] = Gone
          /\ disturbed' \in BOOLEAN
      BY <1>1, <2>2, <2>3, PoolMoved
    <3>2. "saveEmail" \in Labels /\ "saveEmail" \notin Removing
      BY <1>2 DEF Removing
    <3> QED
      BY <2>1, <2>2, <2>3, <3>1, <3>2, CarriesOn, StructureGoto
  <2>4. CASE UNCHANGED <<pool, disturbed>>
    <3>1. Done(p) \/ (Goto(p, "findLeftover") /\ req[p].at = "moveEmail")
          \/ (Goto(p, "saveEmail") /\ req[p].at \in {"moveEmail", "moveAgain"})
      BY <1>6 DEF MoveEmail, MoveAgain, At
    <3>2. {"findLeftover", "saveEmail"} \subseteq Labels /\ "findLeftover" \notin Removing
          /\ "saveEmail" \notin Removing
      BY <1>2 DEF Removing
    <3> QED
      BY <1>1, <2>1, <2>4, <3>1, <3>2, PoolSame, CarriesOn, StructureDone, StructureGoto
  <2> QED
    BY <1>6, <2>3, <2>4 DEF MoveEmail, MoveAgain, CannotMove
<1>7. CASE FindLeftover(p)
  <2>1. SameDatabase /\ UNCHANGED pool /\ disturbed' \in BOOLEAN
    BY <1>1, <1>7 DEF FindLeftover, SameStores, SameDatabase, SameHistory
  <2>2. Done(p) \/ (Goto(p, "dropLeftover") /\ req[p].at = "findLeftover")
    BY <1>7 DEF FindLeftover, At
  <2>3. "dropLeftover" \in Labels /\ "dropLeftover" \notin Removing
    BY <1>2 DEF Removing
  <2> QED
    BY <1>1, <2>1, <2>2, <2>3, PoolSame, CarriesOn, StructureDone, StructureGoto
<1>8. CASE DropLeftover(p)
  <2>1. /\ pool' \in [Subs -> Emails \cup {Nobody, Gone}]
        /\ \A n \in Subs : pool[n] = Gone => pool'[n] = Gone
    BY <1>1, <1>8 DEF DropLeftover, TypeOK
  <2>2. "moveAgain" \in Labels /\ "moveAgain" \notin Removing
    BY <1>2 DEF Removing
  <2>3. Goto(p, "moveAgain") /\ req[p].at = "dropLeftover" /\ SameDatabase /\ disturbed' \in BOOLEAN
    BY <1>1, <1>8 DEF DropLeftover, At, SameHistory
  <2> QED
    BY <2>1, <2>2, <2>3, CarriesOn, StructureGoto
<1>9. CASE RevertEmail(p)
  <2>1. SameDatabase /\ Done(p)
    BY <1>9 DEF RevertEmail
  <2>2. req[p].old \in Emails /\ req[p].new \in Emails
    BY <1>2, <1>9 DEF RevertEmail, At, Carries, SetsEmail, Moving, Moved
  <2>3. CASE Moves(req[p].sub, req[p].new, req[p].old)
    BY <1>1, <2>1, <2>2, <2>3, PoolMoved, StructureDone
  <2>4. CASE UNCHANGED pool /\ disturbed' = TRUE
    BY <1>1, <2>1, <2>4, PoolSame, StructureDone
  <2> QED
    BY <1>9, <2>3, <2>4 DEF RevertEmail, CannotMove
<1>10. CASE LockUser(p)
  <2>1. SameDatabase /\ UNCHANGED pool /\ disturbed' \in BOOLEAN
    BY <1>1, <1>10 DEF LockUser, SameStores, SameDatabase, SameHistory
  <2>2. \/ Done(p)
        \/ /\ Goto(p, "removeUser") /\ req[p].at = "lockUser" /\ ~ Locked(req[p].user)
           /\ \E i \in MethodsOf(req[p].user) : i.sub # req[p].sub
    BY <1>10 DEF LockUser, At
  <2>3. "removeUser" \in Labels
    BY <1>2
  <2> QED
    BY <1>1, <2>1, <2>2, <2>3, PoolSame, CarriesOn, StructureDone, StructureGoto
<1>11. CASE RemoveUser(p)
  <2>1. pool' = [pool EXCEPT ![req[p].sub] = Gone] /\ SameDatabase /\ disturbed' \in BOOLEAN
    BY <1>1, <1>11 DEF RemoveUser, SameHistory
  <2>2. Goto(p, "removeRow") /\ req[p].at = "removeUser" /\ req[p].at \in Removing
    BY <1>11 DEF RemoveUser, At, Removing
  <2>3. req[p].sub \in Subs /\ "removeRow" \in Labels
    BY <1>2, <2>2 DEF Carries
  <2>4. Carries([req[p] EXCEPT !.at = "removeRow"])
    BY <2>2, <2>3, CarriesOn
  <2> QED
    BY <1>1, <2>1, <2>2, <2>3, <2>4, PoolGone, StructureGoto
<1>12. CASE EraseUser(p)
  <2>1. PICK s \in req[p].subs :
            /\ pool' = [pool EXCEPT ![s] = Gone]
            /\ Done(p) \/ req' = [req EXCEPT ![p].subs = req[p].subs \ {s}]
    BY <1>12 DEF EraseUser
  <2>2. SameDatabase /\ disturbed' \in BOOLEAN /\ req[p].at = "eraseUsers"
    BY <1>1, <1>12 DEF EraseUser, SameHistory, At
  <2>3. CASE Done(p)
    BY <1>1, <2>1, <2>2, <2>3, PoolGone, StructureDone
  <2>4. CASE req' = [req EXCEPT ![p].subs = req[p].subs \ {s}]
    <3> DEFINE r == [req[p] EXCEPT !.subs = req[p].subs \ {s}]
    <3>1. req[p] \in ReqType
      BY <1>1, ReqFields
    <3>2. /\ r \in ReqType
          /\ r.at = req[p].at /\ r.user = req[p].user /\ r.sub = req[p].sub
          /\ r.old = req[p].old /\ r.new = req[p].new
      BY <3>1 DEF ReqType
    <3>3. req' = [req EXCEPT ![p] = r]
      BY <2>4
    <3> HIDE DEF r
    <3>4. Carries(r)
      BY <1>2, <3>2 DEF Carries, SetsEmail
    <3>5. r.user \in Accounts => users[r.user] # Nobody
      BY <1>1, <3>2 DEF RequestsOK
    <3>6. r.at \notin Removing
      BY <2>2, <3>2 DEF Removing
    <3> QED
      BY <1>1, <2>1, <2>2, <3>2, <3>3, <3>4, <3>5, <3>6, PoolGone, StructureStep DEF Removing
  <2> QED
    BY <2>1, <2>3, <2>4
<1>13. CASE Die(p)
  <2>1. SameDatabase /\ UNCHANGED pool /\ Done(p) /\ disturbed' \in BOOLEAN
    BY <1>1, <1>13 DEF Die, SameStores, SameDatabase
  <2> QED
    BY <1>1, <2>1, PoolSame, StructureDone
<1>14. CASE FailToSave(p)
  <2>1. SameDatabase /\ UNCHANGED pool /\ disturbed' \in BOOLEAN
    BY <1>1, <1>14 DEF FailToSave, SameStores, SameDatabase
  <2>2. Goto(p, "revertEmail") /\ req[p].at = "saveEmail" /\ req[p].sub # Nobody
    BY <1>14 DEF FailToSave, At
  <2>3. "revertEmail" \in Labels /\ "revertEmail" \notin Removing
    BY <1>2 DEF Removing
  <2> QED
    BY <1>1, <2>1, <2>2, <2>3, PoolSame, CarriesOn, StructureGoto
<1> QED
  BY <1>3, <1>4, <1>5, <1>6, <1>7, <1>8, <1>9, <1>10, <1>11, <1>12, <1>13, <1>14 DEF Continues

-----------------------------------------------------------------------------
(* Requests write to the database.                                         *)

\* A request that ends: the others are as they were.
LEMMA DoneReqs ==
    ASSUME Structure, NEW p \in Slots, Done(p)
    PROVE  /\ \A q \in Slots : req'[q] = IF q = p THEN Idle ELSE req[q]
           /\ req' \in [Slots -> ReqType]
           /\ \A q \in Slots : req'[q].at \in Removing => q # p /\ req'[q] = req[q]
<1>1. req' = [req EXCEPT ![p] = Idle] /\ DOMAIN req = Slots /\ \A q \in Slots : req[q] \in ReqType
  BY ReqFields DEF Done, Structure, TypeOK
<1>2. \A q \in Slots : req'[q] = IF q = p THEN Idle ELSE req[q]
  BY <1>1
<1>3. req' \in [Slots -> ReqType]
  BY <1>1, IdleReq
<1>4. Idle.at \notin Removing
  BY IdleReq DEF Removing
<1> QED
  BY <1>2, <1>3, <1>4

\* What the requests left need of the accounts, once one has ended.
LEMMA DoneRequests ==
    ASSUME Structure, NEW p \in Slots, Done(p), UNCHANGED pool,
           \A v \in Accounts : users[v] # Nobody => users'[v] # Nobody
    PROVE  RequestsOK'
<1>1. \A q \in Slots : req'[q] = IF q = p THEN Idle ELSE req[q]
  BY DoneReqs
<1>2. Idle.user \notin Accounts /\ Idle.at # "removeRow" /\ Carries(Idle)
  BY IdleReq, Sets
<1> SUFFICES ASSUME NEW q \in Slots
             PROVE  /\ Carries(req'[q])
                    /\ req'[q].user \in Accounts => users'[req'[q].user] # Nobody
                    /\ req'[q].at = "removeRow" => pool[req'[q].sub] = Gone
  BY DEF RequestsOK
<1>3. /\ Carries(req[q])
      /\ req[q].user \in Accounts => users[req[q].user] # Nobody
      /\ req[q].at = "removeRow" => pool[req[q].sub] = Gone
  BY DEF Structure, RequestsOK
<1> QED
  BY <1>1, <1>2, <1>3

\* An account gets another method, and may get another email.
Adds(i, email) ==
    /\ i.user \in Accounts /\ i.sub \in Subs /\ email \in Emails
    /\ i \in [user : Accounts, provider : {"GOOGLE", "PASSWORD"}, sub : Subs,
              email : Emails \cup {Nobody}]
    /\ ~ Attached(i.sub)
    /\ i.provider = "PASSWORD" <=> i.sub \in NativeSubs
    /\ i.provider = "PASSWORD" => i.email \in Emails /\ PasswordOf(i.user) = {}
    /\ users[i.user] # Gone
    /\ identities' = identities \cup {i}
    /\ users' = [users EXCEPT ![i.user] = email]
    /\ UNCHANGED pool

LEMMA StructureAdds ==
    ASSUME Structure, NEW p \in Slots, Done(p), NEW i, NEW email, Adds(i, email), disturbed' \in BOOLEAN
    PROVE  Structure'
<1>1. TypeOK /\ RowsOK /\ LocksOK /\ RequestsOK /\ KeepsIdentity
  BY DEF Structure
<1>2. /\ users \in [Accounts -> Emails \cup {Nobody, Gone}]
      /\ \A v \in Accounts : users'[v] = IF v = i.user THEN email ELSE users[v]
      /\ users' \in [Accounts -> Emails \cup {Nobody, Gone}]
      /\ email # Nobody /\ email # Gone
  BY <1>1, Sets DEF TypeOK, Adds
<1>3. Known' = Known \cup {i.user} /\ Known \subseteq Accounts
  BY <1>2 DEF Known, Adds
<1>4. TypeOK'
  <2>1. identities' \subseteq [user : Known', provider : {"GOOGLE", "PASSWORD"}, sub : Subs,
                               email : Emails \cup {Nobody}]
    BY <1>1, <1>3 DEF TypeOK, Adds
  <2>2. \A j, k \in identities' : j.sub = k.sub => j = k
    BY <1>1 DEF TypeOK, Adds, Attached
  <2>3. pool' \in [Subs -> Emails \cup {Nobody, Gone}]
    BY <1>1 DEF TypeOK, Adds
  <2>4. req' \in [Slots -> ReqType]
    BY DoneReqs
  <2> QED
    BY <1>2, <2>1, <2>2, <2>3, <2>4 DEF TypeOK, ReqType
<1>5. RowsOK'
  <2>1. Passwords' = IF i.provider = "PASSWORD" THEN Passwords \cup {i} ELSE Passwords
    BY DEF Passwords, Adds
  <2>2. i.provider = "PASSWORD" => \A j \in Passwords : j.user # i.user
    BY DEF Passwords, PasswordOf, MethodsOf, Adds
  <2> QED
    BY <1>1, <2>1, <2>2 DEF RowsOK, Adds
<1>6. \A u : MethodsOf(u) \subseteq MethodsOf(u)' /\ (u = i.user => i \in MethodsOf(u)')
  BY DEF MethodsOf, Adds
<1>7. LocksOK'
  BY <1>1, <1>6, DoneReqs DEF LocksOK
<1>8. RequestsOK'
  BY <1>2, DoneRequests DEF Adds
<1>9. KeepsIdentity'
  BY <1>1, <1>3, <1>6 DEF KeepsIdentity
<1> QED
  BY <1>4, <1>5, <1>7, <1>8, <1>9 DEF Structure

SignupRow(u, s, email) == IF s \in GoogleSubs THEN Identity(u, "GOOGLE", s, Nobody)
                          ELSE Identity(u, "PASSWORD", s, email)

LEMMA SignupAdds ==
    ASSUME Structure, NEW p \in Slots, At(p, "createAccount"), ~ Attached(req[p].sub),
           NEW u \in Accounts, users[u] = Nobody, users' = [users EXCEPT ![u] = req[p].new],
           identities' = identities \cup {SignupRow(u, req[p].sub, req[p].new)}, UNCHANGED pool
    PROVE  LET i == SignupRow(u, req[p].sub, req[p].new)
           IN  /\ Adds(i, req[p].new) /\ i.user = u /\ i.sub = req[p].sub
               /\ i.provider = "PASSWORD" => i.email = req[p].new
<1> DEFINE i == SignupRow(u, req[p].sub, req[p].new)
<1>1. req[p].new \in Emails /\ req[p].sub \in Subs
  BY DEF Structure, RequestsOK, Carries, At
<1>2. PasswordOf(u) = {}
  BY RowFields DEF PasswordOf, MethodsOf, Known, Structure
<1>3. /\ i \in [user : Accounts, provider : {"GOOGLE", "PASSWORD"}, sub : Subs,
                email : Emails \cup {Nobody}]
      /\ i.user = u /\ i.sub = req[p].sub
      /\ i.provider = "PASSWORD" <=> req[p].sub \notin GoogleSubs
      /\ i.provider = "PASSWORD" => i.email = req[p].new
  BY <1>1 DEF Identity, SignupRow
<1>4. req[p].sub \notin GoogleSubs <=> req[p].sub \in NativeSubs
  BY <1>1, Sets
<1>5. identities' = identities \cup {i}
  OBVIOUS
<1> HIDE DEF i
<1>6. Adds(i, req[p].new)
  BY <1>1, <1>2, <1>3, <1>4, <1>5, Sets DEF Adds
<1> QED
  BY <1>3, <1>6 DEF i

LEMMA CreateAccountCases ==
    ASSUME Structure, NEW p \in Slots, CreateAccount(p)
    PROVE  /\ UNCHANGED <<pool, disturbed>> /\ req[p].at = "createAccount"
           /\ \/ SameDatabase /\ (Done(p) \/ Goto(p, "findWinner"))
              \/ \E i : Adds(i, req[p].new) /\ Done(p) /\ i.sub = req[p].sub
                        /\ users[i.user] = Nobody
                        /\ (i.provider = "PASSWORD" => i.email = req[p].new)
<1>1. UNCHANGED <<pool, disturbed>> /\ req[p].at = "createAccount"
  BY DEF CreateAccount, SameHistory, At
<1>2. CASE ~ TakenFor(req[p].new, Nobody) /\ ~ Attached(req[p].sub)
  <2>1. PICK u \in Accounts :
            /\ users[u] = Nobody
            /\ users' = [users EXCEPT ![u] = req[p].new]
            /\ identities' = identities \cup {SignupRow(u, req[p].sub, req[p].new)}
            /\ Done(p)
    BY <1>2 DEF CreateAccount, SignupRow
  <2> DEFINE i == SignupRow(u, req[p].sub, req[p].new)
  <2>2. At(p, "createAccount") /\ ~ Attached(req[p].sub) /\ UNCHANGED pool
    BY <1>1, <1>2 DEF At
  <2>3. Adds(i, req[p].new) /\ i.user = u /\ i.sub = req[p].sub
        /\ (i.provider = "PASSWORD" => i.email = req[p].new)
    BY <2>1, <2>2, SignupAdds
  <2> HIDE DEF i
  <2> QED
    BY <1>1, <2>1, <2>3
<1>3. CASE TakenFor(req[p].new, Nobody) \/ Attached(req[p].sub)
  BY <1>1, <1>3 DEF CreateAccount
<1> QED
  BY <1>2, <1>3

LEMMA AttachCases ==
    ASSUME Structure, NEW p \in Slots, Attach(p)
    PROVE  /\ UNCHANGED <<pool, disturbed>> /\ req[p].at = "attach"
           /\ \/ SameDatabase /\ Goto(p, "findAttached")
              \/ \E i, email : Adds(i, email) /\ Done(p) /\ i.sub = req[p].sub
                               /\ i.user = req[p].user /\ users[i.user] # Nobody
                               /\ i.provider = "PASSWORD" /\ i.email = req[p].new
                               /\ (email = req[p].new \/ (req[p].new = req[p].old /\ email = users[i.user]))
<1> DEFINE r == req[p]
<1>1. UNCHANGED <<pool, disturbed>> /\ r.at = "attach"
  BY DEF Attach, SameHistory, At
<1>2. CASE /\ r.user \in Known /\ PasswordOf(r.user) = {} /\ ~ Attached(r.sub)
           /\ r.new # r.old => ~ TakenFor(r.new, r.user)
  <2> DEFINE i == Identity(r.user, "PASSWORD", r.sub, r.new)
             email == IF r.new = r.old THEN users[r.user] ELSE r.new
  <2>1. r.new \in Emails /\ r.sub \in NativeSubs /\ r.sub \in Subs
    BY <1>1, Sets DEF Structure, RequestsOK, Carries, SetsEmail
  <2>2. /\ users \in [Accounts -> Emails \cup {Nobody, Gone}]
        /\ r.user \in Accounts /\ users[r.user] \in Emails
        /\ users[r.user] # Nobody /\ users[r.user] # Gone
    BY <1>2 DEF Structure, TypeOK, Known
  <2>3. /\ i \in [user : Accounts, provider : {"GOOGLE", "PASSWORD"}, sub : Subs,
                  email : Emails \cup {Nobody}]
        /\ i.user = r.user /\ i.provider = "PASSWORD" /\ i.sub = r.sub /\ i.email = r.new
    BY <2>1, <2>2 DEF Identity
  <2>4. /\ identities' = identities \cup {i}
        /\ users' = IF r.new = r.old THEN users ELSE [users EXCEPT ![r.user] = r.new]
        /\ Done(p)
    BY <1>2 DEF Attach
  <2>5. users' = [users EXCEPT ![r.user] = email]
    BY <2>2, <2>4
  <2>6. email \in Emails
    BY <2>1, <2>2
  <2>7. email = r.new \/ (r.new = r.old /\ email = users[r.user])
    OBVIOUS
  <2> HIDE DEF i, email, r
  <2>8. Adds(i, email)
    BY <1>1, <1>2, <2>1, <2>2, <2>3, <2>4, <2>5, <2>6 DEF Adds
  <2> QED
    BY <1>1, <2>2, <2>3, <2>4, <2>7, <2>8 DEF r
<1>3. CASE ~ (/\ r.user \in Known /\ PasswordOf(r.user) = {} /\ ~ Attached(r.sub)
              /\ r.new # r.old => ~ TakenFor(r.new, r.user))
  BY <1>1, <1>3 DEF Attach
<1> QED
  BY <1>2, <1>3

LEMMA ConnectCases ==
    ASSUME Structure, NEW p \in Slots, Connect(p)
    PROVE  /\ UNCHANGED <<pool, disturbed>> /\ req[p].at = "connect" /\ Done(p)
           /\ \/ SameDatabase
              \/ \E i : Adds(i, users[i.user]) /\ i.provider = "GOOGLE" /\ users[i.user] # Nobody
<1> DEFINE r == req[p]
<1>1. UNCHANGED <<users, pool, disturbed>> /\ r.at = "connect" /\ Done(p)
  BY DEF Connect, SameHistory, At
<1>2. CASE r.user \in Known /\ ~ Attached(r.sub)
  <2> DEFINE i == Identity(r.user, "GOOGLE", r.sub, Nobody)
  <2>1. r.sub \in GoogleSubs /\ r.sub \in Subs /\ r.sub \notin NativeSubs
    BY <1>1, Sets DEF Structure, RequestsOK, Carries
  <2>2. /\ users \in [Accounts -> Emails \cup {Nobody, Gone}]
        /\ r.user \in Accounts /\ users[r.user] \in Emails
        /\ users[r.user] # Nobody /\ users[r.user] # Gone
    BY <1>2 DEF Structure, TypeOK, Known
  <2>3. /\ i \in [user : Accounts, provider : {"GOOGLE", "PASSWORD"}, sub : Subs,
                  email : Emails \cup {Nobody}]
        /\ i.user = r.user /\ i.provider = "GOOGLE" /\ i.sub = r.sub
    BY <2>1, <2>2 DEF Identity
  <2>4. identities' = identities \cup {i}
    BY <1>2 DEF Connect
  <2>5. users' = [users EXCEPT ![r.user] = users[r.user]]
    BY <1>1, <2>2
  <2> HIDE DEF i, r
  <2>6. Adds(i, users[r.user])
    BY <1>1, <1>2, <2>1, <2>2, <2>3, <2>4, <2>5 DEF Adds
  <2> QED
    BY <1>1, <2>2, <2>3, <2>6 DEF r
<1>3. CASE ~ (r.user \in Known /\ ~ Attached(r.sub))
  BY <1>1, <1>3 DEF Connect, SameDatabase
<1> QED
  BY <1>1, <1>2, <1>3

\* Identities go: what is left is in order, and no removal loses what it left its account.
LEMMA StructureDrops ==
    ASSUME Structure, NEW p \in Slots, NEW r \in ReqType, req' = [req EXCEPT ![p] = r],
           r.at \notin Removing, Carries(r), r.user \in Accounts => users'[r.user] # Nobody,
           NEW gone, identities' = identities \ gone,
           users' \in [Accounts -> Emails \cup {Nobody, Gone}], UNCHANGED pool, disturbed' \in BOOLEAN,
           \A i \in identities \ gone : i.user \in Known',
           \A v \in Accounts : users[v] # Nobody => users'[v] # Nobody,
           \A q \in Slots \ {p} : req[q].at \in Removing =>
               MethodsOf(req[q].user) \cap gone = {},
           Known' \subseteq Known,
           \A u \in Known' : MethodsOf(u) \subseteq gone => MethodsOf(u) = {}
    PROVE  Structure'
<1>1. TypeOK /\ RowsOK /\ LocksOK /\ RequestsOK /\ KeepsIdentity
  BY DEF Structure
<1>2. /\ \A q \in Slots : req'[q] = IF q = p THEN r ELSE req[q]
      /\ req' \in [Slots -> ReqType]
  BY <1>1 DEF TypeOK, ReqType
<1>3. TypeOK'
  <2>1. identities' \subseteq [user : Known', provider : {"GOOGLE", "PASSWORD"}, sub : Subs,
                               email : Emails \cup {Nobody}]
    BY <1>1 DEF TypeOK
  <2>2. pool' \in [Subs -> Emails \cup {Nobody, Gone}] /\ \A i, j \in identities' : i.sub = j.sub => i = j
    BY <1>1 DEF TypeOK
  <2> QED
    BY <1>2, <2>1, <2>2 DEF TypeOK, ReqType
<1>4. RowsOK'
  BY <1>1 DEF RowsOK, Passwords
<1>5. \A u : MethodsOf(u)' = MethodsOf(u) \ gone
  BY DEF MethodsOf
<1>6. LocksOK'
  BY <1>1, <1>2, <1>5 DEF LocksOK
<1>7. RequestsOK'
  <2> SUFFICES ASSUME NEW q \in Slots
               PROVE  /\ Carries(req'[q])
                      /\ req'[q].user \in Accounts => users'[req'[q].user] # Nobody
                      /\ req'[q].at = "removeRow" => pool[req'[q].sub] = Gone
    BY DEF RequestsOK
  <2>1. /\ Carries(req[q])
        /\ req[q].user \in Accounts => users[req[q].user] # Nobody
        /\ req[q].at = "removeRow" => pool[req[q].sub] = Gone
    BY <1>1 DEF RequestsOK
  <2> QED
    BY <1>2, <2>1 DEF Removing
<1>8. KeepsIdentity'
  <2> SUFFICES ASSUME NEW u \in Known'
               PROVE  MethodsOf(u) \ gone # {}
    BY <1>5 DEF KeepsIdentity
  <2>1. MethodsOf(u) # {}
    BY <1>1 DEF KeepsIdentity
  <2> QED
    BY <2>1
<1> QED
  BY <1>3, <1>4, <1>6, <1>7, <1>8 DEF Structure

LEMMA StructureRemoveRow ==
    ASSUME Structure, NEW p \in Slots, RemoveRow(p)
    PROVE  Structure'
<1> DEFINE gone == Row(req[p].user, req[p].sub)
<1>1. TypeOK /\ LocksOK /\ KeepsIdentity /\ disturbed \in BOOLEAN
  BY DEF Structure
<1>2. /\ req[p].at = "removeRow" /\ req[p].at \in Removing /\ identities' = identities \ gone
      /\ req' = [req EXCEPT ![p] = Idle] /\ UNCHANGED <<users, pool, disturbed>>
  BY DEF RemoveRow, At, Done, SameHistory, Removing
<1>3. \A i \in gone : i.user = req[p].user /\ i.sub = req[p].sub
  BY DEF Row, MethodsOf
<1>4. Idle.at \notin Removing /\ Idle.user \notin Accounts
  BY IdleReq, Sets DEF Removing
<1>5. Known' = Known /\ users' \in [Accounts -> Emails \cup {Nobody, Gone}]
  BY <1>1, <1>2 DEF Known, TypeOK
<1>6. \A i \in identities \ gone : i.user \in Known'
  BY <1>1, <1>5, RowFields
<1>7. \A q \in Slots \ {p} : req[q].at \in Removing => MethodsOf(req[q].user) \cap gone = {}
  BY <1>1, <1>2, <1>3 DEF LocksOK, MethodsOf
<1>8. ASSUME NEW u \in Known', MethodsOf(u) \subseteq gone, MethodsOf(u) # {}
      PROVE  FALSE
  <2>1. u = req[p].user
    BY <1>3, <1>8 DEF MethodsOf
  <2>2. \E i \in MethodsOf(u) : i.sub # req[p].sub
    BY <1>1, <1>2, <2>1 DEF LocksOK
  <2> QED
    BY <1>3, <1>8, <2>2
<1> HIDE DEF gone
<1>9. disturbed' \in BOOLEAN /\ \A v \in Accounts : users[v] # Nobody => users'[v] # Nobody
  BY <1>1, <1>2
<1> QED
  BY <1>2, <1>4, <1>5, <1>6, <1>7, <1>8, <1>9, IdleReq, StructureDrops

LEMMA StructurePurge ==
    ASSUME Structure, NEW p \in Slots, Purge(p)
    PROVE  Structure'
<1> DEFINE u == req[p].user
           gone == MethodsOf(u)
<1>1. TypeOK /\ RequestsOK /\ disturbed \in BOOLEAN
  BY DEF Structure
<1>2. /\ req[p].at = "purge" /\ ~ Locked(u) /\ UNCHANGED <<pool, disturbed>>
      /\ identities' = identities \ gone
      /\ users' = [users EXCEPT ![u] = IF u \in Known THEN Gone ELSE users[u]]
      /\ (u \in Known /\ Goto(p, "eraseUsers")) \/ (u \notin Known /\ Done(p))
  BY DEF Purge, At, SameHistory
<1>3. u \in Accounts /\ users[u] # Nobody /\ users \in [Accounts -> Emails \cup {Nobody, Gone}]
  BY <1>1, <1>2 DEF RequestsOK, Carries, TypeOK
<1>4. /\ users' \in [Accounts -> Emails \cup {Nobody, Gone}]
      /\ \A v \in Accounts : users'[v] = IF v = u THEN Gone ELSE users[v]
  BY <1>2, <1>3 DEF Known
<1>5. Known' = Known \ {u}
  BY <1>4 DEF Known
<1>6. PICK r \in ReqType : /\ req' = [req EXCEPT ![p] = r] /\ Carries(r) /\ r.at \notin Removing
                           /\ r.user \in Accounts => users'[r.user] # Nobody
  <2>1. CASE u \in Known /\ Goto(p, "eraseUsers")
    <3> DEFINE r == [req[p] EXCEPT !.at = "eraseUsers"]
    <3>1. "eraseUsers" \in Labels /\ req[p] \in ReqType
      BY <1>1, ReqFields DEF Labels
    <3>2. r \in ReqType /\ r.at = "eraseUsers" /\ r.user = u
      BY <3>1, GotoReq
    <3>3. Carries(r)
      BY <1>2, <3>1, CarriesOn
    <3>4. req' = [req EXCEPT ![p] = r]
      BY <2>1 DEF Goto
    <3> HIDE DEF r
    <3> QED
      BY <1>4, <3>2, <3>3, <3>4, Sets DEF Removing
  <2>2. CASE u \notin Known /\ Done(p)
    BY <2>2, IdleReq, Sets DEF Done, Removing
  <2> QED
    BY <1>2, <2>1, <2>2
<1>7. \A i \in identities \ gone : i.user \in Known'
  BY <1>1, <1>5, RowFields DEF MethodsOf
<1>8. \A q \in Slots \ {p} : req[q].at \in Removing => MethodsOf(req[q].user) \cap gone = {}
  BY <1>2 DEF Locked, MethodsOf, Removing
<1>9. \A v \in Known' : MethodsOf(v) \subseteq gone => MethodsOf(v) = {}
  BY <1>5 DEF MethodsOf
<1>10. disturbed' \in BOOLEAN /\ \A v \in Accounts : users[v] # Nobody => users'[v] # Nobody
  BY <1>1, <1>2, <1>4, Sets
<1> HIDE DEF gone, u
<1> QED
  BY <1>2, <1>4, <1>5, <1>6, <1>7, <1>8, <1>9, <1>10, StructureDrops

\* The rows after an email has been saved are those before, but for emails.
Saved(i, u, s, email) == IF i \in Row(u, s) THEN [i EXCEPT !.email = email] ELSE i

\* An email change is saved: only emails change, the account's and its password's.
LEMMA SaveEmailCases ==
    ASSUME Structure, NEW p \in Slots, SaveEmail(p)
    PROVE  /\ UNCHANGED <<pool, disturbed>> /\ req[p].at = "saveEmail"
           /\ \/ SameDatabase /\ req[p].sub = Nobody /\ Done(p)
              \/ SameDatabase /\ req[p].sub # Nobody /\ Goto(p, "revertEmail")
              \/ /\ req[p].user \in Known /\ req[p].new \in Emails /\ Done(p)
                 /\ users' = [users EXCEPT ![req[p].user] = req[p].new]
                 /\ identities' = {Saved(i, req[p].user, req[p].sub, req[p].new) : i \in identities}
<1>1. UNCHANGED <<pool, disturbed>> /\ req[p].at = "saveEmail"
  BY DEF SaveEmail, SameHistory, At
<1>2. req[p].new \in Emails
  BY <1>1 DEF Structure, RequestsOK, Carries, SetsEmail
<1>3. CASE CanSave(req[p])
  BY <1>1, <1>2, <1>3 DEF SaveEmail, CanSave, Saved
<1>4. CASE ~ CanSave(req[p])
  BY <1>1, <1>4 DEF SaveEmail
<1> QED
  BY <1>3, <1>4

LEMMA SavedRows ==
    ASSUME TypeOK, NEW u, NEW s, NEW email \in Emails, NEW i \in identities
    PROVE  LET j == Saved(i, u, s, email)
           IN  /\ j.user = i.user /\ j.provider = i.provider /\ j.sub = i.sub
               /\ j.email = IF i \in Row(u, s) THEN email ELSE i.email
               /\ j \in [user : Known, provider : {"GOOGLE", "PASSWORD"}, sub : Subs,
                         email : Emails \cup {Nobody}]
<1>1. i \in [user : Known, provider : {"GOOGLE", "PASSWORD"}, sub : Subs, email : Emails \cup {Nobody}]
  BY DEF TypeOK
<1> QED
  BY <1>1 DEF Saved

LEMMA StructureSaves ==
    ASSUME Structure, NEW p \in Slots, Done(p), NEW u \in Known, NEW s, NEW email \in Emails,
           users' = [users EXCEPT ![u] = email], UNCHANGED <<pool, disturbed>>,
           identities' = {Saved(i, u, s, email) : i \in identities}
    PROVE  Structure'
<1>1. TypeOK /\ RowsOK /\ LocksOK /\ RequestsOK /\ KeepsIdentity /\ disturbed \in BOOLEAN
  BY DEF Structure
<1>2. /\ users \in [Accounts -> Emails \cup {Nobody, Gone}] /\ u \in Accounts
      /\ \A v \in Accounts : users'[v] = IF v = u THEN email ELSE users[v]
      /\ users' \in [Accounts -> Emails \cup {Nobody, Gone}]
      /\ email # Nobody /\ email # Gone
  BY <1>1, Sets DEF TypeOK, Known
<1>3. Known' = Known
  BY <1>2 DEF Known
<1>4. \A j \in identities' : \E i \in identities : j = Saved(i, u, s, email)
  OBVIOUS
<1>5. \A i \in identities : Saved(i, u, s, email) \in identities'
  OBVIOUS
<1>6. \A i \in identities :
          LET j == Saved(i, u, s, email)
          IN  /\ j.user = i.user /\ j.provider = i.provider /\ j.sub = i.sub
              /\ j.email = IF i \in Row(u, s) THEN email ELSE i.email
              /\ j \in [user : Known, provider : {"GOOGLE", "PASSWORD"}, sub : Subs,
                        email : Emails \cup {Nobody}]
  BY <1>1, SavedRows
<1>7. TypeOK'
  <2>1. identities' \subseteq [user : Known', provider : {"GOOGLE", "PASSWORD"}, sub : Subs,
                               email : Emails \cup {Nobody}]
    BY <1>3, <1>4, <1>6
  <2>2. \A j, k \in identities' : j.sub = k.sub => j = k
    <3>1. \A i, h \in identities : i.sub = h.sub => i = h
      BY <1>1 DEF TypeOK
    <3> QED
      BY <1>4, <1>6, <3>1
  <2>3. pool' \in [Subs -> Emails \cup {Nobody, Gone}]
    BY <1>1 DEF TypeOK
  <2>4. req' \in [Slots -> ReqType]
    BY DoneReqs
  <2> QED
    BY <1>2, <2>1, <2>2, <2>3, <2>4 DEF TypeOK, ReqType
<1>8. RowsOK'
  <2>1. \A j \in Passwords' : j.email \in Emails /\ \E i \in Passwords :
            j = Saved(i, u, s, email) /\ j.user = i.user
    BY <1>1, <1>4, <1>6 DEF Passwords, RowsOK
  <2>2. \A j, k \in Passwords' : j.user = k.user => j = k
    BY <1>1, <2>1 DEF RowsOK
  <2>3. \A j \in identities' : j.provider = "PASSWORD" <=> j.sub \in NativeSubs
    BY <1>1, <1>4, <1>6 DEF RowsOK
  <2> QED
    BY <2>1, <2>2, <2>3 DEF RowsOK
<1>9. LocksOK'
  <2>1. ASSUME NEW q \in Slots, req'[q].at \in Removing
        PROVE  /\ \E i \in identities' : i.user = req'[q].user /\ i.sub # req'[q].sub
               /\ \A o \in Slots \ {q} : req'[o].at \in Removing => req'[o].user # req'[q].user
    <3>1. req'[q] = req[q] /\ \A o \in Slots : req'[o].at \in Removing => req'[o] = req[o]
      BY <2>1, DoneReqs
    <3>2. \E i \in MethodsOf(req[q].user) : i.sub # req[q].sub
      BY <1>1, <2>1, <3>1 DEF LocksOK
    <3>3. \E i \in identities' : i.user = req[q].user /\ i.sub # req[q].sub
      BY <1>5, <1>6, <3>2 DEF MethodsOf
    <3> QED
      BY <1>1, <2>1, <3>1, <3>3 DEF LocksOK
  <2> QED
    BY <2>1 DEF LocksOK, MethodsOf
<1>10. RequestsOK'
  BY <1>2, DoneRequests
<1>11. KeepsIdentity'
  BY <1>1, <1>3, <1>5, <1>6 DEF KeepsIdentity, MethodsOf
<1> QED
  BY <1>1, <1>7, <1>8, <1>9, <1>10, <1>11 DEF Structure

Writes(p) == CreateAccount(p) \/ Attach(p) \/ SaveEmail(p) \/ Connect(p) \/ RemoveRow(p) \/ Purge(p)

LEMMA StructureWrites ==
    ASSUME Structure, NEW p \in Slots, Writes(p)
    PROVE  Structure'
<1>1. TypeOK /\ disturbed \in BOOLEAN
  BY DEF Structure
<1>2. {"findWinner", "findAttached", "revertEmail"} \subseteq Labels \ Removing
  BY DEF Labels, Removing
<1>3. CASE CreateAccount(p)
  <2>1. CASE SameDatabase
    BY <1>1, <1>2, <1>3, <2>1, CreateAccountCases, PoolSame, CarriesOn, StructureDone, StructureGoto
       DEF CreateAccount
  <2>2. CASE ~ SameDatabase
    BY <1>1, <1>3, <2>2, CreateAccountCases, StructureAdds
  <2> QED
    BY <2>1, <2>2
<1>4. CASE Attach(p)
  BY <1>1, <1>2, <1>4, AttachCases, PoolSame, CarriesOn, StructureGoto, StructureAdds
<1>5. CASE SaveEmail(p)
  <2>1. CASE SameDatabase
    <3>1. Done(p) \/ (Goto(p, "revertEmail") /\ req[p].at = "saveEmail" /\ req[p].sub # Nobody)
      BY <1>5, SaveEmailCases
    <3> QED
      BY <1>1, <1>2, <1>5, <2>1, <3>1, SaveEmailCases, PoolSame, CarriesOn, StructureDone, StructureGoto
  <2>2. CASE ~ SameDatabase
    BY <1>5, <2>2, SaveEmailCases, StructureSaves
  <2> QED
    BY <2>1, <2>2
<1>6. CASE Connect(p)
  BY <1>1, <1>6, ConnectCases, PoolSame, StructureDone, StructureAdds
<1> QED
  BY <1>3, <1>4, <1>5, <1>6, StructureRemoveRow, StructurePurge DEF Writes

LEMMA StructureSignIn ==
    ASSUME Structure, NEW g \in GoogleSubs, NEW email \in Emails, FederatedSignIn(g, email)
    PROVE  Structure'
<1>1. /\ UNCHANGED <<users, identities, req, disturbed>>
      /\ pool' = [pool EXCEPT ![g] = email] /\ pool[g] = Nobody
  BY DEF FederatedSignIn, SameHistory
<1>2. pool' \in [Subs -> Emails \cup {Nobody, Gone}] /\ \A s \in Subs : pool[s] = Gone => pool'[s] = Gone
  BY <1>1, Sets DEF Structure, TypeOK
<1>3. RequestsOK'
  <2>1. \A q \in Slots : req[q].at = "removeRow" => req[q].sub \in Subs
    BY DEF Structure, RequestsOK, Carries, Removing
  <2> QED
    BY <1>1, <1>2, <2>1 DEF Structure, RequestsOK
<1> QED
  BY <1>1, <1>2, <1>3 DEF Structure, TypeOK, RowsOK, Passwords, LocksOK, KeepsIdentity, MethodsOf, Known

LEMMA StructureInit == Init => Structure
<1> SUFFICES ASSUME Init
             PROVE  Structure
  OBVIOUS
<1>0. PICK u \in Accounts, g \in GoogleSubs, n \in NativeSubs :
          /\ Known = {u}
          /\ \E methods \in {{Identity(u, "GOOGLE", g, Nobody)},
                             {Identity(u, "PASSWORD", n, users[u])},
                             {Identity(u, "GOOGLE", g, Nobody), Identity(u, "PASSWORD", n, users[u])}} :
                /\ identities = methods
                /\ pool = [s \in Subs |-> IF \E i \in methods : i.sub = s THEN users[u] ELSE Nobody]
  BY DEF Init
<1>1. /\ Known = {u}
      /\ \/ identities = {Identity(u, "GOOGLE", g, Nobody)}
         \/ identities = {Identity(u, "PASSWORD", n, users[u])}
         \/ identities = {Identity(u, "GOOGLE", g, Nobody), Identity(u, "PASSWORD", n, users[u])}
      /\ pool = [s \in Subs |-> IF \E i \in identities : i.sub = s THEN users[u] ELSE Nobody]
  BY <1>0
<1>2. /\ users \in [Accounts -> Emails \cup {Nobody}] /\ req = [p \in Slots |-> Idle] /\ disturbed = FALSE
      /\ g \in Subs /\ n \in Subs /\ g \notin NativeSubs /\ n \in NativeSubs /\ g # n
      /\ u \in Known /\ users[u] # Nobody /\ users[u] \in Emails
  BY <1>1, Sets DEF Init, Known
<1>3. ASSUME NEW i \in identities
      PROVE  /\ i \in [user : Known, provider : {"GOOGLE", "PASSWORD"}, sub : Subs,
                       email : Emails \cup {Nobody}]
             /\ i.user = u
             /\ \/ i = Identity(u, "GOOGLE", g, Nobody) /\ i.provider = "GOOGLE" /\ i.sub = g
                \/ /\ i = Identity(u, "PASSWORD", n, users[u])
                   /\ i.provider = "PASSWORD" /\ i.sub = n /\ i.email = users[u]
  BY <1>1, <1>2 DEF Identity
<1>4. identities # {}
  BY <1>1
<1>5. pool \in [Subs -> Emails \cup {Nobody, Gone}]
  BY <1>1, <1>2
<1>6. TypeOK
  <2>1. req \in [Slots -> ReqType]
    BY <1>2, IdleReq
  <2>2. \A i, j \in identities : i.sub = j.sub => i = j
    BY <1>2, <1>3
  <2> QED
    BY <1>2, <1>3, <1>5, <2>1, <2>2 DEF TypeOK, ReqType
<1>7. RowsOK
  BY <1>2, <1>3 DEF RowsOK, Passwords
<1>8. LocksOK /\ RequestsOK
  BY <1>2, IdleReq, Sets DEF LocksOK, RequestsOK, Removing
<1>9. KeepsIdentity
  BY <1>1, <1>3, <1>4 DEF KeepsIdentity, MethodsOf
<1> QED
  BY <1>2, <1>6, <1>7, <1>8, <1>9 DEF Structure

LEMMA Steps ==
    [Next]_vars =>
        \/ \E g \in GoogleSubs, email \in Emails : FederatedSignIn(g, email)
        \/ \E p \in Slots : Starts(p) \/ Continues(p) \/ Writes(p)
        \/ UNCHANGED vars
BY DEF Next, Starts, Continues, Writes

LEMMA StructureNext == Structure /\ [Next]_vars => Structure'
<1> SUFFICES ASSUME Structure, [Next]_vars
             PROVE  Structure'
  OBVIOUS
<1>1. ASSUME NEW p \in Slots, Starts(p)
      PROVE  Structure'
  BY <1>1, StartsBegin, StructureStarts
<1>2. CASE UNCHANGED vars
  BY <1>2 DEF vars, Structure, TypeOK, RowsOK, Passwords, LocksOK, RequestsOK, KeepsIdentity,
     MethodsOf, Known
<1> QED
  BY <1>1, <1>2, Steps, StructureSignIn, StructureContinues, StructureWrites

-----------------------------------------------------------------------------
(* The stores agree.                                                       *)

\* The Cognito user an email change is about.
Changing(r) == IF r.at \in Moving \cup Moved THEN r.sub ELSE Nobody

\* A step of one request that leaves the database alone.
LEMMA AgreementStep ==
    ASSUME Structure, Agreement, NEW p \in Slots, NEW r \in ReqType, req' = [req EXCEPT ![p] = r],
           SameDatabase,
           NEW s, s = Changing(req[p]),
           \A n \in Subs : n = s \/ pool'[n] = pool[n] \/ pool'[n] = Gone \/ pool[n] = Nobody,
           \A n \in Subs : req[p].at = "eraseUsers" /\ n \in req[p].subs =>
               pool'[n] = Gone \/ (r.at = "eraseUsers" /\ n \in r.subs),
           s # Nobody => \/ r.at \in Moved /\ r.user = req[p].user /\ r.sub = s
                         \/ pool'[s] \in {users[req[p].user], Gone}
                         \/ req[p].at \in Moving /\ pool'[s] = pool[s],
           SetsEmail(r) => Knows(r) /\ \A q \in Slots \ {p} : req[q].user # r.user,
           \A q \in Slots \ {p} : SetsEmail(req[q]) => req[q].user # r.user,
           r.at \in {"createAccount", "attach"} => pool'[r.sub] \in {r.new, Gone},
           r.at \in Moved /\ r.sub # Nobody => pool'[r.sub] \in {r.new, Gone} \/ Erasing(r.sub),
           PurgesAll(r)
    PROVE  Agreement'
<1>1. TypeOK /\ RowsOK /\ RequestsOK
  BY DEF Structure
<1>2. \A q \in Slots : req'[q] = IF q = p THEN r ELSE req[q]
  BY <1>1 DEF TypeOK
<1>3. \A n \in Subs : Erasing(n) => Erasing(n)' \/ pool'[n] = Gone
  BY <1>2 DEF Erasing
<1>4. \A u : MethodsOf(u)' = MethodsOf(u) /\ PasswordOf(u)' = PasswordOf(u)
  BY DEF MethodsOf, PasswordOf, SameDatabase
<1>5. Alone'
  BY <1>2, <1>4 DEF Agreement, Alone, Knows, SameDatabase
<1>6. s # Nobody => /\ Identity(req[p].user, "PASSWORD", s, req[p].old) \in identities
                    /\ users[req[p].user] = req[p].old
                    /\ \A q \in Slots \ {p} : req[q].user # req[p].user
  BY DEF Agreement, Alone, Knows, SetsEmail, Changing, Moving, Moved
<1>7. s # Nobody => /\ Attached(s)
                    /\ \A i \in identities : i.sub = s => i.user = req[p].user
  BY <1>1, <1>6, IdentityFields DEF Attached, TypeOK
<1>8. ASSUME NEW q \in Slots
      PROVE  (Fresh(req[q]) /\ HasMoved(req[q]) /\ PurgesAll(req[q]))'
  <2>1. CASE q = p
    <3>1. req'[q] = r
      BY <1>2, <2>1
    <3>2. r.at \in {"createAccount", "attach"} /\ r.sub \in NativeSubs =>
              pool'[r.sub] \in {r.new, Gone} \/ Attached(r.sub)' \/ Erasing(r.sub)'
      OBVIOUS
    <3>3. r.at \in Moved /\ r.sub # Nobody => r.sub \in Subs
      BY DEF ReqType
    <3>4. r.at \in Moved /\ r.sub # Nobody => pool'[r.sub] \in {r.new, Gone} \/ Erasing(r.sub)'
      BY <1>3, <3>3
    <3>5. r.at = "purge" => \A i \in PasswordOf(r.user)' : i.sub \in r.subs
      BY <1>4 DEF PurgesAll
    <3> QED
      BY <3>1, <3>2, <3>4, <3>5 DEF Fresh, HasMoved, PurgesAll, Attached, Erasing, PasswordOf, MethodsOf
  <2>2. CASE q # p
    <3>1. req'[q] = req[q] /\ Fresh(req[q]) /\ HasMoved(req[q]) /\ PurgesAll(req[q])
      BY <1>2, <2>2 DEF Agreement
    <3>2. Carries(req[q])
      BY <1>1 DEF RequestsOK
    <3>3. Fresh(req[q])'
      <4>0. PICK n : n = req[q].sub
        OBVIOUS
      <4> SUFFICES ASSUME req[q].at \in {"createAccount", "attach"}, n \in NativeSubs
                   PROVE  pool'[n] \in {req[q].new, Gone} \/ Attached(n)' \/ Erasing(n)'
        BY <3>1, <4>0 DEF Fresh, Attached, Erasing
      <4>1. n \in Subs /\ n # Nobody /\ req[q].new \in Emails /\ req[q].new # Nobody
        BY <3>2, <4>0, Sets DEF Carries, SetsEmail
      <4>2. Attached(n) => Attached(n)'
        BY DEF Attached, SameDatabase
      <4>3. pool[n] \in {req[q].new, Gone} \/ Attached(n) \/ Erasing(n)
        BY <3>1, <4>0 DEF Fresh
      <4>4. CASE n = s
        BY <1>7, <4>1, <4>2, <4>4
      <4>5. CASE n # s
        BY <1>3, <4>1, <4>2, <4>3, <4>5, Sets
      <4> QED
        BY <4>4, <4>5
    <3>4. HasMoved(req[q])'
      <4>0. PICK n : n = req[q].sub
        OBVIOUS
      <4> SUFFICES ASSUME req[q].at \in Moved, n # Nobody
                   PROVE  pool'[n] \in {req[q].new, Gone} \/ Erasing(n)'
        BY <3>1, <4>0 DEF HasMoved, Erasing
      <4>1. n \in Subs /\ req[q].new \in Emails /\ req[q].new # Nobody
        BY <3>2, <4>0, Sets DEF Carries, SetsEmail, Moved
      <4>2. n # s
        <5>1. Identity(req[q].user, "PASSWORD", n, req[q].old) \in identities
          BY <4>0 DEF Agreement, Alone, Knows, SetsEmail, Moved
        <5> QED
          BY <1>6, <1>7, <2>2, <5>1, IdentityFields
      <4>3. pool[n] \in {req[q].new, Gone} \/ Erasing(n)
        BY <3>1, <4>0 DEF HasMoved
      <4> QED
        BY <1>3, <4>1, <4>2, <4>3, Sets
    <3>5. PurgesAll(req[q])'
      BY <1>4, <3>1 DEF PurgesAll, PasswordOf, MethodsOf, SameDatabase
    <3> QED
      BY <3>3, <3>4, <3>5
  <2> QED
    BY <2>1, <2>2
<1>9. Agree'
  <2> SUFFICES ASSUME NEW i \in Passwords
               PROVE  /\ i.email = users[i.user]
                      /\ \/ pool'[i.sub] \in {users[i.user], Gone}
                         \/ Erasing(i.sub)'
                         \/ \E q \in Slots : /\ req'[q].at \in Moved /\ req'[q].user = i.user
                                             /\ req'[q].sub = i.sub
    BY DEF Agree, Passwords, SameDatabase, Erasing
  <2>1. /\ i.email = users[i.user]
        /\ \/ pool[i.sub] \in {users[i.user], Gone}
           \/ Erasing(i.sub)
           \/ \E q \in Slots : req[q].at \in Moved /\ req[q].user = i.user /\ req[q].sub = i.sub
    BY DEF Agreement, Agree
  <2>2. i \in identities /\ i.sub \in Subs /\ i.sub # Nobody /\ i.user \in Known /\ users[i.user] # Nobody
    BY <1>1, RowFields, Sets DEF Passwords, Known
  <2>3. CASE i.sub = s
    BY <1>2, <1>3, <1>7, <2>1, <2>2, <2>3, Sets DEF Moving, Moved
  <2>4. CASE i.sub # s
    BY <1>2, <1>3, <2>1, <2>2, <2>4, Sets DEF Changing
  <2> QED
    BY <2>1, <2>3, <2>4
<1> QED
  BY <1>5, <1>8, <1>9 DEF Agreement

\* What a step of p may do to the Cognito users, and what must go on to account for it.
Spares(p) ==
    LET s == Changing(req[p])
    IN  /\ \A n \in Subs : n = s \/ pool'[n] = pool[n] \/ pool'[n] = Gone \/ pool[n] = Nobody
        /\ s # Nobody => \/ pool'[s] \in {users[req[p].user], Gone}
                         \/ req[p].at \in Moving /\ pool'[s] = pool[s]

LEMMA AgreementDone ==
    ASSUME Structure, Agreement, NEW p \in Slots, Done(p), SameDatabase, Spares(p),
           req[p].at = "eraseUsers" => \A n \in req[p].subs : pool'[n] = Gone
    PROVE  Agreement'
<1>1. /\ Idle \in ReqType /\ ~ SetsEmail(Idle) /\ Idle.at = "idle" /\ Idle.user = Nobody
      /\ req' = [req EXCEPT ![p] = Idle]
  BY IdleReq DEF Done
<1>2. \A q \in Slots : SetsEmail(req[q]) => req[q].user # Nobody
  BY Sets DEF Structure, RequestsOK, Carries
<1>3. PurgesAll(Idle) /\ Idle.at \notin Moved /\ Idle.at \notin {"createAccount", "attach"}
  BY <1>1 DEF PurgesAll, Moved
<1>4. PICK s : s = Changing(req[p])
  OBVIOUS
<1>5. /\ \A n \in Subs : n = s \/ pool'[n] = pool[n] \/ pool'[n] = Gone \/ pool[n] = Nobody
      /\ s # Nobody => \/ pool'[s] \in {users[req[p].user], Gone}
                       \/ req[p].at \in Moving /\ pool'[s] = pool[s]
  BY <1>4 DEF Spares
<1> QED
  BY <1>1, <1>2, <1>3, <1>4, <1>5, AgreementStep

\* A request that goes on to a label that it needs to know nothing more for.
LEMMA AgreementGoto ==
    ASSUME Structure, Agreement, NEW p \in Slots, NEW label \in Labels, Goto(p, label), SameDatabase,
           label \in {"discardUser", "findWinner", "findAttached"} \cup Removing \cup Moving,
           label \in Moving => req[p].at \in Moving,
           req[p].at \notin {"eraseUsers"} \cup Moved, Spares(p)
    PROVE  Agreement'
<1> DEFINE r == [req[p] EXCEPT !.at = label]
<1>1. TypeOK /\ RequestsOK
  BY DEF Structure
<1>2. /\ r \in ReqType /\ r.at = label /\ r.user = req[p].user /\ r.sub = req[p].sub
      /\ r.old = req[p].old
  BY <1>1, ReqFields, GotoReq
<1>3. req' = [req EXCEPT ![p] = r]
  BY DEF Goto
<1> HIDE DEF r
<1>4. SetsEmail(r) => SetsEmail(req[p]) /\ label \in Moving
  BY <1>2 DEF SetsEmail, Moving, Removing
<1>5. SetsEmail(r) => Knows(r) /\ \A q \in Slots \ {p} : req[q].user # r.user
  BY <1>2, <1>4 DEF Agreement, Alone, Knows, Moving, Moved
<1>6. \A q \in Slots \ {p} : SetsEmail(req[q]) => req[q].user # r.user
  BY <1>2 DEF Agreement, Alone
<1>7. PurgesAll(r) /\ r.at \notin Moved /\ r.at \notin {"createAccount", "attach"}
  BY <1>2 DEF PurgesAll, Moving, Moved, Removing
<1>8. PICK s : s = Changing(req[p])
  OBVIOUS
<1>9. /\ \A n \in Subs : n = s \/ pool'[n] = pool[n] \/ pool'[n] = Gone \/ pool[n] = Nobody
      /\ s # Nobody => \/ pool'[s] \in {users[req[p].user], Gone}
                       \/ req[p].at \in Moving /\ pool'[s] = pool[s]
  BY <1>8 DEF Spares
<1>10. req[p].at # "eraseUsers"
  OBVIOUS
<1> QED
  BY <1>2, <1>3, <1>5, <1>6, <1>7, <1>8, <1>9, <1>10, AgreementStep

\* An email change goes on, with the Cognito user moved.
LEMMA AgreementMoved ==
    ASSUME Structure, Agreement, NEW p \in Slots, NEW label \in Moved, Goto(p, label), SameDatabase,
           req[p].at \in Moving \cup Moved, NEW s \in Subs, s = req[p].sub,
           \A n \in Subs \ {s} : pool'[n] = pool[n],
           pool'[s] \in {req[p].new, Gone} \/ Erasing(s)
    PROVE  Agreement'
<1> DEFINE r == [req[p] EXCEPT !.at = label]
<1>1. TypeOK /\ RequestsOK /\ label \in Labels
  BY DEF Structure, Moved, Labels
<1>2. /\ r \in ReqType /\ r.at = label /\ r.user = req[p].user /\ r.sub = s
      /\ r.old = req[p].old /\ r.new = req[p].new
  BY <1>1, ReqFields, GotoReq
<1>3. req' = [req EXCEPT ![p] = r]
  BY DEF Goto
<1> HIDE DEF r
<1>4. s # Nobody /\ s = Changing(req[p])
  BY Sets DEF Changing
<1>5. SetsEmail(req[p]) /\ r.at \notin {"createAccount", "attach", "createNative", "purge"}
  BY <1>2 DEF SetsEmail, Moving, Moved
<1>6. Knows(r) /\ \A q \in Slots \ {p} : req[q].user # r.user
  BY <1>2, <1>4, <1>5 DEF Agreement, Alone, Knows
<1>7. PurgesAll(r) /\ req[p].at # "eraseUsers"
  BY <1>5 DEF PurgesAll, Moving, Moved
<1>8. r.at \in Moved /\ r.user = req[p].user /\ r.sub = s
  BY <1>2
<1>9. pool'[r.sub] \in {r.new, Gone} \/ Erasing(r.sub)
  BY <1>2
<1> QED
  BY <1>2, <1>3, <1>4, <1>5, <1>6, <1>7, <1>8, <1>9, AgreementStep

LEMMA AgreementSaveFails ==
    ASSUME Structure, Agreement, NEW p \in Slots, Goto(p, "revertEmail"), SameDatabase, UNCHANGED pool,
           req[p].at = "saveEmail", req[p].sub # Nobody
    PROVE  Agreement'
<1>1. PICK s : s = req[p].sub
  OBVIOUS
<1>2. s \in Subs
  BY <1>1, ReqFields DEF Structure
<1>3. pool'[s] \in {req[p].new, Gone} \/ Erasing(s)
  BY <1>1 DEF Agreement, HasMoved, Moved
<1>4. "revertEmail" \in Moved /\ req[p].at \in Moved
  BY DEF Moved
<1> QED
  BY <1>1, <1>2, <1>3, <1>4, AgreementMoved

LEMMA AgreementStarts ==
    ASSUME Structure, Agreement, NEW p \in Slots, NEW r \in ReqType, Begin(p, r), Begins(r),
           ~ disturbed'
    PROVE  Agreement'
<1>1. TypeOK /\ RowsOK
  BY DEF Structure
<1>2. /\ req[p] = Idle /\ req' = [req EXCEPT ![p] = r] /\ SameDatabase /\ pool' = pool
      /\ \A q \in Slots : ~ Overlap(r, req[q])
  BY DEF Begin, SameDatabase
<1>3. req[p].at = "idle"
  BY <1>2, IdleReq
<1>4. \A q \in Slots : SetsEmail(r) \/ SetsEmail(req[q]) => req[q].user # r.user
  BY <1>2 DEF Overlap
<1>5. Knows(r)
  <2>1. CASE r.at = "moveEmail"
    <3>1. PICK i \in PasswordOf(r.user) : r.sub = i.sub /\ r.old = i.email
      BY <2>1 DEF Begins
    <3>2. i \in Passwords /\ i \in identities /\ i.user = r.user /\ i.provider = "PASSWORD"
      BY <3>1 DEF PasswordOf, MethodsOf, Passwords
    <3>3. i \in [user : Known, provider : {"GOOGLE", "PASSWORD"}, sub : Subs, email : Emails \cup {Nobody}]
      BY <1>1, <3>2 DEF TypeOK
    <3>4. Identity(r.user, "PASSWORD", r.sub, r.old) = i
      BY <3>1, <3>2, <3>3 DEF Identity
    <3>5. users[r.user] = r.old
      BY <3>1, <3>2 DEF Agreement, Agree
    <3> HIDE DEF Identity
    <3> QED
      BY <2>1, <3>2, <3>4, <3>5 DEF Knows
  <2>2. CASE r.at # "moveEmail"
    BY <2>2 DEF Begins, Knows, Moving, Moved
  <2> QED
    BY <2>1, <2>2
<1>6. PurgesAll(r)
  BY DEF Begins, PurgesAll, PasswordOf
<1>7. /\ r.at \in {"createAccount", "attach"} => pool'[r.sub] \in {r.new, Gone}
      /\ r.at \in Moved => r.sub = Nobody
  BY <1>2 DEF Begins, Moved
<1>8. Nobody = Changing(req[p])
  BY <1>3 DEF Changing, Moving, Moved
<1>9. req[p].at # "eraseUsers"
  BY <1>3
<1> QED
  BY <1>2, <1>4, <1>5, <1>6, <1>7, <1>8, <1>9, AgreementStep

\* Google's Cognito users are no passwords.
LEMMA AgreementSignIn ==
    ASSUME Structure, Agreement, NEW g \in GoogleSubs, NEW email \in Emails, FederatedSignIn(g, email)
    PROVE  Agreement'
<1>1. /\ UNCHANGED <<users, identities, req, disturbed>> /\ pool' = [pool EXCEPT ![g] = email]
  BY DEF FederatedSignIn, SameHistory
<1>2. \A n \in NativeSubs : pool'[n] = pool[n]
  BY <1>1, Sets DEF Structure, TypeOK
<1>3. Alone' /\ \A p \in Slots : PurgesAll(req[p])'
  BY <1>1 DEF Agreement, Alone, Knows, PurgesAll, PasswordOf, MethodsOf
<1>4. \A p \in Slots : Fresh(req[p])'
  BY <1>1, <1>2 DEF Agreement, Fresh, Attached, Erasing
<1>5. \A p \in Slots : HasMoved(req[p])'
  <2>1. \A p \in Slots : req[p].at \in Moved /\ req[p].sub # Nobody => req[p].sub \in NativeSubs
    BY DEF Structure, RequestsOK, Carries
  <2> QED
    BY <1>1, <1>2, <2>1 DEF Agreement, HasMoved, Erasing
<1>6. Agree'
  <2>1. \A i \in Passwords : i.sub \in NativeSubs
    BY DEF Structure, RowsOK, Passwords
  <2> QED
    BY <1>1, <1>2, <2>1 DEF Agreement, Agree, Passwords, Erasing
<1> QED
  BY <1>3, <1>4, <1>5, <1>6 DEF Agreement

LEMMA AgreementContinues ==
    ASSUME Structure, Agreement, NEW p \in Slots, Continues(p), ~ disturbed'
    PROVE  Agreement'
<1>1. TypeOK /\ RequestsOK
  BY DEF Structure
<1>2. /\ Carries(req[p])
      /\ Labels = {"idle", "createAccount", "findWinner", "discardUser", "createSignup",
                   "createNative", "attach", "findAttached", "moveEmail", "findLeftover",
                   "dropLeftover", "moveAgain", "saveEmail", "revertEmail", "connect",
                   "lockUser", "removeUser", "removeRow", "purge", "eraseUsers"}
      /\ {"discardUser", "removeUser", "removeRow", "findLeftover", "dropLeftover", "moveAgain"}
            \subseteq {"discardUser", "findWinner", "findAttached"} \cup Removing \cup Moving
      /\ {"discardUser", "removeUser", "removeRow"} \cap Moving = {}
  BY <1>1 DEF RequestsOK, Labels, Removing, Moving
<1>3. UNCHANGED pool => Spares(p) \/ req[p].at \in Moved
  BY DEF Spares, Changing, Moved
<1>4. ASSUME NEW n, pool' = [pool EXCEPT ![n] = Gone], req[p].at \notin Moving \cup Moved
      PROVE  Spares(p)
  BY <1>1, <1>4, PoolGone DEF Spares, Changing
<1>5. CASE FindWinner(p) \/ FindAttached(p)
  <2>1. /\ SameDatabase /\ UNCHANGED pool /\ req[p].at \in {"findWinner", "findAttached"}
        /\ Done(p) \/ Goto(p, "discardUser")
    BY <1>5 DEF FindWinner, FindAttached, SameStores, SameDatabase, At
  <2>2. req[p].at \notin {"eraseUsers"} \cup Moved
    BY <2>1 DEF Moved
  <2> QED
    BY <1>2, <1>3, <2>1, <2>2, AgreementDone, AgreementGoto
<1>6. CASE DiscardUser(p)
  <2>1. /\ SameDatabase /\ pool' = [pool EXCEPT ![req[p].sub] = Gone] /\ Done(p)
        /\ req[p].at = "discardUser"
    BY <1>6 DEF DiscardUser, At
  <2> QED
    BY <1>4, <2>1, AgreementDone DEF Moving, Moved
<1>7. CASE CreateNative(p)
  <2>1. /\ SameDatabase /\ req[p].at \in {"createNative", "createSignup"} /\ req[p].new \in Emails
    BY <1>2, <1>7 DEF CreateNative, At, Carries, SetsEmail
  <2>2. Changing(req[p]) = Nobody /\ req[p].at # "eraseUsers"
    BY <2>1 DEF Changing, Moving, Moved
  <2>3. PICK n \in NativeSubs :
            /\ \/ pool[n] = Nobody /\ pool' = [pool EXCEPT ![n] = req[p].new]
               \/ pool[n] = req[p].new /\ UNCHANGED pool
            /\ \/ Done(p)
               \/ /\ req[p].at = "createNative"
                  /\ req' = [req EXCEPT ![p] = [req[p] EXCEPT !.at = "attach", !.sub = n]]
    <3>1. At(p, "createSignup") \/ req[p].at = "createNative"
      BY <2>1 DEF At
    <3>2. ~ (At(p, "createSignup") /\ req[p].at = "createNative")
      BY DEF At
    <3> QED
      BY <1>7, <3>1, <3>2 DEF CreateNative, Holder, Done
  <2>4. /\ n \in Subs /\ pool'[n] = req[p].new
        /\ \A m \in Subs : pool'[m] = pool[m] \/ pool[m] = Nobody
    BY <1>1, <2>3, Sets DEF TypeOK
  <2>5. CASE Done(p)
    BY <2>1, <2>2, <2>4, <2>5, AgreementDone DEF Spares
  <2>6. CASE /\ req[p].at = "createNative"
             /\ req' = [req EXCEPT ![p] = [req[p] EXCEPT !.at = "attach", !.sub = n]]
    <3> DEFINE r == [req[p] EXCEPT !.at = "attach", !.sub = n]
    <3>1. req[p] \in ReqType /\ "attach" \in Labels
      BY <1>1, <1>2, ReqFields
    <3>2. /\ r \in ReqType /\ r.at = "attach" /\ r.sub = n /\ r.user = req[p].user
          /\ r.old = req[p].old /\ r.new = req[p].new
      BY <2>4, <3>1 DEF ReqType
    <3>3. req' = [req EXCEPT ![p] = r]
      BY <2>6
    <3> HIDE DEF r
    <3>4. SetsEmail(req[p])
      BY <2>6 DEF SetsEmail
    <3>5. Knows(r) /\ \A q \in Slots \ {p} : req[q].user # r.user
      BY <2>6, <3>2, <3>4 DEF Agreement, Alone, Knows, Moving, Moved
    <3>6. pool'[r.sub] = r.new /\ r.at \notin Moved /\ PurgesAll(r)
      BY <2>4, <3>2 DEF Moved, PurgesAll
    <3>7. Nobody = Changing(req[p])
      BY <2>2
    <3> QED
      BY <2>1, <2>2, <2>4, <3>2, <3>3, <3>5, <3>6, <3>7, AgreementStep
  <2> QED
    BY <2>3, <2>5, <2>6
<1>8. CASE MoveEmail(p) \/ MoveAgain(p)
  <2>1. SameDatabase /\ req[p].at \in {"moveEmail", "moveAgain"}
    BY <1>8 DEF MoveEmail, MoveAgain, At
  <2>2. /\ req[p].old \in Emails /\ req[p].new \in Emails /\ req[p].at \in Moving
        /\ req[p].at \notin {"eraseUsers"} \cup Moved
    BY <1>2, <2>1 DEF Carries, SetsEmail, Moving, Moved
  <2>3. CASE Moves(req[p].sub, req[p].old, req[p].new) /\ Goto(p, "saveEmail")
    <3>1. PICK s : s = req[p].sub
      OBVIOUS
    <3>2. s \in Subs /\ pool'[s] = req[p].new /\ \A n \in Subs \ {s} : pool'[n] = pool[n]
      BY <1>1, <2>2, <2>3, <3>1, PoolMoved, Sets
    <3>3. "saveEmail" \in Moved
      BY DEF Moved
    <3> QED
      BY <2>1, <2>2, <2>3, <3>1, <3>2, <3>3, AgreementMoved
  <2>4. CASE UNCHANGED pool /\ (Done(p) \/ Goto(p, "findLeftover"))
    <3>1. Spares(p)
      BY <1>3, <2>2, <2>4
    <3> QED
      BY <1>2, <2>1, <2>2, <2>4, <3>1, AgreementDone, AgreementGoto
  <2> QED
    BY <1>8, <2>3, <2>4 DEF MoveEmail, MoveAgain, CannotMove
<1>9. CASE FindLeftover(p)
  <2>1. /\ SameDatabase /\ UNCHANGED pool /\ req[p].at = "findLeftover"
        /\ Done(p) \/ Goto(p, "dropLeftover")
    BY <1>9 DEF FindLeftover, SameStores, SameDatabase, At
  <2>2. req[p].at \notin {"eraseUsers"} \cup Moved /\ req[p].at \in Moving
    BY <2>1 DEF Moving, Moved
  <2> QED
    BY <1>2, <1>3, <2>1, <2>2, AgreementDone, AgreementGoto
<1>10. CASE DropLeftover(p)
  <2>1. /\ SameDatabase /\ req[p].at = "dropLeftover" /\ Goto(p, "moveAgain")
        /\ \A n \in Subs : pool'[n] = pool[n] \/ pool'[n] = Gone
    BY <1>10 DEF DropLeftover, At
  <2>2. req[p].at \notin {"eraseUsers"} \cup Moved /\ req[p].at \in Moving
    BY <2>1 DEF Moving, Moved
  <2>3. Changing(req[p]) # Nobody => Changing(req[p]) \in Subs
    BY <1>1, ReqFields DEF Changing
  <2>4. Spares(p)
    BY <2>1, <2>2, <2>3 DEF Spares
  <2> QED
    BY <1>2, <2>1, <2>2, <2>4, AgreementGoto
<1>11. CASE RevertEmail(p)
  <2>1. SameDatabase /\ Done(p) /\ req[p].at = "revertEmail" /\ Moves(req[p].sub, req[p].new, req[p].old)
    BY <1>11 DEF RevertEmail, At
  <2>2. req[p].old \in Emails /\ req[p].new \in Emails /\ req[p].sub \in Subs /\ req[p].sub # Nobody
    BY <1>2, <2>1, Sets DEF Carries, SetsEmail, Moving, Moved
  <2>0. PICK s : s = req[p].sub
    OBVIOUS
  <2>3. pool'[s] = req[p].old /\ \A n \in Subs \ {s} : pool'[n] = pool[n]
    <3>1. PICK new \in Emails, old \in Emails : new = req[p].new /\ old = req[p].old
      BY <2>2
    <3>2. Moves(s, new, old)
      BY <2>0, <2>1, <3>1
    <3> QED
      BY <1>1, <3>1, <3>2, PoolMoved
  <2>4. users[req[p].user] = req[p].old /\ Changing(req[p]) = s
    BY <2>0, <2>1, <2>2 DEF Agreement, Alone, Knows, Changing, SetsEmail, Moved
  <2>5. Spares(p)
    BY <2>3, <2>4 DEF Spares
  <2> QED
    BY <2>1, <2>5, AgreementDone
<1>12. CASE LockUser(p)
  <2>1. /\ SameDatabase /\ UNCHANGED pool /\ req[p].at = "lockUser"
        /\ Done(p) \/ Goto(p, "removeUser")
    BY <1>12 DEF LockUser, SameStores, SameDatabase, At
  <2>2. req[p].at \notin {"eraseUsers"} \cup Moved
    BY <2>1 DEF Moved
  <2> QED
    BY <1>2, <1>3, <2>1, <2>2, AgreementDone, AgreementGoto
<1>13. CASE RemoveUser(p)
  <2>1. /\ SameDatabase /\ pool' = [pool EXCEPT ![req[p].sub] = Gone] /\ req[p].at = "removeUser"
        /\ Goto(p, "removeRow")
    BY <1>13 DEF RemoveUser, At
  <2>2. req[p].at \notin {"eraseUsers"} \cup Moved /\ req[p].at \notin Moving
    BY <2>1 DEF Moving, Moved
  <2> QED
    BY <1>2, <1>4, <2>1, <2>2, AgreementGoto
<1>14. CASE EraseUser(p)
  <2>1. PICK n \in req[p].subs :
            /\ pool' = [pool EXCEPT ![n] = Gone]
            /\ \/ req[p].subs = {n} /\ Done(p)
               \/ req' = [req EXCEPT ![p].subs = req[p].subs \ {n}]
    BY <1>14 DEF EraseUser
  <2>2. SameDatabase /\ req[p].at = "eraseUsers" /\ req[p] \in ReqType
    BY <1>1, <1>14, ReqFields DEF EraseUser, At
  <2>3. /\ Spares(p) /\ Changing(req[p]) = Nobody /\ n \in Subs /\ pool'[n] = Gone
        /\ \A m \in Subs : pool'[m] = pool[m] \/ pool'[m] = Gone
    BY <1>1, <1>4, <2>1, <2>2, PoolGone DEF Changing, Moving, Moved, ReqType
  <2>4. CASE req[p].subs = {n} /\ Done(p)
    BY <2>2, <2>3, <2>4, AgreementDone
  <2>5. CASE req' = [req EXCEPT ![p].subs = req[p].subs \ {n}]
    <3> DEFINE r == [req[p] EXCEPT !.subs = req[p].subs \ {n}]
    <3>1. /\ r \in ReqType /\ r.at = "eraseUsers" /\ r.user = req[p].user
          /\ r.subs = req[p].subs \ {n}
      BY <2>2 DEF ReqType
    <3>2. req' = [req EXCEPT ![p] = r]
      BY <2>5
    <3> HIDE DEF r
    <3>3. ~ SetsEmail(r) /\ PurgesAll(r) /\ r.at \notin {"createAccount", "attach"} \cup Moved
      BY <3>1 DEF SetsEmail, PurgesAll, Moved
    <3>4. \A q \in Slots \ {p} : SetsEmail(req[q]) => req[q].user # r.user
      BY <3>1 DEF Agreement, Alone
    <3>5. Nobody = Changing(req[p])
      BY <2>3
    <3> QED
      BY <2>2, <2>3, <3>1, <3>2, <3>3, <3>4, <3>5, AgreementStep
  <2> QED
    BY <2>1, <2>4, <2>5
<1>15. CASE Die(p)
  <2>1. SameDatabase /\ UNCHANGED pool /\ Done(p) /\ ~ SetsEmail(req[p]) /\ req[p].at # "eraseUsers"
    BY <1>15 DEF Die, SameStores, SameDatabase, At
  <2>2. req[p].at \notin Moved
    BY <2>1 DEF SetsEmail, Moved
  <2> QED
    BY <1>3, <2>1, <2>2, AgreementDone
<1>16. CASE FailToSave(p)
  <2>1. /\ SameDatabase /\ UNCHANGED pool /\ Goto(p, "revertEmail") /\ req[p].at = "saveEmail"
        /\ req[p].sub # Nobody
    BY <1>16 DEF FailToSave, SameStores, SameDatabase, At
  <2> QED
    BY <2>1, AgreementSaveFails
<1> QED
  BY <1>5, <1>6, <1>7, <1>8, <1>9, <1>10, <1>11, <1>12, <1>13, <1>14, <1>15, <1>16 DEF Continues

\* A step of one request that writes to the database, and goes on as r or ends.
LEMMA AgreementWrite ==
    ASSUME Structure, Agreement, NEW p \in Slots, NEW r, req' = [req EXCEPT ![p] = r], UNCHANGED pool,
           req[p].at # "eraseUsers", ~ SetsEmail(r), r.at \notin {"createAccount", "purge"},
           r.user \in {req[p].user, Nobody},
           \A q \in Slots \ {p} : SetsEmail(req[q]) => Knows(req[q])',
           \A n \in NativeSubs : Attached(n) => Attached(n)' \/ pool[n] = Gone \/ Erasing(n)',
           \A q \in Slots \ {p} : PurgesAll(req[q])',
           Agree'
    PROVE  Agreement'
<1>1. TypeOK /\ RequestsOK
  BY DEF Structure
<1>2. \A q \in Slots : req'[q] = IF q = p THEN r ELSE req[q]
  BY <1>1 DEF TypeOK
<1>3. \A n : Erasing(n) => Erasing(n)'
  BY <1>2 DEF Erasing
<1>4. ASSUME NEW q \in Slots
      PROVE  /\ SetsEmail(req[q])' =>
                    Knows(req[q])' /\ \A o \in Slots \ {q} : req'[o].user # req'[q].user
             /\ (Fresh(req[q]) /\ HasMoved(req[q]) /\ PurgesAll(req[q]))'
  <2>1. CASE q = p
    <3>1. req'[q] = r
      BY <1>2, <2>1
    <3> QED
      BY <3>1 DEF SetsEmail, Fresh, HasMoved, PurgesAll, Moved
  <2>2. CASE q # p
    <3>1. /\ req'[q] = req[q] /\ Fresh(req[q]) /\ HasMoved(req[q])
          /\ SetsEmail(req[q]) => \A o \in Slots \ {q} : req[o].user # req[q].user
      BY <1>2, <2>2 DEF Agreement, Alone
    <3>2. SetsEmail(req[q]) => req[q].user # Nobody
      BY <1>1, Sets DEF RequestsOK, Carries
    <3>3. SetsEmail(req[q]) => \A o \in Slots \ {q} : req'[o].user # req[q].user
      BY <1>2, <2>2, <3>1, <3>2
    <3>4. SetsEmail(req[q])' => SetsEmail(req[q])
      BY <3>1 DEF SetsEmail
    <3>5. Fresh(req[q])'
      BY <1>3, <3>1 DEF Fresh, Attached, Erasing
    <3>6. HasMoved(req[q])'
      BY <1>3, <3>1 DEF HasMoved, Erasing
    <3> QED
      BY <2>2, <3>1, <3>3, <3>4, <3>5, <3>6
  <2> QED
    BY <2>1, <2>2
<1> QED
  BY <1>4 DEF Agreement, Alone

LEMMA AgreementAdds ==
    ASSUME Structure, Agreement, NEW p \in Slots, Done(p), NEW i, NEW email, Adds(i, email),
           req[p].at \notin {"eraseUsers"} \cup Moved,
           \/ \A q \in Slots \ {p} : SetsEmail(req[q]) \/ req[q].at = "purge" => req[q].user # i.user
           \/ i.provider = "GOOGLE" /\ UNCHANGED users,
           PasswordOf(i.user) = {} \/ UNCHANGED users,
           i.provider = "PASSWORD" =>
               i.email = email /\ (pool[i.sub] \in {email, Gone} \/ Erasing(i.sub))
    PROVE  Agreement'
<1>1. TypeOK /\ RowsOK /\ RequestsOK
  BY DEF Structure
<1>2. /\ \A q \in Slots : req'[q] = IF q = p THEN Idle ELSE req[q]
      /\ req' = [req EXCEPT ![p] = Idle]
  BY DoneReqs DEF Done
<1>3. /\ identities' = identities \cup {i} /\ UNCHANGED pool /\ i.user \in Accounts
      /\ \A v \in Accounts : users'[v] = IF v = i.user THEN email ELSE users[v]
  BY <1>1 DEF Adds, TypeOK
<1>4. \A n : Erasing(n) => Erasing(n)'
  BY <1>2 DEF Erasing
<1>5. ASSUME NEW q \in Slots \ {p}, SetsEmail(req[q]) \/ req[q].at = "purge"
      PROVE  /\ req'[q] = req[q] /\ req[q].user \in Accounts /\ users'[req[q].user] = users[req[q].user]
             /\ PasswordOf(req[q].user)' = PasswordOf(req[q].user)
  <2>1. req'[q] = req[q] /\ req[q].user \in Accounts
    BY <1>1, <1>2, <1>5 DEF RequestsOK, Carries
  <2>2. CASE i.provider = "GOOGLE" /\ UNCHANGED users
    BY <1>3, <2>1, <2>2 DEF PasswordOf, MethodsOf
  <2>3. CASE req[q].user # i.user
    BY <1>3, <2>1, <2>3 DEF PasswordOf, MethodsOf
  <2> QED
    BY <1>5, <2>1, <2>2, <2>3
<1>6. ASSUME NEW q \in Slots \ {p}, SetsEmail(req[q])
      PROVE  Knows(req[q])'
  <2>1. Knows(req[q])
    BY <1>6 DEF Agreement, Alone
  <2> QED
    BY <1>3, <1>5, <1>6, <2>1 DEF Knows
<1>7. ASSUME NEW q \in Slots \ {p}
      PROVE  PurgesAll(req[q])'
  <2>1. PurgesAll(req[q]) /\ req'[q] = req[q]
    BY <1>2 DEF Agreement
  <2> QED
    BY <1>5, <2>1 DEF PurgesAll
<1>8. Agree'
  <2> SUFFICES ASSUME NEW j \in Passwords'
               PROVE  /\ j.email = users'[j.user]
                      /\ \/ pool[j.sub] \in {users'[j.user], Gone}
                         \/ Erasing(j.sub)'
                         \/ \E q \in Slots : /\ req'[q].at \in Moved /\ req'[q].user = j.user
                                             /\ req'[q].sub = j.sub
    BY <1>3 DEF Agree, Erasing
  <2>1. CASE j = i
    <3>1. i.provider = "PASSWORD" /\ users'[i.user] = email
      BY <1>3, <2>1 DEF Passwords
    <3> QED
      BY <1>4, <2>1, <3>1
  <2>2. CASE j # i
    <3>1. j \in Passwords /\ j \in identities /\ j.provider = "PASSWORD" /\ j.user \in Accounts
      BY <1>1, <1>3, <2>2, RowFields DEF Passwords
    <3>2. users'[j.user] = users[j.user]
      BY <1>3, <3>1 DEF PasswordOf, MethodsOf
    <3>3. /\ j.email = users[j.user]
          /\ \/ pool[j.sub] \in {users[j.user], Gone}
             \/ Erasing(j.sub)
             \/ \E q \in Slots : req[q].at \in Moved /\ req[q].user = j.user /\ req[q].sub = j.sub
      BY <3>1 DEF Agreement, Agree
    <3> QED
      BY <1>2, <1>4, <3>2, <3>3
  <2> QED
    BY <2>1, <2>2
<1>9. \A n \in NativeSubs : Attached(n) => Attached(n)'
  BY <1>3 DEF Attached
<1>10. ~ SetsEmail(Idle) /\ Idle.at = "idle" /\ Idle.user = Nobody
  BY IdleReq
<1> QED
  BY <1>2, <1>3, <1>6, <1>7, <1>8, <1>9, <1>10, AgreementWrite

\* An email change is saved: the Cognito user has been moved to the same address.
LEMMA AgreementSaves ==
    ASSUME Structure, Agreement, NEW p \in Slots, Done(p), req[p].at = "saveEmail",
           req[p].user \in Known, req[p].new \in Emails, UNCHANGED pool,
           users' = [users EXCEPT ![req[p].user] = req[p].new],
           identities' = {Saved(i, req[p].user, req[p].sub, req[p].new) : i \in identities}
    PROVE  Agreement'
<1> DEFINE u == req[p].user
           s == req[p].sub
           email == req[p].new
<1>0. /\ u = req[p].user /\ s = req[p].sub /\ email = req[p].new /\ u \in Known /\ email \in Emails
      /\ users' = [users EXCEPT ![u] = email]
      /\ identities' = {Saved(i, u, s, email) : i \in identities}
  OBVIOUS
<1> HIDE DEF u, s, email
<1>1. TypeOK /\ RowsOK /\ RequestsOK
  BY DEF Structure
<1>2. /\ \A q \in Slots : req'[q] = IF q = p THEN Idle ELSE req[q]
      /\ req' = [req EXCEPT ![p] = Idle]
  BY DoneReqs DEF Done
<1>3. \A v \in Accounts : users'[v] = IF v = u THEN email ELSE users[v]
  BY <1>0, <1>1 DEF TypeOK
<1>4. \A n : Erasing(n) => Erasing(n)'
  BY <1>2 DEF Erasing
<1>5. /\ \A j \in identities' : \E i \in identities : j = Saved(i, u, s, email)
      /\ \A i \in identities : Saved(i, u, s, email) \in identities'
  BY <1>0
<1>6. \A i \in identities :
          LET j == Saved(i, u, s, email)
          IN  /\ j.user = i.user /\ j.provider = i.provider /\ j.sub = i.sub
              /\ j.email = IF i \in Row(u, s) THEN email ELSE i.email
  BY <1>0, <1>1, SavedRows
<1>7. \A i \in identities : i.user # u => Saved(i, u, s, email) = i
  BY DEF Saved, Row, MethodsOf
<1>8. \A i : i.user # u => (i \in identities' <=> i \in identities)
  BY <1>5, <1>6, <1>7
<1>9. Knows(req[p]) /\ \A q \in Slots \ {p} : req[q].user # u
  BY <1>0 DEF Agreement, Alone, SetsEmail
<1>10. ASSUME NEW q \in Slots \ {p}, SetsEmail(req[q]) \/ req[q].at = "purge"
       PROVE  /\ req'[q] = req[q] /\ req[q].user \in Accounts /\ users'[req[q].user] = users[req[q].user]
              /\ PasswordOf(req[q].user)' = PasswordOf(req[q].user)
  <2>1. req'[q] = req[q] /\ req[q].user \in Accounts /\ req[q].user # u
    BY <1>1, <1>2, <1>9, <1>10 DEF RequestsOK, Carries
  <2> QED
    BY <1>3, <1>8, <2>1 DEF PasswordOf, MethodsOf
<1>11. ASSUME NEW q \in Slots \ {p}, SetsEmail(req[q])
       PROVE  Knows(req[q])'
  <2>1. Knows(req[q]) /\ req[q].user # u
    BY <1>9, <1>11 DEF Agreement, Alone
  <2>2. Identity(req[q].user, "PASSWORD", req[q].sub, req[q].old) \in identities =>
            Identity(req[q].user, "PASSWORD", req[q].sub, req[q].old) \in identities'
    BY <1>8, <2>1, IdentityFields
  <2> QED
    BY <1>10, <1>11, <2>1, <2>2 DEF Knows
<1>12. ASSUME NEW q \in Slots \ {p}
       PROVE  PurgesAll(req[q])'
  <2>1. PurgesAll(req[q]) /\ req'[q] = req[q]
    BY <1>2 DEF Agreement
  <2> QED
    BY <1>10, <2>1 DEF PurgesAll
<1>13. \A n \in NativeSubs : Attached(n) => Attached(n)'
  BY <1>5, <1>6 DEF Attached
<1>14. Agree'
  <2> SUFFICES ASSUME NEW j \in Passwords'
               PROVE  /\ j.email = users'[j.user]
                      /\ \/ pool[j.sub] \in {users'[j.user], Gone}
                         \/ Erasing(j.sub)'
                         \/ \E q \in Slots : /\ req'[q].at \in Moved /\ req'[q].user = j.user
                                             /\ req'[q].sub = j.sub
    BY DEF Agree, Erasing
  <2>1. PICK i \in identities : j = Saved(i, u, s, email)
    BY <1>5 DEF Passwords
  <2>2. /\ j.user = i.user /\ j.sub = i.sub /\ i \in Passwords /\ i.user \in Accounts
        /\ j.email = IF i \in Row(u, s) THEN email ELSE i.email
    BY <1>1, <1>6, <2>1, RowFields DEF Passwords
  <2>3. CASE i.user = u
    <3>1. i \in PasswordOf(u)
      BY <2>2, <2>3 DEF PasswordOf, MethodsOf, Passwords
    <3>2. s # Nobody
      BY <1>0, <1>9, <3>1 DEF Knows
    <3>3. Identity(u, "PASSWORD", s, req[p].old) \in identities
      BY <1>0, <1>9, <3>2 DEF Knows, Moved
    <3>4. i.sub = s
      BY <1>1, <2>2, <2>3, <3>3, IdentityFields DEF RowsOK, Passwords
    <3>5. j.email = email /\ users'[j.user] = email
      BY <1>3, <2>2, <2>3, <3>4 DEF Row, MethodsOf
    <3>6. pool[s] \in {email, Gone} \/ Erasing(s)
      BY <1>0, <3>2 DEF Agreement, HasMoved, Moved
    <3> QED
      BY <1>4, <2>2, <3>4, <3>5, <3>6
  <2>4. CASE i.user # u
    <3>1. j.email = i.email /\ users'[j.user] = users[i.user]
      BY <1>3, <2>2, <2>4 DEF Row, MethodsOf
    <3>2. /\ i.email = users[i.user]
          /\ \/ pool[i.sub] \in {users[i.user], Gone}
             \/ Erasing(i.sub)
             \/ \E q \in Slots : req[q].at \in Moved /\ req[q].user = i.user /\ req[q].sub = i.sub
      BY <2>2 DEF Agreement, Agree
    <3> QED
      BY <1>0, <1>2, <1>4, <2>2, <2>4, <3>1, <3>2
  <2> QED
    BY <2>3, <2>4
<1>15. ~ SetsEmail(Idle) /\ Idle.at = "idle" /\ Idle.user = Nobody
  BY IdleReq
<1> QED
  BY <1>2, <1>11, <1>12, <1>13, <1>14, <1>15, AgreementWrite

\* Identities of the request's account go, and their Cognito users are gone or going.
LEMMA AgreementDrops ==
    ASSUME Structure, Agreement, NEW p \in Slots, NEW r, req' = [req EXCEPT ![p] = r], UNCHANGED pool,
           req[p].at \notin {"eraseUsers"} \cup Moved, ~ SetsEmail(r),
           r.at \notin {"createAccount", "purge"}, r.user \in {req[p].user, Nobody},
           NEW gone, identities' = identities \ gone, \A i \in gone : i.user = req[p].user,
           \A v \in Accounts : v # req[p].user => users'[v] = users[v],
           \A i \in identities \ gone : users'[i.user] = users[i.user],
           \A i \in Passwords \cap gone : pool[i.sub] = Gone \/ Erasing(i.sub)'
    PROVE  Agreement'
<1>1. TypeOK /\ RowsOK /\ RequestsOK
  BY DEF Structure
<1>2. \A q \in Slots : req'[q] = IF q = p THEN r ELSE req[q]
  BY <1>1 DEF TypeOK
<1>3. \A n : Erasing(n) => Erasing(n)'
  BY <1>2 DEF Erasing
<1>4. ASSUME NEW q \in Slots \ {p}, SetsEmail(req[q])
      PROVE  Knows(req[q])'
  <2>1. /\ Knows(req[q]) /\ req[q].user # req[p].user /\ req[q].user \in Accounts /\ req'[q] = req[q]
    BY <1>1, <1>2, <1>4 DEF Agreement, Alone, RequestsOK, Carries
  <2>2. users'[req[q].user] = users[req[q].user]
    BY <2>1
  <2>3. Identity(req[q].user, "PASSWORD", req[q].sub, req[q].old) \in identities =>
            Identity(req[q].user, "PASSWORD", req[q].sub, req[q].old) \in identities'
    BY <2>1, IdentityFields
  <2>4. PasswordOf(req[q].user)' \subseteq PasswordOf(req[q].user)
    BY <2>1 DEF PasswordOf, MethodsOf
  <2> QED
    BY <2>1, <2>2, <2>3, <2>4 DEF Knows
<1>5. ASSUME NEW q \in Slots \ {p}
      PROVE  PurgesAll(req[q])'
  <2>1. PurgesAll(req[q]) /\ req'[q] = req[q]
    BY <1>2 DEF Agreement
  <2> QED
    BY <2>1 DEF PurgesAll, PasswordOf, MethodsOf
<1>6. ASSUME NEW n \in NativeSubs, Attached(n)
      PROVE  Attached(n)' \/ pool[n] = Gone \/ Erasing(n)'
  <2>1. PICK i \in identities : i.sub = n
    BY <1>6 DEF Attached
  <2>2. i \in Passwords
    BY <1>1, <2>1 DEF RowsOK, Passwords
  <2>3. CASE i \in gone
    BY <2>1, <2>2, <2>3
  <2>4. CASE i \notin gone
    BY <2>1, <2>4 DEF Attached
  <2> QED
    BY <2>3, <2>4
<1>7. Agree'
  <2> SUFFICES ASSUME NEW i \in Passwords, i \notin gone
               PROVE  /\ i.email = users'[i.user]
                      /\ \/ pool[i.sub] \in {users'[i.user], Gone}
                         \/ Erasing(i.sub)'
                         \/ \E q \in Slots : /\ req'[q].at \in Moved /\ req'[q].user = i.user
                                             /\ req'[q].sub = i.sub
    BY DEF Agree, Erasing, Passwords
  <2>1. /\ i.email = users[i.user]
        /\ \/ pool[i.sub] \in {users[i.user], Gone}
           \/ Erasing(i.sub)
           \/ \E q \in Slots : req[q].at \in Moved /\ req[q].user = i.user /\ req[q].sub = i.sub
    BY DEF Agreement, Agree
  <2>2. users'[i.user] = users[i.user]
    BY DEF Passwords
  <2> QED
    BY <1>2, <1>3, <2>1, <2>2
<1> QED
  BY <1>4, <1>5, <1>6, <1>7, AgreementWrite

LEMMA AgreementRemoveRow ==
    ASSUME Structure, Agreement, NEW p \in Slots, RemoveRow(p)
    PROVE  Agreement'
<1> DEFINE gone == Row(req[p].user, req[p].sub)
<1>1. /\ req[p].at = "removeRow" /\ identities' = identities \ gone /\ UNCHANGED <<users, pool>>
      /\ req' = [req EXCEPT ![p] = Idle]
  BY DEF RemoveRow, At, Done
<1>2. ~ SetsEmail(Idle) /\ Idle.at = "idle" /\ Idle.user = Nobody
  BY IdleReq
<1>3. \A i \in gone : i.user = req[p].user /\ i.sub = req[p].sub
  BY DEF Row, MethodsOf
<1>4. pool[req[p].sub] = Gone
  BY <1>1 DEF Structure, RequestsOK
<1>5. req[p].at \notin {"eraseUsers"} \cup Moved
  BY <1>1 DEF Moved
<1> HIDE DEF gone
<1> QED
  BY <1>1, <1>2, <1>3, <1>4, <1>5, AgreementDrops

LEMMA AgreementPurge ==
    ASSUME Structure, Agreement, NEW p \in Slots, Purge(p)
    PROVE  Agreement'
<1> DEFINE gone == MethodsOf(req[p].user)
<1>1. TypeOK /\ RequestsOK
  BY DEF Structure
<1>2. /\ req[p].at = "purge" /\ identities' = identities \ gone /\ UNCHANGED pool
      /\ users' = [users EXCEPT ![req[p].user] = IF req[p].user \in Known THEN Gone ELSE users[req[p].user]]
      /\ \/ req[p].user \in Known /\ Goto(p, "eraseUsers")
         \/ req[p].user \notin Known /\ Done(p)
  BY DEF Purge, At
<1>3. \A i \in gone : i.user = req[p].user
  BY DEF MethodsOf
<1>4. /\ \A v \in Accounts : v # req[p].user => users'[v] = users[v]
      /\ \A i \in identities \ gone : i.user \in Accounts /\ i.user # req[p].user
  BY <1>1, <1>2, RowFields DEF TypeOK, MethodsOf
<1>5. req[p].at \notin {"eraseUsers"} \cup Moved
  BY <1>2 DEF Moved
<1>6. CASE req[p].user \in Known /\ Goto(p, "eraseUsers")
  <2> DEFINE r == [req[p] EXCEPT !.at = "eraseUsers"]
  <2>1. req[p] \in ReqType /\ "eraseUsers" \in Labels
    BY <1>1, ReqFields DEF Labels
  <2>2. /\ r.at = "eraseUsers" /\ r.user = req[p].user /\ r.subs = req[p].subs
    BY <2>1, GotoReq
  <2>3. req' = [req EXCEPT ![p] = r]
    BY <1>6 DEF Goto
  <2> HIDE DEF r
  <2>4. req'[p] = r /\ ~ SetsEmail(r)
    BY <1>1, <2>2, <2>3 DEF TypeOK, SetsEmail
  <2>5. \A i \in Passwords \cap gone : i.sub \in req[p].subs
    BY <1>2 DEF Agreement, PurgesAll, PasswordOf, Passwords
  <2>6. \A i \in Passwords \cap gone : Erasing(i.sub)'
    BY <2>2, <2>4, <2>5 DEF Erasing
  <2> HIDE DEF gone
  <2> QED
    BY <1>2, <1>3, <1>4, <1>5, <2>2, <2>3, <2>4, <2>6, AgreementDrops
<1>7. CASE req[p].user \notin Known /\ Done(p)
  <2>1. gone = {}
    BY <1>1, <1>7, RowFields DEF MethodsOf
  <2>2. ~ SetsEmail(Idle) /\ Idle.at = "idle" /\ Idle.user = Nobody /\ req' = [req EXCEPT ![p] = Idle]
    BY <1>7, IdleReq DEF Done
  <2> HIDE DEF gone
  <2> QED
    BY <1>2, <1>3, <1>4, <1>5, <2>1, <2>2, AgreementDrops
<1> QED
  BY <1>2, <1>6, <1>7

LEMMA AgreementWrites ==
    ASSUME Structure, Agreement, NEW p \in Slots, Writes(p)
    PROVE  Agreement'
<1>1. TypeOK /\ RowsOK /\ RequestsOK
  BY DEF Structure
<1>2. {"findWinner", "findAttached"} \subseteq Labels /\ {"findWinner", "findAttached"} \cap Moving = {}
  BY DEF Labels, Moving
<1>3. UNCHANGED pool /\ Changing(req[p]) = Nobody => Spares(p)
  BY DEF Spares
<1>4. CASE CreateAccount(p)
  <2>1. UNCHANGED pool /\ req[p].at = "createAccount"
    BY <1>4, CreateAccountCases
  <2>2. Changing(req[p]) = Nobody /\ req[p].at \notin {"eraseUsers"} \cup Moved
    BY <2>1 DEF Changing, Moving, Moved
  <2>3. CASE SameDatabase
    <3>1. Done(p) \/ Goto(p, "findWinner")
      BY <1>4, <2>3 DEF CreateAccount
    <3> QED
      BY <1>2, <1>3, <2>1, <2>2, <2>3, <3>1, AgreementDone, AgreementGoto
  <2>4. CASE ~ SameDatabase
    <3>1. PICK i : /\ Adds(i, req[p].new) /\ Done(p) /\ i.sub = req[p].sub /\ users[i.user] = Nobody
                   /\ i.provider = "PASSWORD" => i.email = req[p].new
      BY <1>4, <2>4, CreateAccountCases
    <3>2. \A q \in Slots : SetsEmail(req[q]) \/ req[q].at = "purge" => req[q].user # i.user
      BY <1>1, <3>1 DEF RequestsOK, Carries
    <3>3. PasswordOf(i.user) = {}
      BY <1>1, <3>1, RowFields DEF PasswordOf, MethodsOf, Known
    <3>4. i.provider = "PASSWORD" => pool[i.sub] \in {req[p].new, Gone} \/ Erasing(i.sub)
      BY <2>1, <3>1 DEF Agreement, Fresh, Adds
    <3> QED
      BY <2>2, <3>1, <3>2, <3>3, <3>4, AgreementAdds
  <2> QED
    BY <2>3, <2>4
<1>5. CASE Attach(p)
  <2>1. UNCHANGED pool /\ req[p].at = "attach"
    BY <1>5, AttachCases
  <2>2. Changing(req[p]) = Nobody /\ req[p].at \notin {"eraseUsers"} \cup Moved
    BY <2>1 DEF Changing, Moving, Moved
  <2>3. CASE SameDatabase /\ Goto(p, "findAttached")
    BY <1>2, <1>3, <2>1, <2>2, <2>3, AgreementGoto
  <2>4. CASE ~ (SameDatabase /\ Goto(p, "findAttached"))
    <3>1. PICK i, email : /\ Adds(i, email) /\ Done(p) /\ i.sub = req[p].sub /\ i.user = req[p].user
                          /\ i.provider = "PASSWORD" /\ i.email = req[p].new
                          /\ email = req[p].new \/ (req[p].new = req[p].old /\ email = users[i.user])
      BY <1>5, <2>4, AttachCases
    <3>2. /\ users[req[p].user] = req[p].old
          /\ \A q \in Slots \ {p} : req[q].user # req[p].user
      BY <2>1 DEF Agreement, Alone, Knows, SetsEmail
    <3>3. PasswordOf(i.user) = {} /\ email = req[p].new
      BY <3>1, <3>2 DEF Adds
    <3>4. pool[i.sub] \in {req[p].new, Gone} \/ Erasing(i.sub)
      BY <2>1, <3>1 DEF Agreement, Fresh, Adds
    <3> QED
      BY <2>2, <3>1, <3>2, <3>3, <3>4, AgreementAdds
  <2> QED
    BY <2>3, <2>4
<1>6. CASE SaveEmail(p)
  <2>1. UNCHANGED pool /\ req[p].at = "saveEmail"
    BY <1>6, SaveEmailCases
  <2>2. CASE SameDatabase /\ req[p].sub = Nobody /\ Done(p)
    <3>1. Changing(req[p]) = Nobody
      BY <2>2 DEF Changing
    <3> QED
      BY <1>3, <2>1, <2>2, <3>1, AgreementDone
  <2>3. CASE SameDatabase /\ req[p].sub # Nobody /\ Goto(p, "revertEmail")
    BY <2>1, <2>3, AgreementSaveFails
  <2>4. CASE /\ req[p].user \in Known /\ req[p].new \in Emails /\ Done(p)
             /\ users' = [users EXCEPT ![req[p].user] = req[p].new]
             /\ identities' = {Saved(i, req[p].user, req[p].sub, req[p].new) : i \in identities}
    BY <2>1, <2>4, AgreementSaves
  <2> QED
    BY <1>6, <2>2, <2>3, <2>4, SaveEmailCases
<1>7. CASE Connect(p)
  <2>1. UNCHANGED pool /\ req[p].at = "connect" /\ Done(p)
    BY <1>7, ConnectCases
  <2>2. Changing(req[p]) = Nobody /\ req[p].at \notin {"eraseUsers"} \cup Moved
    BY <2>1 DEF Changing, Moving, Moved
  <2>3. CASE SameDatabase
    BY <1>3, <2>1, <2>2, <2>3, AgreementDone
  <2>4. CASE ~ SameDatabase
    <3>1. PICK i : Adds(i, users[i.user]) /\ i.provider = "GOOGLE"
      BY <1>7, <2>4, ConnectCases
    <3>2. UNCHANGED users
      BY <1>7 DEF Connect
    <3> QED
      BY <2>1, <2>2, <3>1, <3>2, AgreementAdds
  <2> QED
    BY <2>3, <2>4
<1> QED
  BY <1>4, <1>5, <1>6, <1>7, AgreementRemoveRow, AgreementPurge DEF Writes

LEMMA AgreementInit == Init => Agreement
<1> SUFFICES ASSUME Init
             PROVE  Agreement
  OBVIOUS
<1>1. Structure
  BY StructureInit
<1>2. PICK u \in Accounts, g \in GoogleSubs, n \in NativeSubs :
          /\ Known = {u}
          /\ \E methods \in {{Identity(u, "GOOGLE", g, Nobody)},
                             {Identity(u, "PASSWORD", n, users[u])},
                             {Identity(u, "GOOGLE", g, Nobody), Identity(u, "PASSWORD", n, users[u])}} :
                /\ identities = methods
                /\ pool = [s \in Subs |-> IF \E i \in methods : i.sub = s THEN users[u] ELSE Nobody]
  BY DEF Init
<1>3. ASSUME NEW i \in Passwords
      PROVE  i.email = users[i.user] /\ pool[i.sub] = users[i.user]
  <2>1. i \in identities /\ i.provider = "PASSWORD" /\ i.sub \in Subs
    BY <1>1, RowFields DEF Passwords, Structure
  <2>2. i = Identity(u, "PASSWORD", n, users[u])
    BY <1>2, <2>1, IdentityFields
  <2>3. pool[i.sub] = users[u]
    BY <1>2, <2>1
  <2> QED
    BY <2>2, <2>3, IdentityFields
<1>4. \A p \in Slots : req[p] = Idle
  BY DEF Init
<1>5. Alone /\ \A p \in Slots : Fresh(req[p]) /\ HasMoved(req[p]) /\ PurgesAll(req[p])
  BY <1>4, IdleReq DEF Alone, Fresh, HasMoved, PurgesAll, Moved
<1>6. Agree
  BY <1>3 DEF Agree
<1> QED
  BY <1>5, <1>6 DEF Agreement

\* What has been disturbed stays so.
LEMMA StaysDisturbed == Structure /\ [Next]_vars /\ ~ disturbed' => ~ disturbed
<1> SUFFICES ASSUME Structure, [Next]_vars, disturbed
             PROVE  disturbed'
  OBVIOUS
<1>1. ASSUME NEW p \in Slots, NEW r, Begin(p, r)
      PROVE  disturbed'
  BY <1>1 DEF Begin
<1>2. ASSUME NEW p \in Slots, Starts(p)
      PROVE  disturbed'
  BY <1>1, <1>2, StartsBegin
<1>3. \A s, old, new : Moves(s, old, new) => disturbed'
  BY DEF Moves
<1>4. ASSUME NEW p \in Slots, Continues(p)
      PROVE  disturbed'
  BY <1>3, <1>4 DEF Continues, FindWinner, DiscardUser, CreateNative, FindAttached, MoveEmail,
     FindLeftover, DropLeftover, MoveAgain, RevertEmail, LockUser, RemoveUser, EraseUser, Die,
     FailToSave, SameHistory
<1>5. ASSUME NEW p \in Slots, Writes(p)
      PROVE  disturbed'
  BY <1>5 DEF Writes, CreateAccount, Attach, SaveEmail, Connect, RemoveRow, Purge, SameHistory
<1>6. ASSUME NEW g \in GoogleSubs, NEW email \in Emails, FederatedSignIn(g, email)
      PROVE  disturbed'
  BY <1>6 DEF FederatedSignIn, SameHistory
<1> QED
  BY <1>2, <1>4, <1>5, <1>6, Steps DEF vars

LEMMA AgreementNext == Structure /\ Agreement /\ [Next]_vars /\ ~ disturbed' => Agreement'
<1> SUFFICES ASSUME Structure, Agreement, [Next]_vars, ~ disturbed'
             PROVE  Agreement'
  OBVIOUS
<1>1. ASSUME NEW p \in Slots, Starts(p)
      PROVE  Agreement'
  BY <1>1, StartsBegin, AgreementStarts
<1>2. CASE UNCHANGED vars
  BY <1>2 DEF vars, Agreement, Alone, Knows, Fresh, HasMoved, PurgesAll, Agree, Passwords, Erasing,
     Attached, PasswordOf, MethodsOf
<1> QED
  BY <1>1, <1>2, Steps, AgreementSignIn, AgreementContinues, AgreementWrites

-----------------------------------------------------------------------------
(* The theorems.                                                           *)

LEMMA AccountsInvariant == Spec => []AccountsInv
<1>1. Init => AccountsInv
  BY StructureInit, AgreementInit DEF AccountsInv
<1>2. AccountsInv /\ [Next]_vars => AccountsInv'
  BY StructureNext, StaysDisturbed, AgreementNext DEF AccountsInv
<1> QED
  BY <1>1, <1>2, PTL DEF Spec

\* Every variable holds a value of its column, an identity hangs on a users row, and a
\* Cognito user belongs to one identity at most.
THEOREM TypeCorrect == Spec => []TypeOK
<1>1. AccountsInv => TypeOK
  BY DEF AccountsInv, Structure
<1> QED
  BY <1>1, AccountsInvariant, PTL

\* signInMethods.ts: whatever removals, setups, connections and deletions run at once
\* or die, an account never loses its last identity.
THEOREM AlwaysAMethod == Spec => []KeepsIdentity
<1>1. AccountsInv => KeepsIdentity
  BY DEF AccountsInv, Structure
<1> QED
  BY <1>1, AccountsInvariant, PTL

\* password.ts: no two setups that run at once give an account a second password.
THEOREM NoSecondPassword == Spec => []OnePassword
<1>1. ASSUME AccountsInv, NEW u \in Accounts
      PROVE  Cardinality(PasswordOf(u)) <= 1
  <2>1. \A i, j \in PasswordOf(u) : i = j
    BY <1>1 DEF AccountsInv, Structure, RowsOK, Passwords, PasswordOf, MethodsOf
  <2>2. CASE PasswordOf(u) = {}
    BY <2>2, FS_EmptySet
  <2>3. CASE PasswordOf(u) # {}
    <3>1. PICK i : PasswordOf(u) = {i}
      BY <2>1, <2>3
    <3>2. Cardinality({i}) = 1
      BY FS_Singleton
    <3> QED
      BY <3>1, <3>2
  <2> QED
    BY <2>2, <2>3
<1>2. AccountsInv => OnePassword
  BY <1>1 DEF OnePassword
<1> QED
  BY <1>2, AccountsInvariant, PTL

\* email.ts: with no request running, an account's email is its password's and its
\* Cognito user's, unless a change of it was cut off, overlapped another request of
\* the account, or moved a Cognito user that is not the account's.
THEOREM EmailsStayAgreed == Spec => []EmailsAgree
<1>1. ASSUME AccountsInv, ~ disturbed, \A p \in Slots : req[p] = Idle,
             NEW u \in Known, NEW i \in PasswordOf(u)
      PROVE  i.email = users[u] /\ pool[i.sub] \in {users[u], Gone}
  <2>1. i \in Passwords /\ i.user = u
    BY DEF PasswordOf, MethodsOf, Passwords
  <2>2. ~ Erasing(i.sub) /\ \A p \in Slots : req[p].at \notin Moved
    BY <1>1, IdleReq DEF Erasing, Moved
  <2> QED
    BY <1>1, <2>1, <2>2 DEF AccountsInv, Agreement, Agree
<1>2. AccountsInv => EmailsAgree
  BY <1>1 DEF EmailsAgree
<1> QED
  BY <1>2, AccountsInvariant, PTL
=============================================================================
