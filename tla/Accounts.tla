------------------------------ MODULE Accounts ------------------------------
(***************************************************************************)
(* Accounts and the ways to sign in to them: routes/auth/onboarding.ts,    *)
(* routes/auth/passwordSignup.ts (verify), routes/account/email.ts         *)
(* (verify), password.ts (setup), signInMethods.ts, profile.ts (DELETE     *)
(* /me), services/cognito/passwordUser.ts, services/user.                  *)
(*                                                                         *)
(* Two stores without a common transaction: Postgres (users, identities)   *)
(* and the Cognito user pool.  Several requests run at once.  One action   *)
(* is one database transaction or one Cognito call; the lookups a handler  *)
(* makes before its first write are one step with the request's start.     *)
(* Codes and Google proofs are taken to be right: module Verification has  *)
(* the codes.                                                              *)
(***************************************************************************)
EXTENDS Naturals, FiniteSets

CONSTANTS
    Accounts,    \* ids of users rows
    Emails,
    GoogleSubs,  \* Cognito users Google sign-in makes
    NativeSubs,  \* Cognito users of email-and-password sign-in
    Slots,       \* requests that can run at the same time
    Nobody,      \* not in any of these sets: absent, or not yet
    Gone,        \* deleted: an account, or a Cognito user
    MaxRequests, \* bound on the requests
    MaxFaults    \* bound on the requests that die or fail on the way

Subs == GoogleSubs \cup NativeSubs

ASSUME NobodyAssumption ==
    /\ {Nobody, Gone} \cap (Accounts \cup Emails \cup Subs) = {}
    /\ Nobody # Gone
    /\ GoogleSubs \cap NativeSubs = {}

VARIABLES
    users,      \* users.email per account; Nobody: not yet, Gone: deleted
    identities, \* auth_identities with a cognitoSub
    pool,       \* each Cognito user: Nobody, Gone, or the email it has
    req,        \* what each slot is doing
    requests,   \* requests started
    faults,     \* requests that died
    disturbed   \* history: an email change or a deletion was cut off, or an email change
                \* overlapped another request of its account, or moved a Cognito user
                \* that is not its account's

vars == <<users, identities, pool, req, requests, faults, disturbed>>

Idle == [at |-> "idle", user |-> Nobody, sub |-> Nobody, old |-> Nobody, new |-> Nobody,
         subs |-> {}]

Identity(u, provider, s, email) ==
    [user |-> u, provider |-> provider, sub |-> s, email |-> email]

Known == {u \in Accounts : users[u] \notin {Nobody, Gone}}
MethodsOf(u) == {i \in identities : i.user = u}
PasswordOf(u) == {i \in MethodsOf(u) : i.provider = "PASSWORD"}
\* Its account and its Cognito user name a row as its id does: a row that is gone never
\* comes back for the same two, or with the Cognito user deleted.
Row(u, s) == {i \in MethodsOf(u) : i.sub = s}
HasGoogle(u) == \E i \in MethodsOf(u) : i.provider = "GOOGLE"
Attached(s) == \E i \in identities : i.sub = s
Alive(s) == pool[s] \notin {Nobody, Gone}

\* The native users an email names: Cognito lets there be one.
Holder(email) == {n \in NativeSubs : pool[n] = email}

\* emailBelongsToAnotherAccount, and the unique index on users.email.
TakenFor(email, u) == \E v \in Known \ {u} : users[v] = email

\* SELECT ... FOR UPDATE on u's row, held by a removal until it ends.
Locked(u) == \E p \in Slots : req[p].user = u /\ req[p].at \in {"removeUser", "removeRow"}

\* Two requests of one account at once, one of which sets its email.
SetsEmail(r) == r.at \in {"moveEmail", "findLeftover", "dropLeftover", "moveAgain", "saveEmail",
                          "revertEmail", "createNative", "attach"}
Overlap(r, t) == r.user = t.user /\ (SetsEmail(r) \/ SetsEmail(t))

Init ==
    /\ users \in [Accounts -> Emails \cup {Nobody}]
    /\ \E u \in Accounts, g \in GoogleSubs, n \in NativeSubs :
          /\ Known = {u}
          /\ \E methods \in {{Identity(u, "GOOGLE", g, Nobody)},
                             {Identity(u, "PASSWORD", n, users[u])},
                             {Identity(u, "GOOGLE", g, Nobody), Identity(u, "PASSWORD", n, users[u])}} :
                /\ identities = methods
                /\ pool = [s \in Subs |-> IF \E i \in methods : i.sub = s THEN users[u] ELSE Nobody]
    /\ req = [p \in Slots |-> Idle]
    /\ requests = 0
    /\ faults = 0
    /\ disturbed = FALSE

-----------------------------------------------------------------------------
(* Requests.                                                               *)

\* A request starts and goes on as r.
Begin(p, r) ==
    /\ req[p] = Idle
    /\ requests < MaxRequests
    /\ requests' = requests + 1
    /\ req' = [req EXCEPT ![p] = r]
    /\ disturbed' = (disturbed \/ \E q \in Slots : Overlap(r, req[q]))
    /\ UNCHANGED <<users, identities, pool, faults>>

At(p, label) == req[p].at = label
Goto(p, label) == req' = [req EXCEPT ![p].at = label]
Done(p) == req' = [req EXCEPT ![p] = Idle]

SameStores == UNCHANGED <<users, identities, pool>>
SameDatabase == UNCHANGED <<users, identities>>
SameHistory == UNCHANGED <<requests, faults, disturbed>>

\* Google's sign-in page makes the Cognito user, with whatever address Google has.
FederatedSignIn(g, email) ==
    /\ pool[g] = Nobody
    /\ pool' = [pool EXCEPT ![g] = email]
    /\ UNCHANGED <<users, identities, req>>
    /\ SameHistory

-----------------------------------------------------------------------------
(* POST /auth/signup/start, /auth/signin/reject, /auth/password-signup.    *)

\* createUserForSignup, for an identity that has no account yet.
StartSignup(p, s) ==
    /\ Alive(s)
    /\ ~ Attached(s)
    /\ Begin(p, [Idle EXCEPT !.at = "createAccount", !.sub = s, !.new = pool[s]])

CreateAccount(p) ==
    LET r == req[p]
    IN  /\ At(p, "createAccount")
        /\ IF TakenFor(r.new, Nobody)
           THEN Goto(p, "findWinner") /\ SameDatabase
           ELSE IF Attached(r.sub)
           THEN Done(p) /\ SameDatabase
           ELSE \E u \in {v \in Accounts : users[v] = Nobody} :
                   /\ users' = [users EXCEPT ![u] = r.new]
                   /\ identities' = identities \cup
                         {IF r.sub \in GoogleSubs THEN Identity(u, "GOOGLE", r.sub, Nobody)
                          ELSE Identity(u, "PASSWORD", r.sub, r.new)}
                   /\ Done(p)
        /\ UNCHANGED pool
        /\ SameHistory

\* A double submit of the same identity is no second account.
FindWinner(p) ==
    /\ At(p, "findWinner")
    /\ IF Attached(req[p].sub) THEN Done(p) ELSE Goto(p, "discardUser")
    /\ SameStores
    /\ SameHistory

\* deleteCognitoUserIfExists.
DiscardUser(p) ==
    /\ At(p, "discardUser")
    /\ pool' = [pool EXCEPT ![req[p].sub] = Gone]
    /\ Done(p)
    /\ SameDatabase
    /\ SameHistory

RejectSignIn(p, s) ==
    /\ Alive(s)
    /\ ~ Attached(s)
    /\ Begin(p, [Idle EXCEPT !.at = "discardUser", !.sub = s])

VerifySignup(p, email) ==
    /\ ~ TakenFor(email, Nobody)
    /\ Begin(p, [Idle EXCEPT !.at = "createSignup", !.new = email])

\* createVerifiedPasswordUser: a native user nobody has signed up with is taken over.
CreateNative(p) ==
    LET r == req[p]
    IN  /\ \/ At(p, "createNative")
           \/ At(p, "createSignup")
        /\ \/ /\ Holder(r.new) = {}
              /\ \E n \in NativeSubs :
                    /\ pool[n] = Nobody
                    /\ pool' = [pool EXCEPT ![n] = r.new]
                    /\ req' = [req EXCEPT ![p] =
                                  IF At(p, "createSignup") THEN Idle
                                  ELSE [r EXCEPT !.at = "attach", !.sub = n]]
           \/ \E n \in Holder(r.new) :
                    /\ req' = [req EXCEPT ![p] =
                                  IF At(p, "createSignup") \/ Attached(n) THEN Idle
                                  ELSE [r EXCEPT !.at = "attach", !.sub = n]]
                    /\ UNCHANGED pool
        /\ SameDatabase
        /\ SameHistory

-----------------------------------------------------------------------------
(* POST /me/password/setup.                                                *)

SetUpPassword(p, u, email) ==
    /\ u \in Known
    /\ PasswordOf(u) = {}
    /\ HasGoogle(u)
    /\ ~ TakenFor(email, u)
    /\ Begin(p, [Idle EXCEPT !.at = "createNative", !.user = u, !.old = users[u], !.new = email])

\* Mutant of Attach: without the second look under the lock.
AttachUnseen(p) ==
    LET r == req[p]
    IN  /\ At(p, "attach")
        /\ ~ Locked(r.user)
        /\ IF /\ r.user \in Known
              /\ ~ Attached(r.sub)
              /\ r.new # r.old => ~ TakenFor(r.new, r.user)
           THEN /\ identities' = identities \cup {Identity(r.user, "PASSWORD", r.sub, r.new)}
                /\ users' = IF r.new = r.old THEN users ELSE [users EXCEPT ![r.user] = r.new]
                /\ Done(p)
           ELSE Goto(p, "findAttached") /\ SameDatabase
        /\ UNCHANGED pool
        /\ SameHistory

\* The transaction: looks again, under the lock, for a password added meanwhile.
Attach(p) ==
    LET r == req[p]
    IN  /\ At(p, "attach")
        /\ ~ Locked(r.user)
        /\ IF /\ r.user \in Known
              /\ PasswordOf(r.user) = {}
              /\ ~ Attached(r.sub)
              /\ r.new # r.old => ~ TakenFor(r.new, r.user)
           THEN /\ identities' = identities \cup {Identity(r.user, "PASSWORD", r.sub, r.new)}
                /\ users' = IF r.new = r.old THEN users ELSE [users EXCEPT ![r.user] = r.new]
                /\ Done(p)
           ELSE Goto(p, "findAttached") /\ SameDatabase
        /\ UNCHANGED pool
        /\ SameHistory

\* A concurrent setup that took over the same Cognito user keeps it.
FindAttached(p) ==
    /\ At(p, "findAttached")
    /\ IF Attached(req[p].sub) THEN Done(p) ELSE Goto(p, "discardUser")
    /\ SameStores
    /\ SameHistory

-----------------------------------------------------------------------------
(* POST /me/email/verify.                                                  *)

\* `sub` is the password identity's, whose row is updated with the account's.
ChangeEmail(p, u, email) ==
    /\ u \in Known
    /\ email # users[u]
    /\ ~ TakenFor(email, u)
    /\ \E i \in IF PasswordOf(u) = {} THEN {Identity(u, "PASSWORD", Nobody, Nobody)}
                ELSE PasswordOf(u) :
          Begin(p, [Idle EXCEPT !.at = IF i.sub = Nobody THEN "saveEmail" ELSE "moveEmail",
                                !.user = u, !.sub = i.sub, !.old = i.email, !.new = email])

\* AdminUpdateUserAttributes, which names the native user by its email: no such user,
\* or an email another one has, is an error.  It need not be `sub`, which may be gone.
Moves(sub, old, new) ==
    /\ Holder(old) # {}
    /\ Holder(new) = {}
    /\ pool' = [s \in Subs |-> IF s \in Holder(old) THEN new ELSE pool[s]]
    /\ disturbed' = (disturbed \/ Holder(old) # {sub})

CannotMove(old, new) ==
    /\ Holder(old) = {} \/ Holder(new) # {}
    /\ UNCHANGED pool

\* changeNativeUserEmail.
MoveEmail(p) ==
    LET r == req[p]
    IN  /\ At(p, "moveEmail")
        /\ \/ Moves(r.sub, r.old, r.new) /\ Goto(p, "saveEmail")
           \/ /\ CannotMove(r.old, r.new)
              /\ IF Holder(r.old) = {} THEN Done(p) ELSE Goto(p, "findLeftover")
              /\ UNCHANGED disturbed
        /\ SameDatabase
        /\ UNCHANGED <<requests, faults>>

FindLeftover(p) ==
    /\ At(p, "findLeftover")
    /\ IF \E n \in Holder(req[p].new) : ~ Attached(n)
       THEN Goto(p, "dropLeftover") ELSE Done(p)
    /\ SameStores
    /\ SameHistory

DropLeftover(p) ==
    /\ At(p, "dropLeftover")
    /\ pool' = [s \in Subs |-> IF s \in Holder(req[p].new) THEN Gone ELSE pool[s]]
    /\ Goto(p, "moveAgain")
    /\ SameDatabase
    /\ SameHistory

MoveAgain(p) ==
    LET r == req[p]
    IN  /\ At(p, "moveAgain")
        /\ \/ Moves(r.sub, r.old, r.new) /\ Goto(p, "saveEmail")
           \/ CannotMove(r.old, r.new) /\ Done(p) /\ UNCHANGED disturbed
        /\ SameDatabase
        /\ UNCHANGED <<requests, faults>>

\* What the transaction's two updates need.
CanSave(r) ==
    /\ r.user \in Known
    /\ ~ TakenFor(r.new, r.user)
    /\ r.sub # Nobody => Row(r.user, r.sub) # {}

\* Mutant of SaveEmail: the identity keeps its email.
SaveEmailOnly(p) ==
    LET r == req[p]
    IN  /\ At(p, "saveEmail")
        /\ ~ Locked(r.user)
        /\ IF CanSave(r)
           THEN /\ users' = [users EXCEPT ![r.user] = r.new]
                /\ UNCHANGED identities
                /\ Done(p)
           ELSE /\ IF r.sub = Nobody THEN Done(p) ELSE Goto(p, "revertEmail")
                /\ SameDatabase
        /\ UNCHANGED pool
        /\ SameHistory

\* The account and its password identity together.
SaveEmail(p) ==
    LET r == req[p]
    IN  /\ At(p, "saveEmail")
        /\ ~ Locked(r.user)
        /\ IF CanSave(r)
           THEN /\ users' = [users EXCEPT ![r.user] = r.new]
                /\ identities' = {IF i \in Row(r.user, r.sub) THEN [i EXCEPT !.email = r.new] ELSE i :
                                     i \in identities}
                /\ Done(p)
           ELSE /\ IF r.sub = Nobody THEN Done(p) ELSE Goto(p, "revertEmail")
                /\ SameDatabase
        /\ UNCHANGED pool
        /\ SameHistory

\* revertNativeUserEmail.  An error here is reported and not repaired.
RevertEmail(p) ==
    LET r == req[p]
    IN  /\ At(p, "revertEmail")
        /\ \/ Moves(r.sub, r.new, r.old)
           \/ CannotMove(r.new, r.old) /\ disturbed' = TRUE
        /\ Done(p)
        /\ SameDatabase
        /\ UNCHANGED <<requests, faults>>

-----------------------------------------------------------------------------
(* Sign-in methods, and the end of an account.                             *)

\* POST /me/identities/google, with one Google sign-in per account: the Cognito user
\* of a second one goes.
ConnectGoogle(p, u, g) ==
    /\ u \in Known
    /\ Alive(g)
    /\ ~ Attached(g)
    /\ Begin(p, [Idle EXCEPT !.at = IF HasGoogle(u) THEN "discardUser" ELSE "connect",
                             !.user = u, !.sub = g])

Connect(p) ==
    LET r == req[p]
    IN  /\ At(p, "connect")
        /\ ~ Locked(r.user)
        /\ identities' = IF r.user \in Known /\ ~ Attached(r.sub)
                         THEN identities \cup {Identity(r.user, "GOOGLE", r.sub, Nobody)}
                         ELSE identities
        /\ Done(p)
        /\ UNCHANGED <<users, pool>>
        /\ SameHistory

\* DELETE /me/identities/:id.
RemoveMethod(p, i) ==
    /\ i \in identities
    /\ Begin(p, [Idle EXCEPT !.at = "lockUser", !.user = i.user, !.sub = i.sub])

\* Mutant of LockUser: without the row lock.
CountOthers(p) ==
    LET r == req[p]
    IN  /\ At(p, "lockUser")
        /\ IF \E i \in MethodsOf(r.user) : i.sub # r.sub THEN Goto(p, "removeUser") ELSE Done(p)
        /\ SameStores
        /\ SameHistory

\* The removal's transaction locks the account and counts what else it has.
LockUser(p) ==
    LET r == req[p]
    IN  /\ At(p, "lockUser")
        /\ ~ Locked(r.user)
        /\ IF \E i \in MethodsOf(r.user) : i.sub # r.sub THEN Goto(p, "removeUser") ELSE Done(p)
        /\ SameStores
        /\ SameHistory

RemoveUser(p) ==
    /\ At(p, "removeUser")
    /\ pool' = [pool EXCEPT ![req[p].sub] = Gone]
    /\ Goto(p, "removeRow")
    /\ SameDatabase
    /\ SameHistory

RemoveRow(p) ==
    /\ At(p, "removeRow")
    /\ identities' = identities \ Row(req[p].user, req[p].sub)
    /\ Done(p)
    /\ UNCHANGED <<users, pool>>
    /\ SameHistory

\* DELETE /me: the identities are read before the purge, and their Cognito users go
\* after it.
DeleteAccount(p, u) ==
    /\ u \in Known
    /\ Begin(p, [Idle EXCEPT !.at = "purge", !.user = u, !.subs = {i.sub : i \in MethodsOf(u)}])

\* Mutant of Purge: the identities do not cascade.
PurgeUser(p) ==
    LET u == req[p].user
    IN  /\ At(p, "purge")
        /\ ~ Locked(u)
        /\ users' = [users EXCEPT ![u] = IF u \in Known THEN Gone ELSE @]
        /\ IF u \in Known THEN Goto(p, "eraseUsers") ELSE Done(p)
        /\ UNCHANGED <<identities, pool>>
        /\ SameHistory

Purge(p) ==
    LET u == req[p].user
    IN  /\ At(p, "purge")
        /\ ~ Locked(u)
        /\ users' = [users EXCEPT ![u] = IF u \in Known THEN Gone ELSE @]
        /\ identities' = identities \ MethodsOf(u)
        /\ IF u \in Known THEN Goto(p, "eraseUsers") ELSE Done(p)
        /\ UNCHANGED pool
        /\ SameHistory

EraseUser(p) ==
    /\ At(p, "eraseUsers")
    /\ \E s \in req[p].subs :
          /\ pool' = [pool EXCEPT ![s] = Gone]
          /\ IF req[p].subs = {s} THEN Done(p) ELSE req' = [req EXCEPT ![p].subs = @ \ {s}]
    /\ SameDatabase
    /\ SameHistory

-----------------------------------------------------------------------------
(* Faults.                                                                 *)

\* A function that is killed or times out, or a call that throws where the handler
\* has nothing to undo: a transaction that is open is rolled back.
Die(p) ==
    /\ req[p] # Idle
    /\ faults < MaxFaults
    /\ faults' = faults + 1
    /\ Done(p)
    /\ disturbed' = (disturbed \/ SetsEmail(req[p]) \/ At(p, "eraseUsers"))
    /\ SameStores
    /\ UNCHANGED requests

\* The transaction of an email change fails, and the handler undoes the move.
FailToSave(p) ==
    /\ At(p, "saveEmail")
    /\ req[p].sub # Nobody
    /\ faults < MaxFaults
    /\ faults' = faults + 1
    /\ Goto(p, "revertEmail")
    /\ SameStores
    /\ UNCHANGED <<requests, disturbed>>

Next ==
    \/ \E g \in GoogleSubs, email \in Emails : FederatedSignIn(g, email)
    \/ \E p \in Slots :
          \/ \E s \in Subs : StartSignup(p, s) \/ RejectSignIn(p, s)
          \/ \E email \in Emails : VerifySignup(p, email)
          \/ \E u \in Accounts :
                \/ \E email \in Emails : SetUpPassword(p, u, email) \/ ChangeEmail(p, u, email)
                \/ \E g \in GoogleSubs : ConnectGoogle(p, u, g)
                \/ DeleteAccount(p, u)
          \/ \E i \in identities : RemoveMethod(p, i)
          \/ CreateAccount(p) \/ FindWinner(p) \/ DiscardUser(p) \/ CreateNative(p)
          \/ Attach(p) \/ FindAttached(p)
          \/ MoveEmail(p) \/ FindLeftover(p) \/ DropLeftover(p) \/ MoveAgain(p)
          \/ SaveEmail(p) \/ RevertEmail(p)
          \/ Connect(p) \/ LockUser(p) \/ RemoveUser(p) \/ RemoveRow(p)
          \/ Purge(p) \/ EraseUser(p)
          \/ Die(p) \/ FailToSave(p)

Spec == Init /\ [][Next]_vars

-----------------------------------------------------------------------------
(* Properties.                                                             *)

Labels == {"idle", "createAccount", "findWinner", "discardUser", "createSignup", "createNative",
           "attach", "findAttached", "moveEmail", "findLeftover", "dropLeftover", "moveAgain",
           "saveEmail", "revertEmail", "connect", "lockUser", "removeUser", "removeRow",
           "purge", "eraseUsers"}

\* Every variable holds a value of its column, an identity hangs on a users row, and
\* a Cognito user belongs to one identity at most.
TypeOK ==
    /\ users \in [Accounts -> Emails \cup {Nobody, Gone}]
    /\ identities \subseteq [user : Known, provider : {"GOOGLE", "PASSWORD"}, sub : Subs,
                             email : Emails \cup {Nobody}]
    /\ pool \in [Subs -> Emails \cup {Nobody, Gone}]
    /\ req \in [Slots -> [at : Labels, user : Accounts \cup {Nobody}, sub : Subs \cup {Nobody},
                          old : Emails \cup {Nobody}, new : Emails \cup {Nobody},
                          subs : SUBSET Subs]]
    /\ \A i, j \in identities : i.sub = j.sub => i = j

\* signInMethods.ts: an account always keeps at least one identity.  Removals, setups,
\* connections and deletions that run at once, or die, never leave it without.
KeepsIdentity == \A u \in Known : MethodsOf(u) # {}

\* password.ts: a concurrent setup must not add a second PASSWORD identity.
OnePassword == \A u \in Accounts : Cardinality(PasswordOf(u)) <= 1

\* schema.prisma: the account's email is its password identity's sign-in email, and
\* the two change together, in both stores.  When no request runs they agree, unless
\* an email change or a deletion died halfway, or an email change overlapped another
\* request of its account, or moved a Cognito user that is not its account's.
EmailsAgree ==
    ~ disturbed /\ (\A p \in Slots : req[p] = Idle) =>
        \A u \in Known : \A i \in PasswordOf(u) :
            /\ i.email = users[u]
            /\ pool[i.sub] \in {users[u], Gone}

\* signInMethods.ts: an account always keeps at least one identity it can sign in with.
CanSignIn == \A u \in Known : \E i \in MethodsOf(u) : Alive(i.sub)
=============================================================================
