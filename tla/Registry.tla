------------------------------- MODULE Registry -------------------------------
(***************************************************************************)
(* Who hands what on to whom: the users, trusts, devices, subscriptions and *)
(* accounts of the Go backend, handlers/users.go, trusts.go, receivers.go, *)
(* devices.go, subscriptions.go and middleware/auth.go, over PostgreSQL.   *)
(*                                                                         *)
(* A trust is a passer and his receiver, and every other row refers to one. *)
(* Most handlers are one statement and so one step.  A job is a request    *)
(* that is between two: it has read a row, or the middleware has resolved  *)
(* its user, and other requests come before it goes on.  One that fails, or *)
(* whose replica dies, is given up at any point; what was committed stays. *)
(***************************************************************************)
EXTENDS Integers

CONSTANTS
    User,       \* ids of rows of users
    Clerk,      \* ids of people at Clerk
    Good,       \* ids of rows of accounts, devices and subscriptions
    Job,        \* requests that may be between two statements at a time
    SeedUsers,  \* the seed's users, with their Clerk ids
    SeedTrusts, \* the seed's trusts, whose ids it chooses itself
    MaxTrust    \* bound on the ids of trusts

Trust == [passer : User, receiver : User]

TrustId == 0..MaxTrust

ASSUME RegistryAssumption ==
    /\ SeedUsers \in [DOMAIN SeedUsers -> Clerk] /\ DOMAIN SeedUsers \subseteq User
    /\ SeedTrusts \in [DOMAIN SeedTrusts -> Trust] /\ DOMAIN SeedTrusts \subseteq TrustId

VARIABLES
    users,      \* clerk_user_id by id
    trusts,     \* trusts by id
    nextTrust,  \* what the sequence of trusts gives next
    goods,      \* accounts, devices and subscriptions by id
    spent,      \* the ids their sequences have given
    shown,      \* ids of trusts GET /receivers has answered
    job,        \* what each job is doing
    named,      \* history: the receivers that were named in their passer's name
    under       \* history: the passer of the trust a row was made under

registryVars == <<users, trusts, nextTrust, goods, spent, shown, job, named, under>>

Kinds == {"account", "device", "subscription"}

Set(f, k, v)   == [x \in DOMAIN f \cup {k} |-> IF x = k THEN v ELSE f[x]]
Without(f, k)  == [x \in DOMAIN f \ {k} |-> f[x]]
Nothing        == [x \in {} |-> x]
NoJob          == [at |-> "none"]

\* The database is migrated, and seeded or not.  The seed gives its trusts ids of
\* its own, from 0 on; the sequence knows nothing of them.
RegistryInit ==
    /\ \/ users = SeedUsers /\ trusts = SeedTrusts
       \/ users = Nothing /\ trusts = Nothing
    /\ nextTrust = 1
    /\ goods = Nothing
    /\ spent = {}
    /\ shown = {}
    /\ job = [j \in Job |-> NoJob]
    /\ named = {trusts[t] : t \in DOMAIN trusts}
    /\ under = Nothing

-----------------------------------------------------------------------------
(* Users                                                                   *)

\* POST /users: a row of its own for every request, whatever its Clerk id.  One
\* that names a default receiver is refused: Scan takes no uuid.UUID.
CreateUser(clerk) ==
    /\ \E u \in User \ DOMAIN users : users' = Set(users, u, clerk)
    /\ UNCHANGED <<trusts, nextTrust, goods, spent, shown, job, named, under>>

\* PUT /users, for which no token is asked.
UpdateUser(u, clerk) ==
    /\ u \in DOMAIN users
    /\ users' = [users EXCEPT ![u] = clerk]
    /\ UNCHANGED <<trusts, nextTrust, goods, spent, shown, job, named, under>>

\* LIMIT 1 without an ORDER BY: any of the rows with the Clerk id.
GetUserByClerkID(clerk) == {u \in DOMAIN users : users[u] = clerk}

\* The middleware lets no request pass whose Clerk id has no row.
SignedIn == \E clerk \in Clerk : GetUserByClerkID(clerk) # {}

\* The handlers that use the row go on with it whatever becomes of it: it is
\* resolved once, before the handler's own statement.
ClerkAuth(j, clerk, request) ==
    /\ job[j] = NoJob
    /\ \E u \in GetUserByClerkID(clerk) :
         job' = [job EXCEPT ![j] = [at |-> "resolved", user |-> u, request |-> request]]
    /\ UNCHANGED <<users, trusts, nextTrust, goods, spent, shown, named, under>>

Finish(j) == job' = [job EXCEPT ![j] = NoJob]

\* A statement fails, the request is cancelled, or its replica dies.
GiveUpJob(j) ==
    /\ job[j] # NoJob
    /\ Finish(j)
    /\ UNCHANGED <<users, trusts, nextTrust, goods, spent, shown, named, under>>

-----------------------------------------------------------------------------
(* Trusts                                                                  *)

\* GET /receivers: the trusts of the resolved user, joined with their receivers.
ListReceivers(j) ==
    /\ job[j].at = "resolved" /\ job[j].request = "receivers"
    /\ shown' = shown \cup {t \in DOMAIN trusts : trusts[t].passer = job[j].user}
    /\ Finish(j)
    /\ UNCHANGED <<users, trusts, nextTrust, goods, spent, named, under>>

\* POST /trusts: the id is taken from the sequence whether or not the row is
\* inserted, which it is not if there is one with that id or no such user.
CreateTrust(passer, receiver) ==
    LET new == [passer |-> passer, receiver |-> receiver] IN
    /\ SignedIn
    /\ nextTrust <= MaxTrust
    /\ nextTrust' = nextTrust + 1
    /\ IF nextTrust \in DOMAIN trusts \/ ~({passer, receiver} \subseteq DOMAIN users)
       THEN UNCHANGED <<trusts, named>>
       ELSE /\ trusts' = Set(trusts, nextTrust, new)
            /\ named' = named \cup {new}
    /\ UNCHANGED <<users, goods, spent, shown, job, under>>

\* PUT /trusts, first statement.  What it finds is used for nothing else.
GetTrust(j, t, asked) ==
    /\ SignedIn
    /\ job[j] = NoJob
    /\ t \in DOMAIN trusts
    /\ job' = [job EXCEPT ![j] = [at |-> "trust", id |-> t, asked |-> asked]]
    /\ named' = named \cup {asked}
    /\ UNCHANGED <<users, trusts, nextTrust, goods, spent, shown, under>>

\* Fault: the row that was read is the one that is written, whoever's it is now.
SetReceiverOfAny(t, asked) ==
    IF t \in DOMAIN trusts /\ asked.receiver \in DOMAIN users
    THEN [trusts EXCEPT ![t].receiver = asked.receiver]
    ELSE trusts

\* UPDATE trusts SET receiver_user_id WHERE id AND passer_user_id.
SetReceiver(t, asked) ==
    IF t \in DOMAIN trusts /\ trusts[t].passer = asked.passer /\ asked.receiver \in DOMAIN users
    THEN [trusts EXCEPT ![t].receiver = asked.receiver]
    ELSE trusts

UpdateTrust(j) ==
    /\ job[j].at = "trust"
    /\ trusts' = SetReceiver(job[j].id, job[j].asked)
    /\ Finish(j)
    /\ UNCHANGED <<users, nextTrust, goods, spent, shown, named, under>>

\* Fault: trust_id without REFERENCES.
ReferredToNever(t) == t # t

\* REFERENCES trusts (id), of accounts, devices and subscriptions.
ReferredTo(t) == \E g \in DOMAIN goods : goods[g].trust = t

\* DELETE /trusts: a trust that is referred to stays.
DeleteTrust(t, passer) ==
    /\ SignedIn
    /\ t \in DOMAIN trusts /\ trusts[t].passer = passer
    /\ ~ReferredTo(t)
    /\ trusts' = Without(trusts, t)
    /\ UNCHANGED <<users, nextTrust, goods, spent, shown, job, named, under>>

-----------------------------------------------------------------------------
(* What is handed on                                                       *)

\* INSERT: the passer and the trust have to be there, and nothing says that they
\* have to do with each other.
CreateGood(kind, passer, t) ==
    /\ SignedIn
    /\ passer \in DOMAIN users /\ t \in DOMAIN trusts
    /\ \E g \in Good \ spent :
         /\ spent' = spent \cup {g}
         /\ goods' = Set(goods, g, [kind |-> kind, passer |-> passer, trust |-> t])
         /\ under' = Set(under, g, trusts[t].passer)
    /\ UNCHANGED <<users, trusts, nextTrust, shown, job, named>>

\* POST /accounts: the trust is one of those the page was shown, now or before.
CreateAccount(passer, t) == t \in shown /\ CreateGood("account", passer, t)

\* POST /devices and POST /subscriptions: the requests have no trust and the
\* handlers set none, which leaves the 0 of an int32.
UnsetTrust == 0
CreateDevice(passer)       == CreateGood("device", passer, UnsetTrust)
CreateSubscription(passer) == CreateGood("subscription", passer, UnsetTrust)

\* PUT /devices and PUT /subscriptions: a read, whose row is used for nothing else,
\* and an update of columns this module does not have.
GetGood(j, g) ==
    /\ SignedIn
    /\ job[j] = NoJob
    /\ g \in DOMAIN goods /\ goods[g].kind # "account"
    /\ job' = [job EXCEPT ![j] = [at |-> "good", id |-> g, row |-> goods[g]]]
    /\ UNCHANGED <<users, trusts, nextTrust, goods, spent, shown, named, under>>

\* Fault: an upsert of the row that was read.
WrittenAnyway(g, row) == Set(goods, g, row)

\* UPDATE ... WHERE id: no row, and an error, if it was deleted meanwhile.
Written(g, row) == [x \in DOMAIN goods |-> IF x = g THEN row ELSE goods[x]]

UpdateGood(j) ==
    /\ job[j].at = "good"
    /\ goods' = Written(job[j].id, job[j].row)
    /\ Finish(j)
    /\ UNCHANGED <<users, trusts, nextTrust, spent, shown, named, under>>

\* DELETE ... WHERE id AND passer_id.
DropGood(g, kinds, passer) ==
    /\ g \in DOMAIN goods /\ goods[g].kind \in kinds /\ goods[g].passer = passer
    /\ goods' = Without(goods, g)

\* DELETE /accounts and DELETE /devices: the passer is that of the body.
DeleteGood(g, passer) ==
    /\ SignedIn
    /\ DropGood(g, {"account", "device"}, passer)
    /\ UNCHANGED <<users, trusts, nextTrust, spent, shown, job, named, under>>

\* DELETE /subscriptions: the passer is the user that was resolved.
DeleteSubscription(j, g) ==
    /\ job[j].at = "resolved" /\ job[j].request = "delete"
    /\ DropGood(g, {"subscription"}, job[j].user)
    /\ Finish(j)
    /\ UNCHANGED <<users, trusts, nextTrust, spent, shown, named, under>>

-----------------------------------------------------------------------------
JobStep(j) ==
    \/ GiveUpJob(j) \/ ListReceivers(j) \/ UpdateTrust(j) \/ UpdateGood(j)
    \/ \E clerk \in Clerk, request \in {"receivers", "delete"} : ClerkAuth(j, clerk, request)
    \/ \E t \in TrustId, asked \in Trust : GetTrust(j, t, asked)
    \/ \E g \in Good : GetGood(j, g) \/ DeleteSubscription(j, g)

RegistryNext ==
    \/ \E j \in Job : JobStep(j)
    \/ \E clerk \in Clerk : CreateUser(clerk) \/ \E u \in User : UpdateUser(u, clerk)
    \/ \E passer \in User :
         \/ \E receiver \in User : CreateTrust(passer, receiver)
         \/ \E t \in TrustId : DeleteTrust(t, passer) \/ CreateAccount(passer, t)
         \/ CreateDevice(passer) \/ CreateSubscription(passer)
         \/ \E g \in Good : DeleteGood(g, passer)

RegistrySpec == RegistryInit /\ [][RegistryNext]_registryVars

-----------------------------------------------------------------------------
(* What must hold                                                          *)

\* Type invariant.
RegistryTypeOK ==
    /\ users \in [DOMAIN users -> Clerk] /\ DOMAIN users \subseteq User
    /\ trusts \in [DOMAIN trusts -> Trust] /\ DOMAIN trusts \subseteq TrustId
    /\ nextTrust \in 1..(MaxTrust + 1)
    /\ goods \in [DOMAIN goods -> [kind : Kinds, passer : User, trust : TrustId]]
    /\ DOMAIN goods \subseteq spent /\ spent \subseteq Good
    /\ shown \subseteq TrustId
    /\ \A j \in Job : job[j].at \in {"none", "resolved", "trust", "good"}
    /\ named \subseteq Trust
    /\ under \in [spent -> User]

\* Nobody becomes the receiver of a trust but by its passer's name: not by a PUT
\* that read a trust which was deleted since and whose id, which the seed had
\* chosen, the sequence gave to another passer.
ReceiversWereNamed == \A t \in DOMAIN trusts : trusts[t] \in named

\* The trust of an account, a device or a subscription is there and is of the
\* passer it was of when the row was made, although ids of trusts come again.
TrustsStay ==
    \A g \in DOMAIN goods :
        goods[g].trust \in DOMAIN trusts /\ trusts[goods[g].trust].passer = under[g]

\* A row that was deleted does not come back by an update that had read it before.
DeletedStaysDeleted == [][(spent \ DOMAIN goods) \cap DOMAIN goods' = {}]_registryVars
=============================================================================
