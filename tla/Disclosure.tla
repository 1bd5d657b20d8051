----------------------------- MODULE Disclosure -----------------------------
(***************************************************************************)
(* Disclosure requests and the alive check that rejects them.              *)
(*                                                                         *)
(* A requester posts a disclosure of a passer's accounts                   *)
(* (backend/handlers/disclosures.go).  The handler inserts the row, then   *)
(* mails the passer a magic link.  The link's token comes back to          *)
(* POST /verify/token (backend/handlers/verification.go), which reads the  *)
(* row, inserts an alive-check history and updates the row: three          *)
(* statements, each its own transaction, so that other requests, failures  *)
(* and the death of the replica come between them.                         *)
(*                                                                         *)
(* A table is a function whose domain is the set of primary keys present.  *)
(***************************************************************************)
EXTENDS Integers

CONSTANTS
    User,           \* users.id; every user is registered
    DisclosureId,   \* disclosures.id, a serial number greater than zero
    HistoryId,      \* alive_check_histories.id, fresh UUIDs
    Request,        \* POST /verify/token requests that may run at a time
    NoDisclosure,   \* a request body without disclosure_id, a link without one
    NoHistory,      \* prevented_by IS NULL
    Duration,       \* the deadlineDuration values asked for, in days
    LinkLife,       \* life of a disclosure's link, in days (7)
    SelfLife,       \* life of the link of /verify/send-email (1)
    MaxTime         \* bound on the clock

ASSUME DisclosureAssumption ==
    /\ NoDisclosure \notin DisclosureId
    /\ NoHistory \notin HistoryId
    /\ Duration \subseteq Int      \* an int32 of the body, nothing checks its sign
    /\ LinkLife \in Nat
    /\ SelfLife \in Nat
    /\ MaxTime \in Nat

VARIABLES
    disclosure, \* the disclosures table
    history,    \* the alive_check_histories table
    mailing,    \* disclosures whose POST handler has yet to send its mail
    mailed,     \* the links that were mailed
    pc,         \* how far each /verify/token request is, or how it was answered
    claim,      \* the link and the disclosure_id each of them was posted with
    snapshot,   \* the row a request has read and goes on using
    created,    \* the history a request has inserted
    now,        \* the clock, in days
    confirmed   \* history variable: the users whose token was accepted

tables   == <<disclosure, history>>
mail     == <<mailing, mailed>>
requests == <<pc, claim, snapshot, created>>
vars     == <<tables, mail, requests, now, confirmed>>

Row == [requester : User, passer : User, issued : Nat, deadline : Int,
        inProgress : BOOLEAN, disclosed : BOOLEAN,
        preventedBy : HistoryId \cup {NoHistory}]

History == [target : User, success : BOOLEAN]

\* A mailed link: the claims of its JWT, and the disclosure its URL names.
Link == [user : User, expires : Nat, about : DisclosureId \cup {NoDisclosure}]

Claim == [link : Link, id : DisclosureId \cup {NoDisclosure}]

\* The answers of POST /verify/token.
Answer == {"unauthorized", "validated", "not found", "denied", "already",
           "failed", "rejected"}

\* A slot is free before its first request, after an answer and after a crash.
Free(r) == pc[r] \in Answer \cup {"idle"}

\* The finite map f with k mapped to v, and without k.
Put(f, k, v) == [x \in DOMAIN f \cup {k} |-> IF x = k THEN v ELSE f[x]]
Drop(f, k)   == [x \in DOMAIN f \ {k} |-> f[x]]
Empty        == [x \in {} |-> x]

Init ==
    /\ disclosure = Empty
    /\ history = Empty
    /\ mailing = {}
    /\ mailed = {}
    /\ pc = [r \in Request |-> "idle"]
    /\ claim = Empty
    /\ snapshot = Empty
    /\ created = Empty
    /\ now = 0
    /\ confirmed = {}

-----------------------------------------------------------------------------
(* POST /disclosures                                                       *)

\* A row as it is inserted, and a link around a freshly signed token.
NewDisclosure(requester, passer, days) ==
    [requester   |-> requester,   passer     |-> passer,
     issued      |-> now,         deadline   |-> now + days,
     inProgress  |-> TRUE,        disclosed  |-> FALSE,
     preventedBy |-> NoHistory]

NewLink(user, life, about) == [user |-> user, expires |-> now + life, about |-> about]

\* The row is inserted; the handler goes on to the mail.
CreateDisclosure(requester, passer, days) ==
    /\ \E d \in DisclosureId \ DOMAIN disclosure :
         /\ disclosure' = Put(disclosure, d, NewDisclosure(requester, passer, days))
         /\ mailing' = mailing \cup {d}
    /\ UNCHANGED <<history, mailed, requests, now, confirmed>>

\* sendAliveCheckEmail: a token for the passer, in a link that names d.
SendAliveCheckEmail(d) ==
    /\ d \in mailing
    /\ mailing' = mailing \ {d}
    /\ mailed' = mailed \cup {NewLink(disclosure[d].passer, LinkLife, d)}
    /\ UNCHANGED <<tables, requests, now, confirmed>>

\* The directory, Clerk or the mail service fails, or the replica dies: every
\* one of these returns without a trace and nothing sends the mail again.
LoseAliveCheckEmail(d) ==
    /\ d \in mailing
    /\ mailing' = mailing \ {d}
    /\ UNCHANGED <<tables, mailed, requests, now, confirmed>>

\* POST /verify/send-email: a signed-in user has a link mailed to them.
SendVerificationEmail(u) ==
    /\ mailed' = mailed \cup {NewLink(u, SelfLife, NoDisclosure)}
    /\ UNCHANGED <<tables, mailing, requests, now, confirmed>>

-----------------------------------------------------------------------------
(* POST /verify/token                                                      *)

\* Fault: the locals outlive the request.
EndKeepsLocals(r, how) ==
    /\ pc' = [pc EXCEPT ![r] = how]
    /\ UNCHANGED <<snapshot, created>>

\* The handler returns: its locals are gone, but for the claim an answer is about.
End(r, how) ==
    /\ pc' = [pc EXCEPT ![r] = how]
    /\ snapshot' = Drop(snapshot, r)
    /\ created' = Drop(created, r)

Respond(r, answer) == End(r, answer) /\ UNCHANGED claim

\* The token does not verify: forged, or past its expiry.
RefuseToken(r) ==
    /\ Free(r)
    /\ End(r, "unauthorized")
    /\ claim' = Drop(claim, r)
    /\ UNCHANGED <<tables, mail, now, confirmed>>

\* An expiry still to come, of a token with a good signature.
Valid(link) == now < link.expires

\* The token verifies: HMAC, token type, and an expiry still to come.  Only
\* the claims are kept, the id to act on is the one of the request's body.
VerifyToken(r, link, id) ==
    /\ Free(r)
    /\ Valid(link)
    /\ claim' = Put(claim, r, [link |-> link, id |-> id])
    /\ pc' = [pc EXCEPT ![r] = IF id = NoDisclosure THEN "validated" ELSE "get"]
    /\ confirmed' = confirmed \cup {link.user}
    /\ UNCHANGED <<tables, mail, snapshot, created, now>>

\* Faults: the check is made on the wrong column, or dropped.
EntitledRequester(r) == disclosure[claim[r].id].requester = claim[r].link.user
EntitledAnyone(r)    == claim[r].link.user \in User

\* The user of the token is the passer of the row.
Entitled(r) == disclosure[claim[r].id].passer = claim[r].link.user

\* GetDisclosure and the three checks made on the row it returns.
GetDisclosure(r) ==
    LET id == claim[r].id IN
    /\ pc[r] = "get"
    /\ \/ /\ id \notin DOMAIN disclosure
          /\ Respond(r, "not found")
       \/ /\ id \in DOMAIN disclosure
          /\ ~Entitled(r)
          /\ Respond(r, "denied")
       \/ /\ id \in DOMAIN disclosure
          /\ Entitled(r)
          /\ ~disclosure[id].inProgress
          /\ Respond(r, "already")
       \/ /\ id \in DOMAIN disclosure
          /\ Entitled(r)
          /\ disclosure[id].inProgress
          /\ pc' = [pc EXCEPT ![r] = "create"]
          /\ snapshot' = Put(snapshot, r, disclosure[id])
          /\ UNCHANGED <<claim, created>>
    /\ UNCHANGED <<tables, mail, now, confirmed>>

\* INSERT INTO alive_check_histories, with check_success fixed to false.
InsertHistory(h, target) ==
    history' = Put(history, h, [target |-> target, success |-> FALSE])

CreateAliveCheckHistory(r) ==
    /\ pc[r] = "create"
    /\ \E h \in HistoryId \ DOMAIN history :
         /\ InsertHistory(h, claim[r].link.user)
         /\ created' = Put(created, r, h)
    /\ pc' = [pc EXCEPT ![r] = "update"]
    /\ UNCHANGED <<disclosure, mail, claim, snapshot, now, confirmed>>

\* Faults: prevented_by is left out, in_progress is left out, the parameters of
\* requester and passer are swapped.
TurnedDownUnprevented(row, h) ==
    [row EXCEPT !.disclosed = FALSE, !.inProgress = FALSE]
TurnedDownInProgress(row, h) ==
    [row EXCEPT !.disclosed = FALSE, !.preventedBy = h]
TurnedDownSwapped(row, h) ==
    [row EXCEPT !.disclosed = FALSE, !.preventedBy = h, !.inProgress = FALSE,
                !.requester = row.passer, !.passer = row.requester]

\* The row UpdateDisclosure writes: the snapshot, turned down.
TurnedDown(row, h) ==
    [row EXCEPT !.disclosed = FALSE, !.preventedBy = h, !.inProgress = FALSE]

\* Fault: the UPDATE is never committed.
WriteUncommitted(r) == claim[r].id \in DOMAIN disclosure /\ UNCHANGED disclosure

\* UPDATE disclosures ... WHERE id = $1 AND requester_id = $2.
WriteDisclosure(r) ==
    LET id == claim[r].id IN
    /\ id \in DOMAIN disclosure
    /\ disclosure[id].requester = snapshot[r].requester
    /\ disclosure' = [disclosure EXCEPT ![id] = TurnedDown(snapshot[r], created[r])]

UpdateDisclosure(r) ==
    /\ pc[r] = "update"
    /\ WriteDisclosure(r)
    /\ Respond(r, "rejected")
    /\ UNCHANGED <<history, mail, now, confirmed>>

\* A statement fails.  A failed read is answered like a missing row.  A failed
\* insert or update may still have been committed (the connection is lost
\* before the result), and the handler cannot tell.
StatementFails(r) ==
    /\ \/ /\ pc[r] = "get"
          /\ Respond(r, "not found")
          /\ UNCHANGED tables
       \/ /\ pc[r] \in {"create", "update"}
          /\ Respond(r, "failed")
          /\ UNCHANGED tables
       \/ /\ pc[r] = "create"
          /\ \E h \in HistoryId \ DOMAIN history :
               InsertHistory(h, claim[r].link.user)
          /\ Respond(r, "failed")
          /\ UNCHANGED disclosure
       \/ /\ pc[r] = "update"
          /\ WriteDisclosure(r)
          /\ Respond(r, "failed")
          /\ UNCHANGED history
    /\ UNCHANGED <<mail, now, confirmed>>

\* The replica serving r dies or is scaled in: no answer, nothing undone.
Crash(r) ==
    /\ ~Free(r)
    /\ End(r, "idle")
    /\ claim' = Drop(claim, r)
    /\ UNCHANGED <<tables, mail, now, confirmed>>

-----------------------------------------------------------------------------
(* POST and PUT /alive-checks                                              *)

\* Any signed-in user records a check of any target.
PostAliveCheck(target) ==
    /\ \E h \in HistoryId \ DOMAIN history : InsertHistory(h, target)
    /\ UNCHANGED <<disclosure, mail, requests, now, confirmed>>

\* Any signed-in user sets the outcome of any check.
PutAliveCheck(h, success) ==
    /\ h \in DOMAIN history
    /\ history' = [history EXCEPT ![h].success = success]
    /\ UNCHANGED <<disclosure, mail, requests, now, confirmed>>

Tick ==
    /\ now < MaxTime
    /\ now' = now + 1
    /\ UNCHANGED <<tables, mail, requests, confirmed>>

-----------------------------------------------------------------------------
VerifyStep(r) ==
    GetDisclosure(r) \/ CreateAliveCheckHistory(r) \/ UpdateDisclosure(r)
    \/ StatementFails(r)

MailStep(d) == SendAliveCheckEmail(d) \/ LoseAliveCheckEmail(d)

Next ==
    \/ \E u, p \in User, days \in Duration : CreateDisclosure(u, p, days)
    \/ \E d \in DisclosureId : MailStep(d)
    \/ \E u \in User : SendVerificationEmail(u) \/ PostAliveCheck(u)
    \/ \E r \in Request : RefuseToken(r) \/ VerifyStep(r) \/ Crash(r)
    \/ \E r \in Request, link \in mailed, id \in DisclosureId \cup {NoDisclosure} :
            VerifyToken(r, link, id)
    \/ \E h \in HistoryId, success \in BOOLEAN : PutAliveCheck(h, success)
    \/ Tick

Spec == Init /\ [][Next]_vars

\* A handler that has started runs on: Go schedules its goroutine, and each
\* statement returns a result or an error.  Users owe nothing.
Fairness ==
    /\ \A r \in Request : WF_vars(VerifyStep(r))
    /\ \A d \in DisclosureId : WF_vars(MailStep(d))

FairSpec == Spec /\ Fairness

-----------------------------------------------------------------------------
(* What must hold                                                          *)

Domains ==
    /\ DOMAIN disclosure \subseteq DisclosureId
    /\ DOMAIN history \subseteq HistoryId
    /\ DOMAIN claim = {r \in Request : pc[r] \notin {"idle", "unauthorized"}}
    /\ mailing \subseteq DOMAIN disclosure
    /\ DOMAIN snapshot = {r \in Request : pc[r] \in {"create", "update"}}
    /\ DOMAIN created = {r \in Request : pc[r] = "update"}

\* Type invariant.  The last three conjuncts of Domains are what keeps a
\* handler from using a row or a history it has not read, or one left over
\* from the request that used the slot before.
TypeOK ==
    /\ Domains
    /\ disclosure \in [DOMAIN disclosure -> Row]
    /\ history \in [DOMAIN history -> History]
    /\ mailed \subseteq Link
    /\ pc \in [Request -> Answer \cup {"idle", "get", "create", "update"}]
    /\ claim \in [DOMAIN claim -> Claim]
    /\ snapshot \in [DOMAIN snapshot -> Row]
    /\ created \in [DOMAIN created -> HistoryId]
    /\ now \in Nat
    /\ confirmed \subseteq User

\* A disclosure is out of progress exactly when an alive check prevented it,
\* whatever statements failed or interleaved: the status badge of the
\* requester's table (disclosures-table.tsx) has no third case to fall into.
StatusConsistent ==
    \A d \in DOMAIN disclosure :
        disclosure[d].inProgress <=> disclosure[d].preventedBy = NoHistory

\* A rejection is backed: the alive check that prevented a disclosure is in
\* the table, is about the disclosure's own passer, and that passer was
\* mailed a link.  The history and the row are written by two transactions,
\* by requests that race and may die between them.
RejectionBacked ==
    \A d \in DOMAIN disclosure :
        LET h == disclosure[d].preventedBy IN
        h # NoHistory =>
            /\ h \in DOMAIN history
            /\ history[h].target = disclosure[d].passer
            /\ \E link \in mailed : link.user = disclosure[d].passer

\* VerifyToken writes back the whole row it read before the history was
\* inserted.  What it holds may be stale, yet only in the status: the write
\* undoes nobody's change, and the check on the passer still stands.
StaleRowHarmless ==
    \A r \in DOMAIN snapshot :
        LET id == claim[r].id IN
        /\ id \in DOMAIN disclosure
        /\ snapshot[r] = [disclosure[id] EXCEPT !.inProgress = TRUE,
                                                !.preventedBy = NoHistory]
        /\ snapshot[r].passer = claim[r].link.user

\* What /verify/token answers stays true after the answer: "rejected" and
\* "already processed" are about a disclosure that is out of progress for
\* good, and "rejected" and "not entitled" about who its passer is.
AnswersTrue ==
    \A r \in Request :
        LET id == claim[r].id IN
        pc[r] \in {"rejected", "already", "denied"} =>
            /\ id \in DOMAIN disclosure
            /\ pc[r] \in {"rejected", "already"} => ~disclosure[id].inProgress
            /\ (pc[r] = "denied") <=> (disclosure[id].passer # claim[r].link.user)

\* What the handlers' locals rely on: a claim is that of a mailed link, a
\* history inserted by a request is about the user of its token, and no
\* statement the routes reach ever sets disclosed.
Bookkeeping ==
    /\ \A r \in DOMAIN claim :
          claim[r].link \in mailed /\ claim[r].link.user \in confirmed
    /\ \A r \in DOMAIN created :
          /\ created[r] \in DOMAIN history
          /\ history[created[r]].target = claim[r].link.user
    /\ \A d \in DOMAIN disclosure : ~disclosure[d].disclosed

\* The inductive invariant the proofs rest on.
IInv ==
    /\ TypeOK
    /\ StatusConsistent
    /\ RejectionBacked
    /\ StaleRowHarmless
    /\ AnswersTrue
    /\ Bookkeeping

\* No step of any handler deletes a disclosure, reopens a rejected one,
\* discloses one, or changes who asked for whose accounts, when, and until
\* when: UpdateDisclosure sets every column, from a row read earlier.
SameRequest(old, new) ==
    /\ new.requester = old.requester
    /\ new.passer = old.passer
    /\ new.issued = old.issued
    /\ new.deadline = old.deadline

RejectionIsFinal ==
    [][\A d \in DOMAIN disclosure :
          /\ d \in DOMAIN disclosure'
          /\ SameRequest(disclosure[d], disclosure'[d])
          /\ ~disclosure[d].inProgress => ~disclosure'[d].inProgress
          /\ ~disclosure'[d].disclosed]_vars

\* The handlers implement the abstract service: an UPDATE of an in-progress
\* row is its Reject, the second UPDATE of a double click a stuttering step.
Lifecycle == INSTANCE DisclosureLifecycle
    WITH passer   <- [d \in DOMAIN disclosure |-> disclosure[d].passer],
         rejected <- {d \in DOMAIN disclosure : ~disclosure[d].inProgress}

ImplementsLifecycle == Lifecycle!Spec

\* Every verify request that got past its token comes to an end, and one that
\* is answered "rejected" or "already" leaves its disclosure rejected.
Settled(r) ==
    /\ Free(r)
    /\ pc[r] \in {"rejected", "already"} => ~disclosure[claim[r].id].inProgress

EveryClickSettles ==
    \A r \in Request : pc[r] = "get" ~> Settled(r)

-----------------------------------------------------------------------------
(* What the repository says and the handlers do not do                     *)

\* disclosures.go:214 says that the token includes the disclosure's id: a
\* disclosure would only be rejected with the link that was mailed about it.
TokenBoundToDisclosure ==
    \A r \in Request : pc[r] = "rejected" => claim[r].link.about = claim[r].id

\* verification.go:182 answers "this disclosure has already been processed"
\* when it is not in progress: a processed disclosure would not be processed
\* again, and the alive check it names would stay the one that rejected it.
ProcessedOnce ==
    [][\A d \in DOMAIN disclosure :
          ~disclosure[d].inProgress => disclosure'[d] = disclosure[d]]_vars
=============================================================================
