-------------------------- MODULE DisclosureProofs --------------------------
(***************************************************************************)
(* Proofs about Disclosure, for every number of users, disclosures,        *)
(* requests and histories, every link life and every bound on the clock.   *)
(***************************************************************************)
EXTENDS Disclosure, TLAPS

-----------------------------------------------------------------------------
(* The type invariant                                                      *)

\* A request that ends frees its slot and loses its snapshot and its history.
LEMMA EndType ==
    ASSUME TypeOK, NEW r \in Request, NEW how \in Answer \cup {"idle"}, End(r, how)
    PROVE  /\ pc' = [pc EXCEPT ![r] = how]
           /\ pc' \in [Request -> Answer \cup {"idle", "get", "create", "update"}]
           /\ DOMAIN snapshot' = DOMAIN snapshot \ {r}
           /\ snapshot' \in [DOMAIN snapshot' -> Row]
           /\ \A q \in DOMAIN snapshot : q # r => snapshot'[q] = snapshot[q]
           /\ DOMAIN created' = DOMAIN created \ {r}
           /\ created' \in [DOMAIN created' -> HistoryId]
           /\ \A q \in DOMAIN created : q # r => created'[q] = created[q]
           /\ DOMAIN snapshot' = {q \in Request : pc'[q] \in {"create", "update"}}
           /\ DOMAIN created' = {q \in Request : pc'[q] = "update"}
<1>1. pc' = [pc EXCEPT ![r] = how] /\ how \notin {"get", "create", "update"}
  BY DEF End, Answer
<1>2. pc' \in [Request -> Answer \cup {"idle", "get", "create", "update"}]
  BY <1>1 DEF TypeOK
<1>3. /\ DOMAIN snapshot' = DOMAIN snapshot \ {r}
      /\ snapshot' \in [DOMAIN snapshot' -> Row]
      /\ \A q \in DOMAIN snapshot : q # r => snapshot'[q] = snapshot[q]
  BY DEF End, TypeOK, Drop
<1>4. /\ DOMAIN created' = DOMAIN created \ {r}
      /\ created' \in [DOMAIN created' -> HistoryId]
      /\ \A q \in DOMAIN created : q # r => created'[q] = created[q]
  BY DEF End, TypeOK, Drop
<1>5. DOMAIN snapshot' = {q \in Request : pc'[q] \in {"create", "update"}}
  BY <1>1, <1>3 DEF TypeOK, Domains
<1>6. DOMAIN created' = {q \in Request : pc'[q] = "update"}
  BY <1>1, <1>4 DEF TypeOK, Domains
<1>7. QED
  BY <1>1, <1>2, <1>3, <1>4, <1>5, <1>6

\* A request that is answered keeps its claim.
LEMMA RespondType ==
    ASSUME TypeOK, NEW r \in Request, NEW answer \in Answer \ {"unauthorized"},
           pc[r] \in {"get", "create", "update"}, Respond(r, answer)
    PROVE  /\ claim' = claim
           /\ DOMAIN claim' = {q \in Request : pc'[q] \notin {"idle", "unauthorized"}}
           /\ pc' \in [Request -> Answer \cup {"idle", "get", "create", "update"}]
           /\ snapshot' \in [DOMAIN snapshot' -> Row]
           /\ DOMAIN snapshot' = {q \in Request : pc'[q] \in {"create", "update"}}
           /\ created' \in [DOMAIN created' -> HistoryId]
           /\ DOMAIN created' = {q \in Request : pc'[q] = "update"}
<1>1. claim' = claim /\ End(r, answer) /\ pc' = [pc EXCEPT ![r] = answer]
  BY DEF Respond, End
<1>2. DOMAIN claim' = {q \in Request : pc'[q] \notin {"idle", "unauthorized"}}
  BY <1>1 DEF TypeOK, Domains, Answer
<1>3. QED
  BY <1>1, <1>2, EndType

\* The UPDATE writes a row of the table, and no other.
LEMMA WriteType ==
    ASSUME TypeOK, NEW r \in Request, pc[r] = "update", WriteDisclosure(r)
    PROVE  /\ DOMAIN disclosure' = DOMAIN disclosure
           /\ disclosure' \in [DOMAIN disclosure' -> Row]
<1>1. snapshot[r] \in Row /\ created[r] \in HistoryId
  BY DEF TypeOK, Domains
<1>2. TurnedDown(snapshot[r], created[r]) \in Row
  BY <1>1 DEF TurnedDown, Row
<1>3. QED
  BY <1>2 DEF WriteDisclosure, TypeOK

\* Every step of the service keeps its variables typed.
LEMMA TypeStep == TypeOK /\ [Next]_vars => TypeOK'
<1> SUFFICES ASSUME TypeOK, [Next]_vars
             PROVE  TypeOK'
  OBVIOUS
<1> USE DisclosureAssumption
<1>1. ASSUME NEW u \in User, NEW p \in User, NEW days \in Duration,
             CreateDisclosure(u, p, days)
      PROVE  TypeOK'
  <2>1. PICK d \in DisclosureId \ DOMAIN disclosure :
          /\ disclosure' = Put(disclosure, d, NewDisclosure(u, p, days))
          /\ mailing' = mailing \cup {d}
    BY <1>1 DEF CreateDisclosure
  <2>2. NewDisclosure(u, p, days) \in Row
    BY DEF NewDisclosure, Row, TypeOK
  <2>3. /\ DOMAIN disclosure' = DOMAIN disclosure \cup {d}
        /\ disclosure' \in [DOMAIN disclosure' -> Row]
    BY <2>1, <2>2 DEF InsertHistory, Put, TypeOK
  <2>4. QED
    BY <1>1, <2>1, <2>3 DEF CreateDisclosure, TypeOK, Domains, requests
<1>2. ASSUME NEW d \in DisclosureId, MailStep(d)
      PROVE  TypeOK'
  <2>1. CASE SendAliveCheckEmail(d)
    <3>1. NewLink(disclosure[d].passer, LinkLife, d) \in Link
      BY <2>1 DEF SendAliveCheckEmail, NewLink, TypeOK, Domains, Row, Link
    <3>2. QED
      BY <2>1, <3>1 DEF SendAliveCheckEmail, TypeOK, Domains, requests, tables
  <2>2. CASE LoseAliveCheckEmail(d)
    BY <2>2 DEF LoseAliveCheckEmail, TypeOK, Domains, requests, tables
  <2>3. QED
    BY <1>2, <2>1, <2>2 DEF MailStep
<1>3. ASSUME NEW u \in User, SendVerificationEmail(u)
      PROVE  TypeOK'
  <2>1. NewLink(u, SelfLife, NoDisclosure) \in Link
    BY DEF NewLink, TypeOK, Link
  <2>2. QED
    BY <1>3, <2>1 DEF SendVerificationEmail, TypeOK, Domains, requests, tables
<1>4. ASSUME NEW u \in User, PostAliveCheck(u)
      PROVE  TypeOK'
  <2>1. /\ DOMAIN history' \subseteq HistoryId
        /\ history' \in [DOMAIN history' -> History]
    BY <1>4 DEF PostAliveCheck, InsertHistory, Put, TypeOK, Domains, History
  <2>2. QED
    BY <1>4, <2>1 DEF PostAliveCheck, TypeOK, Domains, requests, mail
<1>5. ASSUME NEW r \in Request, RefuseToken(r)
      PROVE  TypeOK'
  <2>1. End(r, "unauthorized") /\ claim' = Drop(claim, r)
    BY <1>5 DEF RefuseToken
  <2>2. /\ DOMAIN claim' = DOMAIN claim \ {r}
        /\ claim' \in [DOMAIN claim' -> Claim]
    BY <2>1 DEF Drop, TypeOK
  <2>3. DOMAIN claim' = {q \in Request : pc'[q] \notin {"idle", "unauthorized"}}
    BY <2>1, <2>2 DEF End, TypeOK, Domains
  <2>4. QED
    BY <1>5, <2>1, <2>2, <2>3, EndType DEF RefuseToken, TypeOK, Domains, tables, mail, Answer
<1>6. ASSUME NEW r \in Request, Crash(r)
      PROVE  TypeOK'
  <2>1. End(r, "idle") /\ claim' = Drop(claim, r)
    BY <1>6 DEF Crash
  <2>2. /\ DOMAIN claim' = DOMAIN claim \ {r}
        /\ claim' \in [DOMAIN claim' -> Claim]
    BY <2>1 DEF Drop, TypeOK
  <2>3. DOMAIN claim' = {q \in Request : pc'[q] \notin {"idle", "unauthorized"}}
    BY <2>1, <2>2 DEF End, TypeOK, Domains
  <2>4. QED
    BY <1>6, <2>1, <2>2, <2>3, EndType DEF Crash, TypeOK, Domains, tables, mail, Answer
<1>7. ASSUME NEW r \in Request, NEW link \in mailed,
             NEW id \in DisclosureId \cup {NoDisclosure}, VerifyToken(r, link, id)
      PROVE  TypeOK'
  <2>1. [link |-> link, id |-> id] \in Claim
    BY DEF TypeOK, Claim
  <2>2. /\ DOMAIN claim' = DOMAIN claim \cup {r}
        /\ claim' \in [DOMAIN claim' -> Claim]
    BY <1>7, <2>1 DEF VerifyToken, Put, TypeOK
  <2>3. /\ pc' \in [Request -> Answer \cup {"idle", "get", "create", "update"}]
        /\ pc'[r] \in {"validated", "get"}
        /\ \A q \in Request : q # r => pc'[q] = pc[q]
        /\ pc[r] \notin {"get", "create", "update"}
    BY <1>7 DEF VerifyToken, TypeOK, Answer, Free
  <2>4. Domains'
    <3>1. DOMAIN claim' = {q \in Request : pc'[q] \notin {"idle", "unauthorized"}}
      BY <2>2, <2>3 DEF TypeOK, Domains
    <3>2. DOMAIN snapshot' = {q \in Request : pc'[q] \in {"create", "update"}}
      BY <1>7, <2>3 DEF VerifyToken, TypeOK, Domains
    <3>3. DOMAIN created' = {q \in Request : pc'[q] = "update"}
      BY <1>7, <2>3 DEF VerifyToken, TypeOK, Domains
    <3>4. QED
      BY <1>7, <3>1, <3>2, <3>3 DEF VerifyToken, TypeOK, Domains, tables, mail
  <2>5. link.user \in User
    BY DEF TypeOK, Link
  <2>6. QED
    BY <1>7, <2>2, <2>3, <2>4, <2>5 DEF VerifyToken, TypeOK, tables, mail
<1>8. ASSUME NEW r \in Request, GetDisclosure(r)
      PROVE  TypeOK'
  <2> DEFINE id == claim[r].id
  <2>1. r \in DOMAIN claim /\ pc[r] = "get"
    BY <1>8 DEF GetDisclosure, TypeOK, Domains
  <2>2. ASSUME NEW answer \in {"not found", "denied", "already"}, Respond(r, answer)
        PROVE  TypeOK'
    <3>1. /\ pc' = [pc EXCEPT ![r] = answer] /\ claim' = claim
          /\ DOMAIN claim' = {q \in Request : pc'[q] \notin {"idle", "unauthorized"}}
      BY <2>1, <2>2 DEF Respond, End, TypeOK, Domains
    <3>2. QED
      BY <1>8, <2>2, <3>1, EndType DEF GetDisclosure, Respond, TypeOK, Domains, tables, mail, Answer
  <2>3. CASE /\ id \in DOMAIN disclosure
             /\ pc' = [pc EXCEPT ![r] = "create"]
             /\ snapshot' = Put(snapshot, r, disclosure[id])
             /\ UNCHANGED <<claim, created>>
    <3>1. /\ DOMAIN snapshot' = DOMAIN snapshot \cup {r}
          /\ snapshot' \in [DOMAIN snapshot' -> Row]
      BY <2>3 DEF InsertHistory, Put, TypeOK
    <3>2. Domains'
      <4>1. DOMAIN snapshot' = {q \in Request : pc'[q] \in {"create", "update"}}
        BY <2>1, <2>3, <3>1 DEF TypeOK, Domains
      <4>2. DOMAIN created' = {q \in Request : pc'[q] = "update"}
        BY <2>1, <2>3 DEF TypeOK, Domains
      <4>3. DOMAIN claim' = {q \in Request : pc'[q] \notin {"idle", "unauthorized"}}
        BY <2>1, <2>3 DEF TypeOK, Domains
      <4>4. QED
        BY <1>8, <4>1, <4>2, <4>3 DEF GetDisclosure, TypeOK, Domains, tables, mail
    <3>3. QED
      BY <1>8, <2>3, <3>1, <3>2 DEF GetDisclosure, TypeOK, tables, mail
  <2>4. QED
    BY <1>8, <2>2, <2>3 DEF GetDisclosure
<1>9. ASSUME NEW r \in Request, CreateAliveCheckHistory(r)
      PROVE  TypeOK'
  <2>1. PICK h \in HistoryId \ DOMAIN history :
          /\ InsertHistory(h, claim[r].link.user)
          /\ created' = Put(created, r, h)
    BY <1>9 DEF CreateAliveCheckHistory
  <2>2. [target |-> claim[r].link.user, success |-> FALSE] \in History
    BY <1>9 DEF CreateAliveCheckHistory, TypeOK, Domains, History, Claim, Link
  <2>3. /\ DOMAIN history' = DOMAIN history \cup {h}
        /\ history' \in [DOMAIN history' -> History]
        /\ DOMAIN created' = DOMAIN created \cup {r}
        /\ created' \in [DOMAIN created' -> HistoryId]
    BY <2>1, <2>2 DEF InsertHistory, Put, TypeOK
  <2>4. Domains'
    BY <1>9, <2>3 DEF CreateAliveCheckHistory, TypeOK, Domains, mail
  <2>5. QED
    BY <1>9, <2>3, <2>4 DEF CreateAliveCheckHistory, TypeOK, mail
<1>10. ASSUME NEW r \in Request, UpdateDisclosure(r)
       PROVE  TypeOK'
  BY <1>10, WriteType, RespondType DEF UpdateDisclosure, TypeOK, Domains, mail, Answer
<1>11. ASSUME NEW r \in Request, StatementFails(r)
       PROVE  TypeOK'
  <2>1. CASE pc[r] = "get" /\ Respond(r, "not found") /\ UNCHANGED tables
    BY <1>11, <2>1, RespondType DEF StatementFails, TypeOK, Domains, tables, mail, Answer
  <2>2. CASE /\ pc[r] \in {"create", "update"}
             /\ Respond(r, "failed") /\ UNCHANGED tables
    BY <1>11, <2>2, RespondType DEF StatementFails, TypeOK, Domains, tables, mail, Answer
  <2>3. ASSUME pc[r] = "create", Respond(r, "failed"), UNCHANGED disclosure,
               NEW h \in HistoryId \ DOMAIN history,
               InsertHistory(h, claim[r].link.user)
        PROVE  TypeOK'
    <3>1. [target |-> claim[r].link.user, success |-> FALSE] \in History
      BY <2>3 DEF TypeOK, Domains, History, Claim, Link
    <3>2. /\ DOMAIN history' \subseteq HistoryId
          /\ history' \in [DOMAIN history' -> History]
      BY <2>3, <3>1 DEF InsertHistory, Put, TypeOK, Domains
    <3>3. QED
      BY <1>11, <2>3, <3>2, RespondType DEF StatementFails, TypeOK, Domains, mail, Answer
  <2>4. CASE /\ pc[r] = "update" /\ WriteDisclosure(r)
             /\ Respond(r, "failed") /\ UNCHANGED history
    BY <1>11, <2>4, WriteType, RespondType DEF StatementFails, TypeOK, Domains, mail, Answer
  <2>5. QED
    BY <1>11, <2>1, <2>2, <2>3, <2>4 DEF StatementFails
<1>12. ASSUME NEW h \in HistoryId, NEW success \in BOOLEAN, PutAliveCheck(h, success)
       PROVE  TypeOK'
  <2>1. /\ DOMAIN history' = DOMAIN history
        /\ history' \in [DOMAIN history' -> History]
    BY <1>12 DEF PutAliveCheck, TypeOK, History
  <2>2. QED
    BY <1>12, <2>1 DEF PutAliveCheck, TypeOK, Domains, mail, requests
<1>13. CASE Tick
  BY <1>13 DEF Tick, TypeOK, Domains, tables, mail, requests
<1>14. CASE UNCHANGED vars
  BY <1>14 DEF vars, TypeOK, Domains, tables, mail, requests
<1>15. QED
  BY <1>1, <1>2, <1>3, <1>4, <1>5, <1>6, <1>7, <1>8, <1>9, <1>10, <1>11,
     <1>12, <1>13, <1>14 DEF Next, VerifyStep

\* Type correctness of Disclosure: its tables hold rows of their schema, and
\* a request owns a snapshot and a history exactly while its handler does.
THEOREM TypeCorrect == Spec => []TypeOK
<1>1. Init => TypeOK
  BY DisclosureAssumption DEF Init, TypeOK, Domains, Empty
<1>2. QED
  BY <1>1, TypeStep, PTL DEF Spec

-----------------------------------------------------------------------------
(* The inductive invariant                                                 *)

\* Steps that leave disclosures and requests alone, lose no history and no
\* mail, and change no history's target: the mails, /alive-checks, the clock.
LEMMA InvFrame ==
    ASSUME IInv, TypeOK', UNCHANGED <<disclosure, requests, confirmed>>,
           mailed \subseteq mailed',
           \A h \in DOMAIN history :
              h \in DOMAIN history' /\ history'[h].target = history[h].target
    PROVE  IInv'
<1>1. StatusConsistent' /\ StaleRowHarmless' /\ AnswersTrue'
  BY DEF IInv, StatusConsistent, StaleRowHarmless, AnswersTrue, requests
<1>2. RejectionBacked'
  BY DEF IInv, RejectionBacked, TypeOK, Row
<1>3. Bookkeeping'
  BY DEF IInv, Bookkeeping, requests
<1>4. QED
  BY <1>1, <1>2, <1>3 DEF IInv

\* A request that ends without having written the disclosures table: its
\* locals go, and its answer is true of the table as it is.
LEMMA InvEnd ==
    ASSUME IInv, TypeOK', NEW r \in Request, NEW how \in Answer \cup {"idle"},
           End(r, how), UNCHANGED <<disclosure, mail, confirmed>>,
           \/ claim' = claim
           \/ claim' = Drop(claim, r) /\ how \in {"idle", "unauthorized"},
           \A h \in DOMAIN history :
              h \in DOMAIN history' /\ history'[h].target = history[h].target,
           how \in {"rejected", "already", "denied"} =>
               /\ claim[r].id \in DOMAIN disclosure
               /\ how \in {"rejected", "already"} => ~disclosure[claim[r].id].inProgress
               /\ (how = "denied") <=>
                     (disclosure[claim[r].id].passer # claim[r].link.user)
    PROVE  IInv'
<1> USE DEF IInv
<1>1. /\ pc' = [pc EXCEPT ![r] = how]
      /\ DOMAIN snapshot' = DOMAIN snapshot \ {r}
      /\ \A q \in DOMAIN snapshot : q # r => snapshot'[q] = snapshot[q]
      /\ DOMAIN created' = DOMAIN created \ {r}
      /\ \A q \in DOMAIN created : q # r => created'[q] = created[q]
  BY EndType
<1>2. /\ DOMAIN claim' \subseteq DOMAIN claim
      /\ \A q \in DOMAIN claim' : claim'[q] = claim[q]
      /\ \A q \in DOMAIN claim : q # r => claim'[q] = claim[q]
  BY DEF Drop
<1>3. DOMAIN snapshot \subseteq DOMAIN claim /\ DOMAIN created \subseteq DOMAIN claim
  BY DEF TypeOK, Domains
<1>4. StatusConsistent'
  BY DEF StatusConsistent
<1>5. RejectionBacked'
  BY DEF RejectionBacked, mail
<1>6. StaleRowHarmless'
  BY <1>1, <1>2, <1>3 DEF StaleRowHarmless
<1>7. AnswersTrue'
  <2> SUFFICES ASSUME NEW q \in Request, pc'[q] \in {"rejected", "already", "denied"}
               PROVE  /\ claim'[q].id \in DOMAIN disclosure
                      /\ pc'[q] \in {"rejected", "already"}
                            => ~disclosure[claim'[q].id].inProgress
                      /\ (pc'[q] = "denied") <=>
                            (disclosure[claim'[q].id].passer # claim'[q].link.user)
    BY DEF AnswersTrue
  <2>1. CASE q = r
    <3>1. pc'[r] = how /\ claim' = claim
      BY <1>1, <2>1 DEF TypeOK
    <3>2. QED
      BY <2>1, <3>1
  <2>2. CASE q # r
    <3>1. pc'[q] = pc[q] /\ q \in DOMAIN claim /\ claim'[q] = claim[q]
      BY <1>1, <1>2, <2>2 DEF TypeOK, Domains
    <3>2. QED
      BY <3>1 DEF AnswersTrue
  <2>3. QED
    BY <2>1, <2>2
<1>8. Bookkeeping'
  BY <1>1, <1>2, <1>3 DEF Bookkeeping, mail
<1>9. QED
  BY <1>4, <1>5, <1>6, <1>7, <1>8

\* A row is given by its fields.
LEMMA RowEquality ==
    ASSUME NEW row \in Row, row.inProgress, ~row.disclosed,
           row.preventedBy = NoHistory, NEW h
    PROVE  row = [TurnedDown(row, h) EXCEPT !.inProgress = TRUE,
                                            !.preventedBy = NoHistory]
BY DEF Row, TurnedDown

\* The UPDATE of a snapshot that is stale at most in its status turns the row
\* down and changes nothing else of it.
LEMMA WriteEffect ==
    ASSUME IInv, NEW r \in Request, pc[r] = "update", WriteDisclosure(r)
    PROVE  LET id == claim[r].id IN
           /\ id \in DOMAIN disclosure
           /\ DOMAIN disclosure' = DOMAIN disclosure
           /\ \A d \in DOMAIN disclosure : d # id => disclosure'[d] = disclosure[d]
           /\ SameRequest(disclosure[id], disclosure'[id])
           /\ ~disclosure'[id].inProgress
           /\ ~disclosure'[id].disclosed
           /\ disclosure'[id].preventedBy = created[r]
           /\ disclosure'[id].passer = claim[r].link.user
           /\ [disclosure'[id] EXCEPT !.inProgress = TRUE, !.preventedBy = NoHistory]
                = [disclosure[id] EXCEPT !.inProgress = TRUE, !.preventedBy = NoHistory]
<1> DEFINE id == claim[r].id
           row == snapshot[r]
<1>1. /\ r \in DOMAIN snapshot /\ r \in DOMAIN created /\ row \in Row
      /\ id \in DOMAIN disclosure /\ disclosure[id] \in Row
  BY DEF IInv, TypeOK, Domains, WriteDisclosure
<1>2. /\ row = [disclosure[id] EXCEPT !.inProgress = TRUE, !.preventedBy = NoHistory]
      /\ row.passer = claim[r].link.user
  BY <1>1 DEF IInv, StaleRowHarmless
<1>3. disclosure' = [disclosure EXCEPT ![id] = TurnedDown(row, created[r])]
  BY DEF WriteDisclosure
<1>4. disclosure'[id] = TurnedDown(row, created[r])
  BY <1>1, <1>3
<1>5. ~disclosure[id].disclosed
  BY <1>1 DEF IInv, Bookkeeping
<1>6. row.inProgress /\ ~row.disclosed /\ row.preventedBy = NoHistory
  <2>1. row = [requester   |-> disclosure[id].requester,
               passer      |-> disclosure[id].passer,
               issued      |-> disclosure[id].issued,
               deadline    |-> disclosure[id].deadline,
               inProgress  |-> TRUE,
               disclosed   |-> disclosure[id].disclosed,
               preventedBy |-> NoHistory]
    BY <1>1, <1>2 DEF Row
  <2>2. QED
    BY <1>5, <2>1
<1>7. SameRequest(disclosure[id], row)
  BY <1>1, <1>2 DEF SameRequest, Row
<1>8. /\ SameRequest(disclosure[id], disclosure'[id])
      /\ ~disclosure'[id].inProgress
      /\ ~disclosure'[id].disclosed
      /\ disclosure'[id].preventedBy = created[r]
      /\ disclosure'[id].passer = claim[r].link.user
  <2>1. disclosure'[id] = [requester   |-> row.requester,
                           passer      |-> row.passer,
                           issued      |-> row.issued,
                           deadline    |-> row.deadline,
                           inProgress  |-> FALSE,
                           disclosed   |-> FALSE,
                           preventedBy |-> created[r]]
    BY <1>1, <1>4 DEF TurnedDown, Row
  <2>2. QED
    BY <1>2, <1>7, <2>1 DEF SameRequest
<1>9. row = [disclosure'[id] EXCEPT !.inProgress = TRUE, !.preventedBy = NoHistory]
  <2>1. row = [TurnedDown(row, created[r]) EXCEPT !.inProgress = TRUE,
                                                  !.preventedBy = NoHistory]
    <3>1. \A x \in Row : \A h : /\ x.inProgress
                            /\ ~x.disclosed
                            /\ x.preventedBy = NoHistory
            => x = [TurnedDown(x, h) EXCEPT !.inProgress = TRUE,
                                            !.preventedBy = NoHistory]
      BY RowEquality
    <3>2. QED
      BY <1>1, <1>6, <3>1
  <2>2. QED
    BY <1>4, <2>1
<1>10. [disclosure'[id] EXCEPT !.inProgress = TRUE, !.preventedBy = NoHistory]
         = [disclosure[id] EXCEPT !.inProgress = TRUE, !.preventedBy = NoHistory]
  BY <1>2, <1>9
<1>11. /\ DOMAIN disclosure' = DOMAIN disclosure
       /\ \A d \in DOMAIN disclosure : d # id => disclosure'[d] = disclosure[d]
  BY <1>3
<1>12. QED
  BY <1>1, <1>8, <1>10, <1>11

\* The UPDATE keeps the invariant, however the request that made it is answered.
LEMMA InvWrite ==
    ASSUME IInv, TypeOK', NEW r \in Request, pc[r] = "update", WriteDisclosure(r),
           NEW answer \in {"rejected", "failed"}, Respond(r, answer),
           UNCHANGED <<history, mail, confirmed>>
    PROVE  IInv'
<1> DEFINE id == claim[r].id
<1> USE DEF IInv
<1>1. /\ id \in DOMAIN disclosure
      /\ DOMAIN disclosure' = DOMAIN disclosure
      /\ \A d \in DOMAIN disclosure : d # id => disclosure'[d] = disclosure[d]
      /\ SameRequest(disclosure[id], disclosure'[id])
      /\ ~disclosure'[id].inProgress
      /\ ~disclosure'[id].disclosed
      /\ disclosure'[id].preventedBy = created[r]
      /\ disclosure'[id].passer = claim[r].link.user
      /\ [disclosure'[id] EXCEPT !.inProgress = TRUE, !.preventedBy = NoHistory]
           = [disclosure[id] EXCEPT !.inProgress = TRUE, !.preventedBy = NoHistory]
  BY WriteEffect
<1>2. /\ claim' = claim
      /\ pc' = [pc EXCEPT ![r] = answer]
      /\ DOMAIN snapshot' = DOMAIN snapshot \ {r}
      /\ \A q \in DOMAIN snapshot : q # r => snapshot'[q] = snapshot[q]
      /\ DOMAIN created' = DOMAIN created \ {r}
      /\ \A q \in DOMAIN created : q # r => created'[q] = created[q]
  BY EndType DEF Respond, Answer
<1>3. /\ r \in DOMAIN claim /\ r \in DOMAIN created /\ created[r] \in HistoryId
      /\ created[r] # NoHistory
  BY DisclosureAssumption DEF TypeOK, Domains
<1>4. StatusConsistent'
  BY <1>1, <1>3 DEF StatusConsistent
<1>5. RejectionBacked'
  <2> SUFFICES ASSUME NEW d \in DOMAIN disclosure, disclosure'[d].preventedBy # NoHistory
               PROVE  LET h == disclosure'[d].preventedBy IN
                      /\ h \in DOMAIN history
                      /\ history[h].target = disclosure'[d].passer
                      /\ \E link \in mailed : link.user = disclosure'[d].passer
    BY <1>1 DEF RejectionBacked, mail
  <2>1. CASE d = id
    BY <1>1, <1>3, <2>1 DEF Bookkeeping
  <2>2. CASE d # id
    BY <1>1, <2>2 DEF RejectionBacked
  <2>3. QED
    BY <2>1, <2>2
<1>6. StaleRowHarmless'
  <2> SUFFICES ASSUME NEW q \in DOMAIN snapshot'
               PROVE  LET d == claim[q].id IN
                      /\ d \in DOMAIN disclosure'
                      /\ snapshot'[q] = [disclosure'[d] EXCEPT !.inProgress = TRUE,
                                                               !.preventedBy = NoHistory]
                      /\ snapshot'[q].passer = claim[q].link.user
    BY <1>2 DEF StaleRowHarmless
  <2>1. q \in DOMAIN snapshot /\ snapshot'[q] = snapshot[q]
    BY <1>2
  <2>2. /\ claim[q].id \in DOMAIN disclosure
        /\ snapshot[q] = [disclosure[claim[q].id] EXCEPT !.inProgress = TRUE,
                                                         !.preventedBy = NoHistory]
        /\ snapshot[q].passer = claim[q].link.user
    BY <2>1 DEF StaleRowHarmless
  <2>3. CASE claim[q].id = id
    BY <1>1, <2>1, <2>2, <2>3
  <2>4. CASE claim[q].id # id
    BY <1>1, <2>1, <2>2, <2>4
  <2>5. QED
    BY <2>3, <2>4
<1>7. AnswersTrue'
  <2> SUFFICES ASSUME NEW q \in Request, pc'[q] \in {"rejected", "already", "denied"}
               PROVE  /\ claim[q].id \in DOMAIN disclosure'
                      /\ pc'[q] \in {"rejected", "already"}
                            => ~disclosure'[claim[q].id].inProgress
                      /\ (pc'[q] = "denied") <=>
                            (disclosure'[claim[q].id].passer # claim[q].link.user)
    BY <1>2 DEF AnswersTrue
  <2>1. CASE q = r
    <3>1. pc'[q] = answer /\ pc'[q] = "rejected"
      BY <1>2, <2>1 DEF TypeOK
    <3>2. QED
      BY <1>1, <2>1, <3>1
  <2>2. CASE q # r
    <3>1. pc'[q] = pc[q]
      BY <1>2, <2>2 DEF TypeOK
    <3>2. /\ claim[q].id \in DOMAIN disclosure
          /\ pc[q] \in {"rejected", "already"} => ~disclosure[claim[q].id].inProgress
          /\ (pc[q] = "denied") <=> (disclosure[claim[q].id].passer # claim[q].link.user)
      BY <3>1 DEF AnswersTrue
    <3>3. QED
      BY <1>1, <3>1, <3>2 DEF SameRequest
  <2>3. QED
    BY <2>1, <2>2
<1>8. Bookkeeping'
  BY <1>1, <1>2 DEF Bookkeeping, mail
<1>9. QED
  BY <1>4, <1>5, <1>6, <1>7, <1>8

\* Every step of the service preserves the invariant.
LEMMA InvStep == IInv /\ [Next]_vars => IInv'
<1> SUFFICES ASSUME IInv, [Next]_vars
             PROVE  IInv'
  OBVIOUS
<1> USE DisclosureAssumption
<1>0. TypeOK /\ TypeOK'
  BY TypeStep DEF IInv
<1>1. ASSUME NEW u \in User, NEW p \in User, NEW days \in Duration,
             CreateDisclosure(u, p, days)
      PROVE  IInv'
  <2>1. PICK d \in DisclosureId \ DOMAIN disclosure :
          disclosure' = Put(disclosure, d, NewDisclosure(u, p, days))
    BY <1>1 DEF CreateDisclosure
  <2>2. /\ DOMAIN disclosure' = DOMAIN disclosure \cup {d}
        /\ disclosure'[d].inProgress
        /\ ~disclosure'[d].disclosed
        /\ disclosure'[d].preventedBy = NoHistory
        /\ \A e \in DOMAIN disclosure : disclosure'[e] = disclosure[e]
    BY <2>1 DEF NewDisclosure, Put
  <2>3. UNCHANGED <<history, mailed, pc, claim, snapshot, created, confirmed>>
    BY <1>1 DEF CreateDisclosure, requests
  <2>4. StatusConsistent' /\ RejectionBacked' /\ Bookkeeping'
    BY <2>2, <2>3 DEF IInv, StatusConsistent, RejectionBacked, Bookkeeping
  <2>5. StaleRowHarmless'
    BY <2>2, <2>3 DEF IInv, StaleRowHarmless
  <2>6. AnswersTrue'
    BY <2>2, <2>3 DEF IInv, AnswersTrue
  <2>7. QED
    BY <1>0, <2>4, <2>5, <2>6 DEF IInv
<1>2. ASSUME NEW d \in DisclosureId, MailStep(d)
      PROVE  IInv'
  BY <1>0, <1>2, InvFrame
     DEF MailStep, SendAliveCheckEmail, LoseAliveCheckEmail, tables, requests
<1>3. ASSUME NEW u \in User, SendVerificationEmail(u)
      PROVE  IInv'
  BY <1>0, <1>3, InvFrame DEF SendVerificationEmail, tables, requests
<1>4. ASSUME NEW u \in User, PostAliveCheck(u)
      PROVE  IInv'
  <2>1. \A h \in DOMAIN history :
           h \in DOMAIN history' /\ history'[h].target = history[h].target
    BY <1>4 DEF PostAliveCheck, InsertHistory, Put
  <2>2. QED
    BY <1>0, <1>4, <2>1, InvFrame DEF PostAliveCheck, mail, requests
<1>5. ASSUME NEW r \in Request, RefuseToken(r)
      PROVE  IInv'
  BY <1>0, <1>5, InvEnd DEF RefuseToken, tables, mail, Answer
<1>6. ASSUME NEW r \in Request, Crash(r)
      PROVE  IInv'
  BY <1>0, <1>6, InvEnd DEF Crash, tables, mail, Answer
<1>7. ASSUME NEW r \in Request, NEW link \in mailed,
             NEW id \in DisclosureId \cup {NoDisclosure}, VerifyToken(r, link, id)
      PROVE  IInv'
  <2>1. /\ DOMAIN claim' = DOMAIN claim \cup {r}
        /\ claim'[r] = [link |-> link, id |-> id]
        /\ \A q \in DOMAIN claim : q # r => claim'[q] = claim[q]
    BY <1>7 DEF VerifyToken, Put
  <2>2. /\ pc'[r] \in {"validated", "get"}
        /\ \A q \in Request : q # r => pc'[q] = pc[q]
        /\ r \notin DOMAIN snapshot /\ r \notin DOMAIN created
    BY <1>0, <1>7 DEF VerifyToken, TypeOK, Domains, Answer, Free
  <2>3. /\ UNCHANGED <<disclosure, history, mailed, snapshot, created>>
        /\ confirmed' = confirmed \cup {link.user}
    BY <1>7 DEF VerifyToken, tables, mail
  <2>4. DOMAIN snapshot \subseteq DOMAIN claim /\ DOMAIN created \subseteq DOMAIN claim
    BY <1>0 DEF TypeOK, Domains
  <2>5. StatusConsistent' /\ RejectionBacked'
    BY <2>3 DEF IInv, StatusConsistent, RejectionBacked
  <2>6. StaleRowHarmless'
    BY <2>1, <2>2, <2>3, <2>4 DEF IInv, StaleRowHarmless
  <2>7. AnswersTrue'
    BY <1>0, <2>1, <2>2, <2>3 DEF IInv, AnswersTrue, TypeOK, Domains
  <2>8. Bookkeeping'
    BY <2>1, <2>2, <2>3, <2>4 DEF IInv, Bookkeeping
  <2>9. QED
    BY <1>0, <2>5, <2>6, <2>7, <2>8 DEF IInv
<1>8. ASSUME NEW r \in Request, GetDisclosure(r)
      PROVE  IInv'
  <2> DEFINE id == claim[r].id
  <2>1. /\ r \in DOMAIN claim /\ pc[r] = "get"
        /\ UNCHANGED <<disclosure, history, mail, confirmed>>
    BY <1>0, <1>8 DEF GetDisclosure, TypeOK, Domains, tables
  <2>2. CASE Respond(r, "not found")
    BY <1>0, <2>1, <2>2, InvEnd DEF Respond, Answer
  <2>3. CASE /\ id \in DOMAIN disclosure /\ ~Entitled(r)
             /\ Respond(r, "denied")
    BY <1>0, <2>1, <2>3, InvEnd DEF Respond, Answer, Entitled
  <2>4. CASE /\ id \in DOMAIN disclosure /\ Entitled(r)
             /\ ~disclosure[id].inProgress
             /\ Respond(r, "already")
    BY <1>0, <2>1, <2>4, InvEnd DEF Respond, Answer, Entitled
  <2>5. CASE /\ id \in DOMAIN disclosure /\ Entitled(r)
             /\ disclosure[id].inProgress
             /\ pc' = [pc EXCEPT ![r] = "create"]
             /\ snapshot' = Put(snapshot, r, disclosure[id])
             /\ UNCHANGED <<claim, created>>
    <3>1. /\ DOMAIN snapshot' = DOMAIN snapshot \cup {r}
          /\ snapshot'[r] = disclosure[id]
          /\ \A q \in DOMAIN snapshot : q # r => snapshot'[q] = snapshot[q]
      BY <2>5 DEF InsertHistory, Put
    <3>2. disclosure[id] = [disclosure[id] EXCEPT !.inProgress = TRUE,
                                                  !.preventedBy = NoHistory]
      BY <1>0, <2>5 DEF IInv, StatusConsistent, TypeOK, Row
    <3>3. StaleRowHarmless'
      BY <2>1, <2>5, <3>1, <3>2 DEF IInv, StaleRowHarmless, Entitled
    <3>4. AnswersTrue'
      BY <1>0, <2>1, <2>5 DEF IInv, AnswersTrue, TypeOK
    <3>5. StatusConsistent' /\ RejectionBacked' /\ Bookkeeping'
      BY <2>1, <2>5 DEF IInv, StatusConsistent, RejectionBacked, Bookkeeping, mail
    <3>6. QED
      BY <1>0, <3>3, <3>4, <3>5 DEF IInv
  <2>6. QED
    BY <1>8, <2>2, <2>3, <2>4, <2>5 DEF GetDisclosure
<1>9. ASSUME NEW r \in Request, CreateAliveCheckHistory(r)
      PROVE  IInv'
  <2>1. PICK h \in HistoryId \ DOMAIN history :
          /\ InsertHistory(h, claim[r].link.user)
          /\ created' = Put(created, r, h)
    BY <1>9 DEF CreateAliveCheckHistory
  <2>2. /\ DOMAIN history' = DOMAIN history \cup {h}
        /\ history'[h].target = claim[r].link.user
        /\ \A g \in DOMAIN history : history'[g] = history[g]
        /\ DOMAIN created' = DOMAIN created \cup {r}
        /\ created'[r] = h
        /\ \A q \in DOMAIN created : q # r => created'[q] = created[q]
    BY <2>1 DEF InsertHistory, Put
  <2>3. /\ UNCHANGED <<disclosure, mail, claim, snapshot, confirmed>>
        /\ pc[r] = "create" /\ pc' = [pc EXCEPT ![r] = "update"]
    BY <1>9 DEF CreateAliveCheckHistory
  <2>4. StatusConsistent' /\ StaleRowHarmless'
    BY <2>3 DEF IInv, StatusConsistent, StaleRowHarmless
  <2>5. RejectionBacked'
    BY <2>2, <2>3 DEF IInv, RejectionBacked, mail
  <2>6. AnswersTrue'
    BY <1>0, <2>3 DEF IInv, AnswersTrue, TypeOK
  <2>7. Bookkeeping'
    BY <2>2, <2>3 DEF IInv, Bookkeeping, mail
  <2>8. QED
    BY <1>0, <2>4, <2>5, <2>6, <2>7 DEF IInv
<1>10. ASSUME NEW r \in Request, UpdateDisclosure(r)
       PROVE  IInv'
  BY <1>0, <1>10, InvWrite DEF UpdateDisclosure
<1>11. ASSUME NEW r \in Request, StatementFails(r)
       PROVE  IInv'
  <2>1. UNCHANGED <<mail, confirmed>>
    BY <1>11 DEF StatementFails
  <2>2. CASE /\ UNCHANGED tables
             /\ Respond(r, "not found") \/ Respond(r, "failed")
    BY <1>0, <2>1, <2>2, InvEnd DEF Respond, Answer, tables
  <2>3. CASE /\ \E h \in HistoryId \ DOMAIN history :
                  InsertHistory(h, claim[r].link.user)
             /\ Respond(r, "failed")
             /\ UNCHANGED disclosure
    <3>1. \A h \in DOMAIN history :
             h \in DOMAIN history' /\ history'[h].target = history[h].target
      BY <2>3 DEF InsertHistory, Put
    <3>2. QED
      BY <1>0, <2>1, <2>3, <3>1, InvEnd DEF Respond, Answer, Entitled
  <2>4. CASE /\ pc[r] = "update" /\ WriteDisclosure(r)
             /\ Respond(r, "failed") /\ UNCHANGED history
    BY <1>0, <2>1, <2>4, InvWrite
  <2>5. QED
    BY <1>11, <2>2, <2>3, <2>4 DEF StatementFails
<1>12. ASSUME NEW h \in HistoryId, NEW success \in BOOLEAN, PutAliveCheck(h, success)
       PROVE  IInv'
  <2>1. \A g \in DOMAIN history :
           g \in DOMAIN history' /\ history'[g].target = history[g].target
    BY <1>0, <1>12 DEF PutAliveCheck, TypeOK, History
  <2>2. QED
    BY <1>0, <1>12, <2>1, InvFrame DEF PutAliveCheck, mail, requests
<1>13. CASE Tick
  BY <1>0, <1>13, InvFrame DEF Tick, tables, mail, requests
<1>14. CASE UNCHANGED vars
  BY <1>0, <1>14, InvFrame DEF vars, tables, mail, requests
<1>15. QED
  BY <1>1, <1>2, <1>3, <1>4, <1>5, <1>6, <1>7, <1>8, <1>9, <1>10, <1>11,
     <1>12, <1>13, <1>14 DEF Next, VerifyStep

\* The invariant that a rejection is backed and an answer true holds of every
\* behaviour of the service.
THEOREM Invariance == Spec => []IInv
<1>1. Init => IInv
  <2>1. Init => TypeOK
    BY DisclosureAssumption DEF Init, TypeOK, Domains, Empty
  <2>2. QED
    BY <2>1 DEF Init, IInv, StatusConsistent, RejectionBacked, StaleRowHarmless,
                AnswersTrue, Bookkeeping, Empty
<1>2. QED
  BY <1>1, InvStep, PTL DEF Spec

\* A rejected disclosure names an alive check of its own passer, to whom a link
\* was mailed, whatever requests raced or died between their transactions.
THEOREM RejectionsAreBacked == Spec => []RejectionBacked
<1>1. IInv => RejectionBacked
  BY DEF IInv
<1>2. QED
  BY <1>1, Invariance, PTL

\* A disclosure is in progress exactly while nothing has prevented it.
THEOREM StatusesAreConsistent == Spec => []StatusConsistent
<1>1. IInv => StatusConsistent
  BY DEF IInv
<1>2. QED
  BY <1>1, Invariance, PTL

\* A handler that writes the row it has read earlier undoes no other's write.
THEOREM StaleRowsAreHarmless == Spec => []StaleRowHarmless
<1>1. IInv => StaleRowHarmless
  BY DEF IInv
<1>2. QED
  BY <1>1, Invariance, PTL

\* What /verify/token answers about a disclosure is so, and stays so.
THEOREM AnswersAreTrue == Spec => []AnswersTrue
<1>1. IInv => AnswersTrue
  BY DEF IInv
<1>2. QED
  BY <1>1, Invariance, PTL

-----------------------------------------------------------------------------
(* What a step may do to the disclosures table                             *)

\* A request inserts a row; a token's user is confirmed; an UPDATE.
Inserts(d, p) ==
    /\ d \notin DOMAIN disclosure
    /\ DOMAIN disclosure' = DOMAIN disclosure \cup {d}
    /\ \A e \in DOMAIN disclosure : disclosure'[e] = disclosure[e]
    /\ disclosure'[d].passer = p
    /\ disclosure'[d].inProgress
    /\ UNCHANGED confirmed

Confirms(u) == confirmed' = confirmed \cup {u} /\ UNCHANGED disclosure

Writes(r) == pc[r] = "update" /\ WriteDisclosure(r) /\ UNCHANGED confirmed

\* Every step does one of these, or leaves the table and the confirmed users.
LEMMA StepEffect ==
    ASSUME IInv, [Next]_vars
    PROVE  \/ UNCHANGED <<disclosure, confirmed>>
           \/ \E d \in DisclosureId, p \in User : Inserts(d, p)
           \/ \E u \in User : Confirms(u)
           \/ \E r \in Request : Writes(r)
<1>1. ASSUME NEW u \in User, NEW p \in User, NEW days \in Duration,
             CreateDisclosure(u, p, days)
      PROVE  \E d \in DisclosureId, q \in User : Inserts(d, q)
  <2>1. PICK d \in DisclosureId \ DOMAIN disclosure :
          disclosure' = Put(disclosure, d, NewDisclosure(u, p, days))
    BY <1>1 DEF CreateDisclosure
  <2>2. Inserts(d, p)
    BY <1>1, <2>1 DEF CreateDisclosure, NewDisclosure, Inserts, Put
  <2>3. QED
    BY <2>2
<1>2. ASSUME NEW r \in Request, NEW link \in mailed,
             NEW id \in DisclosureId \cup {NoDisclosure}, VerifyToken(r, link, id)
      PROVE  \E u \in User : Confirms(u)
  BY <1>2 DEF VerifyToken, Confirms, tables, IInv, TypeOK, Link
<1>3. ASSUME NEW r \in Request, VerifyStep(r)
      PROVE  UNCHANGED <<disclosure, confirmed>> \/ Writes(r)
  BY <1>3 DEF VerifyStep, GetDisclosure, CreateAliveCheckHistory, UpdateDisclosure,
              StatementFails, Writes, tables
<1>4. ASSUME NEW d \in DisclosureId, MailStep(d)
      PROVE  UNCHANGED <<disclosure, confirmed>>
  BY <1>4 DEF MailStep, SendAliveCheckEmail, LoseAliveCheckEmail, tables
<1>5. ASSUME NEW u \in User, SendVerificationEmail(u) \/ PostAliveCheck(u)
      PROVE  UNCHANGED <<disclosure, confirmed>>
  BY <1>5 DEF SendVerificationEmail, PostAliveCheck, tables
<1>6. ASSUME NEW r \in Request, RefuseToken(r) \/ Crash(r)
      PROVE  UNCHANGED <<disclosure, confirmed>>
  BY <1>6 DEF RefuseToken, Crash, tables
<1>7. ASSUME NEW h \in HistoryId, NEW success \in BOOLEAN, PutAliveCheck(h, success)
      PROVE  UNCHANGED <<disclosure, confirmed>>
  BY <1>7 DEF PutAliveCheck
<1>8. CASE Tick
  BY <1>8 DEF Tick, tables
<1>9. CASE UNCHANGED vars
  BY <1>9 DEF vars, tables
<1>10. QED
  BY <1>1, <1>2, <1>3, <1>4, <1>5, <1>6, <1>7, <1>8, <1>9 DEF Next

\* No step deletes, reopens, discloses or rewrites a disclosure.
THEOREM RejectionsAreFinal == Spec => RejectionIsFinal
<1> DEFINE Final == \A d \in DOMAIN disclosure :
                       /\ d \in DOMAIN disclosure'
                       /\ SameRequest(disclosure[d], disclosure'[d])
                       /\ ~disclosure[d].inProgress => ~disclosure'[d].inProgress
                       /\ ~disclosure'[d].disclosed
<1>1. IInv /\ [Next]_vars => [Final]_vars
  <2> SUFFICES ASSUME IInv, [Next]_vars PROVE Final
    OBVIOUS
  <2>1. CASE UNCHANGED <<disclosure, confirmed>>
    BY <2>1 DEF IInv, Bookkeeping, SameRequest
  <2>2. ASSUME NEW d \in DisclosureId, NEW p \in User, Inserts(d, p)
        PROVE  Final
    BY <2>2 DEF Inserts, IInv, Bookkeeping, SameRequest
  <2>3. ASSUME NEW u \in User, Confirms(u)
        PROVE  Final
    BY <2>3 DEF Confirms, IInv, Bookkeeping, SameRequest
  <2>4. ASSUME NEW r \in Request, Writes(r)
        PROVE  Final
    <3>1. /\ DOMAIN disclosure' = DOMAIN disclosure
          /\ \A d \in DOMAIN disclosure :
                d # claim[r].id => disclosure'[d] = disclosure[d]
          /\ SameRequest(disclosure[claim[r].id], disclosure'[claim[r].id])
          /\ ~disclosure'[claim[r].id].inProgress
          /\ ~disclosure'[claim[r].id].disclosed
      BY <2>4, WriteEffect DEF Writes
    <3>2. QED
      BY <3>1 DEF IInv, Bookkeeping, SameRequest
  <2>5. QED
    BY <2>1, <2>2, <2>3, <2>4, StepEffect
<1>2. QED
  BY <1>1, Invariance, PTL DEF Spec, RejectionIsFinal

-----------------------------------------------------------------------------
(* The abstract service                                                    *)

\* The handlers implement DisclosureLifecycle: the passer of an UPDATEd row is
\* confirmed because the row was checked against an accepted token, and the
\* check holds although the row was read two statements earlier.
THEOREM Refinement == Spec => ImplementsLifecycle
<1> DEFINE passer == [d \in DOMAIN disclosure |-> disclosure[d].passer]
           rejected == {d \in DOMAIN disclosure : ~disclosure[d].inProgress}
<1>1. Init => Lifecycle!Init
  BY DEF Init, Lifecycle!Init, Empty
<1>2. IInv /\ [Next]_vars => [Lifecycle!Next]_(Lifecycle!vars)
  <2> SUFFICES ASSUME IInv, [Next]_vars
               PROVE  Lifecycle!Next \/ UNCHANGED Lifecycle!vars
    OBVIOUS
  <2>1. CASE UNCHANGED <<disclosure, confirmed>>
    BY <2>1 DEF Lifecycle!vars
  <2>2. ASSUME NEW d \in DisclosureId, NEW p \in User, Inserts(d, p)
        PROVE  Lifecycle!Next
    <3>1. Lifecycle!Ask(d, p)
      BY <2>2 DEF Inserts, Lifecycle!Ask
    <3>2. QED
      BY <3>1 DEF Lifecycle!Next
  <2>3. ASSUME NEW u \in User, Confirms(u)
        PROVE  Lifecycle!Next
    BY <2>3 DEF Confirms, Lifecycle!Next, Lifecycle!Confirm
  <2>4. ASSUME NEW r \in Request, Writes(r)
        PROVE  Lifecycle!Next \/ UNCHANGED Lifecycle!vars
    <3> DEFINE id == claim[r].id
    <3>1. /\ id \in DOMAIN disclosure
          /\ DOMAIN disclosure' = DOMAIN disclosure
          /\ \A d \in DOMAIN disclosure : d # id => disclosure'[d] = disclosure[d]
          /\ SameRequest(disclosure[id], disclosure'[id])
          /\ ~disclosure'[id].inProgress
          /\ disclosure'[id].passer = claim[r].link.user
      BY <2>4, WriteEffect DEF Writes
    <3>2. passer' = passer
      BY <3>1 DEF SameRequest
    <3>3. rejected' = rejected \cup {id}
      BY <3>1
    <3>4. passer[id] \in confirmed /\ id \in DisclosureId
      BY <2>4, <3>1 DEF Writes, SameRequest, IInv, Bookkeeping, TypeOK, Domains
    <3>5. CASE id \in rejected
      BY <2>4, <3>2, <3>3, <3>5 DEF Lifecycle!vars, Writes
    <3>6. CASE id \notin rejected
      BY <2>4, <3>1, <3>2, <3>3, <3>4, <3>6 DEF Lifecycle!Next, Lifecycle!Reject, Writes
    <3>7. QED
      BY <3>5, <3>6
  <2>5. QED
    BY <2>1, <2>2, <2>3, <2>4, StepEffect
<1>3. QED
  BY <1>1, <1>2, Invariance, PTL DEF Spec, ImplementsLifecycle, Lifecycle!Spec
=============================================================================
