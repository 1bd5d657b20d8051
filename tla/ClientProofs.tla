----------------------------- MODULE ClientProofs -----------------------------
(***************************************************************************)
(* Proofs about Client, for every number of tabs, links, disclosures,      *)
(* templates, submissions, repetitions and pages: those of the web pages   *)
(* first, and then that of the whole, with what ApiClientProofs and        *)
(* ExtStorageProofs show of the other parts.                               *)
(***************************************************************************)
EXTENDS Client, ApiClientProofs, ExtStorageProofs

-----------------------------------------------------------------------------
(* The mailed link                                                         *)

\* The backend forgets nothing.
BackendGrows ==
    /\ BackendOK'
    /\ confirmed \subseteq confirmed' /\ rejected \subseteq rejected'
    /\ \A d \in DOMAIN passer : d \in DOMAIN passer' /\ passer'[d] = passer[d]

LEMMA BackendStill == BackendOK /\ UNCHANGED backendVars => BackendGrows
  BY DEF BackendOK, backendVars, BackendGrows

\* What was true of a link stays so.
LEMMA AnswerStays ==
    ASSUME BackendOK, BackendGrows, NEW t \in Tab, AnswerHolds(t),
           link'[t] = link[t], status'[t] = status[t]
    PROVE  AnswerHolds(t)'
  BY DEF BackendOK, BackendGrows, AnswerHolds

\* A tab that a step does not touch.
LEMMA OtherTab ==
    ASSUME BackendOK, BackendGrows, NEW t \in Tab, TabOK(t), link'[t] = link[t],
           view'[t] = view[t], handler'[t] = handler[t], status'[t] = status[t]
    PROVE  TabOK(t)'
<1>1. AnswerHolds(t) => AnswerHolds(t)'
  BY AnswerStays
<1>2. QED
  BY <1>1 DEF BackendGrows, TabOK

LEMMA AnswerKeeps ==
    ASSUME VerifyIInv, BackendGrows, NEW t \in Tab, NEW how \in Refusal \cup Validation,
           handler[t] \in {"called", "accepted"}, Answer(t, how),
           how \in Validation => link[t].user \in confirmed',
           how = "rejected" => link[t].about \in rejected' /\ passer'[link[t].about] = link[t].user
    PROVE  VerifyIInv'
<1>1. VerifyTypeOK /\ TabOK(t)
  BY DEF VerifyIInv
<1>2. /\ handler' = [handler EXCEPT ![t] = "answered"] /\ status' = [status EXCEPT ![t] = how]
      /\ link' = link /\ view' = view
  BY DEF Answer
<1>3. VerifyTypeOK'
  BY <1>1, <1>2 DEF VerifyTypeOK, BackendGrows
<1>4. ASSUME NEW u \in Tab, u # t PROVE TabOK(u)'
  <2>1. TabOK(u) /\ handler'[u] = handler[u] /\ status'[u] = status[u]
    BY <1>1, <1>2, <1>4 DEF VerifyIInv, VerifyTypeOK
  <2>2. QED
    BY <1>1, <1>2, <2>1, OtherTab DEF VerifyTypeOK
<1>5. handler'[t] = "answered" /\ status'[t] = how
  BY <1>1, <1>2 DEF VerifyTypeOK
<1>6. how \in Validation => AnswerHolds(t)'
  BY <1>2, <1>5 DEF AnswerHolds
<1>7. link[t].user \in User /\ view[t] # "confirmed"
  BY <1>1 DEF TabOK
<1>8. TabOK(t)'
  BY <1>2, <1>5, <1>6, <1>7 DEF TabOK
<1>9. QED
  BY <1>3, <1>4, <1>8 DEF VerifyIInv

LEMMA VerifyTokenKeeps ==
    ASSUME VerifyIInv, NEW t \in Tab, NEW l \in Links, VerifyToken(t, l)
    PROVE  VerifyIInv'
<1>1. VerifyTypeOK /\ TabOK(t) /\ BackendOK /\ BackendGrows
  BY BackendStill DEF VerifyIInv, VerifyTypeOK, VerifyToken
<1>2. VerifyTypeOK'
  BY <1>1 DEF VerifyTypeOK, VerifyToken, BackendGrows
<1>3. ASSUME NEW u \in Tab, u # t PROVE TabOK(u)'
  <2>1. /\ TabOK(u) /\ link'[u] = link[u] /\ view'[u] = view[u]
        /\ handler'[u] = handler[u] /\ status'[u] = status[u]
    BY <1>1, <1>3 DEF VerifyIInv, VerifyTypeOK, VerifyToken
  <2>2. QED
    BY <1>1, <2>1, OtherTab
<1>4. /\ link'[t] = l /\ view'[t] \in {"failed", "asking"} /\ handler'[t] \in {"none", "called"}
      /\ l.user = NoUser => handler'[t] = "none"
  BY <1>1 DEF VerifyTypeOK, VerifyToken
<1>5. l.user \in User \cup {NoUser}
  BY DEF Links
<1>6. TabOK(t)'
  BY <1>4, <1>5 DEF TabOK
<1>7. QED
  BY <1>2, <1>3, <1>6 DEF VerifyIInv

LEMMA ReturnKeeps ==
    ASSUME VerifyIInv, NEW t \in Tab, Return(t)
    PROVE  VerifyIInv'
<1>1. VerifyTypeOK /\ TabOK(t) /\ BackendOK /\ BackendGrows
  BY BackendStill DEF VerifyIInv, VerifyTypeOK, Return
<1>2. VerifyTypeOK'
  BY <1>1 DEF VerifyTypeOK, Return, BackendGrows
<1>3. ASSUME NEW u \in Tab, u # t PROVE TabOK(u)'
  <2>1. /\ TabOK(u) /\ link'[u] = link[u] /\ view'[u] = view[u]
        /\ handler'[u] = handler[u] /\ status'[u] = status[u]
    BY <1>1, <1>3 DEF VerifyIInv, VerifyTypeOK, Return
  <2>2. QED
    BY <1>1, <2>1, OtherTab
<1>4. /\ handler'[t] = "none" /\ link'[t] = link[t] /\ status'[t] = status[t]
      /\ view'[t] = "confirmed" => view[t] = "confirmed" \/ status[t] \in Validation
      /\ handler[t] = "answered"
  BY <1>1 DEF VerifyTypeOK, Return
<1>5. view'[t] = "confirmed" => AnswerHolds(t)'
  BY <1>1, <1>4, AnswerStays DEF TabOK
<1>6. TabOK(t)'
  BY <1>4, <1>5 DEF TabOK
<1>7. QED
  BY <1>2, <1>3, <1>6 DEF VerifyIInv

LEMMA LoseKeeps ==
    ASSUME VerifyIInv, NEW t \in Tab, Lose(t)
    PROVE  VerifyIInv'
<1>1. VerifyTypeOK /\ TabOK(t) /\ BackendOK /\ BackendGrows
  BY BackendStill DEF VerifyIInv, VerifyTypeOK, Lose
<1>2. VerifyTypeOK'
  BY <1>1 DEF VerifyTypeOK, Lose, BackendGrows
<1>3. ASSUME NEW u \in Tab, u # t PROVE TabOK(u)'
  <2>1. /\ TabOK(u) /\ link'[u] = link[u] /\ view'[u] = view[u]
        /\ handler'[u] = handler[u] /\ status'[u] = status[u]
    BY <1>1, <1>3 DEF VerifyIInv, VerifyTypeOK, Lose
  <2>2. QED
    BY <1>1, <2>1, OtherTab
<1>4. /\ view'[t] = "failed" /\ link'[t] = link[t] /\ status'[t] = status[t]
      /\ handler'[t] = handler[t] \/ handler'[t] = "none"
      /\ confirmed' = confirmed
  BY <1>1 DEF VerifyTypeOK, Lose, backendVars
<1>5. AnswerHolds(t) => AnswerHolds(t)'
  BY <1>1, <1>4, AnswerStays
<1>6. TabOK(t)'
  BY <1>1, <1>4, <1>5 DEF TabOK
<1>7. QED
  BY <1>2, <1>3, <1>6 DEF VerifyIInv

LEMMA AcceptKeeps ==
    ASSUME VerifyIInv, NEW t \in Tab, Accept(t)
    PROVE  VerifyIInv'
<1>1. VerifyTypeOK /\ TabOK(t) /\ BackendOK /\ handler[t] = "called"
  BY DEF VerifyIInv, VerifyTypeOK, Accept
<1>2. link[t].user \in User
  BY <1>1 DEF TabOK
<1>3. /\ confirmed' = confirmed \cup {link[t].user} /\ passer' = passer /\ rejected' = rejected
      /\ handler' = [handler EXCEPT ![t] = "accepted"]
      /\ link' = link /\ view' = view /\ status' = status
  BY DEF Accept, Backend!Confirm
<1>4. BackendGrows
  BY <1>1, <1>2, <1>3 DEF BackendOK, BackendGrows
<1>5. VerifyTypeOK'
  BY <1>1, <1>3, <1>4 DEF VerifyTypeOK, BackendGrows
<1>6. ASSUME NEW u \in Tab, u # t PROVE TabOK(u)'
  <2>1. TabOK(u) /\ handler'[u] = handler[u]
    BY <1>1, <1>3, <1>6 DEF VerifyIInv, VerifyTypeOK
  <2>2. QED
    BY <1>1, <1>3, <1>4, <2>1, OtherTab
<1>7. handler'[t] = "accepted" /\ link[t].user \in confirmed' /\ view[t] # "confirmed"
  BY <1>1, <1>3 DEF VerifyTypeOK, TabOK
<1>8. TabOK(t)'
  BY <1>2, <1>3, <1>7 DEF TabOK
<1>9. QED
  BY <1>5, <1>6, <1>8 DEF VerifyIInv

LEMMA TurnDownKeeps ==
    ASSUME VerifyIInv, NEW t \in Tab, TurnDown(t)
    PROVE  VerifyIInv'
<1> DEFINE d == link[t].about
<1>1. /\ VerifyTypeOK /\ TabOK(t) /\ BackendOK /\ handler[t] = "accepted"
      /\ d \in DOMAIN passer /\ passer[d] = link[t].user
  BY DEF VerifyIInv, VerifyTypeOK, TurnDown
<1>2. link[t].user \in confirmed
  BY <1>1 DEF TabOK
<1>3. /\ passer' = passer /\ confirmed' = confirmed
      /\ rejected' = rejected \cup {d}
  BY <1>1 DEF TurnDown, Backend!Reject, backendVars
<1>4. BackendGrows
  BY <1>1, <1>3 DEF BackendOK, BackendGrows
<1>5. PICK how \in {"rejected", "failed"} : Answer(t, how)
  BY DEF TurnDown
<1>6. how \in Refusal \cup Validation
  BY <1>5 DEF Validation
<1>7. QED
  BY <1>1, <1>2, <1>3, <1>4, <1>5, <1>6, AnswerKeeps

LEMMA PlainAnswerKeeps ==
    ASSUME VerifyIInv, NEW t \in Tab, Refuse(t) \/ Validate(t) \/ Leave(t)
    PROVE  VerifyIInv'
<1>1. BackendGrows /\ confirmed' = confirmed /\ TabOK(t)
  BY BackendStill DEF VerifyIInv, VerifyTypeOK, Refuse, Validate, Leave, backendVars
<1>2. ASSUME Refuse(t) PROVE VerifyIInv'
  BY <1>1, <1>2, AnswerKeeps DEF Refuse, Refusal, Validation
<1>3. ASSUME Validate(t) PROVE VerifyIInv'
  BY <1>1, <1>3, AnswerKeeps DEF Validate, Validation, TabOK
<1>4. ASSUME Leave(t) PROVE VerifyIInv'
  <2>1. PICK how \in {"not found", "failed", "denied", "already"} : Answer(t, how)
    BY <1>4 DEF Leave
  <2>2. handler[t] = "accepted" /\ link[t].user \in confirmed
    BY <1>1, <1>4 DEF Leave, TabOK
  <2>3. QED
    BY <1>1, <2>1, <2>2, AnswerKeeps DEF Refusal, Validation
<1>5. QED
  BY <1>2, <1>3, <1>4

LEMMA AskElsewhereKeeps ==
    ASSUME VerifyIInv, NEW d \in DisclosureId, NEW p \in User, AskElsewhere(d, p)
    PROVE  VerifyIInv'
<1>1. /\ VerifyTypeOK /\ BackendOK /\ d \notin DOMAIN passer
      /\ passer' = [e \in DOMAIN passer \cup {d} |-> IF e = d THEN p ELSE passer[e]]
      /\ rejected' = rejected /\ confirmed' = confirmed
      /\ UNCHANGED <<link, view, handler, status>>
  BY DEF VerifyIInv, VerifyTypeOK, AskElsewhere, Backend!Ask
<1>2. BackendGrows
  BY <1>1 DEF BackendOK, BackendGrows
<1>3. VerifyTypeOK'
  BY <1>1, <1>2 DEF VerifyTypeOK, BackendGrows
<1>4. ASSUME NEW t \in Tab PROVE TabOK(t)'
  BY <1>1, <1>2, OtherTab DEF VerifyIInv
<1>5. QED
  BY <1>3, <1>4 DEF VerifyIInv

LEMMA VerifyStart == VerifyInit => VerifyIInv
  BY DEF VerifyInit, Backend!Init, VerifyIInv, VerifyTypeOK, BackendOK, TabOK, Links

LEMMA VerifyStep == VerifyIInv /\ [VerifyNext]_verifyVars => VerifyIInv'
<1> SUFFICES ASSUME VerifyIInv, [VerifyNext]_verifyVars PROVE VerifyIInv'
  OBVIOUS
<1>1. ASSUME NEW t \in Tab, HandlerStep(t) PROVE VerifyIInv'
  BY <1>1, AcceptKeeps, TurnDownKeeps, PlainAnswerKeeps DEF HandlerStep
<1>2. ASSUME NEW t \in Tab, Return(t) PROVE VerifyIInv'
  BY <1>2, ReturnKeeps
<1>3. ASSUME NEW t \in Tab, Lose(t) PROVE VerifyIInv'
  BY <1>3, LoseKeeps
<1>4. ASSUME NEW t \in Tab, NEW l \in Links, VerifyToken(t, l) PROVE VerifyIInv'
  BY <1>4, VerifyTokenKeeps
<1>5. ASSUME NEW d \in DisclosureId, NEW p \in User, AskElsewhere(d, p) PROVE VerifyIInv'
  BY <1>5, AskElsewhereKeeps
<1>6. ASSUME UNCHANGED verifyVars PROVE VerifyIInv'
  <2>1. BackendGrows /\ VerifyTypeOK /\ BackendOK
    BY <1>6, BackendStill DEF VerifyIInv, VerifyTypeOK, verifyVars
  <2>2. UNCHANGED <<link, view, handler, status>>
    BY <1>6 DEF verifyVars
  <2>3. VerifyTypeOK'
    BY <2>1, <2>2 DEF VerifyTypeOK, BackendGrows
  <2>4. ASSUME NEW t \in Tab PROVE TabOK(t)'
    BY <2>1, <2>2, OtherTab DEF VerifyIInv
  <2>5. QED
    BY <2>3, <2>4 DEF VerifyIInv
<1>7. QED
  BY <1>1, <1>2, <1>3, <1>4, <1>5, <1>6 DEF VerifyNext

LEMMA ConfirmedPages == VerifyIInv => ConfirmationIsTrue
  BY DEF VerifyIInv, TabOK, ConfirmationIsTrue

\* The page of the link on its own: what it confirms is so, for every number of
\* tabs, users and disclosures.
THEOREM LinksAreRight == VerifySpec => []ConfirmationIsTrue
<1>1. VerifySpec => []VerifyIInv
  BY VerifyStart, VerifyStep, PTL DEF VerifySpec
<1>2. QED
  BY <1>1, ConfirmedPages, PTL
-----------------------------------------------------------------------------
(* The pages that call the backend                                         *)

LEMMA SomeOperations ==
    /\ {GetAccounts, GetSubscriptions, GetDevices, GetUsers, GetAccountsTemplates, GetReceivers,
        PostAccounts, PostDisclosures, GetDisclosures} \subseteq Operation
    /\ {"render", "list", "post"} \subseteq Purpose
  BY DEF Operation, Purpose

-----------------------------------------------------------------------------
(* The pages the server renders, and the creation dialog                   *)

LEMMA RenderType ==
    ASSUME AccountsIInv, render.stage = "rendering"
    PROVE  /\ render.got \in Nat /\ Len(render.ops) \in {1, 3}
           /\ render.got + 1 \in 1..Len(render.ops)
           /\ render.ops[render.got + 1] \in Operation
<1>1. /\ render.ops \in {HomePage, TablePage} /\ render.got \in Nat
      /\ render.got < Len(render.ops)
  BY DEF AccountsIInv, AccountsTypeOK
<1>2. /\ Len(HomePage) = 3 /\ Len(TablePage) = 1
      /\ \A i \in 1..3 : HomePage[i] \in {GetAccounts, GetSubscriptions, GetDevices}
      /\ \A i \in 1..1 : TablePage[i] = GetAccounts
  BY DEF HomePage, TablePage
<1>3. QED
  BY <1>1, <1>2, SomeOperations

\* A step that leaves what was rendered and what was sent as it is.
LEMMA DialogKeeps ==
    ASSUME ApiIInv, AccountsIInv, UNCHANGED <<calls, acked, render, body>>,
           cached' \subseteq {o.path : o \in Operation},
           signedIn' \in BOOLEAN, isTemplatesLoading' \in BOOLEAN,
           picks' \in [last : MaybeTemplate, since : SUBSET Template],
           dialog' \in [open : BOOLEAN, step : {"template", "edit"}, template : MaybeTemplate,
                        app : MaybeTemplate, valid : BOOLEAN],
           DialogOK'
    PROVE  ApiIInv' /\ AccountsIInv'
<1>1. ApiIInv'
  BY DEF ApiIInv, ApiTypeOK, CallsOK
<1>2. AccountsTypeOK'
  BY DEF AccountsIInv, AccountsTypeOK
<1>3. AccountsIInv'
  BY <1>2 DEF AccountsIInv
<1>4. QED
  BY <1>1, <1>3

\* Queries and the token change nothing the dialog holds.
LEMMA LoadsKeep ==
    ASSUME ApiIInv, AccountsIInv, ReceiveToken \/ LoadHooks \/ LoadTemplates \/ ReloadTemplates
    PROVE  ApiIInv' /\ AccountsIInv'
<1>1. /\ UNCHANGED <<calls, acked, render, body, dialog, picks>>
      /\ signedIn' \in BOOLEAN /\ isTemplatesLoading' \in BOOLEAN
  BY DEF AccountsIInv, AccountsTypeOK, ReceiveToken, LoadHooks, LoadQuery, LoadTemplates,
         ReloadTemplates, Unless, accountsVars
<1>2. cached' \subseteq {o.path : o \in Operation}
  <2>1. cached \subseteq {o.path : o \in Operation}
    BY DEF ApiIInv, ApiTypeOK
  <2>2. \A op \in {GetUsers, GetReceivers} : LoadQuery(op) => cached' = cached \cup {op.path}
    BY DEF LoadQuery
  <2>3. QED
    BY <2>1, <2>2, SomeOperations
       DEF ReceiveToken, LoadHooks, LoadTemplates, ReloadTemplates, Unless
<1>3. DialogOK'
  BY <1>1 DEF AccountsIInv, DialogOK, AsPicked
<1>4. QED
  BY <1>1, <1>2, <1>3, DialogKeeps DEF AccountsIInv, AccountsTypeOK

LEMMA DialogStepsKeep ==
    ASSUME ApiIInv, AccountsIInv,
           \/ OpenDialog \/ CloseDialog \/ BackToTemplates \/ FillIn
           \/ \E t \in MaybeTemplate : HandleSelectTemplate(t)
    PROVE  ApiIInv' /\ AccountsIInv'
<1> DEFINE D == [open : BOOLEAN, step : {"template", "edit"}, template : MaybeTemplate,
                 app : MaybeTemplate, valid : BOOLEAN]
           P == [last : MaybeTemplate, since : SUBSET Template]
<1>1. /\ dialog \in D /\ picks \in P
      /\ DialogOK /\ NoTemplate \in MaybeTemplate /\ Template \subseteq MaybeTemplate
  BY DEF AccountsIInv, AccountsTypeOK, MaybeTemplate
<1>2. ASSUME UNCHANGED body, DialogStep, dialog' \in D, picks' \in P, DialogOK'
      PROVE  ApiIInv' /\ AccountsIInv'
  <2>1. /\ UNCHANGED <<calls, acked, cached, render, signedIn, isTemplatesLoading>>
        /\ cached \subseteq {o.path : o \in Operation}
        /\ signedIn \in BOOLEAN /\ isTemplatesLoading \in BOOLEAN
    BY <1>2 DEF DialogStep, ApiIInv, ApiTypeOK, AccountsIInv, AccountsTypeOK
  <2>2. QED
    BY <1>2, <2>1, DialogKeeps
<1>3. ASSUME OpenDialog PROVE ApiIInv' /\ AccountsIInv'
  <2>1. dialog' \in D /\ picks' = picks /\ dialog'.step = dialog.step
        /\ dialog'.template = dialog.template /\ dialog'.app = dialog.app
    BY <1>1, <1>3 DEF OpenDialog
  <2>2. QED
    BY <1>1, <1>2, <1>3, <2>1 DEF OpenDialog, DialogOK, AsPicked
<1>4. ASSUME CloseDialog PROVE ApiIInv' /\ AccountsIInv'
  <2>1. dialog' \in D /\ picks' = NoPicks /\ dialog'.step = "template" /\ dialog'.app = NoTemplate
    BY <1>1, <1>4 DEF CloseDialog, ResetForm
  <2>2. picks' \in P
    BY <1>1, <2>1 DEF NoPicks
  <2>3. QED
    BY <1>2, <1>4, <2>1, <2>2 DEF CloseDialog, DialogOK
<1>5. ASSUME BackToTemplates PROVE ApiIInv' /\ AccountsIInv'
  <2>1. dialog' \in D /\ dialog'.step = "template" /\ dialog'.app = dialog.app
        /\ picks' \in P /\ picks'.since = picks.since
    BY <1>1, <1>5 DEF BackToTemplates
  <2>2. QED
    BY <1>1, <1>2, <1>5, <2>1 DEF BackToTemplates, DialogOK
<1>6. ASSUME FillIn PROVE ApiIInv' /\ AccountsIInv'
  <2>1. dialog' \in D /\ picks' = picks /\ dialog'.step = dialog.step
        /\ dialog'.template = dialog.template /\ dialog'.app = dialog.app
    BY <1>1, <1>6 DEF FillIn
  <2>2. QED
    BY <1>1, <1>2, <1>6, <2>1 DEF FillIn, DialogOK, AsPicked
<1>7. ASSUME NEW t \in MaybeTemplate, HandleSelectTemplate(t)
      PROVE  ApiIInv' /\ AccountsIInv'
  <2>1. /\ picks' \in P /\ picks'.last = t /\ picks'.since = picks.since \cup ({t} \cap Template)
        /\ DialogStep /\ body' = body
    BY <1>1, <1>7 DEF HandleSelectTemplate, Pick
  <2>2. /\ dialog' \in D /\ dialog'.template = t
        /\ dialog'.app = (IF t = NoTemplate THEN dialog.app ELSE t)
    BY <1>1, <1>7 DEF HandleSelectTemplate
  <2>3. t = NoTemplate \/ t \in Template
    BY DEF MaybeTemplate
  <2>4. DialogOK'
    BY <1>1, <2>1, <2>2, <2>3 DEF DialogOK, AsPicked
  <2>5. QED
    BY <1>2, <2>1, <2>2, <2>4
<1>8. QED
  BY <1>3, <1>4, <1>5, <1>6, <1>7

LEMMA BeginRenderKeeps ==
    ASSUME ApiIInv, AccountsIInv, NEW c \in Call, BeginRender(c)
    PROVE  ApiIInv' /\ AccountsIInv'
<1>1. /\ render.stage = "rendering" /\ c = render.got + 1 /\ render.ops[c] \in Operation
      /\ calls' = Begun(calls, c, render.ops[c], "render") /\ Turn(c)
      /\ UNCHANGED <<acked, cached, accountsVars>>
  BY RenderType DEF BeginRender
<1>2. CallsOK(calls', acked')
  BY <1>1, BeginKeeps, SomeOperations DEF ApiIInv, Turn
<1>3. ApiIInv'
  BY <1>1, <1>2 DEF ApiIInv, ApiTypeOK, CallsOK
<1>4. calls \in [Call -> CallRecord]
  BY DEF ApiIInv, ApiTypeOK
<1>5. calls'[c].why = "render" /\ \A d \in Call \ {c} : calls'[d] = calls[d]
  BY <1>1, <1>4, BegunFacts
<1>6. AccountsIInv'
  BY <1>1, <1>5 DEF AccountsIInv, AccountsTypeOK, DialogOK, AsPicked, accountsVars
<1>7. QED
  BY <1>3, <1>6

LEMMA TakeRenderKeeps ==
    ASSUME ApiIInv, AccountsIInv, NEW c \in Call, TakeRender(c)
    PROVE  ApiIInv' /\ AccountsIInv'
<1> DEFINE s == IF c = Len(render.ops) THEN "shown" ELSE "rendering"
<1>1. /\ calls \in [Call -> CallRecord] /\ CallsOK(calls, acked)
      /\ calls' = Ended(calls, c) /\ UNCHANGED <<cached, signedIn, isTemplatesLoading, dialog, picks, body>>
      /\ calls[c].why = "render" /\ calls[c].stage \in {"resolved", "rejected"}
  BY DEF ApiIInv, ApiTypeOK, TakeRender, Settled
<1>2. /\ calls'[c].op = calls[c].op /\ calls'[c].why = "render" /\ calls'[c].stage = "done"
      /\ \A d \in Call \ {c} : calls'[d] = calls[d]
  BY <1>1, EndedFacts
<1>3. render.stage = "rendering" /\ c = render.got + 1
  BY <1>1 DEF AccountsIInv
<1>4. /\ render.got \in Nat /\ Len(render.ops) \in {1, 3} /\ c \in 1..Len(render.ops)
      /\ 1..render.got \subseteq acked
  BY <1>3, RenderType DEF AccountsIInv
<1>5. \/ /\ calls[c].stage = "resolved" /\ acked' = acked \cup {c}
         /\ render' = [render EXCEPT !.got = c, !.stage = s]
      \/ /\ calls[c].stage = "rejected" /\ acked' = acked
         /\ render' = [render EXCEPT !.stage = "error"]
  BY <1>3 DEF TakeRender, Settled
<1>6. CallsOK(calls', acked')
  BY <1>1, <1>5, EndKeeps
<1>7. ApiIInv'
  BY <1>1, <1>6 DEF ApiIInv, ApiTypeOK, CallsOK
<1>8. \A d \in Call : calls'[d].why = "render" => calls'[d].stage = "done"
  BY <1>2, <1>3 DEF AccountsIInv
<1>9. \A d \in Call : calls'[d].why = "post" => calls'[d].op = PostAccounts
  BY <1>2 DEF AccountsIInv
<1>10. DialogOK'
  BY <1>1 DEF AccountsIInv, DialogOK, AsPicked
<1>11. ASSUME calls[c].stage = "resolved", acked' = acked \cup {c},
              render' = [render EXCEPT !.got = c, !.stage = s]
       PROVE  AccountsIInv'
  <2>1. /\ render \in [ops : {HomePage, TablePage}, got : 0..3,
                       stage : {"rendering", "shown", "error"}]
    BY DEF AccountsIInv, AccountsTypeOK
  <2>2. /\ s = "rendering" => c < Len(render.ops)
        /\ s = "shown" => c = Len(render.ops)
        /\ c \in 0..3 /\ s \in {"rendering", "shown"}
    <3>1. PICK n \in {1, 3} : n = Len(render.ops)
      BY <1>4
    <3>2. c \in 1..n
      BY <1>4, <3>1
    <3>3. c \in 0..3 /\ (c # n => c < n)
      BY <3>2
    <3>4. QED
      BY <3>1, <3>3
  <2> HIDE DEF s
  <2>3. /\ render' \in [ops : {HomePage, TablePage}, got : 0..3,
                        stage : {"rendering", "shown", "error"}]
        /\ render'.ops = render.ops /\ render'.got = c /\ render'.stage = s
    BY <2>1, <2>2, <1>11
  <2>4. 1..c \subseteq acked \cup {c}
    BY <1>3, <1>4
  <2>5. AccountsTypeOK'
    BY <1>1, <2>3 DEF AccountsIInv, AccountsTypeOK
  <2>6. QED
    BY <1>8, <1>9, <1>10, <1>11, <2>2, <2>3, <2>4, <2>5 DEF AccountsIInv
<1>12. ASSUME acked' = acked, render' = [render EXCEPT !.stage = "error"]
       PROVE  AccountsIInv'
  <2>1. AccountsTypeOK' /\ render'.stage = "error"
    BY <1>1, <1>12 DEF AccountsIInv, AccountsTypeOK
  <2>2. QED
    BY <1>8, <1>9, <1>10, <2>1 DEF AccountsIInv
<1>13. QED
  BY <1>5, <1>7, <1>11, <1>12

LEMMA HandleSubmitKeeps ==
    ASSUME ApiIInv, AccountsIInv, NEW c \in Call, HandleSubmit(c)
    PROVE  ApiIInv' /\ AccountsIInv'
<1> DEFINE b == [template |-> dialog.template, app |-> dialog.app]
<1>1. /\ calls' = Begun(calls, c, PostAccounts, "post") /\ Turn(c)
      /\ body' = [body EXCEPT ![c] = b]
      /\ UNCHANGED <<acked, cached, render, signedIn, isTemplatesLoading, dialog, picks>>
  BY DEF HandleSubmit
<1>2. b \in [template : MaybeTemplate, app : MaybeTemplate]
  BY DEF AccountsIInv, AccountsTypeOK
<1> HIDE DEF b
<1>3. CallsOK(calls', acked')
  BY <1>1, BeginKeeps, SomeOperations DEF ApiIInv, Turn
<1>4. ApiIInv'
  BY <1>1, <1>3 DEF ApiIInv, ApiTypeOK, CallsOK
<1>5. calls \in [Call -> CallRecord]
  BY DEF ApiIInv, ApiTypeOK
<1>6. /\ calls'[c].why = "post" /\ calls'[c].op = PostAccounts
      /\ \A d \in Call \ {c} : calls'[d] = calls[d]
  BY <1>1, <1>5, BegunFacts
<1>7. AccountsTypeOK' /\ DialogOK'
  BY <1>1, <1>2 DEF AccountsIInv, AccountsTypeOK, DialogOK, AsPicked
<1>8. AccountsIInv'
  BY <1>1, <1>6, <1>7 DEF AccountsIInv
<1>9. QED
  BY <1>4, <1>8

LEMMA TakeAccountKeeps ==
    ASSUME ApiIInv, AccountsIInv, NEW c \in Call, TakeAccount(c)
    PROVE  ApiIInv' /\ AccountsIInv'
<1>1. /\ calls \in [Call -> CallRecord] /\ CallsOK(calls, acked)
      /\ calls' = Ended(calls, c) /\ UNCHANGED <<cached, render, signedIn, isTemplatesLoading>>
      /\ calls[c].why = "post" /\ body' = [body EXCEPT ![c] = NoData]
      /\ \/ calls[c].stage = "resolved" /\ acked' = acked \cup {c}
         \/ calls[c].stage = "rejected" /\ acked' = acked
  BY DEF ApiIInv, ApiTypeOK, TakeAccount, Settled
<1>2. CallsOK(calls', acked')
  BY <1>1, EndKeeps
<1>3. ApiIInv'
  BY <1>1, <1>2 DEF ApiIInv, ApiTypeOK, CallsOK
<1>4. /\ calls'[c].op = calls[c].op /\ calls'[c].why = "post"
      /\ \A d \in Call \ {c} : calls'[d] = calls[d]
  BY <1>1, EndedFacts
<1>5. NoTemplate \in MaybeTemplate /\ NoData \in [template : MaybeTemplate, app : MaybeTemplate]
  BY DEF MaybeTemplate, NoData
<1>6. /\ dialog' \in [open : BOOLEAN, step : {"template", "edit"}, template : MaybeTemplate,
                      app : MaybeTemplate, valid : BOOLEAN]
      /\ picks' \in [last : MaybeTemplate, since : SUBSET Template]
      /\ DialogOK'
  <2>1. CASE UNCHANGED <<dialog, picks>>
    BY <2>1 DEF AccountsIInv, AccountsTypeOK, DialogOK, AsPicked
  <2>2. CASE dialog' = Created /\ picks' = [picks EXCEPT !.since = {}]
    <3>1. /\ dialog' \in [open : BOOLEAN, step : {"template", "edit"}, template : MaybeTemplate,
                          app : MaybeTemplate, valid : BOOLEAN]
          /\ dialog'.step = dialog.step /\ dialog'.template = dialog.template
          /\ dialog'.app = NoTemplate
      BY <1>5, <2>2 DEF Created, ResetForm, AccountsIInv, AccountsTypeOK
    <3>2. /\ picks' \in [last : MaybeTemplate, since : SUBSET Template]
          /\ picks'.last = picks.last
      BY <2>2 DEF AccountsIInv, AccountsTypeOK
    <3>3. QED
      BY <3>1, <3>2 DEF AccountsIInv, DialogOK, AsPicked
  <2>3. QED
    BY <2>1, <2>2 DEF TakeAccount
<1>7. AccountsTypeOK'
  BY <1>1, <1>5, <1>6 DEF AccountsIInv, AccountsTypeOK
<1>8. AccountsIInv'
  BY <1>1, <1>4, <1>6, <1>7 DEF AccountsIInv
<1>9. QED
  BY <1>3, <1>8

LEMMA AccountsCallKeeps ==
    ASSUME ApiIInv, AccountsIInv, NEW c \in Call, CallStep(c), UNCHANGED accountsVars
    PROVE  ApiIInv' /\ AccountsIInv'
<1>1. calls \in [Call -> CallRecord] /\ CallsOK(calls, acked)
  BY DEF ApiIInv, ApiTypeOK
<1>2. /\ CallsOK(calls', acked') /\ acked' = acked /\ cached' = cached
      /\ \A d \in Call : /\ calls'[d].op = calls[d].op /\ calls'[d].why = calls[d].why
                         /\ calls'[d].stage = "done" <=> calls[d].stage = "done"
  BY <1>1, CallStepKeeps, CallStepFacts
<1>3. ApiIInv'
  BY <1>2 DEF ApiIInv, ApiTypeOK, CallsOK
<1>4. AccountsIInv'
  BY <1>2 DEF AccountsIInv, AccountsTypeOK, DialogOK, AsPicked, accountsVars
<1>5. QED
  BY <1>3, <1>4

\* What happens at the accounts keeps the invariants of the client and the page.
LEMMA AccountsStep ==
    ASSUME ApiIInv, AccountsIInv,
           AccountsNext \/ \E c \in Call : CallStep(c) /\ UNCHANGED accountsVars
    PROVE  ApiIInv' /\ AccountsIInv'
<1>1. ASSUME NEW c \in Call, CallStep(c), UNCHANGED accountsVars PROVE ApiIInv' /\ AccountsIInv'
  BY <1>1, AccountsCallKeeps
<1>2. ASSUME AccountsNext PROVE ApiIInv' /\ AccountsIInv'
  BY <1>2, DialogStepsKeep, LoadsKeep, BeginRenderKeeps, TakeRenderKeeps,
     HandleSubmitKeeps, TakeAccountKeeps DEF AccountsNext
<1>3. QED
  BY <1>1, <1>2
-----------------------------------------------------------------------------
(* The table of disclosures                                                *)

LEMMA ApiType ==
    ASSUME ApiIInv
    PROVE  /\ calls \in [Call -> CallRecord] /\ CallsOK(calls, acked) /\ acked \subseteq Call
           /\ \A c \in Call : calls[c].seen \subseteq Call
           /\ \A c, d \in Call : calls[c].stage = "unused" /\ calls[d].stage # "unused" => d < c
           /\ \A c \in acked : calls[c].stage = "done"
<1>1. calls \in [Call -> CallRecord] /\ CallsOK(calls, acked) /\ acked \subseteq Call
  BY DEF ApiIInv, ApiTypeOK
<1>2. \A c \in Call : calls[c].seen \subseteq Call
  BY <1>1 DEF CallRecord
<1>3. \A c, d \in Call : calls[c].stage = "unused" /\ calls[d].stage # "unused" => d < c
  <2> SUFFICES ASSUME NEW c \in Call, NEW d \in Call,
                      calls[c].stage = "unused", calls[d].stage # "unused"
               PROVE  d < c
    OBVIOUS
  <2>1. ~(c < d) /\ c # d
    BY <1>1 DEF CallsOK
  <2>2. QED
    BY <2>1, CallIsNat
<1>4. \A c \in acked : calls[c].stage = "done"
  BY <1>1 DEF CallsOK
<1>5. QED
  BY <1>1, <1>2, <1>3, <1>4

\* What the dialogs and answers of a page may show.
LEMMA PresentType ==
    ASSUME DiscloseTypeOK, NEW loading \in BOOLEAN, NEW err \in BOOLEAN, NEW some \in BOOLEAN,
           NEW rows \in SUBSET Call,
           NEW d \in [open : BOOLEAN, choices : BOOLEAN, filled : BOOLEAN, busy : Call \cup {0}],
           Present(loading, err, some, rows, d)
    PROVE  /\ others' \in BOOLEAN /\ listed' = rows /\ listed' \subseteq Call /\ error' = err
           /\ loaded' \in BOOLEAN /\ isLoading' \in BOOLEAN /\ error' \in BOOLEAN
           /\ creation' \in [open : BOOLEAN, choices : BOOLEAN, filled : BOOLEAN, busy : Call \cup {0}]
<1>1. FreshDialog \in [open : BOOLEAN, choices : BOOLEAN, filled : BOOLEAN, busy : Call \cup {0}]
  BY DEF FreshDialog
<1>2. QED
  BY <1>1 DEF Present, DiscloseTypeOK

\* A step of the dialog: what the table shows and owes is as before.
LEMMA DialogType ==
    ASSUME DiscloseTypeOK,
           NEW d \in [open : BOOLEAN, choices : BOOLEAN, filled : BOOLEAN, busy : Call \cup {0}],
           Dialog(d)
    PROVE  DiscloseTypeOK' /\ UNCHANGED <<listed, error, owed, due>>
<1>1. Present(isLoading, error, loaded, listed, d) /\ UNCHANGED <<owed, due>>
  BY DEF Dialog
<1>2. /\ isLoading \in BOOLEAN /\ error \in BOOLEAN /\ loaded \in BOOLEAN /\ listed \in SUBSET Call
      /\ owed \in [Call -> SUBSET Call] /\ due \subseteq Call
  BY DEF DiscloseTypeOK
<1>3. QED
  BY <1>1, <1>2, PresentType DEF DiscloseTypeOK

\* The calls are what they were, and so is what was told of them.
LEMMA SameCalls ==
    ASSUME acked \subseteq Call, acked' = acked,
           \A d \in Call : calls'[d].op = calls[d].op /\ calls'[d].why = calls[d].why
    PROVE  Told' = Told /\ Fetches' = Fetches
  BY DEF Told, Fetches

\* A step of the dialog that asks for nothing.
LEMMA CreationKeeps ==
    ASSUME ApiIInv, DiscloseIInv, UNCHANGED apiVars,
           NEW d \in [open : BOOLEAN, choices : BOOLEAN, filled : BOOLEAN, busy : Call \cup {0}],
           Dialog(d)
    PROVE  ApiIInv' /\ DiscloseIInv'
<1>1. DiscloseTypeOK' /\ UNCHANGED <<listed, error, owed, due>>
  BY DialogType DEF DiscloseIInv
<1>2. ApiIInv' /\ calls' = calls /\ Told' = Told /\ Fetches' = Fetches
  BY DEF apiVars, ApiIInv, ApiTypeOK, CallsOK, Told, Fetches
<1>3. QED
  BY <1>1, <1>2 DEF DiscloseIInv, ListShowsCreated

LEMMA CreationStepsKeep ==
    ASSUME ApiIInv, DiscloseIInv, OpenCreation \/ LoadChoices \/ FillInCreation \/ CancelCreation
    PROVE  ApiIInv' /\ DiscloseIInv'
<1>1. creation \in [open : BOOLEAN, choices : BOOLEAN, filled : BOOLEAN, busy : Call \cup {0}]
  BY DEF DiscloseIInv, DiscloseTypeOK
<1>2. UNCHANGED apiVars /\
      \/ Dialog([creation EXCEPT !.open = TRUE]) \/ Dialog([creation EXCEPT !.choices = TRUE])
      \/ Dialog([creation EXCEPT !.filled = TRUE]) \/ Dialog([creation EXCEPT !.open = FALSE])
  BY DEF OpenCreation, LoadChoices, FillInCreation, CancelCreation
<1>3. QED
  BY <1>1, <1>2, CreationKeeps

LEMMA FetchDisclosuresKeeps ==
    ASSUME ApiIInv, DiscloseIInv, NEW c \in Call, FetchDisclosures(c)
    PROVE  ApiIInv' /\ DiscloseIInv'
<1>1. /\ c = 1 /\ Turn(c) /\ calls' = Begun(calls, c, GetDisclosures, "list")
      /\ UNCHANGED <<acked, cached, discloseVars>>
  BY DEF FetchDisclosures
<1>2. CallsOK(calls', acked')
  BY <1>1, BeginKeeps, SomeOperations DEF ApiIInv, Turn
<1>3. ApiIInv'
  BY <1>1, <1>2 DEF ApiIInv, ApiTypeOK, CallsOK
<1>4. /\ calls'[c].why = "list" /\ calls'[c].op = GetDisclosures /\ calls'[c].stage = "waiting"
      /\ \A d \in Call \ {c} : calls'[d] = calls[d]
  BY <1>1, ApiType, BegunFacts
<1>5. UNCHANGED <<listed, error, owed, due>> /\ DiscloseTypeOK'
  BY <1>1 DEF DiscloseIInv, DiscloseTypeOK, discloseVars
<1>6. Told' = Told
  BY <1>1, <1>4, ApiType DEF Told, Turn
<1>7. /\ \A d \in Fetches' : calls'[d].op = GetDisclosures /\ calls'[d].stage # "unused"
      /\ \A d \in Call : calls'[d].why = "post" => calls'[d].op = PostDisclosures
  BY <1>4 DEF DiscloseIInv, Fetches
<1>8. \A d \in Fetches' :
        calls'[d].stage \in {"back", "resolved"} => owed[d] \subseteq calls'[d].seen
  BY <1>4 DEF DiscloseIInv, Fetches
<1>9. DiscloseIInv'
  BY <1>5, <1>6, <1>7, <1>8 DEF DiscloseIInv, ListShowsCreated
<1>10. QED
  BY <1>3, <1>9

LEMMA TakeDisclosuresKeeps ==
    ASSUME ApiIInv, DiscloseIInv, NEW c \in Call, TakeDisclosures(c)
    PROVE  ApiIInv' /\ DiscloseIInv'
<1>1. /\ calls[c].why = "list" /\ calls[c].stage \in {"resolved", "rejected"}
      /\ calls' = Ended(calls, c) /\ UNCHANGED <<acked, cached, owed>> /\ due' = owed[c]
  BY DEF TakeDisclosures, FetchEnds, Settled
<1>2. CallsOK(calls', acked')
  BY <1>1, EndKeeps, ApiType
<1>3. ApiIInv'
  BY <1>1, <1>2 DEF ApiIInv, ApiTypeOK, CallsOK
<1>4. /\ calls'[c].op = calls[c].op /\ calls'[c].why = calls[c].why /\ calls'[c].stage = "done"
      /\ \A d \in Call \ {c} : calls'[d] = calls[d]
  BY <1>1, ApiType, EndedFacts
<1>5. Told' = Told /\ Fetches' = Fetches
  BY <1>1, <1>4, ApiType, SameCalls
<1>6. /\ listed \in SUBSET Call /\ calls[c].seen \in SUBSET Call /\ loaded \in BOOLEAN
      /\ creation \in [open : BOOLEAN, choices : BOOLEAN, filled : BOOLEAN, busy : Call \cup {0}]
      /\ owed \in [Call -> SUBSET Call] /\ DiscloseTypeOK
  BY ApiType DEF DiscloseIInv, DiscloseTypeOK
<1>7. DiscloseTypeOK' /\ ListShowsCreated'
  <2>1. ASSUME calls[c].stage = "resolved", Present(FALSE, FALSE, TRUE, calls[c].seen, creation)
        PROVE  DiscloseTypeOK' /\ ListShowsCreated'
    <3>1. /\ others' \in BOOLEAN /\ listed' = calls[c].seen /\ listed' \subseteq Call
          /\ loaded' \in BOOLEAN /\ isLoading' \in BOOLEAN /\ error' \in BOOLEAN
          /\ creation' \in [open : BOOLEAN, choices : BOOLEAN, filled : BOOLEAN,
                            busy : Call \cup {0}]
      BY <1>6, <2>1, PresentType
    <3>2. owed[c] \subseteq calls[c].seen
      BY <1>1, <2>1 DEF DiscloseIInv, Fetches
    <3>3. QED
      BY <1>1, <1>6, <3>1, <3>2 DEF DiscloseTypeOK, ListShowsCreated
  <2>2. ASSUME Present(FALSE, TRUE, loaded, listed, creation)
        PROVE  DiscloseTypeOK' /\ ListShowsCreated'
    <3>1. /\ others' \in BOOLEAN /\ listed' \subseteq Call /\ error' = TRUE
          /\ loaded' \in BOOLEAN /\ isLoading' \in BOOLEAN
          /\ creation' \in [open : BOOLEAN, choices : BOOLEAN, filled : BOOLEAN,
                            busy : Call \cup {0}]
      BY <1>6, <2>2, PresentType
    <3>2. QED
      BY <1>1, <1>6, <3>1 DEF DiscloseTypeOK, ListShowsCreated
  <2>3. QED
    BY <2>1, <2>2 DEF TakeDisclosures, Settled
<1>8. QED
  BY <1>1, <1>3, <1>4, <1>5, <1>7 DEF DiscloseIInv, Fetches

LEMMA OnSubmitKeeps ==
    ASSUME ApiIInv, DiscloseIInv, NEW c \in Call, OnSubmit(c)
    PROVE  ApiIInv' /\ DiscloseIInv'
<1>1. /\ Turn(c) /\ calls' = Begun(calls, c, PostDisclosures, "post")
      /\ UNCHANGED <<acked, cached>> /\ Dialog([creation EXCEPT !.busy = c])
  BY DEF OnSubmit
<1>2. CallsOK(calls', acked')
  BY <1>1, BeginKeeps, SomeOperations DEF ApiIInv, Turn
<1>3. ApiIInv'
  BY <1>1, <1>2 DEF ApiIInv, ApiTypeOK, CallsOK
<1>4. /\ calls'[c].why = "post" /\ calls'[c].op = PostDisclosures /\ calls'[c].stage = "waiting"
      /\ \A d \in Call \ {c} : calls'[d] = calls[d]
      /\ calls[c].stage = "unused" /\ c \notin acked
  BY <1>1, ApiType, BegunFacts DEF Turn
<1>5. DiscloseTypeOK' /\ UNCHANGED <<listed, error, owed, due>>
  <2>1. [creation EXCEPT !.busy = c] \in
            [open : BOOLEAN, choices : BOOLEAN, filled : BOOLEAN, busy : Call \cup {0}]
    BY DEF DiscloseIInv, DiscloseTypeOK
  <2>2. QED
    BY <1>1, <2>1, DialogType DEF DiscloseIInv
<1>6. Fetches' = Fetches /\ c \notin Fetches
  BY <1>4 DEF Fetches, DiscloseIInv
<1>7. Told' = Told
  BY <1>1, <1>4, ApiType DEF Told
<1>8. \A e \in Fetches : calls'[e] = calls[e]
  BY <1>4, <1>6 DEF Fetches
<1>9. QED
  BY <1>3, <1>4, <1>5, <1>6, <1>7, <1>8 DEF DiscloseIInv, ListShowsCreated

\* A submission failed: the dialog, if it is the same, can submit again.
LEMMA FailedCreationKeeps ==
    ASSUME ApiIInv, DiscloseIInv, NEW c \in Call, Settled(c, "post", "rejected"),
           Dialog(Released(c)), calls' = Ended(calls, c), UNCHANGED <<acked, cached>>
    PROVE  ApiIInv' /\ DiscloseIInv'
<1>1. calls[c].why = "post" /\ calls[c].stage = "rejected"
  BY DEF Settled
<1>2. CallsOK(calls', acked')
  BY <1>1, EndKeeps, ApiType
<1>3. ApiIInv'
  BY <1>2 DEF ApiIInv, ApiTypeOK, CallsOK
<1>4. /\ calls'[c].op = calls[c].op /\ calls'[c].why = calls[c].why /\ calls'[c].stage = "done"
      /\ \A d \in Call \ {c} : calls'[d] = calls[d]
  BY ApiType, EndedFacts
<1>5. Told' = Told /\ Fetches' = Fetches
  BY <1>4, ApiType, SameCalls
<1>6. DiscloseTypeOK' /\ UNCHANGED <<listed, error, owed, due>>
  <2>1. Released(c) \in [open : BOOLEAN, choices : BOOLEAN, filled : BOOLEAN, busy : Call \cup {0}]
    BY DEF Released, DiscloseIInv, DiscloseTypeOK
  <2>2. QED
    BY <2>1, DialogType DEF DiscloseIInv
<1>7. QED
  BY <1>3, <1>4, <1>5, <1>6 DEF DiscloseIInv, ListShowsCreated, Fetches

\* A submission succeeded: the fetch d owes what the user is told by now.
LEMMA CreatedKeeps ==
    ASSUME ApiIInv, DiscloseIInv, NEW c \in Call, NEW d \in Call, Settled(c, "post", "resolved"),
           acked' = acked \cup {c}, Turn(d), cached' = cached,
           calls' = Begun(Ended(calls, c), d, GetDisclosures, "list"),
           Present(TRUE, error, loaded, listed, Submitted(c)),
           owed' = [owed EXCEPT ![d] = Told \cup {c}], due' = due
    PROVE  ApiIInv' /\ DiscloseIInv'
<1> DEFINE f == Ended(calls, c)
<1>1. /\ calls[c].why = "post" /\ calls[c].stage = "resolved"
      /\ calls[d].stage = "unused" /\ \A e \in 1..(d - 1) : calls[e].stage # "unused"
  BY DEF Settled, Turn
<1>2. CallsOK(f, acked')
  BY <1>1, EndKeeps, ApiType
<1>3. /\ f \in [Call -> CallRecord]
      /\ f[c].op = calls[c].op /\ f[c].why = "post" /\ f[c].stage = "done"
      /\ \A e \in Call \ {c} : f[e] = calls[e]
  BY <1>1, ApiType, EndedFacts
<1>4. c # d /\ f[d].stage = "unused" /\ calls' = Begun(f, d, GetDisclosures, "list")
  BY <1>1, <1>3
<1> HIDE DEF f
<1>5. \A e \in 1..(d - 1) : f[e].stage # "unused"
  <2>1. \A e \in 1..(d - 1) : e \in Call
    BY CallIsNat, ApiClientAssumption DEF Call, MaxCalls
  <2>2. QED
    BY <1>1, <1>3, <2>1
<1>6. CallsOK(calls', acked')
  BY <1>2, <1>4, <1>5, BeginKeeps, SomeOperations
<1>7. ApiIInv'
  BY <1>6 DEF ApiIInv, ApiTypeOK, CallsOK
<1>8. /\ calls'[d].why = "list" /\ calls'[d].op = GetDisclosures /\ calls'[d].stage = "waiting"
      /\ \A e \in Call \ {d} : calls'[e] = f[e]
  BY <1>3, <1>4, BegunFacts
<1>9. \A e \in Call \ {d} : /\ calls'[e].op = calls[e].op /\ calls'[e].why = calls[e].why
                            /\ calls[e].stage # "unused" => calls'[e].stage # "unused"
  BY <1>1, <1>3, <1>8
<1>10. Told \subseteq Call /\ c \in Told' /\ Told \subseteq Told'
  <2>1. Told \subseteq Call /\ d \notin Told /\ d \notin acked
    BY <1>1, ApiType DEF Told
  <2>2. calls[c].op = PostDisclosures
    BY <1>1 DEF DiscloseIInv
  <2>3. QED
    BY <1>1, <1>4, <1>9, <2>1, <2>2, ApiType DEF Told
<1>11. DiscloseTypeOK' /\ listed' = listed /\ error' = error
  <2>1. Submitted(c) \in [open : BOOLEAN, choices : BOOLEAN, filled : BOOLEAN, busy : Call \cup {0}]
    BY DEF Submitted, DiscloseIInv, DiscloseTypeOK
  <2>2. /\ DiscloseTypeOK /\ listed \in SUBSET Call /\ loaded \in BOOLEAN /\ error \in BOOLEAN
        /\ owed \in [Call -> SUBSET Call] /\ due \subseteq Call
    BY DEF DiscloseIInv, DiscloseTypeOK
  <2>3. /\ others' \in BOOLEAN /\ listed' = listed /\ listed' \subseteq Call /\ error' = error
        /\ loaded' \in BOOLEAN /\ isLoading' \in BOOLEAN /\ error' \in BOOLEAN
        /\ creation' \in [open : BOOLEAN, choices : BOOLEAN, filled : BOOLEAN, busy : Call \cup {0}]
    BY <2>1, <2>2, PresentType
  <2>4. owed' \in [Call -> SUBSET Call]
    BY <1>10, <2>2
  <2>5. QED
    BY <2>2, <2>3, <2>4 DEF DiscloseTypeOK
<1>12. Fetches' = Fetches \cup {d} /\ d \notin Fetches /\ c \notin Fetches
  BY <1>1, <1>8, <1>9 DEF Fetches, DiscloseIInv
<1>13. \A e \in Fetches' : calls'[e].op = GetDisclosures /\ calls'[e].stage # "unused"
  BY <1>8, <1>9, <1>12 DEF DiscloseIInv, Fetches
<1>14. \A e \in Call : calls'[e].why = "post" => calls'[e].op = PostDisclosures
  BY <1>8, <1>9 DEF DiscloseIInv
<1>15. \A e \in Call : owed'[e] \subseteq Told'
  BY <1>10 DEF DiscloseIInv, DiscloseTypeOK
<1>16. \A e \in Fetches' :
         calls'[e].stage \in {"back", "resolved"} => owed'[e] \subseteq calls'[e].seen
  <2> SUFFICES ASSUME NEW e \in Fetches', calls'[e].stage \in {"back", "resolved"}
               PROVE  owed'[e] \subseteq calls'[e].seen
    OBVIOUS
  <2>1. e \in Call /\ e # d /\ e \in Fetches /\ e # c
    BY <1>8, <1>12 DEF Fetches
  <2>2. calls'[e] = calls[e] /\ owed'[e] = owed[e]
    BY <1>3, <1>8, <2>1 DEF DiscloseIInv, DiscloseTypeOK
  <2>3. QED
    BY <2>1, <2>2 DEF DiscloseIInv
<1>17. QED
  BY <1>7, <1>11, <1>13, <1>14, <1>15, <1>16 DEF DiscloseIInv, ListShowsCreated

LEMMA TakeCreationKeeps ==
    ASSUME ApiIInv, DiscloseIInv, NEW c \in Call, TakeCreation(c)
    PROVE  ApiIInv' /\ DiscloseIInv'
<1>1. ASSUME Settled(c, "post", "resolved"), acked' = acked \cup {c}, cached' = cached,
             NEW d \in Call, Turn(d), calls' = Begun(Ended(calls, c), d, GetDisclosures, "list"),
             Present(TRUE, error, loaded, listed, Submitted(c)),
             owed' = [owed EXCEPT ![d] = Told \cup {c}], due' = due
      PROVE  ApiIInv' /\ DiscloseIInv'
  BY <1>1, CreatedKeeps
<1>2. ASSUME Settled(c, "post", "rejected"), Dialog(Released(c)), calls' = Ended(calls, c),
             UNCHANGED <<acked, cached>>
      PROVE  ApiIInv' /\ DiscloseIInv'
  BY <1>2, FailedCreationKeeps
<1>3. QED
  BY <1>1, <1>2 DEF TakeCreation

\* An answer shows every creation the user was told of when it was made.
LEMMA DiscloseCallKeeps ==
    ASSUME ApiIInv, DiscloseIInv, NEW c \in Call, CallStep(c), UNCHANGED discloseVars
    PROVE  ApiIInv' /\ DiscloseIInv'
<1>1. calls \in [Call -> CallRecord] /\ CallsOK(calls, acked) /\ acked \subseteq Call
  BY ApiType
<1>2. /\ CallsOK(calls', acked') /\ acked' = acked /\ cached' = cached
      /\ \A d \in Call : /\ calls'[d].op = calls[d].op /\ calls'[d].why = calls[d].why
                         /\ calls'[d].stage = "unused" <=> calls[d].stage = "unused"
      /\ \A d \in Call \ {c} : calls'[d] = calls[d]
  BY <1>1, CallStepKeeps, CallStepFacts
<1>3. ApiIInv'
  BY <1>2 DEF ApiIInv, ApiTypeOK, CallsOK
<1>4. Told' = Told /\ Fetches' = Fetches
  BY <1>1, <1>2, SameCalls
<1>5. Told \subseteq Effects
  <2> SUFFICES ASSUME NEW d \in Told PROVE calls[d].applied > 0 /\ d \in Call
    BY DEF Effects
  <2>1. d \in acked /\ d \in Call /\ Changes(calls[d].op)
    BY <1>1 DEF Told, Changes, PostDisclosures, Mutation
  <2>2. calls[d].applied \in Nat /\ calls[d].applied >= 1
    BY <1>1, <2>1 DEF CallsOK, CallRecord
  <2>3. QED
    BY <2>1, <2>2
<1>6. ASSUME calls[c].op = GetDisclosures, calls'[c].stage \in {"back", "resolved"}
      PROVE  \/ calls'[c].seen = Effects
             \/ calls[c].stage \in {"back", "resolved"} /\ calls'[c].seen = calls[c].seen
  <2>1. calls[c] \in CallRecord /\ ~Changes(calls[c].op)
    BY <1>1, <1>6 DEF Changes, GetDisclosures, Query
  <2>2. ASSUME Send(c) \/ Serve(c) \/ ServeStray(c) \/ Arrive(c)
        PROVE  \/ calls'[c].seen = Effects
               \/ calls[c].stage \in {"back", "resolved"} /\ calls'[c].seen = calls[c].seen
    BY <1>1, <1>6, <2>1, <2>2 DEF Send, Serve, ServeStray, Arrive, CallRecord
  <2>3. ASSUME LetGo(c, "waiting") \/ LetGo(c, "rejected")
        PROVE  FALSE
    BY <1>1, <1>6, <2>1, <2>3 DEF LetGo, CallRecord
  <2>4. QED
    BY <2>2, <2>3 DEF CallStep, Break, GiveUp
<1>7. \A d \in Fetches : calls[d].op = GetDisclosures /\ d \in Call
  BY DEF Fetches, DiscloseIInv
<1>8. ASSUME NEW d \in Fetches, calls'[d].stage \in {"back", "resolved"}
      PROVE  owed[d] \subseteq calls'[d].seen
  <2>1. owed[d] \subseteq Told
    BY <1>7 DEF DiscloseIInv
  <2>2. CASE d = c
    BY <1>5, <1>6, <1>7, <1>8, <2>1, <2>2 DEF DiscloseIInv
  <2>3. CASE d # c
    BY <1>2, <1>7, <1>8, <2>3 DEF DiscloseIInv
  <2>4. QED
    BY <2>2, <2>3
<1>9. DiscloseTypeOK' /\ UNCHANGED <<listed, error, owed, due>>
  BY DEF DiscloseIInv, DiscloseTypeOK, discloseVars
<1>10. \A d \in Fetches : calls'[d].op = GetDisclosures /\ calls'[d].stage # "unused"
  BY <1>2, <1>7 DEF DiscloseIInv
<1>11. QED
  BY <1>2, <1>3, <1>4, <1>8, <1>9, <1>10 DEF DiscloseIInv, ListShowsCreated

\* What happens at the table keeps the invariants of the client and the page.
LEMMA DiscloseStep ==
    ASSUME ApiIInv, DiscloseIInv,
           DiscloseNext \/ \E c \in Call : CallStep(c) /\ UNCHANGED discloseVars
    PROVE  ApiIInv' /\ DiscloseIInv'
<1>1. ASSUME NEW c \in Call, CallStep(c), UNCHANGED discloseVars PROVE ApiIInv' /\ DiscloseIInv'
  BY <1>1, DiscloseCallKeeps
<1>2. ASSUME DiscloseNext PROVE ApiIInv' /\ DiscloseIInv'
  BY <1>2, CreationStepsKeep, FetchDisclosuresKeeps, TakeDisclosuresKeeps, OnSubmitKeeps,
     TakeCreationKeeps DEF DiscloseNext
<1>3. QED
  BY <1>1, <1>2
-----------------------------------------------------------------------------
(* The whole                                                               *)

LEMMA ClientStart == Init => IInv
<1> SUFFICES ASSUME Init PROVE IInv
  OBVIOUS
<1>1. ApiIInv /\ VerifyIInv /\ StorageIInv
  BY ApiStart, VerifyStart, StorageStart DEF Init
<1>2. \A c \in Call : calls[c].why = "any" /\ calls[c].stage = "unused"
  BY DEF Init, ApiInit, Blank
<1>3. /\ AccountsTypeOK /\ NothingPicked /\ DialogOK
      /\ render.stage = "rendering" /\ render.got = 0
  <2>1. /\ \E ops \in {HomePage, TablePage} :
                render = [ops |-> ops, got |-> 0, stage |-> "rendering"]
        /\ signedIn = FALSE /\ isTemplatesLoading = FALSE
        /\ dialog = [open |-> FALSE, step |-> "template", template |-> NoTemplate,
                     app |-> NoTemplate, valid |-> FALSE]
        /\ NothingPicked
        /\ picks = [last |-> NoTemplate, since |-> {}]
        /\ body = [c \in Call |-> [template |-> NoTemplate, app |-> NoTemplate]]
    BY DEF Init, AccountsInit, Rendering, FreshForm, NothingPicked, NoPicks, NoData
  <2>2. /\ render \in [ops : {HomePage, TablePage}, got : 0..3,
                       stage : {"rendering", "shown", "error"}]
        /\ render.stage = "rendering" /\ render.got = 0
    BY <2>1
  <2>3. NoTemplate \in MaybeTemplate
    BY DEF MaybeTemplate
  <2>4. /\ dialog \in [open : BOOLEAN, step : {"template", "edit"}, template : MaybeTemplate,
                       app : MaybeTemplate, valid : BOOLEAN]
        /\ dialog.step = "template" /\ dialog.app = NoTemplate
    BY <2>1, <2>3
  <2>5. QED
    BY <2>1, <2>2, <2>3, <2>4 DEF AccountsTypeOK, DialogOK
<1>4. 0 < Len(render.ops)
  <2>1. render.ops \in {HomePage, TablePage}
    BY <1>3 DEF AccountsTypeOK
  <2>2. 0 < Len(HomePage) /\ 0 < Len(TablePage)
    BY DEF HomePage, TablePage
  <2>3. QED
    BY <2>1, <2>2
<1>5. AccountsIInv
  BY <1>2, <1>3, <1>4 DEF AccountsIInv
<1>6. Told = {} /\ Fetches = {}
  BY <1>2 DEF Init, ApiInit, Told, Fetches
<1>7. DiscloseTypeOK /\ due = {} /\ owed = [c \in Call |-> {}]
  BY DEF Init, DiscloseInit, DiscloseTypeOK, FreshDialog
<1>8. DiscloseIInv
  BY <1>2, <1>6, <1>7 DEF DiscloseIInv, ListShowsCreated
<1>9. place \in Place
  BY DEF Init
<1>10. QED
  BY <1>1, <1>3, <1>5, <1>6, <1>7, <1>8, <1>9 DEF IInv

\* Elsewhere than at /disclose nobody is told of a disclosure.
LEMMA NobodyTold ==
    ASSUME ApiIInv, Told = {}, NEW c \in Call,
           CallStep(c) \/ TakeAny(c) \/ \E op \in Operation : CallAny(c, op)
    PROVE  Told' = {}
<1>1. calls \in [Call -> CallRecord] /\ acked \subseteq Call
  BY ApiType
<1>2. ASSUME CallStep(c) PROVE Told' = {}
  <2>1. acked' = acked /\ \A d \in Call : calls'[d].op = calls[d].op /\ calls'[d].why = calls[d].why
    BY <1>1, <1>2, CallStepFacts
  <2>2. QED
    BY <1>1, <2>1, SameCalls
<1>3. ASSUME TakeAny(c) PROVE Told' = {}
  <2>1. calls[c].why = "any" /\ acked' \subseteq acked \cup {c} /\ calls' = Ended(calls, c)
    BY <1>3 DEF TakeAny, Settled
  <2>2. calls'[c].why = "any" /\ \A d \in Call \ {c} : calls'[d] = calls[d]
    BY <1>1, <2>1, EndedFacts
  <2>3. QED
    BY <1>1, <2>1, <2>2 DEF Told
<1>4. ASSUME NEW op \in Operation, CallAny(c, op) PROVE Told' = {}
  <2>1. calls[c].stage = "unused" /\ acked' = acked /\ calls' = Begun(calls, c, op, "any")
    BY <1>4 DEF CallAny, Turn
  <2>2. calls'[c].why = "any" /\ \A d \in Call \ {c} : calls'[d] = calls[d]
    BY <1>1, <2>1, BegunFacts
  <2>3. QED
    BY <1>1, <2>1, <2>2 DEF Told
<1>5. QED
  BY <1>2, <1>3, <1>4

LEMMA ClientStep == IInv /\ [Next]_vars => IInv'
<1> SUFFICES ASSUME IInv, [Next]_vars PROVE IInv'
  OBVIOUS
<1>1. /\ place \in Place /\ ApiIInv /\ AccountsTypeOK /\ DiscloseTypeOK
      /\ IF place = "accounts" THEN AccountsIInv ELSE render.stage = "rendering" /\ NothingPicked
      /\ IF place = "disclose" THEN DiscloseIInv ELSE Told = {} /\ due = {}
      /\ VerifyIInv /\ StorageIInv
  BY DEF IInv
<1>2. place' = place
  BY DEF Next, AtApi, AtAccounts, AtDisclose, AtVerify, AtStorage, vars
\* A part that a step leaves alone.
<1>3. ASSUME UNCHANGED accountsVars
      PROVE  AccountsTypeOK' /\ (NothingPicked => NothingPicked') /\ render' = render
  BY <1>1, <1>3 DEF accountsVars, AccountsTypeOK, NothingPicked
<1>4. ASSUME UNCHANGED discloseVars PROVE DiscloseTypeOK' /\ due' = due
  BY <1>1, <1>4 DEF discloseVars, DiscloseTypeOK
<1>5. ASSUME UNCHANGED verifyVars PROVE VerifyIInv'
  BY <1>1, <1>5, VerifyStep
<1>6. ASSUME UNCHANGED storageVars PROVE StorageIInv'
  BY <1>1, <1>6, StorageStep
<1>7. ASSUME UNCHANGED apiVars PROVE ApiIInv' /\ Told' = Told /\ Fetches' = Fetches
  <2>1. ApiIInv'
    BY <1>1, <1>7, ApiStep
  <2>2. calls' = calls /\ acked' = acked
    BY <1>7 DEF apiVars
  <2>3. QED
    BY <2>1, <2>2 DEF Told, Fetches
<1>8. ASSUME UNCHANGED <<apiVars, accountsVars>>, AccountsIInv PROVE AccountsIInv'
  BY <1>8 DEF apiVars, accountsVars, AccountsIInv, AccountsTypeOK, DialogOK, AsPicked
<1>9. ASSUME UNCHANGED <<apiVars, discloseVars>>, DiscloseIInv PROVE DiscloseIInv'
  BY <1>7, <1>9 DEF apiVars, discloseVars, DiscloseIInv, DiscloseTypeOK, ListShowsCreated
<1>10. ASSUME AtApi PROVE IInv'
  <2>1. /\ place = "api" /\ UNCHANGED <<accountsVars, discloseVars, verifyVars, storageVars>>
        /\ \E c \in Call : CallStep(c) \/ TakeAny(c) \/ \E op \in Operation : CallAny(c, op)
    BY <1>10 DEF AtApi
  <2>2. ApiIInv' /\ Told' = {}
    BY <1>1, <2>1, ApiStep, NobodyTold DEF ApiNext
  <2>3. QED
    BY <1>1, <1>2, <1>3, <1>4, <1>5, <1>6, <2>1, <2>2 DEF IInv
<1>11. ASSUME AtAccounts PROVE IInv'
  <2>1. /\ place = "accounts" /\ UNCHANGED <<discloseVars, verifyVars, storageVars>>
        /\ AccountsNext \/ \E c \in Call : CallStep(c) /\ UNCHANGED accountsVars
    BY <1>11 DEF AtAccounts
  <2>2. ApiIInv' /\ AccountsIInv'
    BY <1>1, <2>1, AccountsStep
  <2>3. AccountsTypeOK' /\ Told' = {}
    <3>1. acked' \subseteq Call
      BY <2>2 DEF ApiIInv, ApiTypeOK
    <3>2. PostAccounts # PostDisclosures
      BY DEF PostAccounts, PostDisclosures, Mutation
    <3>3. QED
      BY <2>2, <3>1, <3>2 DEF AccountsIInv, Told
  <2>4. QED
    BY <1>1, <1>2, <1>4, <1>5, <1>6, <2>1, <2>2, <2>3 DEF IInv
<1>12. ASSUME AtDisclose PROVE IInv'
  <2>1. /\ place = "disclose" /\ UNCHANGED <<accountsVars, verifyVars, storageVars>>
        /\ DiscloseNext \/ \E c \in Call : CallStep(c) /\ UNCHANGED discloseVars
    BY <1>12 DEF AtDisclose
  <2>2. ApiIInv' /\ DiscloseIInv'
    BY <1>1, <2>1, DiscloseStep
  <2>3. DiscloseTypeOK'
    BY <2>2 DEF DiscloseIInv
  <2>4. QED
    BY <1>1, <1>2, <1>3, <1>5, <1>6, <2>1, <2>2, <2>3 DEF IInv
<1>13. ASSUME AtVerify PROVE IInv'
  <2>1. /\ place = "verify" /\ VerifyNext
        /\ UNCHANGED <<apiVars, accountsVars, discloseVars, storageVars>>
    BY <1>13 DEF AtVerify
  <2>2. QED
    BY <1>1, <1>2, <1>3, <1>4, <1>6, <1>7, <2>1, VerifyStep DEF IInv
<1>14. ASSUME AtStorage PROVE IInv'
  <2>1. /\ place = "storage" /\ StorageNext
        /\ UNCHANGED <<apiVars, accountsVars, discloseVars, verifyVars>>
    BY <1>14 DEF AtStorage
  <2>2. QED
    BY <1>1, <1>2, <1>3, <1>4, <1>5, <1>7, <2>1, StorageStep DEF IInv
<1>15. ASSUME UNCHANGED vars PROVE IInv'
  <2>1. UNCHANGED <<apiVars, accountsVars, discloseVars, verifyVars, storageVars>>
    BY <1>15 DEF vars
  <2>2. QED
    BY <1>1, <1>2, <1>3, <1>4, <1>5, <1>6, <1>7, <1>8, <1>9, <2>1 DEF IInv
<1>16. QED
  BY <1>10, <1>11, <1>12, <1>13, <1>14, <1>15 DEF Next

\* The inductive invariant of the programs in front of the backend, for every value
\* of the constants.
THEOREM ClientIsRight == Spec => []IInv
  BY ClientStart, ClientStep, PTL DEF Spec

\* A POST adds at most one row, wherever the user is.
THEOREM ClientPostsAtMostOnce == Spec => []PostAtMostOnce
<1>1. IInv => PostAtMostOnce
  BY CallsPromise DEF IInv, ApiIInv
<1>2. QED
  BY <1>1, ClientIsRight, PTL

\* A change the user is told of was made, whichever page told it.
THEOREM ClientSuccessesAreReal == Spec => []SuccessIsReal
<1>1. IInv => SuccessIsReal
  BY CallsPromise DEF IInv, ApiIInv
<1>2. QED
  BY <1>1, ClientIsRight, PTL

\* A server-rendered page that is shown has the answers to all of its calls.
THEOREM PagesAreWhole == Spec => []ShownIsWhole
<1>1. IInv => ShownIsWhole
  BY DEF IInv, AccountsIInv, ShownIsWhole
<1>2. QED
  BY <1>1, ClientIsRight, PTL

\* An account is sent with the template that was picked last, and with what this one
\* or, for the custom account, one picked since the dialog was closed has filled in.
THEOREM TemplatesAreThosePicked == Spec => SentAsPicked
<1> DEFINE Sent == \A c \in Call : Begins(c, "post") => AsPicked(body'[c])
<1>1. IInv /\ [Next]_vars => Sent
  <2> SUFFICES ASSUME IInv, [Next]_vars, NEW c \in Call, Begins(c, "post")
               PROVE  AsPicked(body'[c])
    OBVIOUS
  <2>1. /\ calls \in [Call -> CallRecord] /\ AccountsTypeOK
        /\ place = "accounts" => AccountsIInv
        /\ place # "accounts" => NothingPicked
    BY ApiType DEF IInv
  <2>2. ASSUME UNCHANGED body, NothingPicked PROVE AsPicked(body'[c])
    BY <2>2 DEF NothingPicked, AsPicked, NoPicks, NoData
  <2>3. CASE AtAccounts
    <3>1. ASSUME NEW d \in Call, HandleSubmit(d), d = c PROVE AsPicked(body'[c])
      <4>1. body' = [body EXCEPT ![c] = [template |-> dialog.template, app |-> dialog.app]]
            /\ dialog.step = "edit" /\ DialogOK
        BY <2>1, <2>3, <3>1 DEF HandleSubmit, AccountsIInv, AtAccounts
      <4>2. body'[c] = [template |-> dialog.template, app |-> dialog.app]
        BY <2>1, <4>1 DEF AccountsTypeOK
      <4>3. QED
        BY <4>1, <4>2 DEF DialogOK, AsPicked
    <3>2. \A d \in Call : BeginRender(d) => d # c
      BY <2>1, BegunFacts DEF BeginRender, Begins
    <3>3. \A d \in Call : HandleSubmit(d) => d = c
      BY <2>1, BegunFacts DEF HandleSubmit, Begins
    <3>4. \A d \in Call : ~TakeRender(d) /\ ~TakeAccount(d)
      BY <2>1, EndedFacts DEF TakeRender, TakeAccount, Settled, Begins
    <3>5. \A d \in Call : ~CallStep(d)
      BY <2>1, CallStepFacts DEF Begins
    <3>6. calls' # calls
      BY DEF Begins
    <3>7. \E d \in Call : BeginRender(d) \/ HandleSubmit(d)
      BY <2>3, <3>4, <3>5, <3>6
         DEF AtAccounts, AccountsNext, ReceiveToken, LoadHooks, LoadQuery, LoadTemplates,
             ReloadTemplates, OpenDialog, CloseDialog, BackToTemplates, FillIn,
             HandleSelectTemplate, Pick, DialogStep, Unless
    <3>8. ~\E d \in Call : BeginRender(d)
      <4> SUFFICES ASSUME NEW d \in Call, BeginRender(d) PROVE FALSE
        OBVIOUS
      <4>1. calls' = Begun(calls, d, render.ops[d], "render") /\ d # c
        BY <3>2 DEF BeginRender
      <4>2. calls'[c] = calls[c]
        BY <2>1, <4>1, BegunFacts
      <4>3. QED
        BY <4>2 DEF Begins
    <3>9. QED
      BY <3>1, <3>3, <3>7, <3>8
  <2>4. CASE ~AtAccounts
    <3>1. UNCHANGED body
      BY <2>4 DEF Next, AtApi, AtDisclose, AtVerify, AtStorage, vars, accountsVars
    <3>2. calls' # calls
      BY DEF Begins
    <3>3. place # "accounts"
      BY <2>4, <3>2 DEF Next, AtApi, AtDisclose, AtVerify, AtStorage, vars, apiVars
    <3>4. QED
      BY <2>1, <2>2, <3>1, <3>3
  <2>5. QED
    BY <2>3, <2>4
<1>2. QED
  BY <1>1, ClientIsRight, PTL DEF Spec, SentAsPicked

\* A table that is shown without an error holds what the user had been told of when
\* the fetch that ended last was begun.
THEOREM TableShowsCreated == Spec => []ListShowsCreated
<1>1. IInv => ListShowsCreated
  BY DEF IInv, DiscloseIInv, ListShowsCreated
<1>2. QED
  BY <1>1, ClientIsRight, PTL

\* What the page of a mailed link confirms is so.
THEOREM ConfirmationsAreTrue == Spec => []ConfirmationIsTrue
<1>1. IInv => ConfirmationIsTrue
  BY ConfirmedPages DEF IInv
<1>2. QED
  BY <1>1, ClientIsRight, PTL

\* A page of the extension that has heard everything agrees with what is stored.
THEOREM ClientPagesAgree == Spec => []PagesInSync
<1>1. IInv => PagesInSync
  BY QuietPagesAgree DEF IInv
<1>2. QED
  BY <1>1, ClientIsRight, PTL

-----------------------------------------------------------------------------
(* The pages and the backend's client                                      *)

\* What the server renders, and the dialog of /accounts, see of the promise.
LEMMA AccountsPromise ==
    ASSUME ApiIInv, AccountsIInv, AccountsNext
    PROVE  [Promise!Next]_(Promise!vars)
<1>1. CallsOK(calls, acked)
  BY DEF ApiIInv
<1>2. ASSUME NEW c \in Call, BeginRender(c) PROVE Promise!Next
  <2>1. /\ Turn(c) /\ render.ops[c] \in Operation /\ acked' = acked
        /\ calls' = Begun(calls, c, render.ops[c], "render")
    BY <1>2, RenderType DEF BeginRender
  <2>2. QED
    BY <1>1, <2>1, SomeOperations, BeginPromise
<1>3. ASSUME NEW c \in Call, HandleSubmit(c) PROVE Promise!Next
  BY <1>1, <1>3, SomeOperations, BeginPromise DEF HandleSubmit
<1>4. ASSUME NEW c \in Call, TakeRender(c) \/ TakeAccount(c) PROVE Promise!Next
  BY <1>1, <1>4, EndPromise DEF TakeRender, TakeAccount, Settled, Closes
<1>5. ASSUME UNCHANGED <<calls, acked>> PROVE UNCHANGED Promise!vars
  BY <1>5, StillPromise
<1>6. QED
  BY <1>2, <1>3, <1>4, <1>5
     DEF AccountsNext, ReceiveToken, LoadHooks, LoadQuery, LoadTemplates, ReloadTemplates,
         OpenDialog, CloseDialog, BackToTemplates, FillIn, HandleSelectTemplate, Pick,
         DialogStep, Unless

\* What the table of disclosures sees of it.
LEMMA DisclosePromise ==
    ASSUME ApiIInv, DiscloseNext
    PROVE  [Promise!Next]_(Promise!vars)
<1>1. CallsOK(calls, acked)
  BY DEF ApiIInv
<1>2. ASSUME NEW c \in Call, FetchDisclosures(c) \/ OnSubmit(c) PROVE Promise!Next
  BY <1>1, <1>2, SomeOperations, BeginPromise DEF FetchDisclosures, OnSubmit
<1>3. ASSUME NEW c \in Call, TakeDisclosures(c) PROVE Promise!Next
  BY <1>1, <1>3, EndPromise DEF TakeDisclosures, FetchEnds, Settled, Closes
<1>4. ASSUME NEW c \in Call, TakeCreation(c) PROVE Promise!Next
  <2>1. Closes(c)
    BY <1>4 DEF TakeCreation, Settled, Closes
  <2>2. CASE calls' = Ended(calls, c)
    BY <1>1, <2>1, <2>2, EndPromise
  <2>3. CASE \E d \in Call :
                Turn(d) /\ calls' = Begun(Ended(calls, c), d, GetDisclosures, "list")
    BY <1>1, <2>1, <2>3, SomeOperations, EndBeginPromise
  <2>4. QED
    BY <1>4, <2>2, <2>3 DEF TakeCreation
<1>5. ASSUME UNCHANGED <<calls, acked>> PROVE UNCHANGED Promise!vars
  BY <1>5, StillPromise
<1>6. QED
  BY <1>2, <1>3, <1>4, <1>5
     DEF DiscloseNext, OpenCreation, LoadChoices, FillInCreation, CancelCreation, apiVars

\* Every page makes its calls as the client promises, also /disclose, which ends
\* one call and begins the next in the same turn of the event loop.
THEOREM PagesDeliver == Spec => ImplementsDelivery
<1>1. IInv /\ [Next]_vars => [Promise!Next]_(Promise!vars)
  <2> SUFFICES ASSUME IInv, [Next]_vars PROVE [Promise!Next]_(Promise!vars)
    OBVIOUS
  <2>1. ApiIInv /\ CallsOK(calls, acked) /\ (place = "accounts" => AccountsIInv)
    BY DEF IInv, ApiIInv
  <2>2. ASSUME NEW c \in Call, CallStep(c) PROVE [Promise!Next]_(Promise!vars)
    BY <2>1, <2>2, CallPromise
  <2>3. CASE AtApi
    <3>1. ASSUME NEW c \in Call, NEW op \in Operation, CallAny(c, op) PROVE Promise!Next
      BY <2>1, <3>1, BeginPromise DEF CallAny, Purpose
    <3>2. ASSUME NEW c \in Call, TakeAny(c) PROVE Promise!Next
      BY <2>1, <3>2, EndPromise DEF TakeAny, Settled, Closes
    <3>3. QED
      BY <2>2, <2>3, <3>1, <3>2 DEF AtApi
  <2>4. CASE AtAccounts
    BY <2>1, <2>2, <2>4, AccountsPromise DEF AtAccounts
  <2>5. CASE AtDisclose
    BY <2>1, <2>2, <2>5, DisclosePromise DEF AtDisclose
  <2>6. CASE UNCHANGED apiVars
    BY <2>6, StillPromise DEF apiVars
  <2>7. QED
    BY <2>3, <2>4, <2>5, <2>6 DEF Next, AtVerify, AtStorage, vars
<1>2. Init => Promise!Init
  BY PromiseStart DEF Init
<1>3. QED
  BY <1>1, <1>2, ClientIsRight, PTL DEF Spec, ImplementsDelivery, Promise!Spec

-----------------------------------------------------------------------------
(* The pages and the backend's disclosures                                 *)

\* A handler is run for a user of a token, on a disclosure of that user's.
LEMMA LinkSteps ==
    ASSUME VerifyIInv, VerifyNext
    PROVE  [Backend!Next]_(Backend!vars)
<1>1. BackendOK /\ \A t \in Tab : TabOK(t)
  BY DEF VerifyIInv, VerifyTypeOK
<1>2. ASSUME NEW t \in Tab, Accept(t) PROVE Backend!Next
  <2>1. link[t].user \in User /\ Backend!Confirm(link[t].user)
    BY <1>1, <1>2 DEF Accept, TabOK
  <2>2. QED
    BY <2>1 DEF Backend!Next
<1>3. ASSUME NEW t \in Tab, TurnDown(t) PROVE [Backend!Next]_(Backend!vars)
  <2>1. link[t].about \in DisclosureId
    BY <1>1, <1>3 DEF TurnDown, BackendOK
  <2>2. Backend!Reject(link[t].about) \/ UNCHANGED backendVars
    BY <1>3 DEF TurnDown
  <2>3. QED
    BY <2>1, <2>2 DEF Backend!Next, Backend!vars, backendVars
<1>4. ASSUME NEW d \in DisclosureId, NEW p \in User, AskElsewhere(d, p) PROVE Backend!Next
  BY <1>4 DEF AskElsewhere, Backend!Next
<1>5. ASSUME UNCHANGED backendVars PROVE UNCHANGED Backend!vars
  BY <1>5 DEF backendVars, Backend!vars
<1>6. QED
  BY <1>2, <1>3, <1>4, <1>5
     DEF VerifyNext, HandlerStep, Refuse, Validate, Leave, VerifyToken, Return, Lose

\* The mailed link drives the disclosures as their handlers allow: wherever the
\* user is, a step of the pages is one of DisclosureLifecycle or none of it, so that
\* what module Disclosure implements may be put in its place.
THEOREM LinksUseTheLifecycle == Spec => Backend!Spec
<1>1. IInv /\ [Next]_vars => [Backend!Next]_(Backend!vars)
  <2> SUFFICES ASSUME IInv, [Next]_vars PROVE [Backend!Next]_(Backend!vars)
    OBVIOUS
  <2>1. CASE AtVerify
    BY <2>1, LinkSteps DEF IInv, AtVerify
  <2>2. CASE UNCHANGED verifyVars
    BY <2>2 DEF verifyVars, backendVars, Backend!vars
  <2>3. QED
    BY <2>1, <2>2 DEF Next, AtApi, AtAccounts, AtDisclose, AtStorage, vars
<1>2. Init => Backend!Init
  BY DEF Init, VerifyInit
<1>3. QED
  BY <1>1, <1>2, ClientIsRight, PTL DEF Spec, Backend!Spec
=============================================================================
