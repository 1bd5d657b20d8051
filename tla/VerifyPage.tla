------------------------------ MODULE VerifyPage ------------------------------
(***************************************************************************)
(* The page a mailed link opens (frontend/app/verify/page.tsx), and the    *)
(* route of the Next server between it and the backend                     *)
(* (frontend/app/api/verify/token/route.ts).                               *)
(*                                                                         *)
(* The page asks once, with plain fetch: nothing is repeated, and an       *)
(* answer that is lost on either hop is shown as a failure although the    *)
(* backend has done, or will still do, what the link was for.  The backend *)
(* is DisclosureLifecycle, which module Disclosure implements; its handler *)
(* takes a token first and turns a disclosure down later.                  *)
(***************************************************************************)
EXTENDS Naturals

CONSTANTS
    Tab,            \* the tabs in which links are opened
    User,
    DisclosureId,
    NoUser,         \* a link without a token
    NoDisclosure    \* a link without disclosure_id

ASSUME VerifyAssumption == NoUser \notin User /\ NoDisclosure \notin DisclosureId

VARIABLES
    passer, rejected, confirmed,    \* the backend
    link,       \* the link each tab was opened with
    view,       \* what it shows
    handler,    \* how far the backend is with its request
    status      \* the backend's answer

backendVars == <<passer, rejected, confirmed>>
verifyVars  == <<backendVars, link, view, handler, status>>

Backend == INSTANCE DisclosureLifecycle

\* The user of the link's token, and the disclosure the link names.
Links == [user : User \cup {NoUser}, about : DisclosureId \cup {NoDisclosure}]

\* Answers that are not a 2xx, and those that are, which have validated: true.
Refusal == {"unauthorized", "denied"}
Validation == {"validated", "not found", "already", "failed", "rejected"}

VerifyInit ==
    /\ Backend!Init
    /\ link = [t \in Tab |-> [user |-> NoUser, about |-> NoDisclosure]]
    /\ view = [t \in Tab |-> "blank"]
    /\ handler = [t \in Tab |-> "none"]
    /\ status = [t \in Tab |-> "none"]

-----------------------------------------------------------------------------
(* The page                                                                *)

\* The effect of VerifyContent.  Without a token there is nothing to ask.
VerifyToken(t, l) ==
    /\ handler[t] = "none"
    /\ view[t] # "asking"
    /\ link' = [link EXCEPT ![t] = l]
    /\ view' = [view EXCEPT ![t] = IF l.user = NoUser THEN "failed" ELSE "asking"]
    /\ handler' = [handler EXCEPT ![t] = IF l.user = NoUser THEN "none" ELSE "called"]
    /\ status' = [status EXCEPT ![t] = "none"]
    /\ UNCHANGED backendVars

\* Fault: any answer that has a body is a confirmation.
ReturnGladly(t) ==
    /\ handler[t] = "answered"
    /\ handler' = [handler EXCEPT ![t] = "none"]
    /\ view' = [view EXCEPT ![t] = IF @ = "asking" THEN "confirmed" ELSE @]
    /\ UNCHANGED <<backendVars, link, status>>

\* The answer comes back through the route, which keeps its status code, to a
\* page that still waits for it.
Return(t) ==
    /\ handler[t] = "answered"
    /\ handler' = [handler EXCEPT ![t] = "none"]
    /\ view' = [view EXCEPT ![t] = IF @ # "asking" THEN @
                                   ELSE IF status[t] \in Validation THEN "confirmed"
                                   ELSE "failed"]
    /\ UNCHANGED <<backendVars, link, status>>

\* A hop fails: the route's catch answers 500, or the page's own fetch rejects.
\* The backend has not got the request, or is done with it, or goes on.
Lose(t) ==
    /\ view[t] = "asking"
    /\ view' = [view EXCEPT ![t] = "failed"]
    /\ handler' \in {handler, [handler EXCEPT ![t] = "none"]}
    /\ UNCHANGED <<backendVars, link, status>>

-----------------------------------------------------------------------------
(* The backend's handler                                                   *)

\* The handler of t answers.
Answer(t, how) ==
    /\ handler' = [handler EXCEPT ![t] = "answered"]
    /\ status' = [status EXCEPT ![t] = how]
    /\ UNCHANGED <<link, view>>

\* The token is forged, or expired.
Refuse(t) ==
    /\ handler[t] = "called"
    /\ Answer(t, "unauthorized")
    /\ UNCHANGED backendVars

Accept(t) ==
    /\ handler[t] = "called"
    /\ handler' = [handler EXCEPT ![t] = "accepted"]
    /\ Backend!Confirm(link[t].user)
    /\ UNCHANGED <<link, view, status>>

\* Without a disclosure_id, and one that is no number above zero is dropped on the
\* way, the token is all there is to it.
Validate(t) ==
    /\ handler[t] = "accepted"
    /\ link[t].about = NoDisclosure
    /\ Answer(t, "validated")
    /\ UNCHANGED backendVars

\* The disclosure is not there, not its passer's, or turned down already, or a
\* later statement fails.
Leave(t) ==
    LET d == link[t].about IN
    /\ handler[t] = "accepted"
    /\ d # NoDisclosure
    /\ \/ Answer(t, "not found")
       \/ d \in DOMAIN passer /\ passer[d] = link[t].user /\ Answer(t, "failed")
       \/ d \in DOMAIN passer /\ passer[d] # link[t].user /\ Answer(t, "denied")
       \/ d \in rejected /\ passer[d] = link[t].user /\ Answer(t, "already")
    /\ UNCHANGED backendVars

\* The disclosure is turned down; also a second time, by a click that had read
\* it in progress.  The result of the last statement may be lost.
TurnDown(t) ==
    LET d == link[t].about IN
    /\ handler[t] = "accepted"
    /\ d \in DOMAIN passer
    /\ passer[d] = link[t].user
    /\ \/ Backend!Reject(d)
       \/ d \in rejected /\ UNCHANGED backendVars
    /\ \E how \in {"rejected", "failed"} : Answer(t, how)

\* A disclosure is asked for, on the page /disclose of somebody else.
AskElsewhere(d, p) ==
    /\ Backend!Ask(d, p)
    /\ UNCHANGED <<link, view, handler, status>>

HandlerStep(t) == Refuse(t) \/ Accept(t) \/ Validate(t) \/ Leave(t) \/ TurnDown(t)

VerifyNext ==
    \/ \E t \in Tab : HandlerStep(t) \/ Return(t) \/ Lose(t) \/ \E l \in Links : VerifyToken(t, l)
    \/ \E d \in DisclosureId, p \in User : AskElsewhere(d, p)

VerifySpec == VerifyInit /\ [][VerifyNext]_verifyVars

-----------------------------------------------------------------------------
(* What must hold                                                          *)

\* The backend's side of the type invariant.
BackendOK ==
    /\ DOMAIN passer \subseteq DisclosureId
    /\ \A d \in DOMAIN passer : passer[d] \in User
    /\ rejected \subseteq DOMAIN passer
    /\ confirmed \subseteq User

\* Type invariant.
VerifyTypeOK ==
    /\ BackendOK
    /\ link \in [Tab -> Links]
    /\ view \in [Tab -> {"blank", "asking", "confirmed", "failed"}]
    /\ handler \in [Tab -> {"none", "called", "accepted", "answered"}]
    /\ status \in [Tab -> Refusal \cup Validation \cup {"none"}]

\* What a validation of the link of t says.
AnswerHolds(t) ==
    /\ link[t].user \in confirmed
    /\ status[t] = "rejected" =>
         /\ link[t].about \in rejected
         /\ passer[link[t].about] = link[t].user

\* What a confirmed page says is so, however requests of other tabs, lost answers
\* and links opened again came in between: the user of the link has proved to be
\* alive, and a disclosure the page calls rejected is, and is about that user.
ConfirmationIsTrue == \A t \in Tab : view[t] = "confirmed" => AnswerHolds(t)

\* The handler has confirmed the user before it goes on, and a page shows an
\* answer only while no request of its own is under way.
TabOK(t) ==
    /\ handler[t] # "none" => link[t].user \in User
    /\ handler[t] = "accepted" => link[t].user \in confirmed
    /\ handler[t] = "answered" /\ status[t] \in Validation => AnswerHolds(t)
    /\ view[t] = "confirmed" => handler[t] = "none" /\ AnswerHolds(t)

\* The inductive invariant of the page.
VerifyIInv == VerifyTypeOK /\ \A t \in Tab : TabOK(t)
=============================================================================
