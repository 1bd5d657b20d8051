---------------------------- MODULE PasskeyConsent ----------------------------
(***************************************************************************)
(* What the extension promises of a page's WebAuthn requests, without      *)
(* tabs, ports, worker or popups: nobody signs for a user who was not      *)
(* asked.  A request is answered at most once, as the kind it was made,    *)
(* and only while there is an approval of it, which the user gave to an    *)
(* offer that showed this request.  Offers and approvals may be lost at    *)
(* any time.  Module PasskeyProxy, translated from the extension,          *)
(* implements it.                                                          *)
(***************************************************************************)
EXTENDS Naturals

CONSTANTS Request, Kind

VARIABLES
    kind,       \* the kind of each request
    asked,      \* the requests that were made
    offered,    \* what users can approve by now: requests, each as some kind
    approved,   \* what was approved, and may yet be answered
    answers     \* how often each request was answered

vars == <<kind, asked, offered, approved, answers>>

\* The request, as what it is.
Itself(q) == [req |-> q, kind |-> kind[q]]

Init ==
    /\ kind \in [Request -> Kind]
    /\ asked = {}
    /\ offered = {}
    /\ approved = {}
    /\ answers = [q \in Request |-> 0]

Call(q) ==
    /\ q \notin asked
    /\ asked' = asked \cup {q}
    /\ UNCHANGED <<kind, offered, approved, answers>>

\* An offer may take the place of others.
Offer(q) ==
    /\ q \in asked
    /\ offered' \subseteq offered \cup {Itself(q)}
    /\ UNCHANGED <<kind, asked, approved, answers>>

Approve(offer) ==
    /\ approved' = approved \cup {offer}
    /\ UNCHANGED <<kind, asked, offered, answers>>

\* The approval is used up, unless the user gave it twice.
Answer(q) ==
    /\ Itself(q) \in approved
    /\ answers[q] = 0
    /\ answers' = [answers EXCEPT ![q] = 1]
    /\ approved' \in {approved, approved \ {Itself(q)}}
    /\ UNCHANGED <<kind, asked, offered>>

Lose ==
    /\ offered' \subseteq offered
    /\ approved' \subseteq approved
    /\ UNCHANGED <<kind, asked, answers>>

Next ==
    \/ \E q \in Request : Call(q) \/ Offer(q) \/ Answer(q)
    \/ \E offer \in offered : Approve(offer)
    \/ Lose

Spec == Init /\ [][Next]_vars
=============================================================================
