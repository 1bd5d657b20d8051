------------------------- MODULE DisclosureLifecycle -------------------------
(***************************************************************************)
(* What the disclosure service promises, without its tables, requests or   *)
(* mails: a disclosure is asked for once, about one passer; it may be      *)
(* rejected, once, and only when that passer has proved to be alive.       *)
(* Module Disclosure, translated from the Go handlers, implements it.      *)
(***************************************************************************)
CONSTANTS User, DisclosureId

VARIABLES
    passer,     \* the disclosures asked for, each with the user it is about
    rejected,   \* the disclosures turned down
    confirmed   \* the users who have proved to be alive

vars == <<passer, rejected, confirmed>>

Init ==
    /\ passer = [d \in {} |-> d]
    /\ rejected = {}
    /\ confirmed = {}

\* A requester asks for the disclosure of p's accounts.
Ask(d, p) ==
    /\ d \notin DOMAIN passer
    /\ passer' = [e \in DOMAIN passer \cup {d} |-> IF e = d THEN p ELSE passer[e]]
    /\ UNCHANGED <<rejected, confirmed>>

\* A user answers a mailed link.
Confirm(u) ==
    /\ confirmed' = confirmed \cup {u}
    /\ UNCHANGED <<passer, rejected>>

\* The proof of life of its passer turns a disclosure down.
Reject(d) ==
    /\ d \in DOMAIN passer \ rejected
    /\ passer[d] \in confirmed
    /\ rejected' = rejected \cup {d}
    /\ UNCHANGED <<passer, confirmed>>

Next ==
    \/ \E d \in DisclosureId, p \in User : Ask(d, p)
    \/ \E u \in User : Confirm(u)
    \/ \E d \in DisclosureId : Reject(d)

Spec == Init /\ [][Next]_vars
=============================================================================
