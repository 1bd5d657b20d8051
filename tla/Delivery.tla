------------------------------- MODULE Delivery -------------------------------
(***************************************************************************)
(* What the client of the backend promises the web pages, without          *)
(* repetitions, lost answers or requests under way.  A change may be made  *)
(* also after its call has ended, and more than once unless it is a POST,  *)
(* but a user who is told of it is told the truth; and a query that        *)
(* answers shows the changes as they were at one moment while it was open. *)
(* Module ApiClient, translated from the frontend, implements it, together *)
(* with every page that makes calls.                                       *)
(***************************************************************************)
EXTENDS Naturals

CONSTANTS Call, Operation

VARIABLES
    ask,        \* the calls there were so far, each with its operation
    open,       \* those whose page has not gone on yet
    made,       \* how often the change of each was made
    answer,     \* the answers there are, each with the changes it shows
    told        \* the calls whose success the user was told

vars == <<ask, open, made, answer, told>>

Put(f, k, v) == [x \in DOMAIN f \cup {k} |-> IF x = k THEN v ELSE f[x]]
Drop(f, k)   == [x \in DOMAIN f \ {k} |-> f[x]]
Empty        == [x \in {} |-> x]

Changes(c) == ask[c].method # "GET"

Init ==
    /\ ask = Empty
    /\ open = {}
    /\ made = [c \in Call |-> 0]
    /\ answer = Empty
    /\ told = {}

Begin(c, op) ==
    /\ c \notin DOMAIN ask
    /\ ask' = Put(ask, c, op)
    /\ open' = open \cup {c}
    /\ UNCHANGED <<made, answer, told>>

Make(c) ==
    /\ c \in DOMAIN ask
    /\ Changes(c)
    /\ ask[c].method = "POST" => made[c] = 0
    /\ made' = [made EXCEPT ![c] = @ + 1]
    /\ answer' = answer \/ (c \in open /\ answer' = Put(answer, c, {}))
    /\ UNCHANGED <<ask, open, told>>

Look(c) ==
    /\ c \in open
    /\ ~Changes(c)
    /\ answer' = Put(answer, c, {d \in Call : made[d] > 0})
    /\ UNCHANGED <<ask, open, made, told>>

LoseAnswer(c) ==
    /\ answer' = Drop(answer, c)
    /\ UNCHANGED <<ask, open, made, told>>

\* The page goes on, with success only if there is an answer, and perhaps with
\* the next call at once.
GoOn(c) ==
    /\ c \in open
    /\ told' = told \/ (c \in DOMAIN answer /\ told' = told \cup {c})
    /\ answer' = Drop(answer, c)
    /\ \/ ask' = ask /\ open' = open \ {c}
       \/ \E d \in Call \ DOMAIN ask, op \in Operation :
             ask' = Put(ask, d, op) /\ open' = (open \ {c}) \cup {d}
    /\ UNCHANGED made

Next ==
    \E c \in Call :
        Make(c) \/ Look(c) \/ LoseAnswer(c) \/ GoOn(c) \/ \E op \in Operation : Begin(c, op)

Spec == Init /\ [][Next]_vars
=============================================================================
