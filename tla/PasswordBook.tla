----------------------------- MODULE PasswordBook -----------------------------
(***************************************************************************)
(* What the accounts' handlers promise, without key pairs, ciphertexts or  *)
(* the steps of a request: a book of accounts with their passwords.  An    *)
(* entry changes only when its own passer saves another password; it is    *)
(* legible if the passer's id was spelled as the database spells it, and   *)
(* stays so.  Every answer shows the book, or the one entry that was       *)
(* written, as it was at a single moment, whatever is written meanwhile.   *)
(* Module Vault, translated from the Go handlers, implements it.           *)
(***************************************************************************)
CONSTANTS User, Spelling, canonical, Password, AccountId, Request

VARIABLES
    book,       \* the accounts, each with its passer and its password
    used,       \* the ids there ever were
    view,       \* what each request that is being answered will show
    refused     \* the requests answered last that a password is not legible

vars == <<book, used, view, refused>>

Put(f, k, v) == [x \in DOMAIN f \cup {k} |-> IF x = k THEN v ELSE f[x]]
Drop(f, k)   == [x \in DOMAIN f \ {k} |-> f[x]]
Empty        == [x \in {} |-> x]

\* The entry of a password that is saved for the passer spelled s.
Entry(s, w) == [passer |-> canonical[s], password |-> w, legible |-> s = canonical[s]]

Init ==
    /\ book = Empty
    /\ used = {}
    /\ view = Empty
    /\ refused = {}

Begin(r) ==
    /\ refused' = refused \ {r}
    /\ UNCHANGED <<book, used, view>>

\* A list is of one moment.
Look(r, u) ==
    LET own == {id \in DOMAIN book : book[id].passer = u} IN
    /\ r \notin DOMAIN view
    /\ view' = Put(view, r, [id \in own |-> book[id]])
    /\ UNCHANGED <<book, used, refused>>

\* The entry e is written, and r will show it, or fails all the same.
Write(r, id, e) ==
    /\ book' = Put(book, id, e)
    /\ \/ UNCHANGED view
       \/ r \notin DOMAIN view /\ view' = Put(view, r, Put(Empty, id, e))
    /\ UNCHANGED refused

Save(r, id, s, w) ==
    /\ id \notin used
    /\ used' = used \cup {id}
    /\ Write(r, id, Entry(s, w))

Change(r, id, s, w) ==
    /\ id \in DOMAIN book
    /\ book[id].passer = canonical[s]
    /\ Write(r, id, Entry(s, w))
    /\ UNCHANGED used

Remove(id) ==
    /\ book' = Drop(book, id)
    /\ UNCHANGED <<used, view, refused>>

\* All of it was shown, or the request failed.
Finish(r) ==
    /\ r \in DOMAIN view
    /\ view' = Drop(view, r)
    /\ UNCHANGED <<book, used, refused>>

\* One entry that is not legible is enough to show nothing.
Refuse(r) ==
    /\ r \in DOMAIN view
    /\ \E id \in DOMAIN view[r] : ~view[r][id].legible
    /\ view' = Drop(view, r)
    /\ refused' = refused \cup {r}
    /\ UNCHANGED <<book, used>>

Next ==
    \/ \E r \in Request : Begin(r) \/ Finish(r) \/ Refuse(r) \/ \E u \in User : Look(r, u)
    \/ \E r \in Request, id \in AccountId, s \in Spelling, w \in Password :
          Save(r, id, s, w) \/ Change(r, id, s, w)
    \/ \E id \in AccountId : Remove(id)

Spec == Init /\ [][Next]_vars
=============================================================================
