------------------------------ MODULE UserKeys ------------------------------
(***************************************************************************)
(* What the crypto service promises: a user has one key pair, chosen once  *)
(* and kept for ever, no two users have the same one, and what is          *)
(* encrypted for a user is encrypted under it.  Module UserKeyStore,       *)
(* translated from crypto/*.go, implements it.                             *)
(***************************************************************************)
CONSTANTS User, Key

VARIABLES
    keyOf,      \* the users that have a key pair, each with it
    issued      \* the ciphertexts handed out

vars == <<keyOf, issued>>

Init ==
    /\ keyOf = [u \in {} |-> u]
    /\ issued = {}

Choose(u, k) ==
    /\ u \notin DOMAIN keyOf
    /\ \A v \in DOMAIN keyOf : keyOf[v] # k
    /\ keyOf' = [v \in DOMAIN keyOf \cup {u} |-> IF v = u THEN k ELSE keyOf[v]]
    /\ UNCHANGED issued

Encrypt(u) ==
    /\ u \in DOMAIN keyOf
    /\ issued' = issued \cup {[user |-> u, key |-> keyOf[u]]}
    /\ UNCHANGED keyOf

Next ==
    \/ \E u \in User, k \in Key : Choose(u, k)
    \/ \E u \in User : Encrypt(u)

Spec == Init /\ [][Next]_vars
=============================================================================
