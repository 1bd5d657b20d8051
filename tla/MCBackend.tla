------------------------------ MODULE MCBackend ------------------------------
(* Instances of Backend for TLC.                                           *)
EXTENDS Backend, TLC

CONSTANTS r1, r2, p1, p2, u1, u2, k1

\* Two requests at different replicas.
TwoRequests == r1 :> p1 @@ r2 :> p2

\* The seed has one user of two, whose trusts have the ids 0 and 1, and the first
\* id the sequence gives is 1 as well.
OneUser   == u1 :> k1
TwoTrusts == 0 :> [passer |-> u1, receiver |-> u1] @@ 1 :> [passer |-> u1, receiver |-> u1]

Symmetric == Permutations(Account) \cup Permutations(Id)
=============================================================================
