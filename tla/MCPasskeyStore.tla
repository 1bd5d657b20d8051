--------------------------- MODULE MCPasskeyStore ---------------------------
(* Instances of PasskeyStore for TLC.                                      *)
EXTENDS PasskeyStore, TLC

CONSTANTS r1, p1

\* One request at the first of the replicas.
OneRequest == r1 :> p1

Symmetric == Permutations(Account) \cup Permutations(Id)
=============================================================================
