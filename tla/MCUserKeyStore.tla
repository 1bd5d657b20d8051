--------------------------- MODULE MCUserKeyStore ---------------------------
(* Instances of UserKeyStore for TLC.                                      *)
EXTENDS UserKeyStore, TLC

CONSTANTS c1, c2, c3, p1, p2

\* Two calls share a process, a third runs in another one; or each has its own.
ThreeCalls == c1 :> p1 @@ c2 :> p1 @@ c3 :> p2
TwoCalls   == c1 :> p1 @@ c2 :> p2

Symmetric == Permutations(User) \cup Permutations(Key)
=============================================================================
