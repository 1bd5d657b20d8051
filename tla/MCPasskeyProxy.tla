--------------------------- MODULE MCPasskeyProxy ---------------------------
(* Instances of PasskeyProxy for TLC.                                      *)
EXTENDS PasskeyProxy, TLC

\* Requests, tabs and ports are compared for equality only.
Symmetric == Permutations(Request) \cup Permutations(Tab) \cup Permutations(Port)
=============================================================================
