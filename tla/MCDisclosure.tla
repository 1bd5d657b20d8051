---------------------------- MODULE MCDisclosure ----------------------------
(* Instances of Disclosure for TLC.                                        *)
EXTENDS Disclosure, TLC

\* Ids, requests and users are compared for equality only.
Symmetric == Permutations(User) \cup Permutations(DisclosureId)
             \cup Permutations(HistoryId) \cup Permutations(Request)
=============================================================================
