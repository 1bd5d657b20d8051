------------------------------ MODULE MCVault -------------------------------
(* Instances of Vault for TLC.                                             *)
EXTENDS Vault, Integers, FiniteSets, TLC

CONSTANTS
    u1, u2, U1,
    MaxStored   \* rows ever written, after which TLC looks no further

\* The id of u1 can be spelled in two ways.
Spelled == u1 :> u1 @@ u2 :> u2 @@ U1 :> u1

FewStored == Cardinality(stored) <= MaxStored

Symmetric == Permutations(Password) \cup Permutations(AccountId)
             \cup Permutations(Key) \cup Permutations(Request)
=============================================================================
