----------------------------- MODULE MCRefresh -----------------------------
(* Instances of Refresh for TLC; the .cfg files give the constants.         *)
EXTENDS RefreshInv, TLC

\* The worker slots of an instance are interchangeable.
Symmetric == Permutations(Workers)
============================================================================
