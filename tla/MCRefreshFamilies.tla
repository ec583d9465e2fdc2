-------------------------- MODULE MCRefreshFamilies --------------------------
(* Small instances of RefreshFamilies: one user with two devices.          *)
EXTENDS RefreshFamilies, TLC

CONSTANTS f1, f2, u1

\* Both families belong to the same account, so a replay on one must reach
\* the other.
MCOwner == f1 :> u1 @@ f2 :> u1

\* Tokens, requests and the two families of the one user are interchangeable.
Symmetry ==
    Permutations(Tokens) \cup Permutations(Requests) \cup Permutations(Families)
=============================================================================
