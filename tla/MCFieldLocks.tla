----------------------------- MODULE MCFieldLocks -----------------------------
(* Small instances of FieldLocks.                                          *)
EXTENDS FieldLocks, TLC

CONSTANTS owner, guest

\* Two tabs of one user, whom the owner adds to and removes from the project.
MCUserOf == [s \in Sockets |-> guest]

Symmetry ==
    Permutations(Tokens) \cup Permutations(Requests) \cup Permutations(Sockets)
=============================================================================
