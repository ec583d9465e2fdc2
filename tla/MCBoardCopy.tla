----------------------------- MODULE MCBoardCopy -----------------------------
(* Instances of BoardCopy: two columns, three cards.                        *)
EXTENDS BoardCopy, TLC

CONSTANT First    \* the column that comes first in the enum TaskStatus

EnumOrder == [c \in Columns |-> IF c = First THEN 0 ELSE 1]

Symmetry == Permutations(Tasks)
=============================================================================
