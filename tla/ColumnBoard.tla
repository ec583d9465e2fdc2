----------------------------- MODULE ColumnBoard -----------------------------
(***************************************************************************)
(* What the Kanban board promises: every column is an ordered list of      *)
(* cards, a card is in one place, and a change puts one card in, takes one *)
(* out or takes it elsewhere while all other cards keep their order.       *)
(* TaskBoard shows that the ranks in the database implement it, BoardCopy  *)
(* builds the browser's copy on it.                                        *)
(***************************************************************************)
EXTENDS Sequences, SequencesExt, Naturals

CONSTANTS Tasks, Columns

VARIABLE board

Card(b) == UNION {ToSet(b[c]) : c \in Columns}

(* The column c of b with every card but t, which is in it once at most. *)
Position(s, t) == CHOOSE k \in DOMAIN s : s[k] = t
Others(b, c, t) == IF t \in ToSet(b[c]) THEN RemoveAt(b[c], Position(b[c], t)) ELSE b[c]

(* b without t, and b with t at position i of column c (0 is the top). *)
Without(b, t) == [c \in Columns |-> Others(b, c, t)]
With(b, t, c, i) == [Without(b, t) EXCEPT ![c] = InsertAt(@, i + 1, t)]

Insert(t, c, i) == t \notin Card(board) /\ board' = With(board, t, c, i)
Move(t, c, i)   == t \in Card(board)    /\ board' = With(board, t, c, i)
TakeOut(t) == t \in Card(board)    /\ board' = Without(board, t)

Init == board = [c \in Columns |-> <<>>]
Next == board' # board /\ \E t \in Tasks :
    \/ TakeOut(t)
    \/ \E c \in Columns : \E i \in 0..Len(Others(board, c, t)) :
           Insert(t, c, i) \/ Move(t, c, i)
Spec == Init /\ [][Next]_board
=============================================================================
