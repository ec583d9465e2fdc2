----------------------------- MODULE MCTaskBoard -----------------------------
(***************************************************************************)
(* Instances of TaskBoard: every request about the ranks of three cards in *)
(* two columns; one of the cards may also be assigned.                     *)
(***************************************************************************)
EXTENDS TaskBoard, TLC

CONSTANTS Assignable, First, Second

WantedRanks == {0, 1}
Asked(op, t, kind, c, rank, ids) ==
    [op |-> op, task |-> t, kind |-> kind, status |-> c, rank |-> rank, ids |-> ids]

AboutRanks ==
    {Asked("create", t, "USER", First, rank, Unset) : t \in Tasks, rank \in WantedRanks}
    \cup {Asked("update", t, "USER", c, Unset, Unset) : t \in Tasks, c \in Columns}
    \cup {Asked("update", t, "USER", c, rank, Unset) :
             t \in Tasks, c \in {Second, Unset}, rank \in WantedRanks}
    \cup {Asked("delete", t, "USER", Unset, Unset, Unset) : t \in Tasks}

AboutPeople ==
    {Asked("create", Assignable, "USER", First, 0, Users),
     Asked("update", Assignable, "MACHINE", Second, Unset, Users)}
    \cup {Asked("update", Assignable, kind, Unset, Unset, Users) : kind \in {"USER", "MACHINE"}}

Requested == AboutRanks \cup AboutPeople

(* People come and go, and are assigned, while there are at most two cards.  *)
PeopleBound ==
    Cardinality(Live(rows)) = 3 =>
        /\ members = Users /\ removing = Unset
        /\ \A t \in Tasks : assignees[t] = {}
        /\ \A q \in Requests : request[q].op # "none" => request[q].ids = Unset
Symmetry == Permutations(Tasks \ {Assignable}) \cup Permutations(Requests)
=============================================================================
