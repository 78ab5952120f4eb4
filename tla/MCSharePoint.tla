----------------------------- MODULE MCSharePoint -----------------------------
(* Instances of SharePoint for TLC.                                            *)
EXTENDS SharePoint, TLC

CONSTANTS c1, f1, l1, l2, i1, s1

(* Two parts of path, columns and a check-in; the same without columns; one    *)
(* that has no drive.                                                          *)
FileOf(folder, meta, target) ==
    [kind |-> "file", conn |-> c1, enabled |-> TRUE, target |-> target,
     renders |-> TRUE, named |-> TRUE, folder |-> folder, create |-> TRUE,
     meta |-> meta, checkin |-> TRUE]
ListOf(op, keyed, item) ==
    [kind |-> "list", conn |-> c1, enabled |-> TRUE, target |-> TRUE, op |-> op,
     keyed |-> keyed, writes |-> TRUE, item |-> item]

FileRows == {FileOf(<<"a", "b">>, TRUE, TRUE), FileOf(<<"a">>, FALSE, TRUE),
             FileOf(<<>>, TRUE, FALSE)}
ListRows == {ListOf("upsert", TRUE, None), ListOf("delete", TRUE, None),
             ListOf("create", FALSE, None), ListOf("update", FALSE, i1),
             ListOf("lookup", TRUE, None)}

Ready == [c \in Conn |-> [enabled |-> TRUE, secret |-> s1]]
Tables ==
    {[conns |-> Ready, acts |-> (f1 :> f) @@ (l1 :> None) @@ (l2 :> None)] : f \in FileRows}
        \cup
    {[conns |-> Ready, acts |-> (f1 :> None) @@ (l1 :> ListOf("upsert", TRUE, None)) @@ (l2 :> l)]
        : l \in ListRows}
        \cup
    {[conns |-> ready, acts |-> [a \in Act |-> None]] : ready \in {Ready, [c \in Conn |-> None]}}

(* The runs differ in nothing but their names.                                 *)
Symmetric == Permutations(Run)
=============================================================================
