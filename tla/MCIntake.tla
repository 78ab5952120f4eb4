-------------------------------- MODULE MCIntake --------------------------------
(* Instances of Intake for TLC.                                                *)
EXTENDS Intake

CONSTANT j1

RowOf(enabled, ready) ==
    [enabled |-> enabled, valid |-> TRUE, ready |-> ready, count |-> None, error |-> FALSE]
JobRows == {RowOf(TRUE, TRUE), RowOf(FALSE, TRUE), RowOf(TRUE, FALSE)}

(* Two runs side by side; one whose job is edited; one through a stop.         *)
Small ==
    {[runs |-> 2, records |-> 1, edits |-> 0, crashes |-> 0],
     [runs |-> 1, records |-> 2, edits |-> 1, crashes |-> 0],
     [runs |-> 1, records |-> 2, edits |-> 0, crashes |-> 1]}
=============================================================================
