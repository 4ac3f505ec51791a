--------------------------- MODULE MCTaskIslands ---------------------------
(* TaskIslands on a list of two tasks with room for a third.                *)
EXTENDS TaskIslands

\* Exchanging the two tasks is a symmetry of the specification, so that one arrangement
\* stands for both.
Arranged == Init /\ active = <<1, 2>>
OneArrangement == Arranged /\ [][Next]_vars
=============================================================================
