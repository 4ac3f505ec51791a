------------------------------ MODULE MCOutbox ------------------------------
(* Outbox on small instances: worker runs are interchangeable, rows are not *)
(* (they are claimed in creation order).                                    *)
EXTENDS Outbox, TLC

RunSymmetry == Permutations(Runs)
=============================================================================
