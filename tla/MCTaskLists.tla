---------------------------- MODULE MCTaskLists ----------------------------
(* TaskLists on small instances: requests are interchangeable, tasks are   *)
(* not (they are created in order).                                        *)
EXTENDS TaskLists, TLC

HandlerSymmetry == Permutations(Handlers)
=============================================================================
