------------------------------ MODULE MCSearch ------------------------------
(* Search on small instances: three tasks, two of them created at once, in *)
(* a zone whose day begins at instant 1.                                   *)
EXTENDS Search

MCCreatedAt == [t \in Tasks |-> (t + 1) \div 2]
MCDay == [i \in Instants |-> (i + 1) \div 2]
=============================================================================
