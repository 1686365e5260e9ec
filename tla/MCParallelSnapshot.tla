-------------------------- MODULE MCParallelSnapshot --------------------------
(* Instances of ParallelSnapshot for TLC: the tables to copy.               *)
EXTENDS ParallelSnapshot

\* A table without a primary key, one split into two chunks with a remainder,
\* and one without an auto-increment key.
ThreeTables == <<"keyless", "orders", "codes">>

Lowest  == [t \in Table |-> 1]
Few     == [t \in Table |-> 3]
Highest == [t \in Table |-> IF t = "orders" THEN 5 ELSE 2]

=============================================================================
