---------------------------- MODULE MCCdcPipeline ----------------------------
(* Instances of CdcPipeline for TLC: which row each event of the log        *)
(* changes, and how the dead letter queue tells events apart.               *)
EXTENDS CdcPipeline

\* Two rows changed in turn.
Alternating == [e \in Event |-> IF e % 2 = 1 THEN "a" ELSE "b"]

\* All events change one row.
SameRow == [e \in Event |-> "a"]

\* Row "b" is changed by every third event: changes of "a" meet in a batch.
Meeting == [e \in Event |-> IF e % 3 = 2 THEN "b" ELSE "a"]

\* Every event has its own binlog position, or one row of a RowsEvent.
Distinct == [e \in Event |-> e]

=============================================================================
