---------------------------- MODULE MCConfigSync ----------------------------
(* Configurations of one to three sources, for TLC.                          *)
EXTENDS ConfigSync, TLC

S(id, mysql, v) == [id |-> id, mysql |-> mysql, val |-> v]
Whole(src) == [ok |-> TRUE, src |-> src, es |-> TRUE]
OneMulti == {Whole(<<S("orders-db", TRUE, 1)>>)}

\* Edited; without the comma after the first source; without a sink.
EditedMulti ==
    LET edited == Whole(<<S("pg", FALSE, 2), S("orders-db", TRUE, 2)>>)
    IN  {edited, [edited EXCEPT !.ok = FALSE], [edited EXCEPT !.es = FALSE]}

OneMore == {S("users-db", TRUE, 2)}
=============================================================================
