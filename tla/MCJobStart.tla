----------------------------- MODULE MCJobStart -----------------------------
(* All configurations of a job over two tables, for TLC.                    *)
EXTENDS JobStart

TwoTables == <<"t1", "t2">>
\* Options that change nothing are left out: the parallel snapshot is for MySQL,
\* a forced sync needs one that is switched on.
AllConfs == {c \in Conf : /\ c.own => c.first = c.type
                          /\ c.useParallel => c.type = "mysql"
                          /\ c.force => c.initialSync}

=============================================================================
