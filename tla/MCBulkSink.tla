----------------------------- MODULE MCBulkSink -----------------------------
(* Events of two rows in two tables, for TLC.                               *)
EXTENDS BulkSink, TLC

E(t, op) == [table |-> t, pk |-> "1", op |-> op]
FourEvents == <<E("Orders", "index"), E("Users", "index"), E("Orders", "delete"), E("Orders", "index")>>
Lower == [Orders |-> "orders", Users |-> "users"]
=============================================================================
