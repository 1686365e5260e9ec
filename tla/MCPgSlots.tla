------------------------------ MODULE MCPgSlots ------------------------------
(* Two jobs for TLC: one with a table of its own and a shared one, one with  *)
(* the shared table only.                                                    *)
EXTENDS PgSlots

SharedTable == [j \in Jobs |-> IF j = "j1" THEN {"t1", "t2"} ELSE {"t2"}]

=============================================================================
