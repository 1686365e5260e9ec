-------------------------- MODULE MCMongoConnector --------------------------
(* Documents of two collections with _id values of all types, for TLC.      *)
EXTENDS MongoConnector, TLC

Id(c, k, n) == [coll |-> c, kind |-> k, n |-> n]
SomeIds == {Id("orders", "int", 2), Id("orders", "int", 4), Id("orders", "float", 3), Id("orders", "string", 1),
            Id("orders", "oid", 1), Id("orders", "date", 1), Id("users", "oid", 1)}
Orders(k, n) == Id("orders", k, n)
SomeInitial == {{Orders("int", 2)}, {Orders("int", 2), Orders("int", 4)},
                {Orders("oid", 1), Orders("date", 1)}, {Orders("string", 1), Orders("oid", 1)}}
SomeFilters == {{"orders"}}
=============================================================================
