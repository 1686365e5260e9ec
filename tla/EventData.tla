----------------------------- MODULE EventData ------------------------------
(***************************************************************************)
(* The data of an event: its values by Go type, the JSON object they make  *)
(* up, and the document it stands for.                                     *)
(*                                                                         *)
(* Data is the decoded JSON object: a record of its top-level fields and   *)
(* of the nested maps they refer to, by reference as Go maps are: two      *)
(* fields may share one nested map.                                        *)
(***************************************************************************)
EXTENDS Integers, Sequences

CONSTANTS TextNumber   \* the numeric texts, with what ParseFloat makes of them

\* A value by its Go type: nil, bool, string, json.Number (f: how its text is
\* written), int, int64, float64; "masked" is a string masking produced, "ref"
\* a nested map.
Nil == [k |-> "nil"]
Bool(b) == [k |-> "bool", b |-> b]
Str(s) == [k |-> "str", s |-> s]
JNum(n, f) == [k |-> "jnum", n |-> n, f |-> f]
GoNum(kind, n) == [k |-> kind, n |-> n]
Ref(id) == [k |-> "ref", id |-> id]

Data(top) == [ok |-> TRUE, top |-> top, heap |-> << >>]

\* The JSON object data stands for, references followed.
Document(d) ==
    [f \in DOMAIN d.top |->
        IF d.top[f].k = "ref" THEN [k |-> "map", m |-> d.heap[d.top[f].id]] ELSE d.top[f]]

\* A Go map after m[x] = v, and after delete(m, x).
Put(f, x, v) == [y \in DOMAIN f \cup {x} |-> IF y = x THEN v ELSE f[y]]
Drop(f, x) == [y \in DOMAIN f \ {x} |-> f[y]]
=============================================================================
