----------------------------- MODULE MCEventPath -----------------------------
(* Transform configurations and rows for TLC.                               *)
EXTENDS TransformPath

TwoKeys == {"1", "2"}
R(s, d, v) == [s |-> s, d |-> d, v |-> v]
SomeRows == {R("on", "7", "x"), R("off", "7", "NaN"), R("on", "NaN", "x")}

Numbers == ("0" :> 0) @@ ("1" :> 1) @@ ("2" :> 2) @@ ("7" :> 7)
Order == <<"1", "2", "7", "<nil>", "NaN", "map", "masked", "off", "on", "x">>

Rule == [enabled |-> TRUE, source |-> "", tables |-> {}, priority |-> 1,
         filters |-> << >>, mappings |-> << >>, fields |-> << >>, masks |-> << >>, computed |-> << >>]
Filter(f, op, v, a) == [field |-> <<f>>, op |-> op, value |-> v, action |-> a]
Move(a, from, to) == [source |-> from, target |-> to, action |-> a]
Conf(f, type, exclude, null, default) ==
    [field |-> f, type |-> type, exclude |-> exclude, null |-> null, default |-> default, required |-> FALSE]
MaskV == [field |-> <<"v">>, strategy |-> "mask", template |-> "", matches |-> {}, valid |-> TRUE]
Two == Lit(JNum(<<2, 1>>, "int"))

\* Chains of two operators over d, id and 2, and some of three.
Chains ==
    LET ops == <<"+", "-", "*", "/">>
        two == [n \in 1..16 |-> <<Field("d"), Op(ops[(n - 1) \div 4 + 1]), Field("id"), Op(ops[((n - 1) % 4) + 1]), Two>>]
        three == <<Two, Op("-"), Field("d"), Op("*"), Two, Op("+"), Field("id")>>
        quot == <<Field("d"), Op("/"), Two, Op("*"), Field("id"), Op("/"), Two>>
        diff == <<Field("d"), Op("-"), Two, Op("+"), Field("id"), Op("-"), Two>>
    IN  two \o <<three, quot, diff>>

SomeRuleSets ==
    [none |-> << >>,
     filter |-> <<[Rule EXCEPT !.filters = <<Filter("s", "eq", Str("on"), "include")>>]>>,
     mask |-> <<[Rule EXCEPT !.masks = <<MaskV>>,
                     !.computed = <<[field |-> "w", expr |-> <<Call("coalesce", <<<<Field("v")>>, <<Two>>>>)>>]>>]>>,
     hash |-> <<[Rule EXCEPT !.masks = <<[MaskV EXCEPT !.strategy = "hash", !.valid = FALSE]>>]>>,
     nested |-> <<[Rule EXCEPT !.mappings = <<Move("rename", <<"v">>, <<"o", "v">>), Move("copy", <<"o">>, <<"o2">>)>>,
                     !.fields = <<Conf(<<"o", "v">>, "", TRUE, "", Nil)>>]>>,
     two |-> <<[Rule EXCEPT !.priority = 2, !.tables = {"t"}, !.masks = <<MaskV>>],
               [Rule EXCEPT !.fields = <<Conf(<<"v">>, "string", FALSE, "default", Str("y")),
                                         Conf(<<"d">>, "float", FALSE, "", Nil)>>,
                            !.filters = <<Filter("d", "gt", JNum(<<9, 1>>, "int"), "exclude")>>]>>,
     date |-> <<[Rule EXCEPT !.source = "postgresql", !.fields = <<Conf(<<"d">>, "timestamp", FALSE, "", Nil)>>]>>,
     chains |-> <<[Rule EXCEPT !.computed = [n \in DOMAIN Chains |-> [field |-> "c" \o ToString(n), expr |-> Chains[n]]]]>>]

\* Changes: the history of a row matters most under a filter, and not at all
\* to what one event is turned into.
Changes == [none |-> 2, filter |-> 3, mask |-> 2, hash |-> 1, nested |-> 1, two |-> 2, date |-> 1, chains |-> 1]
=============================================================================
