--------------------------- MODULE TransformPath ----------------------------
(***************************************************************************)
(* The event path with the transform engine of TransformRules in it        *)
(* (EngineTransform <- Transform): what the rules promise about every      *)
(* document that comes out at its end.                                     *)
(***************************************************************************)
EXTENDS EventPath, TransformRules

\* Field f is masked by the i-th matching rule for good, and neither a mapping
\* nor a computed field of a rule has read it before that.
Masked(matched, f) ==
    \E i \in DOMAIN matched :
        /\ \E n \in DOMAIN matched[i].masks :
               LET m == matched[i].masks[n] IN m.field = <<f>> /\ m.template = "" /\ m.strategy \in {"mask", "hash", "token"}
        /\ \A j \in 1..i : \A n \in DOMAIN matched[j].mappings : matched[j].mappings[n].source # <<f>>
        /\ \A j \in 1..(i - 1) : matched[j].computed = << >>

AllValues(doc) == {doc[f] : f \in DOMAIN doc} \cup UNION {Range(doc[f].m) : f \in {g \in DOMAIN doc : doc[g].k = "map"}}

\* A value the rules mask is in no document in the clear, under any field name,
\* unless the transform call failed and the event was passed on as it was
\* (transformEvents) or the binlog names no columns a rule could name
\* (handleRowsEvent), and in no document's id, unless REPLICA IDENTITY FULL makes
\* the id of the whole row, taken before the rules see it (extractPrimaryKey).
NoRawSecret ==
    LET matched == MatchRules(RuleSets[rules], source, "t")
    IN  Masked(matched, "v") /\ ident # "none" =>
            \A id \in DOMAIN docs, r \in Rows :
                /\ docs[id].passed \/ Str(r.v) \notin AllValues(docs[id].doc)
                /\ ident = "full" \/ r.v \notin Range(id)

\* A computed field that is a chain of + - * / has the value the usual
\* precedence gives, although tryArithmetic splits the text at the first
\* operator it finds, except where differences or quotients follow each other.
ComputedAsUsual ==
    LET matched == MatchRules(RuleSets[rules], source, "t")
        computed == IF matched = << >> THEN << >> ELSE matched[Len(matched)].computed
        set == {computed[i].field : i \in DOMAIN computed}
    IN  \A id \in DOMAIN docs, i \in DOMAIN computed :
            LET c == computed[i]
                doc == docs[id].doc
            IN  /\ ~docs[id].passed
                /\ IsArithmetic(c.expr) /\ ~GroupsFromRight(c.expr)
                /\ \A n \in DOMAIN c.expr : c.expr[n].v.k = "field" => c.expr[n].v.f \notin set
                => Same(NumberOf(doc[c.field]), NumberOf(Usual(c.expr, doc)))
=============================================================================
