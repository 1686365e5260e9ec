--------------------------- MODULE TransformRules ---------------------------
(***************************************************************************)
(* The transform engine: what Engine.Transform makes of the data of one    *)
(* event under the configured rules: filters, field mappings, field        *)
(* configurations with type conversion, masking, computed fields, in this  *)
(* order for every matching rule.                                          *)
(*                                                                         *)
(* Paths have one or two parts.  The decoder runs with UseNumber, so a     *)
(* number is a json.Number until a conversion makes it something else.     *)
(***************************************************************************)
EXTENDS Expression, TLC

CONSTANTS TextOrder,  \* the texts in the order strings compare, for gt, lt, ...
          DateTexts,  \* the texts time.Parse accepts
          TrueTexts, FalseTexts  \* the texts toBool accepts

Failed == [ok |-> FALSE]

\* getNestedValue: Absent when a part is missing or its parent is no map.
Absent == [k |-> "absent"]
Get(d, path) ==
    IF path[1] \notin DOMAIN d.top THEN Absent
    ELSE LET v == d.top[path[1]]
         IN  IF Len(path) = 1 THEN v
             ELSE IF v.k = "ref" /\ path[2] \in DOMAIN d.heap[v.id] THEN d.heap[v.id][path[2]]
             ELSE Absent

\* setNestedValue: a parent that is no map is replaced by a new one.
Set(d, path, v) ==
    IF Len(path) = 1 THEN [d EXCEPT !.top = Put(@, path[1], v)]
    ELSE IF path[1] \in DOMAIN d.top /\ d.top[path[1]].k = "ref"
         THEN LET id == d.top[path[1]].id
              IN  [d EXCEPT !.heap = Put(@, id, Put(d.heap[id], path[2], v))]
         ELSE LET id == <<path[1], ToString(Cardinality(DOMAIN d.heap))>>
              IN  [d EXCEPT !.top = Put(@, path[1], Ref(id)), !.heap = Put(@, id, path[2] :> v)]

\* The field set to a value that may be an error.
Assign(d, path, v) == IF v = EvalErr THEN Failed ELSE Set(d, path, v)

\* deleteNestedValue.
Delete(d, path) ==
    IF Get(d, path) = Absent THEN d
    ELSE IF Len(path) = 1 THEN [d EXCEPT !.top = Drop(@, path[1])]
    ELSE LET id == d.top[path[1]].id
         IN  [d EXCEPT !.heap = Put(@, id, Drop(d.heap[id], path[2]))]

\* deepCopy of every top-level value: nested maps are no longer shared.
DeepCopy(d) ==
    LET maps == {f \in DOMAIN d.top : d.top[f].k = "ref"}
    IN  [d EXCEPT !.top = [f \in DOMAIN d.top |-> IF f \in maps THEN Ref(<<f, "own">>) ELSE d.top[f]],
                  !.heap = [id \in {<<f, "own">> : f \in maps} |-> d.heap[d.top[id[1]].id]]]

-----------------------------------------------------------------------------
(* Filters. *)

TextOf(v) ==
    CASE v.k \in {"str", "masked"} -> v.s
      [] v.k = "bool" -> IF v.b THEN "true" ELSE "false"
      [] v.k = "nil" -> "<nil>"
      [] v.k \in NumKinds -> ToString(v.n[1])
      [] OTHER -> "map"

IsEqual(a, b) ==
    IF a.k \in NumKinds /\ b.k \in NumKinds THEN Same(a.n, b.n) ELSE a = b

\* compare: as numbers when both are, otherwise as printed texts.
Smaller(a, b) ==
    IF a.k \in NumKinds /\ b.k \in NumKinds THEN Less(a.n, b.n)
    ELSE SelectInSeq(TextOrder, LAMBDA t : t = TextOf(a)) < SelectInSeq(TextOrder, LAMBDA t : t = TextOf(b))

\* evaluateRule.  A list or a pattern is the set of what it holds or matches.
Matches(rule, d) ==
    LET v == Get(d, rule.field)
    IN  IF rule.op = "exists" THEN (v # Absent) = rule.value
        ELSE /\ v # Absent
             /\ CASE rule.op = "eq" -> IsEqual(v, rule.value)
                  [] rule.op = "ne" -> ~IsEqual(v, rule.value)
                  [] rule.op = "gt" -> Smaller(rule.value, v)
                  [] rule.op = "gte" -> ~Smaller(v, rule.value)
                  [] rule.op = "lt" -> Smaller(v, rule.value)
                  [] rule.op = "lte" -> ~Smaller(rule.value, v)
                  [] rule.op = "in" -> \E w \in rule.value : IsEqual(v, w)
                  [] rule.op = "nin" -> \A w \in rule.value : ~IsEqual(v, w)
                  [] rule.op = "regex" -> TextOf(v) \in rule.value
                  [] OTHER -> FALSE

\* Check: the first include rule that does not match, or exclude rule that
\* does, excludes the record; what a route rule sets is not used.
Included(filters, d) ==
    \A i \in DOMAIN filters :
        /\ filters[i].action = "include" => Matches(filters[i], d)
        /\ filters[i].action = "exclude" => ~Matches(filters[i], d)

-----------------------------------------------------------------------------
(* Field mappings and field configurations. *)

\* Apply of the field mapper, on a copy of the data.
MapFields(mappings, data) ==
    LET Step(d, m) ==
            LET v == IF d.ok THEN Get(d, m.source) ELSE Absent
            IN  IF v = Absent THEN d
                ELSE IF m.action \in {"rename", "move"} THEN Set(Delete(d, m.source), m.target, v)
                ELSE IF m.action = "copy" THEN Set(d, m.target, v)
                ELSE Failed
    IN  IF mappings = << >> THEN data ELSE FoldLeft(Step, DeepCopy(data), mappings)

\* ProcessFieldConfigs: exclusion, and what to do with a missing or null value.
ProcessFieldConfigs(configs, data) ==
    LET Step(d, c) ==
            IF ~d.ok THEN d
            ELSE IF c.exclude THEN Delete(d, c.field)
            ELSE IF Get(d, c.field) \notin {Absent, Nil} THEN d
            ELSE CASE c.null = "default" -> IF c.default = Nil THEN d ELSE Set(d, c.field, c.default)
                   [] c.null = "remove" -> Delete(d, c.field)
                   [] c.null = "error" -> IF c.required THEN Failed ELSE d
                   [] OTHER -> d
    IN  FoldLeft(Step, data, configs)

\* The converters, by target type.  json.Number is no case of toDate and
\* toTimestamp; toFloat64 appends ".0" to a number without a point, one
\* written with an exponent included ("bad": no JSON number any more).
Whole(x) == <<IF x[1] >= 0 THEN x[1] \div x[2] ELSE -((-x[1]) \div x[2]), 1>>

ToInteger(kind, v) ==
    CASE v.k \in NumKinds -> GoNum(kind, Whole(v.n))
      [] v.k = "bool" -> GoNum(kind, IF v.b THEN <<1, 1>> ELSE Zero)
      [] v.k = "str" /\ v.s \in DOMAIN TextNumber -> GoNum(kind, NumberOf(v))
      [] OTHER -> EvalErr

ToFloat(v) ==
    CASE v.k = "jnum" -> JNum(v.n, IF v.f \in {"int", "dec"} THEN "dec" ELSE "bad")
      [] v.k \in {"int", "int64", "float"} -> JNum(v.n, "dec")
      [] v.k = "bool" -> JNum(IF v.b THEN <<1, 1>> ELSE Zero, "dec")
      [] v.k = "str" /\ v.s \in DOMAIN TextNumber -> JNum(NumberOf(v), "dec")
      [] OTHER -> EvalErr

ToBoolean(v) ==
    CASE v.k = "bool" -> v
      [] v.k \in NumKinds -> Bool(v.n[1] # 0)
      [] v.k = "str" /\ v.s \in TrueTexts -> Bool(TRUE)
      [] v.k = "str" /\ v.s \in FalseTexts -> Bool(FALSE)
      [] OTHER -> EvalErr

ToDate(v) ==
    CASE v.k \in {"str", "masked"} -> v
      [] v.k \in {"int64", "float"} -> Str(TextOf(v))
      [] OTHER -> EvalErr

ToTimestamp(v) ==
    CASE v.k \in {"int", "int64", "float"} -> GoNum("int64", Whole(v.n))
      [] v.k = "str" /\ v.s \in DateTexts \cup DOMAIN TextNumber -> GoNum("int64", NumberOf(v))
      [] OTHER -> EvalErr

Convert(v, type) ==
    CASE type \in {"string", "keyword", "text"} -> IF v.k = "masked" THEN v ELSE Str(TextOf(v))
      [] type \in {"int", "int64"} -> ToInteger(type, v)
      [] type \in {"float", "float64"} -> ToFloat(v)
      [] type = "bool" -> ToBoolean(v)
      [] type = "date" -> ToDate(v)
      [] type = "timestamp" -> ToTimestamp(v)
      [] type = "object" -> v
      [] OTHER -> EvalErr

\* ApplyFieldConfigs of the type converter.
ConvertFields(configs, data) ==
    LET Step(d, c) ==
            IF ~d.ok \/ c.type = "" \/ c.exclude \/ Get(d, c.field) \in {Absent, Nil} THEN d
            ELSE Assign(d, c.field, Convert(Get(d, c.field), c.type))
    IN  FoldLeft(Step, data, configs)

-----------------------------------------------------------------------------
(* Masking and computed fields. *)

Templates == [phone |-> "mask", id_card |-> "mask", email |-> "regex", bank_card |-> "mask", name |-> "mask"]

\* The strategies, with the rule's own parameters or the template's: a hash
\* algorithm that does not exist, or a pattern that does not compile, is an error; a
\* regular expression that does not match leaves the text.
Mask(strategy, rule, v) ==
    CASE strategy \in {"hash", "regex"} /\ rule.template = "" /\ ~rule.valid -> EvalErr
      [] strategy \in {"mask", "hash", "token"} -> [k |-> "masked", s |-> "masked"]
      [] strategy = "regex" -> IF TextOf(v) \in rule.matches THEN [k |-> "masked", s |-> "masked"]
                               ELSE IF v.k = "masked" THEN v ELSE Str(TextOf(v))
      [] OTHER -> EvalErr

\* Apply of the masking engine looks a field up by its whole name, so it finds
\* top-level fields only, and skips null and empty values.
MaskFields(masks, data) ==
    LET Step(d, m) ==
            IF ~d.ok \/ Len(m.field) > 1 THEN d
            ELSE LET v == Get(d, m.field)
                     strategy == IF m.template = "" THEN m.strategy
                                 ELSE IF m.template \in DOMAIN Templates THEN Templates[m.template] ELSE ""
                 IN  IF v \in {Absent, Nil, Str("")} THEN d
                     ELSE Assign(d, m.field, Mask(strategy, m, v))
    IN  FoldLeft(Step, data, masks)

\* Compute sets top-level fields.
Compute(computed, data) ==
    LET Step(d, c) ==
            IF d.ok THEN Assign(d, <<c.field>>, Evaluate(c.expr, d.top)) ELSE d
    IN  FoldLeft(Step, data, computed)

-----------------------------------------------------------------------------
(* The pipeline of one rule, and the engine. *)

ApplyFields(rule, data) ==
    ConvertFields(rule.fields, ProcessFieldConfigs(rule.fields, MapFields(rule.mappings, data)))

\* Mutant of ApplyRule: fields are computed before values are masked.
ComputeBeforeMask(rule, data) ==
    MaskFields(rule.masks, Compute(rule.computed, ApplyFields(rule, data)))

\* applyRule, for a record its filters include: after an error the stages that
\* follow are not reached.
ApplyRule(rule, data) ==
    Compute(rule.computed, MaskFields(rule.masks, ApplyFields(rule, data)))

\* matchRules over the rules sorted by priority: enabled, for this source
\* ("": for all), for this table (an empty set: for all).
MatchRules(rules, source, table) ==
    SelectSeq(SortSeq(rules, LAMBDA a, b : a.priority < b.priority),
              LAMBDA r : /\ r.enabled
                         /\ r.source \in {"", source}
                         /\ r.tables = {} \/ table \in r.tables)

\* json.Marshal refuses a json.Number that is none.
Marshals(d) ==
    \A v \in Range(d.top) \cup UNION {Range(d.heap[id]) : id \in DOMAIN d.heap} :
        v.k = "jnum" => v.f # "bad"

Sent(d) == IF d.ok THEN [res |-> "sent", data |-> d] ELSE [res |-> "error"]
Encoded(r) == IF r.res = "sent" /\ ~Marshals(r.data) THEN [res |-> "error"] ELSE r

\* Transform: the data of the event to send on, or why there is none.
Transform(rules, source, table, top) ==
    LET Step(r, rule) ==
            IF r.res # "sent" THEN r
            ELSE IF ~Included(rule.filters, r.data) THEN [res |-> "filtered"]
            ELSE Sent(ApplyRule(rule, r.data))
    IN  Encoded(FoldLeft(Step, Sent(Data(top)), MatchRules(rules, source, table)))
=============================================================================
