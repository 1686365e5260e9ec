----------------------------- MODULE Expression -----------------------------
(***************************************************************************)
(* Computed fields: Evaluate of transform/expression/engine.go.  The code  *)
(* searches the expression's text for " ? ", then for each arithmetic and  *)
(* comparison operator in a fixed order, splits at the first occurrence    *)
(* and evaluates both sides; here an expression is the sequence of its     *)
(* operands and operators.  Numbers are rationals <<p, q>>: what float64   *)
(* rounds is not modelled.                                                 *)
(***************************************************************************)
EXTENDS EventData, SequencesExt

EvalErr == [k |-> "err"]

NumKinds == {"jnum", "int", "int64", "float"}
Zero == <<0, 1>>

\* toFloat64: what is not a number counts as 0.
NumberOf(v) ==
    IF v.k \in NumKinds THEN v.n
    ELSE IF v.k = "str" /\ v.s \in DOMAIN TextNumber THEN <<TextNumber[v.s], 1>>
    ELSE Zero

\* toBool: a json.Number falls to the default branch and is true, 0 included.
Truthy(v) ==
    \/ v.k = "bool" /\ v.b
    \/ v.k \in {"int", "float"} /\ v.n[1] # 0
    \/ v.k = "str" /\ v.s \notin {"", "false", "0"}
    \/ v.k \in {"jnum", "int64", "masked", "ref"}

-----------------------------------------------------------------------------
Add(x, y) == <<x[1] * y[2] + y[1] * x[2], x[2] * y[2]>>
Neg(x) == <<-x[1], x[2]>>
Mul(x, y) == <<x[1] * y[1], x[2] * y[2]>>
Inv(x) == IF x[1] > 0 THEN <<x[2], x[1]>> ELSE <<-x[2], -x[1]>>
Less(x, y) == x[1] * y[2] < y[1] * x[2]
Same(x, y) == x[1] * y[2] = y[1] * x[2]

ArithmeticOps == <<"+", "-", "*", "/">>
ComparisonOps == <<"<=", ">=", "!=", "==", "<", ">">>

\* The result goes through floatToJSONNumber; division by zero is an error.
Arithmetic(op, x, y) ==
    CASE op = "+" -> JNum(Add(x, y), "dec")
      [] op = "-" -> JNum(Add(x, Neg(y)), "dec")
      [] op = "*" -> JNum(Mul(x, y), "dec")
      [] op = "/" -> IF y[1] = 0 THEN EvalErr ELSE JNum(Mul(x, Inv(y)), "dec")

Comparison(op, x, y) ==
    Bool(CASE op = "<" -> Less(x, y)
           [] op = ">" -> Less(y, x)
           [] op = "<=" -> ~Less(y, x)
           [] op = ">=" -> ~Less(x, y)
           [] op = "==" -> Same(x, y)
           [] op = "!=" -> ~Same(x, y))

\* The conditional and numeric built-in functions, on evaluated arguments.
Extreme(fn, args) ==
    LET Before(x, y) == IF fn = "min" THEN Less(x, y) ELSE Less(y, x)
    IN  FoldLeft(LAMBDA m, v : IF Before(NumberOf(v), m) THEN NumberOf(v) ELSE m,
                 NumberOf(args[1]), Tail(args))

\* math.Round at a number of decimals: halves away from zero.
RoundTo(x, decimals) ==
    LET up == (2 * (IF x[1] < 0 THEN -x[1] ELSE x[1]) * 10^decimals + x[2]) \div (2 * x[2])
    IN  JNum(<<IF x[1] < 0 THEN -up ELSE up, 10^decimals>>, IF decimals = 0 THEN "int" ELSE "dec")

\* ifNull, ifEmpty and coalesce.
FirstPresent(fn, args) ==
    LET skipped == IF fn = "ifNull" THEN {Nil} ELSE {Nil, Str("")}
        i == SelectInSeq(args, LAMBDA v : v \notin skipped)
    IN  IF fn = "coalesce" THEN (IF i = 0 THEN Nil ELSE args[i])
        ELSE IF Len(args) < 2 THEN EvalErr
        ELSE IF i = 1 THEN args[1] ELSE args[2]

Builtin(fn, args) ==
    CASE fn \in {"ifNull", "ifEmpty", "coalesce"} -> FirstPresent(fn, args)
      [] fn \in {"min", "max"} ->
            IF args = << >> THEN Nil
            ELSE JNum(Extreme(fn, args), "dec")
      [] fn \in {"abs", "floor", "ceil", "round"} ->
            IF args = << >> THEN JNum(Zero, "int")
            ELSE LET x == NumberOf(args[1])
                 IN  CASE fn = "abs" -> JNum(IF x[1] < 0 THEN Neg(x) ELSE x, "dec")
                       [] fn = "floor" -> JNum(<<x[1] \div x[2], 1>>, "dec")
                       [] fn = "ceil" -> JNum(Neg(<<(-x[1]) \div x[2], 1>>), "dec")
                       [] fn = "round" -> RoundTo(x, IF Len(args) < 2 THEN 0 ELSE NumberOf(args[2])[1])

-----------------------------------------------------------------------------
\* Tokens: operators, operands and calls (a call is a whole expression).
Op(o) == [op |-> o, v |-> Nil]
Lit(v) == [op |-> "", v |-> v]
Field(f) == [op |-> "", v |-> [k |-> "field", f |-> f]]
Call(fn, args) == [op |-> "call", v |-> [k |-> "call", fn |-> fn, args |-> args]]

Occurs(e, o) == SelectInSeq(e, LAMBDA t : t.op = o)
FirstOf(e, ops) ==
    LET i == SelectInSeq(ops, LAMBDA o : Occurs(e, o) > 0)
    IN  IF i = 0 THEN "" ELSE ops[i]
Left(e, i) == SubSeq(e, 1, i - 1)
Right(e, i) == SubSeq(e, i + 1, Len(e))

Operand(v, data) ==
    IF v.k = "field" THEN (IF v.f \in DOMAIN data THEN data[v.f] ELSE Nil) ELSE v

\* Mutant of ArithmeticOp: the operators searched from the tightest on.
TightestFirst(e) == FirstOf(e, <<"*", "/", "+", "-">>)

\* Which operator tryArithmetic splits at: the first of + - * / that occurs.
ArithmeticOp(e) == FirstOf(e, ArithmeticOps)

RECURSIVE Evaluate(_, _)

\* tryTernary, for a "?" at q and the first ":" after it at c.
Ternary(e, q, c, data) ==
    LET cond == Evaluate(Left(e, q), data)
    IN  IF cond = EvalErr THEN EvalErr
        ELSE Evaluate(IF Truthy(cond) THEN Left(Right(e, q), c) ELSE Right(Right(e, q), c), data)

\* tryFunctionCall, for an expression that is one call.
FunctionCall(call, data) ==
    LET args == [i \in DOMAIN call.args |-> Evaluate(call.args[i], data)]
    IN  IF EvalErr \in Range(args) THEN EvalErr ELSE Builtin(call.fn, args)

Evaluate(e, data) ==
    LET q == Occurs(e, "?")
        c == IF q = 0 THEN 0 ELSE Occurs(Right(e, q), ":")
        a == ArithmeticOp(e)
        Binary(op, F(_, _, _)) ==
            LET i == Occurs(e, op)
                l == Evaluate(Left(e, i), data)
                r == Evaluate(Right(e, i), data)
            IN  IF EvalErr \in {l, r} THEN EvalErr ELSE F(op, NumberOf(l), NumberOf(r))
    IN  IF Len(e) = 1 THEN (IF e[1].op = "call" THEN FunctionCall(e[1].v, data) ELSE Operand(e[1].v, data))
        ELSE IF c > 0 THEN Ternary(e, q, c, data)
        ELSE IF a # "" THEN Binary(a, Arithmetic)
        ELSE Binary(FirstOf(e, ComparisonOps), Comparison)

-----------------------------------------------------------------------------
(* The usual reading of an arithmetic expression, and where the two agree. *)

\* Products before sums, both from the left.
Usual(e, data) ==
    LET Num(i) == NumberOf(Operand(e[i].v, data))
        Step(acc, i) ==
            CASE acc.err -> acc
              [] e[i].op = "+" -> [acc EXCEPT !.sum = Add(@, acc.term), !.term = Num(i + 1)]
              [] e[i].op = "-" -> [acc EXCEPT !.sum = Add(@, acc.term), !.term = Neg(Num(i + 1))]
              [] e[i].op = "*" -> [acc EXCEPT !.term = Mul(@, Num(i + 1))]
              [] e[i].op = "/" -> IF Num(i + 1)[1] = 0 THEN [acc EXCEPT !.err = TRUE]
                                  ELSE [acc EXCEPT !.term = Mul(@, Inv(Num(i + 1)))]
        end == FoldLeft(Step, [sum |-> Zero, term |-> Num(1), err |-> FALSE],
                        [i \in 1..((Len(e) - 1) \div 2) |-> 2 * i])
    IN  IF end.err THEN EvalErr ELSE JNum(Add(end.sum, end.term), "dec")

IsArithmetic(e) == Len(e) > 1 /\ \A i \in DOMAIN e : e[i].op \in Range(ArithmeticOps) \cup {""}

\* Two differences without a sum, or two quotients without another operator,
\* between them: the code groups them from the right.
GroupsFromRight(e) ==
    \E i, j \in DOMAIN e :
        /\ i < j
        /\ e[i].op = e[j].op
        /\ \/ e[i].op = "-" /\ \A n \in i..j : e[n].op # "+"
           \/ e[i].op = "/" /\ \A n \in i..j : e[n].op \in {"", "/"}
=============================================================================
