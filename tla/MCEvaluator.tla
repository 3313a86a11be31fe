---------------------------- MODULE MCEvaluator -----------------------------
(* Model-checking instances of Evaluator.  Numbers count halves, results   *)
(* of operations twenty-fourths.                                           *)
EXTENDS Evaluator, Integers, TLC

Sign(x)     == IF x < 0 THEN -1 ELSE 1
Abs(x)      == Sign(x) * x
Trunc(x, y) == Sign(x) * Sign(y) * (Abs(x) \div Abs(y))

MCConv(k, x) == IF k \in {"Int", "Long"} THEN 2 * Trunc(x, 2) ELSE x
MCArith(op, k, x, y) ==
  CASE op = "Add" -> 12 * (x + y)
    [] op = "Sub" -> 12 * (x - y)
    [] op = "Mul" -> 6 * x * y
    [] op = "Div" -> IF k \in {"Int", "Long"} THEN 24 * Trunc(x, y) ELSE Trunc(24 * x, y)
    [] op = "Mod" -> 12 * (x - y * Trunc(x, y))
MCHolds(op, x, y) ==
  CASE op = "Eq" -> x = y
    [] op = "Ne" -> x # y
    [] op = "Lt" -> x < y
MCRoot(x)     == x
MCNegative(x) == x < 0
MCZero        == 0

Op(at, family, op, kind, a, b, c, size) ==
  [at |-> at, family |-> family, op |-> op, kind |-> kind,
   a |-> a, b |-> b, c |-> c, size |-> size]

(* func f(a:Any, b:Double, i:Int, d:Double[]) with a further local r       *)
(* without a static type, lowered to V2 but for three statements that are  *)
(* left to V1 and have a stream each:                                      *)
(*   show(a / b, sqrt(r), d[i])                                            *)
(*   show(a - r, i < b, d[i] = b)                                          *)
(*   show(a)                                                               *)
(* Their expressions are evaluated in any order, as loops and branches     *)
(* would.                                                                  *)
MCExprs == {"ratio", "root", "get", "difference", "less", "set", "ref"}
MCCode ==
  [ratio      |-> Op(12, "Arith",   "Div",  "Obj",    "a", "b", "b", 8),
   root       |-> Op(20, "Sqrt",    "Sqrt", "Obj",    "r", "r", "r", 12),
   get        |-> Op(32, "Get",     "Get",  "Double", "d", "i", "i", 7),
   difference |-> Op(12, "Arith",   "Sub",  "Obj",    "a", "r", "r", 8),
   less       |-> Op(20, "Compare", "Lt",   "Double", "i", "b", "b", 9),
   set        |-> Op(29, "Set",     "Set",  "Double", "d", "i", "b", 10),
   ref        |-> Op(12, "Ref",     "Ref",  "Obj",    "a", "a", "a", 3)]

Array == Number("Array", 0)
MCFrames ==
  [a : {Number("Int", -6), Text},
   b : {Number("Double", 0), Number("Double", 3)},
   i : {Number("Int", 0), Number("Int", 2)},
   r : {Number("Double", -3), Number("Int", 4)},
   d : {Array}]
MCArrays ==
  {[kind |-> "Int", items |-> (0 :> Number("Int", 4))],
   [kind |-> "Boxed", items |-> (0 :> Text) @@ (2 :> Number("Double", 5))]}

(* Two of the statements alone.                                            *)
StatementExprs == {"ratio", "difference"}
StatementCode  == [e \in StatementExprs |-> MCCode[e]]

Bodies == INSTANCE EmittedPrograms
MCPrograms == Bodies!MCPrograms
=============================================================================
