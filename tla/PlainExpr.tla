----------------------------- MODULE PlainExpr -----------------------------
(***************************************************************************)
(* The evaluation of the expressions of one function as evalExpr does it   *)
(* when nothing is quickened: arithmetic, comparison, sqrt and array       *)
(* accesses whose operands are local slots, and reads of a slot.           *)
(* Numbers are left open: Conv, Arith, Holds and Root stand for C++'s      *)
(* conversions, operators, comparisons and std::sqrt.                      *)
(***************************************************************************)
EXTENDS Naturals

CONSTANTS
  Exprs,           (* the expressions of the body                          *)
  Code,            (* their bytecode                                       *)
  Frames,          (* what the local slots hold while the program runs     *)
  Arrays,          (* the arrays it indexes                                *)
  Conv(_, _),      (* a number converted to a kind                         *)
  Arith(_, _, _, _), (* op on two numbers of a kind                        *)
  Holds(_, _, _),  (* a comparison of two numbers                          *)
  Root(_), Negative(_), Zero

VARIABLES
  slots,  (* the local slots of the running activation                     *)
  array,  (* the array it works on: storage kind and items                 *)
  out     (* the last evaluation: its value, error and where it stopped    *)

pvars == <<slots, array, out>>

(* The RTTypedNumericKind of numbers; Obj is RTTYPED_NUM_OBJECT.           *)
NumKinds == {"Int", "Long", "Float", "Double"}
Rank     == [Int |-> 0, Long |-> 1, Float |-> 2, Double |-> 3]
Promote(k, l) == IF Rank[k] >= Rank[l] THEN k ELSE l

Number(k, x) == [kind |-> k, num |-> x]
None         == Number("None", Zero)
Truth(b)     == Number(IF b THEN "True" ELSE "False", Zero)
Text         == Number("Str", Zero)
IsNum(v)     == v.kind \in NumKinds

In(s) == slots[s]

(* What an evaluation yields; only sqrt sets lastRuntimeError.             *)
Yields(value)          == [value |-> value, error |-> FALSE, array |-> array]
Writes(value, written) == [value |-> value, error |-> FALSE, array |-> written]
Raises                 == [value |-> None, error |-> TRUE, array |-> array]

ArithResult(op, k, x, y) ==
  IF op \in {"Div", "Mod"} /\ y = Zero THEN None
  ELSE Number(k, Arith(op, k, x, y))

GenericArith(op, u, v) ==
  IF IsNum(u) /\ IsNum(v)
  THEN ArithResult(op, Promote(u.kind, v.kind), u.num, v.num)
  ELSE IF op = "Add" /\ "None" \notin {u.kind, v.kind} /\ "Str" \in {u.kind, v.kind}
  THEN Text ELSE None

GenericCompare(op, u, v) ==
  IF "None" \in {u.kind, v.kind} THEN None
  ELSE IF (IsNum(u) /\ IsNum(v)) \/ (u.kind = "Str" /\ v.kind = "Str")
  THEN Truth(Holds(op, u.num, v.num))
  ELSE IF op \in {"Eq", "Ne"} THEN Truth(op = "Ne") ELSE None

(* Operands with a static kind are converted to it before the operation.   *)
TypedArith(op, k, u, v) ==
  IF IsNum(u) /\ IsNum(v) THEN ArithResult(op, k, Conv(k, u.num), Conv(k, v.num)) ELSE None

TypedCompare(op, k, u, v) ==
  IF IsNum(u) /\ IsNum(v) THEN Truth(Holds(op, Conv(k, u.num), Conv(k, v.num))) ELSE None

RootOf(x) == IF Negative(x) THEN Raises ELSE Yields(Number("Double", Root(x)))

(* An Any argument reaches the builtin sqrt, which refuses other values.   *)
EvalSqrt(k, u) ==
  IF IsNum(u) THEN RootOf(IF k = "Obj" THEN u.num ELSE Conv(k, u.num))
  ELSE IF k = "Obj" THEN Raises ELSE Yields(None)

(* Typed array accesses: an index of kind Int or Long within the length.   *)
Indexes(c, i) == c.kind = "Array" /\ i.kind \in {"Int", "Long"} /\ i.num \in DOMAIN array.items

CanGet(c, i) == Indexes(c, i) /\ IsNum(array.items[i.num])
Got(k, i)    == Number(k, Conv(k, array.items[i.num].num))

CanSet(c, i, v) == Indexes(c, i) /\ array.kind # "Boxed" /\ IsNum(v)
(* The storage is widened to hold the kind that is written.                *)
Stored(k, i, v) ==
  LET st == Promote(array.kind, k) IN
  [kind |-> st,
   items |-> [j \in DOMAIN array.items |->
                Number(st, Conv(st, IF j = i.num THEN Conv(k, v.num) ELSE array.items[j].num))]]

(* What code c yields.                                                     *)
Outcome(c) ==
  LET u == In(c.a)  v == In(c.b)  w == In(c.c) IN
  CASE c.family = "Arith"   -> Yields(IF c.kind = "Obj" THEN GenericArith(c.op, u, v)
                                      ELSE TypedArith(c.op, c.kind, u, v))
    [] c.family = "Compare" -> Yields(IF c.kind = "Obj" THEN GenericCompare(c.op, u, v)
                                      ELSE TypedCompare(c.op, c.kind, u, v))
    [] c.family = "Sqrt"    -> EvalSqrt(c.kind, u)
    [] c.family = "Get"     -> Yields(IF CanGet(u, v) THEN Got(c.kind, v) ELSE None)
    [] c.family = "Set"     -> IF CanSet(u, v, w) THEN Writes(w, Stored(c.kind, v, w))
                               ELSE Yields(None)
    [] OTHER                -> Yields(u)

Plain(e) == Outcome(Code[e])

Done(e, outcome, size) ==
  /\ out' = [expr |-> e, value |-> outcome.value, error |-> outcome.error,
             stop |-> Code[e].at + size]
  /\ array' = outcome.array

(* The first activation has begun; nothing was evaluated in it.            *)
Init ==
  /\ slots \in Frames /\ array \in Arrays
  /\ out = [expr |-> "none", value |-> None, error |-> FALSE, stop |-> 0]

(* Assignments change the slots, or another activation runs.               *)
Switch == slots' \in Frames /\ array' \in Arrays /\ UNCHANGED out

Evaluate(e) == Done(e, Plain(e), Code[e].size) /\ UNCHANGED slots

Next == Switch \/ \E e \in Exprs : Evaluate(e)

Spec == Init /\ [][Next]_pvars
=============================================================================
