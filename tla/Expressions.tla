---------------------------- MODULE Expressions ----------------------------
(***************************************************************************)
(* What an accepted expression means: the type the analyser gives it, the  *)
(* value the V1 evaluator computes, and the value the V2 build of the same *)
(* body computes, be it in registers or in a V1 fallback statement over    *)
(* the registers' slots.  A body is a function's, or the statements of a   *)
(* module, which V2 compiles into a function of its own.                   *)
(*                                                                         *)
(* A body is fed one step at a time: operands and operators build an       *)
(* expression on a stack, as they stand in a postfix listing of the tree,  *)
(* and a statement consumes it.  Lowering looks at static types only, so   *)
(* an unrolled body stands for its loops and taken branches.               *)
(*                                                                         *)
(* A value is its runtime kind together with "from", the named departures  *)
(* of the code it descends from.  Which number it is does not matter; that *)
(* a division meets zero, an index is out of range or a callee fails is a  *)
(* choice, the same for both builds.                                       *)
(***************************************************************************)
EXTENDS Naturals, Sequences

CONSTANTS TypeOf,      \* declared type of each local name that is no array
          ElementOf,   \* element type of each numeric array parameter
          Returns,     \* declared return type of each function without parameters
          Lazy,        \* the lazy ones among them
          MaxDepth,    \* operands pending at once
          MaxSteps     \* steps of one body

VARIABLES where,    \* "function", or "module" for top-level statements
          stack,    \* the expression being built
          env1,     \* V1: value of each name
          env2,     \* V2: value of each name's slot
          kind2,    \* V2: the kind each slot has now
          blob,     \* blocks of fallback statements V2 is inside of
          loops,    \* lowered loops around them
          end1,     \* how and with what the V1 build has ended; "pending" is
                    \* an error in an outermost statement still running
          end2,     \* how and with what the V2 build has ended; "pending" is
                    \* an error in a fallback statement still running
          steps

vars == <<where, stack, env1, env2, kind2, blob, loops, end1, end2, steps>>

Names == DOMAIN TypeOf
Arrays == DOMAIN ElementOf
Numeric == {"Int", "Long", "Float", "Double"}

ASSUME TypesAssumption ==
  /\ TypeOf \in [Names -> Numeric \cup {"Bool", "Any"}]
  /\ ElementOf \in [Arrays -> Numeric]
  /\ Names \cap Arrays = {}
  /\ Returns \in [DOMAIN Returns -> Numeric \cup {"Bool", "Any"}]
  /\ Lazy \subseteq DOMAIN Returns
  /\ MaxDepth \in Nat /\ MaxSteps \in Nat

-----------------------------------------------------------------------------
(* Types and kinds. *)

numericTypeRank(t) == CASE t = "Int" -> 1 [] t = "Long" -> 2
                        [] t = "Float" -> 3 [] t = "Double" -> 4
promotedFastKind(s, t) ==
  IF s = "Object" THEN t
  ELSE IF t = "Object" THEN s
  ELSE IF numericTypeRank(s) >= numericTypeRank(t) THEN s ELSE t

isWideningNumericCast(expected, actual) ==
  \/ expected = "Long" /\ actual = "Int"
  \/ expected = "Float" /\ actual = "Int"
  \/ expected = "Double" /\ actual \in {"Int", "Long", "Float"}

match(expected, actual) ==
  expected = "Any" \/ expected = actual \/ isWideningNumericCast(expected, actual)

isIntType(t) == t \in {"Int", "Long"}

\* The type of lhs op rhs, "rejected" when the analyser reports an error.
inferBinaryResultType(op, lhs, rhs) ==
  LET any == lhs = "Any" \/ rhs = "Any"
      numbers == lhs \in Numeric /\ rhs \in Numeric
  IN  CASE op \in {"+", "/"} /\ any -> "Any"
        [] op \in {"+", "/"} /\ numbers -> promotedFastKind(lhs, rhs)
        [] op = "|" /\ any -> "Any"
        [] op = "|" /\ isIntType(lhs) /\ isIntType(rhs) -> "Int"
        [] op = "==" /\ (any \/ numbers \/ lhs = rhs) -> "Bool"
        [] op = "<" /\ (any \/ numbers) -> "Bool"
        [] op = "&&" /\ (any \/ (lhs = "Bool" /\ rhs = "Bool")) -> "Bool"
        [] OTHER -> "rejected"

fastScalarKindFromType(t) == IF t \in Numeric THEN t ELSE "Object"
isFastNumericKind(k) == k # "Object"

\* The kind of an operation on operands of kinds l and r; a unary one has its
\* operand twice.
inferFastType(op, l, r) ==
  IF op \in {"-", "+", "/"} /\ isFastNumericKind(l) /\ isFastNumericKind(r)
    THEN promotedFastKind(l, r) ELSE "Object"

-----------------------------------------------------------------------------
(* Values.  "none" is a null object; "error" one that came with an entry   *)
(* in lastRuntimeError; "stop" an instruction that ended its function.     *)

Val(k, from) == [k |-> k, from |-> from]
Of(k) == Val(k, {})
IsNumber(v) == v.k \in Numeric
Missing(v) == v.k \in {"none", "error"}
Stops(v) == v.k = "stop"
Fails(from) == Val("none", from)
\* What an operation yields when one of its operands is missing.
Lacking(vs, from) ==
  Val(IF \E v \in vs : v.k = "error" THEN "error" ELSE "none", from)

(* V1 code, over the names of one build. *)

evalTypedBinary(kind, l, r, fails) ==
  LET from == l.from \cup r.from
  IN  IF Missing(l) \/ Missing(r) THEN Lacking({l, r}, from)
      ELSE IF ~IsNumber(l) \/ ~IsNumber(r) \/ fails THEN Fails(from)
      ELSE Val(kind, from)

evalTypedCompare(l, r) == evalTypedBinary("Bool", l, r, FALSE)

evalBinaryOperator(op, l, r, fails) ==
  LET from == l.from \cup r.from
      numbers == IsNumber(l) /\ IsNumber(r)
      decided == op = "&&" /\ l.k = "Bool" /\ fails     \* the left operand decides
  IN  IF decided THEN Val("Bool", l.from)
      ELSE IF op = "&&" /\ ~Missing(l) /\ l.k # "Bool" THEN Fails(from)
      ELSE IF Missing(l) \/ Missing(r) THEN Lacking({l, r}, from)
      ELSE CASE op \in {"+", "/"} /\ numbers /\ ~(op = "/" /\ fails) ->
                  Val(promotedFastKind(l.k, r.k), from)
             [] op = "|" /\ l.k = "Int" /\ r.k = "Int" -> Val("Int", from)
             [] op = "==" -> Val("Bool", from)
             [] op = "<" /\ numbers -> Val("Bool", from)
             [] op = "&&" /\ r.k = "Bool" -> Val("Bool", from)
             [] OTHER -> Fails(from)

\* Operands the compiler claims to be numbers are computed by typed code.
evalBinary(op, lfast, rfast, l, r, fails) ==
  IF isFastNumericKind(lfast) /\ isFastNumericKind(rfast) /\ op \in {"+", "/"}
    THEN evalTypedBinary(promotedFastKind(lfast, rfast), l, r, op = "/" /\ fails)
  ELSE IF isFastNumericKind(lfast) /\ isFastNumericKind(rfast) /\ op \in {"==", "<"}
    THEN evalTypedCompare(l, r)
  ELSE evalBinaryOperator(op, l, r, fails)

evalUnary(op, fast, v, fails, awaited) ==
  IF Missing(v) THEN v
  ELSE CASE op = "-" -> IF ~IsNumber(v) THEN Fails(v.from)
                        ELSE Val(IF isFastNumericKind(fast) THEN fast ELSE v.k, v.from)
         [] op = "!" -> IF v.k = "Bool" THEN v ELSE Fails(v.from)
         [] op = "~" -> IF v.k = "Int" THEN v ELSE Fails(v.from)
         [] op = "await" -> IF v.k = "Task" /\ ~fails THEN Val(awaited, v.from)
                            ELSE Val("error", v.from)

evalCast(target, v) ==
  IF Missing(v) \/ target = "Any" THEN v
  ELSE IF target = "Bool" \/ IsNumber(v) \/ v.k = "Bool" THEN Val(target, v.from)
  ELSE Val("error", v.from)

\* An element of a numeric array; "fails" is an index outside it.
evalTypedIndexGet(kind, elements, index, fails) ==
  IF Missing(index) THEN Lacking({index}, index.from)
  ELSE IF ~isIntType(index.k) \/ fails THEN Fails(index.from)
  ELSE Val(kind, index.from \cup elements.from)

evalSqrt(fast, v, fails) ==
  IF isFastNumericKind(fast) /\ Missing(v) THEN v
  ELSE IF isFastNumericKind(fast) /\ ~IsNumber(v) THEN Fails(v.from)
  ELSE IF ~IsNumber(v) \/ fails THEN Val("error", v.from)
  ELSE Val("Double", v.from)

evalTernary(cond, v) ==
  IF Missing(cond) THEN Lacking({cond}, cond.from)
  ELSE IF cond.k # "Bool" THEN Val("error", cond.from)
  ELSE Val(v.k, v.from \cup cond.from)

-----------------------------------------------------------------------------
(* Lowering.  lo.ok: the expression can live in registers; lo.kind: its    *)
(* register's kind; lo.fused: its last instruction is a Binary, which the  *)
(* execution image fuses with a move that follows.                         *)

Lo(ok, kind, fused) == [ok |-> ok, kind |-> kind, fused |-> fused]
notLowered == Lo(FALSE, "Object", FALSE)

Stop(from) == Val("stop", from)

\* Loads that must find a number in both slots, which may be the same.
loadNumbers(kind, l, r, fails) ==
  IF ~IsNumber(l) \/ ~IsNumber(r) \/ fails THEN Stop(l.from \cup r.from)
  ELSE Val(kind, l.from \cup r.from)

\* A cast reads its operand with the operand's static kind, Object included.
NumCast(target, kind, v) ==
  IF kind = "Object" THEN Stop(v.from \cup {"object cast"})
  ELSE loadNumbers(target, v, v, FALSE)

lowerNumericCast(lo, target) ==
  IF ~lo.ok THEN notLowered
  ELSE IF lo.kind = target THEN lo ELSE Lo(TRUE, target, FALSE)

\* Faulty: no instruction is emitted for the cast.
castLeftOut(lo, target, v) == v

castRegister(lo, target, v) ==
  IF Stops(v) \/ lo.kind = target THEN v ELSE NumCast(target, lo.kind, v)

\* Faulty: the operands' kinds are not looked at.
lowerBinaryAnyOperands(op, l, r) ==
  IF l.ok /\ r.ok /\ op \in {"+", "/"} THEN Lo(TRUE, promotedFastKind(l.kind, r.kind), TRUE)
  ELSE IF l.ok /\ r.ok /\ op \in {"==", "<"} THEN Lo(TRUE, "Int", FALSE)
  ELSE notLowered

lowerBinary(op, l, r) ==
  IF l.ok /\ r.ok /\ isFastNumericKind(l.kind) /\ isFastNumericKind(r.kind)
    THEN CASE op \in {"+", "/"} -> Lo(TRUE, promotedFastKind(l.kind, r.kind), TRUE)
           [] op \in {"==", "<"} -> Lo(TRUE, "Int", FALSE)
           [] OTHER -> notLowered
    ELSE notLowered

\* A comparison leaves an Int 0 or 1 where V1 has a Bool.
binaryRegister(op, kind, l, r, fails) ==
  IF Stops(l) THEN l ELSE IF Stops(r) THEN r
  ELSE LET v == loadNumbers(kind, l, r, op = "/" /\ fails)
       IN  IF op \in {"==", "<"} /\ ~Stops(v)
             THEN Val("Int", v.from \cup {"bool"}) ELSE v

\* A register call: a lazy callee's body runs at once, and a failing one ends
\* its caller.
directCallRegister(kind, lazy, outcome) ==
  LET from == IF lazy THEN {"lazy"} ELSE {}
  IN  CASE outcome = "value" -> Val(kind, from)
        [] outcome = "null" -> Val("none", from)
        [] outcome \in {"fails", "errs"} -> Stop(from)

sqrtRegister(v, negative) ==
  IF Stops(v) THEN v ELSE loadNumbers("Double", v, v, negative)

indexRegister(kind, elements, index, outside) ==
  IF Stops(index) THEN index
  ELSE IF ~isIntType(index.k) \/ outside THEN Stop(index.from)
  ELSE Val(kind, index.from \cup elements.from)

\* Storing v, or what comes of the element's old value and v.
storeRegister(kind, index, old, v, outside) ==
  IF Stops(index) THEN index
  ELSE IF Stops(v) THEN v
  ELSE IF outside \/ ~isIntType(index.k) THEN Stop(index.from)
  ELSE loadNumbers(kind, old, v, FALSE)

-----------------------------------------------------------------------------
(* An expression: its static type; the kind inferFastType claims for it;   *)
(* whether it is a call or a ternary; its lowering; its value in V1, in V1 *)
(* code over V2's slots, and in V2's register.                             *)

Expr(type, fast, shape, lo, v1, fb, v2) ==
  [type |-> type, fast |-> fast, shape |-> shape, lo |-> lo, v1 |-> v1, fb |-> fb, v2 |-> v2]

Underway == {"running", "pending"}
Running == end1.how \in Underway /\ end2.how \in Underway /\ steps < MaxSteps
Top == stack[Len(stack)]
Below(n) == SubSeq(stack, 1, Len(stack) - n)
Building ==
  UNCHANGED <<where, env1, env2, kind2, blob, loops, end1, end2>> /\ steps' = steps + 1

Pushing == Running /\ Len(stack) < MaxDepth /\ Building

Replace(n, e) == Running /\ stack' = Append(Below(n), e) /\ Building

ConstNode(t) ==
  CASE t = "Int" -> Expr("Int", "Int", "other", Lo(TRUE, "Int", FALSE),
                         Of("Int"), Of("Int"), Of("Int"))
    [] t = "Bool" -> Expr("Bool", "Object", "other", Lo(TRUE, "Int", FALSE),
                          Of("Bool"), Of("Bool"), Val("Int", {"bool"}))
    [] t = "Float" -> Expr("Float", "Double", "other", Lo(TRUE, "Double", FALSE),
                           Val("Float", {"literal"}), Val("Float", {"literal"}),
                           Val("Double", {"literal"}))

Literal(t) == Pushing /\ stack' = Append(stack, ConstNode(t))

VarNode(x) ==
  LET kind == fastScalarKindFromType(TypeOf[x])
  IN  Expr(TypeOf[x], kind, "other", Lo(TRUE, kind, FALSE), env1[x], env2[x], env2[x])

Name(x) == Pushing /\ stack' = Append(stack, VarNode(x))

\* "await" is fed the function whose task is awaited.
UnaryNode(op, fails, f, e) ==
  Expr(CASE op = "-" -> e.type [] op = "!" -> "Bool"
         [] op = "~" -> "Int" [] op = "await" -> Returns[f],
       inferFastType(op, e.fast, e.fast), "other", notLowered,
       evalUnary(op, e.fast, e.v1, fails, Returns[f]),
       evalUnary(op, e.fast, e.fb, fails, Returns[f]), Stop({}))

acceptsOperand(op, type) ==
  CASE op = "-" -> type \in Numeric
    [] op = "!" -> type = "Bool"
    [] op = "~" -> isIntType(type)
    [] op = "await" -> type = "Task"

Unary(op, fails) ==
  /\ stack # <<>> /\ acceptsOperand(op, Top.type)
  /\ \E f \in Lazy : Replace(1, UnaryNode(op, fails, f, Top))

BinaryNode(op, fails, l, r) ==
  LET lo == lowerBinary(op, l.lo, r.lo)
  IN  Expr(inferBinaryResultType(op, l.type, r.type),
           inferFastType(op, l.fast, r.fast), "other", lo,
           evalBinary(op, l.fast, r.fast, l.v1, r.v1, fails),
           evalBinary(op, l.fast, r.fast, l.fb, r.fb, fails),
           IF lo.ok THEN binaryRegister(op, promotedFastKind(l.lo.kind, r.lo.kind),
                                        l.v2, r.v2, fails)
           ELSE Stop({}))

Binary(op, fails) ==
  /\ Len(stack) >= 2
  /\ LET l == stack[Len(stack) - 1]
     IN  /\ inferBinaryResultType(op, l.type, Top.type) # "rejected"
         /\ Replace(2, BinaryNode(op, fails, l, Top))

\* An explicit cast: a call of a builtin type with one argument.
CastNode(target, e) ==
  LET lo == IF target \in Numeric THEN lowerNumericCast(e.lo, target) ELSE notLowered
  IN  Expr(target, fastScalarKindFromType(target), "call", lo,
           evalCast(target, e.v1), evalCast(target, e.fb),
           IF lo.ok THEN castRegister(e.lo, target, e.v2) ELSE Stop({}))

Cast(target) ==
  /\ stack # <<>>
  /\ target = "Any" \/ Top.type \in Numeric \cup {"Bool", "Any"}
  /\ Replace(1, CastNode(target, Top))

\* A call ends with a value, with null, with a failure, which V1 takes for null
\* and V2 for the end of the calling function too, or with an error in both.  A
\* lazy function hands out a Task, but a direct call from a register runs its
\* body at once.
called(f, outcome, failed) ==
  IF f \in Lazy THEN Val("Task", {"lazy"})
  ELSE Of(CASE outcome = "value" -> Returns[f]
            [] outcome = "null" -> "none"
            [] outcome = "fails" -> failed
            [] outcome = "errs" -> "error")

CallNode(f, outcome) ==
  LET lazy == f \in Lazy
      kind == fastScalarKindFromType(Returns[f])
  IN  Expr(IF lazy THEN "Task" ELSE Returns[f], kind, "call", Lo(TRUE, kind, FALSE),
           called(f, outcome, "none"), called(f, outcome, "error"),
           directCallRegister(Returns[f], lazy, outcome))

Call(f, outcome) == Pushing /\ stack' = Append(stack, CallNode(f, outcome))

SqrtNode(negative, e) ==
  LET lowered == e.lo.ok /\ isFastNumericKind(e.lo.kind)
  IN  Expr("Double", "Object", "call",
           IF lowered THEN Lo(TRUE, "Double", FALSE) ELSE notLowered,
           evalSqrt(e.fast, e.v1, negative), evalSqrt(e.fast, e.fb, negative),
           IF lowered THEN sqrtRegister(e.v2, negative) ELSE Stop({}))

Sqrt(negative) ==
  stack # <<>> /\ Top.type \in Numeric /\ Replace(1, SqrtNode(negative, Top))

IndexNode(a, outside, e) ==
  LET kind == ElementOf[a]
  IN  Expr(kind, kind, "other", IF e.lo.ok THEN Lo(TRUE, kind, FALSE) ELSE notLowered,
           evalTypedIndexGet(kind, env1[a], e.v1, outside),
           evalTypedIndexGet(kind, env2[a], e.fb, outside),
           indexRegister(kind, env2[a], e.v2, outside))

Index(a, outside) ==
  stack # <<>> /\ Top.type = "Int" /\ Replace(1, IndexNode(a, outside, Top))

\* The branch that is not of the result type is not cast.
TernaryNode(cond, first, t, e) ==
  LET type == IF match(t.type, e.type) THEN t.type ELSE e.type
      taken == IF first THEN t ELSE e
      widened == IF taken.type = type THEN {} ELSE {"ternary"}
  IN  Expr(type, "Object", "ternary", notLowered,
           evalTernary(cond.v1, Val(taken.v1.k, taken.v1.from \cup widened)),
           evalTernary(cond.fb, Val(taken.fb.k, taken.fb.from \cup widened)), Stop({}))

Ternary(first) ==
  /\ Len(stack) >= 3
  /\ LET cond == stack[Len(stack) - 2]
         t == stack[Len(stack) - 1]
     IN  /\ cond.type = "Bool"
         /\ match(t.type, Top.type) \/ match(Top.type, t.type)
         /\ Replace(3, TernaryNode(cond, first, t, Top))

-----------------------------------------------------------------------------
(* Statements.  One whose expression is in registers runs there, unless it *)
(* is part of a fallback statement; every other runs as V1 code over the   *)
(* slots of the V2 frame, and an error of it ends the body when the        *)
(* outermost fallback statement is over.  V1 goes on behind an error, save *)
(* for a module: it stops behind the outermost statement that left one.    *)

running == [how |-> "running", v |-> Of("none"), at |-> Of("none")]
Ended(how, v, at) == [how |-> how, v |-> v, at |-> at]
Consumes(n) == Running /\ Len(stack) = n
inRegisters(e) == e.lo.ok /\ blob = 0

\* Faulty: the value is stored as it is.
leftAsIs(expected, e) == e

\* An initialiser, an assigned value or an element is cast when it widens.
\* An explicit cast that stood there is replaced, which leaves the same kind.
applyImplicitNumericCast(expected, e) ==
  IF isWideningNumericCast(expected, e.type)
    THEN Expr(e.type, e.fast, e.shape, lowerNumericCast(e.lo, expected),
              evalCast(expected, e.v1), evalCast(expected, e.fb),
              castRegister(e.lo, expected, e.v2))
    ELSE e

withV1(e, v1, fb) == Expr(e.type, e.fast, e.shape, e.lo, v1, fb, e.v2)

\* The analyser visits an initialiser twice, and its second visit of a call
\* forgets the cast; it also enters the branches of a ternary.  Where names are
\* slots they convert what the cast should have; V1's module variables do not.
initialiser(expected, e) ==
  CASE e.shape = "call" /\ isWideningNumericCast(expected, e.type) ->
         IF where = "function" THEN e
         ELSE withV1(e, Val(e.v1.k, e.v1.from \cup {"lost cast"}), e.fb)
    [] e.shape = "ternary" /\ expected \in Numeric ->
         withV1(e, evalCast(expected, e.v1), evalCast(expected, e.fb))
    [] OTHER -> applyImplicitNumericCast(expected, e)

\* A numeric slot converts the numbers stored to it, a module variable nothing.
converted(kind, v) == IF IsNumber(v) /\ kind \in Numeric THEN Val(kind, v.from) ELSE v

\* What V1 code leaves in a slot: a missing value is stored as Bool false by
\* an assignment and as nothing by a declaration.
stored(kind, v, assigned) ==
  IF ~Missing(v) THEN converted(kind, v)
  ELSE IF assigned THEN Val("Bool", v.from \cup {"failed"}) ELSE Val("none", v.from)

\* What is stored to a slot whose kind is no longer the declared one.
rekinded(kind, declared) == IF kind = declared THEN {} ELSE {"rekind"}

\* An error met by V1 code in V2.
afterFallback(fb, at) ==
  end2' = IF fb.k # "error" THEN end2
          ELSE Ended(IF blob = 0 THEN "stopped" ELSE "pending", fb, at)

\* An error met by V1; "from" is where the value V2 has there descends from.
afterStatement(v1, from) ==
  end1' = IF where = "function" \/ v1.k # "error" THEN end1
          ELSE Ended(IF blob + loops = 0 THEN "stopped" ELSE "pending", v1, Val("none", from))

\* The effect of storing e into the slot of x, in both builds.
Store(x, e, assigned) ==
  LET declared == fastScalarKindFromType(TypeOf[x])
      fb == stored(kind2[x], e.fb, assigned)
  IN  /\ env1' = [env1 EXCEPT ![x] =
                    stored(IF where = "function" THEN declared ELSE "Object", e.v1, assigned)]
      /\ afterStatement(e.v1, IF inRegisters(e) THEN e.v2.from ELSE e.fb.from)
      /\ CASE ~inRegisters(e) ->
                /\ env2' = [env2 EXCEPT ![x] =
                              Val(fb.k, fb.from \cup rekinded(kind2[x], declared))]
                /\ afterFallback(e.fb, e.v1)
                /\ UNCHANGED kind2
           [] inRegisters(e) /\ Stops(e.v2) ->
                end2' = Ended("stopped", e.v2, e.v1) /\ UNCHANGED <<env2, kind2>>
           [] inRegisters(e) /\ ~Stops(e.v2) /\ e.lo.fused ->
                /\ env2' = [env2 EXCEPT ![x] =
                              Val(e.v2.k, e.v2.from \cup rekinded(e.lo.kind, declared))]
                /\ kind2' = [kind2 EXCEPT ![x] = e.lo.kind]
                /\ UNCHANGED end2
           [] inRegisters(e) /\ ~Stops(e.v2) /\ ~e.lo.fused ->
                /\ env2' = [env2 EXCEPT ![x] =
                              Val(converted(kind2[x], e.v2).k,
                                  e.v2.from \cup rekinded(kind2[x], declared))]
                /\ UNCHANGED <<kind2, end2>>
      /\ stack' = <<>> /\ steps' = steps + 1
      /\ UNCHANGED <<where, blob, loops>>

Declare(x) ==
  /\ Consumes(1)
  /\ match(TypeOf[x], Top.type)
  /\ Store(x, initialiser(TypeOf[x], Top), FALSE)

Assign(x) ==
  /\ Consumes(1)
  /\ match(TypeOf[x], Top.type)
  /\ Store(x, applyImplicitNumericCast(TypeOf[x], Top), TRUE)

\* x op= e is a binary operation that is then assigned.
Compound(x, op, fails) ==
  /\ Consumes(1)
  /\ LET e == BinaryNode(op, fails, VarNode(x), Top)
     IN  e.type # "rejected" /\ match(TypeOf[x], e.type) /\ Store(x, e, TRUE)

\* a[i] = e and a[i] += e.  What cannot be stored is left out by V1 and ends
\* the function in V2.
updated(op, element, elements, index, fast, v, outside) ==
  IF op = "=" THEN v
  ELSE evalBinary("+", element, fast, evalTypedIndexGet(element, elements, index, outside),
                  v, FALSE)

elementsAfter(element, elements, index, v, outside) ==
  Val(element, elements.from \cup index.from \cup v.from \cup
               IF isIntType(index.k) /\ ~outside /\ IsNumber(v) THEN {} ELSE {"failed"})

\* What V1 has when a store fails.
storing(index, v, outside) ==
  IF outside THEN Of("none")
  ELSE Val(IF Missing(index) THEN "none" ELSE v.k, index.from \cup v.from)

firstError(index, v, value) ==
  IF index.k = "error" THEN index ELSE IF v.k = "error" THEN v ELSE value

StoreElement(a, op, outside) ==
  /\ Consumes(2) /\ stack[1].type = "Int"
  /\ LET element == ElementOf[a]
         i == stack[1]
         e == IF op = "=" THEN applyImplicitNumericCast(element, Top) ELSE Top
         type == IF op = "=" THEN Top.type ELSE inferBinaryResultType(op, element, Top.type)
         v1 == updated(op, element, env1[a], i.v1, e.fast, e.v1, outside)
         fb == updated(op, element, env2[a], i.fb, e.fast, e.fb, outside)
         v2 == storeRegister(element, i.v2, IF op = "=" THEN e.v2 ELSE env2[a], e.v2, outside)
         at == storing(i.v1, e.v1, outside)
         lowered == inRegisters(i) /\ inRegisters(e)
     IN  /\ type # "rejected" /\ match(element, type)
         /\ env1' = [env1 EXCEPT ![a] = elementsAfter(element, @, i.v1, v1, outside)]
         /\ afterStatement(firstError(i.v1, e.v1, v1),
                 IF lowered THEN i.v2.from \cup e.v2.from ELSE i.fb.from \cup e.fb.from)
         /\ CASE lowered /\ Stops(v2) -> end2' = Ended("stopped", v2, at) /\ UNCHANGED env2
              [] lowered /\ ~Stops(v2) ->
                   /\ env2' = [env2 EXCEPT ![a] = elementsAfter(element, @, i.v2, v2, outside)]
                   /\ UNCHANGED end2
              [] ~lowered ->
                   /\ env2' = [env2 EXCEPT ![a] = elementsAfter(element, @, i.fb, fb, outside)]
                   /\ afterFallback(firstError(i.fb, e.fb, fb), at)
         /\ stack' = <<>> /\ steps' = steps + 1
         /\ UNCHANGED <<where, kind2, blob, loops>>

\* A return of a function whose return type is implied: nothing is cast.  At
\* top level the analyser rejects one.
Return ==
  /\ where = "function" /\ Consumes(1)
  /\ end1' = Ended("returned", Top.v1, Top.v1)
  /\ end2' = LET v == IF inRegisters(Top) THEN Top.v2 ELSE Top.fb
             IN  IF Stops(v) \/ v.k = "error" THEN Ended("stopped", v, Top.v1)
                 ELSE IF end2.how = "pending" THEN Ended("stopped", end2.v, end2.at)
                 ELSE Ended("returned", v, Top.v1)
  /\ stack' = <<>> /\ steps' = steps + 1
  /\ UNCHANGED <<where, env1, env2, kind2, blob, loops>>

\* The condition of a statement whose body is entered.  A type Any passes for
\* Bool; V1 code asserts a Bool object, a lowered loop tests any value.
Condition(lowered) ==
  /\ Consumes(1) /\ Top.type \in {"Bool", "Any"}
  /\ end1' = IF Top.v1.k = "Bool" THEN end1 ELSE Ended("asserted", Top.v1, Top.v1)
  /\ IF lowered
       THEN /\ end2' = IF Stops(Top.v2) THEN Ended("stopped", Top.v2, Top.v1) ELSE end2
            /\ loops' = loops + 1 /\ UNCHANGED blob
       ELSE /\ end2' = IF Top.fb.k = "Bool" THEN end2 ELSE Ended("asserted", Top.fb, Top.v1)
            /\ blob' = blob + 1 /\ UNCHANGED loops
  /\ stack' = <<>> /\ steps' = steps + 1
  /\ UNCHANGED <<where, env1, env2, kind2>>

If == Condition(FALSE)
While == stack # <<>> /\ Condition(inRegisters(Top))

\* What becomes of an error when the statement it waits for is over.
atEnd(over, end) ==
  IF over /\ end.how = "pending" THEN Ended("stopped", end.v, end.at) ELSE end

\* Lowered loops are around the fallback statements, never inside of one.
CloseBlock ==
  /\ Consumes(0) /\ blob + loops > 0
  /\ blob' = IF blob > 0 THEN blob - 1 ELSE 0
  /\ loops' = IF blob > 0 THEN loops ELSE loops - 1
  /\ end1' = atEnd(blob + loops = 1, end1)
  /\ end2' = atEnd(blob = 1, end2)
  /\ steps' = steps + 1
  /\ UNCHANGED <<where, stack, env1, env2, kind2>>

\* An expression as a statement is never lowered.
Discard ==
  /\ Consumes(1)
  /\ afterStatement(Top.v1, Top.fb.from)
  /\ afterFallback(Top.fb, Top.v1)
  /\ stack' = <<>> /\ steps' = steps + 1
  /\ UNCHANGED <<where, env1, env2, kind2, blob, loops>>

-----------------------------------------------------------------------------
\* A frame's slots take their kinds from the declared types; parameters and
\* earlier declarations have filled them, an Any one with an Int.
pushLocalFrame(x) == IF TypeOf[x] = "Any" THEN Of("Int") ELSE Of(TypeOf[x])

Init ==
  /\ where \in {"function", "module"}
  /\ stack = <<>>
  /\ env1 = [x \in Names \cup Arrays |->
                IF x \in Names THEN pushLocalFrame(x) ELSE Of(ElementOf[x])]
  /\ env2 = env1
  /\ kind2 = [x \in Names |-> fastScalarKindFromType(TypeOf[x])]
  /\ blob = 0 /\ loops = 0
  /\ end1 = running /\ end2 = running
  /\ steps = 0

Next ==
  \/ \E t \in {"Int", "Bool", "Float"} : Literal(t)
  \/ \E x \in Names : Name(x)
  \/ \E op \in {"-", "!", "~", "await"}, fails \in BOOLEAN : Unary(op, fails)
  \/ \E op \in {"+", "/", "|", "==", "<", "&&"}, fails \in BOOLEAN : Binary(op, fails)
  \/ \E t \in Numeric \cup {"Bool", "Any"} : Cast(t)
  \/ \E f \in DOMAIN Returns, outcome \in {"value", "null", "fails", "errs"} : Call(f, outcome)
  \/ \E negative \in BOOLEAN : Sqrt(negative)
  \/ \E a \in Arrays, outside \in BOOLEAN : Index(a, outside)
  \/ \E first \in BOOLEAN : Ternary(first)
  \/ \E x \in Names : Declare(x)
  \/ \E x \in Names : Assign(x)
  \/ \E x \in Names, op \in {"+", "/", "|"}, fails \in BOOLEAN : Compound(x, op, fails)
  \/ \E a \in Arrays, op \in {"=", "+"}, outside \in BOOLEAN : StoreElement(a, op, outside)
  \/ Return
  \/ If
  \/ While
  \/ CloseBlock
  \/ Discard

Spec == Init /\ [][Next]_vars

-----------------------------------------------------------------------------
(* Properties. *)

Kinds == Numeric \cup {"Bool", "Any", "Task", "none", "error"}
Departures == {"literal", "bool", "lazy", "failed", "ternary", "lost cast",
               "object cast", "rekind"}
FastKinds == Numeric \cup {"Object"}
Values == [k : Kinds, from : SUBSET Departures]
RegisterValues == [k : Kinds \cup {"stop"}, from : SUBSET Departures]
Lowerings == [ok : BOOLEAN, kind : FastKinds, fused : BOOLEAN]
Exprs == [type : Numeric \cup {"Bool", "Any", "Task"}, fast : FastKinds,
          shape : {"other", "call", "ternary"}, lo : Lowerings,
          v1 : Values, fb : Values, v2 : RegisterValues]
Ends == [how : {"running", "returned", "stopped", "pending", "asserted"},
         v : RegisterValues, at : Values]

TypeOK ==
  /\ where \in {"function", "module"}
  /\ stack \in Seq(Exprs)
  /\ env1 \in [Names \cup Arrays -> Values]
  /\ env2 \in [Names \cup Arrays -> Values]
  /\ kind2 \in [Names -> FastKinds]
  /\ blob \in Nat /\ loops \in Nat /\ steps \in Nat
  /\ end1 \in Ends /\ end2 \in Ends

\* The analyser's types describe what V1 computes: a value of another kind
\* than its expression's type is of type Any, is missing, or comes from one of
\* the conversions the code is known to leave out.  ExprSema's inference and
\* the evaluator's arithmetic are written apart and have to agree.
TypesDescribeValues ==
  \A i \in 1..Len(stack) :
    LET e == stack[i]
    IN  \/ e.v1.k = e.type \/ e.type = "Any" \/ Missing(e.v1)
        \/ e.v1.from \cap {"failed", "ternary", "lost cast", "literal"} # {}

\* The kind inferFastType claims for an expression is safe to compile typed
\* code from: the value is a number or missing.
FastKindsDescribe ==
  \A i \in 1..Len(stack) :
    LET e == stack[i]
    IN  e.fast \in Numeric =>
          IsNumber(e.v1) \/ Missing(e.v1) \/ e.shape = "call" \/ "failed" \in e.v1.from

\* What the compiler knows of an expression before it runs, its type and its
\* fast kind, is true of its value.
StaticKindsDescribe == TypesDescribeValues /\ FastKindsDescribe

Agree(v, w) == v.from \cup w.from = {} => v.k = w.k \/ (Missing(v) /\ Missing(w))

\* Both builds of a body leave every name, and return, a value of the same
\* kind, unless the value descends from a named departure of one of them.
TiersAgree ==
  /\ end2.how = "running" => \A x \in Names \cup Arrays : Agree(env1[x], env2[x])
  /\ end1.how = "returned" /\ end2.how = "returned" => Agree(end1.v, end2.v)

\* The same without departures, which is what the second bytecode version is
\* for: no program has another meaning in it.  The code does not keep to this.
TiersNeverDiffer ==
  end2.how = "running" =>
    \A x \in Names \cup Arrays :
      env1[x].k = env2[x].k \/ (Missing(env1[x]) /\ Missing(env2[x]))

\* V2 ends a body early only where V1 has no value either, or because of a
\* named departure; and V1 stops a module behind an error only where V2 has
\* met one too, save for the same departures.
StopsExplained ==
  /\ end2.how \in {"stopped", "asserted"} =>
       \/ end2.v.from # {}
       \/ Missing(end2.at) \/ end2.at.from \cap {"failed", "lost cast"} # {}
       \/ end1.how = "asserted"
  /\ end1.how \in {"pending", "stopped"} =>
       end2.how # "running" \/ end1.v.from \cup end1.at.from # {}

=============================================================================
