------------------------- MODULE ExpressionsProofs -------------------------
(***************************************************************************)
(* For any names, arrays and functions, and bodies of any length: static   *)
(* types and fast kinds describe V1's values, the two builds of a function *)
(* or a module agree, and either ends early only for a reason.             *)
(*                                                                         *)
(* Each entry of the stack is described on its own.  Two values are        *)
(* related by Follows: unless the second descends from a departure or the  *)
(* first from one of V1's own, neither does and they are of one kind.      *)
(* Every operator carries the relations from its operands to its result;   *)
(* these lemmas are about the code of one operation each.                  *)
(***************************************************************************)
EXTENDS Expressions, SequenceTheorems, TLAPS

-----------------------------------------------------------------------------
(* The inductive invariant. *)

FitsBut(t, v, departures) ==
  v.k = t \/ t = "Any" \/ Missing(v) \/ v.from \cap departures # {}
Fits(t, v) == FitsBut(t, v, {"failed", "ternary", "lost cast", "literal"})
Numbers(t, v) == t \in Numeric => IsNumber(v) \/ Missing(v) \/ "failed" \in v.from

\* What is known of a value of the V2 build, which has departures of its own.
Fits2(t, w) == w.from = {} => w.k = t \/ t = "Any" \/ Missing(w)

\* V2 has a kind V1 has, or an error where V1 has nothing.
Alike(v, w) == v.k = w.k \/ (v.k = "none" /\ w.k = "error")
Excused(v) == v.from \cap {"failed", "lost cast"} # {}
Follows(v, w) == w.from = {} => Excused(v) \/ (v.from = {} /\ Alike(v, w))
Explains(v, w) == w.from # {} \/ Missing(v) \/ Excused(v)

FastOf(fast, t, v) == fast \in Numeric /\ t \in Numeric => fast = t \/ "literal" \in v.from
FastFits(e) ==
  /\ e.fast \in Numeric => e.type \in Numeric \/ (e.type = "Task" /\ e.shape = "call")
  /\ FastOf(e.fast, e.type, e.v1) /\ FastOf(e.fast, e.type, e.fb)

LoFits(e) ==
  e.lo.ok =>
    /\ e.lo.fused => e.lo.kind \in Numeric
    /\ e.fast \in Numeric => e.lo.kind = e.fast
    /\ e.type \in Numeric => e.lo.kind \in Numeric
    /\ e.shape # "ternary"

RegisterFits(kind, t, v, w) ==
  IF Stops(w) THEN Explains(v, w)
  ELSE /\ Follows(v, w) /\ Fits2(t, w) /\ w.k # "error"
       /\ kind \in Numeric /\ w.from = {} => w.k = kind \/ Missing(w)

Entry(e) ==
  /\ Fits(e.type, e.v1) /\ Numbers(e.type, e.v1) /\ FastFits(e) /\ LoFits(e)
  /\ Follows(e.v1, e.fb) /\ Fits2(e.type, e.fb)
  /\ e.lo.ok => RegisterFits(e.lo.kind, e.type, e.v1, e.v2)

\* A name or an element of an array.
Slot(t, v, w) ==
  /\ Fits(t, v) /\ Numbers(t, v)
  /\ Follows(v, w) /\ Fits2(t, w) /\ w.k # "error"

\* The slots are compared until the V2 build has ended.
Going == end2.how \in Underway

StackFits == \A i \in 1..Len(stack) : Entry(stack[i])
SlotsFit ==
  /\ \A x \in Names : Slot(TypeOf[x], env1[x], env2[x])
  /\ \A a \in Arrays : Slot(ElementOf[a], env1[a], env2[a])
ElementsFit == \A a \in Arrays : env1[a].k = ElementOf[a] /\ env2[a].k = ElementOf[a]
EndExplained ==
  end2.how \in {"stopped", "pending", "asserted"} =>
    Explains(end2.at, end2.v) \/ end1.how = "asserted"
\* V2 has met an error where V1 has.
ErrorMet ==
  end1.how \in {"pending", "stopped"} =>
    end2.how # "running" \/ end1.v.from \cup end1.at.from # {}
ReturnFits == end1.how = "returned" /\ end2.how = "returned" => Follows(end1.v, end2.v)

IInv ==
  /\ TypeOK
  /\ StackFits /\ ElementsFit
  /\ Going => SlotsFit
  /\ EndExplained /\ ErrorMet /\ ReturnFits

-----------------------------------------------------------------------------
(* The operators of the evaluator and of the registers. *)

Types == Numeric \cup {"Bool", "Any"}

LEMMA FitsButAny ==
  ASSUME NEW t, NEW v \in RegisterValues
  PROVE  FitsBut(t, v, Departures) <=> Fits2(t, v)
  BY DEF FitsBut, Fits2, RegisterValues

LEMMA ValuesAreRegisterValues == Values \subseteq RegisterValues
  BY DEF Values, RegisterValues

LEMMA Promoted ==
  ASSUME NEW s \in FastKinds, NEW t \in FastKinds
  PROVE  /\ promotedFastKind(s, t) \in {s, t}
         /\ s \in Numeric /\ t \in Numeric => promotedFastKind(s, t) \in Numeric
  BY DEF promotedFastKind, FastKinds, Numeric, numericTypeRank

LEMMA PromotedMatches ==
  ASSUME NEW s \in Numeric, NEW t \in Numeric, match(s, promotedFastKind(s, t))
  PROVE  promotedFastKind(s, t) = s
  BY DEF promotedFastKind, Numeric, numericTypeRank, match, isWideningNumericCast

LEMMA CastSound ==
  ASSUME NEW v \in Values, NEW t \in Types
  PROVE  /\ evalCast(t, v) \in Values
         /\ Fits(t, evalCast(t, v)) /\ Numbers(t, evalCast(t, v))
         /\ Fits2(t, evalCast(t, v))
         /\ evalCast(t, v).from = v.from
         /\ Missing(v) => Missing(evalCast(t, v))
  BY DEF evalCast, Values, Val, Kinds, Missing, IsNumber, Numeric, Fits, FitsBut, Numbers,
         Fits2, Types

LEMMA CastFollows ==
  ASSUME NEW v \in Values, NEW w \in Values, Follows(v, w), NEW t \in Types
  PROVE  Follows(evalCast(t, v), evalCast(t, w))
  BY DEF evalCast, Values, Val, Missing, IsNumber, Numeric, Follows, Excused, Alike, Types

LEMMA CastRegisterValue ==
  ASSUME NEW lo \in Lowerings, NEW w \in RegisterValues, NEW target \in Numeric
  PROVE  castRegister(lo, target, w) \in RegisterValues
  BY DEF castRegister, NumCast, loadNumbers, Stop, Stops, Val, RegisterValues, Kinds, Numeric,
     Departures, IsNumber

LEMMA CastRegisterSound ==
  ASSUME NEW lo \in Lowerings, NEW v \in Values, NEW w \in RegisterValues,
         NEW t, NEW target \in Numeric, RegisterFits(lo.kind, t, v, w)
  PROVE  RegisterFits(target, target, evalCast(target, v), castRegister(lo, target, w))
  <1>1. castRegister(lo, target, w) \in RegisterValues
    BY CastRegisterValue
  <1>2. CASE Stops(w)
    BY <1>1, <1>2, CastSound DEF castRegister, RegisterFits, Explains, Excused, Types
  <1>3. CASE ~Stops(w) /\ lo.kind = "Object"
    BY <1>1, <1>3 DEF castRegister, NumCast, RegisterFits, Explains, Excused, Stop, Stops, Val, Numeric
  <1>4. CASE ~Stops(w) /\ lo.kind \in Numeric
    <2> DEFINE r == castRegister(lo, target, w)
               c == evalCast(target, v)
    <2>1. /\ w.from = {} => Excused(v) \/ (v.from = {} /\ Alike(v, w))
          /\ w.from = {} => w.k = lo.kind \/ Missing(w)
          /\ w.k # "error"
      BY <1>4 DEF RegisterFits, Follows
    <2>2. IF lo.kind = target THEN r = w
          ELSE IF IsNumber(w) THEN r = Val(target, w.from) ELSE r = Stop(w.from)
      BY <1>4 DEF castRegister, NumCast, loadNumbers, Numeric
    <2>3. r.from = w.from /\ (r.k = target \/ (r = w /\ lo.kind = target) \/ (r.k = "stop" /\ ~IsNumber(w)))
      BY <2>2 DEF Val, Stop
    <2>4. /\ c.from = v.from
          /\ Missing(v) => Missing(c)
      BY CastSound DEF Types
    <2>5. IsNumber(v) => c.k = target
      BY DEF evalCast, Val, IsNumber, Missing, Numeric
    <2> HIDE DEF r, c
    <2> SUFFICES RegisterFits(target, target, c, r)
      BY DEF r, c
    <2>6. CASE w.from # {}
      <3>1. r.from # {}
        BY <2>3, <2>6
      <3>2. r.k # "error"
        BY <2>1, <2>3 DEF Numeric
      <3> QED BY <3>1, <3>2 DEF RegisterFits, Explains, Follows, Fits2
    <2>7. CASE w.from = {} /\ Missing(w)
      <3>1. ~IsNumber(w) /\ (Excused(v) \/ (v.from = {} /\ Missing(v)))
        BY <2>1, <2>7 DEF Alike, Missing, IsNumber, Numeric
      <3>2. Missing(r) \/ Stops(r)
        BY <2>2, <2>7, <3>1 DEF Stop, Val, Stops, Missing
      <3>3. Excused(c) \/ (c.from = {} /\ Missing(c))
        BY <3>1, <2>4 DEF Excused
      <3>4. r.k = "none" \/ Stops(r)
        BY <2>1, <2>3, <2>7, <3>2 DEF Missing, Stops, Numeric
      <3>5. CASE Stops(r)
        BY <3>3, <3>5 DEF RegisterFits, Explains
      <3>6. CASE r.k = "none"
        <4>1. w.k = "none" /\ r = w /\ lo.kind = target
          BY <2>1, <2>3, <2>7, <3>6 DEF Missing, Numeric
        <4>2. Excused(c) \/ (c.from = {} /\ c.k = "none")
          <5>1. Excused(v) \/ (v.from = {} /\ v.k = "none")
            BY <2>1, <2>7, <4>1 DEF Alike
          <5>2. v.k = "none" => c.k = "none"
            BY DEF c, evalCast, Missing
          <5> QED BY <2>4, <5>1, <5>2 DEF Excused
        <4> QED BY <3>6, <4>2 DEF RegisterFits, Follows, Alike, Fits2, Missing, Stops
      <3> QED BY <3>4, <3>5, <3>6
    <2>8. CASE w.from = {} /\ ~Missing(w)
      <3>1. IsNumber(w) /\ w.k = lo.kind /\ (Excused(v) \/ (v.from = {} /\ v.k = w.k))
        BY <2>1, <2>8, <1>4 DEF Alike, IsNumber, Missing
      <3>2. r.k = target /\ ~Stops(r) /\ r.k # "error"
        BY <2>3, <3>1 DEF Stops, Numeric, IsNumber
      <3>3. v.from = {} => c.k = target
        BY <3>1, <2>5 DEF IsNumber, Excused
      <3> QED BY <3>1, <3>2, <3>3, <2>3, <2>4, <2>8 DEF RegisterFits, Follows, Excused, Alike, Fits2
    <2> QED BY <2>6, <2>7, <2>8
  <1> QED BY <1>1, <1>2, <1>3, <1>4 DEF Lowerings, FastKinds

LEMMA UnaryValue ==
  ASSUME NEW v \in Values, NEW op \in {"-", "!", "~", "await"}, NEW fast \in FastKinds,
         NEW fails \in BOOLEAN, NEW awaited \in Types
  PROVE  evalUnary(op, fast, v, fails, awaited) \in Values
  BY DEF evalUnary, Values, Val, Kinds, Missing, IsNumber, Numeric, Fails, Types, FastKinds,
         isFastNumericKind

LEMMA UnaryFollows ==
  ASSUME NEW v \in Values, NEW w \in Values, Follows(v, w),
         NEW op \in {"-", "!", "~", "await"}, NEW fast,
         NEW fails \in BOOLEAN, NEW awaited \in Types
  PROVE  Follows(evalUnary(op, fast, v, fails, awaited), evalUnary(op, fast, w, fails, awaited))
  BY DEF evalUnary, Values, Val, Missing, IsNumber, Fails, Follows, Excused, Alike, Types, Numeric

LEMMA TypedValue ==
  ASSUME NEW l \in Values, NEW r \in Values, NEW kind \in Numeric \cup {"Bool"},
         NEW fails \in BOOLEAN
  PROVE  evalTypedBinary(kind, l, r, fails) \in Values
  BY DEF evalTypedBinary, Values, Val, Kinds, Missing, IsNumber, Numeric, Fails, Lacking

LEMMA TypedFollows ==
  ASSUME NEW l \in Values, NEW r \in Values, NEW kind, NEW fails \in BOOLEAN,
         NEW ll \in Values, NEW rr \in Values, Follows(l, ll), Follows(r, rr)
  PROVE  Follows(evalTypedBinary(kind, l, r, fails), evalTypedBinary(kind, ll, rr, fails))
  BY DEF evalTypedBinary, Values, Val, Missing, IsNumber, Numeric, Fails, Lacking, Follows, Excused, Alike

Operators == {"+", "/", "|", "==", "<", "&&"}

LEMMA OperatorValue ==
  ASSUME NEW l \in Values, NEW r \in Values, NEW op \in Operators, NEW fails \in BOOLEAN
  PROVE  evalBinaryOperator(op, l, r, fails) \in Values
  BY Promoted DEF evalBinaryOperator, Values, Val, Kinds, Missing, IsNumber, Numeric, Fails,
     Lacking, Operators, FastKinds

LEMMA OperatorFollows ==
  ASSUME NEW l \in Values, NEW r \in Values, NEW op \in Operators, NEW fails \in BOOLEAN,
         NEW ll \in Values, NEW rr \in Values, Follows(l, ll), Follows(r, rr)
  PROVE  Follows(evalBinaryOperator(op, l, r, fails), evalBinaryOperator(op, ll, rr, fails))
  BY DEF evalBinaryOperator, Values, Val, Missing, IsNumber, Numeric, Fails, Lacking, Follows, Excused,
     Alike, Operators

LEMMA BinaryValue ==
  ASSUME NEW l \in Values, NEW r \in Values, NEW op \in Operators, NEW fails \in BOOLEAN,
         NEW lf \in FastKinds, NEW rf \in FastKinds
  PROVE  evalBinary(op, lf, rf, l, r, fails) \in Values
  <1>1. CASE isFastNumericKind(lf) /\ isFastNumericKind(rf)
    <2>1. promotedFastKind(lf, rf) \in Numeric
      BY <1>1, Promoted DEF isFastNumericKind, FastKinds
    <2> QED BY <2>1, TypedValue, OperatorValue DEF evalBinary, evalTypedCompare
  <1>2. CASE ~(isFastNumericKind(lf) /\ isFastNumericKind(rf))
    BY <1>2, OperatorValue DEF evalBinary
  <1> QED BY <1>1, <1>2

LEMMA BinaryFollows ==
  ASSUME NEW l \in Values, NEW r \in Values, NEW op \in Operators, NEW fails \in BOOLEAN,
         NEW ll \in Values, NEW rr \in Values, Follows(l, ll), Follows(r, rr),
         NEW lf, NEW rf
  PROVE  Follows(evalBinary(op, lf, rf, l, r, fails), evalBinary(op, lf, rf, ll, rr, fails))
  BY TypedFollows, OperatorFollows DEF evalBinary, evalTypedCompare

\* An operation's value is of the type the analyser infers.
LEMMA BinaryFits ==
  ASSUME NEW l \in Values, NEW r \in Values, NEW op \in Operators, NEW fails \in BOOLEAN,
         NEW lt, NEW rt, NEW lf \in FastKinds, NEW rf \in FastKinds, NEW departures,
         "literal" \in departures,
         FitsBut(lt, l, departures), FitsBut(rt, r, departures),
         FastOf(lf, lt, l), FastOf(rf, rt, r),
         inferBinaryResultType(op, lt, rt) # "rejected"
  PROVE  FitsBut(inferBinaryResultType(op, lt, rt), evalBinary(op, lf, rf, l, r, fails), departures)
  <1> DEFINE t == inferBinaryResultType(op, lt, rt)
             v == evalBinary(op, lf, rf, l, r, fails)
  <1>1. CASE op \in {"+", "/"}
    <2>1. CASE t = "Any"
      BY <2>1 DEF FitsBut
    <2>2. CASE t # "Any"
      <3>1. lt \in Numeric /\ rt \in Numeric /\ t = promotedFastKind(lt, rt)
        BY <1>1, <2>2 DEF inferBinaryResultType
      <3>2. CASE isFastNumericKind(lf) /\ isFastNumericKind(rf)
        <4>1. v = evalTypedBinary(promotedFastKind(lf, rf), l, r, op = "/" /\ fails)
          BY <1>1, <3>2 DEF evalBinary
        <4>2. lf \in Numeric /\ rf \in Numeric
          BY <3>2 DEF isFastNumericKind, FastKinds
        <4>3. CASE lf = lt /\ rf = rt
          BY <4>1, <4>3, <3>1 DEF evalTypedBinary, FitsBut, Val, Fails, Lacking, Missing
        <4>4. CASE "literal" \in l.from \/ "literal" \in r.from
          <5>1. v.from = l.from \cup r.from
            BY <4>1 DEF evalTypedBinary, Val, Fails, Lacking
          <5>2. v.from \cap departures # {}
            BY <4>4, <5>1
          <5> QED BY <5>2 DEF FitsBut
        <4> QED BY <4>2, <4>3, <4>4, <3>1 DEF FastOf
      <3>3. CASE ~(isFastNumericKind(lf) /\ isFastNumericKind(rf))
        <4>1. v = evalBinaryOperator(op, l, r, fails)
          BY <3>3 DEF evalBinary
        <4>2. v.from = l.from \cup r.from
          BY <4>1, <1>1 DEF evalBinaryOperator, Val, Fails, Lacking
        <4>3. \/ Missing(v)
              \/ v.k = promotedFastKind(l.k, r.k) /\ IsNumber(l) /\ IsNumber(r)
          BY <4>1, <1>1 DEF evalBinaryOperator, Val, Fails, Lacking, Missing
        <4>4. CASE l.k = lt /\ r.k = rt
          BY <4>3, <4>4, <3>1 DEF FitsBut
        <4>5. CASE l.from \cap departures # {} \/ r.from \cap departures # {}
          <5>1. v.from \cap departures # {}
            BY <4>2, <4>5
          <5> QED BY <5>1 DEF FitsBut
        <4>6. Missing(l) => ~IsNumber(l)
          BY DEF Missing, IsNumber, Numeric
        <4>7. Missing(r) => ~IsNumber(r)
          BY DEF Missing, IsNumber, Numeric
        <4>8. CASE Missing(v)
          BY <4>8 DEF FitsBut
        <4>9. lt # "Any" /\ rt # "Any"
          BY <3>1 DEF Numeric
        <4> QED BY <4>3, <4>4, <4>5, <4>6, <4>7, <4>8, <4>9 DEF FitsBut
      <3> QED BY <3>2, <3>3
    <2> QED BY <2>1, <2>2
  <1>2. CASE op \notin {"+", "/"}
    <2>1. (op # "|" => t = "Bool") /\ (op = "|" => t \in {"Any", "Int"})
      BY <1>2 DEF inferBinaryResultType, Operators
    <2>2. \/ v = evalTypedCompare(l, r) /\ op \in {"==", "<"}
          \/ v = evalBinaryOperator(op, l, r, fails)
      BY <1>2 DEF evalBinary
    <2>3. CASE v = evalTypedCompare(l, r) /\ op \in {"==", "<"}
      BY <2>1, <2>3 DEF evalTypedCompare, evalTypedBinary, FitsBut, Val, Fails, Lacking, Missing
    <2>4. CASE v = evalBinaryOperator(op, l, r, fails)
      BY <2>1, <2>4, <1>2
         DEF evalBinaryOperator, FitsBut, Val, Fails, Lacking, Missing, Operators
    <2> QED BY <2>2, <2>3, <2>4
  <1> QED BY <1>1, <1>2

LEMMA InferredTypes ==
  ASSUME NEW s \in Numeric \cup {"Bool", "Any", "Task"}, NEW t \in Numeric \cup {"Bool", "Any", "Task"},
         NEW op \in Operators, inferBinaryResultType(op, s, t) # "rejected"
  PROVE  /\ inferBinaryResultType(op, s, t) \in Types
         /\ inferBinaryResultType(op, s, t) \in Numeric =>
              \/ op \in {"+", "/"} /\ s \in Numeric /\ t \in Numeric
                   /\ inferBinaryResultType(op, s, t) = promotedFastKind(s, t)
              \/ op = "|" /\ inferBinaryResultType(op, s, t) = "Int" /\ isIntType(s) /\ isIntType(t)
         /\ op \in {"+", "/"} /\ s \in Numeric /\ t \in Numeric =>
              inferBinaryResultType(op, s, t) = promotedFastKind(s, t)
  <1>1. s \in Numeric /\ t \in Numeric => promotedFastKind(s, t) \in Numeric
    BY Promoted DEF FastKinds
  <1> QED BY <1>1 DEF inferBinaryResultType, Operators, Types, Numeric

\* What is of a numeric type is a number, whichever operands it is given.
LEMMA BinaryNumbers ==
  ASSUME NEW l \in Values, NEW r \in Values, NEW op \in Operators, NEW fails \in BOOLEAN,
         NEW lf \in FastKinds, NEW rf \in FastKinds, NEW t, op \in {"+", "/", "|"}
  PROVE  Numbers(t, evalBinary(op, lf, rf, l, r, fails))
  <1> DEFINE v == evalBinary(op, lf, rf, l, r, fails)
  <1>1. CASE isFastNumericKind(lf) /\ isFastNumericKind(rf) /\ op \in {"+", "/"}
    <2>1. promotedFastKind(lf, rf) \in Numeric
      BY <1>1, Promoted DEF isFastNumericKind, FastKinds
    <2> QED BY <1>1, <2>1
            DEF evalBinary, evalTypedBinary, Numbers, Val, Fails, Lacking, Missing, IsNumber
  <1>2. CASE ~(isFastNumericKind(lf) /\ isFastNumericKind(rf) /\ op \in {"+", "/"})
    <2>1. v = evalBinaryOperator(op, l, r, fails)
      BY <1>2 DEF evalBinary
    <2>2. IsNumber(l) /\ IsNumber(r) => promotedFastKind(l.k, r.k) \in Numeric
      BY Promoted DEF IsNumber, FastKinds
    <2> QED BY <2>1, <2>2
            DEF evalBinaryOperator, Numbers, Val, Fails, Lacking, Missing, IsNumber, Numeric
  <1> QED BY <1>1, <1>2

-----------------------------------------------------------------------------
(* Operations in registers. *)

LEMMA LoadNumbersValue ==
  ASSUME NEW l \in RegisterValues, NEW r \in RegisterValues, NEW kind \in Numeric,
         NEW fails \in BOOLEAN
  PROVE  loadNumbers(kind, l, r, fails) \in RegisterValues
  BY DEF loadNumbers, RegisterValues, Val, Stop, Kinds, Numeric, IsNumber

LEMMA BinaryRegisterValue ==
  ASSUME NEW l \in RegisterValues, NEW r \in RegisterValues, NEW op \in Operators,
         NEW kind \in Numeric, NEW fails \in BOOLEAN
  PROVE  binaryRegister(op, kind, l, r, fails) \in RegisterValues
  <1>1. loadNumbers(kind, l, r, op = "/" /\ fails) \in RegisterValues
    BY LoadNumbersValue
  <1> DEFINE v == loadNumbers(kind, l, r, op = "/" /\ fails)
  <1>2. Val("Int", v.from \cup {"bool"}) \in RegisterValues
    BY <1>1 DEF RegisterValues, Val, Kinds, Numeric, Departures
  <1> HIDE DEF v
  <1>3. binaryRegister(op, kind, l, r, fails) \in {l, r, v, Val("Int", v.from \cup {"bool"})}
    BY DEF binaryRegister, v
  <1> QED BY <1>1, <1>2, <1>3 DEF v

LEMMA BinaryFrom ==
  ASSUME NEW l \in Values, NEW r \in Values, NEW op \in Operators \ {"&&"}, NEW fails \in BOOLEAN,
         NEW lf, NEW rf
  PROVE  /\ evalBinary(op, lf, rf, l, r, fails).from = l.from \cup r.from
         /\ Missing(l) \/ Missing(r) => Missing(evalBinary(op, lf, rf, l, r, fails))
         /\ op = "/" /\ fails => Missing(evalBinary(op, lf, rf, l, r, fails))
  <1>1. CASE evalBinary(op, lf, rf, l, r, fails) = evalBinaryOperator(op, l, r, fails)
    BY <1>1 DEF evalBinaryOperator, Val, Fails, Lacking, Missing, Operators
  <1>2. CASE \E kind : evalBinary(op, lf, rf, l, r, fails)
                         = evalTypedBinary(kind, l, r, op = "/" /\ fails)
    <2>1. PICK kind : evalBinary(op, lf, rf, l, r, fails)
                        = evalTypedBinary(kind, l, r, op = "/" /\ fails)
      BY <1>2
    <2> QED BY <2>1 DEF evalTypedBinary, Val, Fails, Lacking, Missing
  <1>3. op \in {"==", "<"} => (op = "/" /\ fails) = FALSE
    OBVIOUS
  <1>4. \/ evalBinary(op, lf, rf, l, r, fails) = evalBinaryOperator(op, l, r, fails)
        \/ evalBinary(op, lf, rf, l, r, fails)
             = evalTypedBinary(promotedFastKind(lf, rf), l, r, op = "/" /\ fails)
        \/ evalBinary(op, lf, rf, l, r, fails)
             = evalTypedBinary("Bool", l, r, op = "/" /\ fails)
    BY <1>3 DEF evalBinary, evalTypedCompare
  <1> QED BY <1>1, <1>2, <1>4

\* What a register holds of an operand whose kind is numeric.
LEMMA NumericRegister ==
  ASSUME NEW v \in Values, NEW w \in RegisterValues, NEW t, NEW kind \in Numeric,
         RegisterFits(kind, t, v, w), ~Stops(w), w.from = {}, ~Excused(v)
  PROVE  /\ v.from = {}
         /\ ~IsNumber(w) => Missing(v)
         /\ IsNumber(w) => v.k = kind /\ w.k = kind /\ (t = "Any" \/ t = kind)
  BY DEF RegisterFits, Follows, Excused, Alike, Fits2, IsNumber, Missing, Numeric

LEMMA AnyOperand ==
  ASSUME NEW s, NEW t, s = "Any" \/ t = "Any", NEW op \in {"+", "/"}
  PROVE  inferBinaryResultType(op, s, t) = "Any"
  BY DEF inferBinaryResultType, Numeric

LEMMA BinaryRegisterFits ==
  ASSUME NEW l \in Exprs, NEW r \in Exprs, l.lo.kind \in Numeric, r.lo.kind \in Numeric,
         l.fast \in Numeric => l.lo.kind = l.fast, r.fast \in Numeric => r.lo.kind = r.fast,
         RegisterFits(l.lo.kind, l.type, l.v1, l.v2), RegisterFits(r.lo.kind, r.type, r.v1, r.v2),
         NEW op \in {"+", "/", "==", "<"}, NEW fails \in BOOLEAN,
         inferBinaryResultType(op, l.type, r.type) # "rejected",
         NEW kind, op \in {"+", "/"} => kind = promotedFastKind(l.lo.kind, r.lo.kind)
  PROVE  RegisterFits(kind, inferBinaryResultType(op, l.type, r.type),
                      evalBinary(op, l.fast, r.fast, l.v1, r.v1, fails),
                      binaryRegister(op, promotedFastKind(l.lo.kind, r.lo.kind),
                                     l.v2, r.v2, fails))
  <1> DEFINE v == evalBinary(op, l.fast, r.fast, l.v1, r.v1, fails)
             w == binaryRegister(op, promotedFastKind(l.lo.kind, r.lo.kind), l.v2, r.v2, fails)
             t == inferBinaryResultType(op, l.type, r.type)
             k == promotedFastKind(l.lo.kind, r.lo.kind)
  <1>a. /\ l.type \in Types \cup {"Task"} /\ r.type \in Types \cup {"Task"}
        /\ l.v1 \in Values /\ r.v1 \in Values
        /\ l.v2 \in RegisterValues /\ r.v2 \in RegisterValues
        /\ l.fast \in FastKinds /\ r.fast \in FastKinds
    BY DEF Exprs, Types
  <1>0. op \in Operators \ {"&&"}
    BY DEF Operators
  <1>1. /\ v.from = l.v1.from \cup r.v1.from
        /\ Missing(l.v1) \/ Missing(r.v1) => Missing(v)
        /\ op = "/" /\ fails => Missing(v)
    BY <1>a, <1>0, BinaryFrom
  <1>2. k \in Numeric
    BY Promoted DEF FastKinds
  <1>3. CASE Stops(l.v2)
    BY <1>1, <1>3 DEF binaryRegister, RegisterFits, Explains, Excused
  <1>4. CASE ~Stops(l.v2) /\ Stops(r.v2)
    BY <1>1, <1>4 DEF binaryRegister, RegisterFits, Explains, Excused
  <1>5. CASE ~Stops(l.v2) /\ ~Stops(r.v2)
    <2>1. CASE ~IsNumber(l.v2) \/ ~IsNumber(r.v2) \/ (op = "/" /\ fails)
      <3>1. Stops(w) /\ w.from = l.v2.from \cup r.v2.from
        BY <1>5, <2>1 DEF binaryRegister, loadNumbers, Stop, Stops, Val
      <3>2. SUFFICES ASSUME w.from = {}, ~Excused(v)
                     PROVE  Missing(v)
        BY <3>1 DEF RegisterFits, Explains, Excused
      <3>3. l.v2.from = {} /\ r.v2.from = {} /\ ~Excused(l.v1) /\ ~Excused(r.v1)
        BY <3>1, <3>2, <1>1 DEF Excused
      <3>4. ~IsNumber(l.v2) => Missing(l.v1)
        BY <3>3, <1>5, <1>a, NumericRegister
      <3>5. ~IsNumber(r.v2) => Missing(r.v1)
        BY <3>3, <1>5, <1>a, NumericRegister
      <3> QED BY <3>4, <3>5, <2>1, <1>1
    <2>2. CASE IsNumber(l.v2) /\ IsNumber(r.v2) /\ ~(op = "/" /\ fails)
      <3>1. CASE op \in {"==", "<"}
        <4>1. ~Stops(w) /\ w.from # {} /\ w.k # "error"
          BY <3>1, <2>2, <1>5, <1>2 DEF binaryRegister, loadNumbers, Stop, Stops, Val, Numeric
        <4> QED BY <4>1 DEF RegisterFits, Follows, Excused, Fits2
      <3>2. CASE op \in {"+", "/"}
        <4>1. w.k = k /\ w.from = l.v2.from \cup r.v2.from
          BY <3>2, <2>2, <1>5 DEF binaryRegister, loadNumbers, Stop, Stops, Val
        <4>2. ~Stops(w) /\ w.k # "error"
          BY <4>1, <1>2 DEF Stops, Numeric
        <4>3. ASSUME w.from = {}
              PROVE  t = k \/ t = "Any"
          <5>1. (l.type = "Any" \/ l.type = l.lo.kind) /\ (r.type = "Any" \/ r.type = r.lo.kind)
            <6>1. l.v2.from = {} /\ r.v2.from = {}
              BY <4>1, <4>3
            <6> QED BY <6>1, <2>2, <1>5
                    DEF RegisterFits, Fits2, IsNumber, Missing, Numeric
          <5>2. CASE l.type = "Any" \/ r.type = "Any"
            BY <5>2, <3>2, AnyOperand
          <5>3. CASE l.type = l.lo.kind /\ r.type = r.lo.kind
            <6>1. t = promotedFastKind(l.type, r.type)
              BY <5>3, <3>2, InferredTypes, <1>a, <1>0 DEF Types
            <6> QED BY <6>1, <5>3
          <5> QED BY <5>1, <5>2, <5>3
        <4>4. ASSUME w.from = {}, ~Excused(v)
              PROVE  v.from = {} /\ v.k = k
          <5>1. l.v2.from = {} /\ r.v2.from = {} /\ ~Excused(l.v1) /\ ~Excused(r.v1)
            BY <4>1, <4>4, <1>1 DEF Excused
          <5>2. l.v1.from = {} /\ l.v1.k = l.lo.kind
            BY <5>1, <2>2, <1>5, <1>a, NumericRegister
          <5>3. r.v1.from = {} /\ r.v1.k = r.lo.kind
            BY <5>1, <2>2, <1>5, <1>a, NumericRegister
          <5>4. IsNumber(l.v1) /\ IsNumber(r.v1) /\ ~Missing(l.v1) /\ ~Missing(r.v1)
            BY <5>2, <5>3 DEF IsNumber, Missing, Numeric
          <5>5. CASE isFastNumericKind(l.fast) /\ isFastNumericKind(r.fast)
            <6>1. l.fast = l.lo.kind /\ r.fast = r.lo.kind
              BY <5>5, <1>a DEF isFastNumericKind, FastKinds
            <6>2. v = evalTypedBinary(k, l.v1, r.v1, op = "/" /\ fails)
              BY <5>5, <3>2, <6>1 DEF evalBinary
            <6> QED BY <6>2, <5>4, <2>2, <1>1, <5>2, <5>3 DEF evalTypedBinary, Val
          <5>6. CASE ~(isFastNumericKind(l.fast) /\ isFastNumericKind(r.fast))
            <6>1. v = evalBinaryOperator(op, l.v1, r.v1, fails)
              BY <5>6 DEF evalBinary
            <6> QED BY <6>1, <5>4, <5>2, <5>3, <2>2, <3>2, <1>1 DEF evalBinaryOperator, Val
          <5> QED BY <5>5, <5>6
        <4> QED BY <3>2, <4>1, <4>2, <4>3, <4>4 DEF RegisterFits, Follows, Excused, Alike, Fits2
      <3> QED BY <3>1, <3>2
    <2> QED BY <2>1, <2>2
  <1> QED BY <1>3, <1>4, <1>5

-----------------------------------------------------------------------------
(* One lemma for each operation of an expression. *)

LEMMA LowerBinaryOk ==
  ASSUME NEW op \in Operators, NEW l \in Lowerings, NEW r \in Lowerings
  PROVE  /\ lowerBinary(op, l, r) \in Lowerings
         /\ lowerBinary(op, l, r).ok =>
              /\ l.ok /\ r.ok /\ l.kind \in Numeric /\ r.kind \in Numeric
              /\ op \in {"+", "/", "==", "<"}
              /\ lowerBinary(op, l, r).kind =
                   IF op \in {"+", "/"} THEN promotedFastKind(l.kind, r.kind) ELSE "Int"
         /\ lowerBinary(op, l, r).kind = "Object" => ~lowerBinary(op, l, r).ok
  <1>1. l.kind \in Numeric /\ r.kind \in Numeric => promotedFastKind(l.kind, r.kind) \in Numeric
    BY Promoted DEF FastKinds
  <1> QED BY <1>1 DEF lowerBinary, Lowerings, Lo, notLowered, isFastNumericKind, FastKinds, Operators, Numeric

LEMMA BinaryEntry ==
  ASSUME NEW l \in Exprs, NEW r \in Exprs, Entry(l), Entry(r),
         NEW op \in Operators, NEW fails \in BOOLEAN,
         inferBinaryResultType(op, l.type, r.type) # "rejected"
  PROVE  BinaryNode(op, fails, l, r) \in Exprs /\ Entry(BinaryNode(op, fails, l, r))
  <1> DEFINE e == BinaryNode(op, fails, l, r)
             lo == lowerBinary(op, l.lo, r.lo)
  <1>0. /\ l.type \in Types \cup {"Task"} /\ r.type \in Types \cup {"Task"}
        /\ l.v1 \in Values /\ r.v1 \in Values /\ l.fb \in Values /\ r.fb \in Values
        /\ l.v2 \in RegisterValues /\ r.v2 \in RegisterValues
        /\ l.lo \in Lowerings /\ r.lo \in Lowerings
        /\ l.fast \in FastKinds /\ r.fast \in FastKinds
    BY DEF Exprs, Types
  <1>1. /\ e.type = inferBinaryResultType(op, l.type, r.type)
        /\ e.fast = inferFastType(op, l.fast, r.fast)
        /\ e.shape = "other" /\ e.lo = lo
        /\ e.v1 = evalBinary(op, l.fast, r.fast, l.v1, r.v1, fails)
        /\ e.fb = evalBinary(op, l.fast, r.fast, l.fb, r.fb, fails)
        /\ e.v2 = IF lo.ok THEN binaryRegister(op, promotedFastKind(l.lo.kind, r.lo.kind),
                                               l.v2, r.v2, fails)
                  ELSE Stop({})
    BY DEF BinaryNode, Expr
  <1>2. e.type \in Types
    BY <1>0, <1>1, InferredTypes DEF Types
  <1>3. e.fast \in FastKinds
    BY <1>0, <1>1, Promoted DEF inferFastType, isFastNumericKind, FastKinds
  <1>4. lo \in Lowerings
    BY <1>0, LowerBinaryOk
  <1>5. e.v1 \in Values /\ e.fb \in Values
    <2>1. evalBinary(op, l.fast, r.fast, l.v1, r.v1, fails) \in Values
      BY <1>0, BinaryValue
    <2>2. evalBinary(op, l.fast, r.fast, l.fb, r.fb, fails) \in Values
      BY <1>0, BinaryValue
    <2> QED BY <1>1, <2>1, <2>2
  <1>6. e.v2 \in RegisterValues
    <2>1. Stop({}) \in RegisterValues
      BY DEF Stop, Val, RegisterValues
    <2>2. lo.ok => promotedFastKind(l.lo.kind, r.lo.kind) \in Numeric
      BY <1>0, LowerBinaryOk, Promoted DEF FastKinds
    <2> QED BY <1>0, <1>1, <2>1, <2>2, BinaryRegisterValue
  <1>7. e \in Exprs
    <2>1. e = Expr(e.type, e.fast, "other", e.lo, e.v1, e.fb, e.v2)
      BY <1>1 DEF BinaryNode, Expr
    <2> QED BY <2>1, <1>1, <1>2, <1>3, <1>4, <1>5, <1>6 DEF Expr, Exprs, Types
  <1>8. Fits(e.type, e.v1)
    <2> DEFINE D == {"failed", "ternary", "lost cast", "literal"}
    <2>1. /\ FitsBut(l.type, l.v1, D) /\ FitsBut(r.type, r.v1, D)
          /\ FastOf(l.fast, l.type, l.v1) /\ FastOf(r.fast, r.type, r.v1)
      BY DEF Entry, Fits, FastFits
    <2>2. "literal" \in D
      OBVIOUS
    <2> HIDE DEF D
    <2>3. FitsBut(inferBinaryResultType(op, l.type, r.type),
                  evalBinary(op, l.fast, r.fast, l.v1, r.v1, fails), D)
      BY <1>0, <2>1, <2>2, BinaryFits
    <2> QED BY <1>1, <2>3 DEF D, Fits
  <1>9. Numbers(e.type, e.v1)
    <2>1. CASE e.type \in Numeric
      <3>1. op \in {"+", "/", "|"}
        BY <2>1, <1>0, <1>1, InferredTypes DEF Types
      <3> QED BY <3>1, <1>0, <1>1, BinaryNumbers
    <2>2. CASE e.type \notin Numeric
      BY <2>2 DEF Numbers
    <2> QED BY <2>1, <2>2
  <1>10. FastFits(e)
    <2>1. SUFFICES ASSUME e.fast \in Numeric
                   PROVE  e.type \in Numeric /\ FastOf(e.fast, e.type, e.v1) /\ FastOf(e.fast, e.type, e.fb)
      BY DEF FastFits, FastOf
    <2>2. /\ op \in {"+", "/"} /\ l.fast \in Numeric /\ r.fast \in Numeric
          /\ e.fast = promotedFastKind(l.fast, r.fast)
      BY <2>1, <1>0, <1>1 DEF inferFastType, isFastNumericKind, FastKinds, Operators, Numeric
    <2>3. l.type \in Numeric /\ r.type \in Numeric /\ e.type = promotedFastKind(l.type, r.type)
      <3>1. l.type \in Numeric \cup {"Task"} /\ r.type \in Numeric \cup {"Task"}
        BY <2>2 DEF Entry, FastFits
      <3>2. l.type \in Numeric /\ r.type \in Numeric
        BY <3>1, <2>2 DEF inferBinaryResultType, Numeric
      <3> QED BY <3>2, <2>2, <1>0, <1>1, InferredTypes
    <2>4. e.type \in Numeric
      BY <2>3, Promoted DEF FastKinds
    <2>5. op # "&&"
      BY <2>2
    <2>6. e.v1.from = l.v1.from \cup r.v1.from /\ e.fb.from = l.fb.from \cup r.fb.from
      BY <2>5, <1>0, <1>1, BinaryFrom
    <2> QED BY <2>2, <2>3, <2>4, <2>6 DEF Entry, FastFits, FastOf
  <1>11. LoFits(e)
    <2>1. SUFFICES ASSUME lo.ok
                   PROVE  lo.kind \in Numeric /\ (e.fast \in Numeric => lo.kind = e.fast)
      BY <1>1 DEF LoFits
    <2>2. /\ l.lo.ok /\ r.lo.ok /\ l.lo.kind \in Numeric /\ r.lo.kind \in Numeric
          /\ lo.kind = IF op \in {"+", "/"} THEN promotedFastKind(l.lo.kind, r.lo.kind) ELSE "Int"
      BY <2>1, <1>0, LowerBinaryOk
    <2>3. lo.kind \in Numeric
      BY <2>1, <1>4, <1>0, LowerBinaryOk DEF Lowerings, FastKinds
    <2>4. ASSUME e.fast \in Numeric
          PROVE  lo.kind = e.fast
      <3>1. /\ op \in {"+", "/"} /\ l.fast \in Numeric /\ r.fast \in Numeric
            /\ e.fast = promotedFastKind(l.fast, r.fast)
        BY <2>4, <1>0, <1>1 DEF inferFastType, isFastNumericKind, FastKinds, Operators, Numeric
      <3> QED BY <3>1, <2>2 DEF Entry, LoFits
    <2> QED BY <2>3, <2>4
  <1>12. Follows(e.v1, e.fb) /\ Fits2(e.type, e.fb)
    <2>1. Follows(e.v1, e.fb)
      BY <1>0, <1>1, BinaryFollows DEF Entry
    <2>2. FitsBut(l.type, l.fb, Departures) /\ FitsBut(r.type, r.fb, Departures)
      BY <1>0, FitsButAny, ValuesAreRegisterValues DEF Entry
    <2>3. FitsBut(e.type, e.fb, Departures)
      <3>1. "literal" \in Departures
        BY DEF Departures
      <3>2. FastOf(l.fast, l.type, l.fb) /\ FastOf(r.fast, r.type, r.fb)
        BY DEF Entry, FastFits
      <3>3. FitsBut(inferBinaryResultType(op, l.type, r.type),
                    evalBinary(op, l.fast, r.fast, l.fb, r.fb, fails), Departures)
        BY <2>2, <3>1, <3>2, <1>0, BinaryFits
      <3> QED BY <3>3, <1>1
    <2> QED BY <2>1, <2>3, <1>5, FitsButAny, ValuesAreRegisterValues
  <1>13. ASSUME lo.ok
         PROVE  RegisterFits(lo.kind, e.type, e.v1, e.v2)
    <2>1. /\ l.lo.ok /\ r.lo.ok /\ l.lo.kind \in Numeric /\ r.lo.kind \in Numeric
          /\ op \in {"+", "/", "==", "<"}
          /\ lo.kind = IF op \in {"+", "/"} THEN promotedFastKind(l.lo.kind, r.lo.kind) ELSE "Int"
      BY <1>13, <1>0, LowerBinaryOk
    <2>2. /\ RegisterFits(l.lo.kind, l.type, l.v1, l.v2)
          /\ RegisterFits(r.lo.kind, r.type, r.v1, r.v2)
          /\ l.fast \in Numeric => l.lo.kind = l.fast
          /\ r.fast \in Numeric => r.lo.kind = r.fast
      BY <1>13, <2>1 DEF Entry, LoFits
    <2> DEFINE kind == lo.kind
    <2>a. op \in {"+", "/"} => kind = promotedFastKind(l.lo.kind, r.lo.kind)
      BY <2>1
    <2>b. l.lo.kind \in Numeric /\ r.lo.kind \in Numeric /\ op \in {"+", "/", "==", "<"}
      BY <2>1
    <2> HIDE DEF kind
    <2>3. RegisterFits(kind, inferBinaryResultType(op, l.type, r.type),
                       evalBinary(op, l.fast, r.fast, l.v1, r.v1, fails),
                       binaryRegister(op, promotedFastKind(l.lo.kind, r.lo.kind), l.v2, r.v2, fails))
      BY <2>b, <2>2, <2>a, BinaryRegisterFits
    <2>4. /\ e.type = inferBinaryResultType(op, l.type, r.type)
          /\ e.v1 = evalBinary(op, l.fast, r.fast, l.v1, r.v1, fails)
          /\ e.v2 = binaryRegister(op, promotedFastKind(l.lo.kind, r.lo.kind), l.v2, r.v2, fails)
      BY <1>1, <1>13
    <2>5. RegisterFits(kind, e.type, e.v1, e.v2)
      BY ONLY <2>3, <2>4
    <2> QED BY ONLY <2>5 DEF kind
  <1> QED BY <1>1, <1>7, <1>8, <1>9, <1>10, <1>11, <1>12, <1>13 DEF Entry

LEMMA ExprIn ==
  ASSUME NEW type \in Types \cup {"Task"}, NEW fast \in FastKinds,
         NEW shape \in {"other", "call", "ternary"}, NEW lo \in Lowerings,
         NEW v1 \in Values, NEW fb \in Values, NEW v2 \in RegisterValues
  PROVE  Expr(type, fast, shape, lo, v1, fb, v2) \in Exprs
  BY DEF Expr, Exprs, Types

LEMMA UnaryEntry ==
  ASSUME NEW e \in Exprs, Entry(e),
         NEW op \in {"-", "!", "~", "await"}, acceptsOperand(op, e.type),
         NEW fails \in BOOLEAN, NEW f \in Lazy
  PROVE  UnaryNode(op, fails, f, e) \in Exprs /\ Entry(UnaryNode(op, fails, f, e))
  <1> DEFINE n == UnaryNode(op, fails, f, e)
  <1>1. Returns[f] \in Types
    BY TypesAssumption DEF Types
  <1>2. /\ e.type \in Types \cup {"Task"} /\ e.fast \in FastKinds
        /\ e.v1 \in Values /\ e.fb \in Values
    BY DEF Exprs, Types
  <1>3. /\ n.type = CASE op = "-" -> e.type [] op = "!" -> "Bool"
                      [] op = "~" -> "Int" [] op = "await" -> Returns[f]
        /\ n.fast = inferFastType(op, e.fast, e.fast)
        /\ n.shape = "other" /\ n.lo = notLowered /\ n.v2 = Stop({})
        /\ n.v1 = evalUnary(op, e.fast, e.v1, fails, Returns[f])
        /\ n.fb = evalUnary(op, e.fast, e.fb, fails, Returns[f])
        /\ n = Expr(n.type, n.fast, "other", notLowered, n.v1, n.fb, Stop({}))
    BY DEF UnaryNode, Expr
  <1>4. n.type \in Types
    <2>1. CASE op = "-"
      BY <2>1, <1>3 DEF acceptsOperand, Types
    <2>2. CASE op \in {"!", "~"}
      BY <2>2, <1>3 DEF Types, Numeric
    <2>3. CASE op = "await"
      BY <2>3, <1>1, <1>3
    <2> QED BY <2>1, <2>2, <2>3
  <1>5. n.fast \in FastKinds /\ (n.fast \in Numeric => op = "-" /\ n.fast = e.fast)
    BY <1>2, <1>3, Promoted DEF inferFastType, isFastNumericKind, FastKinds, Numeric
  <1>6. n.v1 \in Values
    BY <1>1, <1>2, <1>3, UnaryValue
  <1>7. n.fb \in Values
    BY <1>1, <1>2, <1>3, UnaryValue
  <1>8. n \in Exprs
    <2>1. notLowered \in Lowerings /\ Stop({}) \in RegisterValues
      BY DEF notLowered, Lo, Lowerings, FastKinds, Stop, Val, RegisterValues
    <2> HIDE DEF n
    <2> QED BY <2>1, <1>3, <1>4, <1>5, <1>6, <1>7, ExprIn
  <1>9. ASSUME NEW v \in Values, NEW D, FitsBut(e.type, v, D), FastOf(e.fast, e.type, v),
               "literal" \in D
        PROVE  FitsBut(n.type, evalUnary(op, e.fast, v, fails, Returns[f]), D)
    <2>1. CASE op = "-"
      <3>1. e.type \in Numeric /\ n.type = e.type
        BY <2>1, <1>3 DEF acceptsOperand
      <3>2. CASE Missing(v) \/ ~IsNumber(v)
        BY <3>2, <2>1 DEF evalUnary, FitsBut, Val, Fails, Missing
      <3>3. CASE ~Missing(v) /\ IsNumber(v) /\ isFastNumericKind(e.fast)
        <4>1. evalUnary(op, e.fast, v, fails, Returns[f]) = Val(e.fast, v.from)
          BY <3>3, <2>1 DEF evalUnary
        <4>2. e.fast = e.type \/ "literal" \in v.from
          BY <3>1, <3>3, <1>2, <1>9 DEF FastOf, isFastNumericKind, FastKinds
        <4> QED BY <4>1, <4>2, <3>1, <1>9 DEF FitsBut, Val
      <3>4. CASE ~Missing(v) /\ IsNumber(v) /\ ~isFastNumericKind(e.fast)
        <4>1. evalUnary(op, e.fast, v, fails, Returns[f]) = Val(v.k, v.from)
          BY <3>4, <2>1 DEF evalUnary
        <4> QED BY <4>1, <3>1, <3>4, <1>9 DEF FitsBut, Val, Missing
      <3> QED BY <3>2, <3>3, <3>4
    <2>2. CASE op # "-"
      BY <2>2, <1>3 DEF evalUnary, FitsBut, Val, Fails, Missing
    <2> QED BY <2>1, <2>2
  <1>10. Fits(n.type, n.v1)
    <2> DEFINE D == {"failed", "ternary", "lost cast", "literal"}
    <2>1. FitsBut(e.type, e.v1, D) /\ FastOf(e.fast, e.type, e.v1) /\ "literal" \in D
      BY DEF Entry, Fits, FastFits
    <2> HIDE DEF D
    <2>2. FitsBut(n.type, n.v1, D)
      BY <2>1, <1>2, <1>3, <1>9
    <2> QED BY <2>2 DEF D, Fits
  <1>11. Numbers(n.type, n.v1)
    <2>1. CASE op = "-"
      <3>1. e.v1.from = n.v1.from /\ n.type = e.type
        BY <2>1, <1>3 DEF evalUnary, Val, Fails
      <3>2. e.fast # "Object" => e.fast \in Numeric
        BY <1>2 DEF FastKinds
      <3>3. Missing(n.v1) \/ IsNumber(n.v1)
        BY <2>1, <1>3, <3>2 DEF evalUnary, Val, Fails, Missing, IsNumber, isFastNumericKind
      <3> QED BY <3>3 DEF Numbers
    <2>2. CASE op = "~"
      BY <2>2, <1>3 DEF evalUnary, Numbers, Val, Fails, Missing, IsNumber, Numeric
    <2>3. CASE op = "!"
      BY <2>3, <1>3 DEF Numbers, Numeric
    <2>4. CASE op = "await"
      <3>1. n.type = Returns[f]
        BY <2>4, <1>3
      <3>2. Missing(n.v1) \/ n.v1.k = Returns[f]
        BY <2>4, <1>3 DEF evalUnary, Val, Missing
      <3> QED BY <3>1, <3>2 DEF Numbers, IsNumber
    <2> QED BY <2>1, <2>2, <2>3, <2>4
  <1>12. FastFits(n)
    <2>1. SUFFICES ASSUME n.fast \in Numeric
                   PROVE  n.type \in Numeric /\ FastOf(n.fast, n.type, n.v1) /\ FastOf(n.fast, n.type, n.fb)
      BY DEF FastFits, FastOf
    <2>2. op = "-" /\ n.fast = e.fast /\ n.type = e.type /\ e.type \in Numeric
      BY <2>1, <1>3, <1>5 DEF acceptsOperand
    <2>3. n.v1.from = e.v1.from /\ n.fb.from = e.fb.from
      BY <2>2, <1>3 DEF evalUnary, Val, Fails
    <2> QED BY <2>2, <2>3 DEF Entry, FastFits, FastOf
  <1>13. Follows(n.v1, n.fb) /\ Fits2(n.type, n.fb)
    <2>1. Follows(n.v1, n.fb)
      BY <1>1, <1>2, <1>3, UnaryFollows DEF Entry
    <2>2. FitsBut(e.type, e.fb, Departures)
      BY <1>2, FitsButAny, ValuesAreRegisterValues DEF Entry
    <2>3. FitsBut(n.type, n.fb, Departures)
      <3>1. "literal" \in Departures /\ FastOf(e.fast, e.type, e.fb)
        BY DEF Departures, Entry, FastFits
      <3> QED BY <3>1, <2>2, <1>2, <1>3, <1>9
    <2> QED BY <2>1, <2>3, <1>7, FitsButAny, ValuesAreRegisterValues
  <1> QED BY <1>3, <1>8, <1>10, <1>11, <1>12, <1>13 DEF Entry, LoFits, notLowered, Lo

LEMMA CastEntry ==
  ASSUME NEW e \in Exprs, Entry(e), NEW target \in Types
  PROVE  CastNode(target, e) \in Exprs /\ Entry(CastNode(target, e))
  <1> DEFINE n == CastNode(target, e)
             lo == IF target \in Numeric THEN lowerNumericCast(e.lo, target) ELSE notLowered
  <1>1. /\ e.v1 \in Values /\ e.fb \in Values /\ e.v2 \in RegisterValues /\ e.lo \in Lowerings
    BY DEF Exprs
  <1>2. /\ n.type = target /\ n.fast = fastScalarKindFromType(target) /\ n.shape = "call"
        /\ n.lo = lo /\ n.v1 = evalCast(target, e.v1) /\ n.fb = evalCast(target, e.fb)
        /\ n.v2 = IF lo.ok THEN castRegister(e.lo, target, e.v2) ELSE Stop({})
        /\ n = Expr(n.type, n.fast, "call", n.lo, n.v1, n.fb, n.v2)
    BY DEF CastNode, Expr
  <1>3. /\ lo \in Lowerings
        /\ lo.ok => target \in Numeric /\ e.lo.ok /\ lo.kind = target
    BY <1>1 DEF lowerNumericCast, Lowerings, Lo, notLowered, FastKinds
  <1>4. n.v1 \in Values /\ Fits(n.type, n.v1) /\ Numbers(n.type, n.v1)
    BY <1>1, <1>2, CastSound
  <1>5. n.fb \in Values /\ Fits2(n.type, n.fb)
    BY <1>1, <1>2, CastSound
  <1>6. ASSUME lo.ok
        PROVE  RegisterFits(lo.kind, n.type, n.v1, n.v2)
    <2>1. RegisterFits(e.lo.kind, e.type, e.v1, e.v2)
      BY <1>3, <1>6 DEF Entry
    <2>2. target \in Numeric /\ lo.kind = target
      BY <1>3, <1>6
    <2>3. RegisterFits(target, target, evalCast(target, e.v1), castRegister(e.lo, target, e.v2))
      BY <1>1, <2>1, <2>2, CastRegisterSound
    <2> QED BY <1>2, <1>6, <2>2, <2>3
  <1>7. n.v2 \in RegisterValues
    BY <1>1, <1>2, <1>3, CastRegisterValue DEF Stop, Val, RegisterValues
  <1>8. n \in Exprs
    BY <1>2, <1>3, <1>4, <1>5, <1>7 DEF Expr, Exprs, Types, fastScalarKindFromType, FastKinds
  <1>9. FastFits(n)
    BY <1>2 DEF FastFits, FastOf, fastScalarKindFromType, Numeric
  <1>10. LoFits(n)
    BY <1>1, <1>2, <1>3 DEF LoFits, fastScalarKindFromType, Numeric
  <1>11. Follows(n.v1, n.fb)
    BY <1>1, <1>2, CastFollows DEF Entry
  <1> QED BY <1>2, <1>4, <1>5, <1>6, <1>8, <1>9, <1>10, <1>11 DEF Entry

LEMMA LiteralEntry ==
  ASSUME NEW t \in {"Int", "Bool", "Float"}
  PROVE  ConstNode(t) \in Exprs /\ Entry(ConstNode(t))
  <1>1. ConstNode(t) \in Exprs
    BY DEF ConstNode, Expr, Exprs, Lo, Lowerings, Val, Of, Values, RegisterValues, Kinds, FastKinds,
       Numeric, Departures
  <1>2. Entry(ConstNode(t))
    BY DEF ConstNode, Expr, Lo, Val, Of, Entry, Fits, FitsBut, Numbers, FastFits, FastOf, LoFits,
       Follows, Excused, Alike, Fits2, RegisterFits, Stops, IsNumber, Missing, Numeric
  <1> QED BY <1>1, <1>2

LEMMA CallEntry ==
  ASSUME NEW f \in DOMAIN Returns, NEW outcome \in {"value", "null", "fails", "errs"}
  PROVE  CallNode(f, outcome) \in Exprs /\ Entry(CallNode(f, outcome))
  <1>0. Returns[f] \in Types
    BY TypesAssumption DEF Types
  <1> DEFINE n == CallNode(f, outcome)
             kind == fastScalarKindFromType(Returns[f])
             v == called(f, outcome, "none")
             u == called(f, outcome, "error")
             w == directCallRegister(Returns[f], f \in Lazy, outcome)
  <1>1. /\ n.type = (IF f \in Lazy THEN "Task" ELSE Returns[f]) /\ n.fast = kind
        /\ n.shape = "call" /\ n.lo = Lo(TRUE, kind, FALSE) /\ n.v1 = v /\ n.fb = u /\ n.v2 = w
        /\ n = Expr(n.type, kind, "call", n.lo, v, u, w)
    BY DEF CallNode, Expr
  <1>2. kind \in FastKinds /\ (kind \in Numeric => Returns[f] = kind) /\ (Returns[f] \in Numeric => kind = Returns[f])
    BY <1>0 DEF fastScalarKindFromType, FastKinds, Numeric
  <1>3. v \in Values /\ u \in Values
    BY <1>0 DEF called, Val, Of, Values, Kinds, Departures, Types
  <1>4. w \in RegisterValues
    BY <1>0 DEF directCallRegister, Val, Stop, RegisterValues, Kinds, Departures, Types
  <1>5. n.lo.ok /\ n.lo.kind = kind /\ ~n.lo.fused /\ n.lo \in Lowerings
    BY <1>1, <1>2 DEF Lo, Lowerings
  <1>6. /\ f \in Lazy => v = Val("Task", {"lazy"}) /\ u = Val("Task", {"lazy"})
        /\ f \notin Lazy => v.from = {} /\ u.from = {}
        /\ f \notin Lazy /\ outcome = "value" => v.k = Returns[f] /\ u.k = Returns[f]
        /\ f \notin Lazy /\ outcome # "value" => Missing(v) /\ Missing(u) /\ Alike(v, u)
        /\ f \notin Lazy /\ outcome = "null" => v.k = "none"
    BY DEF called, Val, Of, Missing, Alike
  <1>7. /\ f \in Lazy => w.from = {"lazy"}
        /\ f \notin Lazy => w.from = {}
        /\ outcome = "value" => w.k = Returns[f]
        /\ outcome = "null" => w.k = "none" /\ ~Stops(w)
        /\ outcome \in {"fails", "errs"} => Stops(w)
        /\ w.k # "error"
    BY <1>0 DEF directCallRegister, Val, Stop, Stops, Types, Numeric
  <1> HIDE DEF n, kind, v, u, w
  <1>8. n.type \in Types \cup {"Task"}
    BY <1>0, <1>1
  <1>9. n \in Exprs
    <2>1. Expr(n.type, kind, "call", n.lo, v, u, w) \in Exprs
      BY <1>2, <1>3, <1>4, <1>5, <1>8, ExprIn
    <2> QED BY <2>1, <1>1
  <1>10. Fits(n.type, v) /\ Numbers(n.type, v) /\ Follows(v, u) /\ Fits2(n.type, u)
    <2>1. CASE f \in Lazy
      <3>1. n.type = "Task" /\ v.k = "Task" /\ u.k = "Task" /\ u.from = {"lazy"}
        BY <2>1, <1>1, <1>6 DEF Val
      <3>2. "Task" \notin Numeric
        BY DEF Numeric
      <3> QED BY <3>1, <3>2 DEF Fits, FitsBut, Numbers, Follows, Excused, Fits2
    <2>2. CASE f \notin Lazy
      BY <2>2, <1>1, <1>6 DEF Fits, FitsBut, Numbers, IsNumber, Follows, Excused, Alike, Fits2
    <2> QED BY <2>1, <2>2
  <1>11. FastFits(n) /\ LoFits(n)
    BY <1>1, <1>2, <1>5, <1>6 DEF FastFits, FastOf, LoFits, Numeric
  <1>12. RegisterFits(kind, n.type, v, w)
    <2>2. CASE f \in Lazy
      BY <2>2, <1>7 DEF RegisterFits, Explains, Excused, Follows, Fits2
    <2>3. CASE f \notin Lazy /\ outcome = "value"
      <3>1. ~Stops(w)
        BY <2>3, <1>7, <1>0 DEF Stops, Types, Numeric
      <3> QED BY <3>1, <2>3, <1>1, <1>2, <1>6, <1>7 DEF RegisterFits, Follows, Excused, Alike, Fits2
    <2>4. CASE f \notin Lazy /\ outcome # "value"
      BY <2>4, <1>6, <1>7 DEF RegisterFits, Explains, Follows, Alike, Fits2, Missing
    <2> QED BY <2>2, <2>3, <2>4
  <1>13. Entry(n)
    BY <1>1, <1>5, <1>10, <1>11, <1>12 DEF Entry
  <1> QED BY <1>9, <1>13 DEF n

LEMMA SqrtFollows ==
  ASSUME NEW v \in Values, NEW w \in Values, Follows(v, w), NEW fast, NEW negative \in BOOLEAN
  PROVE  Follows(evalSqrt(fast, v, negative), evalSqrt(fast, w, negative))
  BY DEF evalSqrt, Values, Val, Missing, IsNumber, Fails, Follows, Excused, Alike, Numeric

LEMMA SqrtValue ==
  ASSUME NEW v \in Values, NEW fast, NEW negative \in BOOLEAN
  PROVE  /\ evalSqrt(fast, v, negative) \in Values
         /\ evalSqrt(fast, v, negative).from = v.from
         /\ \/ Missing(evalSqrt(fast, v, negative))
            \/ evalSqrt(fast, v, negative).k = "Double" /\ IsNumber(v) /\ ~negative
         /\ IsNumber(v) /\ ~negative => evalSqrt(fast, v, negative).k = "Double"
  BY DEF evalSqrt, Values, Val, Missing, IsNumber, Fails, Kinds, Numeric

LEMMA SqrtRegisterFits ==
  ASSUME NEW v \in Values, NEW w \in RegisterValues, NEW t, NEW kind \in Numeric, NEW fast,
         NEW negative \in BOOLEAN, RegisterFits(kind, t, v, w)
  PROVE  RegisterFits("Double", "Double", evalSqrt(fast, v, negative), sqrtRegister(w, negative))
  <1> DEFINE vv == evalSqrt(fast, v, negative)
             ww == sqrtRegister(w, negative)
  <1>1. /\ vv.from = v.from
        /\ Missing(vv) \/ (vv.k = "Double" /\ IsNumber(v) /\ ~negative)
        /\ IsNumber(v) /\ ~negative => vv.k = "Double"
    BY SqrtValue
  <1>2. CASE Stops(w)
    <2>1. Missing(v) => ~IsNumber(v)
      BY DEF Missing, IsNumber, Numeric
    <2> QED BY <1>1, <1>2, <2>1 DEF sqrtRegister, RegisterFits, Explains, Excused
  <1>3. CASE ~Stops(w) /\ (~IsNumber(w) \/ negative)
    <2>1. Stops(ww) /\ ww.from = w.from
      BY <1>3 DEF sqrtRegister, loadNumbers, Stop, Stops, Val
    <2>2. SUFFICES ASSUME w.from = {}, ~Excused(v)
                   PROVE  Missing(vv)
      BY <1>1, <2>1 DEF RegisterFits, Explains, Excused
    <2>3. ~IsNumber(w) => Missing(v)
      BY <2>2, <1>3, NumericRegister
    <2>4. Missing(v) => ~IsNumber(v)
      BY DEF Missing, IsNumber, Numeric
    <2> QED BY <2>3, <2>4, <1>1, <1>3
  <1>4. CASE ~Stops(w) /\ IsNumber(w) /\ ~negative
    <2>1. ww.k = "Double" /\ ww.from = w.from /\ ~Stops(ww) /\ ww.k # "error"
      BY <1>4 DEF sqrtRegister, loadNumbers, Stops, Val
    <2>2. ASSUME w.from = {}, ~Excused(v)
          PROVE  v.from = {} /\ v.k = kind
      BY <2>2, <1>4, NumericRegister
    <2>3. ASSUME w.from = {}, ~Excused(v)
          PROVE  v.from = {} /\ vv.k = "Double"
      BY <2>2, <2>3, <1>1, <1>4 DEF IsNumber
    <2> QED BY <1>1, <2>1, <2>3 DEF RegisterFits, Follows, Excused, Alike, Fits2
  <1> QED BY <1>2, <1>3, <1>4

LEMMA SqrtEntry ==
  ASSUME NEW e \in Exprs, Entry(e), e.type \in Numeric,
         NEW negative \in BOOLEAN
  PROVE  SqrtNode(negative, e) \in Exprs /\ Entry(SqrtNode(negative, e))
  <1> DEFINE n == SqrtNode(negative, e)
             lowered == e.lo.ok /\ isFastNumericKind(e.lo.kind)
  <1>1. e.v1 \in Values /\ e.fb \in Values /\ e.v2 \in RegisterValues /\ e.lo \in Lowerings
    BY DEF Exprs
  <1>2. /\ n.type = "Double" /\ n.fast = "Object" /\ n.shape = "call"
        /\ n.lo = IF lowered THEN Lo(TRUE, "Double", FALSE) ELSE notLowered
        /\ n.v1 = evalSqrt(e.fast, e.v1, negative) /\ n.fb = evalSqrt(e.fast, e.fb, negative)
        /\ n.v2 = IF lowered THEN sqrtRegister(e.v2, negative) ELSE Stop({})
        /\ n = Expr("Double", "Object", "call", n.lo, n.v1, n.fb, n.v2)
    BY DEF SqrtNode, Expr
  <1>3. n.v1 \in Values /\ (n.v1.k = "Double" \/ Missing(n.v1))
    BY <1>1, <1>2, SqrtValue
  <1>4. n.fb \in Values /\ (n.fb.k = "Double" \/ Missing(n.fb))
    BY <1>1, <1>2, SqrtValue
  <1>5. n.lo \in Lowerings /\ (n.lo.ok => lowered /\ n.lo.kind = "Double" /\ ~n.lo.fused)
    BY <1>2 DEF Lo, notLowered, Lowerings, FastKinds, Numeric
  <1>6. n.v2 \in RegisterValues
    <2>1. "Double" \in Numeric
      BY DEF Numeric
    <2>2. loadNumbers("Double", e.v2, e.v2, negative) \in RegisterValues
      BY <1>1, <2>1, LoadNumbersValue
    <2>3. Stop({}) \in RegisterValues
      BY DEF Stop, Val, RegisterValues
    <2>4. n.v2 \in {e.v2, loadNumbers("Double", e.v2, e.v2, negative), Stop({})}
      BY <1>2 DEF sqrtRegister
    <2> QED BY <1>1, <2>2, <2>3, <2>4
  <1>7. n \in Exprs
    <2>1. "Double" \in Types \cup {"Task"} /\ "Object" \in FastKinds
      BY DEF Types, FastKinds, Numeric
    <2> HIDE DEF n
    <2>2. Expr("Double", "Object", "call", n.lo, n.v1, n.fb, n.v2) \in Exprs
      BY <2>1, <1>3, <1>4, <1>5, <1>6, ExprIn
    <2> QED BY <2>2, <1>2
  <1>8. Fits(n.type, n.v1) /\ Numbers(n.type, n.v1) /\ Fits2(n.type, n.fb)
    BY <1>2, <1>3, <1>4 DEF Fits, FitsBut, Numbers, Fits2, IsNumber, Numeric
  <1>9. FastFits(n) /\ LoFits(n)
    BY <1>2, <1>5 DEF FastFits, FastOf, LoFits, Numeric
  <1>10. Follows(n.v1, n.fb)
    BY <1>1, <1>2, SqrtFollows DEF Entry
  <1>11. ASSUME n.lo.ok
         PROVE  RegisterFits(n.lo.kind, n.type, n.v1, n.v2)
    <2>1. e.lo.ok /\ e.lo.kind \in Numeric /\ RegisterFits(e.lo.kind, e.type, e.v1, e.v2)
      BY <1>1, <1>5, <1>11 DEF Entry, isFastNumericKind, Lowerings, FastKinds
    <2>2. RegisterFits("Double", "Double", evalSqrt(e.fast, e.v1, negative), sqrtRegister(e.v2, negative))
      BY <1>1, <2>1, SqrtRegisterFits
    <2> QED BY <2>2, <1>2, <1>5, <1>11
  <1> QED BY <1>7, <1>8, <1>9, <1>10, <1>11 DEF Entry

LEMMA IndexValue ==
  ASSUME NEW kind \in Numeric, NEW elements \in Values, NEW v \in Values, NEW outside \in BOOLEAN
  PROVE  /\ evalTypedIndexGet(kind, elements, v, outside) \in Values
         /\ \/ Missing(evalTypedIndexGet(kind, elements, v, outside))
            \/ evalTypedIndexGet(kind, elements, v, outside).k = kind
  BY DEF evalTypedIndexGet, Values, Val, Missing, Fails, Lacking, Kinds, isIntType

LEMMA IndexFollows ==
  ASSUME NEW kind, NEW elements \in Values, NEW v \in Values, NEW outside \in BOOLEAN,
         NEW elements2 \in Values, NEW w \in Values, Follows(elements, elements2), Follows(v, w)
  PROVE  Follows(evalTypedIndexGet(kind, elements, v, outside),
                 evalTypedIndexGet(kind, elements2, w, outside))
  BY DEF evalTypedIndexGet, Values, Val, Missing, Fails, Lacking, isIntType, Follows, Excused, Alike

LEMMA IndexRegisterFits ==
  ASSUME NEW kind \in Numeric, NEW elements \in Values, NEW v \in Values, NEW outside \in BOOLEAN,
         NEW elements2 \in Values, NEW w \in RegisterValues, Follows(elements, elements2),
         NEW k, NEW t, RegisterFits(k, t, v, w)
  PROVE  /\ indexRegister(kind, elements2, w, outside) \in RegisterValues
         /\ RegisterFits(kind, kind, evalTypedIndexGet(kind, elements, v, outside),
                         indexRegister(kind, elements2, w, outside))
  <1>1. indexRegister(kind, elements2, w, outside) \in RegisterValues
    BY DEF indexRegister, Values, RegisterValues, Val, Stop, Kinds
  <1>2. CASE Stops(w)
    BY <1>2, <1>1 DEF indexRegister, RegisterFits, Explains, Excused, evalTypedIndexGet, Val, Missing, Fails,
       Lacking, isIntType
  <1>3. CASE ~Stops(w) /\ (~isIntType(w.k) \/ outside)
    BY <1>3, <1>1 DEF indexRegister, RegisterFits, Explains, Excused, evalTypedIndexGet, Val, Missing, Fails,
       Lacking, isIntType, Stop, Stops, Follows, Alike
  <1>4. CASE ~Stops(w) /\ isIntType(w.k) /\ ~outside
    BY <1>4, <1>1 DEF indexRegister, RegisterFits, evalTypedIndexGet, Val, Missing, Fails,
       Lacking, isIntType, Stops, Follows, Excused, Alike, Fits2, Numeric
  <1> QED BY <1>1, <1>2, <1>3, <1>4

LEMMA IndexEntry ==
  ASSUME NEW e \in Exprs, Entry(e), NEW a \in Arrays,
         NEW outside \in BOOLEAN, env1[a] \in Values, env2[a] \in Values,
         Slot(ElementOf[a], env1[a], env2[a])
  PROVE  IndexNode(a, outside, e) \in Exprs /\ Entry(IndexNode(a, outside, e))
  <1> DEFINE n == IndexNode(a, outside, e)
             kind == ElementOf[a]
  <1>1. e.v1 \in Values /\ e.fb \in Values /\ e.v2 \in RegisterValues /\ e.lo \in Lowerings
    BY DEF Exprs
  <1>2. kind \in Numeric
    BY TypesAssumption
  <1>3. /\ n.type = kind /\ n.fast = kind /\ n.shape = "other"
        /\ n.lo = IF e.lo.ok THEN Lo(TRUE, kind, FALSE) ELSE notLowered
        /\ n.v1 = evalTypedIndexGet(kind, env1[a], e.v1, outside)
        /\ n.fb = evalTypedIndexGet(kind, env2[a], e.fb, outside)
        /\ n.v2 = indexRegister(kind, env2[a], e.v2, outside)
        /\ n = Expr(kind, kind, "other", n.lo, n.v1, n.fb, n.v2)
    BY DEF IndexNode, Expr
  <1> HIDE DEF n, kind
  <1>4. n.v1 \in Values /\ (Missing(n.v1) \/ n.v1.k = kind)
    <2> DEFINE g == evalTypedIndexGet(kind, env1[a], e.v1, outside)
    <2>1. g \in Values /\ (Missing(g) \/ g.k = kind)
      BY <1>1, <1>2, IndexValue
    <2> QED BY <2>1, <1>3
  <1>5. n.fb \in Values /\ (Missing(n.fb) \/ n.fb.k = kind)
    <2> DEFINE g == evalTypedIndexGet(kind, env2[a], e.fb, outside)
    <2>1. g \in Values /\ (Missing(g) \/ g.k = kind)
      BY <1>1, <1>2, IndexValue
    <2> QED BY <2>1, <1>3
  <1>6. n.lo \in Lowerings /\ (n.lo.ok => e.lo.ok /\ n.lo.kind = kind /\ ~n.lo.fused)
    BY <1>2, <1>3 DEF Lo, notLowered, Lowerings, FastKinds
  <1>7. n.v2 \in RegisterValues
    BY <1>1, <1>2, <1>3 DEF indexRegister, Values, RegisterValues, Val, Stop, Kinds
  <1>8. n \in Exprs
    <2>1. kind \in Types \cup {"Task"} /\ kind \in FastKinds
      BY <1>2 DEF Types, FastKinds
    <2>2. Expr(kind, kind, "other", n.lo, n.v1, n.fb, n.v2) \in Exprs
      BY <2>1, <1>4, <1>5, <1>6, <1>7, ExprIn
    <2> QED BY <2>2, <1>3
  <1>9. Fits(n.type, n.v1) /\ Numbers(n.type, n.v1) /\ Fits2(n.type, n.fb)
    BY <1>2, <1>3, <1>4, <1>5 DEF Fits, FitsBut, Numbers, Fits2, IsNumber
  <1>10. FastFits(n) /\ LoFits(n)
    BY <1>2, <1>3, <1>6 DEF FastFits, FastOf, LoFits
  <1>11. Follows(n.v1, n.fb)
    <2>1. Follows(env1[a], env2[a]) /\ Follows(e.v1, e.fb)
      BY DEF Slot, Entry
    <2> QED BY <2>1, <1>1, <1>3, IndexFollows
  <1>12. ASSUME n.lo.ok
         PROVE  RegisterFits(n.lo.kind, n.type, n.v1, n.v2)
    <2>1. Follows(env1[a], env2[a]) /\ RegisterFits(e.lo.kind, e.type, e.v1, e.v2)
      BY <1>6, <1>12 DEF Slot, Entry
    <2>2. RegisterFits(kind, kind, n.v1, n.v2)
      BY <2>1, <1>1, <1>2, <1>3, IndexRegisterFits
    <2> QED BY <2>2, <1>3, <1>6, <1>12
  <1> QED BY <1>8, <1>9, <1>10, <1>11, <1>12 DEF Entry, n

LEMMA TernaryFollows ==
  ASSUME NEW c \in Values, NEW d \in Values, Follows(c, d), NEW v \in Values, NEW w \in Values,
         Follows(v, w)
  PROVE  Follows(evalTernary(c, v), evalTernary(d, w))
  BY DEF evalTernary, Values, Val, Missing, Lacking, Follows, Excused, Alike

LEMMA TernaryValue ==
  ASSUME NEW c \in Values, NEW v \in Values
  PROVE  /\ evalTernary(c, v) \in Values
         /\ \/ Missing(evalTernary(c, v))
            \/ evalTernary(c, v) = Val(v.k, v.from \cup c.from)
  BY DEF evalTernary, Values, Val, Missing, Lacking, Kinds

LEMMA TernaryEntry ==
  ASSUME NEW cond \in Exprs, NEW t \in Exprs, NEW e \in Exprs,
         Entry(cond), Entry(t), Entry(e), NEW first \in BOOLEAN,
         match(t.type, e.type) \/ match(e.type, t.type)
  PROVE  TernaryNode(cond, first, t, e) \in Exprs /\ Entry(TernaryNode(cond, first, t, e))
  <1> DEFINE n == TernaryNode(cond, first, t, e)
             taken == IF first THEN t ELSE e
             widened == IF taken.type = n.type THEN {} ELSE {"ternary"}
             v1 == Val(taken.v1.k, taken.v1.from \cup widened)
             fb == Val(taken.fb.k, taken.fb.from \cup widened)
  <1>1. /\ n.type = IF match(t.type, e.type) THEN t.type ELSE e.type
        /\ n.fast = "Object" /\ n.shape = "ternary" /\ n.lo = notLowered
        /\ n.v1 = evalTernary(cond.v1, v1) /\ n.fb = evalTernary(cond.fb, fb)
        /\ n.v2 = Stop({})
        /\ n = Expr(n.type, "Object", "ternary", notLowered, n.v1, n.fb, Stop({}))
    BY DEF TernaryNode, Expr
  <1>2. taken \in Exprs /\ Entry(taken)
    OBVIOUS
  <1>3. /\ cond.v1 \in Values /\ cond.fb \in Values
        /\ taken.v1 \in Values /\ taken.fb \in Values
        /\ taken.type \in Types \cup {"Task"} /\ n.type \in Types \cup {"Task"}
    BY <1>1, <1>2 DEF Exprs, Types
  <1>4. n.type = "Any" \/ n.type = taken.type \/ widened = {"ternary"}
    OBVIOUS
  <1>5. n.type \in Numeric => taken.type \in Numeric
    BY <1>1 DEF match, isWideningNumericCast, Numeric
  <1> HIDE DEF n, taken
  <1>6. v1 \in Values /\ fb \in Values
    BY <1>3 DEF Val, Values, Departures
  <1>7. v1.k = taken.v1.k /\ v1.from = taken.v1.from \cup widened
    BY DEF Val
  <1>8. fb.k = taken.fb.k /\ fb.from = taken.fb.from \cup widened
    BY DEF Val
  <1> HIDE DEF v1, fb
  <1>e. n.v1 = evalTernary(cond.v1, v1) /\ n.fb = evalTernary(cond.fb, fb)
    BY <1>1
  <1>9. n.v1 \in Values /\ (Missing(n.v1) \/ n.v1 = Val(v1.k, v1.from \cup cond.v1.from))
    BY ONLY <1>e, <1>3, <1>6, TernaryValue
  <1>10. n.fb \in Values /\ (Missing(n.fb) \/ n.fb = Val(fb.k, fb.from \cup cond.fb.from))
    BY ONLY <1>e, <1>3, <1>6, TernaryValue
  <1>11. n \in Exprs
    <2>1. /\ notLowered \in Lowerings /\ Stop({}) \in RegisterValues /\ "Object" \in FastKinds
      BY DEF notLowered, Lo, Lowerings, FastKinds, Stop, Val, RegisterValues
    <2>2. Expr(n.type, "Object", "ternary", notLowered, n.v1, n.fb, Stop({})) \in Exprs
      BY <2>1, <1>3, <1>9, <1>10, ExprIn
    <2> QED BY <2>2, <1>1
  <1>12. Fits(n.type, n.v1)
    <2>1. CASE Missing(n.v1)
      BY <2>1 DEF Fits, FitsBut
    <2>2. CASE n.v1 = Val(v1.k, v1.from \cup cond.v1.from)
      <3>1. n.v1.k = taken.v1.k /\ n.v1.from = taken.v1.from \cup widened \cup cond.v1.from
        BY <2>2, <1>7 DEF Val
      <3>2. Fits(taken.type, taken.v1)
        BY <1>2 DEF Entry
      <3>3. taken.type = "Any" => n.type = "Any" \/ widened = {"ternary"}
        BY <1>4
      <3> QED BY <3>1, <3>2, <3>3, <1>4 DEF Fits, FitsBut, Missing
    <2> QED BY <2>1, <2>2, <1>9
  <1>13. Numbers(n.type, n.v1)
    <2>1. CASE Missing(n.v1)
      BY <2>1 DEF Numbers
    <2>2. CASE n.v1 = Val(v1.k, v1.from \cup cond.v1.from)
      <3>1. n.v1.k = taken.v1.k /\ n.v1.from = taken.v1.from \cup widened \cup cond.v1.from
        BY <2>2, <1>7 DEF Val
      <3> QED BY <3>1, <1>2, <1>5 DEF Entry, Numbers, Missing, IsNumber
    <2> QED BY <2>1, <2>2, <1>9
  <1>14. FastFits(n) /\ LoFits(n) /\ ~n.lo.ok
    BY <1>1 DEF FastFits, FastOf, LoFits, notLowered, Lo, Numeric
  <1>15. Follows(n.v1, n.fb)
    <2>1. Follows(cond.v1, cond.fb) /\ Follows(taken.v1, taken.fb)
      BY <1>2 DEF Entry
    <2>2. Follows(v1, fb)
      BY <2>1, <1>7, <1>8 DEF Follows, Excused, Alike, Missing
    <2> QED BY <2>1, <2>2, <1>1, <1>3, <1>6, TernaryFollows
  <1>16. Fits2(n.type, n.fb)
    <2>1. CASE Missing(n.fb)
      BY <2>1 DEF Fits2
    <2>2. CASE n.fb = Val(fb.k, fb.from \cup cond.fb.from)
      <3>1. n.fb.k = taken.fb.k /\ n.fb.from = taken.fb.from \cup widened \cup cond.fb.from
        BY <2>2, <1>8 DEF Val
      <3>2. Fits2(taken.type, taken.fb)
        BY <1>2 DEF Entry
      <3> QED BY <3>1, <3>2, <1>4 DEF Fits2, Missing
    <2> QED BY <2>1, <2>2, <1>10
  <1> QED BY <1>11, <1>12, <1>13, <1>14, <1>15, <1>16 DEF Entry, n

LEMMA NameEntry ==
  ASSUME NEW x \in Names, env1[x] \in Values, env2[x] \in Values,
         Slot(TypeOf[x], env1[x], env2[x])
  PROVE  VarNode(x) \in Exprs /\ Entry(VarNode(x))
  <1> DEFINE kind == fastScalarKindFromType(TypeOf[x])
             e == VarNode(x)
  <1>1. TypeOf[x] \in Types
    BY TypesAssumption DEF Types
  <1>2. /\ kind \in FastKinds /\ (kind \in Numeric => kind = TypeOf[x])
        /\ TypeOf[x] \in Numeric => kind \in Numeric
    BY <1>1 DEF fastScalarKindFromType, FastKinds, Numeric
  <1>3. /\ e.type = TypeOf[x] /\ e.fast = kind /\ e.shape = "other"
        /\ e.lo = Lo(TRUE, kind, FALSE) /\ e.v1 = env1[x] /\ e.fb = env2[x] /\ e.v2 = env2[x]
        /\ e = Expr(TypeOf[x], kind, "other", Lo(TRUE, kind, FALSE), env1[x], env2[x], env2[x])
    BY DEF VarNode, Expr
  <1> HIDE DEF kind, e
  <1>4. e \in Exprs
    <2>1. Lo(TRUE, kind, FALSE) \in Lowerings
      BY <1>2 DEF Lo, Lowerings
    <2>2. Expr(TypeOf[x], kind, "other", Lo(TRUE, kind, FALSE), env1[x], env2[x], env2[x]) \in Exprs
      BY <2>1, <1>1, <1>2, ExprIn, ValuesAreRegisterValues
    <2> QED BY <2>2, <1>3
  <1>5. FastFits(e) /\ LoFits(e) /\ e.lo.ok /\ e.lo.kind = kind
    BY <1>1, <1>2, <1>3 DEF FastFits, FastOf, LoFits, Lo
  <1>6. ~Stops(env2[x])
    BY DEF Stops, Values, Kinds, Numeric
  <1>7. Fits(e.type, e.v1) /\ Numbers(e.type, e.v1)
    BY <1>3 DEF Slot
  <1>8. /\ Follows(e.v1, e.fb) /\ Fits2(e.type, e.fb)
        /\ RegisterFits(e.lo.kind, e.type, e.v1, e.v2)
    <2>1. Follows(env1[x], env2[x]) /\ Fits2(TypeOf[x], env2[x])
      BY DEF Slot
    <2>2. kind \in Numeric /\ env2[x].from = {} => env2[x].k = kind \/ Missing(env2[x])
      BY <2>1, <1>2 DEF Fits2, Numeric
    <2>3. RegisterFits(kind, TypeOf[x], env1[x], env2[x])
      BY <2>1, <2>2, <1>6 DEF RegisterFits, Slot
    <2> QED BY <2>1, <2>3, <1>3, <1>5
  <1>9. Entry(e)
    BY <1>5, <1>7, <1>8 DEF Entry
  <1> QED BY <1>4, <1>9 DEF e

-----------------------------------------------------------------------------
(* What is stored. *)

\* An expression that may be stored to a slot of type t: V1's value is of
\* that type, or a function's slot converts it.
Stores(t, v) == t \in Numeric /\ IsNumber(v)
Storable(t, e, local) ==
  /\ Fits(t, e.v1) \/ (local /\ Stores(t, e.v1))
  /\ Numbers(t, e.v1)
  /\ Follows(e.v1, e.fb) /\ (Fits2(t, e.fb) \/ Stores(t, e.fb))
  /\ e.lo.ok =>
       IF Stops(e.v2) THEN Explains(e.v1, e.v2)
       ELSE /\ Follows(e.v1, e.v2) /\ (Fits2(t, e.v2) \/ Stores(t, e.v2)) /\ e.v2.k # "error"
            /\ e.lo.fused => /\ e.lo.kind \in Numeric
                             /\ e.v2.from = {} => e.v2.k = e.lo.kind \/ Missing(e.v2)

LEMMA EntryStorable ==
  ASSUME NEW local \in BOOLEAN, NEW e \in Exprs, Entry(e), NEW t \in Types,
         \/ t = "Any" \/ e.type = t
         \/ local /\ e.type \in Numeric /\ t \in Numeric
  PROVE  Storable(t, e, local)
  <1>1. CASE t = "Any"
    BY <1>1 DEF Entry, Storable, Fits, FitsBut, Numbers, Fits2, RegisterFits, LoFits, Numeric
  <1>2. CASE e.type = t
    BY <1>2 DEF Entry, Storable, RegisterFits, LoFits
  <1>3. CASE local /\ e.type \in Numeric /\ t \in Numeric
    <2>1. Fits(t, e.v1) \/ Stores(t, e.v1)
      BY <1>3 DEF Entry, Fits, FitsBut, Stores, IsNumber, Numeric
    <2>2. Numbers(t, e.v1)
      BY <1>3 DEF Entry, Numbers
    <2>3. Fits2(t, e.fb) \/ Stores(t, e.fb)
      BY <1>3 DEF Entry, Fits2, Stores, IsNumber, Numeric
    <2>4. e.lo.ok /\ ~Stops(e.v2) => Fits2(t, e.v2) \/ Stores(t, e.v2)
      BY <1>3 DEF Entry, RegisterFits, Fits2, Stores, IsNumber, Numeric
    <2> QED BY <1>3, <2>1, <2>2, <2>3, <2>4 DEF Entry, Storable, RegisterFits, LoFits
  <1> QED BY <1>1, <1>2, <1>3

LEMMA ImplicitCastStorable ==
  ASSUME NEW local \in BOOLEAN, NEW e \in Exprs, Entry(e), NEW t \in Types,
         match(t, e.type)
  PROVE  /\ applyImplicitNumericCast(t, e) \in Exprs
         /\ Storable(t, applyImplicitNumericCast(t, e), local)
  <1>1. CASE isWideningNumericCast(t, e.type)
    <2> DEFINE n == applyImplicitNumericCast(t, e)
    <2>1. /\ e.v1 \in Values /\ e.fb \in Values /\ e.v2 \in RegisterValues /\ e.lo \in Lowerings
          /\ e.type \in Types \cup {"Task"} /\ e.fast \in FastKinds
          /\ e.shape \in {"other", "call", "ternary"}
      BY DEF Exprs, Types
    <2>2. t \in Numeric
      BY <1>1 DEF isWideningNumericCast, Numeric
    <2>3. /\ n.lo = lowerNumericCast(e.lo, t) /\ n.v1 = evalCast(t, e.v1)
          /\ n.fb = evalCast(t, e.fb) /\ n.v2 = castRegister(e.lo, t, e.v2)
          /\ n = Expr(e.type, e.fast, e.shape, n.lo, n.v1, n.fb, n.v2)
      BY <1>1 DEF applyImplicitNumericCast, Expr
    <2> HIDE DEF n
    <2>4. n.v1 \in Values /\ Fits(t, n.v1) /\ Numbers(t, n.v1)
      BY <2>1, <2>3, CastSound
    <2>5. n.fb \in Values /\ Fits2(t, n.fb)
      BY <2>1, <2>3, CastSound
    <2>6. n.v2 \in RegisterValues
      BY <2>1, <2>2, <2>3, CastRegisterValue
    <2>7. n.lo \in Lowerings /\ (n.lo.ok => e.lo.ok /\ n.lo.kind = t)
      BY <2>1, <2>2, <2>3 DEF lowerNumericCast, Lowerings, Lo, notLowered, FastKinds
    <2>8. n \in Exprs
      <3>1. Expr(e.type, e.fast, e.shape, n.lo, n.v1, n.fb, n.v2) \in Exprs
        BY <2>1, <2>4, <2>5, <2>6, <2>7, ExprIn
      <3> QED BY <3>1, <2>3
    <2>9. Follows(n.v1, n.fb)
      BY <2>1, <2>3, CastFollows DEF Entry
    <2>10. ASSUME n.lo.ok
           PROVE  RegisterFits(t, t, n.v1, n.v2)
      <3>1. RegisterFits(e.lo.kind, e.type, e.v1, e.v2)
        BY <2>7, <2>10 DEF Entry
      <3> QED BY <3>1, <2>1, <2>2, <2>3, CastRegisterSound
    <2>11. Storable(t, n, local)
      BY <2>2, <2>4, <2>5, <2>7, <2>9, <2>10 DEF Storable, RegisterFits
    <2> QED BY <2>8, <2>11 DEF n
  <1>2. CASE ~isWideningNumericCast(t, e.type)
    <2>1. applyImplicitNumericCast(t, e) = e
      BY <1>2 DEF applyImplicitNumericCast
    <2>2. t = "Any" \/ e.type = t
      BY <1>2 DEF match
    <2> QED BY <2>1, <2>2, EntryStorable
  <1> QED BY <1>1, <1>2

LEMMA InitialiserStorable ==
  ASSUME NEW e \in Exprs, Entry(e), NEW t \in Types, match(t, e.type)
  PROVE  initialiser(t, e) \in Exprs /\ Storable(t, initialiser(t, e), where = "function")
  <1> DEFINE n == initialiser(t, e)
  <1>0. /\ e.v1 \in Values /\ e.fb \in Values /\ e.v2 \in RegisterValues /\ e.lo \in Lowerings
        /\ e.type \in Types \cup {"Task"} /\ e.fast \in FastKinds
        /\ e.shape \in {"other", "call", "ternary"}
    BY DEF Exprs, Types
  <1>1. CASE e.shape = "call" /\ isWideningNumericCast(t, e.type) /\ where = "function"
    <2>1. n = e
      BY <1>1 DEF initialiser
    <2>2. e.type \in Numeric /\ t \in Numeric
      BY <1>1 DEF isWideningNumericCast, Numeric
    <2> QED BY <1>0, <1>1, <2>1, <2>2, EntryStorable
  <1>2. CASE e.shape = "call" /\ isWideningNumericCast(t, e.type) /\ where # "function"
    <2> DEFINE v == Val(e.v1.k, e.v1.from \cup {"lost cast"})
    <2>1. n = Expr(e.type, e.fast, e.shape, e.lo, v, e.fb, e.v2)
      BY <1>2 DEF initialiser, withV1
    <2>2. e.type \in Numeric
      BY <1>2 DEF isWideningNumericCast, Numeric
    <2>3. v \in Values /\ v.k = e.v1.k /\ v.from = e.v1.from \cup {"lost cast"}
      BY <1>0 DEF Val, Values, Departures
    <2>4. Fits(t, v) /\ Numbers(t, v)
      BY <2>2, <2>3 DEF Entry, Fits, FitsBut, Numbers, Missing, IsNumber
    <2>a. Excused(v) /\ t \in Numeric
      BY <2>3, <1>2 DEF Excused, isWideningNumericCast, Numeric
    <2>b. /\ Follows(v, e.fb) /\ (Fits2(t, e.fb) \/ Stores(t, e.fb))
          /\ e.lo.ok => IF Stops(e.v2) THEN Explains(v, e.v2)
                        ELSE /\ Follows(v, e.v2) /\ (Fits2(t, e.v2) \/ Stores(t, e.v2))
                             /\ e.v2.k # "error"
      <3>1. Fits2(e.type, e.fb)
        BY DEF Entry
      <3>2. Fits2(t, e.fb) \/ Stores(t, e.fb)
        BY <3>1, <2>2, <2>a DEF Fits2, Stores, IsNumber, Numeric
      <3>3. e.lo.ok /\ ~Stops(e.v2) => Fits2(e.type, e.v2) /\ e.v2.k # "error"
        BY DEF Entry, RegisterFits
      <3>4. e.lo.ok /\ ~Stops(e.v2) => Fits2(t, e.v2) \/ Stores(t, e.v2)
        BY <3>3, <2>2, <2>a DEF Fits2, Stores, IsNumber, Numeric
      <3> QED BY <3>2, <3>3, <3>4, <2>a DEF Follows, Excused, Explains
    <2>c. e.lo.ok /\ ~Stops(e.v2) /\ e.lo.fused =>
            /\ e.lo.kind \in Numeric
            /\ e.v2.from = {} => e.v2.k = e.lo.kind \/ Missing(e.v2)
      BY DEF Entry, RegisterFits, LoFits
    <2> HIDE DEF v
    <2>5. Expr(e.type, e.fast, e.shape, e.lo, v, e.fb, e.v2) \in Exprs
      BY <1>0, <2>3, ExprIn
    <2>6. n.v1 = v /\ n.fb = e.fb /\ n.v2 = e.v2 /\ n.lo = e.lo
      BY <2>1 DEF Expr
    <2> QED BY <2>1, <2>4, <2>5, <2>6, <2>b, <2>c DEF Storable
  <1>3. CASE e.shape = "ternary" /\ t \in Numeric
    <2> DEFINE v == evalCast(t, e.v1)
               w == evalCast(t, e.fb)
    <2>1. n = Expr(e.type, e.fast, e.shape, e.lo, v, w, e.v2)
      BY <1>3 DEF initialiser, withV1
    <2>2. v \in Values /\ Fits(t, v) /\ Numbers(t, v)
      BY <1>0, CastSound
    <2>3. w \in Values /\ Fits2(t, w)
      BY <1>0, CastSound
    <2>4. Follows(v, w)
      BY <1>0, CastFollows DEF Entry
    <2>5. ~e.lo.ok
      BY <1>3 DEF Entry, LoFits
    <2> HIDE DEF v, w
    <2>6. Expr(e.type, e.fast, e.shape, e.lo, v, w, e.v2) \in Exprs
      BY <1>0, <2>2, <2>3, ExprIn
    <2>7. n.v1 = v /\ n.fb = w /\ n.lo = e.lo
      BY <2>1 DEF Expr
    <2> QED BY <2>1, <2>2, <2>3, <2>4, <2>5, <2>6, <2>7 DEF Storable
  <1>4. CASE /\ ~(e.shape = "call" /\ isWideningNumericCast(t, e.type))
             /\ ~(e.shape = "ternary" /\ t \in Numeric)
    <2>1. n = applyImplicitNumericCast(t, e)
      BY <1>4 DEF initialiser
    <2> QED BY <1>0, <2>1, ImplicitCastStorable
  <1> QED BY <1>1, <1>2, <1>3, <1>4

LEMMA StoredV1 ==
  ASSUME NEW local \in BOOLEAN, NEW e \in Exprs, NEW t \in Types, Storable(t, e, local),
         NEW assigned \in BOOLEAN, NEW v,
         v = stored(IF local THEN fastScalarKindFromType(t) ELSE "Object", e.v1, assigned)
  PROVE  v \in Values /\ Fits(t, v) /\ Numbers(t, v)
  <1>1. e.v1 \in Values
    BY DEF Exprs
  <1>2. v \in Values
    BY <1>1 DEF stored, converted, Values, Val, Kinds, Departures, Numeric
  <1>3. CASE Missing(e.v1)
    <2>1. v.k = "none" \/ "failed" \in v.from
      BY <1>3 DEF stored, Val
    <2> QED BY <1>2, <2>1 DEF Fits, FitsBut, Numbers, Missing
  <1>4. CASE ~Missing(e.v1) /\ local
    <2>1. v = converted(fastScalarKindFromType(t), e.v1)
      BY <1>4 DEF stored
    <2>2. CASE Stores(t, e.v1)
      <3>1. v = Val(t, e.v1.from)
        BY <2>1, <2>2 DEF converted, Stores, fastScalarKindFromType
      <3>2. v.k = t /\ t \in Numeric
        BY <2>2, <3>1 DEF Stores, Val
      <3> QED BY <1>2, <3>2 DEF Fits, FitsBut, Numbers, IsNumber
    <2>3. CASE ~Stores(t, e.v1)
      <3>1. v = e.v1
        BY <2>1, <2>3 DEF converted, Stores, fastScalarKindFromType, Numeric
      <3> QED BY <1>2, <2>3, <3>1 DEF Storable
    <2> QED BY <2>2, <2>3
  <1>5. CASE ~Missing(e.v1) /\ ~local
    <2>1. v = e.v1
      BY <1>5 DEF stored, converted, Numeric
    <2> QED BY <1>2, <1>5, <2>1 DEF Storable
  <1> QED BY <1>3, <1>4, <1>5

\* A fallback statement stores over V2's slot what V1 stores.
LEMMA StoredFallback ==
  ASSUME NEW local \in BOOLEAN, NEW e \in Exprs, NEW t \in Types, Storable(t, e, local), NEW assigned \in BOOLEAN,
         NEW kind \in FastKinds, NEW v, NEW fb, NEW w,
         v = stored(IF local THEN fastScalarKindFromType(t) ELSE "Object", e.v1, assigned),
         fb = stored(kind, e.fb, assigned),
         w = Val(fb.k, fb.from \cup rekinded(kind, fastScalarKindFromType(t)))
  PROVE  w \in Values /\ Slot(t, v, w)
  <1>1. e.v1 \in Values /\ e.fb \in Values
    BY DEF Exprs
  <1>2. fb \in Values
    BY <1>1 DEF stored, converted, Values, Val, Kinds, Departures, Numeric
  <1>3. w \in Values /\ w.k = fb.k /\ fb.from \subseteq w.from
    BY <1>2 DEF rekinded, Values, Val, Departures
  <1>4. Fits(t, v) /\ Numbers(t, v)
    BY StoredV1
  <1>5. ASSUME w.from = {}
        PROVE  /\ kind = fastScalarKindFromType(t) /\ e.fb.from = {}
               /\ Missing(e.fb) => ~assigned /\ fb.k = "none"
               /\ ~Missing(e.fb) => fb.k = IF IsNumber(e.fb) /\ t \in Numeric THEN t ELSE e.fb.k
    <2>1. kind = fastScalarKindFromType(t) /\ fb.from = {}
      BY <1>5, <1>3 DEF rekinded, Val
    <2> QED BY <2>1, <1>1 DEF stored, converted, Val, Values, fastScalarKindFromType, Numeric
  <1>6. Follows(v, w)
    <2> SUFFICES ASSUME w.from = {}
                 PROVE  Excused(v) \/ (v.from = {} /\ Alike(v, w))
      BY DEF Follows, Excused
    <2>1. Excused(e.v1) \/ (e.v1.from = {} /\ Alike(e.v1, e.fb))
      BY <1>5 DEF Storable, Follows, Excused
    <2>2. CASE Excused(e.v1)
      BY <2>2 DEF stored, converted, Val, Excused
    <2>3. CASE e.v1.from = {} /\ Missing(e.v1) /\ Missing(e.fb)
      BY <2>3, <1>3, <1>5 DEF stored, Val, Alike, Missing
    <2>4. CASE e.v1.from = {} /\ ~Missing(e.v1) /\ ~Missing(e.fb) /\ e.v1.k = e.fb.k
      <3>1. /\ v.from = {}
            /\ v.k = IF local /\ IsNumber(e.v1) /\ t \in Numeric THEN t ELSE e.v1.k
        BY <2>4 DEF stored, converted, Val, fastScalarKindFromType, Numeric
      <3>2. ~local /\ t \in Numeric => e.v1.k = t
        BY <2>4 DEF Storable, Fits, FitsBut, Numeric
      <3>3. v.k = IF IsNumber(e.v1) /\ t \in Numeric THEN t ELSE e.v1.k
        BY <3>1, <3>2
      <3> QED BY <2>4, <3>1, <3>3, <1>3, <1>5 DEF Alike, IsNumber
    <2> QED BY <2>1, <2>2, <2>3, <2>4 DEF Alike, Missing
  <1>7. Fits2(t, w)
    BY <1>3, <1>5 DEF Fits2, Storable, Stores, Missing
  <1>8. w.k # "error"
    <2>1. fb.k # "error"
      BY DEF stored, converted, Missing, Val, Numeric
    <2> QED BY <1>3, <2>1
  <1> QED BY <1>3, <1>4, <1>6, <1>7, <1>8 DEF Slot

\* A register stores what V1 stores: the fused instruction with its own kind,
\* a move with the slot's.
LEMMA StoredRegister ==
  ASSUME NEW local \in BOOLEAN, NEW e \in Exprs, NEW t \in Types, Storable(t, e, local), e.lo.ok, ~Stops(e.v2),
         NEW assigned \in BOOLEAN, NEW kind \in FastKinds, NEW v, NEW w,
         v = stored(IF local THEN fastScalarKindFromType(t) ELSE "Object", e.v1, assigned),
         \/ /\ e.lo.fused
            /\ w = Val(e.v2.k, e.v2.from \cup rekinded(e.lo.kind, fastScalarKindFromType(t)))
         \/ w = Val(converted(kind, e.v2).k, e.v2.from \cup rekinded(kind, fastScalarKindFromType(t)))
  PROVE  w \in Values /\ Slot(t, v, w)
  <1>1. e.v1 \in Values /\ e.v2 \in RegisterValues /\ e.v2.k \in Kinds
    BY DEF Exprs, RegisterValues, Stops
  <1>2. w \in Values /\ e.v2.from \subseteq w.from
    <2>1. e.v2.from \subseteq Departures /\ \A s, d : rekinded(s, d) \subseteq Departures
      BY <1>1 DEF rekinded, RegisterValues, Departures
    <2>2. converted(kind, e.v2).k \in Kinds
      BY <1>1 DEF converted, Val, Kinds
    <2>3. \E k \in Kinds : \E s, d : w = Val(k, e.v2.from \cup rekinded(s, d))
      BY <1>1, <2>2
    <2> QED BY <2>1, <2>3 DEF Val, Values
  <1>3. Fits(t, v) /\ Numbers(t, v)
    BY StoredV1
  <1>4. Follows(e.v1, e.v2) /\ (Fits2(t, e.v2) \/ Stores(t, e.v2))
    BY DEF Storable
  <1>5. ASSUME w.from = {}
        PROVE  /\ e.v2.from = {}
               /\ w.k = IF IsNumber(e.v2) /\ t \in Numeric THEN t ELSE e.v2.k
    <2>1. CASE /\ e.lo.fused
               /\ w = Val(e.v2.k, e.v2.from \cup rekinded(e.lo.kind, fastScalarKindFromType(t)))
      <3>1. e.lo.kind = t /\ t \in Numeric /\ e.v2.from = {} /\ w.k = e.v2.k
        BY <1>5, <2>1 DEF rekinded, Val, fastScalarKindFromType, Storable, Numeric
      <3>2. e.v2.k = t \/ Missing(e.v2)
        BY <2>1, <3>1 DEF Storable
      <3> QED BY <3>1, <3>2 DEF Missing, IsNumber, Numeric
    <2>2. CASE w = Val(converted(kind, e.v2).k, e.v2.from \cup rekinded(kind, fastScalarKindFromType(t)))
      BY <1>5, <2>2 DEF rekinded, Val, fastScalarKindFromType, converted, Numeric
    <2> QED BY <2>1, <2>2
  <1>6. Follows(v, w)
    <2> SUFFICES ASSUME w.from = {}
                 PROVE  Excused(v) \/ (v.from = {} /\ Alike(v, w))
      BY DEF Follows, Excused
    <2>1. Excused(e.v1) \/ (e.v1.from = {} /\ Alike(e.v1, e.v2))
      BY <1>4, <1>5 DEF Follows, Excused
    <2>2. CASE Excused(e.v1)
      BY <2>2 DEF stored, converted, Val, Excused
    <2>3. CASE e.v1.from = {} /\ Missing(e.v1) /\ Missing(e.v2)
      <3>1. w.k = e.v2.k
        BY <2>3, <1>5 DEF Missing, IsNumber, Numeric
      <3> QED BY <2>3, <3>1 DEF stored, Val, Alike, Excused, Missing
    <2>4. CASE e.v1.from = {} /\ ~Missing(e.v1) /\ e.v1.k = e.v2.k
      <3>1. /\ v.from = {}
            /\ v.k = IF local /\ IsNumber(e.v1) /\ t \in Numeric THEN t ELSE e.v1.k
        BY <2>4 DEF stored, converted, Val, fastScalarKindFromType, Numeric
      <3>2. ~local /\ t \in Numeric => e.v1.k = t
        BY <2>4 DEF Storable, Fits, FitsBut, Numeric
      <3>3. v.k = IF IsNumber(e.v1) /\ t \in Numeric THEN t ELSE e.v1.k
        BY <3>1, <3>2
      <3> QED BY <2>4, <3>1, <3>3, <1>5 DEF Alike, IsNumber
    <2> QED BY <2>1, <2>2, <2>3, <2>4 DEF Alike, Missing
  <1>7. Fits2(t, w)
    BY <1>4, <1>5 DEF Fits2, Stores, Missing, IsNumber, Numeric
  <1>8. w.k # "error"
    <2>1. e.v2.k # "error"
      BY DEF Storable
    <2> QED BY <2>1 DEF converted, Val, Numeric
  <1> QED BY <1>2, <1>3, <1>6, <1>7, <1>8 DEF Slot

-----------------------------------------------------------------------------
(* Steps that preserve the invariant. *)

LEMMA PushStep ==
  ASSUME IInv, UNCHANGED <<where, env1, env2, kind2, blob, loops, end1, end2>>,
         steps' = steps + 1,
         stack' \in Seq(Exprs), \A i \in 1..Len(stack') : Entry(stack'[i])
  PROVE  IInv'
  <1>2. TypeOK'
    BY DEF IInv, TypeOK
  <1>3. StackFits'
    BY DEF StackFits
  <1>4. ElementsFit' /\ EndExplained' /\ ErrorMet' /\ ReturnFits'
    BY DEF IInv, ElementsFit, EndExplained, ErrorMet, ReturnFits
  <1>5. SlotsFit' = SlotsFit /\ Going' = Going
    BY DEF SlotsFit, Going
  <1> QED BY <1>2, <1>3, <1>4, <1>5 DEF IInv

\* A statement that stores nothing.
LEMMA StatementStep ==
  ASSUME IInv, UNCHANGED <<where, env1, env2, kind2>>, steps' = steps + 1, stack' = <<>>,
         blob' \in Nat, loops' \in Nat, end1' \in Ends, end2' \in Ends,
         EndExplained', ErrorMet', ReturnFits', Going' => Going
  PROVE  IInv'
  <1>2. TypeOK'
    BY DEF IInv, TypeOK
  <1>3. StackFits'
    BY DEF StackFits
  <1>4. ElementsFit'
    BY DEF IInv, ElementsFit
  <1>5. SlotsFit' = SlotsFit
    BY DEF SlotsFit
  <1> QED BY <1>2, <1>3, <1>4, <1>5 DEF IInv

\* A statement that stores v and w to slot x, of type t.
LEMMA SlotStep ==
  ASSUME IInv, UNCHANGED <<where, blob, loops>>, Running, steps' = steps + 1, stack' = <<>>,
         kind2' \in [Names -> FastKinds], end1' \in Ends, end1'.how # "returned",
         end2' \in Ends, EndExplained', ErrorMet',
         NEW x \in Names \cup Arrays, NEW v \in Values, NEW w \in Values,
         env1' = [env1 EXCEPT ![x] = v], env2' = [env2 EXCEPT ![x] = w],
         x \in Names => (Going' => Slot(TypeOf[x], v, w)),
         x \in Arrays => /\ v.k = ElementOf[x] /\ w.k = ElementOf[x]
                         /\ Going' => Slot(ElementOf[x], v, w)
  PROVE  IInv'
  <1>2. /\ env1 \in [Names \cup Arrays -> Values] /\ env2 \in [Names \cup Arrays -> Values]
        /\ Names \cap Arrays = {}
    BY TypesAssumption DEF IInv, TypeOK
  <1>3. /\ env1' \in [Names \cup Arrays -> Values] /\ env2' \in [Names \cup Arrays -> Values]
        /\ env1'[x] = v /\ env2'[x] = w
        /\ \A y \in (Names \cup Arrays) \ {x} : env1'[y] = env1[y] /\ env2'[y] = env2[y]
    BY <1>2
  <1>4. TypeOK'
    BY <1>3 DEF IInv, TypeOK
  <1>5. StackFits'
    BY DEF StackFits
  <1>6. ElementsFit'
    <2> SUFFICES ASSUME NEW a \in Arrays
                 PROVE  env1'[a].k = ElementOf[a] /\ env2'[a].k = ElementOf[a]
      BY DEF ElementsFit
    <2> QED BY <1>3 DEF IInv, ElementsFit
  <1>7. Going
    BY DEF Running, Going
  <1>8. SlotsFit
    BY <1>7 DEF IInv
  <1>9. ASSUME Going'
        PROVE  SlotsFit'
    <2>1. ASSUME NEW y \in Names
          PROVE  Slot(TypeOf[y], env1'[y], env2'[y])
      BY <1>3, <1>8, <1>9 DEF SlotsFit
    <2>2. ASSUME NEW a \in Arrays
          PROVE  Slot(ElementOf[a], env1'[a], env2'[a])
      BY <1>3, <1>8, <1>9 DEF SlotsFit
    <2> QED BY <2>1, <2>2 DEF SlotsFit
  <1>10. ReturnFits'
    BY DEF ReturnFits
  <1> QED BY <1>4, <1>5, <1>6, <1>9, <1>10 DEF IInv

\* An error met in a fallback statement is explained by V1's value.
LEMMA FallbackEnd ==
  ASSUME IInv, Running,
         NEW fb \in Values, NEW at \in Values, afterFallback(fb, at),
         fb.k = "error" => Explains(at, fb)
  PROVE  /\ end2' \in Ends /\ EndExplained'
         /\ end2'.how # "running" \/ end2' = end2
         /\ fb.k = "error" => end2'.how # "running"
  <1>1. CASE fb.k # "error"
    <2>1. end2' = end2
      BY <1>1 DEF afterFallback
    <2>2. end1.how # "asserted"
      BY DEF Running, Underway
    <2> QED BY <1>1, <2>1, <2>2 DEF IInv, TypeOK, EndExplained
  <1>2. CASE fb.k = "error"
    <2>1. /\ end2' = Ended(end2'.how, fb, at) /\ end2'.how \in {"stopped", "pending"}
          /\ end2'.v = fb /\ end2'.at = at
      BY <1>2 DEF afterFallback, Ended
    <2>2. end2' \in Ends
      BY <2>1, ValuesAreRegisterValues DEF Ended, Ends
    <2> QED BY <1>2, <2>1, <2>2 DEF EndExplained
  <1> QED BY <1>1, <1>2

\* An error V1 has met is one V2 has met, save for a departure.
LEMMA StatementEnd ==
  ASSUME IInv, Running,
         NEW v1 \in Values, NEW from \in SUBSET Departures, afterStatement(v1, from),
         end2'.how # "running" \/ end2' = end2,
         v1.k = "error" => end2'.how # "running" \/ v1.from \cup from # {}
  PROVE  end1' \in Ends /\ end1'.how # "returned" /\ ErrorMet'
  <1>1. end1.how \in Underway /\ end1 \in Ends /\ ErrorMet
    BY DEF Running, IInv, TypeOK
  <1>2. CASE end1' = end1
    BY <1>1, <1>2 DEF ErrorMet, Underway
  <1>3. CASE v1.k = "error" /\ end1' # end1
    <2>1. /\ end1'.how \in {"stopped", "pending"} /\ end1'.v = v1 /\ end1'.at = Val("none", from)
          /\ end1' = Ended(end1'.how, v1, Val("none", from))
      BY <1>3 DEF afterStatement, Ended
    <2>2. Val("none", from) \in Values /\ Val("none", from).from = from
      BY DEF Val, Values, Kinds
    <2>3. end1' \in Ends
      BY <2>1, <2>2, ValuesAreRegisterValues DEF Ended, Ends
    <2> QED BY <1>3, <2>1, <2>2, <2>3 DEF ErrorMet
  <1> QED BY <1>2, <1>3 DEF afterStatement

LEMMA StoreStep ==
  ASSUME IInv, Running, NEW x \in Names, NEW e \in Exprs,
         Storable(TypeOf[x], e, where = "function"),
         NEW assigned \in BOOLEAN, Store(x, e, assigned)
  PROVE  IInv'
  <1> DEFINE t == TypeOf[x]
             local == where = "function"
             declared == fastScalarKindFromType(t)
             v == stored(IF local THEN declared ELSE "Object", e.v1, assigned)
             fb == stored(kind2[x], e.fb, assigned)
             from == IF inRegisters(e) THEN e.v2.from ELSE e.fb.from
  <1>1. /\ t \in Types /\ kind2[x] \in FastKinds /\ local \in BOOLEAN
        /\ kind2 \in [Names -> FastKinds] /\ env2 \in [Names \cup Arrays -> Values]
        /\ end2 \in Ends /\ EndExplained
        /\ e.v1 \in Values /\ e.fb \in Values /\ e.v2 \in RegisterValues /\ e.lo.kind \in FastKinds
        /\ x \notin Arrays
    BY TypesAssumption DEF Types, IInv, TypeOK, Exprs, Lowerings
  <1>2. v \in Values
    BY <1>1, StoredV1
  <1>3. /\ env1' = [env1 EXCEPT ![x] = v]
        /\ afterStatement(e.v1, from)
        /\ UNCHANGED <<where, blob, loops>> /\ steps' = steps + 1 /\ stack' = <<>>
    BY DEF Store
  <1>4. from \in SUBSET Departures
    BY <1>1 DEF Values, RegisterValues
  <1>a. end1.how # "asserted"
    BY DEF Running, Underway
  <1>5. CASE ~inRegisters(e)
    <2> DEFINE w == Val(fb.k, fb.from \cup rekinded(kind2[x], declared))
    <2>1. env2' = [env2 EXCEPT ![x] = w] /\ afterFallback(e.fb, e.v1) /\ UNCHANGED kind2
      BY <1>5 DEF Store
    <2>2. w \in Values /\ Slot(t, v, w)
      BY <1>1, <1>5, StoredFallback
    <2>3. Follows(e.v1, e.fb)
      BY DEF Storable
    <2>a. e.fb.k = "error" => Explains(e.v1, e.fb)
      BY <2>3 DEF Follows, Explains, Alike, Missing
    <2>b. e.v1.k = "error" => e.fb.k = "error" \/ e.v1.from \cup e.fb.from # {}
      BY <2>3 DEF Follows, Excused, Alike
    <2>4. /\ end2' \in Ends /\ EndExplained'
          /\ end2'.how # "running" \/ end2' = end2
          /\ e.fb.k = "error" => end2'.how # "running"
      BY <1>1, <2>1, <2>a, FallbackEnd
    <2>5. from = e.fb.from
      BY <1>5
    <2> HIDE DEF v, w, t, from
    <2>6. end1' \in Ends /\ end1'.how # "returned" /\ ErrorMet'
      BY <1>1, <1>3, <1>4, <2>b, <2>4, <2>5, StatementEnd
    <2> QED BY <1>1, <1>2, <1>3, <2>1, <2>2, <2>4, <2>6, SlotStep DEF t
  <1>6. CASE inRegisters(e) /\ Stops(e.v2)
    <2>1. end2' = Ended("stopped", e.v2, e.v1) /\ UNCHANGED <<env2, kind2>>
      BY <1>6 DEF Store
    <2>2. /\ end2' \in Ends /\ ~Going' /\ end2'.how # "running"
      BY <1>1, <2>1 DEF Ended, Ends, Going, Underway
    <2>3. Explains(e.v1, e.v2)
      BY <1>6 DEF Storable, inRegisters
    <2>4. EndExplained'
      BY <2>1, <2>3 DEF EndExplained, Ended
    <2> HIDE DEF v, t, from
    <2>5. env2[x] \in Values /\ env2' = [env2 EXCEPT ![x] = env2[x]]
      BY <1>1, <2>1
    <2>6. end1' \in Ends /\ end1'.how # "returned" /\ ErrorMet'
      BY <1>1, <1>3, <1>4, <2>2, StatementEnd
    <2> QED BY <1>1, <1>2, <1>3, <2>1, <2>2, <2>4, <2>5, <2>6, SlotStep DEF t
  <1>7. CASE inRegisters(e) /\ ~Stops(e.v2)
    <2> DEFINE w == IF e.lo.fused
                      THEN Val(e.v2.k, e.v2.from \cup rekinded(e.lo.kind, declared))
                      ELSE Val(converted(kind2[x], e.v2).k,
                               e.v2.from \cup rekinded(kind2[x], declared))
    <2>1. /\ env2' = [env2 EXCEPT ![x] = w] /\ UNCHANGED end2 /\ e.lo.ok
          /\ kind2' = kind2 \/ kind2' = [kind2 EXCEPT ![x] = e.lo.kind]
      BY <1>7 DEF Store, inRegisters
    <2>2. w \in Values /\ Slot(t, v, w)
      BY <1>1, <1>7, <2>1, StoredRegister
    <2>3. EndExplained'
      BY <1>1, <1>a, <2>1 DEF EndExplained
    <2>4. kind2' \in [Names -> FastKinds]
      BY <1>1, <2>1
    <2>5. e.v1.k = "error" => e.v1.from \cup from # {}
      <3>1. Follows(e.v1, e.v2) /\ e.v2.k # "error" /\ from = e.v2.from
        BY <1>7, <2>1 DEF Storable
      <3> QED BY <3>1 DEF Follows, Excused, Alike
    <2> HIDE DEF v, w, t, from
    <2>6. end1' \in Ends /\ end1'.how # "returned" /\ ErrorMet'
      BY <1>1, <1>3, <1>4, <2>1, <2>5, StatementEnd
    <2> QED BY <1>1, <1>2, <1>3, <2>1, <2>2, <2>3, <2>4, <2>6, SlotStep DEF t
  <1> QED BY <1>1, <1>5, <1>6, <1>7

LEMMA TopEntry ==
  ASSUME IInv, stack # <<>>
  PROVE  Len(stack) \in Nat \ {0} /\ Top \in Exprs /\ Entry(Top)
  <1>1. stack \in Seq(Exprs)
    BY DEF IInv, TypeOK
  <1>2. Len(stack) \in Nat \ {0}
    BY <1>1, EmptySeq
  <1> QED BY <1>1, <1>2 DEF IInv, StackFits, Top

LEMMA PushEntry ==
  ASSUME IInv, NEW e, e \in Exprs /\ Entry(e), Pushing, stack' = Append(stack, e)
  PROVE  IInv'
  <1>1. stack \in Seq(Exprs) /\ Len(stack) \in Nat
    BY DEF IInv, TypeOK
  <1>2. /\ stack' \in Seq(Exprs) /\ Len(stack') = Len(stack) + 1
        /\ \A i \in 1..Len(stack) : stack'[i] = stack[i]
        /\ stack'[Len(stack) + 1] = e
    BY <1>1, AppendProperties
  <1>3. ASSUME NEW i \in 1..Len(stack')
        PROVE  Entry(stack'[i])
    <2>1. i \in 1..Len(stack) \/ i = Len(stack) + 1
      BY <1>1, <1>2
    <2> QED BY <2>1, <1>2 DEF IInv, StackFits
  <1> QED BY <1>2, <1>3, PushStep DEF Pushing, Building

LEMMA ReplaceEntry ==
  ASSUME IInv, NEW n \in Nat, n <= Len(stack), NEW e, e \in Exprs /\ Entry(e),
         Replace(n, e)
  PROVE  IInv'
  <1> DEFINE below == SubSeq(stack, 1, Len(stack) - n)
  <1>1. stack \in Seq(Exprs) /\ Len(stack) \in Nat
    BY DEF IInv, TypeOK
  <1>2. /\ below \in Seq(Exprs) /\ Len(below) = Len(stack) - n
        /\ \A i \in 1..(Len(stack) - n) : below[i] = stack[i]
    <2>1. Len(stack) - n \in Int /\ Len(stack) - n <= Len(stack) /\ Len(stack) - n >= 0
      BY <1>1
    <2> QED BY <1>1, <2>1, SubSeqProperties
  <1>3. stack' = Append(below, e)
    BY DEF Replace, Below
  <1> HIDE DEF below
  <1>4. /\ stack' \in Seq(Exprs) /\ Len(stack') = Len(stack) - n + 1
        /\ \A i \in 1..(Len(stack) - n) : stack'[i] = stack[i]
        /\ stack'[Len(stack) - n + 1] = e
    BY <1>2, <1>3, AppendProperties
  <1>5. ASSUME NEW i \in 1..Len(stack')
        PROVE  Entry(stack'[i])
    <2>1. i \in 1..(Len(stack) - n) \/ i = Len(stack) - n + 1
      <3> DEFINE m == Len(stack) - n
      <3>1. m \in Nat /\ Len(stack') = m + 1
        BY <1>1, <1>4
      <3> HIDE DEF m
      <3>2. i \in 1..m \/ i = m + 1
        BY <3>1
      <3> QED BY <3>2 DEF m
    <2>2. i \in 1..(Len(stack) - n) => i \in 1..Len(stack)
      BY <1>1
    <2> QED BY <2>1, <2>2, <1>4 DEF IInv, StackFits
  <1> QED BY <1>4, <1>5, PushStep DEF Replace, Building

LEMMA LiteralStep ==
  ASSUME IInv, NEW t \in {"Int", "Bool", "Float"}, Literal(t)
  PROVE  IInv'
  BY LiteralEntry, PushEntry DEF Literal

LEMMA NameStep ==
  ASSUME IInv, NEW x \in Names, Name(x)
  PROVE  IInv'
  <1>1. env1[x] \in Values /\ env2[x] \in Values
    BY DEF IInv, TypeOK
  <1>2. Slot(TypeOf[x], env1[x], env2[x])
    BY DEF IInv, SlotsFit, Name, Pushing, Running, Going
  <1>3. VarNode(x) \in Exprs /\ Entry(VarNode(x))
    BY <1>1, <1>2, NameEntry
  <1> QED BY <1>3, PushEntry DEF Name

LEMMA CallStep ==
  ASSUME IInv, NEW f \in DOMAIN Returns, NEW outcome \in {"value", "null", "fails", "errs"},
         Call(f, outcome)
  PROVE  IInv'
  BY CallEntry, PushEntry DEF Call

LEMMA UnaryStep ==
  ASSUME IInv, NEW op \in {"-", "!", "~", "await"}, NEW fails \in BOOLEAN, Unary(op, fails)
  PROVE  IInv'
  <1>1. Len(stack) \in Nat \ {0} /\ Top \in Exprs /\ Entry(Top)
    BY TopEntry DEF Unary
  <1>2. PICK f \in Lazy : Replace(1, UnaryNode(op, fails, f, Top))
    BY DEF Unary
  <1>3. UnaryNode(op, fails, f, Top) \in Exprs /\ Entry(UnaryNode(op, fails, f, Top))
    BY <1>1, UnaryEntry DEF Unary
  <1> QED BY <1>1, <1>2, <1>3, ReplaceEntry

LEMMA BinaryStep ==
  ASSUME IInv, NEW op \in Operators, NEW fails \in BOOLEAN, Binary(op, fails)
  PROVE  IInv'
  <1> DEFINE l == stack[Len(stack) - 1]
  <1>1. stack \in Seq(Exprs) /\ Len(stack) \in Nat /\ Len(stack) >= 2
    BY DEF Binary, IInv, TypeOK
  <1>2. Len(stack) \in 1..Len(stack) /\ Len(stack) - 1 \in 1..Len(stack)
    BY <1>1
  <1>3. Top \in Exprs /\ Entry(Top) /\ l \in Exprs /\ Entry(l)
    BY <1>1, <1>2 DEF IInv, StackFits, Top
  <1>4. inferBinaryResultType(op, l.type, Top.type) # "rejected"
        /\ Replace(2, BinaryNode(op, fails, l, Top))
    BY DEF Binary
  <1> HIDE DEF l
  <1>5. BinaryNode(op, fails, l, Top) \in Exprs /\ Entry(BinaryNode(op, fails, l, Top))
    BY <1>3, <1>4, BinaryEntry
  <1> QED BY <1>1, <1>4, <1>5, ReplaceEntry

LEMMA CastStep ==
  ASSUME IInv, NEW t \in Types, Cast(t)
  PROVE  IInv'
  <1>1. Len(stack) \in Nat \ {0} /\ Top \in Exprs /\ Entry(Top)
    BY TopEntry DEF Cast
  <1>2. CastNode(t, Top) \in Exprs /\ Entry(CastNode(t, Top))
    BY <1>1, CastEntry
  <1> QED BY <1>1, <1>2, ReplaceEntry DEF Cast

LEMMA SqrtStep ==
  ASSUME IInv, NEW negative \in BOOLEAN, Sqrt(negative)
  PROVE  IInv'
  <1>1. Len(stack) \in Nat \ {0} /\ Top \in Exprs /\ Entry(Top)
    BY TopEntry DEF Sqrt
  <1>2. SqrtNode(negative, Top) \in Exprs /\ Entry(SqrtNode(negative, Top))
    BY <1>1, SqrtEntry DEF Sqrt
  <1> QED BY <1>1, <1>2, ReplaceEntry DEF Sqrt

LEMMA IndexStep ==
  ASSUME IInv, NEW a \in Arrays, NEW outside \in BOOLEAN, Index(a, outside)
  PROVE  IInv'
  <1>1. Len(stack) \in Nat \ {0} /\ Top \in Exprs /\ Entry(Top)
    BY TopEntry DEF Index
  <1>2. env1[a] \in Values /\ env2[a] \in Values
    BY DEF IInv, TypeOK
  <1>3. Slot(ElementOf[a], env1[a], env2[a])
    BY DEF IInv, SlotsFit, Index, Replace, Running, Going
  <1>4. IndexNode(a, outside, Top) \in Exprs /\ Entry(IndexNode(a, outside, Top))
    BY <1>1, <1>2, <1>3, IndexEntry
  <1> QED BY <1>1, <1>4, ReplaceEntry DEF Index

LEMMA TernaryStep ==
  ASSUME IInv, NEW first \in BOOLEAN, Ternary(first)
  PROVE  IInv'
  <1> DEFINE c == stack[Len(stack) - 2]
             t == stack[Len(stack) - 1]
  <1>1. stack \in Seq(Exprs) /\ Len(stack) \in Nat /\ Len(stack) >= 3
    BY DEF Ternary, IInv, TypeOK
  <1>2. /\ Len(stack) \in 1..Len(stack) /\ Len(stack) - 1 \in 1..Len(stack)
        /\ Len(stack) - 2 \in 1..Len(stack)
    BY <1>1
  <1>3. /\ Top \in Exprs /\ Entry(Top) /\ t \in Exprs /\ Entry(t)
        /\ c \in Exprs /\ Entry(c)
    BY <1>1, <1>2 DEF IInv, StackFits, Top
  <1>4. /\ match(t.type, Top.type) \/ match(Top.type, t.type)
        /\ Replace(3, TernaryNode(c, first, t, Top))
    BY DEF Ternary
  <1> HIDE DEF c, t
  <1>5. /\ TernaryNode(c, first, t, Top) \in Exprs
        /\ Entry(TernaryNode(c, first, t, Top))
    BY <1>3, <1>4, TernaryEntry
  <1> QED BY <1>1, <1>4, <1>5, ReplaceEntry

LEMMA DeclareStep ==
  ASSUME IInv, NEW x \in Names, Declare(x)
  PROVE  IInv'
  <1>1. Top \in Exprs /\ Entry(Top) /\ Running
    BY TopEntry, EmptySeq DEF Declare, Consumes
  <1>2. TypeOf[x] \in Types
    BY TypesAssumption DEF Types
  <1>3. /\ initialiser(TypeOf[x], Top) \in Exprs
        /\ Storable(TypeOf[x], initialiser(TypeOf[x], Top), where = "function")
    BY <1>1, <1>2, InitialiserStorable DEF Declare
  <1>4. Store(x, initialiser(TypeOf[x], Top), FALSE)
    BY DEF Declare
  <1> QED BY <1>1, <1>3, <1>4, StoreStep

LEMMA AssignStep ==
  ASSUME IInv, NEW x \in Names, Assign(x)
  PROVE  IInv'
  <1>1. Top \in Exprs /\ Entry(Top) /\ Running
    BY TopEntry, EmptySeq DEF Assign, Consumes
  <1>2. TypeOf[x] \in Types
    BY TypesAssumption DEF Types
  <1>3. /\ applyImplicitNumericCast(TypeOf[x], Top) \in Exprs
        /\ Storable(TypeOf[x], applyImplicitNumericCast(TypeOf[x], Top), where = "function")
    BY <1>1, <1>2, ImplicitCastStorable DEF Assign
  <1>4. Store(x, applyImplicitNumericCast(TypeOf[x], Top), TRUE)
    BY DEF Assign
  <1> QED BY <1>1, <1>3, <1>4, StoreStep

\* A compound assignment's result needs no cast: a sum or a quotient that
\* matches is of the name's type, and V1 stores no Int to a Long.
LEMMA CompoundStorable ==
  ASSUME NEW local \in BOOLEAN, NEW l \in Exprs, NEW r \in Exprs, Entry(l), Entry(r),
         NEW op \in {"+", "/", "|"}, NEW fails \in BOOLEAN, NEW e, e = BinaryNode(op, fails, l, r),
         l.type \in Types, e.type # "rejected", match(l.type, e.type)
  PROVE  e \in Exprs /\ Storable(l.type, e, local)
  <1> DEFINE v == evalBinary(op, l.fast, r.fast, l.v1, r.v1, fails)
  <1>1. e.type = inferBinaryResultType(op, l.type, r.type) /\ e.v1 = v
    BY DEF BinaryNode, Expr
  <1>2. op \in Operators
    BY DEF Operators
  <1>3. e \in Exprs /\ Entry(e)
    BY <1>1, <1>2, BinaryEntry
  <1>4. /\ l.v1 \in Values /\ r.v1 \in Values /\ l.fast \in FastKinds /\ r.fast \in FastKinds
        /\ l.type \in Numeric \cup {"Bool", "Any", "Task"}
        /\ r.type \in Numeric \cup {"Bool", "Any", "Task"}
    BY DEF Exprs
  <1>5. CASE l.type = "Any" \/ e.type = l.type
    BY <1>3, <1>5, EntryStorable
  <1>6. CASE isWideningNumericCast(l.type, e.type)
    <2>1. l.type \in Numeric /\ e.type \in Numeric
      BY <1>6 DEF isWideningNumericCast, Numeric
    <2>2. CASE local
      BY <1>3, <2>1, <2>2, EntryStorable
    <2>3. CASE op \in {"+", "/"} /\ e.type = promotedFastKind(l.type, r.type) /\ r.type \in Numeric
      <3>1. match(l.type, promotedFastKind(l.type, r.type))
        BY <2>3
      <3>2. e.type = l.type
        BY <2>1, <2>3, <3>1, PromotedMatches
      <3> QED BY <1>3, <3>2, EntryStorable
    <2>4. CASE ~local /\ op = "|" /\ e.type = "Int" /\ isIntType(l.type)
      <3>1. l.type = "Long"
        BY <1>6, <2>4 DEF isWideningNumericCast, isIntType
      <3>2. v.from = l.v1.from \cup r.v1.from /\ (Missing(l.v1) => Missing(v))
        BY <1>2, <1>4, <2>4, BinaryFrom
      <3>3. v.k = "Int" => l.v1.k = "Int"
        BY <2>4, <1>4 DEF v, evalBinary, evalBinaryOperator, Val, Fails, Lacking, Missing
      <3>4. Missing(v) \/ v.k = "Int"
        BY <2>4, <1>4 DEF v, evalBinary, evalBinaryOperator, Val, Fails, Lacking, Missing
      <3>5. Fits("Long", l.v1)
        BY <3>1 DEF Entry
      <3> HIDE DEF v
      <3>6. Fits(l.type, v)
        BY <3>1, <3>2, <3>3, <3>4, <3>5 DEF Fits, FitsBut, Missing
      <3>7. Numbers(l.type, v)
        BY <3>4 DEF Numbers, IsNumber, Numeric
      <3>8. Fits2(l.type, e.fb) \/ Stores(l.type, e.fb)
        BY <1>3, <2>1 DEF Entry, Fits2, Stores, IsNumber, Numeric
      <3>9. ~e.lo.ok
        BY <2>4 DEF BinaryNode, Expr, lowerBinary, notLowered, Lo
      <3> QED BY <1>1, <1>3, <2>4, <3>6, <3>7, <3>8, <3>9 DEF Storable, Entry
    <2>5. \/ /\ op \in {"+", "/"} /\ r.type \in Numeric
             /\ e.type = promotedFastKind(l.type, r.type)
          \/ op = "|" /\ e.type = "Int" /\ isIntType(l.type)
      <3>1. inferBinaryResultType(op, l.type, r.type) # "rejected"
        BY <1>1
      <3> HIDE DEF v
      <3> QED BY <1>1, <1>2, <1>4, <2>1, <3>1, InferredTypes
    <2> QED BY <2>2, <2>3, <2>4, <2>5
  <1> QED BY <1>5, <1>6 DEF match

LEMMA CompoundStep ==
  ASSUME IInv, NEW x \in Names, NEW op \in {"+", "/", "|"}, NEW fails \in BOOLEAN,
         Compound(x, op, fails)
  PROVE  IInv'
  <1> DEFINE l == VarNode(x)
             e == BinaryNode(op, fails, l, Top)
  <1>1. Top \in Exprs /\ Entry(Top) /\ Running
    BY TopEntry, EmptySeq DEF Compound, Consumes
  <1>2. TypeOf[x] \in Types
    BY TypesAssumption DEF Types
  <1>3. env1[x] \in Values /\ env2[x] \in Values /\ Slot(TypeOf[x], env1[x], env2[x])
    BY <1>1 DEF IInv, TypeOK, SlotsFit, Running, Going
  <1>4. l \in Exprs /\ Entry(l)
    BY <1>1, <1>3, NameEntry
  <1>5. l.type = TypeOf[x]
    BY DEF VarNode, Expr
  <1>6. e.type # "rejected" /\ match(TypeOf[x], e.type) /\ Store(x, e, TRUE)
    BY DEF Compound
  <1> HIDE DEF l
  <1>7. e = BinaryNode(op, fails, l, Top)
    OBVIOUS
  <1> HIDE DEF e
  <1>8. e \in Exprs /\ Storable(TypeOf[x], e, where = "function")
    BY <1>1, <1>2, <1>4, <1>5, <1>6, <1>7, CompoundStorable
  <1> QED BY <1>1, <1>6, <1>8, StoreStep

LEMMA ReturnStep ==
  ASSUME IInv, Return
  PROVE  IInv'
  <1> DEFINE v == IF inRegisters(Top) THEN Top.v2 ELSE Top.fb
  <1>1. Top \in Exprs /\ Entry(Top) /\ Running
    <2>1. Consumes(1)
      BY DEF Return
    <2>2. stack # <<>> /\ Running
      BY <2>1, EmptySeq DEF Consumes
    <2> QED BY <2>1, <2>2, TopEntry
  <1>2. /\ Top.v1 \in Values /\ Top.v1 \in RegisterValues /\ v \in RegisterValues
        /\ blob \in Nat /\ loops \in Nat /\ end2 \in Ends
    BY <1>1, ValuesAreRegisterValues DEF Exprs, IInv, TypeOK
  <1>3. IF Stops(v) THEN Explains(Top.v1, v) ELSE Follows(Top.v1, v)
    <2>1. CASE inRegisters(Top)
      BY <1>1, <2>1 DEF inRegisters, Entry, RegisterFits
    <2>2. CASE ~inRegisters(Top)
      <3>1. Top.fb.k # "stop"
        BY <1>1 DEF Exprs, Values, Kinds, Numeric
      <3> QED BY <1>1, <2>2, <3>1 DEF Entry, Stops
    <2> QED BY <2>1, <2>2
  <1>4. end1' = Ended("returned", Top.v1, Top.v1)
    BY DEF Return
  <1>5. end2' = IF Stops(v) \/ v.k = "error" THEN Ended("stopped", v, Top.v1)
                ELSE IF end2.how = "pending" THEN Ended("stopped", end2.v, end2.at)
                ELSE Ended("returned", v, Top.v1)
    BY DEF Return
  <1> HIDE DEF v
  <1>6. end1' \in Ends /\ end2' \in Ends
    BY <1>2, <1>4, <1>5 DEF Ended, Ends
  <1>7. ~Going' /\ end1'.v = Top.v1 /\ end1'.how = "returned" /\ ErrorMet'
    BY <1>4, <1>5 DEF Going, Ended, Underway, ErrorMet
  <1>8. EndExplained'
    <2>1. CASE Stops(v) \/ v.k = "error"
      <3>1. Explains(Top.v1, v)
        BY <1>3, <2>1 DEF Explains, Excused, Follows, Alike, Missing
      <3> QED BY <1>5, <2>1, <3>1 DEF EndExplained, Ended
    <2>2. CASE ~(Stops(v) \/ v.k = "error") /\ end2.how = "pending"
      <3>1. Explains(end2.at, end2.v)
        BY <1>1, <2>2 DEF IInv, EndExplained, Running, Underway
      <3> QED BY <1>5, <2>2, <3>1 DEF EndExplained, Ended
    <2>3. CASE ~(Stops(v) \/ v.k = "error") /\ end2.how # "pending"
      BY <1>5, <2>3 DEF EndExplained, Ended
    <2> QED BY <2>1, <2>2, <2>3
  <1>9. ReturnFits'
    <2>1. end2'.how = "returned" => ~Stops(v) /\ end2'.v = v
      BY <1>5 DEF Ended
    <2> QED BY <1>3, <1>7, <2>1 DEF ReturnFits
  <1> QED BY <1>1, <1>2, <1>6, <1>7, <1>8, <1>9, StatementStep DEF Return

LEMMA ConditionStep ==
  ASSUME IInv, NEW lowered \in BOOLEAN, Condition(lowered), lowered => inRegisters(Top)
  PROVE  IInv'
  <1>1. Top \in Exprs /\ Entry(Top) /\ Running
    BY TopEntry, EmptySeq DEF Condition, Consumes
  <1>2. /\ Top.v1 \in Values /\ Top.v1 \in RegisterValues /\ Top.v2 \in RegisterValues
        /\ Top.fb \in Values /\ Top.fb \in RegisterValues
        /\ blob \in Nat /\ loops \in Nat /\ end1 \in Ends /\ end2 \in Ends
    BY <1>1, ValuesAreRegisterValues DEF Exprs, IInv, TypeOK
  <1>3. end1' = IF Top.v1.k = "Bool" THEN end1 ELSE Ended("asserted", Top.v1, Top.v1)
    BY DEF Condition
  <1>4. \/ end2' = end2
        \/ end2' = Ended("stopped", Top.v2, Top.v1) /\ lowered /\ Stops(Top.v2)
        \/ end2' = Ended("asserted", Top.fb, Top.v1) /\ Top.fb.k # "Bool"
    BY DEF Condition
  <1>5. end1' \in Ends /\ end2' \in Ends /\ blob' \in Nat /\ loops' \in Nat
    BY <1>2, <1>3, <1>4 DEF Ended, Ends, Condition
  <1>6. (end1' = end1 /\ Top.v1.k = "Bool") \/ end1'.how = "asserted"
    BY <1>3 DEF Ended
  <1>7. ErrorMet'
    <2>1. end2' = end2 \/ end2'.how # "running"
      BY <1>4 DEF Ended
    <2> QED BY <1>6, <2>1 DEF IInv, ErrorMet
  <1>8. EndExplained'
    <2>1. CASE end2' = end2
      BY <1>6, <2>1 DEF IInv, EndExplained
    <2>2. CASE end2' = Ended("stopped", Top.v2, Top.v1) /\ lowered /\ Stops(Top.v2)
      <3>1. Explains(Top.v1, Top.v2)
        BY <1>1, <2>2 DEF inRegisters, Entry, RegisterFits
      <3> QED BY <2>2, <3>1 DEF EndExplained, Ended
    <2>3. CASE end2' = Ended("asserted", Top.fb, Top.v1) /\ Top.fb.k # "Bool"
      <3>1. Top.v1.k = "Bool" => Explains(Top.v1, Top.fb)
        BY <1>1, <2>3 DEF Entry, Follows, Excused, Explains, Alike, Missing
      <3> QED BY <1>6, <2>3, <3>1 DEF EndExplained, Ended
    <2> QED BY <1>4, <2>1, <2>2, <2>3
  <1>9. ReturnFits' /\ (Going' => Going)
    BY <1>1, <1>6 DEF ReturnFits, Running, Going, Underway
  <1> QED BY <1>5, <1>7, <1>8, <1>9, StatementStep DEF Condition

LEMMA CloseBlockStep ==
  ASSUME IInv, CloseBlock
  PROVE  IInv'
  <1>1. Running /\ stack' = <<>>
    BY EmptySeq DEF CloseBlock, Consumes, IInv, TypeOK
  <1>2. blob' \in Nat /\ loops' \in Nat
    BY DEF CloseBlock, IInv, TypeOK
  <1>3. end2' = end2 \/ (end2' = Ended("stopped", end2.v, end2.at) /\ end2.how = "pending")
    BY DEF CloseBlock, atEnd
  <1>4. end1' = end1 \/ (end1' = Ended("stopped", end1.v, end1.at) /\ end1.how = "pending")
    BY DEF CloseBlock, atEnd
  <1>5. end1.how # "asserted" /\ end1.how # "returned" /\ end1 \in Ends /\ end2 \in Ends
    BY <1>1 DEF Running, Underway, IInv, TypeOK
  <1>6. end2' \in Ends /\ EndExplained'
    BY <1>3, <1>5 DEF IInv, Ended, Ends, EndExplained
  <1>7. end1' \in Ends /\ ReturnFits'
    BY <1>4, <1>5 DEF Ended, Ends, ReturnFits
  <1>8. ErrorMet'
    BY <1>3, <1>4 DEF IInv, Ended, ErrorMet
  <1>9. Going
    BY <1>1 DEF Running, Going
  <1> QED BY <1>1, <1>2, <1>6, <1>7, <1>8, <1>9, StatementStep DEF CloseBlock

LEMMA DiscardStep ==
  ASSUME IInv, Discard
  PROVE  IInv'
  <1>1. Top \in Exprs /\ Entry(Top) /\ Running
    BY TopEntry, EmptySeq DEF Discard, Consumes
  <1>2. Top.v1 \in Values /\ Top.fb \in Values
    BY <1>1 DEF Exprs
  <1>3. Follows(Top.v1, Top.fb)
    BY <1>1 DEF Entry
  <1>4. Top.fb.k = "error" => Explains(Top.v1, Top.fb)
    BY <1>3 DEF Follows, Explains, Alike, Missing
  <1>5. Top.v1.k = "error" => Top.fb.k = "error" \/ Top.v1.from \cup Top.fb.from # {}
    BY <1>3 DEF Follows, Excused, Alike
  <1>6. /\ end2' \in Ends /\ EndExplained'
        /\ end2'.how # "running" \/ end2' = end2
        /\ Top.fb.k = "error" => end2'.how # "running"
    BY <1>1, <1>2, <1>4, FallbackEnd DEF Discard
  <1>7. Top.fb.from \in SUBSET Departures /\ afterStatement(Top.v1, Top.fb.from)
    BY <1>2 DEF Values, Discard
  <1>8. end1' \in Ends /\ end1'.how # "returned" /\ ErrorMet'
    BY <1>1, <1>2, <1>5, <1>6, <1>7, StatementEnd
  <1>9. ReturnFits' /\ Going /\ blob' \in Nat /\ loops' \in Nat
    BY <1>1, <1>8 DEF ReturnFits, Running, Going, IInv, TypeOK, Discard
  <1> QED BY <1>6, <1>8, <1>9, StatementStep DEF Discard

-----------------------------------------------------------------------------
(* Elements of arrays. *)

LEMMA ElementsValue ==
  ASSUME NEW element \in Numeric, NEW elements \in Values, NEW index \in RegisterValues,
         NEW v \in RegisterValues, NEW outside \in BOOLEAN
  PROVE  /\ elementsAfter(element, elements, index, v, outside) \in Values
         /\ elementsAfter(element, elements, index, v, outside).k = element
  BY DEF elementsAfter, Val, Values, RegisterValues, Kinds, Departures

\* What is stored to an element in V2 follows on what V1 stores as far as the
\* element can tell: a number on a number.
Carries(elements, index, v, elements2, index2, w) ==
  elements2.from = {} /\ index2.from = {} /\ w.from = {} /\ IsNumber(w) =>
    \/ Excused(v) \/ Excused(index) \/ Excused(elements)
    \/ v.from = {} /\ IsNumber(v)

LEMMA ElementsFollow ==
  ASSUME NEW element \in Numeric, NEW outside \in BOOLEAN,
         NEW elements \in Values, NEW index \in Values, NEW v \in Values,
         NEW elements2 \in Values, NEW index2 \in RegisterValues, NEW w \in RegisterValues,
         Follows(elements, elements2), Follows(index, index2),
         Carries(elements, index, v, elements2, index2, w)
  PROVE  Follows(elementsAfter(element, elements, index, v, outside),
                 elementsAfter(element, elements2, index2, w, outside))
  <1> DEFINE x == elementsAfter(element, elements, index, v, outside)
             y == elementsAfter(element, elements2, index2, w, outside)
  <1>1. x.k = element /\ elements.from \cup index.from \cup v.from \subseteq x.from
    BY DEF elementsAfter, Val
  <1>2. y.k = element /\ elements2.from \cup index2.from \cup w.from \subseteq y.from
    BY DEF elementsAfter, Val
  <1> SUFFICES ASSUME y.from = {}
               PROVE  Excused(x) \/ (x.from = {} /\ Alike(x, y))
    BY DEF Follows, Excused
  <1>3. isIntType(index2.k) /\ ~outside /\ IsNumber(w)
    BY DEF elementsAfter, Val
  <1>4. elements2.from = {} /\ index2.from = {} /\ w.from = {}
    BY <1>2
  <1>5. CASE Excused(v) \/ Excused(index) \/ Excused(elements)
    BY <1>1, <1>5 DEF Excused
  <1>6. CASE ~(Excused(v) \/ Excused(index) \/ Excused(elements))
    <2>1. elements.from = {} /\ index.from = {} /\ Alike(index, index2) /\ v.from = {} /\ IsNumber(v)
      BY <1>3, <1>4, <1>6 DEF Follows, Excused, Carries
    <2>2. isIntType(index.k)
      BY <1>3, <2>1 DEF Alike, Missing, isIntType
    <2>3. x.from = {}
      BY <1>3, <2>1, <2>2 DEF elementsAfter, Val
    <2> QED BY <1>1, <1>2, <2>3 DEF Alike
  <1> QED BY <1>5, <1>6

\* A sum fails only when an operand does, and is a number when both are.
LEMMA Sums ==
  ASSUME NEW l \in Values, NEW r \in Values, NEW lf \in FastKinds, NEW rf \in FastKinds,
         NEW fails \in BOOLEAN, NEW s, s = evalBinary("+", lf, rf, l, r, fails)
  PROVE  /\ IsNumber(l) /\ IsNumber(r) => IsNumber(s)
         /\ s.k = "error" => l.k = "error" \/ r.k = "error"
         /\ s.from = l.from \cup r.from
  <1> DEFINE both == l.from \cup r.from
  <1>1. CASE Missing(l) \/ Missing(r)
    <2>1. s = Lacking({l, r}, both)
      BY <1>1, Promoted DEF evalBinary, evalTypedBinary, evalBinaryOperator, isFastNumericKind,
         FastKinds, Numeric
    <2>2. (s.k = "error" => l.k = "error" \/ r.k = "error") /\ s.from = both
      BY <2>1 DEF Lacking, Val
    <2>3. ~(IsNumber(l) /\ IsNumber(r))
      BY <1>1 DEF Missing, IsNumber, Numeric
    <2> QED BY <2>2, <2>3
  <1>2. CASE IsNumber(l) /\ IsNumber(r)
    <2>1. ~Missing(l) /\ ~Missing(r)
      BY <1>2 DEF Missing, IsNumber, Numeric
    <2>2. CASE lf \in Numeric /\ rf \in Numeric
      <3>1. s = Val(promotedFastKind(lf, rf), both)
        BY <1>2, <2>1, <2>2 DEF evalBinary, evalTypedBinary, isFastNumericKind, Numeric
      <3>2. promotedFastKind(lf, rf) \in Numeric
        BY <2>2, Promoted
      <3> QED BY <3>1, <3>2 DEF Val, IsNumber, Numeric
    <2>3. CASE ~(lf \in Numeric /\ rf \in Numeric)
      <3>1. s = evalBinaryOperator("+", l, r, fails)
        BY <2>3 DEF evalBinary, isFastNumericKind, FastKinds
      <3>2. s = Val(promotedFastKind(l.k, r.k), both)
        BY <1>2, <2>1, <3>1 DEF evalBinaryOperator
      <3>3. promotedFastKind(l.k, r.k) \in Numeric
        BY <1>2, Promoted DEF IsNumber, FastKinds
      <3> QED BY <3>2, <3>3 DEF Val, IsNumber, Numeric
    <2> QED BY <2>2, <2>3
  <1>3. CASE ~Missing(l) /\ ~Missing(r) /\ ~(IsNumber(l) /\ IsNumber(r))
    <2>1. s = Fails(both)
      BY <1>3 DEF evalBinary, evalTypedBinary, evalBinaryOperator
    <2> QED BY <1>3, <2>1 DEF Fails, Val
  <1> QED BY <1>1, <1>2, <1>3

IsError(v) == v.k = "error"

LEMMA UpdatedValue ==
  ASSUME NEW op \in {"=", "+"}, NEW element \in Numeric, NEW elements \in Values,
         NEW index \in Values, NEW fast \in FastKinds, NEW v \in Values, NEW outside \in BOOLEAN
  PROVE  /\ updated(op, element, elements, index, fast, v, outside) \in Values
         /\ IsError(updated(op, element, elements, index, fast, v, outside)) =>
              IsError(index) \/ IsError(v)
  <1> DEFINE g == evalTypedIndexGet(element, elements, index, outside)
             s == evalBinary("+", element, fast, g, v, FALSE)
  <1>1. g \in Values
    BY IndexValue
  <1>2. g.k = "error" => index.k = "error"
    BY DEF evalTypedIndexGet, Val, Fails, Lacking, Numeric
  <1> HIDE DEF g
  <1>3. "+" \in Operators /\ element \in FastKinds
    BY DEF Operators, FastKinds
  <1>4. s \in Values
    BY <1>1, <1>3, BinaryValue
  <1>5. updated(op, element, elements, index, fast, v, outside) = IF op = "=" THEN v ELSE s
    BY DEF updated, g
  <1>6. ASSUME NEW fails \in BOOLEAN
        PROVE  LET sum == evalBinary("+", element, fast, g, v, fails)
               IN  sum.k = "error" => g.k = "error" \/ v.k = "error"
    BY <1>1, <1>3, Sums
  <1>7. s.k = "error" => g.k = "error" \/ v.k = "error"
    BY <1>6
  <1> HIDE DEF s
  <1> QED BY <1>2, <1>4, <1>5, <1>7 DEF IsError

LEMMA UpdatedFollows ==
  ASSUME NEW op \in {"=", "+"}, NEW element \in Numeric, NEW fast \in FastKinds,
         NEW outside \in BOOLEAN,
         NEW elements \in Values, NEW index \in Values, NEW v \in Values,
         NEW elements2 \in Values, NEW index2 \in Values, NEW w \in Values,
         Follows(elements, elements2), Follows(index, index2), Follows(v, w)
  PROVE  Follows(updated(op, element, elements, index, fast, v, outside),
                 updated(op, element, elements2, index2, fast, w, outside))
  <1> DEFINE g == evalTypedIndexGet(element, elements, index, outside)
             h == evalTypedIndexGet(element, elements2, index2, outside)
  <1>1. g \in Values /\ h \in Values
    BY IndexValue
  <1>2. Follows(g, h)
    BY IndexFollows
  <1>3. updated(op, element, elements, index, fast, v, outside)
          = IF op = "=" THEN v ELSE evalBinary("+", element, fast, g, v, FALSE)
    BY DEF updated
  <1>4. updated(op, element, elements2, index2, fast, w, outside)
          = IF op = "=" THEN w ELSE evalBinary("+", element, fast, h, w, FALSE)
    BY DEF updated
  <1>5. "+" \in Operators
    BY DEF Operators
  <1> HIDE DEF g, h
  <1>6. Follows(evalBinary("+", element, fast, g, v, FALSE), evalBinary("+", element, fast, h, w, FALSE))
    BY <1>1, <1>2, <1>5, BinaryFollows
  <1> QED BY <1>3, <1>4, <1>6

LEMMA UpdatedNumber ==
  ASSUME NEW element \in Numeric, NEW fast \in FastKinds,
         NEW elements \in Values, NEW index \in Values, NEW v \in Values, isIntType(index.k),
         NEW outside \in BOOLEAN, ~outside,
         NEW x, x = updated("+", element, elements, index, fast, v, outside)
  PROVE  /\ IsNumber(v) => IsNumber(x)
         /\ x.from = index.from \cup elements.from \cup v.from
  <1> DEFINE g == evalTypedIndexGet(element, elements, index, outside)
             s == evalBinary("+", element, fast, g, v, FALSE)
  <1>1. g \in Values
    BY IndexValue
  <1>2. g.k = element /\ g.from = index.from \cup elements.from
    BY DEF evalTypedIndexGet, Missing, isIntType, Val
  <1>3. IsNumber(g)
    BY <1>2 DEF IsNumber
  <1>4. x = s
    BY DEF updated
  <1> HIDE DEF g
  <1>5. element \in FastKinds
    BY DEF FastKinds
  <1>6. ASSUME NEW fails \in BOOLEAN
        PROVE  LET sum == evalBinary("+", element, fast, g, v, fails)
               IN  IsNumber(g) /\ IsNumber(v) => IsNumber(sum)
    BY <1>1, <1>5, Sums
  <1>7. ASSUME NEW fails \in BOOLEAN
        PROVE  LET sum == evalBinary("+", element, fast, g, v, fails)
               IN  sum.from = g.from \cup v.from
    BY <1>1, <1>5, Sums
  <1>8. s.from = g.from \cup v.from /\ (IsNumber(g) /\ IsNumber(v) => IsNumber(s))
    BY <1>6, <1>7
  <1> HIDE DEF s
  <1> QED BY <1>2, <1>3, <1>4, <1>8

\* An element stored by a register is a number that V1 stores too.
LEMMA RegisterUpdates ==
  ASSUME NEW op \in {"=", "+"}, NEW element \in Numeric, NEW outside \in BOOLEAN,
         NEW elements \in Values, NEW elements2 \in Values, Follows(elements, elements2),
         NEW i \in Exprs, NEW e \in Exprs,
         ~Stops(i.v2) => Follows(i.v1, i.v2), ~Stops(e.v2) => Follows(e.v1, e.v2),
         NEW x, x = updated(op, element, elements, i.v1, e.fast, e.v1, outside),
         NEW y, y = storeRegister(element, i.v2, IF op = "=" THEN e.v2 ELSE elements2, e.v2, outside),
         ~Stops(y)
  PROVE  y \in RegisterValues /\ Carries(elements, i.v1, x, elements2, i.v2, y)
  <1> DEFINE old == IF op = "=" THEN e.v2 ELSE elements2
  <1>0. /\ i.v1 \in Values /\ i.v2 \in RegisterValues /\ e.v1 \in Values /\ e.v2 \in RegisterValues
        /\ e.fast \in FastKinds
    BY DEF Exprs
  <1>1. ~Stops(i.v2) /\ ~Stops(e.v2) /\ ~outside /\ isIntType(i.v2.k)
    BY DEF storeRegister, Stop, Stops, Val
  <1>2. y = Val(element, old.from \cup e.v2.from) /\ IsNumber(e.v2)
    BY <1>1 DEF storeRegister, loadNumbers, Stop, Stops, Val
  <1>3. old.from \cup e.v2.from \subseteq Departures
    BY <1>0 DEF RegisterValues, Values
  <1> HIDE DEF old
  <1>4. y \in RegisterValues
    BY <1>2, <1>3 DEF Val, RegisterValues, Kinds
  <1> SUFFICES ASSUME elements2.from = {}, i.v2.from = {}, y.from = {},
                      ~Excused(x), ~Excused(i.v1), ~Excused(elements)
               PROVE  x.from = {} /\ IsNumber(x)
    BY <1>4 DEF Carries
  <1>5. e.v2.from = {}
    BY <1>2 DEF Val
  <1>6. /\ Excused(e.v1) \/ (e.v1.from = {} /\ IsNumber(e.v1))
        /\ i.v1.from = {} /\ isIntType(i.v1.k) /\ elements.from = {}
    BY <1>1, <1>2, <1>5 DEF Follows, Excused, Alike, Missing, IsNumber, isIntType, Numeric
  <1>7. CASE op = "="
    BY <1>6, <1>7 DEF updated
  <1>8. CASE op = "+"
    <2>1. x = updated("+", element, elements, i.v1, e.fast, e.v1, outside)
      BY <1>8
    <2>2. CASE e.v1.from = {} /\ IsNumber(e.v1)
      BY <1>0, <1>1, <1>6, <2>1, <2>2, UpdatedNumber
    <2>3. CASE Excused(e.v1)
      <3>1. x.from = i.v1.from \cup elements.from \cup e.v1.from
        <4>1. isIntType(i.v1.k) /\ ~outside
          BY <1>1, <1>6
        <4> QED BY <1>0, <2>1, <4>1, UpdatedNumber
      <3> QED BY <2>3, <3>1 DEF Excused
    <2> QED BY <1>6, <2>2, <2>3
  <1> QED BY <1>7, <1>8

\* A register's store fails only where V1 has nothing to store, or no index.
LEMMA RegisterStoreFails ==
  ASSUME NEW outside \in BOOLEAN, NEW element \in Numeric, NEW index \in Values, NEW v \in Values,
         NEW index2 \in RegisterValues, NEW w \in RegisterValues, NEW old \in RegisterValues,
         IF Stops(index2) THEN Explains(index, index2)
         ELSE Follows(index, index2) /\ Fits2("Int", index2),
         IF Stops(w) THEN Explains(v, w)
         ELSE Follows(v, w) /\ (w.from = {} => IsNumber(w) \/ Missing(w)),
         old = w \/ IsNumber(old),
         Stops(storeRegister(element, index2, old, w, outside))
  PROVE  Explains(storing(index, v, outside), storeRegister(element, index2, old, w, outside))
  <1> DEFINE y == storeRegister(element, index2, old, w, outside)
             at == storing(index, v, outside)
  <1>1. CASE outside
    BY <1>1 DEF storing, Explains, Excused, Missing, Of, Val
  <1>2. CASE ~outside
    <2>1. /\ Missing(index) \/ Missing(v) => Missing(at)
          /\ at.from = index.from \cup v.from
      BY <1>2 DEF storing, Missing, Val
    <2>2. CASE Stops(index2)
      <3>1. y = index2
        BY <2>2 DEF storeRegister
      <3> HIDE DEF y, at
      <3>2. Explains(at, y)
        BY <2>1, <2>2, <3>1 DEF Explains, Excused
      <3> QED BY <3>2 DEF y, at
    <2>3. CASE ~Stops(index2) /\ Stops(w)
      <3>1. y = w
        BY <2>3 DEF storeRegister
      <3> HIDE DEF y, at
      <3>2. Explains(at, y)
        BY <2>1, <2>3, <3>1 DEF Explains, Excused
      <3> QED BY <3>2 DEF y, at
    <2>4. CASE ~Stops(index2) /\ ~Stops(w) /\ ~isIntType(index2.k)
      <3>1. y.from = index2.from
        BY <1>2, <2>4 DEF storeRegister, Stop, Val
      <3> HIDE DEF y, at
      <3>2. index2.from = {} => Missing(index) \/ Excused(index)
        BY <2>4 DEF Follows, Excused, Fits2, Alike, Missing, isIntType
      <3>3. Explains(at, y)
        BY <2>1, <3>1, <3>2 DEF Explains, Excused
      <3> QED BY <3>3 DEF y, at
    <2>5. CASE ~Stops(index2) /\ ~Stops(w) /\ isIntType(index2.k)
      <3>1. y = loadNumbers(element, old, w, FALSE)
        BY <1>2, <2>5 DEF storeRegister
      <3>2. ~IsNumber(w) \/ Stops(Val(element, old.from \cup w.from))
        BY <3>1 DEF loadNumbers
      <3>3. y.from = old.from \cup w.from
        BY <3>1 DEF loadNumbers, Stop, Val
      <3> HIDE DEF y, at
      <3>4. CASE ~IsNumber(w)
        <4>1. w.from = {} => Missing(v) \/ Excused(v)
          BY <2>5, <3>4 DEF Follows, Excused, Alike, Missing
        <4>2. Explains(at, y)
          BY <2>1, <3>3, <4>1 DEF Explains, Excused
        <4> QED BY <4>2 DEF y, at
      <3> QED BY <3>2, <3>4 DEF Stops, Val, Numeric
    <2> QED BY <2>2, <2>3, <2>4, <2>5
  <1> QED BY <1>1, <1>2

\* What is stored to an element is a number of the element's type.
LEMMA ElementStorable ==
  ASSUME NEW top \in Exprs, Entry(top), NEW element \in Numeric,
         NEW op \in {"=", "+"}, NEW e,
         e = IF op = "=" THEN applyImplicitNumericCast(element, top) ELSE top,
         IF op = "=" THEN match(element, top.type)
         ELSE /\ inferBinaryResultType(op, element, top.type) # "rejected"
              /\ match(element, inferBinaryResultType(op, element, top.type))
  PROVE  e \in Exprs /\ Storable(element, e, TRUE)
  <1>1. element \in Types
    BY DEF Types
  <1>2. CASE op = "="
    BY <1>1, <1>2, ImplicitCastStorable
  <1>3. CASE op = "+"
    <2> DEFINE type == inferBinaryResultType(op, element, top.type)
    <2>1. type \in Numeric
      BY <1>3 DEF match, isWideningNumericCast, Numeric
    <2>2. /\ element \in Numeric \cup {"Bool", "Any", "Task"} /\ op \in Operators
          /\ top.type \in Numeric \cup {"Bool", "Any", "Task"} /\ type # "rejected"
      BY <1>3 DEF Exprs, Operators
    <2>3. top.type \in Numeric
      BY <1>3, <2>1, <2>2, InferredTypes
    <2> QED BY <1>1, <1>3, <2>3, EntryStorable
  <1> QED BY <1>2, <1>3

\* V1 has nothing to store when V1 code over V2's slots meets an error.
LEMMA FallbackStoreFails ==
  ASSUME NEW outside \in BOOLEAN, NEW index \in Values, NEW v \in Values,
         NEW index2 \in Values, NEW w \in Values, NEW fb \in Values,
         Follows(index, index2), Follows(v, w),
         IsError(fb) => IsError(index2) \/ IsError(w),
         firstError(index2, w, fb).k = "error"
  PROVE  Explains(storing(index, v, outside), firstError(index2, w, fb))
  <1> DEFINE at == storing(index, v, outside)
             y == firstError(index2, w, fb)
  <1>1. CASE outside
    BY <1>1 DEF storing, Explains, Excused, Missing, Of, Val
  <1>2. CASE ~outside
    <2>1. /\ Missing(index) \/ Missing(v) => Missing(at)
          /\ at.from = index.from \cup v.from
      BY <1>2 DEF storing, Missing, Val
    <2>2. (y = index2 /\ index2.k = "error") \/ (y = w /\ w.k = "error")
      BY DEF firstError, IsError
    <2> HIDE DEF at, y
    <2>3. y.from = {} => Missing(at) \/ Excused(at)
      BY <2>1, <2>2 DEF Follows, Excused, Alike, Missing
    <2>4. Explains(at, y)
      BY <2>3 DEF Explains, Excused
    <2> QED BY <2>4 DEF at, y
  <1> QED BY <1>1, <1>2

LEMMA StoringValue ==
  ASSUME NEW outside \in BOOLEAN, NEW index \in Values, NEW v \in Values
  PROVE  storing(index, v, outside) \in Values
  BY DEF storing, Of, Val, Values, Kinds

LEMMA StoreElementStep ==
  ASSUME IInv, NEW a \in Arrays, NEW op \in {"=", "+"}, NEW outside \in BOOLEAN,
         StoreElement(a, op, outside)
  PROVE  IInv'
  <1> DEFINE element == ElementOf[a]
             i == stack[1]
             e == IF op = "=" THEN applyImplicitNumericCast(element, Top) ELSE Top
             v1 == updated(op, element, env1[a], i.v1, e.fast, e.v1, outside)
             fb == updated(op, element, env2[a], i.fb, e.fast, e.fb, outside)
             old == IF op = "=" THEN e.v2 ELSE env2[a]
             v2 == storeRegister(element, i.v2, old, e.v2, outside)
             at == storing(i.v1, e.v1, outside)
             lowered == inRegisters(i) /\ inRegisters(e)
             v == elementsAfter(element, env1[a], i.v1, v1, outside)
             error1 == firstError(i.v1, e.v1, v1)
             from == IF lowered THEN i.v2.from \cup e.v2.from ELSE i.fb.from \cup e.fb.from
  <1>1. /\ Running /\ stack \in Seq(Exprs) /\ Len(stack) = 2
        /\ env1[a] \in Values /\ env2[a] \in Values /\ env1[a].k = element /\ env2[a].k = element
        /\ element \in Numeric /\ a \notin Names /\ a \in Names \cup Arrays
        /\ env2 \in [Names \cup Arrays -> Values] /\ kind2 \in [Names -> FastKinds]
        /\ end2 \in Ends /\ EndExplained
    BY TypesAssumption DEF StoreElement, Consumes, IInv, TypeOK, ElementsFit
  <1>2. i \in Exprs /\ Entry(i) /\ Top \in Exprs /\ Entry(Top)
    <2>1. 1 \in 1..Len(stack) /\ Len(stack) \in 1..Len(stack)
      BY <1>1
    <2>2. \A j \in 1..Len(stack) : stack[j] \in Exprs /\ Entry(stack[j])
      BY <1>1, ElementOfSeq DEF IInv, StackFits
    <2> QED BY <2>1, <2>2 DEF Top
  <1>3. i.type = "Int"
    BY DEF StoreElement
  <1>4. Slot(element, env1[a], env2[a])
    BY <1>1 DEF IInv, SlotsFit, Running, Going
  <1>5. IF op = "=" THEN match(element, Top.type)
        ELSE /\ inferBinaryResultType(op, element, Top.type) # "rejected"
             /\ match(element, inferBinaryResultType(op, element, Top.type))
    BY DEF StoreElement
  <1>6. /\ env1' = [env1 EXCEPT ![a] = v]
        /\ afterStatement(error1, from)
        /\ UNCHANGED <<where, kind2, blob, loops>> /\ steps' = steps + 1 /\ stack' = <<>>
    BY DEF StoreElement
  <1>8. e \in Exprs /\ Storable(element, e, TRUE)
    BY <1>1, <1>2, <1>5, ElementStorable
  <1>9. /\ i.v1 \in Values /\ i.fb \in Values /\ i.v2 \in RegisterValues
        /\ e.v1 \in Values /\ e.fb \in Values /\ e.v2 \in RegisterValues
        /\ e.fast \in FastKinds
    BY <1>2, <1>8 DEF Exprs
  <1>10. /\ lowered /\ Stops(v2) => end2' = Ended("stopped", v2, at) /\ UNCHANGED env2
         /\ lowered /\ ~Stops(v2) =>
              /\ env2' = [env2 EXCEPT ![a] = elementsAfter(element, env2[a], i.v2, v2, outside)]
              /\ UNCHANGED end2
         /\ ~lowered =>
              /\ env2' = [env2 EXCEPT ![a] = elementsAfter(element, env2[a], i.fb, fb, outside)]
              /\ afterFallback(firstError(i.fb, e.fb, fb), at)
    BY DEF StoreElement, inRegisters
  <1>11. /\ Follows(i.v1, i.fb) /\ Follows(e.v1, e.fb) /\ Follows(env1[a], env2[a])
         /\ lowered => RegisterFits(i.lo.kind, "Int", i.v1, i.v2)
         /\ lowered => IF Stops(e.v2) THEN Explains(e.v1, e.v2)
                       ELSE /\ Follows(e.v1, e.v2) /\ e.v2.k # "error"
                            /\ e.v2.from = {} => IsNumber(e.v2) \/ Missing(e.v2)
    <2>1. Follows(i.v1, i.fb) /\ Follows(e.v1, e.fb) /\ Follows(env1[a], env2[a])
      BY <1>2, <1>4, <1>8 DEF Entry, Storable, Slot
    <2>2. lowered => RegisterFits(i.lo.kind, "Int", i.v1, i.v2)
      BY <1>2, <1>3 DEF Entry, inRegisters
    <2>3. lowered => e.lo.ok
      BY DEF inRegisters
    <2> HIDE DEF e, lowered
    <2>4. lowered => IF Stops(e.v2) THEN Explains(e.v1, e.v2)
                       ELSE /\ Follows(e.v1, e.v2) /\ e.v2.k # "error"
                            /\ e.v2.from = {} => IsNumber(e.v2) \/ Missing(e.v2)
      BY <1>1, <1>8, <2>3 DEF Storable, Fits2, Stores, IsNumber, Numeric
    <2> QED BY <2>1, <2>2, <2>4
  <1> HIDE DEF element, i, e, lowered
  <1>12. v1 \in Values
    BY <1>1, <1>9, UpdatedValue
  <1>13. v \in Values /\ v.k = element
    <2>1. i.v1 \in RegisterValues /\ v1 \in RegisterValues
      BY <1>9, <1>12, ValuesAreRegisterValues
    <2> HIDE DEF v1
    <2> QED BY <1>1, <2>1, ElementsValue
  <1>14. at \in Values
    BY <1>9, StoringValue
  <1>17. /\ error1 \in Values /\ from \in SUBSET Departures
         /\ error1.k = "error" => /\ error1 = i.v1 \/ error1 = e.v1
                                  /\ i.v1.k = "error" \/ error1 = e.v1
    <2>1. IsError(v1) => IsError(i.v1) \/ IsError(e.v1)
      BY <1>1, <1>9, UpdatedValue
    <2> HIDE DEF v1
    <2>2. error1 \in Values
      BY <1>9, <1>12 DEF firstError
    <2>3. from \in SUBSET Departures
      BY <1>9 DEF Values, RegisterValues
    <2> QED BY <2>1, <2>2, <2>3 DEF firstError, IsError
  <1> HIDE DEF v, error1, from
  <1>15. Fits(element, v) /\ Numbers(element, v)
    BY <1>1, <1>13 DEF Fits, FitsBut, Numbers, IsNumber
  <1>16. ASSUME NEW w \in Values, w.k = element, env2' = [env2 EXCEPT ![a] = w],
                Going' => Follows(v, w),
                end2' \in Ends, EndExplained',
                end2'.how # "running" \/ end2' = end2,
                error1.k = "error" => end2'.how # "running" \/ error1.from \cup from # {}
         PROVE  IInv'
    <2>1. Fits2(element, w) /\ w.k # "error"
      BY <1>1, <1>16 DEF Fits2, Numeric
    <2>2. Going' => Slot(element, v, w)
      BY <1>15, <1>16, <2>1 DEF Slot
    <2>3. end1' \in Ends /\ end1'.how # "returned" /\ ErrorMet'
      BY <1>1, <1>6, <1>16, <1>17, StatementEnd
    <2> QED BY <1>1, <1>6, <1>13, <1>16, <2>2, <2>3, SlotStep DEF element
  <1>18. CASE lowered /\ Stops(v2)
    <2>1. env2' = [env2 EXCEPT ![a] = env2[a]] /\ end2' = Ended("stopped", v2, at)
      BY <1>1, <1>10, <1>11, <1>18
    <2>2. /\ IF Stops(i.v2) THEN Explains(i.v1, i.v2)
             ELSE Follows(i.v1, i.v2) /\ Fits2("Int", i.v2)
          /\ IF Stops(e.v2) THEN Explains(e.v1, e.v2)
             ELSE Follows(e.v1, e.v2) /\ (e.v2.from = {} => IsNumber(e.v2) \/ Missing(e.v2))
      BY <1>11, <1>18 DEF RegisterFits
    <2>3. old \in RegisterValues /\ (old = e.v2 \/ IsNumber(old))
      BY <1>1, <1>9, ValuesAreRegisterValues DEF IsNumber
    <2> HIDE DEF old
    <2>4. Explains(at, v2)
      BY <1>1, <1>9, <1>18, <2>2, <2>3, RegisterStoreFails
    <2>5. v2 \in RegisterValues
      BY <1>1, <1>9, <2>3 DEF storeRegister, loadNumbers, Stop, Val, RegisterValues, Kinds
    <2> HIDE DEF v2, at
    <2>6. end2' \in Ends /\ EndExplained' /\ ~Going' /\ end2'.how # "running"
      BY <1>14, <2>1, <2>4, <2>5 DEF Ended, Ends, EndExplained, Going, Underway
    <2> QED BY <1>1, <1>16, <2>1, <2>6
  <1>19. CASE lowered /\ ~Stops(v2)
    <2> DEFINE w == elementsAfter(element, env2[a], i.v2, v2, outside)
    <2>1. env2' = [env2 EXCEPT ![a] = w] /\ end2' = end2
      BY <1>10, <1>11, <1>19
    <2>2. /\ Follows(env1[a], env2[a])
          /\ ~Stops(i.v2) => Follows(i.v1, i.v2)
          /\ ~Stops(e.v2) => Follows(e.v1, e.v2)
      BY <1>11, <1>19 DEF RegisterFits
    <2>3. v2 = storeRegister(element, i.v2, IF op = "=" THEN e.v2 ELSE env2[a], e.v2, outside)
      OBVIOUS
    <2>4. v1 = updated(op, element, env1[a], i.v1, e.fast, e.v1, outside)
      OBVIOUS
    <2> HIDE DEF v2, v1
    <2>5. ~Stops(i.v2)
      BY <1>19, <2>3 DEF storeRegister
    <2>6. v2 \in RegisterValues /\ Carries(env1[a], i.v1, v1, env2[a], i.v2, v2)
      BY <1>1, <1>2, <1>8, <1>19, <2>2, <2>3, <2>4, RegisterUpdates
    <2>7. w \in Values /\ w.k = element
      <3>1. i.v2 \in RegisterValues /\ v2 \in RegisterValues /\ env2[a] \in Values
        BY <1>1, <1>9, <2>6
      <3> QED BY <1>1, <3>1, ElementsValue
    <2>8. Follows(elementsAfter(element, env1[a], i.v1, v1, outside), w)
      <3>1. Follows(i.v1, i.v2)
        BY <2>2, <2>5
      <3> QED BY <1>1, <1>9, <1>12, <2>2, <2>6, <3>1, ElementsFollow
    <2>9. Follows(v, w)
      BY <2>8 DEF v
    <2>10. end2' \in Ends /\ EndExplained'
      <3>1. end1.how # "asserted"
        BY <1>1 DEF Running, Underway
      <3> QED BY <1>1, <2>1, <3>1 DEF EndExplained
    <2>11. error1.k = "error" => error1.from \cup from # {}
      <3>1. ASSUME error1.k = "error", i.v1.k = "error", error1 = i.v1
            PROVE  error1.from \cup from # {}
        <4>1. Follows(i.v1, i.v2) /\ i.v2.k # "error" /\ i.v2.from \subseteq from
          BY <1>11, <1>19, <2>5 DEF RegisterFits, from
        <4> QED BY <3>1, <4>1 DEF Follows, Excused, Alike
      <3>2. ASSUME error1.k = "error", error1 = e.v1
            PROVE  error1.from \cup from # {}
        <4>1. ~Stops(e.v2)
          BY <1>19, <2>3, <2>5 DEF storeRegister
        <4>2. Follows(e.v1, e.v2) /\ e.v2.k # "error" /\ e.v2.from \subseteq from
          BY <1>11, <1>19, <4>1 DEF from
        <4> QED BY <3>2, <4>2 DEF Follows, Excused, Alike
      <3> QED BY <1>17, <3>1, <3>2
    <2> HIDE DEF w
    <2> QED BY <1>16, <2>1, <2>7, <2>9, <2>10, <2>11
  <1>20. CASE ~lowered
    <2> DEFINE w == elementsAfter(element, env2[a], i.fb, fb, outside)
               error == firstError(i.fb, e.fb, fb)
    <2>1. env2' = [env2 EXCEPT ![a] = w] /\ afterFallback(error, at)
      BY <1>10, <1>20
    <2>2. Follows(i.v1, i.fb) /\ Follows(e.v1, e.fb) /\ Follows(env1[a], env2[a])
      BY <1>11, <1>20
    <2>3. fb \in Values /\ (IsError(fb) => IsError(i.fb) \/ IsError(e.fb))
      <3>1. fb \in Values
        BY <1>1, <1>9, UpdatedValue
      <3>2. IsError(fb) => IsError(i.fb) \/ IsError(e.fb)
        BY <1>1, <1>9, UpdatedValue
      <3> QED BY <3>1, <3>2
    <2>4. Follows(v1, fb)
      BY <1>1, <1>9, <2>2, UpdatedFollows
    <2> HIDE DEF v1, fb
    <2>5. i.fb \in RegisterValues /\ fb \in RegisterValues
      BY <1>9, <2>3, ValuesAreRegisterValues
    <2>6. w \in Values /\ w.k = element
      BY <1>1, <2>5, ElementsValue
    <2>7. Follows(elementsAfter(element, env1[a], i.v1, v1, outside), w)
      <3>1. Carries(env1[a], i.v1, v1, env2[a], i.fb, fb)
        BY <2>4 DEF Carries, Follows, Excused, Alike, Missing, IsNumber, Numeric
      <3> QED BY <1>1, <1>9, <1>12, <2>2, <2>5, <3>1, ElementsFollow
    <2>8. Follows(v, w)
      BY <2>7 DEF v, v1
    <2>9. error \in Values
      BY <1>9, <2>3 DEF firstError
    <2>10. error.k = "error" => Explains(at, error)
      BY <1>9, <2>2, <2>3, FallbackStoreFails
    <2>a. error1.k = "error" => error.k = "error" \/ error1.from \cup from # {}
      <3>1. from = i.fb.from \cup e.fb.from
        BY <1>20 DEF from
      <3>2. ASSUME error1.k = "error", error1 = i.v1
            PROVE  i.fb.k = "error" \/ error1.from \cup from # {}
        BY <2>2, <3>1, <3>2 DEF Follows, Excused, Alike
      <3>3. ASSUME error1.k = "error", error1 = e.v1
            PROVE  e.fb.k = "error" \/ error1.from \cup from # {}
        BY <2>2, <3>1, <3>3 DEF Follows, Excused, Alike
      <3> QED BY <1>17, <3>2, <3>3 DEF firstError
    <2> HIDE DEF w, error, at
    <2>11. /\ end2' \in Ends /\ EndExplained'
           /\ end2'.how # "running" \/ end2' = end2
           /\ error.k = "error" => end2'.how # "running"
      BY <1>1, <1>14, <2>1, <2>9, <2>10, FallbackEnd
    <2> QED BY <1>16, <2>1, <2>6, <2>8, <2>11, <2>a
  <1> QED BY <1>18, <1>19, <1>20

-----------------------------------------------------------------------------
(* The theorems. *)

LEMMA InitIInv == Init => IInv
  <1> SUFFICES ASSUME Init
               PROVE  IInv
    OBVIOUS
  <1>1. /\ TypeOf \in [Names -> Types] /\ ElementOf \in [Arrays -> Numeric]
        /\ Names \cap Arrays = {}
    BY TypesAssumption DEF Types
  <1>2. ASSUME NEW x \in Names
        PROVE  env1[x] \in Values /\ env2[x] = env1[x] /\ Slot(TypeOf[x], env1[x], env2[x])
    <2>1. env1[x] = pushLocalFrame(x) /\ env2[x] = env1[x]
      BY DEF Init
    <2>2. env1[x] = IF TypeOf[x] = "Any" THEN Val("Int", {}) ELSE Val(TypeOf[x], {})
      BY <2>1 DEF pushLocalFrame, Of
    <2> QED BY <1>1, <2>1, <2>2 DEF Val, Values, Kinds, Types, Slot, Fits, FitsBut, Numbers,
       Follows, Excused, Alike, Fits2, IsNumber, Numeric
  <1>3. ASSUME NEW a \in Arrays
        PROVE  /\ env1[a] \in Values /\ env2[a] = env1[a] /\ env1[a].k = ElementOf[a]
               /\ Slot(ElementOf[a], env1[a], env2[a])
    <2>1. env1[a] = Val(ElementOf[a], {}) /\ env2[a] = env1[a]
      BY <1>1 DEF Init, Of
    <2> QED BY <1>1, <2>1 DEF Val, Values, Kinds, Slot, Fits, FitsBut, Numbers, Follows, Excused, Alike,
       Fits2, IsNumber, Numeric
  <1>4. TypeOK
    <2>1. env1 \in [Names \cup Arrays -> Values] /\ env2 \in [Names \cup Arrays -> Values]
      BY <1>2, <1>3 DEF Init
    <2>2. kind2 \in [Names -> FastKinds]
      BY <1>1 DEF Init, fastScalarKindFromType, FastKinds
    <2>3. end1 \in Ends /\ end2 \in Ends
      BY DEF Init, running, Of, Val, Ends, Values, RegisterValues, Kinds
    <2>4. stack \in Seq(Exprs)
      BY EmptySeq DEF Init
    <2> QED BY <2>1, <2>2, <2>3, <2>4 DEF Init, TypeOK
  <1>5. StackFits
    BY DEF Init, StackFits
  <1>6. SlotsFit /\ ElementsFit
    BY <1>2, <1>3 DEF SlotsFit, ElementsFit
  <1>7. EndExplained /\ ErrorMet /\ ReturnFits
    BY DEF Init, EndExplained, ErrorMet, ReturnFits, running
  <1> QED BY <1>4, <1>5, <1>6, <1>7 DEF IInv

LEMMA NextIInv == IInv /\ [Next]_vars => IInv'
  <1> SUFFICES ASSUME IInv, [Next]_vars
               PROVE  IInv'
    OBVIOUS
  <1>1. CASE \E t \in {"Int", "Bool", "Float"} : Literal(t)
    BY <1>1, LiteralStep
  <1>2. CASE \E x \in Names : Name(x)
    BY <1>2, NameStep
  <1>3. CASE \E op \in {"-", "!", "~", "await"}, fails \in BOOLEAN : Unary(op, fails)
    BY <1>3, UnaryStep
  <1>4. CASE \E op \in {"+", "/", "|", "==", "<", "&&"}, fails \in BOOLEAN : Binary(op, fails)
    BY <1>4, BinaryStep DEF Operators
  <1>5. CASE \E t \in Numeric \cup {"Bool", "Any"} : Cast(t)
    BY <1>5, CastStep DEF Types
  <1>6. CASE \E f \in DOMAIN Returns, outcome \in {"value", "null", "fails", "errs"} : Call(f, outcome)
    BY <1>6, CallStep
  <1>7. CASE \E negative \in BOOLEAN : Sqrt(negative)
    BY <1>7, SqrtStep
  <1>8. CASE \E a \in Arrays, outside \in BOOLEAN : Index(a, outside)
    BY <1>8, IndexStep
  <1>9. CASE \E first \in BOOLEAN : Ternary(first)
    BY <1>9, TernaryStep
  <1>10. CASE \E x \in Names : Declare(x)
    BY <1>10, DeclareStep
  <1>11. CASE \E x \in Names : Assign(x)
    BY <1>11, AssignStep
  <1>12. CASE \E x \in Names, op \in {"+", "/", "|"}, fails \in BOOLEAN : Compound(x, op, fails)
    BY <1>12, CompoundStep
  <1>13. CASE \E a \in Arrays, op \in {"=", "+"}, outside \in BOOLEAN : StoreElement(a, op, outside)
    BY <1>13, StoreElementStep
  <1>14. CASE Return
    BY <1>14, ReturnStep
  <1>15. CASE If
    BY <1>15, ConditionStep DEF If
  <1>16. CASE While
    <2>1. Condition(inRegisters(Top)) /\ inRegisters(Top) \in BOOLEAN
      BY <1>16 DEF While, inRegisters
    <2> QED BY <2>1, ConditionStep
  <1>17. CASE CloseBlock
    BY <1>17, CloseBlockStep
  <1>18. CASE Discard
    BY <1>18, DiscardStep
  <1>19. CASE UNCHANGED vars
    BY <1>19 DEF vars, IInv, TypeOK, StackFits, ElementsFit, Going, SlotsFit, EndExplained,
       ErrorMet, ReturnFits
  <1> QED BY <1>1, <1>2, <1>3, <1>4, <1>5, <1>6, <1>7, <1>8, <1>9, <1>10, <1>11, <1>12, <1>13,
     <1>14, <1>15, <1>16, <1>17, <1>18, <1>19 DEF Next

\* The inductive invariant holds of every body, however long.
THEOREM Invariance == Spec => []IInv
  BY InitIInv, NextIInv, PTL DEF Spec

\* Every value, expression and slot has the shape the model declares.
THEOREM ExpressionsTyped == Spec => []TypeOK
  <1>1. IInv => TypeOK
    BY DEF IInv
  <1> QED BY <1>1, Invariance, PTL

\* The analyser's type and the compiler's fast kind describe what the V1
\* evaluator computes, save for the conversions the code leaves out.
THEOREM KindsDescribed == Spec => []StaticKindsDescribe
  <1>1. IInv => StaticKindsDescribe
    <2> SUFFICES ASSUME IInv, NEW i \in 1..Len(stack)
                 PROVE  /\ \/ stack[i].v1.k = stack[i].type \/ stack[i].type = "Any"
                           \/ Missing(stack[i].v1)
                           \/ stack[i].v1.from
                                \cap {"failed", "ternary", "lost cast", "literal"} # {}
                        /\ stack[i].fast \in Numeric =>
                             \/ IsNumber(stack[i].v1) \/ Missing(stack[i].v1)
                             \/ stack[i].shape = "call" \/ "failed" \in stack[i].v1.from
      BY DEF StaticKindsDescribe, TypesDescribeValues, FastKindsDescribe
    <2>1. Entry(stack[i])
      BY DEF IInv, StackFits
    <2>2. Fits(stack[i].type, stack[i].v1) /\ Numbers(stack[i].type, stack[i].v1) /\ FastFits(stack[i])
      BY <2>1 DEF Entry
    <2> QED BY <2>2 DEF Fits, FitsBut, Numbers, FastFits
  <1> QED BY <1>1, Invariance, PTL

\* Both builds of a body, a function's or a module's statements, leave every
\* name, and return, values of one kind unless a named departure of the V2 build
\* comes in between.
THEOREM BuildsAgree == Spec => []TiersAgree
  <1>1. IInv => TiersAgree
    <2> SUFFICES ASSUME IInv
                 PROVE  TiersAgree
      OBVIOUS
    <2>1. ASSUME NEW v, NEW w, Follows(v, w)
          PROVE  Agree(v, w)
      BY <2>1 DEF Follows, Excused, Agree, Alike, Missing
    <2>2. ASSUME end2.how = "running", NEW x \in Names \cup Arrays
          PROVE  Follows(env1[x], env2[x])
      <3>1. SlotsFit
        BY <2>2 DEF IInv, Going, Underway
      <3> QED BY <3>1 DEF SlotsFit, Slot
    <2>3. end1.how = "returned" /\ end2.how = "returned" => Follows(end1.v, end2.v)
      BY DEF IInv, ReturnFits
    <2> QED BY <2>1, <2>2, <2>3 DEF TiersAgree
  <1> QED BY <1>1, Invariance, PTL

\* The V2 build of a body ends early only where V1 has no value either, or
\* because of a named departure; and where V1 stops a module behind an error, V2
\* has met one too, save for the same departures.
THEOREM StopsAreExplained == Spec => []StopsExplained
  <1>1. IInv => StopsExplained
    BY DEF IInv, EndExplained, ErrorMet, Explains, Excused, StopsExplained
  <1> QED BY <1>1, Invariance, PTL
=============================================================================
