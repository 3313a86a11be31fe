------------------------------ MODULE Objects ------------------------------
(***************************************************************************)
(* The objects of a running program, the variables that hold them, and the *)
(* statements that create, change and release them: literals, indexing,    *)
(* fields and the built-in members of String, Regex, Array and Dict.       *)
(*                                                                         *)
(* Every object counts the references to it (RTObject.c).  evalExpr hands  *)
(* a reference to its caller, ArrayIndex and DictGet lend one that belongs *)
(* to the array.  Freeing an array gives back its memory but not the       *)
(* references in it, StarbytesArrayNew never sets _StarbytesArrayFree, and *)
(* some instructions take a reference that nobody gives back: `lost'       *)
(* counts those.  A cell with no other references is out of everybody's    *)
(* reach; the model uses its name again, which the allocator never does.   *)
(*                                                                         *)
(* A statement is one step, but for a call of a member: its receiver is    *)
(* evaluated first, and its arguments may call functions that run any      *)
(* other statements before the member sees them.  An operand that is a     *)
(* variable is referenced and released again within the step, which is     *)
(* left out.  Text is one of a few strings; what is computed from text     *)
(* may be any of them.                                                     *)
(***************************************************************************)
EXTENDS ArrayStorage, TLC, SequencesExt, FiniteSetsExt

CONSTANTS
  Ids,            \* the names of objects, 1..n
  Names,          \* the variables
  Literals,       \* the numbers and strings the program writes
  Declared,       \* the literals the variables may be declared with
  Classes,        \* the classes, each with fields
  FieldsOf,       \* the field names of a class, in the order of their slots
  Dynamic,        \* member names that are no fields
  MaxLength,      \* bound: the elements of an array
  MaxCalls,       \* bound: calls whose arguments are being evaluated
  MaxSteps        \* bound: the statements of a program

ASSUME IdsAssumption == Ids = 1..Cardinality(Ids)
ASSUME BoundsAssumption == {MaxLength, MaxCalls, MaxSteps} \subseteq Nat

VARIABLES
  heap,    \* the cell of every name
  vars,    \* the variables of the scope, an object or Null
  calls,   \* the calls whose arguments are being evaluated, the inner one last
  failed,  \* an assertion of RTObject.c has failed
  steps    \* how many statements have run

vars_ == <<heap, vars, calls, failed, steps>>

Strings == {v \in Literals : v.kind = "Str"}
Bool(b) == [kind |-> "Bool", n |-> IF b THEN 1 ELSE 0]
IntOf(i) == [kind |-> "Int", n |-> 2 * i]

-----------------------------------------------------------------------------
(* Cells.                                                                  *)

FreeCell == [type |-> "Free", refs |-> 0, lost |-> 0]
ScalarCell(v) == [type |-> "Scalar", refs |-> 1, lost |-> 0, kind |-> v.kind, n |-> v.n]
ArrayCell(arr) == [type |-> "Array", refs |-> 1, lost |-> 0, arr |-> arr]
DictCell(keys, vals, n) ==
  [type |-> "Dict", refs |-> 1, lost |-> 0, keys |-> keys, vals |-> vals, length |-> n]
\* A class object, and a Regex, whose pattern and flags are properties.
InstCell(type, fields, props) ==
  [type |-> type, refs |-> 1, lost |-> 0, fields |-> fields, props |-> props]

NoProps == [p \in {} |-> Null]
IsInst(cell) == cell.type \in Classes \cup {"Regex"}

PropsOf(cell) == [i \in 1..Cardinality(DOMAIN cell.props) |->
                    cell.props[SetToSeq(DOMAIN cell.props)[i]]]

\* The references a cell holds, each as often as it holds it.
Held(cell) ==
  CASE cell.type = "Array" ->
         IF IsNumeric(cell.arr)
         THEN SelectSeq(cell.arr.cache, LAMBDA b : b # Null) ELSE cell.arr.data
    [] cell.type = "Dict" -> <<cell.keys, cell.vals>>
    [] IsInst(cell) -> cell.fields \o PropsOf(cell)
    [] OTHER -> <<>>

\* Faulty: the fields of a class object stay referenced.
ReleasedNoFields(cell) ==
  IF cell.type = "Array" THEN <<>>
  ELSE IF IsInst(cell) THEN PropsOf(cell) ELSE Held(cell)

\* What freeing a cell releases: of an array, nothing.
ReleasedWith(cell) == IF cell.type = "Array" THEN <<>> ELSE Held(cell)
LostWith(cell) == IF cell.type = "Array" THEN Held(cell) ELSE <<>>

Occurrences(o, s) == Cardinality({i \in DOMAIN s : s[i] = o})

Reference(h, o) == [h EXCEPT ![o].refs = @ + 1]
ReferenceAll(h, s) == FoldLeft(Reference, h, s)
LoseAll(h, s) == LET Lose(g, o) == [g EXCEPT ![o].lost = @ + 1] IN FoldLeft(Lose, h, s)

\* The objects in s are released in turn, and what goes with them.
RECURSIVE ReleaseAll(_, _)
ReleaseAll(h, s) ==
  IF s = <<>> THEN h
  ELSE IF h[Head(s)].refs # 1 THEN ReleaseAll([h EXCEPT ![Head(s)].refs = @ - 1], Tail(s))
  ELSE ReleaseAll(LoseAll([h EXCEPT ![Head(s)] = FreeCell], LostWith(h[Head(s)])),
                  ReleasedWith(h[Head(s)]) \o Tail(s))

Release(h, o) == ReleaseAll(h, <<o>>)
ReleaseSet(h, S) == ReleaseAll(h, SetToSeq(S))

\* Cells only lost references lead to are forgotten, with what they hold.
RECURSIVE Forget(_)
Forget(h) ==
  LET gone == {o \in DOMAIN h : h[o].lost > 0 /\ h[o].refs = h[o].lost}
  IN IF gone = {} THEN h
     ELSE LET o == CHOOSE o \in gone : TRUE
          IN Forget(LoseAll([h EXCEPT ![o] = FreeCell], Held(h[o])))

FreeIds(h) == {o \in DOMAIN h : h[o].type = "Free"}
\* The free names, the smallest first.
Fresh(h) ==
  [k \in 1..Cardinality(FreeIds(h)) |->
     CHOOSE o \in FreeIds(h) : Cardinality({p \in FreeIds(h) : p < o}) = k - 1]

-----------------------------------------------------------------------------
(* What evaluating an expression gives: the heap and the object, with a    *)
(* reference for the caller, or Null.                                      *)

Result(h, r) == [h |-> h, r |-> r]
\* What comes after the evaluation e.
Then(e, Step(_, _)) == Step(e.h, e.r)

\* StarbytesObjectNew.
New(h, cell) == Result([h EXCEPT ![Fresh(h)[1]] = cell], Fresh(h)[1])

\* An effect on the array a, and on the other objects it names.
Affect(h, a, e) ==
  LET boxes == [b \in DOMAIN e.make |-> ScalarCell(e.make[b])]
      changed == [h EXCEPT ![a].arr = e.arr]
  IN ReferenceAll(ReleaseSet(boxes @@ changed, e.drop), e.keep)

NumberIn(h, o) ==
  IF h[o].type = "Scalar" /\ h[o].kind \in NumKinds
  THEN NumericValue(h[o].kind, h[o].n) ELSE Null

Count(h, a) == Length(h[a].arr)

\* StarbytesArrayIndex lends the object.
Lend(h, a, i) ==
  LET At(h1) == Result(h1, ObjectAt(h1[a].arr, i))
  IN At(Affect(h, a, Index(h[a].arr, i, Fresh(h)[1])))

\* Lent, and referenced for the caller.
Take(h, a, i) == Then(Lend(h, a, i), LAMBDA g, o : Result(Reference(g, o), o))

PushOn(h, a, o) == Affect(h, a, Push(h[a].arr, o, NumberIn(h, o), Fresh(h)))
SetAt(h, a, i, o) == Affect(h, a, Set(h[a].arr, i, o, NumberIn(h, o), Fresh(h)))
PopFrom(h, a) == Affect(h, a, Pop(h[a].arr))

NewArray(h) == New(h, ArrayCell(EmptyArray))

\* StarbytesArrayCopy of the array a.
CopyOf(h, a) ==
  LET Made(e) == Then(New(h, ArrayCell(e.arr)), LAMBDA g, o : Result(ReferenceAll(g, e.keep), o))
  IN Made(Copy(h[a].arr))

\* A new array of the elements of a at the positions in `at', in that order.
CopyElements(h, a, at) ==
  LET Fill(g, n) ==
        LET Move(g1, i) == Then(Lend(g1, a, i), LAMBDA g2, o : PushOn(g2, n, o))
        IN Result(FoldLeft(Move, [g EXCEPT ![n].arr = Reserve(@, Len(at))], at), n)
  IN Then(NewArray(h), Fill)

\* runtimeObjectEquals.
Same(h, o, p) ==
  IF h[o].type = "Scalar" /\ h[p].type = "Scalar"
  THEN IF {h[o].kind, h[p].kind} \subseteq NumKinds THEN h[o].n = h[p].n
       ELSE h[o].kind = h[p].kind /\ h[o].n = h[p].n
  ELSE o = p

\* The first of the first n elements that equals o, looking at them in turn.
RECURSIVE FindFrom(_, _, _, _, _)
FindFrom(h, a, o, i, n) ==
  IF i > n THEN Result(h, 0)
  ELSE Then(Lend(h, a, i), LAMBDA g, p :
              IF Same(g, p, o) THEN Result(g, i) ELSE FindFrom(g, a, o, i + 1, n))

-----------------------------------------------------------------------------
(* Dictionaries: the keys and the values, two arrays side by side.         *)

NewDict(h) ==
  Then(NewArray(h), LAMBDA g, keys :
    Then(NewArray(g), LAMBDA g1, vals : New(g1, DictCell(keys, vals, 0))))

DictCopy(h, d) ==
  Then(CopyOf(h, h[d].keys), LAMBDA g, keys :
    Then(CopyOf(g, h[d].vals), LAMBDA g1, vals : New(g1, DictCell(keys, vals, h[d].length))))

FindKey(h, d, k) == FindFrom(h, h[d].keys, k, 1, Count(h, h[d].keys))

DictAdd(h, d, k, v) ==
  [PushOn(PushOn(h, h[d].keys, k), h[d].vals, v) EXCEPT ![d].length = Count(h, h[d].keys) + 1]

\* Faulty: a key that is there is added once more.
DictAppend(h, d, k, v) == DictAdd(h, d, k, v)

DictSet(h, d, k, v) ==
  Then(FindKey(h, d, k), LAMBDA g, i :
    IF i # 0 THEN SetAt(g, g[d].vals, i, v) ELSE DictAdd(g, d, k, v))

\* The value is lent.
DictGet(h, d, k) ==
  Then(FindKey(h, d, k), LAMBDA g, i : IF i = 0 THEN Result(g, Null) ELSE Lend(g, g[d].vals, i))

\* The element behind i is written over it.
MoveDown(h, a, i) == Then(Lend(h, a, i + 1), LAMBDA g, o : SetAt(g, a, i, o))

\* Everything behind the key moves down by one, then both arrays are popped.
DictRemoveAt(h, d, at) ==
  LET n == Count(h, h[d].keys)
      Down(g, i) == MoveDown(MoveDown(g, g[d].keys, i), g[d].vals, i)
      moved == FoldLeft(Down, h, [i \in 1..(n - at) |-> at + i - 1])
  IN [PopFrom(PopFrom(moved, h[d].keys), h[d].vals) EXCEPT ![d].length = n - 1]

RECURSIVE PopAll(_, _)
PopAll(h, a) == IF Count(h, a) = 0 THEN h ELSE PopAll(PopFrom(h, a), a)

IsKey(h, o) == h[o].type = "Scalar" /\ h[o].kind # "Bool"

\* The keys of one dictionary are of one kind, as its type says; comparing a
\* string with a number (StarbytesNumCompare) reads what is not there.
KeyFits(h, d, k) ==
  LET keys == h[h[d].keys].arr
  IN Length(keys) = 0 \/ h[k].kind = (IF IsNumeric(keys) THEN keys.kind ELSE "Str")

-----------------------------------------------------------------------------
(* The members of Array, as invokeBuiltinMember has them: a is the array,  *)
(* len the length it had when the call began, i an index counted from 1, o *)
(* the object that is the last argument.  ArrayAsserts says when indexing  *)
(* an element that is not there is attempted.                              *)

ArrayAsserts(h, a, m, i, o, len) ==
  LET now == Count(h, a)
  IN CASE m \in {"at", "set"} -> i \in 1..len /\ i > now
       [] m = "insert" -> i \in 1..(len + 1) /\ ((i <= len /\ len > now) \/ i > now + 1)
       [] m = "removeAt" -> i \in 1..len /\ (i > now \/ (i < len /\ len > now))
       [] m = "slice" -> i <= len /\ len > now
       [] m = "join" -> len > now
       [] m \in {"contains", "indexOf"} -> len > now /\ FindFrom(h, a, o, 1, now).r = 0
       [] OTHER -> FALSE

ArrayInsert(h, a, i, o, len) ==
  LET Up(g, pos) == Then(Lend(g, a, pos - 1), LAMBDA g1, p : SetAt(g1, a, pos, p))
      moved == FoldLeft(Up, PushOn(h, a, o), [k \in 1..(len + 1 - i) |-> len + 2 - k])
  IN SetAt(moved, a, i, o)

ArrayRemoveAt(h, a, i, len) ==
  LET Down(g, pos) == MoveDown(g, a, pos)
      Moved(g) == FoldLeft(Down, g, [k \in 1..(len - i) |-> i + k - 1])
  IN Then(Take(h, a, i), LAMBDA g, o : Result(PopFrom(Moved(g), a), o))

ArrayPop(h, a) ==
  Then(Take(h, a, Count(h, a)), LAMBDA g, o : Result(PopFrom(g, a), o))

\* A number or Bool as the result.
Answer(h, v) == New(h, ScalarCell(v))

\* isEmpty, push, pop, at, set, insert, removeAt and clear.
ArrayMember(h, a, m, i, o, len) ==
  CASE m = "isEmpty" -> Answer(h, Bool(len = 0))
    [] m = "push" -> Answer(PushOn(h, a, o), IntOf(Count(h, a) + 1))
    [] m = "pop" -> IF len = 0 THEN Result(h, Null) ELSE ArrayPop(h, a)
    [] m = "at" -> IF i \in 1..len THEN Take(h, a, i) ELSE Result(h, Null)
    [] m = "set" -> IF i \in 1..len THEN Answer(SetAt(h, a, i, o), Bool(TRUE))
                    ELSE Answer(h, Bool(FALSE))
    [] m = "insert" -> IF i \in 1..(len + 1) THEN Answer(ArrayInsert(h, a, i, o, len), Bool(TRUE))
                       ELSE Answer(h, Bool(FALSE))
    [] m = "removeAt" -> IF i \in 1..len THEN ArrayRemoveAt(h, a, i, len) ELSE Result(h, Null)
    [] m = "clear" -> Answer(PopAll(h, a), Bool(TRUE))

\* contains and indexOf, slice from i to the end, join, copy and reverse.
ArrayView(h, a, m, i, o, len) ==
  CASE m = "contains" -> Then(FindFrom(h, a, o, 1, len), LAMBDA g, f : Answer(g, Bool(f # 0)))
    [] m = "indexOf" -> Then(FindFrom(h, a, o, 1, len), LAMBDA g, f : Answer(g, IntOf(f - 1)))
    [] m = "slice" -> CopyElements(h, a, [k \in 1..(IF i <= len THEN len + 1 - i ELSE 0) |-> i + k - 1])
    [] m = "join" -> LET Look(g, k) == Lend(g, a, k).h
                     IN Answer(FoldLeft(Look, h, [k \in 1..len |-> k]), CHOOSE v \in Strings : TRUE)
    [] m = "copy" -> CopyOf(h, a)
    [] m = "reverse" -> CopyElements(h, a, [k \in 1..len |-> len + 1 - k])

\* has, get, remove, set, keys, values, clear and copy; k is the key.
DictRemove(h, d, i) ==
  Then(Take(h, h[d].vals, i), LAMBDA g, o : Result(DictRemoveAt(g, d, i), o))

DictMember(h, d, m, k, o) ==
  CASE m = "has" -> Then(DictGet(h, d, k), LAMBDA g, v : Answer(g, Bool(v # Null)))
    [] m = "get" -> Then(FindKey(h, d, k), LAMBDA g, i :
         IF i = 0 THEN Result(g, Null) ELSE Take(g, h[d].vals, i))
    [] m = "remove" -> Then(FindKey(h, d, k), LAMBDA g, i :
         IF i = 0 THEN Result(g, Null) ELSE DictRemove(g, d, i))
    [] m = "set" -> Answer(DictSet(h, d, k, o), Bool(TRUE))
    [] m = "keys" -> CopyOf(h, h[d].keys)
    [] m = "values" -> CopyOf(h, h[d].vals)
    [] m = "clear" -> Answer([PopAll(PopAll(h, h[d].keys), h[d].vals) EXCEPT ![d].length = 0],
                             Bool(TRUE))
    [] m = "copy" -> DictCopy(h, d)
    [] m = "isEmpty" -> Answer(h, Bool(h[d].length = 0))

\* The results of a member of a string or a Regex: a number or Bool, a string, an
\* array of strings, or nothing and an error.
TextMember(h) ==
  LET Pushed(g, v) == LET s == New(g.h, ScalarCell(v))
                      IN Result(Release(PushOn(s.h, g.r, s.r), s.r), g.r)
  IN {Answer(h, v) : v \in {Bool(TRUE)} \cup Strings} \cup {Result(h, Null)}
     \cup {FoldLeft(Pushed, NewArray(h), <<v>>) : v \in Strings}

-----------------------------------------------------------------------------
(* Statements.  x, y, z are variables, i an index counted from 1.          *)

\* Statements go on while the arguments of a call are evaluated.
Running == ~failed /\ steps < MaxSteps
Idle == Running /\ calls = <<>>
call == Last(calls)

Has(x, type) == vars[x] # Null /\ heap[vars[x]].type = type
Live(h) == {o \in DOMAIN h : h[o].type # "Free"}

\* Arrays of more than MaxLength elements are not followed.
ShortArrays(h) == \A o \in Live(h) : h[o].type = "Array" => Count(h, o) <= MaxLength

\* RTAllocator::allocVariable gives back what the variable held; a statement
\* that has no value assigns false.
Bind(x, e) ==
  LET Store(g, o) ==
        /\ steps' = steps + 1
        /\ vars' = [vars EXCEPT ![x] = o]
        /\ heap' = Forget(IF vars[x] = Null THEN g ELSE Release(g, vars[x]))
        /\ ShortArrays(heap')
  IN Then(IF e.r = Null THEN New(e.h, ScalarCell(Bool(FALSE))) ELSE e, Store)

\* Only the heap changes.
Become(h) == steps' = steps + 1 /\ heap' = Forget(h) /\ ShortArrays(heap') /\ UNCHANGED vars

\* A variable as the value to be stored: what it holds, or false.
Operand(h, z) == IF vars[z] = Null THEN New(h, ScalarCell(Bool(FALSE)))
                 ELSE Result(Reference(h, vars[z]), vars[z])

\* CODE_RTINTOBJCREATE makes a new object each time it is evaluated.
SetLiteral(x, v) == Running /\ Bind(x, New(heap, ScalarCell(v))) /\ UNCHANGED <<calls, failed>>

SetVariable(x, y) ==
  /\ Running /\ x # y
  /\ Bind(x, IF vars[y] = Null THEN Result(heap, Null)
             ELSE Result(Reference(heap, vars[y]), vars[y]))
  /\ UNCHANGED <<calls, failed>>

\* An array literal of the values of the variables in s.  (An element without
\* a value ends the literal in the middle of the bytecode: see Bytecode.)
ArrayLiteral(h, s) ==
  LET Fill(g, n) ==
        LET Add(g1, y) == PushOn(g1, n, vars[y])
        IN Result(FoldLeft(Add, [g EXCEPT ![n].arr = Reserve(@, Len(s))], s), n)
  IN Then(NewArray(h), Fill)

SetArray(x, s) ==
  /\ Running /\ \A i \in DOMAIN s : vars[s[i]] # Null
  /\ Bind(x, ArrayLiteral(heap, s)) /\ UNCHANGED <<calls, failed>>

\* {y: z}
SetDict(x, y, z) ==
  /\ Running /\ vars[y] # Null /\ IsKey(heap, vars[y])
  /\ Bind(x, Then(NewDict(heap), LAMBDA g, d :
             IF vars[z] = Null THEN Result(g, d) ELSE Result(DictSet(g, d, vars[y], vars[z]), d)))
  /\ UNCHANGED <<calls, failed>>

\* x = y[i] of an array or a string.  The string that is made for the result
\* is referenced once more than it is released.
IndexGet(x, y, i) ==
  /\ Running
  /\ \/ /\ Has(y, "Array")
        /\ Bind(x, IF i <= Count(heap, vars[y]) THEN Take(heap, vars[y], i)
                   ELSE Result(heap, Null))
     \/ /\ Has(y, "Scalar") /\ heap[vars[y]].kind = "Str"
        /\ \E v \in Strings :
             LET n == New(heap, ScalarCell(v))
             IN Bind(x, Result([n.h EXCEPT ![n.r].refs = 2, ![n.r].lost = 1], n.r))
  /\ UNCHANGED <<calls, failed>>

\* x = y[z] of a dictionary.
KeyGet(x, y, z) ==
  /\ Running /\ Has(y, "Dict")
  /\ vars[z] # Null /\ IsKey(heap, vars[z]) /\ KeyFits(heap, vars[y], vars[z])
  /\ Bind(x, Then(DictGet(heap, vars[y], vars[z]), LAMBDA g, o :
             IF o = Null THEN Result(g, o) ELSE Result(Reference(g, o), o)))
  /\ UNCHANGED <<calls, failed>>

\* StarbytesArrayTryGetNumeric reads no box, and makes none.
TypedIndexGet(x, y, i, kind) ==
  /\ Running /\ Has(y, "Array") /\ i <= Count(heap, vars[y])
  /\ LET arr == heap[vars[y]].arr
         num == IF IsNumeric(arr) THEN NumericValue(arr.kind, arr.data[i])
                ELSE NumberIn(heap, arr.data[i])
     IN Bind(x, IF num = Null THEN Result(heap, Null)
                ELSE Answer(heap, NumericValue(kind, ConvertNumber(kind, num.n))))
  /\ UNCHANGED <<calls, failed>>

\* y[i] = z
IndexSet(y, i, z) ==
  /\ Running /\ Has(y, "Array") /\ i <= Count(heap, vars[y])
  /\ Become(Then(Operand(heap, z), LAMBDA g, o : Release(SetAt(g, vars[y], i, o), o)))
  /\ UNCHANGED <<calls, failed>>

\* y[k] = z
KeySet(y, k, z) ==
  /\ Running /\ Has(y, "Dict")
  /\ vars[k] # Null /\ IsKey(heap, vars[k]) /\ KeyFits(heap, vars[y], vars[k])
  /\ Become(Then(Operand(heap, z), LAMBDA g, o : Release(DictSet(g, vars[y], vars[k], o), o)))
  /\ UNCHANGED <<calls, failed>>

\* StarbytesArrayTrySetNumeric: only where the array is numeric already.  The
\* value is referenced although it is handed on with the reference it has.
TypedIndexSet(y, i, z, kind) ==
  /\ Running /\ Has(y, "Array") /\ i <= Count(heap, vars[y])
  /\ vars[z] # Null /\ NumberIn(heap, vars[z]) # Null /\ IsNumeric(heap[vars[y]].arr)
  /\ LET num == NumericValue(kind, ConvertNumber(kind, heap[vars[z]].n))
         h == Affect(heap, vars[y], SetNumber(heap[vars[y]].arr, i, num))
     IN Become([h EXCEPT ![vars[z]].refs = @ + 1, ![vars[z]].lost = @ + 1])
  /\ UNCHANGED <<calls, failed>>

-----------------------------------------------------------------------------
(* Class objects.                                                          *)

\* StarbytesClassObjectNewWithFields; every field is false before the field
\* initializers and the constructor run, which are calls like any other.
NewInstance(h, c) ==
  LET n == New(h, InstCell(c, <<>>, NoProps))
      AddField(g, f) == LET b == New(g, ScalarCell(Bool(FALSE)))
                        IN [b.h EXCEPT ![n.r].fields = Append(@, b.r)]
  IN Result(FoldLeft(AddField, n.h, FieldsOf[c]), n.r)

NewObject(x, c) == Running /\ Bind(x, NewInstance(heap, c)) /\ UNCHANGED <<calls, failed>>

\* A Regex keeps its pattern and its flags as properties.
RegexLiteral(x, v) ==
  /\ Running
  /\ LET p == New(heap, ScalarCell(v))
         f == New(p.h, ScalarCell(v))
     IN Bind(x, New(f.h, InstCell("Regex", <<>>, [pattern |-> p.r, flags |-> f.r])))
  /\ UNCHANGED <<calls, failed>>

\* lookupClassFieldSlot, 0 if the class has no such field.
FieldSlot(h, o, f) ==
  IF h[o].type \in Classes /\ \E i \in DOMAIN FieldsOf[h[o].type] : FieldsOf[h[o].type][i] = f
  THEN CHOOSE i \in DOMAIN FieldsOf[h[o].type] : FieldsOf[h[o].type][i] = f ELSE 0

\* StarbytesClassObjectSetField takes over the reference to r.
SetField(h, o, slot, r) ==
  [Release(h, h[o].fields[slot]) EXCEPT ![o].fields[slot] = r]

\* StarbytesObjectAddProperty, or the property that is there is replaced.
SetProperty(h, o, f, r) ==
  IF f \in DOMAIN h[o].props THEN [Release(h, h[o].props[f]) EXCEPT ![o].props[f] = r]
  ELSE [h EXCEPT ![o].props = (f :> r) @@ @]

\* y.f = z: the object references the value once more.
MemberSet(y, f, z) ==
  /\ Running /\ vars[y] # Null /\ heap[vars[y]].type \in Classes
  /\ LET o == vars[y]
         v == Operand(heap, z)
         h == Reference(v.h, v.r)
         slot == FieldSlot(h, o, f)
     IN Become(Release(IF slot # 0 THEN SetField(h, o, slot, v.r)
                       ELSE SetProperty(h, o, f, v.r), v.r))
  /\ UNCHANGED <<calls, failed>>

\* y.length = z and its like are refused.
BuiltinMemberSet(y, z) ==
  /\ Running /\ vars[y] # Null /\ heap[vars[y]].type \in {"Array", "Dict"}
  /\ LET v == Operand(heap, z) IN Become(Release(v.h, v.r))
  /\ UNCHANGED <<calls, failed>>

\* x = y.f, false if there is no such member.
MemberGet(x, y, f) ==
  /\ Running /\ vars[y] # Null /\ IsInst(heap[vars[y]])
  /\ LET o == vars[y]
         slot == FieldSlot(heap, o, f)
     IN Bind(x, IF slot # 0 THEN Result(Reference(heap, heap[o].fields[slot]), heap[o].fields[slot])
                ELSE IF f \in DOMAIN heap[o].props
                THEN Result(Reference(heap, heap[o].props[f]), heap[o].props[f])
                ELSE Result(heap, Null))
  /\ UNCHANGED <<calls, failed>>

\* x = y.length; a site that has seen the type makes the number twice.
LengthGet(x, y, seen) ==
  /\ Running /\ vars[y] # Null /\ heap[vars[y]].type \in {"Array", "Dict"}
  /\ LET o == vars[y]
         len == IF heap[o].type = "Array" THEN Count(heap, o) ELSE heap[o].length
         first == New(heap, [ScalarCell(IntOf(len)) EXCEPT !.lost = 1])
     IN Bind(x, New(IF seen THEN first.h ELSE heap, ScalarCell(IntOf(len))))
  /\ UNCHANGED <<calls, failed>>

\* RTAllocator::clearScope, at the end of an invocation.
ClearScope ==
  /\ Idle
  /\ LET bound == SelectSeq(SetToSeq(Names), LAMBDA x : vars[x] # Null)
         Drop(g, x) == Release(g, vars[x])
     IN heap' = Forget(FoldLeft(Drop, heap, bound))
  /\ vars' = [x \in Names |-> Null]
  /\ steps' = steps + 1
  /\ UNCHANGED <<calls, failed>>

\* A native function gives back a new object, or an argument with a reference
\* for the caller, or fails; the arguments are released.
CallNative(x, y) ==
  /\ Running /\ vars[y] # Null
  /\ \E v \in {Answer(heap, Bool(TRUE)), Result(Reference(heap, vars[y]), vars[y])} : Bind(x, v)
  /\ UNCHANGED <<calls, failed>>

-----------------------------------------------------------------------------
(* Calls of members: x = y.m(i, z).                                        *)

ArrayMethods == {"push", "at", "set", "insert", "removeAt"}
ArrayViews == {"contains", "indexOf", "slice", "join"}
ArrayPlain == {"isEmpty", "pop", "clear"}
ArrayPlainViews == {"copy", "reverse"}
DictMethods == {"has", "get", "remove", "set"}
DictPlain == {"isEmpty", "keys", "values", "clear", "copy"}

\* The receiver is evaluated, and the length of an array is read.  What the
\* arguments are and where the result goes matters only when they are there;
\* an argument may be, or lead to, a call of another member.
BeginMemberInvoke(y) ==
  /\ Running /\ Len(calls) < MaxCalls /\ (Has(y, "Array") \/ Has(y, "Dict"))
  /\ calls' = Append(calls, [o |-> vars[y],
                             len |-> IF Has(y, "Array") THEN Count(heap, vars[y]) ELSE 0])
  /\ heap' = Reference(heap, vars[y])
  /\ UNCHANGED <<vars, failed, steps>>

\* The receiver is released after the member has run, the result is bound.
EndCall(x, e) ==
  /\ Bind(x, Result(Release(e.h, call.o), e.r))
  /\ calls' = Front(calls) /\ UNCHANGED failed

Receiver(type, z) ==
  Running /\ calls # <<>> /\ heap[call.o].type = type /\ vars[z] # Null

\* The length a member goes by: CODE_RTMEMBER_IVK reads it again for what only
\* looks, invokeBuiltinMember does not.
LengthSeen(m, again) ==
  IF again /\ m \in {"contains", "indexOf", "join"} THEN Count(heap, call.o) ELSE call.len

FinishArrayCall(x, m, i, z) ==
  /\ Receiver("Array", z)
  /\ ~ArrayAsserts(heap, call.o, m, i, vars[z], call.len)
  /\ EndCall(x, ArrayMember(heap, call.o, m, i, vars[z], call.len))

FinishArrayView(x, m, i, z, again) ==
  /\ Receiver("Array", z)
  /\ ~ArrayAsserts(heap, call.o, m, i, vars[z], LengthSeen(m, again))
  /\ EndCall(x, ArrayView(heap, call.o, m, i, vars[z], LengthSeen(m, again)))

\* `assert(index < len && ...)' of StarbytesArrayIndex or StarbytesArraySet.
FinishOutOfBounds(m, i, z, again) ==
  /\ Receiver("Array", z)
  /\ ArrayAsserts(heap, call.o, m, i, vars[z], LengthSeen(m, again))
  /\ failed' = TRUE /\ steps' = steps + 1
  /\ UNCHANGED <<heap, vars, calls>>

FinishDictCall(x, m, k, z) ==
  /\ Receiver("Dict", z) /\ vars[k] # Null
  /\ IsKey(heap, vars[k]) /\ KeyFits(heap, call.o, vars[k])
  /\ EndCall(x, DictMember(heap, call.o, m, vars[k], vars[z]))

\* Members without arguments.
PlainArrayCall(x, y, m) ==
  /\ Running /\ Has(y, "Array")
  /\ LET len == Count(heap, vars[y])
     IN Bind(x, IF m \in ArrayPlain THEN ArrayMember(heap, vars[y], m, 1, Null, len)
                ELSE ArrayView(heap, vars[y], m, 1, Null, len))
  /\ UNCHANGED <<calls, failed>>

PlainDictCall(x, y, m) ==
  /\ Running /\ Has(y, "Dict")
  /\ Bind(x, DictMember(heap, vars[y], m, vars[y], Null))
  /\ UNCHANGED <<calls, failed>>

\* A member of a string or a Regex.
TextCall(x, y) ==
  /\ Running /\ vars[y] # Null
  /\ heap[vars[y]].type = "Regex" \/ (Has(y, "Scalar") /\ heap[vars[y]].kind = "Str")
  /\ \E e \in TextMember(heap) : Bind(x, e)
  /\ UNCHANGED <<calls, failed>>

-----------------------------------------------------------------------------
\* Every variable is declared with a literal.
Init ==
  /\ \E first \in Declared :
       LET Declare(e, x) == LET n == New(e.h, ScalarCell(first[x]))
                            IN [h |-> n.h, vars |-> [e.vars EXCEPT ![x] = n.r]]
           declared == FoldLeft(Declare, [h |-> [o \in Ids |-> FreeCell],
                                          vars |-> [x \in Names |-> Null]], SetToSeq(Names))
       IN heap = declared.h /\ vars = declared.vars
  /\ calls = <<>>
  /\ failed = FALSE
  /\ steps = 0

FieldNames == UNION {Range(FieldsOf[c]) : c \in Classes}

Assign(x) ==
  \/ \E v \in Literals : SetLiteral(x, v)
  \/ \E y \in Names : SetVariable(x, y) \/ SetArray(x, <<y>>)
  \/ SetArray(x, <<>>)
  \/ \E y, z \in Names : SetArray(x, <<y, z>>) \/ SetDict(x, y, z)
  \/ \E c \in Classes : NewObject(x, c)
  \/ \E v \in Strings : RegexLiteral(x, v)

Read(x, y) ==
  \/ \E i \in 1..MaxLength : IndexGet(x, y, i) \/ \E kind \in {"Int", "Double"} : TypedIndexGet(x, y, i, kind)
  \/ \E z \in Names : KeyGet(x, y, z)
  \/ \E f \in FieldNames \cup Dynamic : MemberGet(x, y, f)
  \/ \E seen \in BOOLEAN : LengthGet(x, y, seen)
  \/ CallNative(x, y)
  \/ TextCall(x, y)

Write(y, z) ==
  \/ \E i \in 1..MaxLength : IndexSet(y, i, z) \/ \E kind \in {"Int", "Double"} : TypedIndexSet(y, i, z, kind)
  \/ \E k \in Names : KeySet(y, k, z)
  \/ \E f \in FieldNames \cup Dynamic : MemberSet(y, f, z)
  \/ BuiltinMemberSet(y, z)

Invoke(x, y) ==
  \/ \E m \in ArrayPlain \cup ArrayPlainViews : PlainArrayCall(x, y, m)
  \/ \E m \in DictPlain : PlainDictCall(x, y, m)

Finish(x, z) ==
  \/ \E m \in ArrayMethods, i \in 1..MaxLength : FinishArrayCall(x, m, i, z)
  \/ \E m \in ArrayViews, i \in 1..MaxLength, again \in BOOLEAN :
       FinishArrayView(x, m, i, z, again)
  \/ \E m \in DictMethods, k \in Names : FinishDictCall(x, m, k, z)
  \/ \E m \in ArrayMethods \cup ArrayViews, i \in 1..MaxLength, again \in BOOLEAN :
       FinishOutOfBounds(m, i, z, again)

Next ==
  \/ \E x \in Names : Assign(x) \/ BeginMemberInvoke(x)
  \/ \E x, y \in Names : Read(x, y) \/ Write(x, y) \/ Invoke(x, y) \/ Finish(x, y)
  \/ ClearScope

Spec == Init /\ [][Next]_vars_

-----------------------------------------------------------------------------
(* Properties.                                                             *)

\* Cells are what they are, and name cells.
TypeOK ==
  /\ DOMAIN heap = Ids
  /\ \A o \in Ids : heap[o].refs \in Nat /\ heap[o].lost \in Nat
  /\ \A o \in Live(heap) : \A r \in Range(Held(heap[o])) : r \in Live(heap)
  /\ \A x \in Names : vars[x] \in Live(heap) \cup {Null}
  /\ \A i \in DOMAIN calls : calls[i].o \in Live(heap)
  /\ failed \in BOOLEAN

Owners(o) ==
  Cardinality({x \in Names : vars[x] = o})
  + Cardinality({i \in DOMAIN calls : calls[i].o = o})
  + FoldFunction(LAMBDA n, m : n + m, 0, [p \in Live(heap) |-> Occurrences(o, Held(heap[p]))])

\* Whatever a program does with its arrays, dictionaries and objects, the count
\* of an object is the number of its owners, so that it is freed with the last
\* of them and never before; the references the code is known to lose aside.
RefsAreOwners ==
  \A o \in Ids : heap[o].refs = IF heap[o].type = "Free" THEN 0 ELSE Owners(o) + heap[o].lost

NumberOf == [o \in {o \in Live(heap) : heap[o].type = "Scalar" /\ heap[o].kind \in NumKinds}
               |-> NumericValue(heap[o].kind, heap[o].n)]

\* The boxes an array keeps agree with its numbers, in every representation.
ArraysCoherent ==
  \A o \in Live(heap) : heap[o].type = "Array" =>
    Fits(heap[o].arr) /\ Coherent(heap[o].arr, NumberOf)

KeysOf(d) == heap[heap[d].keys].arr

\* A dictionary has one value for every key, and every key once.
DictsCoherent ==
  \A d \in Live(heap) : heap[d].type = "Dict" =>
    /\ Count(heap, heap[d].keys) = heap[d].length
    /\ Count(heap, heap[d].vals) = heap[d].length
    /\ LET keys == KeysOf(d)
           key(i) == IF IsNumeric(keys) THEN keys.data[i] ELSE heap[keys.data[i]].n
       IN \A i, j \in DOMAIN keys.data : key(i) = key(j) => i = j

\* What arrays and dictionaries are made of fits together.
StorageCoherent == ArraysCoherent /\ DictsCoherent

\* A value as the program sees it: a number whatever its kind, a string or
\* Bool, the name of an object.
ValueIn(o) ==
  IF heap[o].type # "Scalar" THEN <<heap[o].type, o>>
  ELSE <<IF heap[o].kind \in NumKinds THEN "Number" ELSE heap[o].kind, heap[o].n>>
ElementsOf(a) ==
  LET arr == heap[a].arr
  IN [i \in DOMAIN arr.data |->
        IF IsNumeric(arr) THEN <<"Number", arr.data[i]>> ELSE ValueIn(arr.data[i])]

DictNames == {d \in Live(heap) : heap[d].type = "Dict"}
\* The arrays a dictionary is made of are not the program's.
ListNames == {a \in Live(heap) : heap[a].type = "Array"}
             \ UNION {{heap[d].keys, heap[d].vals} : d \in DictNames}
\* The value DictGet finds under a key.
MapOf(d) ==
  LET keys == ElementsOf(heap[d].keys) vals == ElementsOf(heap[d].vals)
      first(k) == CHOOSE i \in DOMAIN keys : keys[i] = k /\ \A j \in 1..(i - 1) : keys[j] # k
  IN [k \in Range(keys) |-> vals[first(k)]]

\* A variable that was never assigned is false.
HeldValues == {IF vars[x] = Null THEN <<"Bool", 0>> ELSE ValueIn(vars[x]) : x \in Names}
WholePart(v) == IF v[1] = "Number" THEN <<v[1], Truncated(v[2])>> ELSE v

Program == INSTANCE Collections WITH
  Converted <- WholePart,
  held <- HeldValues,
  lists <- [a \in ListNames |-> ElementsOf(a)],
  maps <- [d \in DictNames |-> MapOf(d)]

\* The departure: an argument of the running insert or removeAt has added
\* elements to the receiver.  Only the elements that were there before are
\* moved, so that of the new ones the first, or the last, is gone and another
\* value stands in the list twice.
InsertedShort(old, new, t) ==
  \E i \in DOMAIN t : t = InsertAt(old, i, t[i]) \o Tail(new) \o <<t[i]>>
RemovedShort(old, new, t) ==
  \E i \in DOMAIN old : t = RemoveAt(old, i) \o <<Last(old)>> \o Front(new)

ReceiverHasGrown ==
  /\ calls # <<>> /\ calls' = Front(calls)
  /\ \E a \in ListNames \cap ListNames' :
       /\ a = call.o
       /\ LET s == ElementsOf(a)
              old == SubSeq(s, 1, call.len)
              new == SubSeq(s, call.len + 1, Len(s))
          IN /\ new # <<>>
             /\ InsertedShort(old, new, ElementsOf(a)') \/ RemovedShort(old, new, ElementsOf(a)')
       /\ \A b \in (ListNames \cap ListNames') \ {a} : ElementsOf(b)' = ElementsOf(b)
  /\ \A d \in DictNames \cap DictNames' : MapOf(d)' = MapOf(d)

\* Through boxes, numeric storage and shared references, a statement still
\* edits one array or dictionary by one edit, with the value of a variable, and
\* no other changes with it; but for a receiver that grew under its call.
ImplementsCollections == Program!Init /\ [][Program!Statement \/ ReceiverHasGrown]_(Program!contents)

\* What the interface of the library says of the members, without exception:
\* inserting inserts an element, and removing removes one.
MembersEditOnce == Program!Spec

=============================================================================
