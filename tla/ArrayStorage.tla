--------------------------- MODULE ArrayStorage ---------------------------
(***************************************************************************)
(* The storage of one array (StarbytesArrayPriv, RTObject.c).  An array is *)
(* either Boxed, a vector of references to objects, or it keeps the bare   *)
(* numbers of one numeric kind.  A numeric array that is read as objects   *)
(* boxes a number the first time and keeps the box in `cache', so every    *)
(* write has to drop the box of what it replaces, and every change of the  *)
(* representation all of them.                                             *)
(*                                                                         *)
(* The operators say what happens to one array: `arr' afterwards, and what *)
(* its owner has to do to other objects: `drop', the objects to release;   *)
(* `keep', those to reference; `make', the boxes to create, a function     *)
(* from their names to the numbers in them.  Names of new boxes are given  *)
(* by the caller, fresh[i] for the element at i.                           *)
(*                                                                         *)
(* Numbers are counted in halves, so that a fraction is a number too.  A   *)
(* Float has FloatExact as its largest number that is still exact.  Memory *)
(* is never refused.  Positions count from 1.                              *)
(***************************************************************************)
EXTENDS Integers, Sequences, FiniteSets, Functions

CONSTANTS
  Null,           \* no object
  FirstCapacity,  \* the capacity of the first allocation, 4 in the code
  FloatExact      \* the largest number of halves that a Float holds exactly

ASSUME CapacityAssumption == FirstCapacity \in Nat \ {0}
ASSUME FloatAssumption == FloatExact \in Nat \ {0}

NumKinds == {"Int", "Long", "Float", "Double"}
Kinds == {"Boxed"} \cup NumKinds

KindRank(kind) ==
  CASE kind = "Int" -> 1 [] kind = "Long" -> 2 [] kind = "Float" -> 3
    [] kind = "Double" -> 4 [] OTHER -> 0

PromotedKind(lhs, rhs) == IF KindRank(lhs) >= KindRank(rhs) THEN lhs ELSE rhs

Abs(n) == IF n < 0 THEN -n ELSE n

\* Towards zero, the conversion to an integer type.
Truncated(n) == IF n >= 0 THEN n - (n % 2) ELSE -((-n) - ((-n) % 2))

\* To the nearest multiple of 4 halves, as a Float that is out of bits does.
RoundedToFloat(n) ==
  IF Abs(n) <= FloatExact THEN n
  ELSE LET m == 4 * ((Abs(n) + 2) \div 4) IN IF n < 0 THEN -m ELSE m

\* A number written as a number of the kind.
ConvertNumber(kind, n) ==
  IF kind \in {"Int", "Long"} THEN Truncated(n)
  ELSE IF kind = "Float" THEN RoundedToFloat(n)
  ELSE n

NumericValue(kind, n) == [kind |-> kind, n |-> n]

-----------------------------------------------------------------------------
(* An array: kind; data, its elements; cap, the elements there is memory   *)
(* for; cache, a box or Null for each of them, empty when there is none.   *)

EmptyArray == [kind |-> "Boxed", data |-> <<>>, cap |-> 0, cache |-> <<>>]

IsNumeric(arr) == arr.kind # "Boxed"
Length(arr) == Len(arr.data)

NoCache(n) == <<>> \o [i \in 1..n |-> Null]

\* The boxes of an array, as StarbytesArrayReleaseNumericCache finds them.
CachedBoxes(arr) ==
  {arr.cache[i] : i \in DOMAIN arr.cache \cap DOMAIN arr.data} \ {Null}

NoBoxes == [b \in {} |-> NumericValue("Int", 0)]
Effect(arr, drop, keep, make) ==
  [arr |-> arr, drop |-> drop, keep |-> keep, make |-> make]
Silent(arr) == Effect(arr, {}, <<>>, NoBoxes)

\* Doubled until it holds n elements.
GrownCapacity(cap, n) ==
  LET start == IF cap = 0 THEN FirstCapacity ELSE cap
      Fits(k) == start * 2^k >= n
      k0 == CHOOSE k \in 0..n : Fits(k) /\ \A j \in 0..n : Fits(j) => k <= j
  IN start * 2^k0

EnsureCapacity(arr, n) ==
  IF n <= arr.cap THEN arr
  ELSE LET cap == GrownCapacity(arr.cap, n)
       IN [arr EXCEPT !.cap = cap,
                      !.cache = IF IsNumeric(arr) THEN @ \o NoCache(cap - Len(@)) ELSE @]

\* Only an array without elements is given another kind like this.
AdoptNumericKind(arr, kind) ==
  IF arr.kind = kind THEN arr ELSE [EmptyArray EXCEPT !.kind = kind]

Converted(data, kind) == <<>> \o [i \in DOMAIN data |-> ConvertNumber(kind, data[i])]

\* Faulty: there is new memory, and nothing in it.
ConvertForgetting(arr, kind) ==
  IF arr.kind = kind THEN Silent(arr)
  ELSE Effect([arr EXCEPT !.kind = kind,
                          !.data = <<>> \o [i \in DOMAIN arr.data |-> 0],
                          !.cache = NoCache(arr.cap)],
              CachedBoxes(arr), <<>>, NoBoxes)

ConvertNumericKind(arr, kind) ==
  IF arr.kind = kind THEN Silent(arr)
  ELSE Effect([arr EXCEPT !.kind = kind,
                          !.data = Converted(arr.data, kind),
                          !.cache = NoCache(arr.cap)],
              CachedBoxes(arr), <<>>, NoBoxes)

\* The boxes there are become the elements, the other numbers are boxed.
MaterializeBoxed(arr, fresh) ==
  IF ~IsNumeric(arr) THEN Silent(arr)
  ELSE LET unboxed == {i \in DOMAIN arr.data : arr.cache[i] = Null}
           number(b) == arr.data[CHOOSE i \in unboxed : fresh[i] = b]
           boxes == [i \in DOMAIN arr.data |->
                       IF i \in unboxed THEN fresh[i] ELSE arr.cache[i]]
       IN Effect([arr EXCEPT !.kind = "Boxed", !.cache = <<>>, !.data = <<>> \o boxes],
                 {}, <<>>,
                 [b \in {fresh[i] : i \in unboxed} |-> NumericValue(arr.kind, number(b))])

\* Faulty: the box of the number that was there stays.
WriteKeepingBox(arr, i, n) ==
  Silent([arr EXCEPT !.data[i] = ConvertNumber(arr.kind, n)])

\* StarbytesArrayWriteNumericValue and StarbytesArrayInvalidateNumericCache.
WriteNumber(arr, i, n) ==
  Effect([arr EXCEPT !.data[i] = ConvertNumber(arr.kind, n), !.cache[i] = Null],
         {arr.cache[i]} \ {Null}, <<>>, NoBoxes)

-----------------------------------------------------------------------------
(* What the interpreter calls.  num is the number in obj, Null if obj is   *)
(* not a number.                                                           *)

PushNumber(arr, num) ==
  LET wide == IF IsNumeric(arr) THEN ConvertNumericKind(arr, PromotedKind(arr.kind, num.kind))
              ELSE Silent(arr)
      next == Length(arr) + 1
      grown == EnsureCapacity(wide.arr, next)
      longer == [grown EXCEPT !.data = Append(@, ConvertNumber(grown.kind, num.n)),
                              !.cache[next] = Null]
  IN Effect(longer, wide.drop \cup ({grown.cache[next]} \ {Null}), <<>>, NoBoxes)

PushObject(arr, obj, fresh) ==
  LET boxed == MaterializeBoxed(arr, fresh)
      grown == EnsureCapacity(boxed.arr, Length(arr) + 1)
  IN Effect([grown EXCEPT !.data = Append(@, obj)], boxed.drop, <<obj>>, boxed.make)

Push(arr, obj, num, fresh) ==
  LET ready == IF num # Null /\ Length(arr) = 0 THEN AdoptNumericKind(arr, num.kind) ELSE arr
  IN IF num # Null /\ IsNumeric(ready) THEN PushNumber(ready, num)
     ELSE PushObject(ready, obj, fresh)

Pop(arr) ==
  IF Length(arr) = 0 THEN Silent(arr)
  ELSE LET last == Length(arr)
           shorter == [arr EXCEPT !.data = SubSeq(@, 1, last - 1)]
       IN IF IsNumeric(arr)
          THEN Effect([shorter EXCEPT !.cache[last] = Null],
                      {arr.cache[last]} \ {Null}, <<>>, NoBoxes)
          ELSE Effect(shorter, {arr.data[last]}, <<>>, NoBoxes)

\* StarbytesArrayIndex gives the object at i, which the array goes on owning:
\* the element itself or the box it has made for it.
Index(arr, i, box) ==
  IF IsNumeric(arr) /\ arr.cache[i] = Null
  THEN Effect([arr EXCEPT !.cache[i] = box], {}, <<>>,
              [b \in {box} |-> NumericValue(arr.kind, arr.data[i])])
  ELSE Silent(arr)

ObjectAt(arr, i) == IF IsNumeric(arr) THEN arr.cache[i] ELSE arr.data[i]

SetNumber(arr, i, num) ==
  LET wide == ConvertNumericKind(arr, PromotedKind(arr.kind, num.kind))
      written == WriteNumber(wide.arr, i, num.n)
  IN [written EXCEPT !.drop = @ \cup wide.drop]

SetObject(arr, i, obj, fresh) ==
  LET boxed == MaterializeBoxed(arr, fresh)
  IN Effect([boxed.arr EXCEPT !.data[i] = obj], {boxed.arr.data[i]}, <<obj>>, boxed.make)

Set(arr, i, obj, num, fresh) ==
  IF num # Null /\ IsNumeric(arr) THEN SetNumber(arr, i, num)
  ELSE SetObject(arr, i, obj, fresh)

\* The copy of an array starts without boxes.
Copy(arr) ==
  IF Length(arr) = 0 THEN Silent(EmptyArray)
  ELSE LET cap == GrownCapacity(0, Length(arr))
       IN Effect([arr EXCEPT !.cap = cap,
                             !.cache = IF IsNumeric(arr) THEN NoCache(cap) ELSE <<>>],
                 {}, IF IsNumeric(arr) THEN <<>> ELSE arr.data, NoBoxes)

\* StarbytesArrayReserve.
Reserve(arr, n) == EnsureCapacity(arr, n)

-----------------------------------------------------------------------------
(* What has to hold of every array: there is memory for the elements, and  *)
(* a box that is kept boxes the number of its element.                     *)

Fits(arr) ==
  /\ Length(arr) <= arr.cap
  /\ DOMAIN arr.cache = IF IsNumeric(arr) THEN 1..arr.cap ELSE {}
  /\ IsNumeric(arr) => \A i \in DOMAIN arr.data : arr.data[i] = ConvertNumber(arr.kind, arr.data[i])

\* number(b) is what is in the box b.
Coherent(arr, number) ==
  \A i \in DOMAIN arr.cache : arr.cache[i] # Null =>
    /\ i \in DOMAIN arr.data
    /\ arr.cache[i] \in DOMAIN number
    /\ number[arr.cache[i]] = NumericValue(arr.kind, arr.data[i])
=============================================================================
