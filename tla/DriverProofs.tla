---------------------------- MODULE DriverProofs ----------------------------
(***************************************************************************)
(* The driver for any directories, versions, imports, command lines and    *)
(* numbers of slots, however contents change while modules are discovered  *)
(* and wherever earlier invocations ended: the build order, what a linked  *)
(* program was compiled from, and what a build reports in error.           *)
(***************************************************************************)
EXTENDS Driver, FiniteSetTheorems, SequenceTheorems, NaturalsInduction, WellFoundedInduction, TLAPS

Versions(d) == Contents(d) \cup {0, 1}

(* The traversal's frames.                                                 *)
Frames ==
  [dir : Dirs, version : UNION {Versions(d) : d \in Dirs}, todo : Seq(STRING), deps : Seq(Dirs)]

(* Of the names that version v of d imports, those in todo are still to be *)
(* looked up; the others are served by deps, and deps serve nothing else.  *)
Serves(d, v, deps, todo) ==
  /\ v \in Versions(d)
  /\ Range0(todo) \subseteq Range0(Names(d, v))
  /\ \A n \in Range0(Names(d, v)) :
       n \in Range0(todo) \/ Range0(deps) \cap Range0(Candidates(d, n)) # {}
  /\ \A e \in Range0(deps) : \E n \in Range0(Names(d, v)) : e \in Range0(Candidates(d, n))

(* What an analysis cache says of a content is what that content imports.  *)
Truthful(c) ==
  /\ DOMAIN c \subseteq Dirs
  /\ \A d \in DOMAIN c : c[d].imports = Names(d, c[d].hash)

ContentOK ==
  /\ DOMAIN content = Dirs
  /\ \A d \in Dirs : content[d] \in Versions(d)

FrameOK(f) == f \in Frames /\ Serves(f.dir, f.version, f.deps, f.todo)

(* A directory that is being visited is on the stack once and no module    *)
(* yet; what it depends on is a module, or the directory visited from it.  *)
StackOK ==
  /\ stack \in Seq(Frames)
  /\ \A i \in 1 .. Len(stack) :
       /\ FrameOK(stack[i]) /\ stack[i].dir \notin DOMAIN units
       /\ \A e \in Range0(stack[i].deps) :
            e \in DOMAIN units \/ (i > 1 /\ e = stack[i - 1].dir)
  /\ \A i, j \in 1 .. Len(stack) : stack[i].dir = stack[j].dir => i = j

UnitOK(d) == units[d].deps \in Seq(Dirs) /\ Serves(d, units[d].version, units[d].deps, None)

(* Modules are in the order once, each after what it depends on.           *)
OrderOK ==
  /\ order \in Seq(Dirs) /\ Range0(order) = DOMAIN units
  /\ IsFiniteSet(DOMAIN units) /\ Len(order) = Cardinality(DOMAIN units)
  /\ \A d \in DOMAIN units : UnitOK(d)
  /\ \A i \in 1 .. Len(order) : \A e \in Range0(units[order[i]].deps) :
       \E j \in 1 .. Len(order) : j < i /\ order[j] = e

Discovery ==
  /\ pc # "discovering" => stack = None
  /\ pc = "idle" => units = None /\ order = None

IInv ==
  /\ ContentOK /\ Truthful(analysis) /\ Truthful(cache)
  /\ StackOK /\ OrderOK /\ Discovery
-----------------------------------------------------------------------------
LEMMA NamesAre ==
  ASSUME NEW d \in Dirs, NEW v \in Versions(d)
  PROVE  /\ Names(d, v) \in Seq(STRING)
         /\ \A n \in Range0(Names(d, v)) : Candidates(d, n) \in Seq(Dirs)
BY ImportsAssumption DEF Versions, Range0

(* Members of sequences that are put together.                             *)
LEMMA Pushed ==
  ASSUME NEW S, NEW s \in Seq(S), s # << >>, NEW x \in S, NEW y \in S,
         NEW t, t = <<y, x>> \o Tail(s)
  PROVE  /\ t \in Seq(S) /\ Len(t) = Len(s) + 1 /\ t[1] = y /\ t[2] = x
         /\ \A i \in 3 .. Len(t) : t[i] = s[i - 1]
OBVIOUS

LEMMA Replaced ==
  ASSUME NEW S, NEW s \in Seq(S), s # << >>, NEW x \in S, NEW t, t = <<x>> \o Tail(s)
  PROVE  /\ t \in Seq(S) /\ Len(t) = Len(s) /\ t[1] = x
         /\ \A i \in 2 .. Len(t) : t[i] = s[i]
OBVIOUS

LEMMA Popped ==
  ASSUME NEW S, NEW s \in Seq(S), s # << >>
  PROVE  /\ Tail(s) \in Seq(S) /\ Len(Tail(s)) = Len(s) - 1
         /\ \A i \in 1 .. Len(Tail(s)) : Tail(s)[i] = s[i + 1]
OBVIOUS

LEMMA LastPopped ==
  ASSUME NEW S, NEW s \in Seq(S), s # << >>, ~(Len(s) > 1)
  PROVE  Tail(s) = << >>
<1>1. Len(s) \in Nat /\ Len(s) # 0
  BY EmptySeq
<1>2. \A n \in Nat : n = 0 \/ n = 1 \/ n > 1
  OBVIOUS
<1>3. Len(s) = 1
  BY <1>1, <1>2
<1>4. Tail(s) \in Seq(S) /\ Len(Tail(s)) = 0
  BY <1>3, Popped
<1>5. QED
  BY <1>4, EmptySeq

LEMMA AddToRange ==
  ASSUME NEW S, NEW s \in Seq(S), NEW e \in S
  PROVE  AddTo(s, e) \in Seq(S) /\ Range0(AddTo(s, e)) = Range0(s) \cup {e}
<1>1. CASE e \in Range0(s)
  BY <1>1 DEF AddTo
<1>2. CASE e \notin Range0(s)
  <2>1. AddTo(s, e) = Append(s, e)
    BY <1>2 DEF AddTo
  <2>2. Append(s, e) \in Seq(S) /\ Len(Append(s, e)) = Len(s) + 1 /\ Append(s, e)[Len(s) + 1] = e
    OBVIOUS
  <2>3. \A i \in 1 .. Len(s) : Append(s, e)[i] = s[i]
    OBVIOUS
  <2>4. Range0(Append(s, e)) = Range0(s) \cup {e}
    BY <2>2, <2>3 DEF Range0
  <2>5. QED
    BY <2>1, <2>2, <2>4
<1>3. QED
  BY <1>1, <1>2

LEMMA TodoShrinks ==
  ASSUME NEW S, NEW s \in Seq(S), s # << >>
  PROVE  /\ Head(s) \in S /\ Tail(s) \in Seq(S)
         /\ Range0(s) = {Head(s)} \cup Range0(Tail(s))
<1>1. Head(s) = s[1] /\ Head(s) \in S /\ Len(s) \in Nat /\ Len(s) > 0
  OBVIOUS
<1>2. Tail(s) \in Seq(S) /\ Len(Tail(s)) = Len(s) - 1 /\ \A i \in 1 .. Len(s) - 1 : Tail(s)[i] = s[i + 1]
  OBVIOUS
<1>3. \A i \in 1 .. Len(s) : i = 1 \/ (i - 1 \in 1 .. Len(s) - 1 /\ s[i] = Tail(s)[i - 1])
  BY <1>1, <1>2
<1>4. \A i \in 1 .. Len(s) - 1 : i + 1 \in 1 .. Len(s)
  BY <1>1
<1>5. \A x : x \in Range0(s) => x = Head(s) \/ x \in Range0(Tail(s))
  BY <1>1, <1>2, <1>3 DEF Range0
<1>6. \A x : x \in Range0(Tail(s)) => x \in Range0(s)
  BY <1>1, <1>2, <1>4 DEF Range0
<1>7. Head(s) \in Range0(s)
  BY <1>1 DEF Range0
<1>8. QED
  BY <1>1, <1>2, <1>5, <1>6, <1>7

LEMMA VisitOK ==
  ASSUME ContentOK, NEW c, Truthful(c), NEW d \in Dirs, NEW flags
  PROVE  /\ FrameOK(Visit(c, d, flags)) /\ Visit(c, d, flags).dir = d
         /\ Range0(Visit(c, d, flags).deps) = {}
         /\ Truthful(Remembered(c, d, flags))
<1> DEFINE f == Visit(c, d, flags)
<1>1. content[d] \in Versions(d)
  BY DEF ContentOK
<1>2. Names(d, content[d]) \in Seq(STRING)
  BY <1>1, NamesAre
<1>3. ImportsOf(c, d, flags) = Names(d, content[d])
  BY DEF ImportsOf, CachedImports, Truthful
<1>4. /\ f.dir = d /\ f.version = content[d]
      /\ f.todo = Names(d, content[d]) /\ f.deps = None
  BY <1>3 DEF Visit
<1>5. Range0(None) = {}
  BY DEF Range0, None
<1>6. f \in Frames
  <2>1. content[d] \in UNION {Versions(e) : e \in Dirs}
    BY <1>1
  <2>2. None \in Seq(Dirs)
    BY DEF None
  <2>3. f = [dir |-> d, version |-> content[d], todo |-> Names(d, content[d]), deps |-> None]
    BY <1>3 DEF Visit
  <2> HIDE DEF f
  <2>4. QED
    BY <1>2, <2>1, <2>2, <2>3 DEF Frames
<1> HIDE DEF f
<1>7. FrameOK(f)
  BY <1>1, <1>4, <1>5, <1>6 DEF FrameOK, Serves
<1>8. Truthful(Remembered(c, d, flags))
  <2> DEFINE entry == [hash |-> content[d], flags |-> flags, imports |-> ImportsOf(c, d, flags)]
  <2>1. entry.hash = content[d] /\ entry.imports = Names(d, content[d])
    BY <1>3
  <2>2. Remembered(c, d, flags) = With(c, d, entry)
    BY DEF Remembered
  <2> HIDE DEF entry
  <2> DEFINE new == With(c, d, entry)
  <2>3. DOMAIN new = DOMAIN c \cup {d} /\ new[d] = entry /\ \A e \in DOMAIN c \ {d} : new[e] = c[e]
    BY DEF With
  <2> HIDE DEF new
  <2>4. \A e \in DOMAIN new : new[e].imports = Names(e, new[e].hash)
    BY <2>1, <2>3 DEF Truthful
  <2>5. Truthful(new)
    BY <2>3, <2>4 DEF Truthful
  <2>6. QED
    BY <2>2, <2>5 DEF new
<1>9. QED
  BY <1>4, <1>5, <1>7, <1>8 DEF f

(* An import that is looked up is served by the directory that is found.   *)
LEMMA ToldOK ==
  ASSUME NEW top, FrameOK(top), top.todo # None, NEW told,
         NEW d \in Resolved(top.dir, Head(top.todo)),
         told = [top EXCEPT !.todo = Tail(@), !.deps = AddTo(@, d)]
  PROVE  /\ d \in Dirs /\ FrameOK(told) /\ told.dir = top.dir
         /\ Range0(told.deps) = Range0(top.deps) \cup {d}
<1> DEFINE n == Head(top.todo)
<1>1. /\ top \in Frames /\ top.dir \in Dirs /\ top.todo \in Seq(STRING)
      /\ top.deps \in Seq(Dirs) /\ top.version \in Versions(top.dir)
  BY DEF FrameOK, Frames, Serves
<1>2. n \in Range0(top.todo) /\ Range0(top.todo) = {n} \cup Range0(Tail(top.todo))
  BY <1>1, TodoShrinks DEF None
<1>3. Tail(top.todo) \in Seq(STRING)
  BY <1>1, TodoShrinks DEF None
<1>4. n \in Range0(Names(top.dir, top.version))
  BY <1>2 DEF FrameOK, Serves
<1>5. Candidates(top.dir, n) \in Seq(Dirs)
  BY <1>1, <1>4, NamesAre
<1>6. d \in Range0(Candidates(top.dir, n)) /\ d \in Dirs
  BY <1>5 DEF Resolved, Range0
<1>7. AddTo(top.deps, d) \in Seq(Dirs) /\ Range0(AddTo(top.deps, d)) = Range0(top.deps) \cup {d}
  <2>1. \A q \in Seq(Dirs) : \A e \in Dirs :
          AddTo(q, e) \in Seq(Dirs) /\ Range0(AddTo(q, e)) = Range0(q) \cup {e}
    BY AddToRange
  <2>2. QED
    BY <1>1, <1>6, <2>1
<1>8. /\ told.dir = top.dir /\ told.version = top.version
      /\ told.todo = Tail(top.todo) /\ told.deps = AddTo(top.deps, d)
      /\ told \in Frames
  <2> DEFINE new == AddTo(top.deps, d)
             rest == Tail(top.todo)
  <2>1. told = [top EXCEPT !.todo = rest, !.deps = new]
    OBVIOUS
  <2>2. new \in Seq(Dirs) /\ rest \in Seq(STRING)
    BY <1>3, <1>7
  <2> HIDE DEF new, rest
  <2>3. told.dir = top.dir /\ told.version = top.version /\ told.todo = rest /\ told.deps = new
    BY <1>1, <2>1 DEF Frames
  <2>4. told \in Frames
    BY <1>1, <2>1, <2>2 DEF Frames
  <2>5. QED
    BY <2>3, <2>4 DEF new, rest
<1> HIDE DEF n
<1>9. Serves(told.dir, told.version, told.deps, told.todo)
  <2> DEFINE names == Range0(Names(top.dir, top.version))
  <2>1. /\ Range0(top.todo) \subseteq names
        /\ \A m \in names :
             m \in Range0(top.todo) \/ Range0(top.deps) \cap Range0(Candidates(top.dir, m)) # {}
        /\ \A e \in Range0(top.deps) : \E m \in names : e \in Range0(Candidates(top.dir, m))
    BY DEF FrameOK, Serves
  <2>2. n \in names
    BY <1>4
  <2> HIDE DEF names
  <2>3. Range0(told.todo) \subseteq names
    BY <1>2, <1>8, <2>1
  <2>4. \A m \in names :
          m \in Range0(told.todo) \/ Range0(told.deps) \cap Range0(Candidates(top.dir, m)) # {}
    BY <1>2, <1>6, <1>7, <1>8, <2>1
  <2>5. \A e \in Range0(told.deps) : \E m \in names : e \in Range0(Candidates(top.dir, m))
    BY <1>6, <1>7, <1>8, <2>1, <2>2
  <2>6. QED
    BY <1>1, <1>8, <2>3, <2>4, <2>5 DEF Serves, names
<1>10. QED
  BY <1>6, <1>7, <1>8, <1>9 DEF FrameOK
-----------------------------------------------------------------------------
(* A directory below the top of the stack depends on modules and on the    *)
(* one above it; the stack stays as it should be when its top is told of a *)
(* module, when a directory is pushed on it, and when its top is left.     *)
LEMMA TellOK ==
  ASSUME StackOK, stack # None, NEW told, FrameOK(told), told.dir = stack[1].dir,
         NEW d \in DOMAIN units, Range0(told.deps) = Range0(stack[1].deps) \cup {d},
         stack' = <<told>> \o Tail(stack), units' = units
  PROVE  StackOK'
<1>1. stack \in Seq(Frames) /\ told \in Frames
  BY DEF StackOK, FrameOK
<1>2. /\ stack' \in Seq(Frames) /\ Len(stack') = Len(stack) /\ stack'[1] = told
      /\ \A i \in 2 .. Len(stack') : stack'[i] = stack[i]
  BY <1>1, Replaced DEF None
<1>3. Len(stack) \in Nat /\ Len(stack) > 0
  BY <1>1 DEF None
<1>4. \A i \in 1 .. Len(stack') : stack'[i].dir = stack[i].dir
  BY <1>2, <1>3
<1>5. ASSUME NEW i \in 1 .. Len(stack')
      PROVE  /\ FrameOK(stack'[i]) /\ stack'[i].dir \notin DOMAIN units'
             /\ \A e \in Range0(stack'[i].deps) :
                  e \in DOMAIN units' \/ (i > 1 /\ e = stack'[i - 1].dir)
  <2>1. i \in 1 .. Len(stack)
    BY <1>2
  <2>2. CASE i = 1
    BY <1>2, <1>4, <2>1, <2>2 DEF StackOK
  <2>3. CASE i # 1
    <3>1. i \in 2 .. Len(stack') /\ i - 1 \in 1 .. Len(stack') /\ i > 1
      BY <1>2, <1>3, <2>1, <2>3
    <3>2. stack'[i] = stack[i] /\ stack'[i - 1].dir = stack[i - 1].dir
      BY <1>2, <1>4, <3>1
    <3>3. QED
      BY <2>1, <3>1, <3>2 DEF StackOK
  <2>4. QED
    BY <2>2, <2>3
<1>6. \A i, j \in 1 .. Len(stack') : stack'[i].dir = stack'[j].dir => i = j
  BY <1>2, <1>4 DEF StackOK
<1>7. QED
  BY <1>2, <1>5, <1>6 DEF StackOK

LEMMA PushOK ==
  ASSUME StackOK, stack # None, NEW told, FrameOK(told), told.dir = stack[1].dir,
         NEW top, FrameOK(top), Range0(top.deps) = {}, top.dir \notin DOMAIN units,
         \A i \in 1 .. Len(stack) : top.dir # stack[i].dir,
         Range0(told.deps) = Range0(stack[1].deps) \cup {top.dir},
         stack' = <<top, told>> \o Tail(stack), units' = units
  PROVE  StackOK'
<1>1. stack \in Seq(Frames) /\ told \in Frames /\ top \in Frames
  BY DEF StackOK, FrameOK
<1>2. /\ stack' \in Seq(Frames) /\ Len(stack') = Len(stack) + 1
      /\ stack'[1] = top /\ stack'[2] = told
      /\ \A i \in 3 .. Len(stack') : stack'[i] = stack[i - 1]
  BY <1>1, Pushed DEF None
<1>3. Len(stack) \in Nat /\ Len(stack) > 0
  BY <1>1 DEF None
<1>4. \A i \in 2 .. Len(stack') : i - 1 \in 1 .. Len(stack) /\ stack'[i].dir = stack[i - 1].dir
  BY <1>2, <1>3
<1>5. ASSUME NEW i \in 1 .. Len(stack')
      PROVE  /\ FrameOK(stack'[i]) /\ stack'[i].dir \notin DOMAIN units'
             /\ \A e \in Range0(stack'[i].deps) :
                  e \in DOMAIN units' \/ (i > 1 /\ e = stack'[i - 1].dir)
  <2>1. CASE i = 1
    BY <1>2, <2>1
  <2>2. CASE i = 2
    <3>1. 1 \in 1 .. Len(stack) /\ 2 > 1 /\ 2 - 1 = 1
      BY <1>3
    <3>2. /\ stack[1].dir \notin DOMAIN units
          /\ \A e \in Range0(stack[1].deps) : e \in DOMAIN units
      BY <3>1 DEF StackOK
    <3>3. QED
      BY <1>2, <2>2, <3>1, <3>2
  <2>3. CASE i # 1 /\ i # 2
    <3>1. /\ i \in 3 .. Len(stack') /\ i - 1 \in 2 .. Len(stack') /\ i > 1
          /\ i - 1 \in 1 .. Len(stack) /\ i - 1 > 1 /\ (i - 1) - 1 = i - 2
      BY <1>2, <1>3, <2>3
    <3>2. stack'[i] = stack[i - 1] /\ stack'[i - 1].dir = stack[(i - 1) - 1].dir
      BY <1>2, <1>4, <3>1
    <3>3. QED
      BY <3>1, <3>2 DEF StackOK
  <2>4. QED
    BY <2>1, <2>2, <2>3
<1>6. ASSUME NEW i \in 1 .. Len(stack'), NEW j \in 1 .. Len(stack'), stack'[i].dir = stack'[j].dir
      PROVE  i = j
  <2>1. \A k \in 1 .. Len(stack') : k = 1 \/ k \in 2 .. Len(stack')
    BY <1>2, <1>3
  <2>2. CASE i = 1 \/ j = 1
    <3>1. \A k \in 2 .. Len(stack') : stack'[k].dir # top.dir
      BY <1>4
    <3>2. stack'[1].dir = top.dir
      BY <1>2
    <3>3. QED
      BY <1>6, <2>1, <2>2, <3>1, <3>2
  <2>3. CASE i # 1 /\ j # 1
    <3>1. i - 1 = j - 1
      BY <1>4, <1>6, <2>1, <2>3 DEF StackOK
    <3>2. QED
      BY <3>1
  <2>4. QED
    BY <2>2, <2>3
<1>7. QED
  BY <1>2, <1>5, <1>6 DEF StackOK

LEMMA PopOK ==
  ASSUME StackOK, stack # None, stack' = Tail(stack), DOMAIN units' = DOMAIN units \cup {stack[1].dir}
  PROVE  StackOK'
<1>1. stack \in Seq(Frames)
  BY DEF StackOK
<1>2. /\ stack' \in Seq(Frames) /\ Len(stack') = Len(stack) - 1
      /\ \A i \in 1 .. Len(stack') : stack'[i] = stack[i + 1]
  BY <1>1, Popped DEF None
<1>3. Len(stack) \in Nat /\ Len(stack) > 0
  BY <1>1 DEF None
<1>4. \A i \in 1 .. Len(stack') : i + 1 \in 1 .. Len(stack) /\ i + 1 # 1 /\ 1 \in 1 .. Len(stack)
  BY <1>2, <1>3
<1>5. ASSUME NEW i \in 1 .. Len(stack')
      PROVE  /\ FrameOK(stack'[i]) /\ stack'[i].dir \notin DOMAIN units'
             /\ \A e \in Range0(stack'[i].deps) :
                  e \in DOMAIN units' \/ (i > 1 /\ e = stack'[i - 1].dir)
  <2>1. stack'[i] = stack[i + 1] /\ FrameOK(stack'[i])
    BY <1>2, <1>4 DEF StackOK
  <2>2. stack[i + 1].dir \notin DOMAIN units /\ stack[i + 1].dir # stack[1].dir
    BY <1>4 DEF StackOK
  <2>3. ASSUME NEW e \in Range0(stack'[i].deps)
        PROVE  e \in DOMAIN units' \/ (i > 1 /\ e = stack'[i - 1].dir)
    <3>1. e \in DOMAIN units \/ e = stack[(i + 1) - 1].dir
      BY <1>4, <2>1 DEF StackOK
    <3>2. (i + 1) - 1 = i
      BY <1>2
    <3>3. CASE i = 1
      BY <3>1, <3>2, <3>3
    <3>4. CASE i # 1
      <4>1. i - 1 \in 1 .. Len(stack') /\ i > 1 /\ (i - 1) + 1 = i
        BY <1>2, <1>3, <3>4
      <4>2. stack'[i - 1] = stack[i]
        BY <1>2, <4>1
      <4>3. QED
        BY <3>1, <3>2, <4>1, <4>2
    <3>5. QED
      BY <3>3, <3>4
  <2>4. QED
    BY <2>1, <2>2, <2>3
<1>6. ASSUME NEW i \in 1 .. Len(stack'), NEW j \in 1 .. Len(stack'), stack'[i].dir = stack'[j].dir
      PROVE  i = j
  <2>1. i + 1 = j + 1
    BY <1>2, <1>4, <1>6 DEF StackOK
  <2>2. QED
    BY <2>1
<1>7. QED
  BY <1>2, <1>5, <1>6 DEF StackOK

(* A directory whose imports are known joins the order as a new module.    *)
LEMMA JoinOK ==
  ASSUME OrderOK, NEW d \in Dirs, d \notin DOMAIN units, NEW unit, unit.deps \in Seq(Dirs),
         Serves(d, unit.version, unit.deps, None), Range0(unit.deps) \subseteq DOMAIN units,
         units' = With(units, d, unit), order' = Append(order, d)
  PROVE  OrderOK'
<1>1. /\ DOMAIN units' = DOMAIN units \cup {d} /\ units'[d] = unit
      /\ \A e \in DOMAIN units \ {d} : units'[e] = units[e]
  BY DEF With
<1>2. order \in Seq(Dirs) /\ Range0(order) = DOMAIN units
  BY DEF OrderOK
<1>3. /\ order' \in Seq(Dirs) /\ Len(order') = Len(order) + 1 /\ order'[Len(order')] = d
      /\ \A i \in 1 .. Len(order) : order'[i] = order[i]
  BY <1>2
<1>4. Len(order) \in Nat
  BY <1>2
<1>5. \A i \in 1 .. Len(order') : i = Len(order') \/ i \in 1 .. Len(order)
  BY <1>3, <1>4
<1>6. \A i \in 1 .. Len(order) : i \in 1 .. Len(order') /\ i < Len(order')
  BY <1>3, <1>4
<1>7. Len(order') \in 1 .. Len(order')
  BY <1>3, <1>4
<1>8. Range0(order') = DOMAIN units'
  <2>1. \A x : x \in Range0(order') => x = d \/ x \in Range0(order)
    BY <1>3, <1>5 DEF Range0
  <2>2. \A x : x \in Range0(order) => x \in Range0(order')
    BY <1>3, <1>6 DEF Range0
  <2>3. d \in Range0(order')
    BY <1>3, <1>7 DEF Range0
  <2>4. QED
    BY <1>1, <1>2, <2>1, <2>2, <2>3
<1>9. IsFiniteSet(DOMAIN units') /\ Len(order') = Cardinality(DOMAIN units')
  <2>1. IsFiniteSet(DOMAIN units) /\ Len(order) = Cardinality(DOMAIN units)
    BY DEF OrderOK
  <2>2. /\ IsFiniteSet(DOMAIN units \cup {d})
        /\ Cardinality(DOMAIN units \cup {d}) = Cardinality(DOMAIN units) + 1
    BY <2>1, FS_AddElement
  <2>3. QED
    BY <1>1, <1>3, <2>1, <2>2
<1>10. ASSUME NEW e \in DOMAIN units'
       PROVE  UnitOK(e)'
  <2>1. CASE e = d
    BY <1>1, <2>1 DEF UnitOK
  <2>2. CASE e # d
    BY <1>1, <2>2 DEF UnitOK, OrderOK
  <2>3. QED
    BY <2>1, <2>2
<1>11. ASSUME NEW i \in 1 .. Len(order'), NEW e \in Range0(units'[order'[i]].deps)
       PROVE  \E j \in 1 .. Len(order') : j < i /\ order'[j] = e
  <2>1. CASE i = Len(order')
    <3>1. units'[order'[i]] = unit
      BY <1>1, <1>3, <2>1
    <3>2. e \in Range0(order)
      BY <1>2, <3>1
    <3>3. PICK j \in 1 .. Len(order) : order[j] = e
      BY <3>2 DEF Range0
    <3>4. QED
      BY <1>3, <1>6, <2>1, <3>3
  <2>2. CASE i # Len(order')
    <3>1. i \in 1 .. Len(order)
      BY <1>5, <2>2
    <3>2. order'[i] = order[i] /\ order[i] \in DOMAIN units
      BY <1>2, <1>3, <3>1 DEF Range0
    <3>3. units'[order'[i]] = units[order[i]]
      BY <1>1, <3>2
    <3>4. PICK j \in 1 .. Len(order) : j < i /\ order[j] = e
      BY <3>1, <3>3 DEF OrderOK
    <3>5. QED
      BY <1>3, <1>6, <3>4
  <2>3. QED
    BY <2>1, <2>2
<1>12. QED
  BY <1>3, <1>8, <1>9, <1>10, <1>11 DEF OrderOK

LEMMA NothingOK ==
  ASSUME stack = None, units = None, order = None
  PROVE  StackOK /\ OrderOK
<1>1. /\ None \in Seq(Frames) /\ None \in Seq(Dirs) /\ Len(None) = 0
      /\ Range0(None) = {} /\ DOMAIN None = {}
  BY DEF None, Range0
<1>2. IsFiniteSet({}) /\ Cardinality({}) = 0
  BY FS_EmptySet
<1>3. 1 .. 0 = {}
  OBVIOUS
<1>4. QED
  BY <1>1, <1>2, <1>3 DEF StackOK, OrderOK

LEMMA TruthfulParts ==
  ASSUME NEW c, Truthful(c), NEW kept \in SUBSET DOMAIN c
  PROVE  Truthful(Restrict(c, kept))
BY DEF Truthful, Restrict

LEMMA NoneIsTruthful ==
  Truthful(None)
BY DEF Truthful, None
-----------------------------------------------------------------------------
LEMMA ExitOK ==
  ASSUME IInv, Exit, UNCHANGED content, Truthful(analysis')
  PROVE  IInv'
<1>1. /\ pc' = "idle" /\ cache' = None
      /\ stack' = None /\ units' = None /\ order' = None
  BY DEF Exit
<1>2. /\ None \in Seq(Frames) /\ None \in Seq(Dirs) /\ Len(None) = 0
      /\ Range0(None) = {} /\ DOMAIN None = {}
  BY DEF None, Range0
<1>3. IsFiniteSet({}) /\ Cardinality({}) = 0 /\ 1 .. 0 = {}
  BY FS_EmptySet
<1>4. StackOK' /\ OrderOK'
  BY <1>1, <1>2, <1>3 DEF StackOK, OrderOK
<1>5. QED
  BY <1>1, <1>4, NoneIsTruthful DEF IInv, ContentOK, Discovery

LEMMA SameOrder ==
  ASSUME OrderOK, units' = units, order' = order
  PROVE  OrderOK'
<1>1. ASSUME NEW d \in DOMAIN units'
      PROVE  UnitOK(d)'
  BY DEF OrderOK, UnitOK
<1>2. ASSUME NEW i \in 1 .. Len(order'), NEW e \in Range0(units'[order'[i]].deps)
      PROVE  \E j \in 1 .. Len(order') : j < i /\ order'[j] = e
  BY DEF OrderOK
<1>3. QED
  BY <1>1, <1>2 DEF OrderOK

(* What follows the traversal leaves its results alone.                    *)
LEMMA KeepsGraph ==
  ASSUME IInv, UNCHANGED <<content, analysis, graph>>, pc # "discovering", pc # "idle",
         pc' # "idle"
  PROVE  IInv'
<1>1. UNCHANGED <<content, analysis, cache, stack, units, order>>
  BY DEF graph
<1>2. ContentOK' /\ Truthful(analysis') /\ Truthful(cache')
  BY <1>1 DEF IInv, ContentOK
<1>3. StackOK'
  BY <1>1 DEF IInv, StackOK
<1>4. OrderOK'
  BY <1>1, SameOrder DEF IInv
<1>5. QED
  BY <1>1, <1>2, <1>3, <1>4 DEF IInv, Discovery

LEMMA InitOK ==
  Init => IInv
<1> SUFFICES ASSUME Init PROVE IInv
  OBVIOUS
<1>1. StackOK /\ OrderOK
  BY NothingOK DEF Init
<1>2. QED
  BY <1>1, NoneIsTruthful DEF Init, IInv, ContentOK, Versions, Discovery
-----------------------------------------------------------------------------
LEMMA InvokeOK ==
  ASSUME IInv, NEW o \in Options, Invoke(o)
  PROVE  IInv'
<1> DEFINE kept == ExistingOnly(analysis)
           root == Visit(kept, o.root, o.flags)
<1>1. /\ pc = "idle" /\ pc' = "discovering" /\ stack' = <<root>>
      /\ cache' = Remembered(kept, o.root, o.flags)
      /\ UNCHANGED <<content, analysis, units, order>>
  BY DEF Invoke, disk
<1>2. stack = None /\ units = None /\ order = None
  BY <1>1 DEF IInv, Discovery
<1>3. Truthful(kept)
  BY TruthfulParts DEF ExistingOnly, IInv
<1>4. o.root \in Dirs
  BY OptionsAssumption
<1> HIDE DEF kept
<1>5. /\ FrameOK(root) /\ root.dir = o.root /\ Range0(root.deps) = {}
      /\ Truthful(Remembered(kept, o.root, o.flags))
  BY <1>3, <1>4, VisitOK DEF IInv
<1> HIDE DEF root
<1>6. StackOK'
  <2>1. stack' \in Seq(Frames) /\ Len(stack') = 1 /\ stack'[1] = root
    BY <1>1, <1>5 DEF FrameOK
  <2>2. DOMAIN units' = {} /\ \A i \in 1 .. 1 : i = 1
    BY <1>1, <1>2 DEF None
  <2>3. QED
    BY <1>5, <2>1, <2>2 DEF StackOK
<1>7. OrderOK'
  BY <1>1, NothingOK, <1>2 DEF OrderOK, UnitOK
<1>8. QED
  BY <1>1, <1>5, <1>6, <1>7 DEF IInv, ContentOK, Discovery

LEMMA DescendOK ==
  ASSUME IInv, Descend
  PROVE  IInv'
<1> DEFINE top == stack[1]
<1>1. /\ pc = "discovering" /\ pc' = "discovering" /\ stack # None /\ top.todo # None
      /\ UNCHANGED <<content, analysis, units, order>>
  BY DEF Descend, disk
<1>2. PICK d \in Resolved(top.dir, Head(top.todo)) \ OnStack :
        LET told == [top EXCEPT !.todo = Tail(@), !.deps = AddTo(@, d)] IN
        IF d \in DOMAIN units
        THEN /\ stack' = <<told>> \o Tail(stack)
             /\ UNCHANGED <<cache, dirty>>
        ELSE /\ stack' = <<Visit(cache, d, opt.flags), told>> \o Tail(stack)
             /\ cache' = Remembered(cache, d, opt.flags)
             /\ dirty' = (dirty \/ cache' # cache)
  BY DEF Descend
<1> DEFINE told == [top EXCEPT !.todo = Tail(@), !.deps = AddTo(@, d)]
           next == Visit(cache, d, opt.flags)
<1>3. stack \in Seq(Frames) /\ Len(stack) \in Nat /\ 1 \in 1 .. Len(stack)
  BY <1>1 DEF IInv, StackOK, None
<1>4. FrameOK(top)
  BY <1>3 DEF IInv, StackOK
<1>5. /\ d \in DOMAIN units => stack' = <<told>> \o Tail(stack) /\ cache' = cache
      /\ d \notin DOMAIN units => /\ stack' = <<next, told>> \o Tail(stack)
                                  /\ cache' = Remembered(cache, d, opt.flags)
  BY <1>2
<1>6. PICK t : t = told
  OBVIOUS
<1> HIDE DEF told
<1>7. /\ d \in Dirs /\ FrameOK(t) /\ t.dir = top.dir
      /\ Range0(t.deps) = Range0(top.deps) \cup {d}
  BY <1>1, <1>2, <1>4, <1>6, ToldOK DEF told
<1>8. \A i \in 1 .. Len(stack) : d # stack[i].dir
  BY <1>2 DEF OnStack
<1> HIDE DEF top
<1>9. /\ FrameOK(next) /\ next.dir = d /\ Range0(next.deps) = {}
      /\ Truthful(Remembered(cache, d, opt.flags))
  BY <1>7, VisitOK DEF IInv
<1> HIDE DEF next
<1>10. StackOK /\ units' = units
  BY <1>1 DEF IInv
<1>11. StackOK' /\ Truthful(cache')
  <2>1. CASE d \in DOMAIN units
    <3>1. stack' = <<t>> \o Tail(stack) /\ cache' = cache
      BY <1>5, <1>6, <2>1
    <3>2. t.dir = stack[1].dir /\ Range0(t.deps) = Range0(stack[1].deps) \cup {d}
      BY <1>7 DEF top
    <3>3. StackOK'
      BY <1>1, <1>7, <1>10, <2>1, <3>1, <3>2, TellOK
    <3>4. QED
      BY <3>1, <3>3 DEF IInv
  <2>2. CASE d \notin DOMAIN units
    <3>1. stack' = <<next, t>> \o Tail(stack) /\ cache' = Remembered(cache, d, opt.flags)
      BY <1>5, <1>6, <2>2
    <3>2. t.dir = stack[1].dir /\ Range0(t.deps) = Range0(stack[1].deps) \cup {next.dir}
      BY <1>7, <1>9 DEF top
    <3>3. next.dir \notin DOMAIN units /\ \A i \in 1 .. Len(stack) : next.dir # stack[i].dir
      BY <1>8, <1>9, <2>2
    <3>4. StackOK'
      BY <1>1, <1>7, <1>9, <1>10, <3>1, <3>2, <3>3, PushOK
    <3>5. QED
      BY <1>9, <3>1, <3>4
  <2>3. QED
    BY <2>1, <2>2
<1>12. OrderOK'
  BY <1>1, SameOrder DEF IInv
<1>13. QED
  BY <1>1, <1>11, <1>12 DEF IInv, ContentOK, Discovery

LEMMA LeaveOK ==
  ASSUME IInv, Leave
  PROVE  IInv'
<1> DEFINE d == stack[1].dir
           unit == [version |-> stack[1].version, deps |-> stack[1].deps]
<1>1. /\ pc = "discovering" /\ stack # None /\ stack[1].todo = None
      /\ units' = With(units, d, unit) /\ order' = Append(order, d)
      /\ stack' = Tail(stack)
      /\ pc' = IF Len(stack) > 1 THEN "discovering"
               ELSE IF dirty THEN "save analysis" ELSE "discovered"
      /\ UNCHANGED <<content, analysis, cache>>
  BY DEF Leave, disk
<1>2. stack \in Seq(Frames) /\ Len(stack) \in Nat /\ 1 \in 1 .. Len(stack)
  <2>1. stack \in Seq(Frames) /\ stack # << >>
    BY <1>1 DEF IInv, StackOK, None
  <2>2. QED
    BY <2>1
<1>3. FrameOK(stack[1]) /\ d \notin DOMAIN units /\ Range0(stack[1].deps) \subseteq DOMAIN units
  BY <1>2 DEF IInv, StackOK
<1>4. d \in Dirs /\ stack[1].deps \in Seq(Dirs) /\ Serves(d, stack[1].version, stack[1].deps, None)
  BY <1>1, <1>3 DEF FrameOK, Frames
<1>5. /\ unit.deps \in Seq(Dirs) /\ Serves(d, unit.version, unit.deps, None)
      /\ Range0(unit.deps) \subseteq DOMAIN units
  BY <1>3, <1>4
<1>6. DOMAIN units' = DOMAIN units \cup {stack[1].dir}
  BY <1>1 DEF With
<1> HIDE DEF d, unit
<1>7. OrderOK'
  BY <1>1, <1>3, <1>4, <1>5, JoinOK DEF IInv
<1>8. StackOK'
  BY <1>1, <1>6, PopOK DEF IInv
<1>9. pc' # "discovering" => stack' = None
  <2>1. pc' # "discovering" => ~(Len(stack) > 1)
    BY <1>1
  <2>2. ~(Len(stack) > 1) => Tail(stack) = << >>
    BY <1>1, <1>2, LastPopped DEF None
  <2>3. QED
    BY <1>1, <2>1, <2>2 DEF None
<1>10. pc' # "idle"
  BY <1>1
<1>11. QED
  BY <1>1, <1>7, <1>8, <1>9, <1>10 DEF IInv, ContentOK, Discovery

LEMMA EditOK ==
  ASSUME IInv, NEW d \in Dirs, NEW v \in Contents(d), Edit(d, v)
  PROVE  IInv'
<1>1. /\ content' = [content EXCEPT ![d] = v]
      /\ UNCHANGED <<analysis, cache, stack, units, order, pc>>
  BY DEF Edit, memory, graph
<1>2. ContentOK'
  BY <1>1 DEF IInv, ContentOK, Versions
<1>3. StackOK'
  BY <1>1 DEF IInv, StackOK
<1>4. OrderOK'
  BY <1>1, SameOrder DEF IInv
<1>5. QED
  BY <1>1, <1>2, <1>3, <1>4 DEF IInv, Discovery

LEMMA SaveAnalysisOK ==
  ASSUME IInv, SaveAnalysis
  PROVE  IInv'
<1>1. /\ pc # "discovering" /\ pc # "idle" /\ pc' # "discovering" /\ pc' # "idle"
      /\ UNCHANGED <<content, cache, stack, units, order>>
      /\ analysis' \in TornAnalysis(cache) \/ analysis' = cache
  BY DEF SaveAnalysis, graph
<1>2. Truthful(analysis')
  BY <1>1, TruthfulParts DEF IInv, TornAnalysis
<1>3. StackOK'
  BY <1>1 DEF IInv, StackOK
<1>4. OrderOK'
  BY <1>1, SameOrder DEF IInv
<1>5. QED
  BY <1>1, <1>2, <1>3, <1>4 DEF IInv, ContentOK, Discovery

LEMMA StepOK ==
  IInv /\ [Next]_vars => IInv'
<1> SUFFICES ASSUME IInv, [Next]_vars PROVE IInv'
  OBVIOUS
<1>1. ASSUME NEW d \in Dirs, NEW v \in Contents(d), Edit(d, v) PROVE IInv'
  BY <1>1, EditOK
<1>2. ASSUME Crash \/ Refuse \/ Check \/ Report PROVE IInv'
  <2>1. Exit /\ UNCHANGED <<content, analysis>>
    BY <1>2 DEF Crash, Refuse, Check, Report, disk
  <2>2. QED
    BY <2>1, ExitOK DEF IInv
<1>3. ASSUME Complete PROVE IInv'
  <2>1. Exit /\ UNCHANGED content /\ (analysis' = None \/ analysis' = analysis)
    BY <1>3 DEF Complete
  <2>2. Truthful(analysis')
    BY <2>1, NoneIsTruthful DEF IInv
  <2>3. QED
    BY <2>1, <2>2, ExitOK
<1>4. ASSUME NEW o \in Options, Invoke(o) PROVE IInv'
  BY <1>4, InvokeOK
<1>5. CASE Descend
  BY <1>5, DescendOK
<1>6. CASE Leave
  BY <1>6, LeaveOK
<1>7. CASE SaveAnalysis
  BY <1>7, SaveAnalysisOK
<1>8. ASSUME \/ Plan \/ Gather \/ SaveBuilds \/ Link
             \/ \E d \in Dirs : Wait(d) \/ Acquire(d) \/ Finish(d)
      PROVE  IInv'
  <2>1. /\ UNCHANGED <<content, analysis, graph>>
        /\ pc # "discovering" /\ pc # "idle" /\ pc' # "idle"
    BY <1>8 DEF Plan, Gather, SaveBuilds, Link, Wait, Acquire, Finish, disk
  <2>2. QED
    BY <2>1, KeepsGraph
<1>9. CASE UNCHANGED vars
  <2>1. UNCHANGED <<content, analysis, cache, stack, units, order, pc>>
    BY <1>9 DEF vars, disk, memory, graph
  <2>2. StackOK'
    BY <2>1 DEF IInv, StackOK
  <2>3. OrderOK'
    BY <2>1, SameOrder DEF IInv
  <2>4. QED
    BY <2>1, <2>2, <2>3 DEF IInv, ContentOK, Discovery
<1>10. QED
  BY <1>1, <1>2, <1>3, <1>4, <1>5, <1>6, <1>7, <1>8, <1>9 DEF Next

LEMMA SoundNow ==
  IInv => BuildOrderSound
<1> SUFFICES ASSUME IInv PROVE BuildOrderSound
  OBVIOUS
<1>1. order \in Seq(Dirs) /\ Range0(order) = DOMAIN units /\ Len(order) = Cardinality(DOMAIN units)
  BY DEF IInv, OrderOK
<1>2. ASSUME NEW i \in 1 .. Len(order)
      PROVE  /\ Deps(order[i]) \subseteq Range0(SubSeq(order, 1, i - 1))
             /\ \A n \in Range0(Names(order[i], units[order[i]].version)) :
                   Deps(order[i]) \cap Range0(Candidates(order[i], n)) # {}
             /\ \A e \in Deps(order[i]) :
                   \E n \in Range0(Names(order[i], units[order[i]].version)) :
                      e \in Range0(Candidates(order[i], n))
  <2>1. order[i] \in DOMAIN units
    BY <1>1 DEF Range0
  <2>2. UnitOK(order[i])
    BY <2>1 DEF IInv, OrderOK
  <2>3. Range0(None) = {}
    BY DEF Range0, None
  <2>4. ASSUME NEW e \in Deps(order[i])
        PROVE  e \in Range0(SubSeq(order, 1, i - 1))
    <3>1. PICK j \in 1 .. Len(order) : j < i /\ order[j] = e
      BY DEF IInv, OrderOK, Deps
    <3>2. /\ Len(SubSeq(order, 1, i - 1)) = i - 1 /\ j \in 1 .. i - 1
          /\ SubSeq(order, 1, i - 1)[j] = order[j]
      BY <1>1, <3>1
    <3>3. QED
      BY <3>1, <3>2 DEF Range0
  <2>5. QED
    BY <2>2, <2>3, <2>4 DEF UnitOK, Serves, Deps
<1>3. QED
  BY <1>1, <1>2 DEF BuildOrderSound

(* Whatever is edited while modules are discovered, whatever earlier       *)
(* invocations left in the analysis cache and wherever they were killed,   *)
(* the build order holds every module once, after the modules it depends   *)
(* on, and it depends on what the content that was read imports            *)
(* (discoverModuleGraphByDirectory, resolveImportsFromCache).              *)
THEOREM BuildOrder ==
  Spec => []BuildOrderSound
<1>1. Init => IInv
  BY InitOK
<1>2. IInv /\ [Next]_vars => IInv'
  BY StepOK
<1>3. IInv => BuildOrderSound
  BY SoundNow
<1>4. QED
  BY <1>1, <1>2, <1>3, PTL DEF Spec
-----------------------------------------------------------------------------
Building == {"building", "report", "save builds", "builds open", "link", "linked"}

SegmentOf(flags, print) == [flags |-> flags, of |-> print]

(* An entry of a build cache tells how the segment it stands for was       *)
(* compiled, unless that was written by a build whose cache is not saved.  *)
Honest(c, files, lost) ==
  /\ DOMAIN c \subseteq Dirs
  /\ \A d \in DOMAIN c :
       files[d] = NoFile \/ d \in lost \/ files[d] = SegmentOf(c[d].flags, c[d].print)

Sources == {<<e, units[e].version>> : e \in DOMAIN units}

(* A module is compiled once what it imports is; what its task hands on is *)
(* what its fingerprint covers, and it fails where checking it would.      *)
StageOK(d) ==
  /\ phase[d] \in {"started", "waiting", "working", "done", "failed"}
  /\ phase[d] \in {"waiting", "working", "done"} => \A e \in Deps(d) : phase[e] = "done"
  /\ phase[d] = "done" =>
       /\ d \in DOMAIN table /\ table[d] = Fingerprints[d] /\ table[d] \subseteq Sources
       /\ Goes(d)
  /\ phase[d] = "failed" => (\E e \in Deps(d) : phase[e] = "failed") \/ ~Goes(d)

(* A segment that is reused, or was compiled again, has its fingerprint's  *)
(* recipe.                                                                 *)
SegmentOK(d) ==
  /\ d \in reuse => d \in unsaved \/ artifact[d] = SegmentOf(opt.flags, Fingerprints[d])
  /\ d \notin reuse /\ phase[d] = "working" => d \in unsaved
  /\ d \notin reuse /\ phase[d] = "done" =>
       /\ artifact[d] = SegmentOf(opt.flags, Fingerprints[d])
       /\ d \in DOMAIN entries
       /\ SegmentOf(entries[d].flags, entries[d].print) = SegmentOf(opt.flags, Fingerprints[d])

BuildOK ==
  /\ DOMAIN phase = DOMAIN units /\ Honest(entries, artifact, unsaved)
  /\ \A d \in DOMAIN units : StageOK(d) /\ SegmentOK(d)

AllDone == \A d \in DOMAIN units : phase[d] = "done"

BInv ==
  /\ DOMAIN artifact = Dirs /\ Honest(builds, artifact, unsaved)
  /\ pc \in Building => BuildOK
  /\ pc \in Building \ {"building", "report"} => AllDone
  /\ pc = "linked" => \A i \in 1 .. Len(order) : output[i] = artifact[order[i]]
-----------------------------------------------------------------------------
(* The sources that a module d of us depends on, directly or not.          *)
Closed(us, s) == \A d \in s : Range0(us[d].deps) \subseteq s
Reaches(us, d) == {e \in DOMAIN us : \A s \in SUBSET DOMAIN us : d \in s /\ Closed(us, s) => e \in s}
Covers(us, d, print) ==
  {<<d, us[d].version>>} \cup UNION {print[e] : e \in Range0(us[d].deps)}

LEMMA ReachesAre ==
  ASSUME NEW us, \A d \in DOMAIN us : Range0(us[d].deps) \subseteq DOMAIN us, NEW d \in DOMAIN us
  PROVE  Reaches(us, d) = {d} \cup UNION {Reaches(us, e) : e \in Range0(us[d].deps)}
<1> DEFINE T == {d} \cup UNION {Reaches(us, e) : e \in Range0(us[d].deps)}
<1>1. \A e \in DOMAIN us : e \in Reaches(us, e) /\ Reaches(us, e) \subseteq DOMAIN us
  BY DEF Reaches
<1>2. \A e \in DOMAIN us : Closed(us, Reaches(us, e))
  BY DEF Reaches, Closed
<1>3. T \in SUBSET DOMAIN us /\ d \in T
  BY <1>1
<1>4. Closed(us, T)
  <2>1. Range0(us[d].deps) \subseteq T
    BY <1>1
  <2>2. \A e \in Range0(us[d].deps) : Closed(us, Reaches(us, e))
    BY <1>2
  <2>3. QED
    BY <2>1, <2>2 DEF Closed
<1>5. Reaches(us, d) \subseteq T
  <2> HIDE DEF T
  <2>1. QED
    BY <1>3, <1>4 DEF Reaches
<1>6. \A e \in Range0(us[d].deps) : Reaches(us, e) \subseteq Reaches(us, d)
  BY DEF Reaches, Closed
<1>7. T \subseteq Reaches(us, d)
  BY <1>1, <1>6
<1>8. QED
  BY <1>5, <1>7

LEMMA PrintsExist ==
  ASSUME NEW us, \A d \in DOMAIN us : Range0(us[d].deps) \subseteq DOMAIN us
  PROVE  \E f : f = [d \in DOMAIN us |-> Covers(us, d, f)]
<1> DEFINE Of(s) == {<<e, us[e].version>> : e \in s}
           f == [d \in DOMAIN us |-> Of(Reaches(us, d))]
<1>1. ASSUME NEW d \in DOMAIN us
      PROVE  Of(Reaches(us, d)) = Covers(us, d, f)
  <2>1. \A e \in Range0(us[d].deps) : f[e] = Of(Reaches(us, e))
    OBVIOUS
  <2>2. Reaches(us, d) = {d} \cup UNION {Reaches(us, e) : e \in Range0(us[d].deps)}
    BY ReachesAre
  <2> HIDE DEF f
  <2>3. \A x \in Of(Reaches(us, d)) : x \in Covers(us, d, f)
    BY <2>1, <2>2 DEF Covers
  <2>4. \A x \in Covers(us, d, f) : x \in Of(Reaches(us, d))
    BY <2>1, <2>2 DEF Covers
  <2>5. QED
    BY <2>3, <2>4
<1>2. f = [d \in DOMAIN us |-> Covers(us, d, f)]
  <2>1. \A d \in DOMAIN us : f[d] = Covers(us, d, f)
    BY <1>1
  <2>2. f = [d \in DOMAIN us |-> f[d]]
    OBVIOUS
  <2> HIDE DEF f
  <2>3. QED
    BY <2>1, <2>2
<1>3. QED
  BY <1>2

(* The equation that defines fingerprints holds of them.                   *)
LEMMA PrintsAre ==
  ASSUME NEW us, \A d \in DOMAIN us : Range0(us[d].deps) \subseteq DOMAIN us
  PROVE  \A d \in DOMAIN us : FingerprintsOf(us)[d] = Covers(us, d, FingerprintsOf(us))
<1> DEFINE Good(g) ==
             g = [d \in DOMAIN us |->
                    {<<d, us[d].version>>} \cup UNION {g[e] : e \in Range0(us[d].deps)}]
<1>1. FingerprintsOf(us) = CHOOSE g : Good(g)
  BY Zenon DEF FingerprintsOf
<1>2. \E g : Good(g)
  BY PrintsExist DEF Covers
<1> HIDE DEF Good
<1>3. Good(CHOOSE g : Good(g))
  BY <1>2
<1>4. Good(FingerprintsOf(us))
  BY <1>1, <1>3
<1>5. PICK g : g = FingerprintsOf(us)
  OBVIOUS
<1>6. g = [d \in DOMAIN us |->
             {<<d, us[d].version>>} \cup UNION {g[e] : e \in Range0(us[d].deps)}]
  BY <1>4, <1>5 DEF Good
<1>7. \A d \in DOMAIN us : g[d] = {<<d, us[d].version>>} \cup UNION {g[e] : e \in Range0(us[d].deps)}
  BY <1>6, Zenon
<1>8. QED
  BY <1>5, <1>7 DEF Covers

LEMMA GraphIs ==
  ASSUME OrderOK
  PROVE  /\ Range0(order) = DOMAIN units /\ DOMAIN units \subseteq Dirs
         /\ \A d \in DOMAIN units : Deps(d) \subseteq DOMAIN units
         /\ \A d \in DOMAIN units :
              Fingerprints[d] = {<<d, units[d].version>>} \cup UNION {Fingerprints[e] : e \in Deps(d)}
<1>1. order \in Seq(Dirs) /\ Range0(order) = DOMAIN units
  BY DEF OrderOK
<1>2. DOMAIN units \subseteq Dirs
  BY <1>1 DEF Range0
<1>3. ASSUME NEW d \in DOMAIN units
      PROVE  Range0(units[d].deps) \subseteq DOMAIN units
  <2>1. PICK i \in 1 .. Len(order) : order[i] = d
    BY <1>1 DEF Range0
  <2>2. \A e \in Range0(units[d].deps) : \E j \in 1 .. Len(order) : order[j] = e
    BY <2>1 DEF OrderOK
  <2>3. QED
    BY <1>1, <2>2 DEF Range0
<1>4. \A d \in DOMAIN units :
        FingerprintsOf(units)[d] = Covers(units, d, FingerprintsOf(units))
  BY <1>3, PrintsAre
<1>5. QED
  BY <1>1, <1>2, <1>3, <1>4 DEF Deps, Covers, Fingerprints
LEMMA SameGraph ==
  ASSUME units' = units
  PROVE  /\ Fingerprints' = Fingerprints /\ Sources' = Sources
         /\ \A d : Deps(d)' = Deps(d)
         /\ \A d : Goes(d)' <=> Goes(d)
<1>1. Fingerprints' = Fingerprints
  BY DEF Fingerprints
<1>2. Sources' = Sources
  BY DEF Sources
<1>3. ASSUME NEW d
      PROVE  Deps(d)' = Deps(d) /\ (Goes(d)' <=> Goes(d))
  BY DEF Deps, Goes, Compiles
<1>4. QED
  BY <1>1, <1>2, <1>3

(* What is still true of a module that no step is about.                   *)
LEMMA StageKept ==
  ASSUME NEW d \in DOMAIN units, StageOK(d), units' = units, phase'[d] = phase[d],
         d \in DOMAIN table => d \in DOMAIN table' /\ table'[d] = table[d],
         \A e \in Deps(d) : phase[e] \in {"done", "failed"} => phase'[e] = phase[e]
  PROVE  StageOK(d)'
BY SameGraph DEF StageOK

LEMMA SegmentKept ==
  ASSUME NEW d \in DOMAIN units, SegmentOK(d), units' = units, opt' = opt, reuse' = reuse,
         phase'[d] = phase[d], artifact'[d] = artifact[d], d \in unsaved => d \in unsaved',
         d \in DOMAIN entries => d \in DOMAIN entries' /\ entries'[d] = entries[d]
  PROVE  SegmentOK(d)'
BY SameGraph DEF SegmentOK

LEMMA HonestParts ==
  ASSUME NEW c, NEW files, NEW lost, Honest(c, files, lost), NEW kept \in SUBSET DOMAIN c
  PROVE  Honest(Restrict(c, kept), files, lost)
BY DEF Honest, Restrict

LEMMA HonestMore ==
  ASSUME NEW c, NEW files, NEW lost, Honest(c, files, lost),
         NEW files2, NEW lost2, NEW d \in Dirs,
         \A e \in Dirs \ {d} : files2[e] = files[e] /\ (e \in lost => e \in lost2),
         \/ files2[d] = NoFile \/ d \in lost2
         \/ files2[d] = files[d] /\ lost2 = lost
         \/ d \in DOMAIN c /\ files2[d] = SegmentOf(c[d].flags, c[d].print)
  PROVE  Honest(c, files2, lost2)
BY DEF Honest

(* A compile is against what the fingerprint covers.                       *)
LEMMA CompiledIs ==
  ASSUME OrderOK, BuildOK, NEW d \in DOMAIN units, phase[d] = "working"
  PROVE  /\ Compiled(d) = Fingerprints[d] /\ Compiled(d) \subseteq Sources
         /\ Compiles(d, Compiled(d)) <=> Goes(d)
<1>1. /\ Deps(d) \subseteq DOMAIN units
      /\ \A e \in DOMAIN units :
           Fingerprints[e] = {<<e, units[e].version>>} \cup UNION {Fingerprints[x] : x \in Deps(e)}
  BY GraphIs
<1>2. \A e \in Deps(d) : phase[e] = "done"
  BY DEF BuildOK, StageOK
<1>3. \A e \in Deps(d) : table[e] = Fingerprints[e] /\ table[e] \subseteq Sources
  BY <1>1, <1>2 DEF BuildOK, StageOK
<1>4. Compiled(d) = {<<d, units[d].version>>} \cup UNION {table[e] : e \in Deps(d)}
  BY DEF Compiled
<1>5. {table[e] : e \in Deps(d)} = {Fingerprints[e] : e \in Deps(d)}
  BY <1>3
<1>6. Compiled(d) = Fingerprints[d]
  BY <1>1, <1>4, <1>5
<1>7. Compiled(d) \subseteq Sources
  BY <1>3, <1>4 DEF Sources
<1> DEFINE near == {<<e, units[e].version>> : e \in Deps(d) \cup {d}}
<1>8. near \subseteq Compiled(d)
  <2>1. \A e \in Deps(d) : <<e, units[e].version>> \in table[e]
    BY <1>1, <1>3
  <2>2. QED
    BY <1>4, <2>1
<1>9. \A s \in Compiled(d) : s[1] \in Deps(d) \cup {d} => s \in near
  <2>1. \A s \in Sources : s = <<s[1], units[s[1]].version>>
    BY DEF Sources
  <2>2. QED
    BY <1>7, <2>1
<1>10. Goes(d) <=> Compiles(d, near)
  BY DEF Goes
<1> HIDE DEF near
<1>11. \A s \in near : s \in Compiled(d)
  BY <1>8
<1>12. Compiles(d, Compiled(d)) <=> Compiles(d, near)
  BY <1>9, <1>11 DEF Compiles
<1>13. QED
  BY <1>6, <1>7, <1>10, <1>12
-----------------------------------------------------------------------------
LEMMA WaitOK ==
  ASSUME OrderOK, BInv, NEW d, Wait(d)
  PROVE  BInv'
<1>1. /\ pc = "building" /\ d \in DOMAIN phase /\ phase[d] = "started"
      /\ Deps(d) \subseteq Ended /\ pc' = pc
      /\ phase' = [phase EXCEPT ![d] =
            IF \E e \in Deps(d) : phase[e] = "failed" THEN "failed" ELSE "waiting"]
      /\ UNCHANGED <<artifact, builds, unsaved, opt, units, entries, reuse, table>>
  BY DEF Wait, disk, graph
<1>2. BuildOK /\ DOMAIN phase = DOMAIN units /\ d \in DOMAIN units
  BY <1>1 DEF BInv, BuildOK, Building
<1>3. \A e \in Deps(d) : e # d /\ e \in DOMAIN phase /\ phase[e] \in {"done", "failed"}
  BY <1>1 DEF Ended
<1>4. /\ DOMAIN phase' = DOMAIN phase
      /\ \A e \in DOMAIN phase \ {d} : phase'[e] = phase[e]
      /\ (\E e \in Deps(d) : phase[e] = "failed") => phase'[d] = "failed"
      /\ ~(\E e \in Deps(d) : phase[e] = "failed") => phase'[d] = "waiting"
  BY <1>1
<1>5. ASSUME NEW x \in DOMAIN units
      PROVE  StageOK(x)' /\ SegmentOK(x)'
  <2>1. StageOK(x) /\ SegmentOK(x) /\ Deps(x) \subseteq DOMAIN units
    BY <1>2, GraphIs DEF BuildOK
  <2>2. CASE x = d
    <3>1. \A e \in Deps(d) : phase'[e] = phase[e]
      BY <1>3, <1>4
    <3>2. StageOK(d)'
      BY <1>1, <1>3, <1>4, <3>1, SameGraph DEF StageOK
    <3>3. SegmentOK(d)'
      BY <1>1, <1>4, <2>1, <2>2, SameGraph DEF SegmentOK
    <3>4. QED
      BY <2>2, <3>2, <3>3
  <2>3. CASE x # d
    <3>1. phase'[x] = phase[x]
      BY <1>2, <1>4, <2>3
    <3>2. \A e \in Deps(x) : phase[e] \in {"done", "failed"} => phase'[e] = phase[e]
      BY <1>1, <1>2, <1>4, <2>1
    <3>3. StageOK(x)'
      BY <1>1, <2>1, <3>1, <3>2, StageKept
    <3>4. SegmentOK(x)'
      BY <1>1, <2>1, <3>1, SegmentKept
    <3>5. QED
      BY <3>3, <3>4
  <2>4. QED
    BY <2>2, <2>3
<1>6. BuildOK'
  BY <1>1, <1>2, <1>4, <1>5 DEF BuildOK
<1>7. QED
  BY <1>1, <1>6 DEF BInv

LEMMA AcquireOK ==
  ASSUME OrderOK, BInv, NEW d, Acquire(d)
  PROVE  BInv'
<1>1. /\ pc = "building" /\ d \in DOMAIN phase /\ phase[d] = "waiting" /\ pc' = pc
      /\ phase' = [phase EXCEPT ![d] = "working"]
      /\ d \in reuse => UNCHANGED <<artifact, unsaved>>
      /\ d \notin reuse => /\ artifact' = [artifact EXCEPT ![d] = Torn]
                           /\ unsaved' = unsaved \cup {d}
      /\ UNCHANGED <<builds, opt, units, entries, reuse, table>>
  BY DEF Acquire, graph
<1>2. /\ BuildOK /\ DOMAIN phase = DOMAIN units /\ d \in DOMAIN units /\ d \in Dirs
      /\ DOMAIN artifact = Dirs
      /\ Honest(builds, artifact, unsaved) /\ Honest(entries, artifact, unsaved)
  BY <1>1, GraphIs DEF BInv, BuildOK, Building
<1>3. /\ DOMAIN phase' = DOMAIN phase /\ phase'[d] = "working"
      /\ \A e \in DOMAIN phase \ {d} : phase'[e] = phase[e]
  BY <1>1
<1>4. /\ DOMAIN artifact' = Dirs
      /\ \A e \in Dirs \ {d} : artifact'[e] = artifact[e] /\ (e \in unsaved => e \in unsaved')
      /\ d \in unsaved' \/ (artifact'[d] = artifact[d] /\ unsaved' = unsaved)
  BY <1>1, <1>2
<1>5. Honest(builds, artifact', unsaved') /\ Honest(entries, artifact', unsaved')
  <2>1. Honest(builds, artifact', unsaved')
    BY <1>2, <1>4, HonestMore
  <2>2. Honest(entries, artifact', unsaved')
    BY <1>2, <1>4, HonestMore
  <2>3. QED
    BY <2>1, <2>2
<1>6. ASSUME NEW x \in DOMAIN units
      PROVE  StageOK(x)' /\ SegmentOK(x)'
  <2>1. StageOK(x) /\ SegmentOK(x) /\ Deps(x) \subseteq DOMAIN units /\ x \in Dirs
    BY <1>2, GraphIs DEF BuildOK
  <2>2. \A e \in Deps(x) : phase[e] \in {"done", "failed"} => phase'[e] = phase[e]
    BY <1>1, <1>2, <1>3, <2>1
  <2>3. CASE x = d
    <3>1. StageOK(d)'
      BY <1>1, <1>3, <2>1, <2>2, <2>3, SameGraph DEF StageOK
    <3>2. SegmentOK(d)'
      BY <1>1, <1>3, <2>1, <2>3, SameGraph DEF SegmentOK
    <3>3. QED
      BY <2>3, <3>1, <3>2
  <2>4. CASE x # d
    <3>1. phase'[x] = phase[x] /\ artifact'[x] = artifact[x] /\ (x \in unsaved => x \in unsaved')
      BY <1>2, <1>3, <1>4, <2>1, <2>4
    <3>2. StageOK(x)'
      BY <1>1, <2>1, <2>2, <3>1, StageKept
    <3>3. SegmentOK(x)'
      BY <1>1, <2>1, <3>1, SegmentKept
    <3>4. QED
      BY <3>2, <3>3
  <2>5. QED
    BY <2>3, <2>4
<1>7. BuildOK'
  BY <1>1, <1>2, <1>3, <1>5, <1>6 DEF BuildOK
<1>8. QED
  BY <1>1, <1>4, <1>5, <1>7 DEF BInv
LEMMA FinishOK ==
  ASSUME OrderOK, BInv, NEW d, Finish(d)
  PROVE  BInv'
<1> DEFINE ok == Compiles(d, Compiled(d))
           print == Fingerprints[d]
           entry == [hash |-> units[d].version, print |-> Fingerprints[d], flags |-> opt.flags]
<1>1. /\ pc = "building" /\ d \in DOMAIN phase /\ phase[d] = "working" /\ pc' = pc
      /\ phase' = [phase EXCEPT ![d] = IF ok THEN "done" ELSE "failed"]
      /\ ok => table' = With(table, d, Compiled(d))
      /\ ~ok => table' = table
      /\ d \in reuse => UNCHANGED <<artifact, unsaved>>
      /\ d \notin reuse => /\ artifact' = [artifact EXCEPT ![d] = Segment(d, ok)]
                           /\ unsaved' = IF ok THEN unsaved ELSE unsaved \ {d}
      /\ ok /\ d \notin reuse => entries' = With(entries, d, entry)
      /\ ~(ok /\ d \notin reuse) => entries' = entries
      /\ UNCHANGED <<builds, opt, units, reuse>>
  BY DEF Finish, graph
<1>2. /\ BuildOK /\ DOMAIN phase = DOMAIN units /\ d \in DOMAIN units /\ d \in Dirs
      /\ DOMAIN artifact = Dirs
      /\ Honest(builds, artifact, unsaved) /\ Honest(entries, artifact, unsaved)
  BY <1>1, GraphIs DEF BInv, BuildOK, Building
<1>3. Compiled(d) = print /\ Compiled(d) \subseteq Sources /\ (ok <=> Goes(d))
  BY <1>1, <1>2, CompiledIs
<1>4. Segment(d, ok) = IF ok THEN SegmentOf(opt.flags, print) ELSE NoFile
  BY <1>3 DEF Segment, SegmentOf
<1>5. SegmentOf(entry.flags, entry.print) = SegmentOf(opt.flags, print)
  OBVIOUS
<1>6. StageOK(d) /\ SegmentOK(d) /\ Deps(d) \subseteq DOMAIN units
  BY <1>2, GraphIs DEF BuildOK
<1> HIDE DEF ok, print, entry
<1>7. /\ DOMAIN phase' = DOMAIN phase
      /\ ok => phase'[d] = "done"
      /\ ~ok => phase'[d] = "failed"
      /\ \A e \in DOMAIN phase \ {d} : phase'[e] = phase[e]
  BY <1>1
<1>8. /\ \A e \in DOMAIN table \ {d} : e \in DOMAIN table' /\ table'[e] = table[e]
      /\ ok => d \in DOMAIN table' /\ table'[d] = print
  BY <1>1, <1>3 DEF With
<1>9. /\ \A e \in DOMAIN entries \ {d} : e \in DOMAIN entries' /\ entries'[e] = entries[e]
      /\ ok /\ d \notin reuse => d \in DOMAIN entries' /\ entries'[d] = entry
      /\ DOMAIN entries' \subseteq DOMAIN entries \cup {d}
      /\ ~(ok /\ d \notin reuse) => entries' = entries
  BY <1>1 DEF With
<1>10. /\ DOMAIN artifact' = Dirs
       /\ \A e \in Dirs \ {d} : artifact'[e] = artifact[e] /\ (e \in unsaved => e \in unsaved')
       /\ d \in reuse => artifact'[d] = artifact[d] /\ unsaved' = unsaved
       /\ d \notin reuse /\ ok => artifact'[d] = SegmentOf(opt.flags, print) /\ d \in unsaved'
       /\ d \notin reuse /\ ~ok => artifact'[d] = NoFile
  BY <1>1, <1>2, <1>4, <1>6 DEF SegmentOK
<1>11. Honest(builds', artifact', unsaved')
  <2>1. Honest(builds, artifact', unsaved')
    BY <1>2, <1>10, HonestMore
  <2>2. QED
    BY <1>1, <2>1
<1>12. Honest(entries', artifact', unsaved')
  <2>1. Honest(entries, artifact', unsaved')
    BY <1>2, <1>10, HonestMore
  <2>2. CASE ok /\ d \notin reuse
    <3>1. artifact'[d] = SegmentOf(entries'[d].flags, entries'[d].print)
      BY <1>5, <1>9, <1>10, <2>2
    <3>2. DOMAIN entries' \subseteq Dirs
      BY <1>2, <1>9, <2>1 DEF Honest
    <3>3. \A e \in DOMAIN entries' : e = d \/ (e \in DOMAIN entries /\ entries'[e] = entries[e])
      BY <1>9
    <3>4. QED
      BY <2>1, <3>1, <3>2, <3>3 DEF Honest
  <2>3. QED
    BY <1>9, <2>1, <2>2
<1>13. ASSUME NEW x \in DOMAIN units
       PROVE  StageOK(x)' /\ SegmentOK(x)'
  <2>1. StageOK(x) /\ SegmentOK(x) /\ Deps(x) \subseteq DOMAIN units /\ x \in Dirs
    BY <1>2, GraphIs DEF BuildOK
  <2>2. \A e \in Deps(x) : phase[e] \in {"done", "failed"} => phase'[e] = phase[e]
    BY <1>1, <1>2, <1>7, <2>1
  <2>3. CASE x = d
    <3>1. \A e \in Deps(d) : phase'[e] = "done"
      BY <1>1, <2>1, <2>2, <2>3 DEF StageOK
    <3>2. StageOK(d)'
      <4>1. ok => table'[d] = Fingerprints[d] /\ table'[d] \subseteq Sources
        BY <1>3, <1>8 DEF print
      <4>2. QED
        BY <1>1, <1>3, <1>7, <1>8, <3>1, <4>1, SameGraph DEF StageOK
    <3>3. SegmentOK(d)'
      <4>1. d \in reuse => d \in unsaved' \/ artifact'[d] = SegmentOf(opt.flags, Fingerprints[d])
        BY <1>6, <1>10 DEF SegmentOK
      <4>2. d \notin reuse /\ ok => /\ artifact'[d] = SegmentOf(opt.flags, Fingerprints[d])
                                    /\ d \in DOMAIN entries'
                                    /\ SegmentOf(entries'[d].flags, entries'[d].print)
                                         = SegmentOf(opt.flags, Fingerprints[d])
        BY <1>5, <1>9, <1>10 DEF print
      <4>3. QED
        BY <1>1, <1>7, <4>1, <4>2, SameGraph DEF SegmentOK
    <3>4. QED
      BY <2>3, <3>2, <3>3
  <2>4. CASE x # d
    <3>1. phase'[x] = phase[x] /\ artifact'[x] = artifact[x] /\ (x \in unsaved => x \in unsaved')
      BY <1>2, <1>7, <1>10, <2>1, <2>4
    <3>2. /\ x \in DOMAIN table => x \in DOMAIN table' /\ table'[x] = table[x]
          /\ x \in DOMAIN entries => x \in DOMAIN entries' /\ entries'[x] = entries[x]
      BY <1>8, <1>9, <2>4
    <3>3. StageOK(x)'
      BY <1>1, <2>1, <2>2, <3>1, <3>2, StageKept
    <3>4. SegmentOK(x)'
      BY <1>1, <2>1, <3>1, <3>2, SegmentKept
    <3>5. QED
      BY <3>3, <3>4
  <2>5. QED
    BY <2>3, <2>4
<1>14. BuildOK'
  BY <1>1, <1>2, <1>7, <1>12, <1>13 DEF BuildOK
<1>15. QED
  BY <1>1, <1>10, <1>11, <1>14 DEF BInv

LEMMA PlanOK ==
  ASSUME OrderOK, BInv, Plan
  PROVE  BInv'
<1> DEFINE again == {d \in Range0(order) \cap DOMAIN PrunedEntries :
                       Reusable(PrunedEntries[d], d, Fingerprints[d], opt.flags)}
<1>1. /\ pc' = "building" /\ entries' = PrunedEntries /\ reuse' = again
      /\ phase' = [d \in Range0(order) |-> "started"]
      /\ UNCHANGED <<artifact, builds, unsaved, opt, units, order>>
  BY DEF Plan, disk, graph
<1>2. Range0(order) = DOMAIN units
  BY GraphIs
<1>3. DOMAIN artifact = Dirs /\ Honest(builds, artifact, unsaved)
  BY DEF BInv
<1>4. Honest(PrunedEntries, artifact, unsaved)
  BY <1>3, HonestParts DEF PrunedEntries
<1>5. \A d \in again : d \in unsaved \/ artifact[d] = SegmentOf(opt.flags, Fingerprints[d])
  <2>1. \A d \in again : /\ d \in DOMAIN PrunedEntries /\ artifact[d] # NoFile
                         /\ PrunedEntries[d].print = Fingerprints[d]
                         /\ PrunedEntries[d].flags = opt.flags
    BY DEF Reusable, Whole
  <2>2. QED
    BY <1>4, <2>1 DEF Honest
<1> HIDE DEF again
<1>6. ASSUME NEW d \in DOMAIN units
      PROVE  StageOK(d)' /\ SegmentOK(d)'
  <2>1. phase'[d] = "started"
    BY <1>1, <1>2
  <2>2. StageOK(d)'
    BY <2>1 DEF StageOK
  <2>3. SegmentOK(d)'
    BY <1>1, <1>5, <2>1, SameGraph DEF SegmentOK
  <2>4. QED
    BY <2>2, <2>3
<1>7. BuildOK'
  BY <1>1, <1>2, <1>4, <1>6 DEF BuildOK
<1>8. QED
  BY <1>1, <1>3, <1>7 DEF BInv

(* The steps after the tasks are read leave their results alone.           *)
LEMMA BuildKept ==
  ASSUME BuildOK, UNCHANGED <<units, phase, entries, artifact, opt, reuse, table>>,
         AllDone \/ unsaved' = unsaved,
         \A d \in reuse : d \in unsaved => d \in unsaved',
         Honest(entries, artifact, unsaved')
  PROVE  BuildOK'
<1>1. ASSUME NEW d \in DOMAIN units
      PROVE  StageOK(d)' /\ SegmentOK(d)'
  <2>1. StageOK(d) /\ SegmentOK(d)
    BY DEF BuildOK
  <2>2. StageOK(d)'
    BY <2>1, StageKept
  <2>3. SegmentOK(d)'
    BY <2>1, SameGraph DEF SegmentOK, AllDone
  <2>4. QED
    BY <2>2, <2>3
<1>2. QED
  BY <1>1 DEF BuildOK

LEMMA GatherOK ==
  ASSUME BInv, Gather
  PROVE  BInv'
<1>1. /\ pc = "building" /\ Ended = DOMAIN phase
      /\ (\E d \in DOMAIN phase : phase[d] = "failed") => pc' = "report"
      /\ pc' \in {"report", "save builds", "link"}
      /\ UNCHANGED <<units, phase, entries, artifact, opt, reuse, table, unsaved, builds>>
  BY DEF Gather, disk, graph, tasks
<1>2. BuildOK /\ DOMAIN artifact = Dirs /\ Honest(builds, artifact, unsaved)
  BY <1>1 DEF BInv, Building
<1>3. pc' # "report" => AllDone
  BY <1>1, <1>2 DEF AllDone, Ended, BuildOK
<1>4. BuildOK'
  BY <1>1, <1>2, BuildKept DEF BuildOK
<1>5. QED
  BY <1>1, <1>2, <1>3, <1>4 DEF BInv, AllDone

LEMMA SaveBuildsOK ==
  ASSUME OrderOK, BInv, SaveBuilds
  PROVE  BInv'
<1>1. /\ pc \in {"save builds", "builds open"} /\ pc' \in {"builds open", "link"}
      /\ UNCHANGED <<units, phase, entries, artifact, opt, reuse, table>>
      /\ \/ builds' \in TornBuilds(entries) /\ unsaved' = unsaved
         \/ builds' = entries /\ unsaved' = unsaved \ (Range0(order) \ reuse)
  BY DEF SaveBuilds, graph, tasks
<1>2. /\ BuildOK /\ AllDone /\ DOMAIN artifact = Dirs
      /\ Honest(entries, artifact, unsaved)
  BY <1>1 DEF BInv, Building, BuildOK
<1>3. Honest(entries, artifact, unsaved')
  <2>1. CASE unsaved' = unsaved
    BY <1>2, <2>1
  <2>2. CASE unsaved' = unsaved \ (Range0(order) \ reuse)
    <3>1. \A d \in DOMAIN units : d \notin reuse =>
            artifact[d] = SegmentOf(entries[d].flags, entries[d].print)
      BY <1>2 DEF BuildOK, SegmentOK, AllDone
    <3>2. Range0(order) = DOMAIN units
      BY GraphIs
    <3>3. QED
      BY <1>2, <2>2, <3>1, <3>2 DEF Honest
  <2>3. QED
    BY <1>1, <2>1, <2>2
<1>4. Honest(builds', artifact, unsaved')
  <2>1. CASE builds' = entries
    BY <1>3, <2>1
  <2>2. CASE builds' \in TornBuilds(entries)
    BY <1>3, <2>2, HonestParts DEF TornBuilds
  <2>3. QED
    BY <1>1, <2>1, <2>2
<1>5. \A d \in reuse : d \in unsaved => d \in unsaved'
  BY <1>1
<1>6. BuildOK'
  BY <1>1, <1>2, <1>3, <1>5, BuildKept
<1>7. QED
  BY <1>1, <1>2, <1>4, <1>6 DEF BInv, AllDone

LEMMA LinkOK ==
  ASSUME BInv, Link
  PROVE  BInv'
<1>1. /\ pc = "link" /\ pc' = "linked"
      /\ output' = [i \in 1 .. Len(order) |-> artifact[order[i]]]
      /\ UNCHANGED <<units, order, phase, entries, artifact, opt, reuse, table, unsaved, builds>>
  BY DEF Link, graph, tasks
<1>2. /\ BuildOK /\ AllDone /\ DOMAIN artifact = Dirs /\ Honest(builds, artifact, unsaved)
  BY <1>1 DEF BInv, Building
<1>3. BuildOK'
  BY <1>1, <1>2, BuildKept DEF BuildOK
<1>4. \A i \in 1 .. Len(order') : output'[i] = artifact'[order'[i]]
  BY <1>1
<1>5. QED
  BY <1>1, <1>2, <1>3, <1>4 DEF BInv, AllDone

(* No build is running before and after a step of what comes before one,   *)
(* and of what ends one.                                                   *)
LEMMA NoBuildOK ==
  ASSUME BInv, pc' \notin Building,
         \/ UNCHANGED <<artifact, builds, unsaved>>
         \/ builds' = None /\ DOMAIN artifact' = Dirs
  PROVE  BInv'
<1>1. Honest(None, artifact', unsaved')
  BY DEF Honest, None
<1>2. DOMAIN artifact' = Dirs /\ Honest(builds', artifact', unsaved')
  BY <1>1 DEF BInv
<1>3. QED
  BY <1>2 DEF BInv, Building
LEMMA BuildStepOK ==
  IInv /\ BInv /\ [Next]_vars => BInv'
<1> SUFFICES ASSUME IInv, BInv, [Next]_vars PROVE BInv'
  OBVIOUS
<1>1. OrderOK
  BY DEF IInv
<1>2. ASSUME \/ \E d \in Dirs : \E v \in Contents(d) : Edit(d, v)
             \/ Crash \/ (\E o \in Options : Invoke(o))
             \/ Descend \/ Refuse \/ Leave \/ SaveAnalysis \/ Check \/ Report
      PROVE  BInv'
  <2>1. pc' \notin Building
    BY <1>2 DEF Edit, Crash, Invoke, Descend, Refuse, Leave, SaveAnalysis, Check, Report,
                Exit, Building
  <2>2. UNCHANGED <<artifact, builds, unsaved>>
    BY <1>2 DEF Edit, Crash, Invoke, Descend, Refuse, Leave, SaveAnalysis, Check, Report, disk
  <2>3. QED
    BY <2>1, <2>2, NoBuildOK
<1>3. CASE Complete
  <2>1. pc' \notin Building
    BY <1>3 DEF Complete, Exit, Building
  <2>2. \/ UNCHANGED <<artifact, builds, unsaved>>
        \/ builds' = None /\ DOMAIN artifact' = Dirs
    BY <1>3 DEF Complete
  <2>3. QED
    BY <2>1, <2>2, NoBuildOK
<1>4. CASE Plan
  BY <1>1, <1>4, PlanOK
<1>5. ASSUME NEW d \in Dirs, Wait(d) \/ Acquire(d) \/ Finish(d)
      PROVE  BInv'
  BY <1>1, <1>5, WaitOK, AcquireOK, FinishOK
<1>6. CASE Gather
  BY <1>6, GatherOK
<1>7. CASE SaveBuilds
  BY <1>1, <1>7, SaveBuildsOK
<1>8. CASE Link
  BY <1>8, LinkOK
<1>9. CASE UNCHANGED vars
  <2>1. UNCHANGED <<artifact, builds, unsaved, pc, units, order, phase, entries, opt, reuse,
                    table, output>>
    BY <1>9 DEF vars, disk, memory, graph, tasks
  <2>2. pc \in Building => BuildOK'
    BY <2>1, BuildKept DEF BInv, BuildOK
  <2>3. QED
    BY <2>1, <2>2 DEF BInv, AllDone
<1>10. QED
  BY <1>2, <1>3, <1>4, <1>5, <1>6, <1>7, <1>8, <1>9 DEF Next

LEMMA BuildInitOK ==
  Init => BInv
BY DEF Init, BInv, Building, Honest, None

LEMMA LinkedNow ==
  IInv /\ BInv => LinkedFromSources
<1> SUFFICES ASSUME IInv, BInv, pc = "linked", NEW i \in 1 .. Len(order)
             PROVE  \/ output[i] = [flags |-> opt.flags, of |-> table[order[i]]]
                    \/ order[i] \in unsaved
  BY DEF LinkedFromSources
<1>1. order[i] \in DOMAIN units
  BY DEF IInv, OrderOK, Range0
<1>2. BuildOK /\ AllDone /\ output[i] = artifact[order[i]]
  BY DEF BInv, Building
<1>3. phase[order[i]] = "done" /\ StageOK(order[i]) /\ SegmentOK(order[i])
  BY <1>1, <1>2 DEF BuildOK, AllDone
<1>4. table[order[i]] = Fingerprints[order[i]]
  BY <1>3 DEF StageOK
<1>5. order[i] \in unsaved \/ artifact[order[i]] = SegmentOf(opt.flags, Fingerprints[order[i]])
  BY <1>3 DEF SegmentOK
<1>6. QED
  BY <1>2, <1>4, <1>5 DEF SegmentOf

(* Whatever was edited, added, removed or interrupted in earlier           *)
(* invocations, a linked program consists of the segments that compiling   *)
(* every module now would give, but for those an invocation wrote without  *)
(* saving the build cache (computeModuleFingerprints, main).               *)
THEOREM Linked ==
  Spec => []LinkedFromSources
<1>1. Init => IInv /\ BInv
  BY InitOK, BuildInitOK
<1>2. IInv /\ BInv /\ [Next]_vars => IInv' /\ BInv'
  BY StepOK, BuildStepOK
<1>3. IInv /\ BInv => LinkedFromSources
  BY LinkedNow
<1>4. QED
  BY <1>1, <1>2, <1>3, PTL DEF Spec
-----------------------------------------------------------------------------
(* Every nonempty set of natural numbers has a least element.              *)
LEMMA LeastNumber ==
  ASSUME NEW S \in SUBSET Nat, S # {}
  PROVE  \E m \in S : \A n \in S : m <= n
<1> DEFINE R == OpToRel(<, Nat)
<1>1. IsWellFoundedOn(R, Nat)
  BY NatLessThanWellFounded, Zenon
<1>2. \A m, n \in S : n < m => <<n, m>> \in R
  BY SMT DEF OpToRel
<1> HIDE DEF R
<1>3. PICK m \in S : \A n \in S : ~ (<<n, m>> \in R)
  BY <1>1, WFMin
<1>4. \A n \in S : ~ (n < m)
  BY <1>2, <1>3
<1>5. QED
  BY <1>3, <1>4

(* Checking one module after another has one outcome: the least module in  *)
(* the build order where two would differ imports only modules where they  *)
(* agree.                                                                  *)
Outcome(f) == f = [d \in DOMAIN units |-> (\E e \in Deps(d) : f[e]) \/ ~Goes(d)]

LEMMA OutcomeIsUnique ==
  ASSUME OrderOK, NEW f, Outcome(f), NEW g, Outcome(g)
  PROVE  f = g
<1> DEFINE bad == {i \in 1 .. Len(order) : f[order[i]] # g[order[i]]}
<1>1. order \in Seq(Dirs) /\ Range0(order) = DOMAIN units
  BY DEF OrderOK
<1>2. \A i \in 1 .. Len(order) : order[i] \in DOMAIN units
  BY <1>1 DEF Range0
<1>3. /\ DOMAIN f = DOMAIN units /\ DOMAIN g = DOMAIN units
      /\ f = [d \in DOMAIN units |-> f[d]] /\ g = [d \in DOMAIN units |-> g[d]]
      /\ \A d \in DOMAIN units : f[d] = ((\E e \in Deps(d) : f[e]) \/ ~Goes(d))
      /\ \A d \in DOMAIN units : g[d] = ((\E e \in Deps(d) : g[e]) \/ ~Goes(d))
  BY DEF Outcome
<1>4. bad = {}
  <2> SUFFICES ASSUME bad # {} PROVE FALSE
    OBVIOUS
  <2>1. bad \in SUBSET Nat
    OBVIOUS
  <2>2. PICK i \in bad : \A k \in bad : i <= k
    <3> HIDE DEF bad
    <3>1. QED
      BY <2>1, LeastNumber
  <2>3. \A e \in Deps(order[i]) : f[e] = g[e]
    <3>1. \A j \in 1 .. Len(order) : j < i => f[order[j]] = g[order[j]]
      BY <2>2
    <3>2. \A e \in Range0(units[order[i]].deps) : \E j \in 1 .. Len(order) : j < i /\ order[j] = e
      BY DEF OrderOK
    <3>3. QED
      BY <3>1, <3>2 DEF Deps
  <2>4. (\E e \in Deps(order[i]) : f[e]) <=> (\E e \in Deps(order[i]) : g[e])
    BY <2>3
  <2>5. f[order[i]] = g[order[i]]
    BY <1>2, <1>3, <2>4
  <2>6. QED
    BY <2>5
<1>5. \A d \in DOMAIN units : f[d] = g[d]
  BY <1>1, <1>4 DEF Range0
<1>6. QED
  BY <1>3, <1>5

(* The equation that defines Fails holds of it.                            *)
LEMMA FailsIs ==
  ASSUME NEW f, Outcome(f)
  PROVE  Outcome(Fails)
<1> DEFINE Good(g) == g = [d \in DOMAIN units |-> (\E e \in Deps(d) : g[e]) \/ ~Goes(d)]
<1>1. Fails = CHOOSE g : Good(g)
  BY Zenon DEF Fails
<1>2. \E g : Good(g)
  BY DEF Outcome
<1> HIDE DEF Good
<1>3. Good(CHOOSE g : Good(g))
  BY <1>2
<1>4. Good(Fails)
  BY <1>1, <1>3
<1>5. PICK h : h = Fails
  OBVIOUS
<1>6. Good(h)
  BY <1>4, <1>5
<1>7. Outcome(h)
  BY <1>6 DEF Good, Outcome
<1>8. QED
  BY <1>5, <1>7

LEMMA GatherReports ==
  ASSUME IInv, BInv, Gather
  PROVE  report' = Failing
<1> DEFINE f == [d \in DOMAIN units |-> phase[d] = "failed"]
<1>1. /\ pc = "building" /\ Ended = DOMAIN phase
      /\ report' = InOrder({d \in DOMAIN phase : phase[d] = "failed"})
  BY DEF Gather
<1>2. OrderOK /\ BuildOK /\ DOMAIN phase = DOMAIN units
  BY <1>1 DEF IInv, BInv, BuildOK, Building
<1>3. \A d \in DOMAIN units : Deps(d) \subseteq DOMAIN units
  BY <1>2, GraphIs
<1>4. ASSUME NEW d \in DOMAIN units
      PROVE  phase[d] = "failed" <=> (\E e \in Deps(d) : phase[e] = "failed") \/ ~Goes(d)
  <2>1. StageOK(d) /\ phase[d] \in {"done", "failed"}
    BY <1>1, <1>2 DEF BuildOK, Ended
  <2>2. QED
    BY <2>1 DEF StageOK
<1>5. Outcome(f)
  <2>1. \A d \in DOMAIN units : (\E e \in Deps(d) : f[e]) <=> (\E e \in Deps(d) : phase[e] = "failed")
    BY <1>3
  <2>2. \A d \in DOMAIN units : f[d] = ((\E e \in Deps(d) : f[e]) \/ ~Goes(d))
    BY <1>4, <2>1
  <2>3. f = [d \in DOMAIN units |-> f[d]]
    OBVIOUS
  <2> HIDE DEF f
  <2>4. QED
    BY <2>2, <2>3 DEF Outcome
<1>6. Fails = f
  <2> HIDE DEF f
  <2>1. Outcome(Fails)
    BY <1>5, FailsIs
  <2>2. QED
    BY <1>2, <1>5, <2>1, OutcomeIsUnique
<1>7. {d \in DOMAIN units : Fails[d]} = {d \in DOMAIN phase : phase[d] = "failed"}
  BY <1>2, <1>6
<1>8. QED
  BY <1>1, <1>7 DEF Failing

(* What a parallel, cached build reports in error, and in which order, is  *)
(* what checking the modules one after another reports, however its tasks  *)
(* interleave (main, checkModuleGraphSymbolsOnly).                         *)
THEOREM Reports ==
  Spec => ReportsAsCheck
<1>1. Init => IInv /\ BInv
  BY InitOK, BuildInitOK
<1>2. IInv /\ BInv /\ [Next]_vars => IInv' /\ BInv'
  BY StepOK, BuildStepOK
<1>3. IInv /\ BInv => (Gather => report' = Failing)
  BY GatherReports
<1>4. QED
  BY <1>1, <1>2, <1>3, PTL DEF Spec, ReportsAsCheck
=============================================================================
