------------------------- MODULE SemanticFlowProofs -------------------------
(***************************************************************************)
(* Proofs about SemanticFlow, for any names, parameters and bounds.        *)
(*                                                                         *)
(* The argument is one about the open scopes.  The state in which each was *)
(* entered is sound for the bindings declared below it, what its finished  *)
(* branches left is sound where all of them agree, and on the way from the *)
(* entry of a scope to this place initializations only grow and executions *)
(* only end.                                                               *)
(*                                                                         *)
(* For the stores it is one about what is kept.  A write is pending only   *)
(* since the last place where blocks open or close, so no execution that   *)
(* entered an open block or left one of its branches holds it: when the    *)
(* next store of the variable replaces it, it is nowhere any more.         *)
(***************************************************************************)
EXTENDS SemanticFlow, SequenceTheorems, WellFoundedInduction, TLAPS

(* The bindings declared in the first n scopes.                            *)
DeclaredIn(s, n) == UNION {{d} \X s[d].declared : d \in 1..n}

IsState(h) ==
  /\ h = [continues |-> h.continues, inits |-> h.inits, pending |-> h.pending,
          waiting |-> h.waiting, may |-> h.may, reached |-> h.reached]
  /\ h.continues \in BOOLEAN /\ h.reached \in BOOLEAN

IsScope(c) ==
  /\ c = [kind |-> c.kind, hoisted |-> c.hoisted, declared |-> c.declared,
          entry |-> c.entry, outs |-> c.outs, may |-> c.may, reached |-> c.reached]
  /\ c.reached \in BOOLEAN

(* What the initialization walk claims of the bindings B is true of every  *)
(* execution, but for those in L.                                          *)
Sound(h, B, L) ==
  /\ IsState(h)
  /\ h.inits \subseteq B
  /\ DOMAIN h.may = IF h.reached THEN B ELSE {}
  /\ h.reached => h.continues /\ \A b \in h.inits \ L : Unset \notin h.may[b]

(* The number of scopes outside scope d; a caught error has one between.   *)
Under(s, d) == IF s[d].kind = "catch" /\ s[d - 1].kind = "caught" THEN d - 2 ELSE d - 1

(* A condition, and the place between two branches, declare nothing.       *)
Bare == {"between", "after", "if?", "loop?"}

Conditional == {"if", "else", "between", "after", "if?"}
Kinds(d) ==
  IF d = 1 THEN {"params"} ELSE IF d = 2 THEN {"body"}
  ELSE Conditional \cup {"loop", "loop?", "caught", "catch"}

(* The branches that have ended: what all of them initialize has a value   *)
(* behind each.                                                            *)
BranchesOK(c, B, L) ==
  /\ \A o \in c.outs : c.entry.inits \subseteq o /\ o \subseteq B
  /\ c.reached => c.outs # {} /\ c.entry.reached
  /\ DOMAIN c.may = IF c.reached THEN B ELSE {}
  /\ \A b \in DOMAIN c.may \ L : (\A o \in c.outs : b \in o) => Unset \notin c.may[b]

ScopeOK(s, d, L) ==
  LET B == DeclaredIn(s, Under(s, d)) IN
  /\ IsScope(s[d]) /\ s[d].kind \in Kinds(d)
  /\ d > 1 => /\ Sound(s[d].entry, B, L)
              /\ s[d - 1].entry.inits \subseteq s[d].entry.inits
              /\ s[d].entry.reached => s[d - 1].entry.reached
  /\ s[d].kind \in Conditional => BranchesOK(s[d], B, L)
  /\ s[d].kind \in Bare => s[d].declared = {}

IsSeq(s) == s \in Seq({s[i] : i \in 1..Len(s)})

ScopesOK(s, L) ==
  /\ IsSeq(s) /\ Len(s) >= 2
  /\ \A d \in 1..Len(s) : ScopeOK(s, d, L)
  /\ \A d \in 1..(Len(s) - 1) : s[d].kind \notin Bare

(* The scopes at hand are entered where their condition was left: before   *)
(* that an execution has only come into the scope around.                  *)
HereOK(h, s, L) ==
  /\ Sound(h, DeclaredIn(s, Len(s)), L)
  /\ s[Len(s)].entry.inits \subseteq h.inits
  /\ h.reached => IF s[Len(s)].kind \in Conditions THEN s[Len(s) - 1].entry.reached
                  ELSE s[Len(s)].entry.reached
  /\ s[Len(s)].kind = "if?" /\ s[Len(s)].reached => h.reached
  /\ s[Len(s)].kind \in {"between", "after"} => h = s[Len(s)].entry

IInv == ScopesOK(scopes, loose) /\ HereOK(here, scopes, loose)
-----------------------------------------------------------------------------
(* Records that are changed in some fields.                                *)
LEMMA StateFields ==
  ASSUME NEW h, IsState(h)
  PROVE  \E c, r, i, m, p, w :
           /\ h = [continues |-> c, inits |-> i, pending |-> p, waiting |-> w,
                   may |-> m, reached |-> r]
           /\ c \in BOOLEAN /\ r \in BOOLEAN
BY DEF IsState

LEMMA ScopeFields ==
  ASSUME NEW c, IsScope(c), NEW v
  PROVE  LET e == [c EXCEPT !.declared = c.declared \cup {v}] IN
         /\ IsScope(e) /\ e.kind = c.kind /\ e.entry = c.entry /\ e.outs = c.outs
         /\ e.may = c.may /\ e.reached = c.reached /\ e.declared = c.declared \cup {v}
BY DEF IsScope
-----------------------------------------------------------------------------
(* Sequences, whatever their elements are.                                 *)
LEMMA AnySeq ==
  ASSUME NEW S, NEW s \in Seq(S)
  PROVE  IsSeq(s)
<1> DEFINE T == {s[i] : i \in 1..Len(s)}
<1>1. Len(s) \in Nat /\ s \in [1..Len(s) -> S]
  BY LenProperties
<1>2. s \in [1..Len(s) -> T]
  BY <1>1
<1> HIDE DEF T
<1>3. s \in Seq(T)
  BY <1>1, <1>2, SeqDef
<1> QED
  BY <1>3 DEF IsSeq, T

Grown(s, e) == Append(s, e)

LEMMA PushSeq ==
  ASSUME NEW s, IsSeq(s), NEW e
  PROVE  /\ IsSeq(Grown(s, e)) /\ Len(s) \in Nat /\ Len(Grown(s, e)) = Len(s) + 1
         /\ \A i \in 1..Len(s) : Grown(s, e)[i] = s[i]
         /\ Grown(s, e)[Len(s) + 1] = e
<1> DEFINE S == {s[i] : i \in 1..Len(s)} \cup {e}
           t == Grown(s, e)
<1>1. s \in Seq(S) /\ e \in S /\ Len(s) \in Nat
  BY SeqMonotonic DEF IsSeq
<1> HIDE DEF S
<1>2. /\ t \in Seq(S) /\ Len(t) = Len(s) + 1
      /\ \A i \in 1..Len(s) : t[i] = s[i]
      /\ t[Len(t)] = e
  BY <1>1, AppendProperties DEF Grown
<1>3. IsSeq(t)
  BY <1>2, AnySeq
<1> QED
  BY <1>1, <1>2, <1>3

Cut(s, n) == SubSeq(s, 1, n)

LEMMA CutSeq ==
  ASSUME NEW s, IsSeq(s), NEW n \in 0..Len(s)
  PROVE  /\ IsSeq(Cut(s, n)) /\ Len(Cut(s, n)) = n
         /\ \A i \in 1..n : Cut(s, n)[i] = s[i]
<1> DEFINE S == {s[i] : i \in 1..Len(s)}
           t == Cut(s, n)
<1>1. Len(s) \in Nat /\ n \in Nat /\ \A i \in 1..n : s[i] \in S
  BY DEF IsSeq
<1> HIDE DEF S
<1>2. /\ t \in Seq(S) /\ Len(t) = n /\ \A i \in 1..n : t[i] = s[i]
  BY <1>1, SubSeqProperties DEF Cut
<1>3. IsSeq(t)
  BY <1>2, AnySeq
<1> QED
  BY <1>2, <1>3

Put(s, n, e) == [s EXCEPT ![n] = e]

LEMMA PutSeq ==
  ASSUME NEW s, IsSeq(s), NEW n \in 1..Len(s), NEW e
  PROVE  /\ IsSeq(Put(s, n, e)) /\ Len(Put(s, n, e)) = Len(s)
         /\ \A i \in 1..Len(s) : Put(s, n, e)[i] = IF i = n THEN e ELSE s[i]
<1> DEFINE S == {s[i] : i \in 1..Len(s)} \cup {e}
<1>1. s \in Seq(S) /\ e \in S
  BY SeqMonotonic DEF IsSeq
<1> HIDE DEF S
<1>2. /\ Put(s, n, e) \in Seq(S) /\ Len(Put(s, n, e)) = Len(s)
      /\ \A i \in 1..Len(s) : Put(s, n, e)[i] = IF i = n THEN e ELSE s[i]
  BY <1>1, ExceptSeq DEF Put
<1> QED
  BY <1>2, AnySeq

(* Bindings of the first scopes.                                           *)
LEMMA DeclaredFacts ==
  ASSUME NEW s, NEW n \in Nat
  PROVE  /\ \A b \in DeclaredIn(s, n) : b[1] \in 1..n
         /\ \A d \in 1..n : \A v \in s[d].declared : <<d, v>> \in DeclaredIn(s, n)
         /\ DeclaredIn(s, n + 1) = DeclaredIn(s, n) \cup ({n + 1} \X s[n + 1].declared)
         /\ \A k \in 0..n : DeclaredIn(s, k) = WithinScope(DeclaredIn(s, n), k)
<1>1. \A b \in DeclaredIn(s, n) : b[1] \in 1..n
  BY DEF DeclaredIn
<1>2. \A d \in 1..n : \A v \in s[d].declared : <<d, v>> \in DeclaredIn(s, n)
  BY DEF DeclaredIn
<1>3. DeclaredIn(s, n + 1) = DeclaredIn(s, n) \cup ({n + 1} \X s[n + 1].declared)
  <2>1. 1..(n + 1) = (1..n) \cup {n + 1}
    OBVIOUS
  <2> QED
    BY <2>1 DEF DeclaredIn
<1>4. ASSUME NEW k \in 0..n
      PROVE  DeclaredIn(s, k) = WithinScope(DeclaredIn(s, n), k)
  BY DEF DeclaredIn, WithinScope
<1> QED
  BY <1>1, <1>2, <1>3, <1>4

LEMMA DeclaredSame ==
  ASSUME NEW s, NEW t, NEW n \in Nat, \A i \in 1..n : t[i].declared = s[i].declared
  PROVE  DeclaredIn(t, n) = DeclaredIn(s, n)
BY DEF DeclaredIn

(* A claim about fewer bindings than those of the scopes at hand does not  *)
(* depend on what is said of the others.                                   *)
LEMMA SoundKept ==
  ASSUME NEW h, NEW s, NEW n \in Nat, NEW L, NEW M,
         \A b \in L : b[1] \in 1..n => b \in M,
         Sound(h, DeclaredIn(s, n), L)
  PROVE  Sound(h, DeclaredIn(s, n), M)
BY DeclaredFacts DEF Sound

LEMMA BranchesKept ==
  ASSUME NEW c, NEW s, NEW n \in Nat, NEW L, NEW M,
         \A b \in L : b[1] \in 1..n => b \in M,
         BranchesOK(c, DeclaredIn(s, n), L)
  PROVE  BranchesOK(c, DeclaredIn(s, n), M)
BY DeclaredFacts DEF BranchesOK

(* A scope stays right whatever happens above it.                          *)
LEMMA ScopeKept ==
  ASSUME NEW s, NEW t, NEW d \in Nat \ {0}, NEW L, NEW M,
         \A i \in 1..d : t[i].kind = s[i].kind /\ t[i].entry = s[i].entry,
         \A i \in 1..(d - 1) : t[i].declared = s[i].declared,
         t[d] = s[d],
         \A b \in L : b[1] \in 1..(d - 1) => b \in M,
         ScopeOK(s, d, L)
  PROVE  ScopeOK(t, d, M)
<1> DEFINE n == Under(s, d)
<1>1. Under(t, d) = n
  <2>1. CASE d = 1
    BY <2>1 DEF Under, ScopeOK, Kinds
  <2>2. CASE d > 1
    BY <2>2 DEF Under
  <2> QED
    BY <2>1, <2>2
<1>2. n \in Nat /\ n <= d - 1
  BY DEF Under, ScopeOK, Kinds, Conditional
<1>3. DeclaredIn(t, n) = DeclaredIn(s, n)
  BY <1>2, DeclaredSame
<1>4. \A b \in L : b[1] \in 1..n => b \in M
  BY <1>2
<1> HIDE DEF n
<1>5. Sound(s[d].entry, DeclaredIn(s, n), L) => Sound(s[d].entry, DeclaredIn(s, n), M)
  BY <1>2, <1>4, SoundKept
<1>6. BranchesOK(s[d], DeclaredIn(s, n), L) => BranchesOK(s[d], DeclaredIn(s, n), M)
  BY <1>2, <1>4, BranchesKept
<1> QED
  BY <1>1, <1>3, <1>5, <1>6 DEF ScopeOK, n

LEMMA ScopesLoosened ==
  ASSUME NEW s, NEW L, NEW M, ScopesOK(s, L), L \subseteq M
  PROVE  ScopesOK(s, M)
<1>1. ASSUME NEW d \in 1..Len(s) PROVE ScopeOK(s, d, M)
  <2>1. ScopeOK(s, d, L) /\ d \in Nat \ {0}
    BY DEF ScopesOK
  <2> QED
    BY <2>1, ScopeKept
<1> QED
  BY <1>1 DEF ScopesOK
-----------------------------------------------------------------------------
(* The binding a name stands for is one of an open scope.                  *)
LEMMA Greatest ==
  ASSUME NEW k \in Nat, NEW S \in SUBSET (1..k), S # {}
  PROVE  \E m \in S : \A n \in S : n <= m
<1> DEFINE R == OpToRel(<, Nat)
           T == {k - n : n \in S}
<1>1. IsWellFoundedOn(R, Nat)
  BY NatLessThanWellFounded, Zenon
<1>2. T \subseteq Nat /\ T # {}
  <2>1. \A n \in S : k - n \in Nat
    OBVIOUS
  <2> QED
    BY <2>1
<1>3. \A m, n \in T : n < m => <<n, m>> \in R
  BY <1>2, SMT DEF OpToRel
<1> HIDE DEF R, T
<1>4. PICK t \in T : \A n \in T : ~ (<<n, t>> \in R)
  BY <1>1, <1>2, WFMin
<1>5. \A n \in T : ~ (n < t)
  BY <1>3, <1>4
<1>6. PICK m \in S : t = k - m
  BY <1>4 DEF T
<1>7. \A n \in S : ~ (k - n < k - m)
  BY <1>5, <1>6 DEF T
<1>8. \A n \in S : n <= m
  BY <1>7
<1> QED
  BY <1>8

LEMMA Found ==
  ASSUME IsSeq(scopes), NEW v, findNearestSemanticBinding(v) # 0
  PROVE  /\ findNearestSemanticBinding(v) \in 1..Depth
         /\ v \in scopes[findNearestSemanticBinding(v)].declared
<1> DEFINE holding == {d \in 1..Depth : v \in scopes[d].declared}
<1>1. Depth \in Nat
  BY DEF IsSeq, Depth
<1>2. findNearestSemanticBinding(v) =
        IF holding = {} THEN 0 ELSE CHOOSE d \in holding : \A e \in holding : e <= d
  <2> DEFINE at == [d \in 1..Depth |-> scopes[d].declared]
  <2>1. \A d \in 1..Depth : at[d] = scopes[d].declared
    OBVIOUS
  <2> HIDE DEF at
  <2>2. {d \in 1..Depth : v \in at[d]} = holding
    BY <2>1
  <2>3. findNearestSemanticBinding(v) = Nearest(v, at)
    BY DEF findNearestSemanticBinding, at
  <2> HIDE DEF holding
  <2> QED
    BY <2>2, <2>3 DEF Nearest
<1>3. holding # {} /\ holding \subseteq 1..Depth
  BY <1>2
<1>4. \E d \in holding : \A e \in holding : e <= d
  BY <1>1, <1>3, Greatest
<1>5. findNearestSemanticBinding(v) \in holding
  BY <1>2, <1>3, <1>4
<1> QED
  BY <1>5

LEMMA StoresAreSet ==
  Unset # NewStore /\ Unset # Given /\ Unset # Absent /\ \A d : Unset # Carried(d)
<1>1. \A n : Unset # Stored(n)
  BY DEF Unset, Stored
<1> QED
  BY <1>1 DEF NewStore, Unset, Given, Absent, Carried

(* A place where expressions are evaluated, and one in a block.            *)
LEMMA PlaceFacts ==
  ASSUME IInv, Place(Evaluating)
  PROVE  /\ Depth \in Nat \ {0, 1} /\ Depth = Len(scopes)
         /\ ~ Place({"between", "after", "params", "caught"})
         /\ Sound(here, DeclaredIn(scopes, Depth), loose)
BY DEF IInv, ScopesOK, HereOK, IsSeq, Place, Evaluating, Blocks, Conditions, Top, Depth

LEMMA BlockFacts ==
  ASSUME IInv, Place(Blocks)
  PROVE  /\ Depth \in Nat \ {0, 1} /\ Depth = Len(scopes) /\ Place(Evaluating)
         /\ ~ Place(Bare \cup {"params", "caught"}) /\ ~ Place(Conditions)
         /\ Sound(here, DeclaredIn(scopes, Depth), loose)
         /\ Top.entry.inits \subseteq here.inits
         /\ here.reached => Top.entry.reached
<1>1. Place(Evaluating) /\ ~ Place(Bare \cup {"params", "caught"}) /\ ~ Place(Conditions)
  BY DEF Place, Evaluating, Blocks, Conditions, Bare
<1> QED
  BY <1>1, PlaceFacts DEF IInv, HereOK, Place, Top, Depth

(* The scopes stay as they are.                                            *)
LEMMA StaysHere ==
  ASSUME IInv, Place(Evaluating), UNCHANGED scopes, loose \subseteq loose',
         Sound(here', DeclaredIn(scopes, Depth), loose'),
         here.inits \subseteq here'.inits,
         here'.reached = here.reached \/ (Place(Blocks) /\ here'.reached = FALSE)
  PROVE  IInv'
<1>1. ScopesOK(scopes, loose')
  BY ScopesLoosened DEF IInv
<1>2. ~ Place({"between", "after"}) /\ (Place(Blocks) => ~ Place(Conditions))
  BY PlaceFacts, BlockFacts DEF Place
<1>3. /\ scopes[Len(scopes)] = Top /\ Depth = Len(scopes)
      /\ Top.kind \notin {"between", "after"}
      /\ Top.kind = "if?" => Place(Conditions)
  BY <1>2, PlaceFacts DEF Top, Place, Conditions
<1> QED
  BY <1>1, <1>2, <1>3 DEF IInv, HereOK

LEMMA ReadStep ==
  ASSUME IInv, NEW v, Read(v)
  PROVE  IInv'
<1>1. Place(Evaluating) /\ UNCHANGED <<scopes, loose>>
  BY DEF Read, Same
<1>2. Sound(here', DeclaredIn(scopes, Depth), loose')
      /\ here'.inits = here.inits /\ here'.reached = here.reached
  BY <1>1, PlaceFacts DEF Read, markSemanticDeadStoreRead, Sound, IsState
<1> QED
  BY <1>1, <1>2, StaysHere

LEMMA CaptureStep ==
  ASSUME IInv, NEW v, Capture(v)
  PROVE  IInv'
BY PlaceFacts, StaysHere DEF Capture, Same

LEMMA ReturnStep ==
  ASSUME IInv, Return
  PROVE  IInv'
<1> DEFINE nothing == <<>>
<1>1. Place(Blocks) /\ UNCHANGED <<scopes, loose>> /\ DOMAIN nothing = {}
  BY DEF Return, Same
<1> HIDE DEF nothing
<1>a. here' = [here EXCEPT !.continues = FALSE, !.reached = FALSE, !.may = nothing]
  BY DEF Return, nothing
<1>2. Sound(here', DeclaredIn(scopes, Depth), loose')
      /\ here'.inits = here.inits /\ here'.reached = FALSE
  BY <1>1, <1>a, BlockFacts DEF Sound, IsState
<1> QED
  BY <1>1, <1>2, BlockFacts, StaysHere

LEMMA EndStep ==
  ASSUME IInv, validateCallableSemanticFlow
  PROVE  IInv'
BY DEF validateCallableSemanticFlow, Same, IInv

(* A store gives the binding it finds a value, or one on trust.            *)
LEMMA StoreSound ==
  ASSUME IInv, Place(Evaluating), NEW v, findNearestSemanticBinding(v) # 0,
         NEW values, NEW L, loose \subseteq L,
         Unset \notin values \/ <<findNearestSemanticBinding(v), v>> \in L
  PROVE  /\ Sound(StoreAt(here, v, values), DeclaredIn(scopes, Depth), L)
         /\ here.inits \subseteq StoreAt(here, v, values).inits
         /\ StoreAt(here, v, values).reached = here.reached
<1> DEFINE d == findNearestSemanticBinding(v)
           b == <<d, v>>
           h == StoreAt(here, v, values)
<1>1. b \in DeclaredIn(scopes, Depth)
  BY PlaceFacts, Found, DeclaredFacts DEF IInv, ScopesOK
<1>2. PICK pending, waiting : h = [here EXCEPT
        !.inits   = IF here.continues THEN here.inits \cup {b} ELSE here.inits,
        !.may     = IF here.reached THEN [here.may EXCEPT ![b] = values] ELSE here.may,
        !.pending = pending, !.waiting = waiting]
  BY DEF StoreAt
<1>3. Sound(here, DeclaredIn(scopes, Depth), loose)
  BY PlaceFacts
<1> HIDE DEF h, d, b
<1>4. IsState(h) /\ h.reached = here.reached /\ h.continues = here.continues
      /\ h.inits = (IF here.continues THEN here.inits \cup {b} ELSE here.inits)
      /\ h.may = IF here.reached THEN [here.may EXCEPT ![b] = values] ELSE here.may
  BY <1>2, <1>3 DEF Sound, IsState
<1>5. DOMAIN h.may = DOMAIN here.may /\ h.inits \subseteq DeclaredIn(scopes, Depth)
  BY <1>1, <1>3, <1>4 DEF Sound
<1>6. ASSUME h.reached, NEW c \in h.inits \ L PROVE Unset \notin h.may[c]
  <2>1. CASE c = b
    BY <2>1, <1>1, <1>3, <1>4, <1>6 DEF Sound, b, d
  <2>2. CASE c # b
    BY <2>2, <1>3, <1>4, <1>6 DEF Sound
  <2> QED
    BY <2>1, <2>2
<1> QED
  BY <1>3, <1>4, <1>5, <1>6 DEF Sound, h

LEMMA AssignStep ==
  ASSUME IInv, NEW v, Assign(v)
  PROVE  IInv'
<1>1. Place(Evaluating) /\ UNCHANGED <<scopes, loose>> /\ findNearestSemanticBinding(v) # 0
      /\ here' = StoreAt(here, v, {NewStore})
  BY DEF Assign, Same
<1>2. Unset \notin {NewStore}
  BY StoresAreSet
<1> QED
  BY <1>1, <1>2, StoreSound, StaysHere

LEMMA AssignInArmStep ==
  ASSUME IInv, NEW v, AssignInArm(v)
  PROVE  IInv'
<1> DEFINE d == findNearestSemanticBinding(v)
           values == MayOf(here, d, v) \cup {NewStore}
<1>1. Place(Evaluating) /\ UNCHANGED scopes /\ d # 0 /\ loose' = loose \cup {<<d, v>>}
      /\ here' = StoreAt(here, v, values)
  BY DEF AssignInArm, Same
<1>2. loose \subseteq loose' /\ <<d, v>> \in loose'
  BY <1>1
<1> HIDE DEF values
<1>3. /\ Sound(here', DeclaredIn(scopes, Depth), loose')
      /\ here.inits \subseteq here'.inits /\ here'.reached = here.reached
  BY <1>1, <1>2, StoreSound
<1> QED
  BY <1>1, <1>2, <1>3, StaysHere

(* The scope at hand with one more declaration.                            *)
Declaring(s, v) == Put(s, Len(s), [s[Len(s)] EXCEPT !.declared = s[Len(s)].declared \cup {v}])

MoreDeclared(s, t, v) ==
  /\ Len(t) = Len(s)
  /\ t[Len(s)].kind = s[Len(s)].kind /\ t[Len(s)].entry = s[Len(s)].entry
  /\ DeclaredIn(t, Len(s)) = DeclaredIn(s, Len(s)) \cup {<<Len(s), v>>}

LEMMA DeclaredTop ==
  ASSUME NEW s, NEW L, ScopesOK(s, L), s[Len(s)].kind \notin Bare, NEW v
  PROVE  ScopesOK(Declaring(s, v), L) /\ MoreDeclared(s, Declaring(s, v), v)
<1> DEFINE n == Len(s)
           top == [s[n] EXCEPT !.declared = s[n].declared \cup {v}]
           t == Declaring(s, v)
<1>1. IsSeq(s) /\ n \in Nat \ {0, 1} /\ IsScope(s[n])
  BY DEF ScopesOK, IsSeq, ScopeOK
<1>2. /\ IsScope(top) /\ top.kind = s[n].kind /\ top.entry = s[n].entry /\ top.outs = s[n].outs
      /\ top.may = s[n].may /\ top.reached = s[n].reached /\ top.declared = s[n].declared \cup {v}
  BY <1>1, ScopeFields
<1>3. t = Put(s, n, top)
  BY DEF Declaring
<1> HIDE DEF top, t
<1>4. /\ IsSeq(t) /\ Len(t) = n
      /\ \A i \in 1..n : t[i] = IF i = n THEN top ELSE s[i]
  BY <1>1, <1>3, PutSeq
<1>5. ASSUME NEW d \in 1..n PROVE ScopeOK(t, d, L)
  <2>1. CASE d < n
    <3>1. /\ d \in Nat \ {0} /\ ScopeOK(s, d, L)
          /\ \A i \in 1..d : i \in 1..n /\ i # n
      BY <2>1, <1>1 DEF ScopesOK
    <3>2. \A i \in 1..d : t[i] = s[i]
      BY <3>1, <1>4
    <3>3. d \in 1..d /\ \A i \in 1..(d - 1) : i \in 1..d
      BY <3>1
    <3>4. /\ \A i \in 1..d : t[i].kind = s[i].kind /\ t[i].entry = s[i].entry
          /\ \A i \in 1..(d - 1) : t[i].declared = s[i].declared
          /\ t[d] = s[d]
      BY <3>2, <3>3
    <3> QED
      BY <3>1, <3>4, ScopeKept
  <2>2. CASE d = n
    <3>1. Under(t, d) = Under(s, d)
      BY <2>2, <1>1, <1>2, <1>4 DEF Under
    <3>2. DeclaredIn(t, Under(s, d)) = DeclaredIn(s, Under(s, d))
      <4>1. Under(s, d) \in Nat /\ Under(s, d) <= d - 1
        BY <2>2, <1>1 DEF ScopesOK, ScopeOK, Kinds, Conditional, Under
      <4> QED
        BY <4>1, <2>2, <1>1, <1>4, DeclaredSame
    <3>3. ScopeOK(s, d, L) /\ t[d] = top
      BY <2>2, <1>1, <1>4 DEF ScopesOK
    <3>4. t[d - 1] = s[d - 1]
      BY <2>2, <1>1, <1>4
    <3>5. top.kind \notin Bare
      BY <1>2
    <3> QED
      BY <3>1, <3>2, <3>3, <3>4, <3>5, <2>2, <1>1, <1>2 DEF ScopeOK, BranchesOK
  <2> QED
    BY <2>1, <2>2, <1>1
<1>6. DeclaredIn(t, n) = DeclaredIn(s, n) \cup {<<n, v>>}
  <2>1. DeclaredIn(t, n - 1) = DeclaredIn(s, n - 1)
    BY <1>1, <1>4, DeclaredSame
  <2>2. /\ DeclaredIn(s, n) = DeclaredIn(s, n - 1) \cup ({n} \X s[n].declared)
        /\ DeclaredIn(t, n) = DeclaredIn(t, n - 1) \cup ({n} \X top.declared)
    <3>1. n - 1 \in Nat /\ (n - 1) + 1 = n /\ t[n] = top
      BY <1>1, <1>4
    <3> QED
      BY <3>1, DeclaredFacts
  <2> QED
    BY <2>1, <2>2, <1>2
<1>7. \A d \in 1..(n - 1) : t[d].kind \notin Bare
  BY <1>1, <1>4 DEF ScopesOK
<1>8. ScopesOK(t, L)
  BY <1>1, <1>4, <1>5, <1>7 DEF ScopesOK
<1>9. MoreDeclared(s, t, v)
  BY <1>1, <1>2, <1>4, <1>6 DEF MoreDeclared
<1> QED
  BY <1>8, <1>9 DEF t

(* A place that knows of one binding more.                                 *)
Bind(h, b, initializes, values) ==
  [h EXCEPT !.inits = IF initializes /\ h.continues THEN h.inits \cup {b} ELSE h.inits,
            !.may = IF h.reached
                    THEN [x \in DOMAIN h.may \cup {b} |-> IF x = b THEN values ELSE h.may[x]]
                    ELSE h.may]

LEMMA BindFields ==
  ASSUME NEW h, IsState(h), NEW b, NEW initializes, NEW values
  PROVE  /\ IsState(Bind(h, b, initializes, values))
         /\ Bind(h, b, initializes, values).continues = h.continues
         /\ Bind(h, b, initializes, values).reached = h.reached
         /\ Bind(h, b, initializes, values).inits =
              IF initializes /\ h.continues THEN h.inits \cup {b} ELSE h.inits
         /\ Bind(h, b, initializes, values).may =
              IF h.reached
              THEN [x \in DOMAIN h.may \cup {b} |-> IF x = b THEN values ELSE h.may[x]]
              ELSE h.may
<1> DEFINE i == IF initializes /\ h.continues THEN h.inits \cup {b} ELSE h.inits
           m == IF h.reached
                THEN [x \in DOMAIN h.may \cup {b} |-> IF x = b THEN values ELSE h.may[x]]
                ELSE h.may
<1>1. PICK c, r, i0, m0, p0, w0 :
        /\ h = [continues |-> c, inits |-> i0, pending |-> p0, waiting |-> w0,
                may |-> m0, reached |-> r]
        /\ c \in BOOLEAN /\ r \in BOOLEAN
  BY StateFields
<1>2. Bind(h, b, initializes, values) = [h EXCEPT !.inits = i, !.may = m]
  BY DEF Bind
<1> HIDE DEF i, m
<1>3. Bind(h, b, initializes, values) =
        [continues |-> c, inits |-> i, pending |-> p0, waiting |-> w0, may |-> m, reached |-> r]
  BY <1>1, <1>2
<1>4. /\ IsState(Bind(h, b, initializes, values))
      /\ Bind(h, b, initializes, values).continues = h.continues
      /\ Bind(h, b, initializes, values).reached = h.reached
      /\ Bind(h, b, initializes, values).inits = i
      /\ Bind(h, b, initializes, values).may = m
  BY <1>1, <1>3 DEF IsState
<1> QED
  BY <1>4 DEF i, m

LEMMA BindSound ==
  ASSUME NEW h, NEW B, NEW L, Sound(h, B, L), NEW b, b \notin B,
         NEW initializes, NEW values, initializes => Unset \notin values \/ b \in L,
         NEW k, IsState(k), k.continues = h.continues, k.reached = h.reached,
         k.inits = Bind(h, b, initializes, values).inits,
         k.may = Bind(h, b, initializes, values).may
  PROVE  Sound(k, B \cup {b}, L) /\ h.inits \subseteq k.inits
<1>1. /\ k.inits = (IF initializes /\ h.continues THEN h.inits \cup {b} ELSE h.inits)
      /\ k.may = IF h.reached
                 THEN [x \in DOMAIN h.may \cup {b} |-> IF x = b THEN values ELSE h.may[x]]
                 ELSE h.may
  <2>1. IsState(h)
    BY DEF Sound
  <2> QED
    BY <2>1, BindFields
<1>2. DOMAIN k.may = (IF k.reached THEN B \cup {b} ELSE {})
  BY <1>1 DEF Sound
<1>3. ASSUME k.reached, NEW c \in k.inits \ L
      PROVE  Unset \notin k.may[c]
  <2>1. CASE c = b
    BY <2>1, <1>1, <1>3 DEF Sound
  <2>2. CASE c # b
    BY <2>2, <1>1, <1>3 DEF Sound
  <2> QED
    BY <2>1, <2>2
<1> QED
  BY <1>1, <1>2, <1>3 DEF Sound

LEMMA NotYet ==
  ASSUME NEW s, NEW n \in Nat \ {0}, NEW v, v \notin s[n].declared
  PROVE  <<n, v>> \notin DeclaredIn(s, n)
BY DEF DeclaredIn

LEMMA DeclareStep ==
  ASSUME IInv, NEW v, NEW how \in {"initialized", "bare", "optional"}, Declare(v, how)
  PROVE  IInv'
<1> DEFINE b == <<Depth, v>>
           value == CASE how = "initialized" -> NewStore
                      [] how = "optional" -> Absent
                      [] how = "bare" -> Unset
           k == Bind(here, b, how # "bare", {value})
<1>1. /\ Place(Blocks) /\ loose' = loose /\ v \notin Top.declared
      /\ scopes' = [scopes EXCEPT ![Depth].declared = @ \cup {v}]
  BY DEF Declare, Same
<1>2. /\ Depth \in Nat \ {0, 1} /\ Depth = Len(scopes) /\ ~ Place(Bare) /\ ~ Place(Conditions)
      /\ Sound(here, DeclaredIn(scopes, Depth), loose) /\ ScopesOK(scopes, loose)
      /\ Top.entry.inits \subseteq here.inits /\ (here.reached => Top.entry.reached)
  BY <1>1, BlockFacts DEF IInv, Place
<1>3. scopes' = Declaring(scopes, v)
  BY <1>1, <1>2 DEF Declaring, Put
<1>4. scopes[Len(scopes)].kind \notin Bare \cup Conditions
  BY <1>2 DEF Place, Top
<1>5. ScopesOK(scopes', loose) /\ MoreDeclared(scopes, scopes', v)
  BY <1>2, <1>3, <1>4, DeclaredTop
<1>6. \/ here' = k
      \/ \E p : here' = [k EXCEPT !.pending = p]
  BY DEF Declare, Bind
<1>7. how # "bare" => value # Unset
  BY StoresAreSet
<1>8. b \notin DeclaredIn(scopes, Depth)
  BY <1>1, <1>2, NotYet DEF Top
<1> HIDE DEF value
<1>9. IsState(k) /\ k.continues = here.continues /\ k.reached = here.reached
  BY <1>2, BindFields DEF Sound
<1>10. /\ IsState(here') /\ here'.continues = here.continues /\ here'.reached = here.reached
       /\ here'.inits = k.inits /\ here'.may = k.may
  <2> HIDE DEF k
  <2> QED
    BY <1>6, <1>9 DEF IsState
<1>11. Sound(here', DeclaredIn(scopes, Depth) \cup {b}, loose) /\ here.inits \subseteq here'.inits
  <2> HIDE DEF b
  <2>1. (how # "bare") => Unset \notin {value} \/ b \in loose
    BY <1>7
  <2>2. here'.inits = Bind(here, b, how # "bare", {value}).inits
        /\ here'.may = Bind(here, b, how # "bare", {value}).may
    BY <1>10
  <2> HIDE DEF k
  <2> QED
    BY <2>1, <2>2, <1>2, <1>8, <1>10, BindSound
<1>12. DeclaredIn(scopes', Len(scopes')) = DeclaredIn(scopes, Depth) \cup {b}
  BY <1>2, <1>5 DEF MoreDeclared
<1>13. HereOK(here', scopes', loose)
  BY <1>2, <1>4, <1>5, <1>10, <1>11, <1>12 DEF HereOK, MoreDeclared, Top, Bare, Conditions
<1> QED
  BY <1>1, <1>5, <1>13 DEF IInv
-----------------------------------------------------------------------------
(* Opening a block.                                                        *)
LEMMA EmptyMap == DOMAIN <<>> = {}
OBVIOUS

IsNew(c, kind, declared, entry) ==
  /\ IsScope(c) /\ c.kind = kind /\ c.declared = declared /\ c.entry = entry
  /\ c.outs = {} /\ DOMAIN c.may = {} /\ c.reached = FALSE

LEMMA NewScope ==
  ASSUME NEW kind, NEW hoisted, NEW declared, NEW entry
  PROVE  IsNew(Scope(kind, hoisted, declared, entry), kind, declared, entry)
BY EmptyMap DEF IsNew, IsScope, Scope

LEMMA ClearedState ==
  ASSUME NEW h, IsState(h), NEW e, e = clearSemanticDeadStorePendingWrites(h)
  PROVE  /\ IsState(e) /\ e.continues = h.continues /\ e.inits = h.inits
         /\ e.may = h.may /\ e.reached = h.reached
BY DEF IsState, clearSemanticDeadStorePendingWrites

(* The scopes below a new one, and what is said of their bindings.         *)
GrownOK(s, t, c, M) ==
  /\ IsSeq(t) /\ Len(s) \in Nat /\ Len(t) = Len(s) + 1 /\ t[Len(s) + 1] = c
  /\ \A d \in 1..Len(s) : t[d] = s[d] /\ ScopeOK(t, d, M)
  /\ DeclaredIn(t, Len(s)) = DeclaredIn(s, Len(s))

LEMMA PushedBelow ==
  ASSUME NEW s, NEW L, NEW M, ScopesOK(s, L),
         \A b \in L : b[1] \in 1..Len(s) => b \in M, NEW c
  PROVE  GrownOK(s, Grown(s, c), c, M)
<1> DEFINE t == Grown(s, c)
<1>1. IsSeq(s)
  BY DEF ScopesOK
<1>2. /\ IsSeq(t) /\ Len(s) \in Nat /\ Len(t) = Len(s) + 1
      /\ \A i \in 1..Len(s) : t[i] = s[i]
      /\ t[Len(s) + 1] = c
  BY <1>1, PushSeq
<1> HIDE DEF t
<1>3. ASSUME NEW d \in 1..Len(s) PROVE ScopeOK(t, d, M)
  <2>1. d \in Nat \ {0} /\ ScopeOK(s, d, L) /\ d - 1 \in Nat
    BY <1>2 DEF ScopesOK
  <2>2. /\ \A i \in 1..d : t[i].kind = s[i].kind /\ t[i].entry = s[i].entry
        /\ \A i \in 1..(d - 1) : t[i].declared = s[i].declared
        /\ t[d] = s[d]
    BY <1>2
  <2>3. \A b \in L : b[1] \in 1..(d - 1) => b \in M
    BY <1>2
  <2> QED
    BY <2>1, <2>2, <2>3, ScopeKept
<1>4. DeclaredIn(t, Len(s)) = DeclaredIn(s, Len(s))
  BY <1>2, DeclaredSame
<1> QED
  BY <1>2, <1>3, <1>4 DEF t, GrownOK

(* The number of scopes outside one of this kind pushed now.               *)
Outside(s, kind) ==
  IF kind = "catch" /\ s[Len(s)].kind = "caught" THEN Len(s) - 1 ELSE Len(s)

PushedOK(s, t, c, declared, M) ==
  /\ ScopesOK(t, M)
  /\ Len(s) \in Nat \ {0, 1} /\ Len(t) = Len(s) + 1 /\ t[Len(s) + 1] = c
  /\ DeclaredIn(t, Len(s)) = DeclaredIn(s, Len(s))
  /\ DeclaredIn(t, Len(s) + 1) = DeclaredIn(s, Len(s)) \cup ({Len(s) + 1} \X declared)

LEMMA PushOK ==
  ASSUME NEW s, NEW L, NEW M, ScopesOK(s, L), s[Len(s)].kind \notin Bare,
         \A b \in L : b[1] \in 1..Len(s) => b \in M,
         NEW c, NEW kind \in {"if?", "loop?", "caught", "catch"}, NEW declared,
         kind \in Bare => declared = {}, NEW entry, IsNew(c, kind, declared, entry),
         Sound(entry, DeclaredIn(s, Outside(s, kind)), M),
         s[Len(s)].entry.inits \subseteq entry.inits,
         entry.reached => s[Len(s)].entry.reached
  PROVE  PushedOK(s, Grown(s, c), c, declared, M)
<1> DEFINE t == Grown(s, c)
           n == Len(s)
           u == Outside(s, kind)
<1>0. n \in Nat \ {0, 1} /\ n + 1 # 1 /\ n + 1 # 2
  BY DEF ScopesOK, IsSeq
<1>1. n \in Nat \ {0, 1} /\ GrownOK(s, t, c, M)
  BY <1>0, PushedBelow
<1>2. /\ IsSeq(t) /\ Len(t) = n + 1 /\ t[n + 1] = c
      /\ \A d \in 1..n : t[d] = s[d] /\ ScopeOK(t, d, M)
      /\ DeclaredIn(t, n) = DeclaredIn(s, n)
  BY <1>1 DEF GrownOK
<1>3. /\ IsScope(c) /\ c.kind = kind /\ c.declared = declared /\ c.entry = entry
      /\ c.outs = {} /\ DOMAIN c.may = {} /\ c.reached = FALSE
  BY DEF IsNew
<1> HIDE DEF t
<1>4. DeclaredIn(t, n + 1) = DeclaredIn(s, n) \cup ({n + 1} \X declared)
  <2>1. DeclaredIn(t, n + 1) = DeclaredIn(t, n) \cup ({n + 1} \X t[n + 1].declared)
    BY <1>1, DeclaredFacts
  <2> QED
    BY <2>1, <1>2, <1>3
<1>5. ScopeOK(t, n + 1, M)
  <2>1. t[n] = s[n] /\ (n + 1) - 1 = n /\ (n + 1) - 2 = n - 1
    BY <1>1, <1>2
  <2>2. Under(t, n + 1) = u
    BY <2>1, <1>2, <1>3 DEF Under, Outside
  <2>3. DeclaredIn(t, u) = DeclaredIn(s, u)
    <3>1. u \in Nat /\ u <= n
      BY <1>1 DEF Outside
    <3> HIDE DEF u
    <3> QED
      BY <3>1, <1>2, DeclaredSame
  <2>4. Sound(entry, DeclaredIn(t, u), M)
    BY <2>3
  <2>5. \A B : BranchesOK(c, B, M) \/ ~ (kind \in Conditional)
    BY <1>3 DEF BranchesOK
  <2>6. kind \in Kinds(n + 1)
    <3> HIDE DEF n
    <3> QED
      BY <1>0 DEF Kinds, Conditional
  <2> HIDE DEF u
  <2>7. kind \in Conditional => BranchesOK(c, DeclaredIn(t, u), M)
    BY <2>5
  <2> QED
    BY <2>1, <2>2, <2>4, <2>6, <2>7, <1>2, <1>3 DEF ScopeOK
<1>6. ScopesOK(t, M)
  <2>1. \A d \in 1..(n + 1) : d \in 1..n \/ d = n + 1
    BY <1>1
  <2>2. \A d \in 1..n : d \in 1..(n - 1) \/ d = n
    BY <1>1
  <2>3. \A d \in 1..n : t[d].kind \notin Bare
    BY <2>2, <1>2 DEF ScopesOK
  <2>4. \A d \in 1..Len(t) : ScopeOK(t, d, M)
    BY <2>1, <1>2, <1>5
  <2>5. Len(t) >= 2 /\ Len(t) - 1 = n
    BY <1>1, <1>2
  <2> QED
    BY <2>3, <2>4, <2>5, <1>2 DEF ScopesOK
<1> QED
  BY <1>1, <1>2, <1>4, <1>6 DEF t, PushedOK

(* A condition opens: nothing has left it, and no execution is behind it.  *)
LEMMA PushStep ==
  ASSUME IInv, Place(Blocks), NEW kind \in Conditions, Asking(kind),
         IsState(here'), here'.continues = here.continues, here'.inits = here.inits,
         here'.reached = here.reached, DOMAIN here'.may = DOMAIN here.may,
         \A b \in DOMAIN here.may : Unset \notin here.may[b] => Unset \notin here'.may[b]
  PROVE  IInv'
<1> DEFINE none == {}
           nothing == <<>>
           cleared == clearSemanticDeadStorePendingWrites(here)
           entry == [cleared EXCEPT !.may = nothing, !.reached = FALSE]
           c == Scope(kind, none, none, entry)
           B == DeclaredIn(scopes, Depth)
<1>0. scopes' = Append(scopes, c) /\ loose' = loose
  BY DEF Asking, Push, Same
<1>1. /\ Depth \in Nat \ {0, 1} /\ Depth = Len(scopes)
      /\ ~ Place(Bare)
      /\ Sound(here, B, loose) /\ ScopesOK(scopes, loose)
      /\ Top.entry.inits \subseteq here.inits /\ (here.reached => Top.entry.reached)
  BY BlockFacts DEF IInv, Place
<1>2. /\ IsState(entry) /\ entry.inits = here.inits /\ DOMAIN entry.may = {}
      /\ entry.reached = FALSE
  <2>1. IsState(cleared) /\ cleared.inits = here.inits
    BY <1>1, ClearedState DEF Sound
  <2>2. DOMAIN nothing = {}
    BY EmptyMap
  <2>3. PICK k, r, i, m, p, w :
          cleared = [continues |-> k, inits |-> i, pending |-> p, waiting |-> w,
                     may |-> m, reached |-> r] /\ k \in BOOLEAN
    BY <2>1, StateFields
  <2>4. entry = [cleared EXCEPT !.may = nothing, !.reached = FALSE]
    OBVIOUS
  <2> HIDE DEF c, entry, cleared, nothing, none
  <2>5. entry = [continues |-> k, inits |-> i, pending |-> p, waiting |-> w,
                 may |-> nothing, reached |-> FALSE]
    BY <2>3, <2>4
  <2> QED
    BY <2>1, <2>2, <2>3, <2>5 DEF IsState
<1>3. scopes' = Grown(scopes, c) /\ IsNew(c, kind, none, entry)
  BY <1>0, NewScope DEF Grown
<1>4. scopes[Len(scopes)] = Top
  BY <1>1 DEF Top
<1> HIDE DEF c, entry
<1>5. Sound(entry, B, loose) /\ Sound(here', B, loose)
  <2>1. Sound(entry, B, loose)
    BY <1>1, <1>2 DEF Sound
  <2>2. Sound(here', B, loose)
    BY <1>1 DEF Sound
  <2> QED
    BY <2>1, <2>2
<1>6. /\ ScopesOK(scopes', loose) /\ Len(scopes') = Depth + 1 /\ scopes'[Depth + 1] = c
      /\ DeclaredIn(scopes', Depth + 1) = B /\ scopes'[Depth] = Top
  <2>1. Outside(scopes, kind) = Depth
    BY <1>1 DEF Outside, Conditions
  <2>2. /\ Sound(entry, DeclaredIn(scopes, Outside(scopes, kind)), loose)
        /\ scopes[Len(scopes)].kind \notin Bare
        /\ scopes[Len(scopes)].entry.inits \subseteq entry.inits
        /\ entry.reached => scopes[Len(scopes)].entry.reached
    BY <2>1, <1>1, <1>2, <1>4, <1>5 DEF Place
  <2>3. /\ \A b \in loose : b[1] \in 1..Len(scopes) => b \in loose
        /\ kind \in {"if?", "loop?", "caught", "catch"} /\ (kind \in Bare => none = {})
    BY DEF Conditions
  <2> HIDE DEF none
  <2>4. PushedOK(scopes, Grown(scopes, c), c, none, loose)
    BY <2>2, <2>3, <1>1, <1>3, PushOK
  <2>5. scopes'[Depth] = Top
    <3>1. IsSeq(scopes) /\ Depth \in 1..Len(scopes)
      BY <1>1 DEF ScopesOK
    <3> QED
      BY <3>1, <1>1, <1>3, <1>4, PushSeq
  <2> QED
    BY <2>4, <2>5, <1>1, <1>3 DEF none, PushedOK
<1>7. /\ c.kind = kind /\ c.entry.inits = here.inits /\ c.reached = FALSE
      /\ kind \in Conditions /\ kind \notin {"between", "after"}
  BY <1>2, <1>3 DEF IsNew, Conditions
<1>8. (Depth + 1) - 1 = Depth
  BY <1>1
<1>9. HereOK(here', scopes', loose)
  BY <1>1, <1>5, <1>6, <1>7, <1>8 DEF HereOK
<1> QED
  BY <1>0, <1>6, <1>9 DEF IInv

LEMMA OpenIfStep ==
  ASSUME IInv, OpenIf
  PROVE  IInv'
<1>1. Asking("if?") /\ here' = here /\ Place(Blocks) /\ "if?" \in Conditions
  BY DEF OpenIf, Asking, Conditions
<1>2. IsState(here)
  BY <1>1, BlockFacts DEF Sound
<1> QED
  BY <1>1, <1>2, PushStep

LEMMA OpenLoopStep ==
  ASSUME IInv, OpenLoop
  PROVE  IInv'
<1> DEFINE mark == Carried(Depth + 1)
           again == [b \in DOMAIN here.may |-> here.may[b] \cup {mark}]
<1>1. /\ Asking("loop?") /\ Place(Blocks) /\ "loop?" \in Conditions
      /\ here' = [here EXCEPT !.may = again]
  BY DEF OpenLoop, Asking, Conditions
<1>2. IsState(here)
  BY <1>1, BlockFacts DEF Sound
<1>3. mark # Unset
  BY StoresAreSet
<1> HIDE DEF mark
<1>4. /\ DOMAIN again = DOMAIN here.may
      /\ \A b \in DOMAIN here.may : Unset \notin here.may[b] => Unset \notin again[b]
  BY <1>3
<1> HIDE DEF again
<1>5. /\ IsState(here') /\ here'.continues = here.continues /\ here'.inits = here.inits
      /\ here'.reached = here.reached /\ here'.may = again
  BY <1>1, <1>2 DEF IsState
<1> QED
  BY <1>1, <1>4, <1>5, PushStep

(* A catch block opens, in a scope of its own for the error it names.      *)
LEMMA OneMore ==
  ASSUME NEW s, IsSeq(s), NEW e
  PROVE  s \o <<e>> = Grown(s, e)
<1> DEFINE S == {s[i] : i \in 1..Len(s)} \cup {e}
<1>1. s \in Seq(S) /\ e \in S
  BY SeqMonotonic DEF IsSeq
<1> HIDE DEF S
<1> QED
  BY <1>1, AppendIsConcat DEF Grown

Catching(s, t, bound, caught, M) ==
  /\ ScopesOK(t, M)
  /\ t[Len(t)].kind = "catch" /\ t[Len(t)].entry = bound
  /\ DeclaredIn(t, Len(t)) = DeclaredIn(s, Len(s)) \cup ({Len(s) + 1} \X caught)

LEMMA CatchUnnamed ==
  ASSUME NEW s, NEW M, ScopesOK(s, M), s[Len(s)].kind \notin Bare \cup {"caught"},
         NEW bound, Sound(bound, DeclaredIn(s, Len(s)), M),
         s[Len(s)].entry.inits \subseteq bound.inits, bound.reached => s[Len(s)].entry.reached,
         NEW block, IsNew(block, "catch", {}, bound)
  PROVE  Catching(s, Grown(s, block), bound, {}, M)
<1> DEFINE none == {}
<1>1. Outside(s, "catch") = Len(s)
  BY DEF Outside
<1>2. Sound(bound, DeclaredIn(s, Outside(s, "catch")), M)
  BY <1>1
<1>3. s[Len(s)].kind \notin Bare
  OBVIOUS
<1>4. /\ "catch" \in {"if?", "loop?", "caught", "catch"} /\ IsNew(block, "catch", none, bound)
      /\ "catch" \in Bare => none = {}
  OBVIOUS
<1> HIDE DEF none
<1>5. PushedOK(s, Grown(s, block), block, none, M)
  BY <1>2, <1>3, <1>4, PushOK
<1> QED
  BY <1>5 DEF PushedOK, Catching, IsNew, none

LEMMA CatchNamed ==
  ASSUME NEW s, NEW M, ScopesOK(s, M), s[Len(s)].kind \notin Bare \cup {"caught"},
         NEW bound, Sound(bound, DeclaredIn(s, Len(s)), M),
         s[Len(s)].entry.inits \subseteq bound.inits, bound.reached => s[Len(s)].entry.reached,
         NEW caught, NEW error, IsNew(error, "caught", caught, bound),
         NEW block, IsNew(block, "catch", {}, bound)
  PROVE  Catching(s, Grown(Grown(s, error), block), bound, caught, M)
<1> DEFINE none == {}
           t == Grown(s, error)
           n == Len(s)
<1>1. Outside(s, "caught") = n
  BY DEF Outside
<1>2. Sound(bound, DeclaredIn(s, Outside(s, "caught")), M)
  BY <1>1
<1>3. /\ s[n].kind \notin Bare /\ "caught" \in {"if?", "loop?", "caught", "catch"}
      /\ "caught" \notin Bare
  BY DEF Bare
<1>4. PushedOK(s, t, error, caught, M)
  BY <1>2, <1>3, PushOK
<1>5. /\ ScopesOK(t, M) /\ n \in Nat /\ Len(t) = n + 1 /\ t[n + 1] = error
      /\ DeclaredIn(t, n) = DeclaredIn(s, n)
      /\ DeclaredIn(t, n + 1) = DeclaredIn(s, n) \cup ({n + 1} \X caught)
  BY <1>4 DEF PushedOK
<1>6. error.kind = "caught" /\ error.entry = bound
  BY DEF IsNew
<1> HIDE DEF t
<1>7. t[Len(t)] = error /\ Outside(t, "catch") = n
  BY <1>5, <1>6 DEF Outside
<1>8. Sound(bound, DeclaredIn(t, Outside(t, "catch")), M)
  BY <1>5, <1>7
<1>9. /\ t[Len(t)].kind \notin Bare
      /\ t[Len(t)].entry.inits \subseteq bound.inits
      /\ bound.reached => t[Len(t)].entry.reached
      /\ "catch" \in {"if?", "loop?", "caught", "catch"} /\ IsNew(block, "catch", none, bound)
      /\ "catch" \in Bare => none = {}
  BY <1>6, <1>7 DEF Bare
<1> HIDE DEF none
<1>10. PushedOK(t, Grown(t, block), block, none, M)
  BY <1>5, <1>8, <1>9, PushOK
<1> QED
  BY <1>5, <1>10 DEF PushedOK, Catching, IsNew, none, t

Changing(h, p, w, i, m) == [h EXCEPT !.pending = p, !.waiting = w, !.inits = i, !.may = m]

IsChanged(h, k, i, m) ==
  /\ IsState(k) /\ k.continues = h.continues /\ k.reached = h.reached
  /\ k.inits = i /\ k.may = m

LEMMA Changed ==
  ASSUME NEW h, IsState(h), NEW p, NEW w, NEW i, NEW m
  PROVE  IsChanged(h, Changing(h, p, w, i, m), i, m)
<1> DEFINE k == Changing(h, p, w, i, m)
<1>1. PICK c, r, i0, m0, p0, w0 :
        /\ h = [continues |-> c, inits |-> i0, pending |-> p0, waiting |-> w0,
                may |-> m0, reached |-> r]
        /\ c \in BOOLEAN /\ r \in BOOLEAN
  BY StateFields
<1>2. k = [h EXCEPT !.pending = p, !.waiting = w, !.inits = i, !.may = m]
  BY DEF Changing
<1> HIDE DEF k
<1>a. k = [continues |-> c, inits |-> i, pending |-> p, waiting |-> w, may |-> m, reached |-> r]
  BY <1>1, <1>2
<1>3. /\ IsState(k) /\ k.continues = h.continues /\ k.reached = h.reached
      /\ k.inits = i /\ k.may = m
  BY <1>1, <1>a DEF IsState
<1> QED
  BY <1>3 DEF IsChanged, k

LEMMA OpenSecureStep ==
  ASSUME IInv, NEW v, NEW c, NEW hoisted, OpenSecure(v, c, hoisted)
  PROVE  IInv'
<1> DEFINE b == <<Depth, v>>
           B == DeclaredIn(scopes, Depth)
           none == {}
           i1 == IF here.continues THEN here.inits \cup {b} ELSE here.inits
           m1 == IF here.reached
                 THEN [x \in DOMAIN here.may \cup {b} |-> IF x = b THEN {NewStore} ELSE here.may[x]]
                 ELSE here.may
           bound == Changing(here, none, none, i1, m1)
           caught == IF c = Nobody THEN {} ELSE {c}
           C == {Depth + 1} \X caught
           failed == [x \in DOMAIN bound.may \cup C |->
                        IF x = b THEN {Unset} ELSE IF x \in DOMAIN bound.may THEN bound.may[x] ELSE {Given}]
           i2 == IF here.continues THEN bound.inits \cup C ELSE bound.inits
           m2 == IF here.reached THEN failed ELSE bound.may
           s1 == Declaring(scopes, v)
           block == Scope("catch", hoisted, {}, bound)
           error == Scope("caught", caught, caught, bound)
<1>1. /\ Place(Blocks) /\ v \notin Top.declared
      /\ here' = [bound EXCEPT !.inits = i2, !.may = m2]
      /\ loose' = WithinScope(loose \cup {b}, (Depth + 1) - 1)
      /\ scopes' = (IF c = Nobody THEN [scopes EXCEPT ![Depth].declared = @ \cup {v}]
                    ELSE Append([scopes EXCEPT ![Depth].declared = @ \cup {v}], error)) \o <<block>>
  BY DEF OpenSecure, Entering, Changing
<1>2. /\ Depth \in Nat \ {0, 1} /\ Depth = Len(scopes)
      /\ Top.kind \notin Bare \cup {"caught"}
      /\ Sound(here, B, loose) /\ ScopesOK(scopes, loose)
      /\ Top.entry.inits \subseteq here.inits /\ (here.reached => Top.entry.reached)
  BY <1>1, BlockFacts DEF IInv, Place
<1>3. scopes' = (IF c = Nobody THEN s1 ELSE Grown(s1, error)) \o <<block>>
  BY <1>1, <1>2 DEF Declaring, Put, Grown
<1>4. b \in loose' /\ \A x \in loose : x[1] \in 1..Depth => x \in loose'
  <2>1. b[1] = Depth /\ (Depth + 1) - 1 = Depth
    BY <1>2
  <2>2. loose' = WithinScope(loose \cup {b}, Depth)
    BY <2>1, <1>1
  <2> HIDE DEF b
  <2> QED
    BY <2>1, <2>2, <1>2 DEF WithinScope
<1>5. b \notin B
  BY <1>1, <1>2, NotYet DEF Top
<1>6. Sound(here, B, loose')
  BY <1>2, <1>4, SoundKept
(* The place inside the block. *)
<1>7. /\ IsState(bound) /\ bound.continues = here.continues /\ bound.reached = here.reached
      /\ bound.inits = i1 /\ bound.may = m1
  <2>1. IsState(here)
    BY <1>6 DEF Sound
  <2> HIDE DEF i1, m1, none
  <2>2. IsChanged(here, bound, i1, m1)
    BY <2>1, Changed
  <2> QED
    BY <2>2 DEF IsChanged
<1>8. Sound(bound, B \cup {b}, loose') /\ here.inits \subseteq bound.inits
  <2> HIDE DEF bound, b
  <2>1. bound.inits \subseteq B \cup {b} /\ here.inits \subseteq bound.inits
    BY <1>6, <1>7 DEF Sound
  <2>2. DOMAIN bound.may = IF bound.reached THEN B \cup {b} ELSE {}
    BY <1>6, <1>7 DEF Sound
  <2>3. ASSUME bound.reached, NEW x \in bound.inits \ loose'
        PROVE  Unset \notin bound.may[x]
    BY <2>3, <1>4, <1>6, <1>7 DEF Sound
  <2> QED
    BY <2>1, <2>2, <2>3, <1>6, <1>7 DEF Sound
<1>9. /\ IsState(here') /\ here'.continues = here.continues /\ here'.reached = here.reached
      /\ here'.inits = i2 /\ here'.may = m2
  <2> HIDE DEF i2, m2, bound
  <2>1. here' = Changing(bound, bound.pending, bound.waiting, i2, m2)
    <3>1. PICK o, r, i0, m0, p0, w0 :
            bound = [continues |-> o, inits |-> i0, pending |-> p0, waiting |-> w0,
                     may |-> m0, reached |-> r]
      BY <1>7, StateFields
    <3> QED
      BY <1>1, <3>1 DEF Changing
  <2>2. IsChanged(bound, here', i2, m2)
    BY <2>1, <1>7, Changed
  <2> QED
    BY <2>2, <1>7 DEF IsChanged
<1>10. Sound(here', (B \cup {b}) \cup C, loose') /\ bound.inits \subseteq here'.inits
  <2>0. Unset # Given
    BY StoresAreSet
  <2> HIDE DEF bound, b, C
  <2>1. here'.inits \subseteq (B \cup {b}) \cup C /\ bound.inits \subseteq here'.inits
    BY <1>8, <1>9 DEF Sound
  <2>2. DOMAIN here'.may = IF here'.reached THEN (B \cup {b}) \cup C ELSE {}
    BY <1>7, <1>8, <1>9 DEF Sound
  <2>3. ASSUME here'.reached, NEW x \in here'.inits \ loose'
        PROVE  Unset \notin here'.may[x]
    <3>1. x # b /\ here.reached /\ here.continues /\ bound.reached
      BY <2>3, <1>4, <1>6, <1>7, <1>9 DEF Sound
    <3>2. x \in bound.inits \cup C
      BY <2>3, <3>1, <1>9
    <3>3. here'.may[x] = IF x \in DOMAIN bound.may THEN bound.may[x] ELSE {Given}
      BY <2>3, <3>1, <1>8, <1>9, <2>1, <2>2 DEF Sound
    <3>4. x \in DOMAIN bound.may => x \in bound.inits \/ x \in C
      BY <3>2
    <3>5. x \in DOMAIN bound.may => Unset \notin bound.may[x]
      <4>1. \A y \in C : y[1] = Depth + 1
        BY DEF C
      <4>2. \A y \in B : y[1] \in 1..Depth
        BY <1>2, DeclaredFacts
      <4>3. x \in DOMAIN bound.may => x \in B \cup {b}
        BY <1>8, <3>1 DEF Sound
      <4>4. b[1] = Depth
        BY DEF b
      <4>5. x \in DOMAIN bound.may => x \notin C
        BY <4>1, <4>2, <4>3, <4>4, <1>2
      <4> QED
        BY <4>5, <3>1, <3>4, <2>3, <1>8 DEF Sound
    <3> QED
      BY <3>3, <3>5, <2>0
  <2>4. IsState(here') /\ (here'.reached => here'.continues)
    BY <1>7, <1>8, <1>9 DEF Sound
  <2> HIDE DEF i2, m2
  <2>5. Sound(here', (B \cup {b}) \cup C, loose')
    BY <2>1, <2>2, <2>3, <2>4 DEF Sound
  <2> QED
    BY <2>1, <2>5
(* The scopes. *)
<1> HIDE DEF bound, b, C
<1>11. scopes[Len(scopes)] = Top /\ Len(scopes) = Depth
  BY <1>2 DEF Top
<1>12. /\ ScopesOK(s1, loose) /\ Len(s1) = Depth
       /\ s1[Depth].kind = Top.kind /\ s1[Depth].entry = Top.entry
       /\ DeclaredIn(s1, Depth) = B \cup {b}
  <2>1. ScopesOK(s1, loose) /\ MoreDeclared(scopes, s1, v)
    BY <1>2, <1>11, DeclaredTop
  <2> HIDE DEF s1
  <2> QED
    BY <2>1, <1>11 DEF MoreDeclared, b
<1> HIDE DEF s1
<1>13. ScopesOK(s1, loose')
  <2>1. \A d \in 1..Len(s1) : ScopeOK(s1, d, loose')
    <3>1. ASSUME NEW d \in 1..Len(s1) PROVE ScopeOK(s1, d, loose')
      <4>1. d \in Nat \ {0} /\ ScopeOK(s1, d, loose)
        BY <1>12 DEF ScopesOK
      <4>2. \A x \in loose : x[1] \in 1..(d - 1) => x \in loose'
        BY <1>2, <1>4, <1>12
      <4> QED
        BY <4>1, <4>2, ScopeKept
    <3> QED
      BY <3>1
  <2> QED
    BY <2>1, <1>12 DEF ScopesOK
<1>14. Catching(s1, scopes', bound, caught, loose')
  <2>1. /\ s1[Len(s1)].kind \notin Bare \cup {"caught"}
        /\ Sound(bound, DeclaredIn(s1, Len(s1)), loose')
        /\ s1[Len(s1)].entry.inits \subseteq bound.inits
        /\ bound.reached => s1[Len(s1)].entry.reached
    BY <1>2, <1>7, <1>8, <1>12
  <2>2. IsNew(block, "catch", {}, bound) /\ IsNew(error, "caught", caught, bound)
    BY NewScope
  <2>3. IsSeq(s1)
    BY <1>13 DEF ScopesOK
  <2> HIDE DEF block, error
  <2>4. CASE c = Nobody
    <3>1. scopes' = Grown(s1, block) /\ caught = {}
      BY <2>3, <2>4, <1>3, OneMore
    <3> HIDE DEF caught
    <3> QED
      BY <3>1, <2>1, <2>2, <1>13, CatchUnnamed
  <2>5. CASE c # Nobody
    <3>1. IsSeq(Grown(s1, error))
      BY <2>3, PushSeq
    <3>2. scopes' = Grown(Grown(s1, error), block)
      BY <2>5, <3>1, <1>3, OneMore
    <3> HIDE DEF caught
    <3> QED
      BY <3>2, <2>1, <2>2, <1>13, CatchNamed
  <2> QED
    BY <2>4, <2>5
<1>15. HereOK(here', scopes', loose')
  <2>1. DeclaredIn(scopes', Len(scopes')) = (B \cup {b}) \cup C
    BY <1>12, <1>14 DEF Catching, C
  <2> QED
    BY <2>1, <1>7, <1>9, <1>10, <1>14 DEF Catching, HereOK, Conditions
<1> QED
  BY <1>14, <1>15 DEF IInv, Catching

-----------------------------------------------------------------------------
(* Branches of a conditional statement.                                    *)

(* What this place is outside the scopes beyond the first n.               *)
LEMMA LeavingSound ==
  ASSUME IInv, NEW n \in 1..Depth
  PROVE  /\ IsChanged(here, Leaving(n), WithinScope(here.inits, n), Outer(here.may, n))
         /\ Sound(Leaving(n), DeclaredIn(scopes, n), loose)
<1> DEFINE i == WithinScope(here.inits, n)
           m == Outer(here.may, n)
           left == Leaving(n)
<1>1. Depth \in Nat /\ Depth = Len(scopes) /\ Sound(here, DeclaredIn(scopes, Depth), loose)
  BY DEF IInv, ScopesOK, HereOK, IsSeq, Depth
<1>2. DeclaredIn(scopes, n) = WithinScope(DeclaredIn(scopes, Depth), n)
  BY <1>1, DeclaredFacts
<1>3. left = Changing(here, here.pending, here.waiting, i, m)
  <2>1. PICK c, r, i0, m0, p0, w0 :
          /\ here = [continues |-> c, inits |-> i0, pending |-> p0, waiting |-> w0, may |-> m0, reached |-> r]
          /\ c \in BOOLEAN /\ r \in BOOLEAN
    BY <1>1, StateFields DEF Sound
  <2>2. left = [here EXCEPT !.inits = i, !.may = m]
    BY DEF Leaving
  <2> DEFINE k == Changing(here, here.pending, here.waiting, i, m)
  <2>3. k = [here EXCEPT !.pending = here.pending, !.waiting = here.waiting, !.inits = i, !.may = m]
    BY DEF Changing
  <2> HIDE DEF left, k, i, m
  <2>4. left = [continues |-> c, inits |-> i, pending |-> p0, waiting |-> w0, may |-> m, reached |-> r]
    BY <2>1, <2>2
  <2>5. k = [continues |-> c, inits |-> i, pending |-> here.pending,
             waiting |-> here.waiting, may |-> m, reached |-> r]
    BY <2>1, <2>3
  <2>6. here.pending = p0 /\ here.waiting = w0
    BY <2>1
  <2>7. k = left
    BY <2>4, <2>5, <2>6
  <2> QED
    BY <2>7 DEF k
<1>4. IsState(here)
  BY <1>1 DEF Sound
<1> HIDE DEF i, m, left
<1>5. IsChanged(here, left, i, m)
  BY <1>3, <1>4, Changed
<1>6. IsState(left) /\ left.continues = here.continues /\ left.reached = here.reached
      /\ left.inits = WithinScope(here.inits, n) /\ left.may = Outer(here.may, n)
  BY <1>5 DEF IsChanged, i, m
<1>7. left.inits \subseteq DeclaredIn(scopes, n)
  BY <1>1, <1>2, <1>6 DEF Sound, WithinScope
<1>8. DOMAIN left.may = IF left.reached THEN DeclaredIn(scopes, n) ELSE {}
  BY <1>1, <1>2, <1>6 DEF Sound, WithinScope, Outer
<1>9. ASSUME left.reached, NEW b \in left.inits \ loose PROVE Unset \notin left.may[b]
  <2>1. b \in here.inits \ loose /\ b \in WithinScope(DOMAIN here.may, n)
    BY <1>1, <1>6, <1>9 DEF Sound, WithinScope
  <2>2. left.may[b] = here.may[b]
    BY <2>1, <1>6 DEF Outer
  <2> QED
    BY <2>1, <2>2, <1>1, <1>6, <1>9 DEF Sound
<1>10. Sound(left, DeclaredIn(scopes, n), loose)
  BY <1>1, <1>6, <1>7, <1>8, <1>9 DEF Sound
<1> QED
  BY <1>5, <1>10 DEF left, i, m

(* The scope at hand becomes another part of the same statement.           *)
Retopped(t, h, M) == ScopesOK(t, M) /\ HereOK(h, t, M)

(* What is right of the scope top in the place of the last one of s.       *)
TopOK(s, top, M) ==
  LET B == DeclaredIn(s, Len(s) - 1) IN
  /\ IsScope(top) /\ top.kind \in Conditional \cup {"loop"} /\ top.declared = {}
  /\ Sound(top.entry, B, M)
  /\ s[Len(s) - 1].entry.inits \subseteq top.entry.inits
  /\ top.entry.reached => s[Len(s) - 1].entry.reached
  /\ top.kind \in Conditional => BranchesOK(top, B, M)

LEMMA TopChanged ==
  ASSUME NEW s, NEW L, NEW M, ScopesOK(s, L), s[Len(s)].kind \in Conditional \cup {"loop?"},
         \A b \in L : b[1] \in 1..(Len(s) - 1) => b \in M,
         NEW top, TopOK(s, top, M),
         NEW h, Sound(h, DeclaredIn(s, Len(s) - 1), M), top.entry.inits \subseteq h.inits,
         h.reached => IF top.kind = "if?" THEN s[Len(s) - 1].entry.reached
                      ELSE top.entry.reached,
         top.kind = "if?" /\ top.reached => h.reached,
         top.kind \in {"between", "after"} => h = top.entry
  PROVE  Retopped(Put(s, Len(s), top), h, M)
<1> DEFINE n == Len(s)
           t == Put(s, n, top)
<1>1. IsSeq(s) /\ n \in Nat \ {0} /\ ScopeOK(s, n, L)
  BY DEF ScopesOK, IsSeq
<1>2. n # 1 /\ n # 2 /\ n > 1 /\ n >= 2
  <2>1. n # 1 /\ n # 2
    BY <1>1 DEF ScopeOK, Kinds, Conditional
  <2> HIDE DEF n
  <2> QED
    BY <2>1, <1>1
<1>3. /\ IsSeq(t) /\ Len(t) = n
      /\ \A i \in 1..n : t[i] = IF i = n THEN top ELSE s[i]
  BY <1>1, PutSeq
<1> HIDE DEF t
<1>4. t[n] = top /\ t[n - 1] = s[n - 1] /\ n - 1 \in Nat \ {0, 1}
  <2>1. n \in 1..n /\ n - 1 \in 1..n /\ n - 1 # n /\ n - 1 \in Nat \ {0, 1}
    BY <1>1, <1>2
  <2> QED
    BY <2>1, <1>3
<1>5. Under(t, n) = n - 1
  BY <1>4 DEF Under, Conditional, TopOK
<1>6. DeclaredIn(t, n - 1) = DeclaredIn(s, n - 1)
  BY <1>3, <1>4, DeclaredSame
<1>8. ScopeOK(t, n, M)
  <2>1. n > 1 /\ top.kind \in Kinds(n)
    BY <1>2 DEF Kinds, TopOK
  <2> QED
    BY <2>1, <1>4, <1>5, <1>6 DEF ScopeOK, TopOK
<1>9. ASSUME NEW d \in 1..(n - 1) PROVE ScopeOK(t, d, M)
  <2>1. d \in Nat \ {0} /\ d \in 1..n /\ d # n
    BY <1>1
  <2>2. /\ \A i \in 1..d : t[i].kind = s[i].kind /\ t[i].entry = s[i].entry
        /\ \A i \in 1..(d - 1) : t[i].declared = s[i].declared
        /\ t[d] = s[d]
    BY <2>1, <1>1, <1>3
  <2>3. \A b \in L : b[1] \in 1..(d - 1) => b \in M
    BY <2>1, <1>1
  <2>4. ScopeOK(s, d, L)
    BY <2>1 DEF ScopesOK
  <2> QED
    BY <2>1, <2>2, <2>3, <2>4, ScopeKept
<1>10. ScopesOK(t, M)
  <2>1. \A d \in 1..n : d \in 1..(n - 1) \/ d = n
    BY <1>1
  <2>2. \A d \in 1..(n - 1) : t[d] = s[d] /\ s[d].kind \notin Bare
    BY <1>1, <1>3 DEF ScopesOK
  <2>3. n >= 2
    BY <1>1, <1>2
  <2> QED
    BY <2>1, <2>2, <2>3, <1>3, <1>8, <1>9 DEF ScopesOK
<1>11. DeclaredIn(t, n) = DeclaredIn(s, n - 1)
  <2>1. n - 1 \in Nat /\ (n - 1) + 1 = n
    BY <1>4
  <2>2. DeclaredIn(t, n) = DeclaredIn(t, n - 1) \cup ({n} \X t[n].declared)
    BY <2>1, DeclaredFacts
  <2> QED
    BY <2>2, <1>4, <1>6 DEF TopOK
<1>12. top.kind \in Conditions <=> top.kind = "if?"
  BY DEF TopOK, Conditional, Conditions
<1>13. HereOK(h, t, M)
  BY <1>3, <1>4, <1>11, <1>12 DEF HereOK
<1> QED
  BY <1>10, <1>13 DEF Retopped, t

(* A place at the end of a branch or between two.                          *)
LEMMA ConditionalFacts ==
  ASSUME IInv, Top.kind \in Conditional
  PROVE  /\ Depth = Len(scopes) /\ Depth \in Nat /\ Depth - 1 \in 2..(Depth - 1)
         /\ Depth - 1 \in 1..Depth
         /\ Top = scopes[Len(scopes)] /\ ScopeOK(scopes, Depth, loose)
         /\ IsScope(Top) /\ Sound(Top.entry, DeclaredIn(scopes, Depth - 1), loose)
         /\ BranchesOK(Top, DeclaredIn(scopes, Depth - 1), loose)
         /\ scopes[Depth - 1].entry.inits \subseteq Top.entry.inits
         /\ Top.entry.reached => scopes[Depth - 1].entry.reached
         /\ Top.entry.inits \subseteq here.inits
         /\ Top.kind # "if?" => (here.reached => Top.entry.reached)
<1>1. /\ Depth = Len(scopes) /\ Depth \in Nat \ {0} /\ Top = scopes[Len(scopes)]
      /\ ScopeOK(scopes, Depth, loose)
      /\ Top.entry.inits \subseteq here.inits
      /\ Top.kind # "if?" => (here.reached => Top.entry.reached)
  BY DEF IInv, ScopesOK, HereOK, IsSeq, Depth, Top, Conditional, Conditions
<1>2. Depth # 1 /\ Depth # 2
  BY <1>1 DEF ScopeOK, Kinds, Conditional
<1>3. Depth \in Nat /\ Depth > 1 /\ Depth - 1 \in 2..(Depth - 1) /\ Depth - 1 \in 1..Depth
  BY <1>1, <1>2
<1>4. Under(scopes, Depth) = Depth - 1
  BY <1>1 DEF Under, Conditional
<1> QED
  BY <1>1, <1>3, <1>4 DEF ScopeOK

Reopened(c, kind, hoisted, entry) ==
  [c EXCEPT !.kind = kind, !.hoisted = hoisted, !.entry = entry]

IsReopened(c, k, kind, entry) ==
  /\ IsScope(k) /\ k.kind = kind /\ k.entry = entry
  /\ k.declared = c.declared /\ k.outs = c.outs /\ k.may = c.may /\ k.reached = c.reached

LEMMA ReopenedFields ==
  ASSUME NEW c, IsScope(c), NEW kind, NEW hoisted, NEW entry
  PROVE  IsReopened(c, Reopened(c, kind, hoisted, entry), kind, entry)
<1> DEFINE k == Reopened(c, kind, hoisted, entry)
<1>1. k = [c EXCEPT !.kind = kind, !.hoisted = hoisted, !.entry = entry]
  BY DEF Reopened
<1>2. PICK k0, h0, d0, e0, o0, m0, r0 :
        c = [kind |-> k0, hoisted |-> h0, declared |-> d0, entry |-> e0,
             outs |-> o0, may |-> m0, reached |-> r0]
  BY DEF IsScope
<1> HIDE DEF k
<1>3. k = [kind |-> kind, hoisted |-> hoisted, declared |-> d0, entry |-> entry,
           outs |-> o0, may |-> m0, reached |-> r0]
  BY <1>1, <1>2
<1>4. /\ IsScope(k) /\ k.kind = kind /\ k.declared = c.declared /\ k.entry = entry
      /\ k.outs = c.outs /\ k.may = c.may /\ k.reached = c.reached
  BY <1>2, <1>3 DEF IsScope
<1> QED
  BY <1>4 DEF k, IsReopened

(* What is known of the place and the scope at hand in a statement with a  *)
(* condition that has not opened a block.                                  *)
LEMMA AskedFacts ==
  ASSUME IInv, Top.kind \in {"if?", "loop?", "between"}
  PROVE  /\ Depth = Len(scopes) /\ Depth \in Nat /\ Depth - 1 \in Nat /\ Depth >= 3
         /\ Top = scopes[Len(scopes)]
         /\ ScopesOK(scopes, loose) /\ IsScope(Top) /\ Top.declared = {}
         /\ Sound(here, DeclaredIn(scopes, Depth - 1), loose)
         /\ Sound(Top.entry, DeclaredIn(scopes, Depth - 1), loose)
         /\ scopes[Depth - 1].entry.inits \subseteq Top.entry.inits
         /\ Top.entry.inits \subseteq here.inits
         /\ Top.entry.reached => scopes[Depth - 1].entry.reached
         /\ Top.kind \in Conditions =>
              /\ here.reached => scopes[Depth - 1].entry.reached
              /\ Top.kind = "if?" /\ Top.reached => here.reached
         /\ Top.kind = "between" => here = Top.entry
         /\ Top.kind \in Conditional => BranchesOK(Top, DeclaredIn(scopes, Depth - 1), loose)
<1>1. /\ Depth = Len(scopes) /\ Depth \in Nat \ {0} /\ Top = scopes[Len(scopes)]
      /\ ScopesOK(scopes, loose) /\ ScopeOK(scopes, Depth, loose)
      /\ HereOK(here, scopes, loose)
  BY DEF IInv, ScopesOK, IsSeq, Depth, Top
<1>2. Depth # 1 /\ Depth # 2
  BY <1>1 DEF ScopeOK, Kinds
<1>3. Depth > 1 /\ Depth >= 3 /\ Depth - 1 \in Nat /\ (Depth - 1) + 1 = Depth
  BY <1>1, <1>2
<1>4. Under(scopes, Depth) = Depth - 1 /\ Top.kind \in Bare
  BY <1>1 DEF Under, Bare
<1>5. Top.declared = {}
  BY <1>1, <1>4 DEF ScopeOK
<1>6. DeclaredIn(scopes, Depth) = DeclaredIn(scopes, Depth - 1)
  <2> DEFINE n == Depth - 1
  <2>1. n \in Nat /\ n + 1 = Depth /\ scopes[n + 1].declared = {}
    BY <1>1, <1>3, <1>5
  <2> HIDE DEF n
  <2>2. DeclaredIn(scopes, n + 1) = DeclaredIn(scopes, n) \cup ({n + 1} \X scopes[n + 1].declared)
    BY <2>1, DeclaredFacts
  <2>3. {n + 1} \X scopes[n + 1].declared = {}
    BY <2>1
  <2>4. DeclaredIn(scopes, n + 1) = DeclaredIn(scopes, n)
    BY <2>2, <2>3
  <2> QED
    BY <2>1, <2>4 DEF n
<1>7. /\ IsScope(Top) /\ Sound(here, DeclaredIn(scopes, Depth - 1), loose)
      /\ Sound(Top.entry, DeclaredIn(scopes, Depth - 1), loose)
      /\ scopes[Depth - 1].entry.inits \subseteq Top.entry.inits
      /\ Top.entry.reached => scopes[Depth - 1].entry.reached
      /\ Top.kind \in Conditional => BranchesOK(Top, DeclaredIn(scopes, Depth - 1), loose)
  BY <1>1, <1>3, <1>4, <1>6 DEF ScopeOK, HereOK
<1>8. /\ Top.entry.inits \subseteq here.inits
      /\ Top.kind = "between" => here = Top.entry
      /\ Top.kind \in Conditions =>
           /\ here.reached => scopes[Depth - 1].entry.reached
           /\ Top.kind = "if?" /\ Top.reached => here.reached
  BY <1>1 DEF HereOK
<1> QED
  BY <1>1, <1>3, <1>5, <1>7, <1>8

LEMMA NextConditionStep ==
  ASSUME IInv, NextCondition
  PROVE  IInv'
<1> DEFINE top == [Top EXCEPT !.kind = "if?"]
           B == DeclaredIn(scopes, Depth - 1)
<1>1. /\ Top.kind = "between" /\ here' = here /\ loose' = loose
      /\ scopes' = [scopes EXCEPT ![Depth].kind = "if?"]
  BY DEF NextCondition, Place, Same
<1>2. /\ Depth = Len(scopes) /\ Depth \in Nat /\ Top = scopes[Len(scopes)]
      /\ ScopesOK(scopes, loose) /\ IsScope(Top) /\ Top.declared = {}
      /\ Sound(here, B, loose) /\ Sound(Top.entry, B, loose)
      /\ scopes[Depth - 1].entry.inits \subseteq Top.entry.inits
      /\ Top.entry.inits \subseteq here.inits
      /\ Top.entry.reached => scopes[Depth - 1].entry.reached
      /\ here = Top.entry
      /\ Top.kind \in Conditional => BranchesOK(Top, B, loose)
  BY <1>1, AskedFacts
<1>3. scopes' = Put(scopes, Len(scopes), top)
  BY <1>1, <1>2 DEF Put
<1>4. /\ IsScope(top) /\ top.kind = "if?" /\ top.declared = {} /\ top.entry = Top.entry
      /\ top.outs = Top.outs /\ top.may = Top.may /\ top.reached = Top.reached
  BY <1>2 DEF IsScope
<1> HIDE DEF top, B
<1>5. Top.kind \in Conditional /\ top.kind \in Conditional
  BY <1>1, <1>4 DEF Conditional
<1>6. BranchesOK(top, B, loose)
  BY <1>2, <1>4, <1>5 DEF BranchesOK
<1>7. TopOK(scopes, top, loose)
  BY <1>2, <1>4, <1>5, <1>6 DEF TopOK, B
<1>8. top.reached => here.reached
  BY <1>2, <1>4, <1>6 DEF BranchesOK
<1>9. Retopped(Put(scopes, Len(scopes), top), here, loose)
  <2>1. /\ \A b \in loose : b[1] \in 1..(Len(scopes) - 1) => b \in loose
        /\ scopes[Len(scopes)].kind \in Conditional \cup {"loop?"}
        /\ Sound(here, DeclaredIn(scopes, Len(scopes) - 1), loose)
        /\ top.entry.inits \subseteq here.inits
        /\ here.reached => IF top.kind = "if?" THEN scopes[Len(scopes) - 1].entry.reached
                           ELSE top.entry.reached
        /\ top.kind = "if?" /\ top.reached => here.reached
        /\ top.kind \in {"between", "after"} => here = top.entry
    BY <1>2, <1>4, <1>5, <1>8 DEF B
  <2> QED
    BY <2>1, <1>2, <1>7, TopChanged
<1> QED
  BY <1>1, <1>3, <1>9 DEF Retopped, IInv

(* The block behind a condition, entered in a state that claims no more    *)
(* than the one here and that executions have reached as this one.         *)
LEMMA BehindStep ==
  ASSUME IInv, NEW kind \in {"if", "else", "loop"}, NEW hoisted, NEW entry,
         Behind(kind, hoisted, entry), Top.kind \in {"if?", "loop?", "between"},
         kind = "loop" <=> Top.kind = "loop?",
         Sound(entry, DeclaredIn(scopes, Depth - 1), loose),
         scopes[Depth - 1].entry.inits \subseteq entry.inits, entry.inits \subseteq here.inits,
         kind # "loop" => entry.inits = Top.entry.inits,
         entry.reached = here.reached
  PROVE  IInv'
<1> DEFINE top == Reopened(Top, kind, hoisted, entry)
           B == DeclaredIn(scopes, Depth - 1)
<1>1. /\ here' = clearSemanticDeadStorePendingWrites(here)
      /\ loose' = WithinScope(loose \cup {}, Depth - 1)
      /\ scopes' = [scopes EXCEPT ![Depth] = [@ EXCEPT !.kind = kind, !.hoisted = hoisted, !.entry = entry]]
  BY DEF Behind, Entering
<1>2. /\ Depth = Len(scopes) /\ Depth \in Nat /\ Depth - 1 \in Nat /\ Top = scopes[Len(scopes)]
      /\ ScopesOK(scopes, loose) /\ IsScope(Top) /\ Top.declared = {}
      /\ Sound(here, B, loose)
      /\ Top.entry.reached => scopes[Depth - 1].entry.reached
      /\ Top.kind \in Conditions =>
           /\ here.reached => scopes[Depth - 1].entry.reached
           /\ Top.kind = "if?" /\ Top.reached => here.reached
      /\ Top.kind = "between" => here = Top.entry
      /\ Top.kind \in Conditional => BranchesOK(Top, B, loose)
  BY AskedFacts
<1>3. scopes' = Put(scopes, Len(scopes), top)
  BY <1>1, <1>2 DEF Put, Reopened
<1>4. /\ IsScope(top) /\ top.kind = kind /\ top.declared = {} /\ top.entry = entry
      /\ top.outs = Top.outs /\ top.may = Top.may /\ top.reached = Top.reached
  BY <1>2, ReopenedFields DEF IsReopened
<1>5. \A b \in loose : b[1] \in 1..(Depth - 1) => b \in loose'
  BY <1>1, <1>2 DEF WithinScope
<1>6. /\ IsState(here') /\ here'.continues = here.continues /\ here'.inits = here.inits
      /\ here'.may = here.may /\ here'.reached = here.reached
  BY <1>1, <1>2, ClearedState DEF Sound
<1> HIDE DEF top
<1>7. Sound(here', B, loose') /\ Sound(entry, B, loose')
  <2>1. Sound(here, B, loose') /\ Sound(entry, B, loose')
    BY <1>2, <1>5, SoundKept
  <2> QED
    BY <2>1, <1>6 DEF Sound
<1>8. /\ Top.kind \in {"if?", "between"} \/ kind = "loop"
      /\ Top.kind \in Conditions \/ Top.kind = "between"
      /\ Top.kind \in Conditional \cup {"loop?"}
      /\ kind \in Conditional \cup {"loop"} /\ (kind \in Conditional <=> kind # "loop")
      /\ kind # "loop" => Top.kind \in Conditional
      /\ kind \notin {"between", "after", "if?"}
  BY DEF Conditions, Conditional
<1>9. entry.reached => scopes[Depth - 1].entry.reached
  BY <1>2, <1>8
<1>10. ASSUME kind \in Conditional PROVE BranchesOK(top, B, loose')
  <2>1. BranchesOK(Top, B, loose') /\ BranchesOK(Top, B, loose)
    BY <1>2, <1>5, <1>8, <1>10, BranchesKept
  <2>2. Top.reached => entry.reached
    BY <2>1, <1>2, <1>8, <1>10 DEF BranchesOK
  <2> HIDE DEF B
  <2> QED
    BY <2>1, <2>2, <1>4, <1>8, <1>10 DEF BranchesOK
<1>11. TopOK(scopes, top, loose')
  BY <1>2, <1>4, <1>7, <1>8, <1>9, <1>10 DEF TopOK
<1>12. Retopped(Put(scopes, Len(scopes), top), here', loose')
  <2>1. /\ \A b \in loose : b[1] \in 1..(Len(scopes) - 1) => b \in loose'
        /\ scopes[Len(scopes)].kind \in Conditional \cup {"loop?"}
        /\ Sound(here', DeclaredIn(scopes, Len(scopes) - 1), loose')
        /\ top.entry.inits \subseteq here'.inits
        /\ here'.reached => top.entry.reached
        /\ top.kind \notin {"between", "after", "if?"}
    BY <1>2, <1>4, <1>5, <1>6, <1>7, <1>8
  <2>2. here'.reached => IF top.kind = "if?" THEN scopes[Len(scopes) - 1].entry.reached
                         ELSE top.entry.reached
    BY <2>1
  <2> QED
    BY <2>1, <2>2, <1>2, <1>11, TopChanged
<1> QED
  BY <1>1, <1>3, <1>12 DEF Retopped, IInv

LEMMA OpenBranchStep ==
  ASSUME IInv, NEW hoisted, OpenBranch(hoisted)
  PROVE  IInv'
<1> DEFINE none == {}
           w == here.pending \cup here.waiting
           entry == [here EXCEPT !.inits = Top.entry.inits, !.pending = none, !.waiting = w]
           B == DeclaredIn(scopes, Depth - 1)
<1>1. Top.kind = "if?" /\ Behind("if", hoisted, entry)
  BY DEF OpenBranch, Place
<1>2. /\ Sound(here, B, loose) /\ Sound(Top.entry, B, loose)
      /\ Top.entry.inits \subseteq here.inits
      /\ scopes[Depth - 1].entry.inits \subseteq Top.entry.inits
  BY <1>1, AskedFacts
<1>3. /\ IsState(entry) /\ entry.inits = Top.entry.inits /\ entry.may = here.may
      /\ entry.reached = here.reached /\ entry.continues = here.continues
  <2>1. PICK k, r, i, m, p, x :
          here = [continues |-> k, inits |-> i, pending |-> p, waiting |-> x,
                  may |-> m, reached |-> r] /\ k \in BOOLEAN /\ r \in BOOLEAN
    BY <1>2, StateFields DEF Sound
  <2>2. entry = [here EXCEPT !.inits = Top.entry.inits, !.pending = none, !.waiting = w]
    OBVIOUS
  <2> HIDE DEF entry, w, none
  <2>3. entry = [continues |-> k, inits |-> Top.entry.inits, pending |-> none,
                 waiting |-> w, may |-> m, reached |-> r]
    BY <2>1, <2>2
  <2> QED
    BY <2>1, <2>3 DEF IsState
<1> HIDE DEF entry, B
<1>4. Sound(entry, B, loose)
  BY <1>2, <1>3 DEF Sound
<1> QED
  BY <1>1, <1>2, <1>3, <1>4, BehindStep DEF B

LEMMA OpenElseStep ==
  ASSUME IInv, NEW hoisted, OpenElse(hoisted)
  PROVE  IInv'
<1>1. Top.kind = "between" /\ Behind("else", hoisted, Top.entry)
  BY DEF OpenElse, Place
<1>2. /\ Sound(Top.entry, DeclaredIn(scopes, Depth - 1), loose) /\ here = Top.entry
      /\ scopes[Depth - 1].entry.inits \subseteq Top.entry.inits
  BY <1>1, AskedFacts
<1> QED
  BY <1>1, <1>2, BehindStep

LEMMA OpenRoundStep ==
  ASSUME IInv, NEW hoisted, OpenRound(hoisted)
  PROVE  IInv'
<1> DEFINE entry == clearSemanticDeadStorePendingWrites(here)
           B == DeclaredIn(scopes, Depth - 1)
<1>1. Top.kind = "loop?" /\ Behind("loop", hoisted, entry)
  BY DEF OpenRound, Place
<1>2. /\ Sound(here, B, loose) /\ Top.entry.inits \subseteq here.inits
      /\ scopes[Depth - 1].entry.inits \subseteq Top.entry.inits
  BY <1>1, AskedFacts
<1>3. /\ IsState(entry) /\ entry.inits = here.inits /\ entry.may = here.may
      /\ entry.reached = here.reached /\ entry.continues = here.continues
  BY <1>2, ClearedState DEF Sound
<1> HIDE DEF entry, B
<1>4. Sound(entry, B, loose)
  BY <1>2, <1>3 DEF Sound
<1> QED
  BY <1>1, <1>2, <1>3, <1>4, BehindStep DEF B

LEMMA JoinFacts ==
  ASSUME NEW f, NEW g
  PROVE  /\ DOMAIN JoinMay(f, g) = DOMAIN f \cup DOMAIN g
         /\ \A b \in DOMAIN f \cup DOMAIN g :
              Unset \in JoinMay(f, g)[b] =>
                \/ b \in DOMAIN f /\ Unset \in f[b]
                \/ b \in DOMAIN g /\ Unset \in g[b]
BY DEF JoinMay

Closed(c, kind, outs, may, reached) ==
  [c EXCEPT !.kind = kind, !.hoisted = {}, !.declared = {},
            !.outs = outs, !.may = may, !.reached = reached]

IsClosed(c, k, kind, outs, may, reached) ==
  /\ IsScope(k) /\ k.kind = kind /\ k.declared = {} /\ k.entry = c.entry
  /\ k.outs = outs /\ k.may = may /\ k.reached = reached

LEMMA ClosedFields ==
  ASSUME NEW c, IsScope(c), NEW kind, NEW outs, NEW may, NEW reached \in BOOLEAN
  PROVE  IsClosed(c, Closed(c, kind, outs, may, reached), kind, outs, may, reached)
<1> DEFINE k == Closed(c, kind, outs, may, reached)
           none == {}
<1>1. k = [c EXCEPT !.kind = kind, !.hoisted = none, !.declared = none,
                    !.outs = outs, !.may = may, !.reached = reached]
  BY DEF Closed
<1>2. PICK k0, h0, d0, e0, o0, m0, r0 :
        c = [kind |-> k0, hoisted |-> h0, declared |-> d0, entry |-> e0,
             outs |-> o0, may |-> m0, reached |-> r0]
  BY DEF IsScope
<1> HIDE DEF k, none
<1>3. k = [kind |-> kind, hoisted |-> none, declared |-> none, entry |-> e0,
           outs |-> outs, may |-> may, reached |-> reached]
  BY <1>1, <1>2
<1>4. /\ IsScope(k) /\ k.kind = kind /\ k.declared = none /\ k.entry = c.entry
      /\ k.outs = outs /\ k.may = may /\ k.reached = reached
  BY <1>2, <1>3 DEF IsScope
<1> QED
  BY <1>4 DEF IsClosed, k, none

LEMMA EndBranchStep ==
  ASSUME IInv, EndBranch
  PROVE  IInv'
<1> DEFINE n == Depth - 1
           B == DeclaredIn(scopes, n)
           left == Leaving(n)
           kind == IF Top.kind = "else" THEN "after" ELSE "between"
           outs == IF left.continues THEN Top.outs \cup {left.inits} ELSE Top.outs
           may == JoinMay(Top.may, left.may)
           reached == Top.reached \/ left.reached
           top == Closed(Top, kind, outs, may, reached)
<1>1. /\ Top.kind \in {"if", "else"} /\ here' = Top.entry /\ loose' = loose
      /\ scopes' = [scopes EXCEPT ![Depth] = top]
  BY DEF EndBranch, Place, Same, Closed
<1>2. Top.kind \in Conditional
  BY <1>1 DEF Conditional
<1>3. /\ Depth = Len(scopes) /\ n \in 1..Depth /\ Top = scopes[Len(scopes)] /\ IsScope(Top)
      /\ n \in Nat /\ Sound(Top.entry, B, loose) /\ BranchesOK(Top, B, loose)
      /\ Top.entry.inits \subseteq here.inits
      /\ here.reached => Top.entry.reached
      /\ scopes[n].entry.inits \subseteq Top.entry.inits
      /\ Top.entry.reached => scopes[n].entry.reached
  BY <1>1, <1>2, ConditionalFacts
<1>4. /\ left.continues = here.continues /\ left.reached = here.reached
      /\ left.inits = WithinScope(here.inits, n)
      /\ Sound(left, B, loose)
  BY <1>3, LeavingSound DEF IsChanged
<1>5. scopes' = Put(scopes, Len(scopes), top) /\ ScopesOK(scopes, loose)
  BY <1>1, <1>3 DEF Put, IInv
<1>6. kind \in Conditional /\ kind \in {"between", "after"}
  BY DEF Conditional
<1>7. Top.entry.inits \subseteq left.inits
  <2> HIDE DEF n, left
  <2>1. \A b \in B : b[1] \in 1..n
    BY <1>3, DeclaredFacts
  <2> HIDE DEF B
  <2>2. \A b \in B : b[1] <= n
    BY <2>1
  <2> QED
    BY <2>2, <1>3, <1>4 DEF Sound, WithinScope
<1> HIDE DEF left, B, n
<1>8. reached \in BOOLEAN
  BY <1>3, <1>4 DEF IsScope, Sound, IsState
<1>9. \A o \in outs : Top.entry.inits \subseteq o /\ o \subseteq B
  BY <1>3, <1>4, <1>7 DEF BranchesOK, Sound
<1>10. reached => outs # {} /\ Top.entry.reached
  BY <1>3, <1>4 DEF BranchesOK, Sound
<1>11. DOMAIN may = IF reached THEN B ELSE {}
  <2>1. DOMAIN may = DOMAIN Top.may \cup DOMAIN left.may
    BY JoinFacts
  <2> HIDE DEF may
  <2> QED
    BY <2>1, <1>3, <1>4 DEF BranchesOK, Sound
<1>12. ASSUME NEW b \in DOMAIN may \ loose, \A o \in outs : b \in o
       PROVE  Unset \notin may[b]
  <2>1. \A o \in Top.outs : b \in o
    BY <1>12
  <2>2. b \in DOMAIN Top.may => Unset \notin Top.may[b]
    BY <2>1, <1>3, <1>12 DEF BranchesOK
  <2>3. b \in DOMAIN left.may => left.reached /\ b \in left.inits
    BY <1>4, <1>12 DEF Sound
  <2>4. b \in DOMAIN left.may => Unset \notin left.may[b]
    BY <2>3, <1>4, <1>12 DEF Sound
  <2>5. b \in DOMAIN Top.may \cup DOMAIN left.may
    BY <1>12, JoinFacts
  <2> QED
    BY <2>2, <2>4, <2>5, JoinFacts
<1> HIDE DEF kind, outs, may, reached
<1>13. IsClosed(Top, top, kind, outs, may, reached)
  BY <1>3, <1>8, ClosedFields
<1> HIDE DEF top
<1>14. BranchesOK(top, B, loose)
  BY <1>9, <1>10, <1>11, <1>12, <1>13 DEF BranchesOK, IsClosed
<1>15. Retopped(Put(scopes, Len(scopes), top), Top.entry, loose)
  <2>1. TopOK(scopes, top, loose)
    BY <1>3, <1>6, <1>13, <1>14 DEF IsClosed, TopOK, B, n
  <2>2. \A b \in loose : b[1] \in 1..(Len(scopes) - 1) => b \in loose
    OBVIOUS
  <2>3. /\ scopes[Len(scopes)].kind \in Conditional \cup {"loop?"} /\ top.entry = Top.entry
        /\ top.kind # "if?" /\ Sound(Top.entry, DeclaredIn(scopes, Len(scopes) - 1), loose)
    BY <1>2, <1>3, <1>6, <1>13 DEF IsClosed, B, n
  <2> HIDE DEF Retopped
  <2> QED
    BY <2>1, <2>2, <2>3, <1>5, TopChanged
<1> QED
  BY <1>1, <1>5, <1>13, <1>15 DEF Retopped, IInv, IsClosed

-----------------------------------------------------------------------------
(* Leaving a statement with blocks of its own.                             *)
LEMMA PopOK ==
  ASSUME NEW s, NEW L, ScopesOK(s, L), NEW m \in 2..(Len(s) - 1), NEW h,
         Sound(h, DeclaredIn(s, m), L), s[m].entry.inits \subseteq h.inits,
         h.reached => s[m].entry.reached
  PROVE  ScopesOK(Cut(s, m), L) /\ HereOK(h, Cut(s, m), L)
<1> DEFINE t == Cut(s, m)
<1>1. IsSeq(s) /\ Len(s) \in Nat /\ m \in 0..Len(s) /\ m \in 1..(Len(s) - 1) /\ m \in Nat /\ m >= 2
  BY DEF ScopesOK, IsSeq
<1>2. IsSeq(t) /\ Len(t) = m /\ \A i \in 1..m : t[i] = s[i]
  BY <1>1, CutSeq
<1> HIDE DEF t
<1>3. ASSUME NEW d \in 1..m PROVE ScopeOK(t, d, L)
  <2>1. d \in Nat \ {0} /\ ScopeOK(s, d, L)
    BY <1>1 DEF ScopesOK
  <2>2. /\ \A i \in 1..d : t[i].kind = s[i].kind /\ t[i].entry = s[i].entry
        /\ \A i \in 1..(d - 1) : t[i].declared = s[i].declared
        /\ t[d] = s[d]
    BY <1>1, <1>2
  <2>3. \A b \in L : b[1] \in 1..(d - 1) => b \in L
    OBVIOUS
  <2> QED
    BY <2>1, <2>2, <2>3, ScopeKept
<1>4. \A d \in 1..m : t[d].kind \notin Bare
  BY <1>1, <1>2 DEF ScopesOK
<1>5. ScopesOK(t, L)
  BY <1>1, <1>2, <1>3, <1>4 DEF ScopesOK
<1>6. DeclaredIn(t, m) = DeclaredIn(s, m)
  BY <1>1, <1>2, DeclaredSame
<1>7. t[m] = s[m] /\ m \in 1..m
  BY <1>1, <1>2
<1>8. HereOK(h, t, L)
  BY <1>2, <1>4, <1>6, <1>7 DEF HereOK, Bare, Conditions
<1> QED
  BY <1>5, <1>8 DEF t

LEMMA PopStep ==
  ASSUME IInv, loose' = loose, NEW m \in 2..(Depth - 1), Depth = Len(scopes),
         scopes' = SubSeq(scopes, 1, m), Sound(here', DeclaredIn(scopes, m), loose),
         scopes[m].entry.inits \subseteq here'.inits,
         here'.reached => scopes[m].entry.reached
  PROVE  IInv'
<1>1. ScopesOK(scopes, loose) /\ m \in 2..(Len(scopes) - 1)
  BY DEF IInv
<1>2. scopes' = Cut(scopes, m)
  BY DEF Cut
<1>3. ScopesOK(Cut(scopes, m), loose) /\ HereOK(here', Cut(scopes, m), loose)
  BY <1>1, PopOK
<1> QED
  BY <1>2, <1>3 DEF IInv

LEMMA EndIfStep ==
  ASSUME IInv, EndIf
  PROVE  IInv'
<1> DEFINE n == Depth - 1
           B == DeclaredIn(scopes, n)
           entry == Top.entry
           skips == Top.kind = "between"
           outs == ContinuingStates(Top)
           goes == entry.continues /\ outs # {}
           inits == IF goes THEN mergeContinuingSemanticFlowStates(outs) ELSE entry.inits
           may == IF skips THEN JoinMay(Top.may, entry.may) ELSE Top.may
           reached == Top.reached \/ (skips /\ entry.reached)
           none == {}
<1>1. /\ Top.kind \in {"between", "after"} /\ loose' = loose
      /\ scopes' = SubSeq(scopes, 1, n)
      /\ here' = [continues |-> goes, inits |-> inits, pending |-> none, waiting |-> none,
                  may |-> may, reached |-> reached]
  BY DEF EndIf, Place, Same
<1>2. Top.kind \in Conditional
  BY <1>1 DEF Conditional
<1>3. /\ Depth = Len(scopes) /\ n \in 2..(Depth - 1) /\ IsScope(Top)
      /\ Sound(entry, B, loose) /\ BranchesOK(Top, B, loose)
      /\ scopes[n].entry.inits \subseteq entry.inits
      /\ entry.reached => scopes[n].entry.reached
  BY <1>2, ConditionalFacts
<1>4. /\ Top.outs \subseteq outs /\ (skips => entry.inits \in outs)
      /\ \A o \in outs : o \in Top.outs \/ o = entry.inits
  BY DEF ContinuingStates
<1>5. \A o \in outs : entry.inits \subseteq o /\ o \subseteq B
  BY <1>3, <1>4 DEF BranchesOK, Sound
<1> HIDE DEF B, n, entry, outs, skips
<1>6. inits \subseteq B /\ entry.inits \subseteq inits /\ (goes => \A b \in inits : \A o \in outs : b \in o)
  BY <1>3, <1>5 DEF mergeContinuingSemanticFlowStates, Sound
<1>7. reached => goes /\ entry.reached
  BY <1>3, <1>4 DEF BranchesOK, Sound, entry
<1>8. goes \in BOOLEAN /\ reached \in BOOLEAN
  BY <1>3 DEF IsScope, Sound, IsState
<1>9. DOMAIN may = IF reached THEN B ELSE {}
  <2>1. DOMAIN Top.may = IF Top.reached THEN B ELSE {}
    BY <1>3 DEF BranchesOK
  <2>2. DOMAIN entry.may = IF entry.reached THEN B ELSE {}
    BY <1>3 DEF Sound
  <2>3. DOMAIN JoinMay(Top.may, entry.may) = DOMAIN Top.may \cup DOMAIN entry.may
    BY JoinFacts
  <2>4. Top.reached => entry.reached
    BY <1>3 DEF BranchesOK, entry
  <2> QED
    BY <2>1, <2>2, <2>3, <2>4
<1>10. ASSUME reached, NEW b \in inits \ loose PROVE Unset \notin may[b]
  <2>1. \A o \in outs : b \in o
    BY <1>6, <1>7, <1>10
  <2>2. b \in DOMAIN Top.may => Unset \notin Top.may[b]
    BY <2>1, <1>3, <1>4, <1>10 DEF BranchesOK
  <2>3. CASE skips
    <3>1. b \in entry.inits /\ entry.reached
      BY <2>1, <2>3, <1>4, <1>7, <1>10
    <3>2. Unset \notin entry.may[b]
      BY <3>1, <1>3, <1>10 DEF Sound
    <3>3. b \in DOMAIN may /\ may = JoinMay(Top.may, entry.may)
      BY <2>3, <1>6, <1>9, <1>10
    <3> HIDE DEF may
    <3>4. b \in DOMAIN Top.may \cup DOMAIN entry.may
      BY <3>3, JoinFacts
    <3> QED
      BY <3>2, <3>3, <3>4, <2>2, JoinFacts
  <2>4. CASE ~ skips
    <3>1. b \in DOMAIN may /\ may = Top.may
      BY <2>4, <1>6, <1>9, <1>10
    <3> QED
      BY <3>1, <2>2
  <2> QED
    BY <2>3, <2>4
<1> HIDE DEF goes, inits, may, reached, none
<1>11. /\ IsState(here') /\ here'.continues = goes /\ here'.inits = inits
       /\ here'.may = may /\ here'.reached = reached
  BY <1>1, <1>8 DEF IsState
<1>12. Sound(here', B, loose)
  BY <1>6, <1>7, <1>9, <1>10, <1>11 DEF Sound
<1>13. scopes[n].entry.inits \subseteq here'.inits /\ (here'.reached => scopes[n].entry.reached)
  BY <1>3, <1>6, <1>7, <1>11
<1> QED
  BY <1>1, <1>3, <1>12, <1>13, PopStep DEF B

WithMay(h, m) == [h EXCEPT !.may = m]

LEMMA WithMayFields ==
  ASSUME NEW h, IsState(h), NEW m
  PROVE  IsChanged(h, WithMay(h, m), h.inits, m)
<1> DEFINE k == WithMay(h, m)
<1>1. k = [h EXCEPT !.may = m]
  BY DEF WithMay
<1>2. PICK c, r, i0, m0, p0, w0 :
        /\ h = [continues |-> c, inits |-> i0, pending |-> p0, waiting |-> w0,
                may |-> m0, reached |-> r]
        /\ c \in BOOLEAN /\ r \in BOOLEAN
  BY StateFields
<1> HIDE DEF k
<1>3. k = [continues |-> c, inits |-> i0, pending |-> p0, waiting |-> w0,
           may |-> m, reached |-> r]
  BY <1>1, <1>2
<1>4. /\ IsState(k) /\ k.continues = h.continues /\ k.reached = h.reached
      /\ k.inits = h.inits /\ k.may = m
  BY <1>2, <1>3 DEF IsState
<1> QED
  BY <1>4 DEF IsChanged, k

LEMMA JoinKeeps ==
  \A f, g : \A b \in DOMAIN f : f[b] \subseteq JoinMay(f, g)[b]
BY DEF JoinMay

(* Behind a loop or a secure statement the walk stands where it stood      *)
(* before; the executions may come from inside as well.                    *)
LEMMA BackAtEntry ==
  ASSUME IInv, NEW m \in 2..(Depth - 1), Depth = Len(scopes), loose' = loose,
         scopes' = SubSeq(scopes, 1, m),
         Sound(Top.entry, DeclaredIn(scopes, m), loose),
         scopes[m].entry.inits \subseteq Top.entry.inits,
         Top.entry.reached => scopes[m].entry.reached,
         Top.entry.inits \subseteq here.inits, here.reached => Top.entry.reached,
         NEW may, here' = WithMay(Top.entry, may),
         DOMAIN may = DOMAIN Top.entry.may,
         \A b \in DOMAIN may : Unset \in may[b] => Unset \in JoinMay(Top.entry.may, Leaving(m).may)[b]
  PROVE  IInv'
<1> DEFINE entry == Top.entry
           left == Leaving(m)
           B == DeclaredIn(scopes, m)
<1>0. Depth \in Nat
  BY DEF IInv, ScopesOK, IsSeq
<1>1. /\ left.reached = here.reached /\ left.inits = WithinScope(here.inits, m)
      /\ Sound(left, B, loose) /\ m \in Nat
  <2>1. m \in 1..Depth /\ m \in Nat
    BY <1>0
  <2> QED
    BY <2>1, LeavingSound DEF IsChanged
<1>2. entry.inits \subseteq left.inits
  <2>1. \A b \in B : b[1] <= m
    BY <1>1, DeclaredFacts
  <2> QED
    BY <2>1, <1>1 DEF Sound, WithinScope
<1>3. /\ IsState(here') /\ here'.continues = entry.continues /\ here'.reached = entry.reached
      /\ here'.inits = entry.inits /\ here'.may = may
  <2>1. IsState(entry)
    BY DEF Sound
  <2> QED
    BY <2>1, WithMayFields DEF IsChanged
<1> HIDE DEF entry, left, B
<1>4. ASSUME entry.reached, NEW b \in entry.inits \ loose PROVE Unset \notin may[b]
  <2>1. Sound(entry, B, loose)
    BY DEF entry, B
  <2>2. b \in DOMAIN may /\ b \in DOMAIN entry.may /\ Unset \notin entry.may[b]
    BY <2>1, <1>4 DEF Sound, entry
  <2>3. b \in DOMAIN left.may => Unset \notin left.may[b]
    BY <1>1, <1>2, <1>4 DEF Sound
  <2>4. Unset \notin JoinMay(entry.may, left.may)[b]
    BY <2>2, <2>3, JoinFacts
  <2> QED
    BY <2>2, <2>4 DEF entry, left
<1>5. Sound(here', B, loose)
  BY <1>3, <1>4 DEF Sound, entry, B
<1>6. scopes[m].entry.inits \subseteq here'.inits /\ (here'.reached => scopes[m].entry.reached)
  BY <1>3 DEF entry
<1> QED
  BY <1>5, <1>6, PopStep DEF B

LEMMA EndLoopStep ==
  ASSUME IInv, EndLoop
  PROVE  IInv'
<1> DEFINE n == Depth - 1
           left == Leaving(n)
           entry == Top.entry
           mark == Carried(Depth)
           may == [b \in DOMAIN entry.may |->
                     IF mark \in entry.may[b]
                     THEN (JoinMay(entry.may, left.may)[b]) \ {mark} ELSE entry.may[b]]
<1>1. /\ Top.kind = "loop" /\ loose' = loose
      /\ scopes' = SubSeq(scopes, 1, n) /\ here' = WithMay(entry, may)
  BY DEF EndLoop, Place, Same, WithMay
<1>2. /\ Depth = Len(scopes) /\ Depth \in Nat \ {0} /\ Top = scopes[Depth]
      /\ ScopeOK(scopes, Depth, loose)
      /\ Top.entry.inits \subseteq here.inits
      /\ here.reached => Top.entry.reached
  BY <1>1 DEF IInv, ScopesOK, HereOK, IsSeq, Depth, Top, Conditions
<1>3. Depth # 1 /\ Depth # 2
  BY <1>1, <1>2 DEF ScopeOK, Kinds
<1>4. n \in 2..(Depth - 1) /\ Depth > 1 /\ Under(scopes, Depth) = n
  BY <1>1, <1>2, <1>3 DEF Under
<1>5. /\ Sound(entry, DeclaredIn(scopes, n), loose)
      /\ scopes[n].entry.inits \subseteq entry.inits
      /\ entry.reached => scopes[n].entry.reached
  BY <1>2, <1>4 DEF ScopeOK
<1>6. /\ DOMAIN may = DOMAIN entry.may
      /\ \A b \in DOMAIN may : Unset \in may[b] => Unset \in JoinMay(entry.may, left.may)[b]
  BY JoinKeeps
<1> HIDE DEF may
<1> QED
  BY <1>1, <1>2, <1>4, <1>5, <1>6, BackAtEntry

LEMMA EndSecureStep ==
  ASSUME IInv, EndSecure
  PROVE  IInv'
<1> DEFINE m == IF scopes[Depth - 1].kind = "caught" THEN Depth - 2 ELSE Depth - 1
           left == Leaving(m)
           entry == Top.entry
           may == JoinMay(entry.may, left.may)
<1>1. /\ Top.kind = "catch" /\ loose' = loose
      /\ scopes' = SubSeq(scopes, 1, m) /\ here' = WithMay(entry, may)
  BY DEF EndSecure, Place, Same, WithMay
<1>2. /\ Depth = Len(scopes) /\ Depth \in Nat \ {0} /\ Top = scopes[Depth]
      /\ \A d \in 1..Depth : ScopeOK(scopes, d, loose)
      /\ Top.entry.inits \subseteq here.inits
      /\ here.reached => Top.entry.reached
  BY <1>1 DEF IInv, ScopesOK, HereOK, IsSeq, Depth, Top, Conditions
<1>3. Depth # 1 /\ Depth # 2
  BY <1>1, <1>2 DEF ScopeOK, Kinds
<1>4. Depth > 1 /\ Depth - 1 \in 1..Depth /\ Depth - 1 >= 2 /\ Depth \in 1..Depth
  BY <1>2, <1>3
<1>5. Under(scopes, Depth) = m
  BY <1>1, <1>2 DEF Under
<1>6. /\ Sound(entry, DeclaredIn(scopes, m), loose)
      /\ scopes[Depth - 1].entry.inits \subseteq entry.inits
      /\ entry.reached => scopes[Depth - 1].entry.reached
  BY <1>2, <1>4, <1>5 DEF ScopeOK
<1>7. /\ m \in 2..(Depth - 1) /\ scopes[m].entry.inits \subseteq entry.inits
      /\ entry.reached => scopes[m].entry.reached
  <2>1. CASE scopes[Depth - 1].kind = "caught"
    <3>1. Depth - 1 # 2 /\ Depth - 1 # 1
      BY <1>2, <1>4, <2>1 DEF ScopeOK, Kinds
    <3>2. m = Depth - 2 /\ m \in 2..(Depth - 1) /\ (Depth - 1) - 1 = m /\ Depth - 1 > 1
      BY <3>1, <1>2, <1>4, <2>1
    <3>3. /\ scopes[m].entry.inits \subseteq scopes[Depth - 1].entry.inits
          /\ scopes[Depth - 1].entry.reached => scopes[m].entry.reached
      BY <3>2, <1>2, <1>4 DEF ScopeOK
    <3> QED
      BY <3>2, <3>3, <1>6
  <2>2. CASE scopes[Depth - 1].kind # "caught"
    <3>1. m = Depth - 1 /\ m \in 2..(Depth - 1)
      BY <1>2, <1>4, <2>2
    <3> QED
      BY <3>1, <1>6
  <2> QED
    BY <2>1, <2>2
<1>8. DOMAIN may = DOMAIN entry.may
  <2>1. m \in 1..Depth
    BY <1>2, <1>7
  <2>2. left.reached = here.reached /\ Sound(left, DeclaredIn(scopes, m), loose)
    BY <2>1, LeavingSound DEF IsChanged
  <2> HIDE DEF left, m, entry
  <2>3. DOMAIN may = DOMAIN entry.may \cup DOMAIN left.may
    BY JoinFacts
  <2> HIDE DEF may
  <2> QED
    BY <2>2, <2>3, <1>2, <1>6 DEF Sound, entry
<1>9. \A b \in DOMAIN may : Unset \in may[b] => Unset \in JoinMay(entry.may, left.may)[b]
  OBVIOUS
<1> HIDE DEF may, m
<1> QED
  BY <1>1, <1>2, <1>6, <1>7, <1>8, <1>9, BackAtEntry

-----------------------------------------------------------------------------
(* Every step keeps the claims of the initialization walk.                 *)
LEMMA InitOK == Init => IInv
<1> SUFFICES ASSUME Init PROVE IInv
  OBVIOUS
<1> DEFINE params == {1} \X Params
           pending == {<<b, Given>> : b \in params}
           may == [b \in params |-> {Given}]
           none == {}
           start == [continues |-> TRUE, inits |-> params, reached |-> TRUE,
                     pending |-> pending, waiting |-> none, may |-> may]
<1>1. PICK hoisted \in SUBSET Names :
        /\ scopes = <<Scope("params", Params, Params, start), Scope("body", hoisted, {}, start)>>
        /\ here = start /\ loose = {}
  BY DEF Init
<1> DEFINE c1 == Scope("params", Params, Params, start)
           c2 == Scope("body", hoisted, none, start)
<1>2. scopes = <<c1, c2>>
  BY <1>1
<1>3. IsNew(c1, "params", Params, start) /\ IsNew(c2, "body", none, start)
  BY NewScope
<1>4. Unset # Given
  BY StoresAreSet
<1>5. /\ DOMAIN may = params /\ \A b \in params : Unset \notin may[b]
  BY <1>4
<1>6. params = {1} \X Params
  OBVIOUS
<1> HIDE DEF params, pending, may
<1>7. /\ IsState(start) /\ start.continues = TRUE /\ start.reached = TRUE
      /\ start.inits = params /\ start.may = may
  BY DEF IsState
<1> HIDE DEF start, c1, c2
<1>8. Sound(start, params, {})
  BY <1>5, <1>7 DEF Sound
<1>9. IsSeq(scopes) /\ Len(scopes) = 2 /\ scopes[1] = c1 /\ scopes[2] = c2
  <2>1. scopes \in Seq({c1, c2}) /\ Len(scopes) = 2 /\ scopes[1] = c1 /\ scopes[2] = c2
    BY <1>2
  <2> QED
    BY <2>1, AnySeq
<1>10. DeclaredIn(scopes, 1) = params /\ DeclaredIn(scopes, 2) = params
  <2>1. 1..1 = {1} /\ 1..2 = {1, 2}
    OBVIOUS
  <2>2. c1.declared = Params /\ c2.declared = {}
    BY <1>3 DEF IsNew, none
  <2> QED
    BY <2>1, <2>2, <1>6, <1>9 DEF DeclaredIn
<1>11. ScopeOK(scopes, 1, {})
  BY <1>3, <1>9 DEF ScopeOK, IsNew, Kinds, Conditional, Bare
<1>12. ScopeOK(scopes, 2, {})
  <2>1. Under(scopes, 2) = 1
    BY <1>3, <1>9 DEF Under, IsNew
  <2>2. scopes[2 - 1] = c1
    BY <1>9
  <2> QED
    BY <2>1, <2>2, <1>3, <1>8, <1>9, <1>10 DEF ScopeOK, IsNew, Kinds, Conditional, Bare
<1>13. ScopesOK(scopes, {})
  <2>1. \A d \in 1..2 : d = 1 \/ d = 2
    OBVIOUS
  <2>2. \A d \in 1..(2 - 1) : d = 1
    OBVIOUS
  <2> QED
    BY <2>1, <2>2, <1>3, <1>9, <1>11, <1>12 DEF ScopesOK, IsNew, Bare
<1>14. HereOK(here, scopes, {})
  BY <1>1, <1>3, <1>8, <1>9, <1>10 DEF HereOK, IsNew, Conditions
<1> QED
  BY <1>1, <1>13, <1>14 DEF IInv

LEMMA StepOK == IInv /\ [Next]_vars => IInv'
<1> SUFFICES ASSUME IInv, [Next]_vars PROVE IInv'
  OBVIOUS
<1>1. ASSUME NEW v \in Names, Read(v) \/ Assign(v) \/ AssignInArm(v) \/ Capture(v)
      PROVE  IInv'
  BY <1>1, ReadStep, AssignStep, AssignInArmStep, CaptureStep
<1>2. ASSUME NEW v \in Names, NEW how \in {"initialized", "bare", "optional"}, Declare(v, how)
      PROVE  IInv'
  BY <1>2, DeclareStep
<1>3. CASE Return
  BY <1>3, ReturnStep
<1>4. CASE OpenIf \/ OpenLoop \/ NextCondition
  BY <1>4, OpenIfStep, OpenLoopStep, NextConditionStep
<1>5. ASSUME NEW hoisted \in SUBSET Names,
             OpenBranch(hoisted) \/ OpenElse(hoisted) \/ OpenRound(hoisted)
      PROVE  IInv'
  BY <1>5, OpenBranchStep, OpenElseStep, OpenRoundStep
<1>6. CASE EndBranch
  BY <1>6, EndBranchStep
<1>7. CASE EndIf
  BY <1>7, EndIfStep
<1>8. CASE EndLoop
  BY <1>8, EndLoopStep
<1>9. CASE EndSecure
  BY <1>9, EndSecureStep
<1>10. ASSUME NEW v \in Names, NEW c \in Names \cup {Nobody}, NEW hoisted \in SUBSET Names,
              OpenSecure(v, c, hoisted)
       PROVE  IInv'
  BY <1>10, OpenSecureStep
<1>11. CASE validateCallableSemanticFlow
  BY <1>11, EndStep
<1>12. CASE UNCHANGED vars
  BY <1>12 DEF vars, IInv
<1> QED
  BY <1>1, <1>2, <1>3, <1>4, <1>5, <1>6, <1>7, <1>8, <1>9, <1>10, <1>11, <1>12 DEF Next

LEMMA Invariant == Spec => []IInv
BY InitOK, StepOK, PTL DEF Spec

LEMMA IInvHasValues == IInv => InitializedHasValue
BY DEF IInv, HereOK, Sound, InitializedHasValue

(* At the end of every statement, on every execution, a variable the       *)
(* analyzer counts as initialized has a value (the ones it marks on trust  *)
(* aside), and where it says that the body does not continue, no execution *)
(* does: reachability and definite assignment in SemanticA.cpp, for every  *)
(* body, whatever its names, its length and the depth of its blocks.       *)
THEOREM InitializedVariablesHaveValues == Spec => []InitializedHasValue
BY IInvHasValues, Invariant, PTL

-----------------------------------------------------------------------------
(* What the usage walk and the executions make of the reads.               *)

(* A binding that is gone: no scope has its depth, or the one at hand, in  *)
(* which no block is open.                                                 *)
Gone(b, s) == b[1] > Len(s) \/ (b[1] = Len(s) /\ s[Len(s)].kind \in Bare)

(* A binding that was read has been seen read, is a caught error, which    *)
(* the usage walk leaves out, or is gone.                                  *)
SeenRead(b, s, u) ==
  /\ b[1] \in Nat
  /\ b \in u \/ (b[1] \in 1..Len(s) /\ s[b[1]].kind = "caught") \/ Gone(b, s)

(* A reported binding is gone.                                             *)
Past(b, s) == b[1] \in Nat /\ Gone(b, s)

UInv ==
  /\ UnusedIsUnread
  /\ \A r \in reads : SeenRead(r[1], scopes, used)
  /\ verdict = "open" => \A b \in unused : Past(b, scopes)
  /\ (verdict = "accepted" /\ NonVoid) => ~ here.continues

(* The usage walk sees a mention of a variable that is not a caught error. *)
LEMMA MentionSeen ==
  ASSUME IInv, NEW v, findNearestSemanticBinding(v) # 0
  PROVE  /\ findNearestSemanticBinding(v) \in 1..Depth
         /\ v \in scopes[findNearestSemanticBinding(v)].declared
         /\ \/ <<findNearestSemanticBinding(v), v>> \in UseOf(v)
            \/ scopes[findNearestSemanticBinding(v)].kind = "caught"
<1> DEFINE m == findNearestSemanticBinding(v)
           declared == [d \in 1..Depth |-> scopes[d].declared]
           all == {d \in 1..Depth : v \in declared[d]}
           at == [d \in 1..Depth |-> IF scopes[d].kind = "caught" THEN {} ELSE scopes[d].declared]
           seen == {d \in 1..Depth : v \in at[d]}
           u == findNearestSemanticUsageBinding(v)
<1>1. Depth \in Nat /\ m \in 1..Depth /\ v \in scopes[m].declared
  BY Found DEF IInv, ScopesOK, IsSeq, Depth
<1>2. m = IF all = {} THEN 0 ELSE CHOOSE d \in all : \A e \in all : e <= d
  <2>1. m = Nearest(v, declared)
    BY DEF findNearestSemanticBinding
  <2> HIDE DEF declared, m
  <2> QED
    BY <2>1 DEF Nearest
<1>3. all # {} /\ \E d \in all : \A e \in all : e <= d
  <2>1. all # {}
    BY <1>1, <1>2
  <2> QED
    BY <2>1, <1>1, Greatest
<1>4. m \in all /\ \A e \in all : e <= m
  BY <1>2, <1>3
<1>5. u = IF seen = {} THEN 0 ELSE CHOOSE d \in seen : \A e \in seen : e <= d
  <2>1. u = Nearest(v, at)
    BY DEF findNearestSemanticUsageBinding
  <2> HIDE DEF at, u
  <2> QED
    BY <2>1 DEF Nearest
<1>6. CASE scopes[m].kind # "caught"
  <2>1. m \in seen /\ seen \subseteq all
    BY <1>4, <1>6
  <2> HIDE DEF seen
  <2>2. \A e \in seen : e <= m
    BY <2>1, <1>4
  <2>3. u \in seen /\ \A e \in seen : e <= u
    BY <2>1, <2>2, <1>5
  <2>4. u <= m /\ m <= u /\ u \in 1..Depth
    BY <2>1, <2>2, <2>3, <1>4
  <2> HIDE DEF u, m
  <2>5. u = m
    BY <2>4, <1>1
  <2> QED
    BY <2>5, <1>1 DEF UseOf, u, m
<1> QED
  BY <1>1, <1>6

LEMMA ReadsSeen ==
  ASSUME IInv, NEW v, NEW r \in ReadsOf(here, v)
  PROVE  /\ r[1] = <<findNearestSemanticBinding(v), v>>
         /\ findNearestSemanticBinding(v) # 0
BY DEF ReadsOf, MayOf

(* A statement in a block.                                                 *)
LEMMA UseInBlock ==
  ASSUME UInv, verdict = "open", Depth = Len(scopes), Depth \in Nat \ {0},
         Len(scopes') = Len(scopes), \A d \in 1..Depth : scopes'[d].kind = scopes[d].kind,
         unused' = unused, used \subseteq used', verdict' # "accepted",
         \A r \in reads' : \/ r \in reads
                           \/ /\ r[1][1] \in 1..Depth
                              /\ r[1][1] = Depth => Top.kind \notin Bare
                              /\ r[1] \in used' \/ scopes[r[1][1]].kind = "caught"
  PROVE  UInv'
<1>0. Top = scopes[Depth] /\ scopes'[Depth].kind = Top.kind
  BY DEF Top
<1>1. \A b \in unused : b[1] \in Nat /\ b[1] >= Depth /\ (b[1] = Depth => Top.kind \in Bare)
  BY <1>0 DEF UInv, Past, Gone
<1>2. UnusedIsUnread'
  <2> SUFFICES ASSUME NEW b \in unused', NEW r \in reads' PROVE r[1] # b
    BY DEF UnusedIsUnread
  <2>1. CASE r \in reads
    BY <2>1 DEF UInv, UnusedIsUnread
  <2>2. CASE r \notin reads
    BY <2>2, <1>1
  <2> QED
    BY <2>1, <2>2
<1>3. ASSUME NEW r \in reads' PROVE SeenRead(r[1], scopes', used')
  <2>1. CASE r \in reads
    <3>1. SeenRead(r[1], scopes, used)
      BY <2>1 DEF UInv
    <3> QED
      BY <3>1, <1>0 DEF SeenRead, Gone
  <2>2. CASE r \notin reads
    BY <2>2, <1>3 DEF SeenRead
  <2> QED
    BY <2>1, <2>2
<1>4. \A b \in unused' : Past(b, scopes')
  BY <1>0, <1>1 DEF Past, Gone
<1> QED
  BY <1>2, <1>3, <1>4 DEF UInv

LEMMA UseRead ==
  ASSUME IInv, UInv, NEW v, Read(v) \/ Capture(v)
  PROVE  UInv'
<1>1. /\ verdict = "open" /\ Place(Evaluating) /\ scopes' = scopes /\ unused' = unused
      /\ verdict' # "accepted" /\ used' = used \cup UseOf(v)
      /\ reads' \subseteq reads \cup ReadsOf(here, v)
  BY DEF Read, Capture, Takes, Same, Untold
<1>2. Depth = Len(scopes) /\ Depth \in Nat \ {0} /\ Depth \in 1..Depth
  BY <1>1, PlaceFacts
<1>3. Top = scopes[Depth] /\ (Top.kind \in Bare => Top.declared = {})
  BY <1>2 DEF Top, IInv, ScopesOK, ScopeOK
<1>4. ASSUME NEW r \in reads', r \notin reads
      PROVE  /\ r[1][1] \in 1..Depth /\ (r[1][1] = Depth => Top.kind \notin Bare)
             /\ r[1] \in used' \/ scopes[r[1][1]].kind = "caught"
  <2> DEFINE d == findNearestSemanticBinding(v)
  <2>1. r[1] = <<d, v>> /\ d # 0
    BY <1>1, <1>4, ReadsSeen
  <2>2. d \in 1..Depth /\ v \in scopes[d].declared
        /\ (<<d, v>> \in UseOf(v) \/ scopes[d].kind = "caught")
    BY <2>1, MentionSeen
  <2>3. r[1][1] = d
    BY <2>1
  <2> HIDE DEF d
  <2>4. d = Depth => Top.kind \notin Bare
    BY <2>2, <1>3
  <2> QED
    BY <2>1, <2>2, <2>3, <2>4, <1>1
<1> QED
  BY <1>1, <1>2, <1>4, UseInBlock

LEMMA UseAssign ==
  ASSUME IInv, UInv, NEW v, Assign(v) \/ AssignInArm(v) \/ Return
  PROVE  UInv'
<1>1. /\ verdict = "open" /\ (Place(Evaluating) \/ Place(Blocks)) /\ scopes' = scopes /\ unused' = unused
      /\ verdict' # "accepted" /\ used' = used /\ reads' = reads
  BY DEF Assign, AssignInArm, Return, Takes, Same
<1> QED
  BY <1>1, PlaceFacts, BlockFacts, UseInBlock

LEMMA UseDeclare ==
  ASSUME IInv, UInv, NEW v, NEW how, Declare(v, how)
  PROVE  UInv'
<1> DEFINE top == [scopes[Depth] EXCEPT !.declared = scopes[Depth].declared \cup {v}]
<1>1. /\ verdict = "open" /\ Place(Blocks) /\ unused' = unused
      /\ verdict' # "accepted" /\ used' = used /\ reads' = reads
      /\ scopes' = Put(scopes, Depth, top)
  BY DEF Declare, Takes, Same, Put
<1>2. Depth = Len(scopes) /\ Depth \in Nat /\ Depth \in 1..Depth /\ IsSeq(scopes) /\ IsScope(scopes[Depth])
  BY <1>1, BlockFacts DEF IInv, ScopesOK, ScopeOK
<1>3. top.kind = scopes[Depth].kind
  BY <1>2, ScopeFields
<1> HIDE DEF top
<1>4. Len(scopes') = Len(scopes) /\ \A d \in 1..Depth : scopes'[d].kind = scopes[d].kind
  <2>1. /\ Len(Put(scopes, Depth, top)) = Len(scopes)
        /\ \A d \in 1..Depth : Put(scopes, Depth, top)[d] = IF d = Depth THEN top ELSE scopes[d]
    BY <1>2, PutSeq
  <2> QED
    BY <2>1, <1>1, <1>3
<1> QED
  BY <1>1, <1>2, <1>4, UseInBlock

(* Where a block opens behind n scopes, nothing of their bindings is       *)
(* reported, and only the reads of those are remembered.                   *)
LEMMA UseEntering ==
  ASSUME UInv, verdict = "open", NEW n \in Nat, Depth \in Nat, Depth = Len(scopes),
         n = Depth \/ n = Depth - 1,
         n = Depth => Place(Blocks),
         Len(scopes') \in Nat, Len(scopes') > n,
         \A d \in 1..n : scopes'[d].kind = scopes[d].kind,
         unused' = WithinScope(unused, n), verdict' # "accepted",
         used' = WithinScope(used, n),
         \A r \in reads' : r \in reads /\ r[1][1] <= n
  PROVE  UInv'
<1>1. n = Depth => Top.kind \notin Bare /\ Top = scopes[Depth]
  BY DEF Place, Blocks, Bare, Top
<1>2. \A b \in unused : b[1] \in Nat /\ b[1] > n
  BY <1>1 DEF UInv, Past, Gone
<1>3. unused' = {}
  BY <1>2 DEF WithinScope
<1>4. ASSUME NEW r \in reads' PROVE SeenRead(r[1], scopes', used')
  <2>1. SeenRead(r[1], scopes, used) /\ r[1][1] \in Nat /\ r[1][1] <= n
    BY DEF UInv, SeenRead
  <2>2. ~ Gone(r[1], scopes)
    BY <2>1, <1>1 DEF Gone
  <2>3. r[1] \in used => r[1] \in used'
    BY <2>1 DEF WithinScope
  <2> QED
    BY <2>1, <2>2, <2>3 DEF SeenRead
<1> QED
  BY <1>3, <1>4 DEF UInv, UnusedIsUnread

(* The scope at hand stays without a block, or one without a block opens.  *)
LEMMA UseAsking ==
  ASSUME UInv, verdict = "open", Depth = Len(scopes), Depth \in Nat \ {0},
         NEW n \in {Depth, Depth + 1}, Len(scopes') = n, scopes'[n].kind \in Bare,
         n = Depth => Top.kind \in Bare,
         n = Depth + 1 => Top.kind \notin Bare,
         \A d \in 1..Depth : d < n => scopes'[d].kind = scopes[d].kind,
         unused' = unused, used' = used, reads' = reads, verdict' = verdict
  PROVE  UInv'
<1>0. Top = scopes[Depth] /\ (n = Depth + 1 => scopes'[Depth].kind = Top.kind)
  BY DEF Top
<1>1. ASSUME NEW b, b[1] \in Nat, Gone(b, scopes) PROVE Gone(b, scopes')
  BY <1>0, <1>1 DEF Gone
<1>2. ASSUME NEW r \in reads' PROVE SeenRead(r[1], scopes', used')
  <2>1. SeenRead(r[1], scopes, used) /\ r[1][1] \in Nat
    BY DEF UInv, SeenRead
  <2>2. CASE r[1][1] \in 1..Len(scopes) /\ scopes[r[1][1]].kind = "caught"
    <3>1. r[1][1] = Depth => n # Depth
      BY <2>2, <1>0 DEF Bare
    <3>2. r[1][1] \in 1..Depth /\ r[1][1] < n /\ r[1][1] \in 1..n
      BY <2>2, <3>1
    <3>3. scopes'[r[1][1]].kind = "caught"
      BY <2>2, <3>2
    <3> QED
      BY <2>1, <3>2, <3>3 DEF SeenRead
  <2> QED
    BY <2>1, <2>2, <1>1 DEF SeenRead
<1>3. \A b \in unused' : Past(b, scopes')
  BY <1>1 DEF UInv, Past
<1>4. UnusedIsUnread'
  BY DEF UInv, UnusedIsUnread
<1> QED
  BY <1>2, <1>3, <1>4 DEF UInv

LEMMA UseOpen ==
  ASSUME IInv, UInv, OpenIf \/ OpenLoop
  PROVE  UInv'
<1>1. /\ verdict = "open" /\ Place(Blocks) /\ verdict' = verdict
      /\ unused' = unused /\ used' = used /\ reads' = reads
      /\ \E kind, entry : kind \in Conditions /\ scopes' = Grown(scopes, Scope(kind, {}, {}, entry))
  BY DEF OpenIf, OpenLoop, Asking, Seam, Same, Push, Grown, Conditions
<1>2. PICK kind, entry : kind \in Conditions /\ scopes' = Grown(scopes, Scope(kind, {}, {}, entry))
  BY <1>1
<1>3. /\ Depth = Len(scopes) /\ Depth \in Nat \ {0} /\ IsSeq(scopes)
      /\ Top.kind \notin Bare
  BY <1>1, BlockFacts DEF IInv, ScopesOK, Place
<1>4. Scope(kind, {}, {}, entry).kind \in Bare
  BY <1>2 DEF Scope, Conditions, Bare
<1>5. /\ Len(scopes') = Depth + 1 /\ \A e \in 1..Depth : scopes'[e] = scopes[e]
      /\ scopes'[Depth + 1].kind \in Bare
  BY <1>2, <1>3, <1>4, PushSeq
<1>6. Depth + 1 # Depth
  BY <1>3
<1> QED
  BY <1>1, <1>3, <1>5, <1>6, UseAsking

LEMMA UseNextCondition ==
  ASSUME IInv, UInv, NextCondition
  PROVE  UInv'
<1> DEFINE top == [Top EXCEPT !.kind = "if?"]
<1>1. /\ verdict = "open" /\ Top.kind = "between" /\ verdict' = verdict
      /\ unused' = unused /\ used' = used /\ reads' = reads
      /\ scopes' = Put(scopes, Depth, top)
  BY DEF NextCondition, Seam, Same, Place, Put, Top
<1>2. /\ Depth = Len(scopes) /\ Depth \in Nat \ {0} /\ IsSeq(scopes) /\ IsScope(Top)
      /\ Depth \in 1..Depth
  BY <1>1, AskedFacts DEF ScopesOK
<1>3. top.kind = "if?" /\ Top.kind \in Bare
  BY <1>1, <1>2 DEF IsScope, Bare
<1> HIDE DEF top
<1>4. /\ Len(scopes') = Depth /\ scopes'[Depth].kind \in Bare
      /\ \A d \in 1..Depth : d < Depth => scopes'[d].kind = scopes[d].kind
  BY <1>1, <1>2, <1>3, PutSeq DEF Bare
<1>5. Depth # Depth + 1
  BY <1>2
<1> QED
  BY <1>1, <1>2, <1>3, <1>4, <1>5, UseAsking

LEMMA UseBehind ==
  ASSUME IInv, UInv, NEW kind, NEW hoisted, NEW entry, Behind(kind, hoisted, entry),
         Top.kind \in {"if?", "loop?", "between"}
  PROVE  UInv'
<1> DEFINE n == Depth - 1
           top == Reopened(Top, kind, hoisted, entry)
<1>1. /\ verdict = "open" /\ verdict' = verdict
      /\ scopes' = Put(scopes, Depth, top)
      /\ used' = WithinScope(used, n) /\ unused' = WithinScope(unused, n)
      /\ \A r \in reads' : r \in reads /\ r[1][1] < Depth
  BY DEF Behind, Takes, Entering, Put, Reopened, Top, Same
<1>2. /\ Depth = Len(scopes) /\ Depth \in Nat /\ n \in Nat /\ n + 1 = Depth
      /\ Depth \in 1..Depth /\ IsSeq(scopes)
  BY AskedFacts DEF ScopesOK
<1> HIDE DEF top
<1>3. Len(scopes') = Depth /\ \A e \in 1..n : scopes'[e] = scopes[e]
  <2>1. /\ Len(Put(scopes, Depth, top)) = Len(scopes)
        /\ \A e \in 1..Depth : Put(scopes, Depth, top)[e] = IF e = Depth THEN top ELSE scopes[e]
    BY <1>2, PutSeq
  <2> QED
    BY <2>1, <1>1, <1>2
<1>4. \A r \in reads : r[1][1] \in Nat
  BY DEF UInv, SeenRead
<1>5. \A r \in reads' : r \in reads /\ r[1][1] <= n
  BY <1>1, <1>2, <1>4
<1>6. Len(scopes') \in Nat /\ Len(scopes') > n /\ n # Depth
  BY <1>2, <1>3
<1> QED
  BY <1>1, <1>2, <1>3, <1>5, <1>6, UseEntering

LEMMA UseOpenBlock ==
  ASSUME IInv, UInv, NEW hoisted, OpenBranch(hoisted) \/ OpenElse(hoisted) \/ OpenRound(hoisted)
  PROVE  UInv'
<1>1. \E kind, entry : Behind(kind, hoisted, entry)
  BY DEF OpenBranch, OpenElse, OpenRound
<1>2. Top.kind \in {"if?", "loop?", "between"}
  BY DEF OpenBranch, OpenElse, OpenRound, Place
<1> QED
  BY <1>1, <1>2, UseBehind

LEMMA UseOpenSecure ==
  ASSUME IInv, UInv, NEW v, NEW c, NEW hoisted, OpenSecure(v, c, hoisted)
  PROVE  UInv'
<1> DEFINE top == [scopes[Depth] EXCEPT !.declared = scopes[Depth].declared \cup {v}]
           s1 == Put(scopes, Depth, top)
<1>a. \/ \E x : scopes' = s1 \o <<x>>
      \/ \E x, y : scopes' = Append(s1, y) \o <<x>>
  <2> DEFINE b == <<Depth, v>>
             none == {}
             i1 == IF here.continues THEN here.inits \cup {b} ELSE here.inits
             m1 == IF here.reached
                   THEN [x \in DOMAIN here.may \cup {b} |-> IF x = b THEN {NewStore} ELSE here.may[x]]
                   ELSE here.may
             bound == Changing(here, none, none, i1, m1)
             caught == IF c = Nobody THEN {} ELSE {c}
             block == Scope("catch", hoisted, {}, bound)
             error == Scope("caught", caught, caught, bound)
  <2>1. scopes' = (IF c = Nobody THEN [scopes EXCEPT ![Depth].declared = @ \cup {v}]
                   ELSE Append([scopes EXCEPT ![Depth].declared = @ \cup {v}], error)) \o <<block>>
    BY Zenon DEF OpenSecure, Changing
  <2> HIDE DEF block, error
  <2>2. scopes' = (IF c = Nobody THEN s1 ELSE Append(s1, error)) \o <<block>>
    BY <2>1 DEF Put
  <2> HIDE DEF s1
  <2> QED
    BY <2>2
<1>b. \E S, L : Entering(Depth + 1, S, L)
  BY Zenon DEF OpenSecure
<1>c. verdict = "open" /\ Place(Blocks) /\ verdict' = verdict
  <2>1. Takes /\ Place(Blocks) /\ Same(verdict)
    BY Zenon DEF OpenSecure
  <2> QED
    BY <2>1 DEF Takes, Same
<1>1. /\ verdict = "open" /\ Place(Blocks) /\ verdict' = verdict
      /\ used' = WithinScope(used, (Depth + 1) - 1)
      /\ unused' = WithinScope(unused, (Depth + 1) - 1)
      /\ \A r \in reads' : r \in reads /\ r[1][1] < Depth + 1
      /\ \/ \E x : scopes' = s1 \o <<x>>
         \/ \E x, y : scopes' = Append(s1, y) \o <<x>>
  <2> HIDE DEF s1
  <2> QED
    BY <1>a, <1>b, <1>c DEF Entering
<1>2. /\ Depth = Len(scopes) /\ Depth \in Nat /\ (Depth + 1) - 1 = Depth /\ Depth \in 1..Depth
      /\ IsSeq(scopes) /\ IsScope(scopes[Depth])
  BY <1>1, BlockFacts DEF IInv, ScopesOK, ScopeOK
<1>3. top.kind = scopes[Depth].kind
  BY <1>2, ScopeFields
<1>4. IsSeq(s1) /\ Len(s1) = Depth /\ \A d \in 1..Depth : s1[d].kind = scopes[d].kind
  <2> HIDE DEF top
  <2>1. /\ IsSeq(s1) /\ Len(s1) = Len(scopes)
        /\ \A d \in 1..Len(scopes) : s1[d] = IF d = Depth THEN top ELSE scopes[d]
    BY <1>2, PutSeq
  <2> HIDE DEF s1
  <2> QED
    BY <2>1, <1>2, <1>3
<1> HIDE DEF s1
<1>5. /\ Len(scopes') \in Nat /\ Len(scopes') > Depth
      /\ \A d \in 1..Depth : scopes'[d].kind = scopes[d].kind
  <2>1. ASSUME NEW x, scopes' = s1 \o <<x>>
        PROVE  Len(scopes') = Depth + 1 /\ \A d \in 1..Depth : scopes'[d] = s1[d]
    <3>1. scopes' = Grown(s1, x)
      BY <2>1, <1>4, OneMore
    <3> QED
      BY <3>1, <1>4, PushSeq
  <2>2. ASSUME NEW x, NEW y, scopes' = Append(s1, y) \o <<x>>
        PROVE  Len(scopes') = Depth + 2 /\ \A d \in 1..Depth : scopes'[d] = s1[d]
    <3>1. /\ IsSeq(Grown(s1, y)) /\ Len(Grown(s1, y)) = Depth + 1
          /\ \A d \in 1..Depth : Grown(s1, y)[d] = s1[d]
      BY <1>4, PushSeq
    <3>2. scopes' = Grown(Grown(s1, y), x)
      BY <2>2, <3>1, OneMore DEF Grown
    <3> QED
      BY <3>1, <3>2, <1>2, PushSeq
  <2>3. Len(scopes') \in {Depth + 1, Depth + 2} /\ \A d \in 1..Depth : scopes'[d] = s1[d]
    BY <2>1, <2>2, <1>1
  <2> QED
    BY <2>3, <1>2, <1>4
<1>6. used' = WithinScope(used, Depth) /\ unused' = WithinScope(unused, Depth)
  BY <1>1, <1>2
<1>7. \A r \in reads : r[1][1] \in Nat
  BY DEF UInv, SeenRead
<1>8. \A r \in reads' : r \in reads /\ r[1][1] <= Depth
  BY <1>1, <1>2, <1>7
<1>9. verdict' # "accepted"
  BY <1>1
<1> QED
  BY <1>1, <1>2, <1>5, <1>6, <1>8, <1>9, UseEntering

(* What a scope leaves unread was read by no execution.                    *)
LEMMA LeftUnusedUnread ==
  ASSUME IInv, UInv, Depth = Len(scopes), Depth \in Nat, NEW d \in 1..Depth, NEW b \in LeftUnused(d)
  PROVE  /\ b[1] = d
         /\ \A r \in reads : r[1] # b
<1>1. b[1] = d /\ b \notin used /\ scopes[d].kind # "caught" /\ scopes[d].declared # {}
  BY DEF LeftUnused
<1>2. scopes[d].kind \notin Bare
  BY <1>1 DEF IInv, ScopesOK, ScopeOK
<1>3. ~ Gone(b, scopes)
  BY <1>1, <1>2 DEF Gone
<1>4. ~ SeenRead(b, scopes, used)
  BY <1>1, <1>3 DEF SeenRead
<1> QED
  BY <1>1, <1>4 DEF UInv

LEMMA UseClosing ==
  ASSUME IInv, UInv, verdict = "open", verdict' = verdict, used' = used,
         Depth = Len(scopes), Depth \in Nat \ {0}, Top.kind \notin {"caught"},
         \A b \in unused' : b \in unused \/ b \in LeftUnused(Depth),
         \A r \in reads' : \E o \in reads : o[1] = r[1],
         NEW n \in Nat, n <= Depth, Len(scopes') = n,
         n = Depth => scopes'[n].kind \in {"between", "after"},
         \A d \in 1..n : d < Depth => scopes'[d].kind = scopes[d].kind
  PROVE  UInv'
<1>1. Depth \in 1..Depth /\ Top = scopes[Depth]
  BY DEF Top
<1>2. \A b \in unused' : b[1] \in Nat /\ b[1] >= Depth
  <2>1. \A b \in unused : b[1] \in Nat /\ b[1] >= Depth
    BY DEF UInv, Past, Gone
  <2>2. \A b \in LeftUnused(Depth) : b[1] = Depth
    BY <1>1, LeftUnusedUnread
  <2> QED
    BY <2>1, <2>2
<1>3. UnusedIsUnread'
  <2> SUFFICES ASSUME NEW b \in unused', NEW r \in reads' PROVE r[1] # b
    BY DEF UnusedIsUnread
  <2>1. PICK o \in reads : o[1] = r[1]
    OBVIOUS
  <2>2. o[1] # b
    BY <1>1, LeftUnusedUnread DEF UInv, UnusedIsUnread
  <2> QED
    BY <2>1, <2>2
<1>4. ASSUME NEW r \in reads' PROVE SeenRead(r[1], scopes', used')
  <2>1. PICK o \in reads : o[1] = r[1]
    OBVIOUS
  <2>2. SeenRead(r[1], scopes, used)
    BY <2>1 DEF UInv
  <2>3. r[1][1] \in Nat /\ (r[1][1] = Depth => scopes[r[1][1]].kind # "caught")
    BY <2>2, <1>1 DEF SeenRead
  <2>4. Gone(r[1], scopes) => Gone(r[1], scopes')
    BY <2>3 DEF Gone, Bare
  <2> QED
    BY <2>2, <2>3, <2>4 DEF SeenRead, Gone
<1>5. \A b \in unused' : Past(b, scopes')
  BY <1>2 DEF Past, Gone, Bare
<1> QED
  BY <1>3, <1>4, <1>5 DEF UInv

LEMMA UseEnding ==
  ASSUME IInv, UInv, EndBranch \/ EndIf \/ EndLoop \/ EndSecure
  PROVE  UInv'
<1>1. /\ Depth = Len(scopes) /\ Depth \in Nat \ {0, 1} /\ IsSeq(scopes) /\ Depth \in 1..Depth
      /\ \A d \in 1..Depth : ScopeOK(scopes, d, loose)
      /\ Top = scopes[Depth]
  <2>1. /\ IsSeq(scopes) /\ Len(scopes) >= 2
        /\ \A d \in 1..Len(scopes) : ScopeOK(scopes, d, loose)
    BY DEF IInv, ScopesOK
  <2>2. Len(scopes) \in Nat
    BY <2>1 DEF IsSeq
  <2>3. \A n \in Nat : n >= 2 => n \in Nat \ {0, 1} /\ n \in 1..n
    OBVIOUS
  <2> QED
    BY <2>1, <2>2, <2>3 DEF Depth, Top
<1>2. verdict = "open" /\ verdict' = verdict /\ used' = used
  BY DEF EndBranch, EndIf, EndLoop, EndSecure, Seam, Same
<1>3. Top.kind \notin {"caught"}
  BY DEF EndBranch, EndIf, EndLoop, EndSecure, Place
<1>4. \A b \in unused' : b \in unused \/ b \in LeftUnused(Depth)
  BY DEF EndBranch, EndIf, EndLoop, EndSecure, CloseTop, Same
<1>5. ASSUME NEW m \in 0..(Depth - 1), scopes' = SubSeq(scopes, 1, m)
      PROVE  /\ m \in Nat /\ m <= Depth /\ m # Depth /\ Len(scopes') = m
             /\ \A d \in 1..m : scopes'[d] = scopes[d]
  <2>1. m \in 0..Len(scopes) /\ m \in Nat /\ m <= Depth /\ m # Depth
    BY <1>1
  <2> QED
    BY <2>1, <1>1, <1>5, CutSeq DEF Cut
<1>6. CASE EndBranch
  <2>1. \A r \in reads' : r \in reads
    BY <1>6 DEF EndBranch, Same
  <2>2. PICK top : scopes' = Put(scopes, Depth, top) /\ top.kind \in {"between", "after"}
    <3> DEFINE left == Leaving(Depth - 1)
               kind == IF Top.kind = "else" THEN "after" ELSE "between"
               outs == IF left.continues THEN Top.outs \cup {left.inits} ELSE Top.outs
               may == JoinMay(Top.may, left.may)
               reached == Top.reached \/ left.reached
               top == Closed(Top, kind, outs, may, reached)
    <3>1. scopes' = Put(scopes, Depth, top)
      BY <1>6 DEF EndBranch, Put, Closed
    <3>2. reached \in BOOLEAN /\ kind \in {"between", "after"}
      OBVIOUS
    <3>3. IsScope(Top)
      BY <1>1 DEF ScopeOK
    <3> HIDE DEF kind, outs, may, reached
    <3>4. IsClosed(Top, top, kind, outs, may, reached)
      BY <3>2, <3>3, ClosedFields
    <3> HIDE DEF top
    <3> QED
      BY <3>1, <3>2, <3>4 DEF IsClosed
  <2>3. Len(scopes') = Depth /\ \A d \in 1..Depth : scopes'[d] = IF d = Depth THEN top ELSE scopes[d]
    BY <2>2, <1>1, PutSeq
  <2>4. Depth <= Depth /\ scopes'[Depth].kind \in {"between", "after"}
        /\ \A d \in 1..Depth : d < Depth => scopes'[d].kind = scopes[d].kind
    BY <2>2, <2>3, <1>1
  <2> QED
    BY <2>1, <2>3, <2>4, <1>1, <1>2, <1>3, <1>4, UseClosing
<1>7. CASE EndIf
  <2>1. \A r \in reads' : r \in reads
    BY <1>7 DEF EndIf, Same
  <2>2. scopes' = SubSeq(scopes, 1, Depth - 1) /\ Depth - 1 \in 0..(Depth - 1)
    BY <1>1, <1>7 DEF EndIf
  <2> QED
    BY <2>1, <2>2, <1>1, <1>2, <1>3, <1>4, <1>5, UseClosing
<1>8. CASE EndLoop
  <2>1. \A r \in reads' : \E o \in reads : o[1] = r[1]
    <3> DEFINE mark == Carried(Depth)
               left == Leaving(Depth - 1)
               again == {x \in DOMAIN left.may : <<x, mark>> \in reads}
               more == UNION {{b} \X (left.may[b] \ {mark}) : b \in again}
    <3>1. \A r \in reads' : r \in reads \/ r \in more
      BY <1>8 DEF EndLoop, Untold
    <3>2. ASSUME NEW r \in more PROVE r[1] \in again
      <4>1. PICK b \in again : r \in {b} \X (left.may[b] \ {mark})
        BY DEF more
      <4>2. r[1] = b
        BY <4>1
      <4> QED
        BY <4>2
    <3>3. \A x \in again : <<x, mark>> \in reads /\ <<x, mark>>[1] = x
      OBVIOUS
    <3> HIDE DEF more, again
    <3> QED
      BY <3>1, <3>2, <3>3
  <2>2. scopes' = SubSeq(scopes, 1, Depth - 1) /\ Depth - 1 \in 0..(Depth - 1)
    BY <1>1, <1>8 DEF EndLoop
  <2> QED
    BY <2>1, <2>2, <1>1, <1>2, <1>3, <1>4, <1>5, UseClosing
<1>9. CASE EndSecure
  <2>1. \A r \in reads' : r \in reads
    BY <1>9 DEF EndSecure, Same
  <2>2. PICK m \in {Depth - 1, Depth - 2} : scopes' = SubSeq(scopes, 1, m)
    BY <1>9 DEF EndSecure
  <2>3. m \in 0..(Depth - 1)
    BY <1>1
  <2> QED
    BY <2>1, <2>2, <2>3, <1>1, <1>2, <1>3, <1>4, <1>5, UseClosing
<1> QED
  BY <1>6, <1>7, <1>8, <1>9

LEMMA UseEnd ==
  ASSUME IInv, UInv, validateCallableSemanticFlow
  PROVE  UInv'
<1>1. /\ Depth = Len(scopes) /\ Depth \in Nat \ {0, 1} /\ 1 \in 1..Depth /\ Depth \in 1..Depth
  <2>1. Len(scopes) \in Nat /\ Len(scopes) >= 2
    <3>1. IsSeq(scopes) /\ Len(scopes) >= 2
      BY DEF IInv, ScopesOK
    <3> QED
      BY <3>1 DEF IsSeq
  <2>2. \A n \in Nat : n >= 2 => n \in Nat \ {0, 1} /\ 1 \in 1..n /\ n \in 1..n
    OBVIOUS
  <2> QED
    BY <2>1, <2>2 DEF Depth
<1>2. /\ scopes' = scopes /\ here' = here /\ used' = used /\ reads' = reads
      /\ unused' = unused \cup LeftUnused(Depth) \cup LeftUnused(1)
      /\ verdict' = IF NonVoid /\ here.continues THEN "rejected" ELSE "accepted"
  BY DEF validateCallableSemanticFlow, Same
<1>3. \A r \in reads : \A b \in LeftUnused(Depth) \cup LeftUnused(1) : r[1] # b
  BY <1>1, LeftUnusedUnread
<1>4. UnusedIsUnread'
  BY <1>2, <1>3 DEF UInv, UnusedIsUnread
<1> QED
  BY <1>2, <1>4 DEF UInv

LEMMA UseInit == Init => UInv
BY DEF Init, UInv, UnusedIsUnread

LEMMA UseStep == IInv /\ UInv /\ [Next]_vars => UInv'
<1> SUFFICES ASSUME IInv, UInv, [Next]_vars PROVE UInv'
  OBVIOUS
<1>1. ASSUME NEW v \in Names, Read(v) \/ Assign(v) \/ AssignInArm(v) \/ Capture(v)
      PROVE  UInv'
  BY <1>1, UseRead, UseAssign
<1>2. ASSUME NEW v \in Names, NEW how \in {"initialized", "bare", "optional"}, Declare(v, how)
      PROVE  UInv'
  BY <1>2, UseDeclare
<1>3. CASE Return
  BY <1>3, UseAssign
<1>4. CASE OpenIf \/ NextCondition \/ OpenLoop
  BY <1>4, UseOpen, UseNextCondition
<1>5. ASSUME NEW hoisted \in SUBSET Names,
             OpenBranch(hoisted) \/ OpenElse(hoisted) \/ OpenRound(hoisted)
      PROVE  UInv'
  BY <1>5, UseOpenBlock
<1>6. CASE EndBranch \/ EndIf \/ EndLoop \/ EndSecure
  BY <1>6, UseEnding
<1>7. ASSUME NEW v \in Names, NEW c \in Names \cup {Nobody}, NEW hoisted \in SUBSET Names,
             OpenSecure(v, c, hoisted)
      PROVE  UInv'
  BY <1>7, UseOpenSecure
<1>8. CASE validateCallableSemanticFlow
  BY <1>8, UseEnd
<1>9. CASE UNCHANGED vars
  BY <1>9 DEF vars, UInv, UnusedIsUnread
<1> QED
  BY <1>1, <1>2, <1>3, <1>4, <1>5, <1>6, <1>7, <1>8, <1>9 DEF Next

LEMMA UseInvariant == Spec => []UInv
BY Invariant, UseInit, UseStep, PTL DEF Spec

(* A variable the analyzer reports as unused is read by no execution       *)
(* (the usage walk of SemanticA.cpp), inline functions that mention it     *)
(* included.                                                               *)
THEOREM UnusedVariablesAreUnread == Spec => []UnusedIsUnread
<1>1. UInv => UnusedIsUnread
  BY DEF UInv
<1> QED
  BY <1>1, UseInvariant, PTL

(* An accepted callable that must return a value never runs off the end of *)
(* its body (validateCallableSemanticFlow).                                *)
THEOREM NothingFallsThrough == Spec => []NeverFallsThrough
<1>1. IInv /\ UInv => NeverFallsThrough
  BY DEF UInv, IInv, HereOK, Sound, NeverFallsThrough
<1> QED
  BY <1>1, Invariant, UseInvariant, PTL
-----------------------------------------------------------------------------
(* What the dead-store walk and the executions make of the stores.         *)

(* The store p may be what the variable has, by the map m.                 *)
Holds(m, p) == p[1] \in DOMAIN m /\ p[2] \in m[p[1]]

(* The maps that are kept for the scopes from k on: the executions that    *)
(* entered each, and the ones that left its branches.                      *)
Kept(s, k) == {s[i].entry.may : i \in k..Len(s)} \cup {s[i].may : i \in k..Len(s)}

Values(n) ==
  {Unset, Absent, Given} \cup {Stored(k) : k \in 1..n} \cup {Carried(d) : d \in Nat}

Within(m, n) == \A b \in DOMAIN m : m[b] \subseteq Values(n)

(* No more stores are named than statements were taken.                    *)
ValuesOK ==
  /\ length \in Nat
  /\ \A m \in {here.may} \cup Kept(scopes, 1) : Within(m, length)
  /\ \A p \in here.pending \cup dead \cup reads : p[2] \in Values(length)

(* A block starts with no pending write, and declares what was hoisted.    *)
Well(s) ==
  \A i \in 1..Len(s) :
    /\ s[i].kind = "caught" \/ s[i].declared \subseteq s[i].hoisted
    /\ i >= 3 => s[i].entry.pending = {}

Written(p) ==
  /\ p[1] = <<p[1][1], p[1][2]>> /\ p[1][1] \in Nat
  /\ p[2] = Given \/ \E k \in Nat : p[2] = Stored(k)

ShapeOK ==
  /\ \A p \in here.pending \cup dead : Written(p)
  /\ \A p \in here.pending : p[1][1] \in 1..Depth /\ scopes[p[1][1]].kind # "caught"

(* No execution that goes on from here or from a kept place holds a store  *)
(* that was reported.                                                      *)
DeadOK ==
  \A p \in dead : p[1] \notin blurred =>
    /\ p \notin reads
    /\ verdict = "open" => \A m \in {here.may} \cup Kept(scopes, 3) : ~ Holds(m, p)

(* A caught error of this name stands before the variable.                 *)
Shadowed(p, s) ==
  \E d \in 1..Len(s) : d > p[1][1] /\ s[d].kind = "caught" /\ p[1][2] \in s[d].declared

(* A pending write was not there when an open block was entered; one that  *)
(* went to a caught error instead is nowhere.                              *)
PendingOK ==
  \A p \in here.pending : p[1] \notin blurred =>
    /\ p \notin reads
    /\ \A m \in Kept(scopes, 3) : ~ Holds(m, p)
    /\ Shadowed(p, scopes) => ~ Holds(here.may, p)

DInv == ValuesOK /\ Well(scopes) /\ ShapeOK /\ DeadOK /\ PendingOK

(* The writes an earlier branch may have read, here or where an open block *)
(* was entered, are stores too.                                            *)
Entries(s) == {s[i].entry : i \in 1..Len(s)}
Waits == here.waiting \cup UNION {e.waiting : e \in Entries(scopes)}
WaitOK == \A p \in Waits : p[2] \in Values(length) /\ Written(p)

LEMMA DInvNoReads == DInv => DeadStoresAreDead
BY DEF DInv, DeadOK, DeadStoresAreDead

-----------------------------------------------------------------------------
(* The values are told apart, and the next store is a new one.             *)
LEMMA ValuesApart ==
  /\ \A n \in Nat : Stored(n + 1) \notin Values(n)
  /\ \A n \in Nat : Values(n) \subseteq Values(n + 1)
  /\ \A p : Written(p) => p[2] # Unset /\ p[2] # Absent /\ \A d : p[2] # Carried(d)
<1>1. ASSUME NEW n \in Nat PROVE Stored(n + 1) \notin Values(n)
  <2>1. \A k \in 1..n : Stored(n + 1) # Stored(k)
    BY DEF Stored
  <2>2. Stored(n + 1) \notin {Unset, Absent, Given} /\ \A d : Stored(n + 1) # Carried(d)
    BY DEF Stored, Unset, Absent, Given, Carried
  <2> QED
    BY <2>1, <2>2 DEF Values
<1>2. ASSUME NEW n \in Nat PROVE Values(n) \subseteq Values(n + 1)
  <2>1. \A k \in 1..n : k \in 1..(n + 1)
    OBVIOUS
  <2> QED
    BY <2>1 DEF Values
<1>3. ASSUME NEW p, Written(p)
      PROVE  p[2] # Unset /\ p[2] # Absent /\ \A d : p[2] # Carried(d)
  <2>1. Given # Unset /\ Given # Absent /\ \A d : Given # Carried(d)
    BY DEF Unset, Absent, Given, Carried
  <2>2. \A k : Stored(k) # Unset /\ Stored(k) # Absent /\ \A d : Stored(k) # Carried(d)
    BY DEF Unset, Absent, Stored, Carried
  <2> QED
    BY <2>1, <2>2, <1>3 DEF Written
<1> QED
  BY <1>1, <1>2, <1>3

LEMMA Least ==
  ASSUME NEW S \in SUBSET Nat, S # {}
  PROVE  \E m \in S : \A n \in S : m <= n
<1> DEFINE R == OpToRel(<, Nat)
<1>1. IsWellFoundedOn(R, Nat)
  BY NatLessThanWellFounded, Zenon
<1>2. \A m, n \in S : n < m => <<n, m>> \in R
  BY SMT DEF OpToRel
<1> HIDE DEF R
<1>3. PICK t \in S : \A n \in S : ~ (<<n, t>> \in R)
  BY <1>1, WFMin
<1>4. \A n \in S : ~ (n < t)
  BY <1>2, <1>3
<1>5. \A n \in S : t <= n
  BY <1>4
<1> QED
  BY <1>5

(* What is known of the store of the statement that is taken now.          *)
Fresh(n) ==
  /\ n \in Values(length + 1) /\ n # Unset /\ \E k \in Nat : n = Stored(k)
  /\ \A p \in here.pending \cup dead \cup reads : p[2] # n
  /\ \A m \in {here.may} \cup Kept(scopes, 1) : \A b \in DOMAIN m : n \notin m[b]

LEMMA NewStoreFresh ==
  ASSUME MaxEvents \in Nat, Depth \in Nat, ValuesOK, WaitOK, length < MaxEvents
  PROVE  Fresh(NewStore)
<1> DEFINE named == NamedValues
           free == {n \in 1..(MaxEvents + 1) : Stored(n) \notin named}
<1>0. Depth = Len(scopes)
  BY DEF Depth
<1>1. named \subseteq Values(length)
  <2>0. \A p \in here.pending \cup here.waiting \cup dead \cup reads : p[2] \in Values(length)
    BY DEF ValuesOK, WaitOK, Waits
  <2>1. {p[2] : p \in here.pending \cup here.waiting \cup dead \cup reads} \subseteq Values(length)
    BY <2>0
  <2>2. \A h : Within(h.may, length) => ValuesNow(h) \subseteq Values(length)
    BY DEF Within, ValuesNow
  <2>3. Within(here.may, length)
    BY DEF ValuesOK
  <2>4. \A d \in 1..Depth : Within(scopes[d].may, length) /\ Within(scopes[d].entry.may, length)
    BY <1>0 DEF ValuesOK, Kept
  <2>5. \A d \in 1..Depth : ValuesNow(scopes[d]) \cup ValuesNow(scopes[d].entry) \subseteq Values(length)
    BY <2>2, <2>4
  <2>6. \A d \in 1..Depth : {p[2] : p \in scopes[d].entry.waiting} \subseteq Values(length)
    <3>1. \A d \in 1..Depth : scopes[d].entry \in Entries(scopes)
      BY <1>0 DEF Entries
    <3>2. \A d \in 1..Depth : \A p \in scopes[d].entry.waiting : p[2] \in Values(length)
      BY <3>1 DEF WaitOK, Waits
    <3> QED
      BY <3>2
  <2> DEFINE all == {ValuesNow(scopes[d]) \cup ValuesNow(scopes[d].entry)
                       \cup {p[2] : p \in scopes[d].entry.waiting} : d \in 1..Depth}
  <2>7. \A S \in all : S \subseteq Values(length)
    BY <2>5, <2>6
  <2>8. named = {p[2] : p \in here.pending \cup here.waiting \cup dead \cup reads}
                  \cup ValuesNow(here) \cup UNION all
    BY DEF NamedValues
  <2> HIDE DEF all, named
  <2>9. UNION all \subseteq Values(length)
    BY <2>7
  <2> QED
    BY <2>1, <2>2, <2>3, <2>8, <2>9
<1>2. length \in Nat /\ length + 1 \in 1..(MaxEvents + 1)
  BY DEF ValuesOK
<1>3. length + 1 \in free
  BY <1>1, <1>2, ValuesApart
<1> HIDE DEF named
<1>4. PICK least \in free : \A n \in free : least <= n
  <2>1. free \in SUBSET Nat /\ free # {}
    BY <1>3
  <2> HIDE DEF free
  <2> QED
    BY <2>1, Least
<1>5. /\ least \in 1..(MaxEvents + 1) /\ Stored(least) \notin named
      /\ \A m \in 1..(least - 1) : Stored(m) \in named
  <2>1. \A m \in 1..(least - 1) : m \in 1..(MaxEvents + 1) /\ ~ (least <= m)
    BY <1>4
  <2> QED
    BY <2>1, <1>4
<1>6. PICK n \in 1..(MaxEvents + 1) :
        /\ Stored(n) \notin named /\ \A m \in 1..(n - 1) : Stored(m) \in named
        /\ NewStore = Stored(n)
  <2> DEFINE k == CHOOSE n \in 1..(MaxEvents + 1) :
                    /\ Stored(n) \notin named
                    /\ \A m \in 1..(n - 1) : Stored(m) \in named
  <2>1. k \in 1..(MaxEvents + 1) /\ Stored(k) \notin named /\ \A m \in 1..(k - 1) : Stored(m) \in named
    BY <1>5
  <2>2. NewStore = Stored(k)
    BY DEF NewStore, named
  <2> HIDE DEF k
  <2> QED
    BY <2>1, <2>2
<1>7. n \in 1..(length + 1)
  <2>1. ~ (length + 1 \in 1..(n - 1))
    BY <1>3, <1>6
  <2> QED
    BY <2>1, <1>2, <1>6
<1>8. NewStore \in Values(length + 1) /\ NewStore # Unset /\ \E k \in Nat : NewStore = Stored(k)
  <2>1. NewStore \in Values(length + 1)
    BY <1>6, <1>7 DEF Values
  <2> QED
    BY <2>1, <1>6, StoresAreSet
<1>9. NewStore \notin named
  BY <1>6
<1>10. \A p \in here.pending \cup dead \cup reads : p[2] # NewStore
  BY <1>9 DEF named, NamedValues
<1>11. \A h : ValuesNow(h) \subseteq named => \A b \in DOMAIN h.may : NewStore \notin h.may[b]
  BY <1>9 DEF ValuesNow
<1>12. /\ ValuesNow(here) \subseteq named
       /\ \A d \in 1..Depth : ValuesNow(scopes[d]) \subseteq named /\ ValuesNow(scopes[d].entry) \subseteq named
  BY DEF named, NamedValues
<1>13. \A m \in Kept(scopes, 1) : \A b \in DOMAIN m : NewStore \notin m[b]
  BY <1>0, <1>11, <1>12 DEF Kept
<1> QED
  BY <1>8, <1>10, <1>11, <1>12, <1>13 DEF Fresh

-----------------------------------------------------------------------------
(* The scopes after a change.                                              *)
LEMMA KeptDeclaring ==
  ASSUME NEW s, IsSeq(s), Len(s) \in Nat \ {0}, IsScope(s[Len(s)]), Well(s),
         NEW v, v \in s[Len(s)].hoisted
  PROVE  /\ Well(Declaring(s, v)) /\ Len(Declaring(s, v)) = Len(s) /\ IsSeq(Declaring(s, v))
         /\ \A k \in Nat \ {0} : Kept(Declaring(s, v), k) = Kept(s, k)
         /\ \A i \in 1..Len(s) : Declaring(s, v)[i].kind = s[i].kind
         /\ \A i \in 1..Len(s) : i # Len(s) => Declaring(s, v)[i] = s[i]
         /\ Entries(Declaring(s, v)) = Entries(s)
<1> DEFINE n == Len(s)
           top == [s[n] EXCEPT !.declared = s[n].declared \cup {v}]
           t == Declaring(s, v)
<1>1. /\ top.kind = s[n].kind /\ top.entry = s[n].entry /\ top.may = s[n].may
      /\ top.declared = s[n].declared \cup {v}
  BY ScopeFields
<1>2. top.hoisted = s[n].hoisted
  BY DEF IsScope
<1>3. t = Put(s, n, top) /\ n \in 1..n
  BY DEF Declaring
<1> HIDE DEF top, t
<1>4. /\ IsSeq(t) /\ Len(t) = n
      /\ \A i \in 1..n : t[i] = IF i = n THEN top ELSE s[i]
  BY <1>3, PutSeq
<1>5. \A i \in 1..n : t[i].kind = s[i].kind /\ t[i].entry = s[i].entry /\ t[i].may = s[i].may
  BY <1>1, <1>4
<1>6. ASSUME NEW k \in Nat \ {0} PROVE Kept(t, k) = Kept(s, k)
  <2>1. \A i \in k..n : i \in 1..n
    OBVIOUS
  <2> QED
    BY <2>1, <1>4, <1>5 DEF Kept
<1>7. Well(t)
  <2>1. \A i \in 1..n : t[i].kind = "caught" \/ t[i].declared \subseteq t[i].hoisted
    <3>1. top.kind = "caught" \/ top.declared \subseteq top.hoisted
      BY <1>1, <1>2, <1>3 DEF Well
    <3> QED
      BY <3>1, <1>4 DEF Well
  <2> QED
    BY <2>1, <1>4, <1>5 DEF Well
<1>8. Entries(t) = Entries(s)
  BY <1>4, <1>5 DEF Entries
<1> QED
  BY <1>4, <1>5, <1>6, <1>7, <1>8 DEF t

LEMMA KeptGrown ==
  ASSUME NEW s, IsSeq(s), Well(s), NEW kind, NEW hoisted, NEW declared, NEW entry,
         kind = "caught" \/ declared = {}, entry.pending = {}
  PROVE  LET t == Grown(s, Scope(kind, hoisted, declared, entry)) IN
         /\ Well(t) /\ IsSeq(t) /\ Len(t) = Len(s) + 1
         /\ \A k \in Nat \ {0} : \A m \in Kept(t, k) :
              m \in Kept(s, k) \/ m = entry.may \/ DOMAIN m = {}
         /\ Entries(t) = Entries(s) \cup {entry}
<1> DEFINE c == Scope(kind, hoisted, declared, entry)
           t == Grown(s, c)
           n == Len(s)
<1>1. /\ c.kind = kind /\ c.declared = declared /\ c.entry = entry /\ DOMAIN c.may = {}
  BY EmptyMap DEF Scope
<1> HIDE DEF c
<1>2. /\ IsSeq(t) /\ n \in Nat /\ Len(t) = n + 1
      /\ \A i \in 1..n : t[i] = s[i]
      /\ t[n + 1] = c
  BY PushSeq
<1> HIDE DEF t
<1>3. \A i \in 1..(n + 1) : i \in 1..n \/ i = n + 1
  BY <1>2
<1>4. Well(t)
  BY <1>1, <1>2, <1>3 DEF Well
<1>5. ASSUME NEW k \in Nat \ {0}, NEW m \in Kept(t, k)
      PROVE  m \in Kept(s, k) \/ m = entry.may \/ DOMAIN m = {}
  <2>1. PICK i \in k..(n + 1) : m = t[i].entry.may \/ m = t[i].may
    BY <1>2, <1>5 DEF Kept
  <2>2. CASE i = n + 1
    BY <2>1, <2>2, <1>1, <1>2
  <2>3. CASE i # n + 1
    <3>1. i \in k..n /\ i \in 1..n
      BY <2>3, <1>2
    <3>2. t[i] = s[i]
      BY <3>1, <1>2
    <3> QED
      BY <2>1, <3>1, <3>2 DEF Kept
  <2> QED
    BY <2>2, <2>3
<1>6. Entries(t) = Entries(s) \cup {entry}
  <2>1. 1..(n + 1) = (1..n) \cup {n + 1}
    BY <1>2
  <2>2. \A i \in 1..n : t[i].entry = s[i].entry
    BY <1>2
  <2> QED
    BY <2>1, <2>2, <1>1, <1>2 DEF Entries
<1> QED
  BY <1>2, <1>4, <1>5, <1>6 DEF t, c

LEMMA KeptCut ==
  ASSUME NEW s, IsSeq(s), Well(s), NEW n \in 0..Len(s)
  PROVE  /\ Well(Cut(s, n)) /\ Len(Cut(s, n)) = n
         /\ \A k \in Nat \ {0} : Kept(Cut(s, n), k) \subseteq Kept(s, k)
         /\ Entries(Cut(s, n)) \subseteq Entries(s)
<1> DEFINE t == Cut(s, n)
<1>1. Len(t) = n /\ \A i \in 1..n : t[i] = s[i]
  BY CutSeq
<1>2. Len(s) \in Nat /\ \A i \in 1..n : i \in 1..Len(s)
  BY DEF IsSeq
<1> HIDE DEF t
<1>3. Well(t)
  BY <1>1, <1>2 DEF Well
<1>4. ASSUME NEW k \in Nat \ {0} PROVE Kept(t, k) \subseteq Kept(s, k)
  <2>1. \A i \in k..n : i \in 1..n /\ i \in k..Len(s)
    BY <1>2
  <2> QED
    BY <2>1, <1>1 DEF Kept
<1>5. Entries(t) \subseteq Entries(s)
  BY <1>1, <1>2 DEF Entries
<1> QED
  BY <1>1, <1>3, <1>4, <1>5 DEF t

LEMMA KeptPut ==
  ASSUME NEW s, IsSeq(s), Well(s), Len(s) \in Nat \ {0}, NEW top,
         top.entry.pending = {}, top.declared = {}
  PROVE  LET t == Put(s, Len(s), top) IN
         /\ Well(t) /\ Len(t) = Len(s)
         /\ \A i \in 1..Len(s) : t[i] = IF i = Len(s) THEN top ELSE s[i]
         /\ \A k \in Nat \ {0} : \A m \in Kept(t, k) :
              m \in Kept(s, k) \/ m = top.may \/ m = top.entry.may
         /\ Entries(t) \subseteq Entries(s) \cup {top.entry}
<1> DEFINE n == Len(s)
           t == Put(s, n, top)
<1>1. /\ Len(t) = n /\ \A i \in 1..n : t[i] = IF i = n THEN top ELSE s[i]
  BY PutSeq
<1> HIDE DEF t
<1>2. Well(t)
  BY <1>1 DEF Well
<1>3. ASSUME NEW k \in Nat \ {0}, NEW m \in Kept(t, k)
      PROVE  m \in Kept(s, k) \/ m = top.may \/ m = top.entry.may
  <2>1. PICK i \in k..n : m = t[i].entry.may \/ m = t[i].may
    BY <1>1, <1>3 DEF Kept
  <2>2. i \in 1..n
    BY <2>1
  <2>3. (i # n => t[i] = s[i]) /\ (i = n => t[i] = top)
    BY <2>2, <1>1
  <2> QED
    BY <2>1, <2>3 DEF Kept
<1>4. Entries(t) \subseteq Entries(s) \cup {top.entry}
  BY <1>1 DEF Entries
<1> QED
  BY <1>1, <1>2, <1>3, <1>4 DEF t

-----------------------------------------------------------------------------
(* The innermost scope that declares a name, by what the walk knows.       *)
LEMMA NearestFacts ==
  ASSUME Depth \in Nat, NEW v, NEW at
  PROVE  /\ Nearest(v, at) \in 0..Depth
         /\ Nearest(v, at) # 0 => v \in at[Nearest(v, at)]
         /\ \A e \in 1..Depth : v \in at[e] => e <= Nearest(v, at)
<1> DEFINE holding == {d \in 1..Depth : v \in at[d]}
           m == Nearest(v, at)
<1>1. m = IF holding = {} THEN 0 ELSE CHOOSE d \in holding : \A e \in holding : e <= d
  BY DEF Nearest
<1>2. CASE holding = {}
  BY <1>1, <1>2
<1>3. CASE holding # {}
  <2>1. \E d \in holding : \A e \in holding : e <= d
    BY <1>3, Greatest
  <2>2. m \in holding /\ \A e \in holding : e <= m
    BY <2>1, <1>1, <1>3
  <2> HIDE DEF m
  <2> QED
    BY <2>2 DEF m
<1> QED
  BY <1>2, <1>3

(* A mention of v that the dead-store walk takes for another binding than  *)
(* the executions do, and why.                                             *)
Resolves(v, d, t) ==
  /\ d \in 0..Depth /\ t \in 0..Depth
  /\ \A e \in 1..Depth : v \in scopes[e].declared => e <= d
  /\ t # 0 => scopes[t].kind # "caught"
  /\ (t # 0 /\ <<t, v>> \notin Early(v) /\ t # d) =>
       d > t /\ scopes[d].kind = "caught" /\ v \in scopes[d].declared
  /\ (d # 0 /\ t # d /\ scopes[d].kind # "caught") => <<d, v>> \in Early(v)

LEMMA Resolution ==
  ASSUME Depth \in Nat, Well(scopes), NEW v
  PROVE  Resolves(v, findNearestSemanticBinding(v), findNearestSemanticDeadStoreBinding(v))
<1> DEFINE d == findNearestSemanticBinding(v)
           t == findNearestSemanticDeadStoreBinding(v)
           real == [e \in 1..Depth |-> scopes[e].declared]
           told == [e \in 1..Depth |-> IF scopes[e].kind = "caught" THEN {} ELSE scopes[e].hoisted]
<1>1. d = Nearest(v, real) /\ t = Nearest(v, told)
  BY DEF findNearestSemanticBinding, findNearestSemanticDeadStoreBinding
<1>2. /\ \A e \in 1..Depth : real[e] = scopes[e].declared
      /\ \A e \in 1..Depth : v \in told[e] <=> (scopes[e].kind # "caught" /\ v \in scopes[e].hoisted)
  OBVIOUS
<1>3. Early(v) = IF t # 0 /\ v \notin scopes[t].declared THEN {<<t, v>>, <<d, v>>} ELSE {}
  BY DEF Early
<1> HIDE DEF d, t, real, told
<1>4. /\ d \in 0..Depth /\ t \in 0..Depth
      /\ d # 0 => v \in scopes[d].declared
      /\ \A e \in 1..Depth : v \in scopes[e].declared => e <= d
  BY <1>1, <1>2, NearestFacts
<1>5. /\ t # 0 => scopes[t].kind # "caught" /\ v \in scopes[t].hoisted
      /\ \A e \in 1..Depth : scopes[e].kind # "caught" /\ v \in scopes[e].hoisted => e <= t
  BY <1>1, <1>2, <1>4, NearestFacts
<1>6. \A e \in 1..Depth : scopes[e].kind # "caught" => scopes[e].declared \subseteq scopes[e].hoisted
  BY DEF Well, Depth
<1>7. ASSUME t # 0, <<t, v>> \notin Early(v), t # d
      PROVE  d > t /\ scopes[d].kind = "caught" /\ v \in scopes[d].declared
  <2>1. v \in scopes[t].declared
    BY <1>3, <1>7
  <2>2. t <= d /\ d > t /\ d \in 1..Depth /\ d # 0
    BY <2>1, <1>4, <1>7
  <2>3. v \in scopes[d].declared
    BY <2>2, <1>4
  <2> QED
    BY <2>2, <2>3, <1>4, <1>5, <1>6
<1>8. ASSUME d # 0, t # d, scopes[d].kind # "caught"
      PROVE  <<d, v>> \in Early(v)
  <2>1. d \in 1..Depth /\ v \in scopes[d].declared /\ v \in scopes[d].hoisted
    BY <1>4, <1>6, <1>8
  <2>2. d <= t /\ t # 0 /\ ~ (t <= d)
    BY <2>1, <1>4, <1>5, <1>8
  <2>3. v \notin scopes[t].declared
    BY <2>2, <1>4
  <2> QED
    BY <2>2, <2>3, <1>3
<1> QED
  BY <1>4, <1>5, <1>7, <1>8 DEF Resolves, d, t

-----------------------------------------------------------------------------
(* A step keeps the parts of the invariant.                                *)
LEMMA ValuesStep ==
  ASSUME ValuesOK, length' = length \/ length' = length + 1,
         \A m \in {here'.may} \cup Kept(scopes', 1) :
           Within(m, length') \/ m \in {here.may} \cup Kept(scopes, 1),
         \A p \in here'.pending \cup dead' \cup reads' :
           p \in here.pending \cup dead \cup reads \/ p[2] \in Values(length')
  PROVE  ValuesOK'
<1>1. length' \in Nat /\ Values(length) \subseteq Values(length')
  BY ValuesApart DEF ValuesOK
<1>2. \A m : Within(m, length) => Within(m, length')
  BY <1>1 DEF Within
<1>3. \A m \in {here'.may} \cup Kept(scopes', 1) : Within(m, length')
  BY <1>2 DEF ValuesOK
<1>4. \A p \in here'.pending \cup dead' \cup reads' : p[2] \in Values(length')
  BY <1>1 DEF ValuesOK
<1> QED
  BY <1>1, <1>3, <1>4 DEF ValuesOK

(* A reported store that an execution may hold in m, it held before the    *)
(* step; n stands for one that was not reported.                           *)
Comes(m, n) ==
  \A p \in dead' : Written(p) /\ Holds(m, p) =>
    p[2] = n \/ \E o \in {here.may} \cup Kept(scopes, 3) : Holds(o, p)

LEMMA DeadStep ==
  ASSUME verdict = "open", ShapeOK, DeadOK, NEW n,
         \A p \in dead : p[2] # n,
         \A m \in {here'.may} \cup Kept(scopes', 3) : Comes(m, n),
         \A r \in reads' : Written(r) => r \in reads \/ Holds(here.may, r) \/ r[2] = n,
         \A p \in dead' : p[1] \notin blurred' => p[1] \notin blurred,
         \A p \in dead' : p \notin dead /\ p[1] \notin blurred' =>
           p \notin reads' /\ \A m \in {here'.may} \cup Kept(scopes', 3) : ~ Holds(m, p)
  PROVE  DeadOK'
<1> SUFFICES ASSUME NEW p \in dead', p[1] \notin blurred'
             PROVE  /\ p \notin reads'
                    /\ \A m \in {here'.may} \cup Kept(scopes', 3) : ~ Holds(m, p)
  BY DEF DeadOK
<1>1. CASE p \in dead
  <2>1. /\ Written(p) /\ p \notin reads /\ p[2] # n
        /\ \A m \in {here.may} \cup Kept(scopes, 3) : ~ Holds(m, p)
    BY <1>1 DEF DeadOK, ShapeOK
  <2>2. p \notin reads'
    BY <2>1
  <2>3. \A m \in {here'.may} \cup Kept(scopes', 3) : ~ Holds(m, p)
    BY <2>1 DEF Comes
  <2> QED
    BY <2>2, <2>3
<1>2. CASE p \notin dead
  BY <1>2
<1> QED
  BY <1>1, <1>2

(* A step behind which nothing is pending.                                 *)
LEMMA NothingPending ==
  ASSUME here'.pending = {}, \A p \in dead' : p \in dead \cup here.pending, ShapeOK
  PROVE  PendingOK' /\ ShapeOK'
BY DEF PendingOK, ShapeOK

LEMMA ComesSame ==
  /\ \A m \in {here.may} \cup Kept(scopes, 3) : \A n : Comes(m, n)
  /\ \A m, n : DOMAIN m = {} => Comes(m, n)
  /\ \A f, g, n : Comes(f, n) /\ Comes(g, n) => Comes(JoinMay(f, g), n)
  /\ \A f, d, n : Comes(f, n) => Comes(Outer(f, d), n)
<1>1. \A m \in {here.may} \cup Kept(scopes, 3) : \A n : Comes(m, n)
  BY DEF Comes
<1>2. \A m, n : DOMAIN m = {} => Comes(m, n)
  BY DEF Comes, Holds
<1>3. \A f, g, p : Holds(JoinMay(f, g), p) => Holds(f, p) \/ Holds(g, p)
  BY DEF Holds, JoinMay
<1>4. \A f, d, p : Holds(Outer(f, d), p) => Holds(f, p)
  BY DEF Holds, Outer, WithinScope
<1> QED
  BY <1>1, <1>2, <1>3, <1>4 DEF Comes

LEMMA WithinSame ==
  ASSUME NEW n
  PROVE  /\ \A m : DOMAIN m = {} => Within(m, n)
         /\ \A f, g : Within(f, n) /\ Within(g, n) => Within(JoinMay(f, g), n)
         /\ \A f, d : Within(f, n) => Within(Outer(f, d), n)
<1>1. \A m : DOMAIN m = {} => Within(m, n)
  BY DEF Within
<1>2. ASSUME NEW f, NEW g, Within(f, n), Within(g, n) PROVE Within(JoinMay(f, g), n)
  BY <1>2 DEF Within, JoinMay
<1>3. \A f, d : Within(f, n) => Within(Outer(f, d), n)
  BY DEF Within, Outer, WithinScope
<1> QED
  BY <1>1, <1>2, <1>3

-----------------------------------------------------------------------------
(* Statements.                                                             *)
LEMMA KeptSubset == \A s : Kept(s, 3) \subseteq Kept(s, 1)
<1> SUFFICES ASSUME NEW s, NEW i \in 3..Len(s) PROVE i \in 1..Len(s)
  BY DEF Kept
<1> QED
  OBVIOUS

LEMMA InBlock ==
  ASSUME IInv, DInv, WaitOK, MaxEvents \in Nat, Takes, Place(Evaluating)
  PROVE  /\ verdict = "open" /\ length' = length + 1 /\ Fresh(NewStore)
         /\ Depth \in Nat \ {0, 1} /\ Depth = Len(scopes) /\ IsSeq(scopes)
         /\ IsState(here) /\ IsScope(Top) /\ Top = scopes[Depth] /\ Top.kind # "caught"
         /\ DOMAIN here.may = IF here.reached THEN DeclaredIn(scopes, Depth) ELSE {}
         /\ ValuesOK /\ Well(scopes) /\ ShapeOK /\ DeadOK /\ PendingOK
<1>1. /\ Depth \in Nat \ {0, 1} /\ Depth = Len(scopes) /\ ~ Place({"between", "after", "params", "caught"})
      /\ Sound(here, DeclaredIn(scopes, Depth), loose)
  BY PlaceFacts
<1>2. IsSeq(scopes) /\ IsScope(scopes[Depth])
  BY <1>1 DEF IInv, ScopesOK, ScopeOK
<1>3. Fresh(NewStore)
  BY <1>1, NewStoreFresh DEF DInv, Takes
<1> QED
  BY <1>1, <1>2, <1>3 DEF DInv, Takes, Top, Sound, Place

LEMMA StoreFields ==
  ASSUME NEW h, IsState(h), NEW v, NEW values
  PROVE  LET d == findNearestSemanticBinding(v)
             t == findNearestSemanticDeadStoreBinding(v)
         IN /\ StoreAt(h, v, values).may =
                 IF d # 0 /\ h.reached THEN [h.may EXCEPT ![<<d, v>>] = values] ELSE h.may
            /\ StoreAt(h, v, values).pending =
                 IF t = 0 THEN h.pending
                 ELSE {p \in h.pending : p[1] # <<t, v>>} \cup {<<<<t, v>>, NewStore>>}
            /\ StoreAt(h, v, values).waiting \subseteq h.waiting
<1> DEFINE d == findNearestSemanticBinding(v)
           t == findNearestSemanticDeadStoreBinding(v)
           i == IF d # 0 /\ h.continues THEN h.inits \cup {<<d, v>>} ELSE h.inits
           m == IF d # 0 /\ h.reached THEN [h.may EXCEPT ![<<d, v>>] = values] ELSE h.may
           w == IF t = 0 THEN h.pending
                ELSE {p \in h.pending : p[1] # <<t, v>>} \cup {<<<<t, v>>, NewStore>>}
           x == {p \in h.waiting : p[1] # <<t, v>>}
<1>1. StoreAt(h, v, values) = [h EXCEPT !.inits = i, !.may = m, !.pending = w, !.waiting = x]
  BY DEF StoreAt
<1>2. x \subseteq h.waiting
  OBVIOUS
<1>3. PICK c, r, i0, m0, p0, w0 :
        h = [continues |-> c, inits |-> i0, pending |-> p0, waiting |-> w0, may |-> m0, reached |-> r]
  BY StateFields
<1> HIDE DEF i, m, w, x
<1>4. StoreAt(h, v, values) =
        [continues |-> c, inits |-> i, pending |-> w, waiting |-> x, may |-> m, reached |-> r]
  BY <1>1, <1>3
<1>5. /\ StoreAt(h, v, values).may = m /\ StoreAt(h, v, values).pending = w
      /\ StoreAt(h, v, values).waiting = x
  BY <1>4
<1> QED
  BY <1>2, <1>5 DEF m, w

LEMMA StoreTaken ==
  ASSUME IInv, DInv, WaitOK, MaxEvents \in Nat, Takes, Place(Evaluating), NEW v, NEW values,
         findNearestSemanticBinding(v) # 0,
         values \subseteq MayOf(here, findNearestSemanticBinding(v), v) \cup {NewStore},
         dead' = dead \cup markSemanticDeadStoreWrite(here, v),
         here' = StoreAt(here, v, values),
         blurred \cup Early(v) \subseteq blurred',
         \/ values = {NewStore}
         \/ <<findNearestSemanticDeadStoreBinding(v), v>> \in blurred',
         Overtaken(here, v) \subseteq blurred',
         scopes' = scopes, reads' = reads, verdict' = verdict
  PROVE  DInv'
<1> DEFINE d == findNearestSemanticBinding(v)
           t == findNearestSemanticDeadStoreBinding(v)
           b == <<d, v>>
           w == <<t, v>>
           new == <<w, NewStore>>
<1>1. /\ verdict = "open" /\ length' = length + 1 /\ Fresh(NewStore)
      /\ Depth \in Nat \ {0, 1} /\ Depth = Len(scopes) /\ IsState(here)
      /\ DOMAIN here.may = (IF here.reached THEN DeclaredIn(scopes, Depth) ELSE {})
      /\ ValuesOK /\ Well(scopes) /\ ShapeOK /\ DeadOK /\ PendingOK
  BY InBlock
<1>2. Resolves(v, d, t)
  BY <1>1, Resolution
<1>3. /\ here'.may = IF d # 0 /\ here.reached THEN [here.may EXCEPT ![b] = values] ELSE here.may
      /\ here'.pending = IF t = 0 THEN here.pending
                         ELSE {p \in here.pending : p[1] # w} \cup {new}
  BY <1>1, StoreFields
<1>4. dead' = dead \cup {p \in here.pending \cup here.waiting : p[1] = w}
  BY DEF markSemanticDeadStoreWrite
<1>w. \A p \in here.waiting : p[1] = w => w \in blurred'
  BY DEF Overtaken
<1>z. \A p \in here.waiting : p[2] \in Values(length) /\ Written(p)
  BY DEF WaitOK, Waits
<1>5. MayOf(here, d, v) = IF d # 0 /\ here.reached THEN here.may[b] ELSE {}
  BY DEF MayOf
<1>6. new[1] = w /\ new[2] = NewStore /\ w[1] = t /\ w[2] = v
  OBVIOUS
<1>7. d # 0 /\ values \subseteq MayOf(here, d, v) \cup {NewStore}
      /\ (values = {NewStore} \/ w \in blurred')
  OBVIOUS
<1> HIDE DEF d, t, b, w, new
<1>8. ASSUME NEW p, Holds(here'.may, p)
      PROVE  IF p[1] = b THEN p[2] \in values ELSE Holds(here.may, p)
  <2>1. CASE here.reached
    <3>1. here'.may = [here.may EXCEPT ![b] = values] /\ DOMAIN here'.may = DOMAIN here.may
      BY <2>1, <1>3, <1>7
    <3>2. p[1] \in DOMAIN here.may /\ p[2] \in here'.may[p[1]]
      BY <3>1, <1>8 DEF Holds
    <3> QED
      BY <3>1, <3>2 DEF Holds
  <2>2. CASE ~ here.reached
    <3>1. here'.may = here.may /\ DOMAIN here.may = {}
      BY <2>2, <1>1, <1>3
    <3> QED
      BY <3>1, <1>8 DEF Holds
  <2> QED
    BY <2>1, <2>2
<1>9. ASSUME NEW p, Holds(here'.may, p) PROVE p[2] = NewStore \/ Holds(here.may, p)
  <2>1. CASE p[1] = b
    <3>1. p[2] \in values /\ p[1] \in DOMAIN here.may /\ here.reached
      BY <2>1, <1>1, <1>3, <1>8, <1>9 DEF Holds
    <3> QED
      BY <3>1, <2>1, <1>5, <1>7 DEF Holds
  <2> QED
    BY <2>1, <1>8, <1>9
<1>10. /\ \A p \in here.pending \cup dead \cup reads : p[2] # NewStore
       /\ \A m \in {here.may} \cup Kept(scopes, 3) : \A p : Holds(m, p) => p[2] # NewStore
       /\ NewStore \in Values(length + 1) /\ \E k \in Nat : NewStore = Stored(k)
  BY <1>1, KeptSubset DEF Fresh, Holds
<1>11. ValuesOK'
  <2>1. Within(here'.may, length')
    <3>1. /\ values \subseteq Values(length + 1)
          /\ Within(here.may, length + 1)
      <4>1. Within(here.may, length) /\ Values(length) \subseteq Values(length + 1)
        BY <1>1, ValuesApart DEF ValuesOK
      <4>2. b \in DOMAIN here.may => MayOf(here, d, v) \subseteq Values(length + 1)
        BY <4>1, <1>5 DEF Within
      <4>3. b \in DOMAIN here.may \/ MayOf(here, d, v) = {} \/ here.reached
        BY <1>5
      <4>4. here.reached => b \in DOMAIN here.may
        BY <1>1, <1>7, Found, DeclaredFacts DEF IInv, ScopesOK, d, b
      <4> QED
        BY <4>1, <4>2, <4>3, <4>4, <1>7, <1>10 DEF Within
    <3> QED
      BY <3>1, <1>1, <1>3 DEF Within
  <2>2. \A p \in here'.pending \cup dead' \cup reads' :
          p \in here.pending \cup dead \cup reads \/ p[2] \in Values(length')
    <3>1. length \in Nat /\ Values(length) \subseteq Values(length')
      BY <1>1, ValuesApart DEF ValuesOK
    <3>2. \A p \in here'.pending : p \in here.pending \/ p[2] \in Values(length')
      BY <1>1, <1>3, <1>6, <1>10
    <3>3. \A p \in dead' : p \in here.pending \cup dead \/ p[2] \in Values(length')
      BY <3>1, <1>4, <1>z
    <3> QED
      BY <3>2, <3>3
  <2>3. \A m \in {here'.may} \cup Kept(scopes', 1) :
          Within(m, length') \/ m \in {here.may} \cup Kept(scopes, 1)
    BY <2>1
  <2> QED
    BY <2>2, <2>3, <1>1, ValuesStep
<1>12. ShapeOK'
  <2>1. t # 0 => /\ Written(new) /\ t \in 1..Depth /\ scopes[t].kind # "caught" /\ new[1][1] = t
    BY <1>2, <1>6, <1>10 DEF Resolves, Written, new, w
  <2>2. \A p \in here'.pending : p \in here.pending \/ (p = new /\ t # 0)
    BY <1>3
  <2>3. \A p \in dead' : p \in dead \cup here.pending \/ Written(p)
    BY <1>4, <1>z
  <2> QED
    BY <2>1, <2>2, <2>3, <1>1 DEF ShapeOK, Depth
<1>13. DeadOK'
  <2>1. \A p \in dead' : p \notin dead /\ p[1] \notin blurred' =>
          p \notin reads' /\ \A m \in {here'.may} \cup Kept(scopes', 3) : ~ Holds(m, p)
    <3> SUFFICES ASSUME NEW p \in here.pending, p[1] = w, w \notin blurred'
                 PROVE  /\ p \notin reads
                        /\ \A m \in {here'.may} \cup Kept(scopes, 3) : ~ Holds(m, p)
      BY <1>4, <1>w
    <3>1. /\ p[1] \notin blurred /\ w \notin Early(v) /\ values = {NewStore}
          /\ p[1][1] = t /\ p[1][2] = v /\ t # 0
      BY <1>1, <1>6, <1>7 DEF ShapeOK
    <3>2. p \notin reads /\ \A m \in Kept(scopes, 3) : ~ Holds(m, p)
      BY <3>1, <1>1 DEF PendingOK
    <3>3. CASE t = d
      <4>1. p[1] = b
        BY <3>3 DEF w, b
      <4>2. p[2] # NewStore
        BY <1>10
      <4> QED
        BY <4>1, <4>2, <3>1, <3>2, <1>8
    <3>4. CASE t # d
      <4>1. p[1] # b
        BY <3>4 DEF w, b
      <4>2. Shadowed(p, scopes)
        <5>1. d \in 1..Len(scopes) /\ d > t /\ scopes[d].kind = "caught" /\ v \in scopes[d].declared
          BY <3>1, <3>4, <1>1, <1>2, <1>7 DEF Resolves, w
        <5> QED
          BY <5>1, <3>1 DEF Shadowed
      <4>3. ~ Holds(here.may, p)
        BY <4>2, <3>1, <1>1 DEF PendingOK
      <4> QED
        BY <4>1, <4>3, <3>2, <1>8
    <3> QED
      BY <3>3, <3>4
  <2>2. \A m \in {here'.may} \cup Kept(scopes', 3) : Comes(m, NewStore)
    BY <1>9, ComesSame DEF Comes
  <2>3. \A p \in dead' : p[1] \notin blurred' => p[1] \notin blurred
    OBVIOUS
  <2>4. \A p \in dead : p[2] # NewStore
    BY <1>10
  <2>5. \A r \in reads' : Written(r) => r \in reads \/ Holds(here.may, r) \/ r[2] = NewStore
    OBVIOUS
  <2> QED
    BY <2>1, <2>2, <2>3, <2>4, <2>5, <1>1, DeadStep
<1>14. PendingOK'
  <2> SUFFICES ASSUME NEW p \in here'.pending, p[1] \notin blurred'
               PROVE  /\ p \notin reads /\ \A m \in Kept(scopes, 3) : ~ Holds(m, p)
                      /\ Shadowed(p, scopes) => ~ Holds(here'.may, p)
    BY DEF PendingOK
  <2>1. CASE p = new
    <3>1. p \notin reads /\ \A m \in Kept(scopes, 3) : ~ Holds(m, p)
      BY <2>1, <1>6, <1>10
    <3>2. ASSUME Shadowed(p, scopes) PROVE ~ Holds(here'.may, p)
      <4>1. PICK e \in 1..Depth : e > t /\ v \in scopes[e].declared
        BY <3>2, <2>1, <1>1, <1>6 DEF Shadowed
      <4>2. t # d
        BY <4>1, <1>1, <1>2 DEF Resolves
      <4>3. p[1] # b
        BY <4>2, <2>1, <1>6 DEF w, b
      <4> QED
        BY <4>3, <2>1, <1>6, <1>8, <1>10
    <3> QED
      BY <3>1, <3>2
  <2>2. CASE p # new
    <3>1. p \in here.pending /\ p[1] \notin blurred /\ p[2] # NewStore
      BY <2>2, <1>3, <1>10
    <3> QED
      BY <3>1, <1>1, <1>9 DEF PendingOK
  <2> QED
    BY <2>1, <2>2
<1> QED
  BY <1>1, <1>11, <1>12, <1>13, <1>14 DEF DInv

LEMMA DeadAssign ==
  ASSUME IInv, DInv, WaitOK, MaxEvents \in Nat, NEW v, Assign(v) \/ AssignInArm(v)
  PROVE  DInv'
<1> DEFINE d == findNearestSemanticBinding(v)
           t == findNearestSemanticDeadStoreBinding(v)
<1>1. CASE Assign(v)
  <2> DEFINE values == {NewStore}
  <2>1. /\ Takes /\ Place(Evaluating) /\ d # 0
        /\ dead' = dead \cup markSemanticDeadStoreWrite(here, v)
        /\ here' = StoreAt(here, v, values)
        /\ blurred' = blurred \cup Early(v) \cup Overtaken(here, v)
        /\ scopes' = scopes /\ reads' = reads /\ verdict' = verdict
    BY <1>1 DEF Assign, Same
  <2>2. values \subseteq MayOf(here, d, v) \cup {NewStore} /\ values = {NewStore}
    OBVIOUS
  <2> HIDE DEF values
  <2> QED
    BY <2>1, <2>2, StoreTaken
<1>2. CASE AssignInArm(v)
  <2> DEFINE values == MayOf(here, d, v) \cup {NewStore}
  <2>1. /\ Takes /\ Place(Evaluating) /\ d # 0
        /\ dead' = dead \cup markSemanticDeadStoreWrite(here, v)
        /\ here' = StoreAt(here, v, values)
        /\ blurred' = blurred \cup {<<d, v>>, <<t, v>>} \cup Early(v)
        /\ scopes' = scopes /\ reads' = reads /\ verdict' = verdict
    BY <1>2 DEF AssignInArm, Same
  <2>2. values \subseteq MayOf(here, d, v) \cup {NewStore}
        /\ blurred \cup Early(v) \subseteq blurred' /\ <<t, v>> \in blurred'
        /\ Overtaken(here, v) \subseteq blurred'
    BY <2>1 DEF Overtaken
  <2> HIDE DEF values
  <2> QED
    BY <2>1, <2>2, StoreTaken
<1> QED
  BY <1>1, <1>2

LEMMA ReadsHeld ==
  ASSUME IInv, ValuesOK, NEW v, NEW r \in ReadsOf(here, v)
  PROVE  /\ r[1] = <<findNearestSemanticBinding(v), v>> /\ findNearestSemanticBinding(v) # 0
         /\ Holds(here.may, r) /\ r[2] \in Values(length)
<1> DEFINE d == findNearestSemanticBinding(v)
           b == <<d, v>>
<1>1. PICK x \in MayOf(here, d, v) : r = <<b, x>>
  BY DEF ReadsOf
<1>2. d # 0 /\ here.reached /\ x \in here.may[b]
  BY <1>1 DEF MayOf
<1>3. Sound(here, DeclaredIn(scopes, Len(scopes)), loose) /\ IsSeq(scopes) /\ Len(scopes) \in Nat
  BY DEF IInv, HereOK, ScopesOK, IsSeq
<1>4. d \in 1..Len(scopes) /\ v \in scopes[d].declared
  BY <1>2, <1>3, Found DEF Depth
<1> HIDE DEF d
<1>5. b \in DOMAIN here.may
  BY <1>2, <1>3, <1>4, DeclaredFacts DEF Sound
<1> HIDE DEF b
<1>6. r[1] = b /\ r[2] = x
  BY <1>1
<1> QED
  BY <1>2, <1>5, <1>6 DEF Holds, ValuesOK, Within, b, d

(* A statement that stores nothing.                                        *)
LEMMA ReadTaken ==
  ASSUME IInv, DInv, WaitOK, MaxEvents \in Nat, Takes, Place(Evaluating), NEW v,
         here'.may = here.may \/ DOMAIN here'.may = {},
         here'.pending \subseteq here.pending, dead' = dead, scopes' = scopes,
         blurred \subseteq blurred',
         reads' \subseteq reads \cup ReadsOf(here, v),
         \A p \in here'.pending :
           p[1] = <<findNearestSemanticBinding(v), v>> => p[1] \in blurred' \/ reads' = reads
  PROVE  DInv'
<1>1. /\ verdict = "open" /\ length' = length + 1 /\ Depth = Len(scopes)
      /\ ValuesOK /\ Well(scopes) /\ ShapeOK /\ DeadOK /\ PendingOK
  BY InBlock
<1>2. /\ \A r \in reads' : r \in reads \/ (Holds(here.may, r) /\ r[2] \in Values(length))
      /\ \A r \in reads' : r \in reads \/ r[1] = <<findNearestSemanticBinding(v), v>>
  BY <1>1, ReadsHeld
<1>3. ValuesOK'
  <2>1. length \in Nat /\ Values(length) \subseteq Values(length')
    BY <1>1, ValuesApart DEF ValuesOK
  <2>2. \A m \in {here'.may} \cup Kept(scopes', 1) :
          Within(m, length') \/ m \in {here.may} \cup Kept(scopes, 1)
    BY WithinSame
  <2>3. \A p \in here'.pending \cup dead' \cup reads' :
          p \in here.pending \cup dead \cup reads \/ p[2] \in Values(length')
    BY <1>2, <2>1
  <2> QED
    BY <2>2, <2>3, <1>1, ValuesStep
<1>4. ShapeOK'
  BY <1>1 DEF ShapeOK, Depth
<1>5. DeadOK'
  <2>1. \A m \in {here'.may} \cup Kept(scopes', 3) : Comes(m, Unset)
    BY ComesSame
  <2>2. \A p \in dead : p[2] # Unset
    BY <1>1, ValuesApart DEF ShapeOK
  <2>3. \A r \in reads' : Written(r) => r \in reads \/ Holds(here.may, r) \/ r[2] = Unset
    BY <1>2
  <2>4. \A p \in dead' : p[1] \notin blurred' => p[1] \notin blurred
    OBVIOUS
  <2>5. \A p \in dead' : p \notin dead /\ p[1] \notin blurred' =>
          p \notin reads' /\ \A m \in {here'.may} \cup Kept(scopes', 3) : ~ Holds(m, p)
    OBVIOUS
  <2> QED
    BY <2>1, <2>2, <2>3, <2>4, <2>5, <1>1, DeadStep
<1>6. PendingOK'
  <2> SUFFICES ASSUME NEW p \in here'.pending, p[1] \notin blurred'
               PROVE  /\ p \notin reads' /\ \A m \in Kept(scopes, 3) : ~ Holds(m, p)
                      /\ Shadowed(p, scopes) => ~ Holds(here'.may, p)
    BY DEF PendingOK
  <2>1. /\ p \notin reads /\ \A m \in Kept(scopes, 3) : ~ Holds(m, p)
        /\ Shadowed(p, scopes) => ~ Holds(here.may, p)
    BY <1>1 DEF PendingOK
  <2>2. p \notin reads'
    BY <2>1, <1>2
  <2> QED
    BY <2>1, <2>2 DEF Holds
<1> QED
  BY <1>1, <1>3, <1>4, <1>5, <1>6 DEF DInv

LEMMA ReadFields ==
  ASSUME NEW h, IsState(h), NEW v
  PROVE  LET k == markSemanticDeadStoreRead(h, v) IN
         /\ k.may = h.may /\ k.waiting \subseteq h.waiting
         /\ k.pending = {p \in h.pending : p[1] # <<findNearestSemanticDeadStoreBinding(v), v>>}
<1> DEFINE t == <<findNearestSemanticDeadStoreBinding(v), v>>
           w == {p \in h.pending : p[1] # t}
           x == {p \in h.waiting : p[1] # t}
           k == markSemanticDeadStoreRead(h, v)
<1>1. k = [h EXCEPT !.pending = w, !.waiting = x]
  BY DEF markSemanticDeadStoreRead
<1>2. x \subseteq h.waiting
  OBVIOUS
<1>3. PICK c, r, i0, m0, p0, w0 :
        h = [continues |-> c, inits |-> i0, pending |-> p0, waiting |-> w0, may |-> m0, reached |-> r]
  BY StateFields
<1> HIDE DEF k, w, x
<1>4. k = [continues |-> c, inits |-> i0, pending |-> w, waiting |-> x, may |-> m0, reached |-> r]
  BY <1>1, <1>3
<1>5. k.may = h.may /\ k.pending = w /\ k.waiting = x
  BY <1>3, <1>4
<1> QED
  BY <1>2, <1>5 DEF k, w

LEMMA DeadRead ==
  ASSUME IInv, DInv, WaitOK, MaxEvents \in Nat, NEW v, Read(v)
  PROVE  DInv'
<1> DEFINE d == findNearestSemanticBinding(v)
           t == findNearestSemanticDeadStoreBinding(v)
<1>1. /\ Takes /\ Place(Evaluating) /\ d # 0 /\ dead' = dead /\ scopes' = scopes
      /\ here' = markSemanticDeadStoreRead(here, v) /\ blurred' = blurred \cup Early(v)
      /\ reads' \subseteq reads \cup ReadsOf(here, v)
  BY DEF Read, Same, Untold
<1>2. IsState(here) /\ Well(scopes) /\ ShapeOK /\ Depth \in Nat
  BY <1>1, InBlock
<1>3. here'.may = here.may /\ here'.pending = {p \in here.pending : p[1] # <<t, v>>}
  BY <1>1, <1>2, ReadFields
<1>4. Resolves(v, d, t)
  BY <1>2, Resolution
<1> HIDE DEF d, t
<1>5. ASSUME NEW p \in here'.pending, p[1] = <<d, v>> PROVE p[1] \in blurred'
  <2>1. p \in here.pending /\ p[1] # <<t, v>> /\ p[1][1] = d
    BY <1>3, <1>5
  <2>2. t # d /\ scopes[d].kind # "caught"
    BY <2>1, <1>2, <1>5 DEF ShapeOK
  <2> QED
    BY <2>2, <1>1, <1>4, <1>5 DEF Resolves
<1> QED
  BY <1>1, <1>3, <1>5, ReadTaken DEF d

LEMMA DeadCapture ==
  ASSUME IInv, DInv, WaitOK, MaxEvents \in Nat, NEW v, Capture(v)
  PROVE  DInv'
<1>1. /\ Takes /\ Place(Evaluating) /\ dead' = dead /\ scopes' = scopes /\ here' = here
      /\ blurred' = blurred \cup {<<findNearestSemanticBinding(v), v>>}
      /\ reads' \subseteq reads \cup ReadsOf(here, v)
  BY DEF Capture, Same, Untold
<1>2. /\ here'.may = here.may /\ here'.pending \subseteq here.pending
      /\ blurred \subseteq blurred'
      /\ \A p : p[1] = <<findNearestSemanticBinding(v), v>> => p[1] \in blurred'
  BY <1>1
<1> QED
  BY <1>1, <1>2, ReadTaken

LEMMA ReturnFields ==
  ASSUME NEW h, IsState(h), NEW m
  PROVE  LET k == [h EXCEPT !.continues = FALSE, !.reached = FALSE, !.may = m] IN
         k.may = m /\ k.pending = h.pending /\ k.waiting = h.waiting
<1> DEFINE k == [h EXCEPT !.continues = FALSE, !.reached = FALSE, !.may = m]
<1>1. PICK c, r, i0, m0, p0, w0 :
        h = [continues |-> c, inits |-> i0, pending |-> p0, waiting |-> w0, may |-> m0, reached |-> r]
  BY StateFields
<1>a. k = [h EXCEPT !.continues = FALSE, !.reached = FALSE, !.may = m]
  OBVIOUS
<1> HIDE DEF k
<1>2. k = [continues |-> FALSE, inits |-> i0, pending |-> p0, waiting |-> w0, may |-> m, reached |-> FALSE]
  BY <1>1, <1>a
<1>3. k.may = m /\ k.pending = h.pending /\ k.waiting = h.waiting
  BY <1>1, <1>2
<1> QED
  BY <1>3 DEF k

LEMMA DeadReturn ==
  ASSUME IInv, DInv, WaitOK, MaxEvents \in Nat, Return
  PROVE  DInv'
<1> DEFINE nothing == <<>>
<1>1. /\ Takes /\ Place(Blocks) /\ dead' = dead /\ scopes' = scopes
      /\ blurred' = blurred /\ reads' = reads
      /\ here' = [here EXCEPT !.continues = FALSE, !.reached = FALSE, !.may = nothing]
  BY DEF Return, Same
<1>2. IsState(here) /\ DOMAIN nothing = {} /\ Place(Evaluating)
  BY <1>1, BlockFacts DEF Sound
<1> HIDE DEF nothing
<1>3. DOMAIN here'.may = {} /\ here'.pending = here.pending
  BY <1>1, <1>2, ReturnFields
<1> QED
  BY <1>1, <1>2, <1>3, ReadTaken

LEMMA BindPending ==
  ASSUME NEW h, IsState(h), NEW b, NEW initializes, NEW values, NEW w
  PROVE  LET k == Bind(h, b, initializes, values) IN
         /\ k.pending = h.pending /\ k.waiting = h.waiting
         /\ [k EXCEPT !.pending = w].may = k.may /\ [k EXCEPT !.pending = w].pending = w
         /\ [k EXCEPT !.pending = w].waiting = h.waiting
         /\ \A p : Holds(k.may, p) =>
              IF p[1] = b /\ h.reached THEN p[2] \in values ELSE Holds(h.may, p)
         /\ \A n : Within(h.may, n) /\ values \subseteq Values(n) => Within(k.may, n)
<1> DEFINE i == IF initializes /\ h.continues THEN h.inits \cup {b} ELSE h.inits
           m == IF h.reached
                THEN [x \in DOMAIN h.may \cup {b} |-> IF x = b THEN values ELSE h.may[x]]
                ELSE h.may
           k == Bind(h, b, initializes, values)
<1>1. k = [h EXCEPT !.inits = i, !.may = m]
  BY DEF Bind
<1>2. \A p : Holds(m, p) => IF p[1] = b /\ h.reached THEN p[2] \in values ELSE Holds(h.may, p)
  BY DEF Holds
<1>3. ASSUME NEW n, Within(h.may, n), values \subseteq Values(n) PROVE Within(m, n)
  BY <1>3 DEF Within
<1> HIDE DEF i, m, k
<1>4. /\ k = [continues |-> h.continues, inits |-> i, pending |-> h.pending,
              waiting |-> h.waiting, may |-> m, reached |-> h.reached]
  <2>1. PICK c, r, i0, m0, p0, w0 :
          h = [continues |-> c, inits |-> i0, pending |-> p0, waiting |-> w0, may |-> m0, reached |-> r]
    BY StateFields
  <2> QED
    BY <2>1, <1>1
<1>5. /\ k.pending = h.pending /\ k.may = m /\ k.waiting = h.waiting
      /\ [k EXCEPT !.pending = w].may = k.may /\ [k EXCEPT !.pending = w].pending = w
      /\ [k EXCEPT !.pending = w].waiting = h.waiting
  BY <1>4
<1> QED
  BY <1>2, <1>3, <1>5 DEF k

LEMMA DeadDeclare ==
  ASSUME IInv, DInv, WaitOK, MaxEvents \in Nat, NEW v, NEW how \in {"initialized", "bare", "optional"},
         Declare(v, how)
  PROVE  DInv'
<1> DEFINE b == <<Depth, v>>
           value == CASE how = "initialized" -> NewStore
                      [] how = "optional" -> Absent
                      [] how = "bare" -> Unset
           k == Bind(here, b, how # "bare", {value})
           new == <<b, NewStore>>
           w == {p \in here.pending : p[1] # b} \cup {new}
<1>1. /\ Takes /\ Place(Blocks) /\ v \in Top.hoisted /\ verdict' = verdict
      /\ reads' = reads /\ blurred' = blurred
      /\ scopes' = [scopes EXCEPT ![Depth].declared = @ \cup {v}]
      /\ dead' = IF how = "initialized" THEN dead \cup {p \in here.pending : p[1] = b} ELSE dead
  BY DEF Declare, Same
<1>2. /\ verdict = "open" /\ length' = length + 1 /\ Fresh(NewStore)
      /\ Depth \in Nat \ {0, 1} /\ Depth = Len(scopes) /\ IsSeq(scopes)
      /\ IsState(here) /\ IsScope(Top) /\ Top = scopes[Depth] /\ Top.kind # "caught"
      /\ ValuesOK /\ Well(scopes) /\ ShapeOK /\ DeadOK /\ PendingOK
  BY <1>1, BlockFacts, InBlock
<1>3. here' = IF how = "initialized" THEN [k EXCEPT !.pending = w] ELSE k
  <2>1. CASE how = "initialized"
    <3>1. k.pending = here.pending
      BY <1>2, BindPending
    <3>2. here' = [k EXCEPT !.pending = {p \in @ : p[1] # b} \cup {new}]
      BY <2>1 DEF Declare, Bind
    <3> HIDE DEF k
    <3> QED
      BY <2>1, <3>1, <3>2
  <2>2. CASE how # "initialized"
    BY <2>2 DEF Declare, Bind
  <2> QED
    BY <2>1, <2>2
<1>4. /\ k.pending = here.pending
      /\ [k EXCEPT !.pending = w].may = k.may /\ [k EXCEPT !.pending = w].pending = w
      /\ \A p : Holds(k.may, p) =>
           IF p[1] = b /\ here.reached THEN p[2] = value ELSE Holds(here.may, p)
      /\ \A n : Within(here.may, n) /\ value \in Values(n) => Within(k.may, n)
  <2> DEFINE initializes == how # "bare"
             values == {value}
  <2>1. IsState(here) /\ k = Bind(here, b, initializes, values)
    BY <1>2
  <2> HIDE DEF initializes, b, value, w, k
  <2>2. \A x : x \in values <=> x = value
    OBVIOUS
  <2> HIDE DEF values
  <2> QED
    BY <2>1, <2>2, BindPending
<1>5. here'.may = k.may /\ here'.pending = IF how = "initialized" THEN w ELSE here.pending
  BY <1>3, <1>4
<1>6. value \in {NewStore, Absent, Unset}
  OBVIOUS
<1>7. new[1] = b /\ new[2] = NewStore /\ b[1] = Depth /\ b[2] = v
  OBVIOUS
<1>8. scopes' = Declaring(scopes, v)
  BY <1>1, <1>2 DEF Declaring, Put
<1>9. /\ Well(scopes') /\ Len(scopes') = Depth
      /\ Kept(scopes', 1) = Kept(scopes, 1) /\ Kept(scopes', 3) = Kept(scopes, 3)
      /\ \A i \in 1..Depth : scopes'[i].kind = scopes[i].kind
      /\ \A i \in 1..Depth : i # Depth => scopes'[i] = scopes[i]
  <2> DEFINE t == Declaring(scopes, v)
  <2>1. IsScope(scopes[Len(scopes)]) /\ v \in scopes[Len(scopes)].hoisted /\ Len(scopes) \in Nat \ {0}
    BY <1>1, <1>2
  <2>2. /\ Well(t) /\ Len(t) = Len(scopes) /\ \A j \in Nat \ {0} : Kept(t, j) = Kept(scopes, j)
        /\ \A i \in 1..Len(scopes) : t[i].kind = scopes[i].kind
        /\ \A i \in 1..Len(scopes) : i # Len(scopes) => t[i] = scopes[i]
    BY <2>1, <1>2, KeptDeclaring
  <2> HIDE DEF t
  <2>3. Kept(t, 1) = Kept(scopes, 1) /\ Kept(t, 3) = Kept(scopes, 3) /\ scopes' = t
    BY <2>2, <1>8 DEF t
  <2> QED
    BY <2>2, <2>3, <1>2
<1>w. w = {p \in here.pending : p[1] # b} \cup {new}
  OBVIOUS
<1> HIDE DEF b, value, k, new, w
<1>10. ASSUME NEW p, Holds(here'.may, p) PROVE p[2] \in {NewStore, Absent, Unset} \/ Holds(here.may, p)
  BY <1>4, <1>5, <1>6, <1>10
<1>11. /\ \A p \in here.pending \cup dead \cup reads : p[2] # NewStore
       /\ \A m \in {here.may} \cup Kept(scopes, 3) : \A p : Holds(m, p) => p[2] # NewStore
       /\ NewStore \in Values(length + 1) /\ \E j \in Nat : NewStore = Stored(j)
  BY <1>2, KeptSubset DEF Fresh, Holds
<1>12. ValuesOK'
  <2>1. Within(here'.may, length')
    <3>1. value \in Values(length + 1)
      BY <1>6, <1>11 DEF Values
    <3>2. Within(here.may, length + 1)
      BY <1>2, ValuesApart DEF ValuesOK, Within
    <3> QED
      BY <3>1, <3>2, <1>2, <1>4, <1>5
  <2>2. \A p \in here'.pending \cup dead' \cup reads' :
          p \in here.pending \cup dead \cup reads \/ p[2] \in Values(length')
    BY <1>1, <1>2, <1>5, <1>7, <1>11, <1>w
  <2>3. \A m \in {here'.may} \cup Kept(scopes', 1) :
          Within(m, length') \/ m \in {here.may} \cup Kept(scopes, 1)
    BY <2>1, <1>9
  <2> QED
    BY <2>2, <2>3, <1>2, ValuesStep
<1>13. ShapeOK'
  <2>1. Written(new) /\ new[1][1] = Depth /\ Depth \in 1..Depth /\ scopes[Depth].kind # "caught"
    BY <1>2, <1>7, <1>11 DEF Written, b
  <2>2. \A p \in here'.pending : p \in here.pending \/ p = new
    BY <1>5, <1>w
  <2>3. \A p \in dead' : p \in dead \cup here.pending
    BY <1>1
  <2>4. Depth' = Depth
    BY <1>9 DEF Depth
  <2>5. \A p \in here'.pending : Written(p) /\ p[1][1] \in 1..Depth /\ scopes[p[1][1]].kind # "caught"
    BY <2>1, <2>2, <1>2 DEF ShapeOK
  <2> QED
    BY <2>3, <2>4, <2>5, <1>2, <1>9 DEF ShapeOK
<1>14. DeadOK'
  <2>1. \A p \in dead' : p \notin dead /\ p[1] \notin blurred' =>
          p \notin reads' /\ \A m \in {here'.may} \cup Kept(scopes', 3) : ~ Holds(m, p)
    <3> SUFFICES ASSUME NEW p \in here.pending, p[1] = b, p[1] \notin blurred, how = "initialized"
                 PROVE  /\ p \notin reads
                        /\ \A m \in {here'.may} \cup Kept(scopes, 3) : ~ Holds(m, p)
      BY <1>1, <1>9
    <3>1. p \notin reads /\ \A m \in Kept(scopes, 3) : ~ Holds(m, p)
      BY <1>2 DEF PendingOK
    <3>2. value = NewStore
      BY DEF value
    <3>3. ~ here.reached => DOMAIN here.may = {}
      BY <1>1, BlockFacts, InBlock
    <3>4. ~ Holds(here'.may, p)
      BY <3>2, <3>3, <1>4, <1>5, <1>11 DEF Holds
    <3> QED
      BY <3>1, <3>4
  <2>2. \A p : Written(p) => p[2] # Absent /\ p[2] # Unset
    BY ValuesApart
  <2>3. \A m \in {here'.may} \cup Kept(scopes', 3) : Comes(m, NewStore)
    BY <2>2, <1>9, <1>10, ComesSame DEF Comes
  <2>4. \A p \in dead' : p[1] \notin blurred' => p[1] \notin blurred
    BY <1>1
  <2>5. \A p \in dead : p[2] # NewStore
    BY <1>11
  <2>6. \A r \in reads' : Written(r) => r \in reads \/ Holds(here.may, r) \/ r[2] = NewStore
    BY <1>1
  <2> QED
    BY <2>1, <2>3, <2>4, <2>5, <2>6, <1>2, DeadStep
<1>15. PendingOK'
  <2> SUFFICES ASSUME NEW p \in here'.pending, p[1] \notin blurred
               PROVE  /\ p \notin reads /\ \A m \in Kept(scopes, 3) : ~ Holds(m, p)
                      /\ Shadowed(p, scopes') => ~ Holds(here'.may, p)
    BY <1>1, <1>9 DEF PendingOK
  <2>1. ASSUME Shadowed(p, scopes') PROVE Shadowed(p, scopes) /\ p[1][1] # Depth
    <3>1. PICK d \in 1..Depth : d > p[1][1] /\ scopes'[d].kind = "caught" /\ p[1][2] \in scopes'[d].declared
      BY <2>1, <1>9 DEF Shadowed
    <3>2. d # Depth /\ scopes'[d] = scopes[d]
      BY <3>1, <1>2, <1>9
    <3> QED
      BY <3>1, <3>2, <1>2 DEF Shadowed
  <2>2. CASE p = new
    BY <2>1, <2>2, <1>7, <1>11
  <2>3. CASE p # new
    <3>1. p \in here.pending /\ p[2] # NewStore /\ p[2] # Absent /\ p[2] # Unset
      BY <2>3, <1>2, <1>5, <1>11, <1>w, ValuesApart DEF ShapeOK
    <3>2. /\ p \notin reads /\ \A m \in Kept(scopes, 3) : ~ Holds(m, p)
          /\ Shadowed(p, scopes) => ~ Holds(here.may, p)
      BY <3>1, <1>2 DEF PendingOK
    <3> QED
      BY <3>1, <3>2, <2>1, <1>10
  <2> QED
    BY <2>2, <2>3
<1> QED
  BY <1>9, <1>12, <1>13, <1>14, <1>15 DEF DInv

-----------------------------------------------------------------------------
(* Blocks open.                                                            *)
LEMMA EnteringFacts ==
  ASSUME NEW d \in Nat, NEW stored, NEW trusted, Entering(d, stored, trusted),
         ShapeOK, stored \subseteq here.pending
  PROVE  /\ \A p \in dead' : p \in dead \cup stored /\ p[1][1] < d
         /\ \A p \in dead' : p[1] \notin blurred' => p[1] \notin blurred
         /\ reads' \subseteq reads
<1>1. \A p \in dead' : p \in dead \cup stored /\ p[1][1] < d /\ p[1][1] \in Nat
  BY DEF Entering, ShapeOK, Written
<1>2. \A p \in dead' : p[1] \notin blurred' => p[1] \notin blurred
  BY <1>1 DEF Entering, WithinScope
<1>3. reads' \subseteq reads
  BY DEF Entering
<1> QED
  BY <1>1, <1>2, <1>3

(* A step behind which nothing is pending keeps the invariant.             *)
LEMMA ClearStep ==
  ASSUME verdict = "open", DInv, length' = length \/ length' = length + 1,
         here'.pending = {}, Well(scopes'), NEW n,
         \A m \in {here'.may} \cup Kept(scopes', 1) :
           Within(m, length') \/ m \in {here.may} \cup Kept(scopes, 1),
         \A r \in reads' : r \in reads \/ r[2] \in Values(length'),
         \A p \in dead' : p \in dead \cup here.pending,
         \A p \in dead : p[2] # n,
         \A m \in {here'.may} \cup Kept(scopes', 3) : Comes(m, n),
         \A r \in reads' : Written(r) => r \in reads \/ Holds(here.may, r) \/ r[2] = n,
         \A p \in dead' : p[1] \notin blurred' => p[1] \notin blurred,
         \A p \in dead' : p \notin dead /\ p[1] \notin blurred' =>
           p \notin reads' /\ \A m \in {here'.may} \cup Kept(scopes', 3) : ~ Holds(m, p)
  PROVE  DInv'
<1>1. ValuesOK /\ ShapeOK /\ DeadOK
  BY DEF DInv
<1>2. \A p \in here'.pending \cup dead' \cup reads' :
        p \in here.pending \cup dead \cup reads \/ p[2] \in Values(length')
  OBVIOUS
<1>3. ValuesOK'
  BY <1>1, <1>2, ValuesStep
<1>4. DeadOK'
  BY <1>1, DeadStep
<1>5. PendingOK' /\ ShapeOK'
  BY <1>1, NothingPending
<1> QED
  BY <1>3, <1>4, <1>5 DEF DInv

LEMMA ClearedPending ==
  ASSUME NEW h, IsState(h), NEW m, NEW r
  PROVE  LET e == clearSemanticDeadStorePendingWrites(h)
             k == [e EXCEPT !.may = m, !.reached = r]
         IN /\ e.pending = {} /\ e.waiting = {} /\ e.may = h.may
            /\ k.pending = {} /\ k.waiting = {} /\ k.may = m
<1> DEFINE none == {}
           e == clearSemanticDeadStorePendingWrites(h)
           k == [e EXCEPT !.may = m, !.reached = r]
<1>1. e = [h EXCEPT !.pending = none, !.waiting = none]
  BY DEF clearSemanticDeadStorePendingWrites
<1>2. PICK c, r0, i0, m0, p0, w0 :
        h = [continues |-> c, inits |-> i0, pending |-> p0, waiting |-> w0, may |-> m0, reached |-> r0]
  BY StateFields
<1>a. k = [e EXCEPT !.may = m, !.reached = r]
  OBVIOUS
<1> HIDE DEF e, k, none
<1>3. e = [continues |-> c, inits |-> i0, pending |-> none, waiting |-> none, may |-> m0, reached |-> r0]
  BY <1>1, <1>2
<1>4. k = [continues |-> c, inits |-> i0, pending |-> none, waiting |-> none, may |-> m, reached |-> r]
  BY <1>3, <1>a
<1>5. /\ e.pending = none /\ e.waiting = none /\ e.may = h.may
      /\ k.pending = none /\ k.waiting = none /\ k.may = m
  BY <1>2, <1>3, <1>4
<1> QED
  BY <1>5 DEF e, k, none

(* A condition is taken up: what is pending stays so, and the executions   *)
(* stand where they stood, marked or not.                                  *)
LEMMA DeadAsking ==
  ASSUME IInv, DInv, NEW kind \in Conditions, Asking(kind),
         here'.pending = here.pending, Within(here'.may, length),
         NEW mark, \A p : Written(p) => p[2] # mark,
         \A p : Holds(here'.may, p) => p[2] = mark \/ Holds(here.may, p)
  PROVE  DInv'
<1> DEFINE none == {}
           nothing == <<>>
           no == FALSE
           cleared == clearSemanticDeadStorePendingWrites(here)
           entry == [cleared EXCEPT !.may = nothing, !.reached = no]
           t == Grown(scopes, Scope(kind, none, none, entry))
<1>1. /\ verdict = "open" /\ length' = length /\ Place(Blocks) /\ scopes' = t
      /\ dead' = dead /\ reads' = reads /\ blurred' = blurred
  BY DEF Asking, Seam, Push, Same, Grown
<1>2. /\ Depth \in Nat \ {0, 1} /\ Depth = Len(scopes) /\ IsSeq(scopes) /\ IsState(here)
      /\ ValuesOK /\ Well(scopes) /\ ShapeOK /\ DeadOK /\ PendingOK
  BY <1>1, BlockFacts DEF IInv, ScopesOK, DInv, Sound
<1>3. entry.pending = {} /\ DOMAIN entry.may = {}
  <2>1. DOMAIN nothing = {}
    BY EmptyMap
  <2> HIDE DEF nothing, no
  <2>2. entry.pending = {} /\ entry.may = nothing
    BY <1>2, ClearedPending
  <2> QED
    BY <2>1, <2>2
<1>4. kind # "caught" /\ none = {}
  BY DEF Conditions
<1> HIDE DEF none, entry
<1>5. /\ Well(t) /\ Len(t) = Depth + 1
      /\ \A k \in Nat \ {0} : \A m \in Kept(t, k) :
           m \in Kept(scopes, k) \/ DOMAIN m = {}
      /\ \A i \in 1..Depth : t[i] = scopes[i]
      /\ t[Depth + 1].kind = kind
  <2>1. /\ Well(t) /\ Len(t) = Len(scopes) + 1
        /\ \A k \in Nat \ {0} : \A m \in Kept(t, k) :
             m \in Kept(scopes, k) \/ m = entry.may \/ DOMAIN m = {}
    BY <1>2, <1>3, <1>4, KeptGrown
  <2> DEFINE c == Scope(kind, none, none, entry)
  <2>2. c.kind = kind
    BY DEF Scope
  <2> HIDE DEF c
  <2>3. /\ \A i \in 1..Len(scopes) : Grown(scopes, c)[i] = scopes[i]
        /\ Grown(scopes, c)[Len(scopes) + 1] = c
    BY <1>2, PushSeq
  <2>4. t = Grown(scopes, c)
    BY DEF c
  <2> HIDE DEF t
  <2> QED
    BY <2>1, <2>2, <2>3, <2>4, <1>2, <1>3
<1> HIDE DEF t
<1>6. /\ \A m \in Kept(scopes', 1) : m \in Kept(scopes, 1) \/ DOMAIN m = {}
      /\ \A m \in Kept(scopes', 3) : m \in Kept(scopes, 3) \/ DOMAIN m = {}
  <2>1. 1 \in Nat \ {0} /\ 3 \in Nat \ {0}
    OBVIOUS
  <2> QED
    BY <2>1, <1>1, <1>5
<1>7. ValuesOK'
  <2>1. \A m \in {here'.may} \cup Kept(scopes', 1) :
          Within(m, length') \/ m \in {here.may} \cup Kept(scopes, 1)
    BY <1>1, <1>6, WithinSame
  <2>2. \A p \in here'.pending \cup dead' \cup reads' :
          p \in here.pending \cup dead \cup reads \/ p[2] \in Values(length')
    BY <1>1
  <2> QED
    BY <2>1, <2>2, <1>1, <1>2, ValuesStep
<1>8. ShapeOK'
  <2>1. Depth' = Depth + 1
    BY <1>1, <1>5 DEF Depth
  <2>2. \A p \in here.pending : p[1][1] \in 1..Depth /\ scopes[p[1][1]].kind # "caught"
    BY <1>2 DEF ShapeOK
  <2>3. \A p \in here'.pending : p[1][1] \in 1..(Depth + 1) /\ scopes'[p[1][1]].kind # "caught"
    BY <2>2, <1>1, <1>2, <1>5
  <2> QED
    BY <2>1, <2>3, <1>1, <1>2 DEF ShapeOK
<1>9. DeadOK'
  <2>1. \A m \in {here'.may} \cup Kept(scopes', 3) : Comes(m, mark)
    <3>1. Comes(here'.may, mark)
      BY DEF Comes
    <3> QED
      BY <3>1, <1>6, ComesSame
  <2>2. \A p \in dead : p[2] # mark
    BY <1>2 DEF ShapeOK
  <2>3. \A r \in reads' : Written(r) => r \in reads \/ Holds(here.may, r) \/ r[2] = mark
    BY <1>1
  <2>4. \A p \in dead' : p[1] \notin blurred' => p[1] \notin blurred
    BY <1>1
  <2>5. \A p \in dead' : p \notin dead /\ p[1] \notin blurred' =>
          p \notin reads' /\ \A m \in {here'.may} \cup Kept(scopes', 3) : ~ Holds(m, p)
    BY <1>1
  <2> QED
    BY <2>1, <2>2, <2>3, <2>4, <2>5, <1>1, <1>2, DeadStep
<1>10. PendingOK'
  <2> SUFFICES ASSUME NEW p \in here.pending, p[1] \notin blurred
               PROVE  /\ p \notin reads /\ \A m \in Kept(scopes', 3) : ~ Holds(m, p)
                      /\ Shadowed(p, scopes') => ~ Holds(here'.may, p)
    BY <1>1 DEF PendingOK
  <2>1. /\ p \notin reads /\ \A m \in Kept(scopes, 3) : ~ Holds(m, p)
        /\ Shadowed(p, scopes) => ~ Holds(here.may, p)
        /\ p[2] # mark
    BY <1>2 DEF PendingOK, ShapeOK
  <2>2. Shadowed(p, scopes') => Shadowed(p, scopes)
    <3>1. \A d \in 1..(Depth + 1) : d \in 1..Depth \/ d = Depth + 1
      BY <1>2
    <3> QED
      BY <3>1, <1>1, <1>2, <1>4, <1>5 DEF Shadowed
  <2>3. \A m : DOMAIN m = {} => ~ Holds(m, p)
    BY DEF Holds
  <2> QED
    BY <2>1, <2>2, <2>3, <1>6
<1> QED
  BY <1>1, <1>5, <1>7, <1>8, <1>9, <1>10 DEF DInv

LEMMA DeadOpenIf ==
  ASSUME IInv, DInv, OpenIf
  PROVE  DInv'
<1>1. Asking("if?") /\ here' = here /\ "if?" \in Conditions
  BY DEF OpenIf, Conditions
<1>2. Within(here.may, length)
  BY DEF DInv, ValuesOK
<1>3. \A p : Written(p) => p[2] # Unset
  BY ValuesApart
<1> QED
  BY <1>1, <1>2, <1>3, DeadAsking

LEMMA LoopFields ==
  ASSUME NEW h, IsState(h), NEW m
  PROVE  LET k == [h EXCEPT !.may = m] IN
         k.may = m /\ k.pending = h.pending /\ k.waiting = h.waiting
BY DEF IsState

LEMMA DeadOpenLoop ==
  ASSUME IInv, DInv, OpenLoop
  PROVE  DInv'
<1> DEFINE mark == Carried(Depth + 1)
           again == [b \in DOMAIN here.may |-> here.may[b] \cup {mark}]
<1>1. /\ Asking("loop?") /\ Place(Blocks) /\ "loop?" \in Conditions
      /\ here' = [here EXCEPT !.may = again]
  BY DEF OpenLoop, Asking, Conditions
<1>2. IsState(here) /\ ValuesOK /\ Depth \in Nat
  BY <1>1, BlockFacts DEF Sound, DInv
<1>3. mark \in Values(length) /\ \A p : Written(p) => p[2] # mark
  <2>1. Depth + 1 \in Nat
    BY <1>2
  <2> QED
    BY <2>1, ValuesApart DEF Values
<1> HIDE DEF mark
<1>4. /\ \A p : Holds(again, p) => p[2] = mark \/ Holds(here.may, p)
      /\ Within(again, length)
  <2>1. Within(here.may, length)
    BY <1>2 DEF ValuesOK
  <2> QED
    BY <2>1, <1>3 DEF Holds, Within
<1> HIDE DEF again
<1>5. here'.may = again /\ here'.pending = here.pending
  BY <1>1, <1>2, LoopFields
<1> QED
  BY <1>1, <1>3, <1>4, <1>5, DeadAsking

(* A scope that is not one of the two outermost.                           *)
LEMMA DeepTop ==
  ASSUME IInv, Top.kind \in Conditional \cup {"loop", "catch"}
  PROVE  /\ Depth \in Nat /\ Depth >= 3 /\ Depth = Len(scopes) /\ Top = scopes[Len(scopes)]
         /\ IsSeq(scopes) /\ IsScope(Top) /\ IsState(Top.entry)
         /\ Top.kind \in {"between", "after"} => here = Top.entry /\ Top.declared = {}
<1>1. /\ Depth = Len(scopes) /\ Depth \in Nat \ {0} /\ Top = scopes[Len(scopes)]
      /\ ScopeOK(scopes, Depth, loose) /\ IsSeq(scopes)
      /\ Top.kind \in {"between", "after"} => here = Top.entry
  BY DEF IInv, ScopesOK, HereOK, IsSeq, Depth, Top
<1>2. Depth # 1 /\ Depth # 2
  BY <1>1 DEF ScopeOK, Kinds, Conditional
<1>3. Depth > 1 /\ Depth >= 3
  BY <1>1, <1>2
<1> QED
  BY <1>1, <1>3 DEF ScopeOK, Sound, Bare

(* The innermost scope keeps what it was entered with.                     *)
LEMMA TopKept ==
  ASSUME Depth = Len(scopes), Depth \in Nat, Depth >= 3, Top = scopes[Len(scopes)]
  PROVE  /\ Top.may \in Kept(scopes, 3) /\ Top.entry.may \in Kept(scopes, 3)
         /\ Top.may \in Kept(scopes, 1) /\ Top.entry.may \in Kept(scopes, 1)
         /\ Top.entry \in Entries(scopes)
<1>1. Depth \in 3..Len(scopes) /\ Depth \in 1..Len(scopes)
  OBVIOUS
<1> QED
  BY <1>1 DEF Kept, Entries

(* The scope at hand changes; nothing is pending behind the step.          *)
LEMMA Retopping ==
  ASSUME IInv, DInv, verdict = "open", length' = length \/ length' = length + 1,
         Top.kind \in {"if?", "loop?", "between"},
         NEW top, scopes' = Put(scopes, Len(scopes), top),
         top.entry.pending = {}, top.declared = {}, top.may = Top.may,
         top.entry.may = here.may \/ top.entry.may = Top.entry.may,
         here'.may = here.may, here'.pending = {},
         \A p \in dead' : p \in dead,
         \A p \in dead' : p[1] \notin blurred' => p[1] \notin blurred,
         reads' \subseteq reads
  PROVE  DInv'
<1>1. /\ Depth \in Nat /\ Depth >= 3 /\ Depth = Len(scopes) /\ Top = scopes[Len(scopes)]
      /\ IsSeq(scopes) /\ Len(scopes) \in Nat \ {0} /\ Well(scopes) /\ ShapeOK
  BY AskedFacts DEF ScopesOK, DInv
<1>2. /\ Well(scopes')
      /\ \A k \in {1, 3} : \A m \in Kept(scopes', k) : m \in {here.may} \cup Kept(scopes, k)
  <2> DEFINE t == Put(scopes, Len(scopes), top)
  <2>1. /\ Well(t)
        /\ \A k \in Nat \ {0} : \A m \in Kept(t, k) :
             m \in Kept(scopes, k) \/ m = top.may \/ m = top.entry.may
    BY <1>1, KeptPut
  <2>2. scopes' = t
    OBVIOUS
  <2> HIDE DEF t
  <2>3. \A k \in {1, 3} : Top.may \in Kept(scopes, k) /\ Top.entry.may \in Kept(scopes, k)
    BY <1>1, TopKept
  <2>4. 1 \in Nat \ {0} /\ 3 \in Nat \ {0}
    OBVIOUS
  <2> QED
    BY <2>1, <2>2, <2>3, <2>4
<1>3. \A m \in {here'.may} \cup Kept(scopes', 3) : Comes(m, Unset)
  BY <1>2, ComesSame
<1>4. \A p \in dead : p[2] # Unset
  BY <1>1, ValuesApart DEF ShapeOK
<1>5. /\ \A m \in {here'.may} \cup Kept(scopes', 1) :
           Within(m, length') \/ m \in {here.may} \cup Kept(scopes, 1)
      /\ \A r \in reads' : r \in reads \/ r[2] \in Values(length')
      /\ \A p \in dead' : p \in dead \cup here.pending
      /\ \A r \in reads' : Written(r) => r \in reads \/ Holds(here.may, r) \/ r[2] = Unset
      /\ \A p \in dead' : p \notin dead /\ p[1] \notin blurred' =>
           p \notin reads' /\ \A m \in {here'.may} \cup Kept(scopes', 3) : ~ Holds(m, p)
  BY <1>2
<1> QED
  BY <1>2, <1>3, <1>4, <1>5, ClearStep

LEMMA DeadNextCondition ==
  ASSUME IInv, DInv, NextCondition
  PROVE  DInv'
<1> DEFINE top == [Top EXCEPT !.kind = "if?"]
<1>1. /\ verdict = "open" /\ length' = length /\ Top.kind = "between" /\ here' = here
      /\ dead' = dead /\ reads' = reads /\ blurred' = blurred
      /\ scopes' = [scopes EXCEPT ![Depth].kind = "if?"]
  BY DEF NextCondition, Place, Seam, Same
<1>2. /\ Depth = Len(scopes) /\ Depth \in Nat /\ Depth >= 3 /\ Top = scopes[Len(scopes)]
      /\ IsScope(Top) /\ Top.declared = {} /\ here = Top.entry
  BY <1>1, AskedFacts
<1>3. scopes' = Put(scopes, Len(scopes), top)
  BY <1>1, <1>2 DEF Put
<1>4. top.declared = {} /\ top.entry = Top.entry /\ top.may = Top.may
  BY <1>2 DEF IsScope
<1> HIDE DEF top
<1>5. Top.entry.pending = {}
  BY <1>2 DEF DInv, Well
<1> QED
  BY <1>1, <1>2, <1>3, <1>4, <1>5, Retopping

LEMMA DeadBehind ==
  ASSUME IInv, DInv, NEW kind, NEW hoisted, NEW entry, Behind(kind, hoisted, entry),
         Top.kind \in {"if?", "loop?", "between"}, entry.pending = {},
         entry.may = here.may \/ entry.may = Top.entry.may
  PROVE  DInv'
<1> DEFINE top == Reopened(Top, kind, hoisted, entry)
           none == {}
<1>1. /\ verdict = "open" /\ length' = length + 1
      /\ here' = clearSemanticDeadStorePendingWrites(here)
      /\ Entering(Depth, none, none)
      /\ scopes' = [scopes EXCEPT ![Depth] = [@ EXCEPT !.kind = kind, !.hoisted = hoisted, !.entry = entry]]
  BY DEF Behind, Takes
<1>2. /\ Depth = Len(scopes) /\ Depth \in Nat /\ Top = scopes[Len(scopes)]
      /\ IsScope(Top) /\ Top.declared = {} /\ IsState(here)
  BY AskedFacts DEF Sound
<1>3. scopes' = Put(scopes, Len(scopes), top)
  BY <1>1, <1>2 DEF Put, Reopened
<1>4. top.declared = {} /\ top.entry = entry /\ top.may = Top.may
  BY <1>2, ReopenedFields DEF IsReopened
<1> HIDE DEF top
<1>5. here'.pending = {} /\ here'.may = here.may
  <2> DEFINE m == here.may
             r == here.reached
  <2> HIDE DEF m, r
  <2> QED
    BY <1>1, <1>2, ClearedPending
<1>6. /\ \A p \in dead' : p \in dead
      /\ \A p \in dead' : p[1] \notin blurred' => p[1] \notin blurred
      /\ reads' \subseteq reads
  <2>1. none \subseteq here.pending /\ (\A p : p \notin none) /\ ShapeOK
    BY DEF DInv
  <2> HIDE DEF none
  <2> QED
    BY <2>1, <1>1, <1>2, EnteringFacts
<1> QED
  BY <1>1, <1>3, <1>4, <1>5, <1>6, Retopping

(* What an else or an else if is entered with.                             *)
LEMMA BranchEntry ==
  ASSUME NEW h, IsState(h), NEW i, NEW p, NEW w
  PROVE  LET e == [h EXCEPT !.inits = i, !.pending = p, !.waiting = w] IN
         e.pending = p /\ e.waiting = w /\ e.may = h.may
<1> DEFINE e == [h EXCEPT !.inits = i, !.pending = p, !.waiting = w]
<1>1. PICK c, r, i0, m0, p0, w0 :
        h = [continues |-> c, inits |-> i0, pending |-> p0, waiting |-> w0, may |-> m0, reached |-> r]
  BY StateFields
<1>2. e = [h EXCEPT !.inits = i, !.pending = p, !.waiting = w]
  OBVIOUS
<1> HIDE DEF e
<1>3. e = [continues |-> c, inits |-> i, pending |-> p, waiting |-> w, may |-> m0, reached |-> r]
  BY <1>1, <1>2
<1>4. e.pending = p /\ e.waiting = w /\ e.may = h.may
  BY <1>1, <1>3
<1> QED
  BY <1>4 DEF e

LEMMA BlockEntry ==
  ASSUME IInv, Well(scopes), NEW hoisted,
         OpenBranch(hoisted) \/ OpenElse(hoisted) \/ OpenRound(hoisted)
  PROVE  \E kind, entry :
           /\ Behind(kind, hoisted, entry) /\ Top.kind \in {"if?", "loop?", "between"}
           /\ entry.pending = {}
           /\ entry.may = here.may \/ entry.may = Top.entry.may
           /\ entry.waiting \subseteq here.pending \cup here.waiting \cup Top.entry.waiting
<1>1. CASE OpenBranch(hoisted)
  <2> DEFINE none == {}
             i == Top.entry.inits
             w == here.pending \cup here.waiting
             entry == [here EXCEPT !.inits = i, !.pending = none, !.waiting = w]
  <2>1. Top.kind = "if?" /\ Behind("if", hoisted, entry)
    BY <1>1 DEF OpenBranch, Place
  <2>2. IsState(here)
    BY <2>1, AskedFacts DEF Sound
  <2> HIDE DEF i, none, w
  <2>3. entry.pending = none /\ entry.waiting = w /\ entry.may = here.may
    BY <2>2, BranchEntry
  <2> HIDE DEF entry
  <2> QED
    BY <2>1, <2>3 DEF none, w
<1>2. CASE OpenElse(hoisted)
  <2>1. Top.kind = "between" /\ Behind("else", hoisted, Top.entry)
    BY <1>2 DEF OpenElse, Place
  <2>2. Depth = Len(scopes) /\ Depth \in Nat /\ Depth >= 3 /\ Top = scopes[Len(scopes)]
    BY <2>1, AskedFacts
  <2>3. Top.entry.pending = {}
    BY <2>2 DEF Well
  <2> QED
    BY <2>1, <2>3
<1>3. CASE OpenRound(hoisted)
  <2> DEFINE entry == clearSemanticDeadStorePendingWrites(here)
             m == here.may
             r == here.reached
  <2>1. Top.kind = "loop?" /\ Behind("loop", hoisted, entry)
    BY <1>3 DEF OpenRound, Place
  <2>2. IsState(here)
    BY <2>1, AskedFacts DEF Sound
  <2>3. entry.pending = {} /\ entry.waiting = {} /\ entry.may = here.may
    <3> HIDE DEF m, r
    <3> QED
      BY <2>2, ClearedPending
  <2> HIDE DEF entry
  <2> QED
    BY <2>1, <2>3
<1> QED
  BY <1>1, <1>2, <1>3

LEMMA DeadOpenBlock ==
  ASSUME IInv, DInv, NEW hoisted,
         OpenBranch(hoisted) \/ OpenElse(hoisted) \/ OpenRound(hoisted)
  PROVE  DInv'
<1>1. Well(scopes)
  BY DEF DInv
<1> QED
  BY <1>1, BlockEntry, DeadBehind

LEMMA SecuredFields ==
  ASSUME NEW h, IsState(h), NEW p, NEW w, NEW i1, NEW m1, NEW i2, NEW m2
  PROVE  LET e == Changing(h, p, w, i1, m1)
             k == [e EXCEPT !.inits = i2, !.may = m2]
         IN /\ e.pending = p /\ e.waiting = w /\ e.may = m1
            /\ k.pending = p /\ k.waiting = w /\ k.may = m2
<1> DEFINE e == Changing(h, p, w, i1, m1)
           k == [e EXCEPT !.inits = i2, !.may = m2]
<1>1. PICK c, r, i0, m0, p0, w0 :
        h = [continues |-> c, inits |-> i0, pending |-> p0, waiting |-> w0, may |-> m0, reached |-> r]
  BY StateFields
<1>2. e = [h EXCEPT !.pending = p, !.waiting = w, !.inits = i1, !.may = m1]
  BY DEF Changing
<1>a. k = [e EXCEPT !.inits = i2, !.may = m2]
  OBVIOUS
<1> HIDE DEF e, k
<1>3. e = [continues |-> c, inits |-> i1, pending |-> p, waiting |-> w, may |-> m1, reached |-> r]
  BY <1>1, <1>2
<1>4. k = [continues |-> c, inits |-> i2, pending |-> p, waiting |-> w, may |-> m2, reached |-> r]
  BY <1>3, <1>a
<1>5. /\ e.pending = p /\ e.waiting = w /\ e.may = m1
      /\ k.pending = p /\ k.waiting = w /\ k.may = m2
  BY <1>3, <1>4
<1> QED
  BY <1>5 DEF e, k

(* The scopes under a catch block, its error named or not.                 *)
IsSecured(s, t, bound) ==
  /\ Well(t)
  /\ \A k \in Nat \ {0} : \A m \in Kept(t, k) :
       m \in Kept(s, k) \/ m = bound.may \/ DOMAIN m = {}
  /\ Entries(t) \subseteq Entries(s) \cup {bound}

LEMMA KeptSecured ==
  ASSUME NEW s, IsSeq(s), Well(s), NEW caught, NEW hoisted, NEW bound, bound.pending = {}
  PROVE  LET error == Scope("caught", caught, caught, bound)
             block == Scope("catch", hoisted, {}, bound)
         IN /\ IsSecured(s, s \o <<block>>, bound)
            /\ IsSecured(s, Append(s, error) \o <<block>>, bound)
<1> DEFINE none == {}
           error == Scope("caught", caught, caught, bound)
           block == Scope("catch", hoisted, none, bound)
           u == Grown(s, error)
<1>1. ASSUME NEW x, IsSeq(x), Well(x)
      PROVE  IsSecured(x, x \o <<block>>, bound)
  <2>1. x \o <<block>> = Grown(x, block)
    BY <1>1, OneMore
  <2>2. "catch" = "caught" \/ none = {}
    OBVIOUS
  <2> HIDE DEF none
  <2>3. /\ Well(Grown(x, block))
        /\ \A k \in Nat \ {0} : \A m \in Kept(Grown(x, block), k) :
             m \in Kept(x, k) \/ m = bound.may \/ DOMAIN m = {}
        /\ Entries(Grown(x, block)) = Entries(x) \cup {bound}
    BY <2>2, <1>1, KeptGrown
  <2> HIDE DEF block
  <2> QED
    BY <2>1, <2>3 DEF IsSecured
<1>2. /\ Well(u) /\ IsSeq(u)
      /\ \A k \in Nat \ {0} : \A m \in Kept(u, k) :
           m \in Kept(s, k) \/ m = bound.may \/ DOMAIN m = {}
      /\ Entries(u) = Entries(s) \cup {bound}
  BY KeptGrown
<1> HIDE DEF u, block
<1>3. IsSecured(s, s \o <<block>>, bound) /\ IsSecured(u, u \o <<block>>, bound)
  BY <1>1, <1>2
<1>4. IsSecured(s, u \o <<block>>, bound)
  BY <1>2, <1>3 DEF IsSecured
<1> QED
  BY <1>3, <1>4 DEF u, block, Grown

LEMMA DeadOpenSecure ==
  ASSUME IInv, DInv, WaitOK, MaxEvents \in Nat, NEW v, NEW c, NEW hoisted, OpenSecure(v, c, hoisted)
  PROVE  DInv'
<1> DEFINE b == <<Depth, v>>
           none == {}
           i1 == IF here.continues THEN here.inits \cup {b} ELSE here.inits
           m1 == IF here.reached
                 THEN [x \in DOMAIN here.may \cup {b} |-> IF x = b THEN {NewStore} ELSE here.may[x]]
                 ELSE here.may
           bound == Changing(here, none, none, i1, m1)
           caught == IF c = Nobody THEN {} ELSE {c}
           C == {Depth + 1} \X caught
           failed == [x \in DOMAIN bound.may \cup C |->
                        IF x = b THEN {Unset} ELSE IF x \in DOMAIN bound.may THEN bound.may[x] ELSE {Given}]
           i2 == IF here.continues THEN bound.inits \cup C ELSE bound.inits
           m2 == IF here.reached THEN failed ELSE bound.may
           s1 == Declaring(scopes, v)
           stored == {p \in here.pending : p[1] = b}
           error == Scope("caught", caught, caught, bound)
           block == Scope("catch", hoisted, {}, bound)
<1>1. /\ Takes /\ Place(Blocks) /\ v \in Top.hoisted
      /\ here' = [bound EXCEPT !.inits = i2, !.may = m2]
      /\ Entering(Depth + 1, stored, {b})
      /\ scopes' = (IF c = Nobody THEN [scopes EXCEPT ![Depth].declared = @ \cup {v}]
                    ELSE Append([scopes EXCEPT ![Depth].declared = @ \cup {v}], error))
                   \o <<block>>
  BY Zenon DEF OpenSecure, Changing
<1>2. /\ verdict = "open" /\ length' = length + 1 /\ Fresh(NewStore)
      /\ Depth \in Nat \ {0, 1} /\ Depth = Len(scopes) /\ IsSeq(scopes)
      /\ IsState(here) /\ IsScope(Top) /\ Top = scopes[Depth] /\ Top.kind # "caught"
      /\ DOMAIN here.may = (IF here.reached THEN DeclaredIn(scopes, Depth) ELSE {})
      /\ ValuesOK /\ Well(scopes) /\ ShapeOK /\ DeadOK /\ PendingOK
  BY <1>1, BlockFacts, InBlock
<1>3. bound.pending = {} /\ bound.may = m1 /\ here'.pending = {} /\ here'.may = m2
  <2> HIDE DEF i1, m1, i2, m2, none
  <2>1. bound.pending = none /\ bound.may = m1 /\ here'.pending = none /\ here'.may = m2
    BY <1>1, <1>2, SecuredFields
  <2> QED
    BY <2>1 DEF none
<1>4. scopes' = s1 \o <<block>> \/ scopes' = Append(s1, error) \o <<block>>
  <2>1. [scopes EXCEPT ![Depth].declared = @ \cup {v}] = s1
    BY <1>2 DEF Declaring, Put
  <2> HIDE DEF s1, error, block
  <2> QED
    BY <2>1, <1>1
<1>5. stored \subseteq here.pending /\ (\A p \in stored : p[1] = b) /\ b[1] = Depth
  OBVIOUS
<1>6. \A x \in C : x[1] = Depth + 1
  OBVIOUS
<1>7. ASSUME NEW p, Holds(m1, p)
      PROVE  p[2] = NewStore \/ (Holds(here.may, p) /\ p[1] # b)
  <2>1. CASE p[1] = b /\ here.reached
    BY <2>1, <1>7 DEF Holds
  <2>2. CASE p[1] = b /\ ~ here.reached
    BY <2>2, <1>2, <1>7 DEF Holds
  <2>3. CASE p[1] # b
    BY <2>3, <1>7 DEF Holds
  <2> QED
    BY <2>1, <2>2, <2>3
<1>8. ASSUME NEW n, Within(here.may, n), NewStore \in Values(n) PROVE Within(m1, n)
  BY <1>8 DEF Within
<1> HIDE DEF m1, bound
<1>9. ASSUME NEW p, Holds(m2, p)
      PROVE  p[2] = Unset \/ Holds(m1, p) \/ p[1][1] = Depth + 1
  BY <1>3, <1>6, <1>9 DEF Holds
<1>10. ASSUME NEW n, Within(m1, n) PROVE Within(m2, n)
  <2>1. Unset \in Values(n) /\ Given \in Values(n)
    BY DEF Values
  <2> QED
    BY <2>1, <1>3, <1>10 DEF Within
<1> HIDE DEF m2, s1, C, caught, b, stored
<1>11. /\ Well(s1) /\ IsSeq(s1) /\ Kept(s1, 1) = Kept(scopes, 1) /\ Kept(s1, 3) = Kept(scopes, 3)
  <2>1. IsScope(scopes[Len(scopes)]) /\ v \in scopes[Len(scopes)].hoisted /\ Len(scopes) \in Nat \ {0}
    BY <1>1, <1>2
  <2>2. Well(s1) /\ IsSeq(s1) /\ \A j \in Nat \ {0} : Kept(s1, j) = Kept(scopes, j)
    BY <2>1, <1>2, KeptDeclaring DEF s1
  <2>3. 1 \in Nat \ {0} /\ 3 \in Nat \ {0}
    OBVIOUS
  <2> QED
    BY <2>2, <2>3
<1>12. /\ Well(scopes')
       /\ \A k \in {1, 3} : \A m \in Kept(scopes', k) :
            m \in Kept(scopes, k) \/ m = m1 \/ DOMAIN m = {}
  <2>1. IsSecured(s1, s1 \o <<block>>, bound) /\ IsSecured(s1, Append(s1, error) \o <<block>>, bound)
    BY <1>3, <1>11, KeptSecured
  <2> HIDE DEF error, block
  <2>2. IsSecured(s1, scopes', bound)
    BY <2>1, <1>4
  <2>3. 1 \in Nat \ {0} /\ 3 \in Nat \ {0}
    OBVIOUS
  <2> QED
    BY <2>2, <2>3, <1>3, <1>11 DEF IsSecured
<1> HIDE DEF error, block
<1>13. /\ \A p \in dead' : p \in dead \cup stored /\ p[1][1] < Depth + 1
       /\ \A p \in dead' : p[1] \notin blurred' => p[1] \notin blurred
       /\ reads' \subseteq reads
  <2>1. Depth + 1 \in Nat
    BY <1>2
  <2> QED
    BY <2>1, <1>1, <1>2, <1>5, EnteringFacts
<1>14. /\ \A p \in here.pending \cup dead \cup reads : p[2] # NewStore
       /\ \A m \in {here.may} \cup Kept(scopes, 3) : \A p : Holds(m, p) => p[2] # NewStore
       /\ NewStore \in Values(length')
  BY <1>2, KeptSubset DEF Fresh, Holds
<1>15. \A p : Written(p) => p[2] # Unset
  BY ValuesApart
<1>16. Comes(m1, NewStore) /\ Comes(m2, NewStore)
  <2>1. Comes(m1, NewStore)
    BY <1>7 DEF Comes
  <2>2. Comes(m2, NewStore)
    <3> SUFFICES ASSUME NEW p \in dead', Written(p), Holds(m2, p), p[2] # NewStore
                 PROVE  Holds(here.may, p)
      BY DEF Comes
    <3>1. p[2] # Unset /\ p[1][1] # Depth + 1
      BY <1>2, <1>13, <1>15
    <3> QED
      BY <3>1, <1>7, <1>9
  <2> QED
    BY <2>1, <2>2
<1>17. \A m \in {here'.may} \cup Kept(scopes', 3) : Comes(m, NewStore)
  BY <1>3, <1>12, <1>16, ComesSame
<1>18. \A m \in {here'.may} \cup Kept(scopes', 1) :
         Within(m, length') \/ m \in {here.may} \cup Kept(scopes, 1)
  <2>1. Within(here.may, length')
    BY <1>2, ValuesApart DEF ValuesOK, Within
  <2>2. Within(m1, length') /\ Within(m2, length')
    BY <2>1, <1>8, <1>10, <1>14
  <2> QED
    BY <2>2, <1>3, <1>12, WithinSame
<1>19. ASSUME NEW p \in dead', p \notin dead, p[1] \notin blurred'
       PROVE  p \notin reads' /\ \A m \in {here'.may} \cup Kept(scopes', 3) : ~ Holds(m, p)
  <2>1. p \in here.pending /\ p[1] = b /\ p[1] \notin blurred /\ p[1][1] = Depth
    BY <1>5, <1>13, <1>19
  <2>2. p \notin reads /\ \A m \in Kept(scopes, 3) : ~ Holds(m, p)
    BY <2>1, <1>2 DEF PendingOK
  <2>3. p[2] # NewStore /\ p[2] # Unset
    BY <2>1, <1>2, <1>14, <1>15 DEF ShapeOK
  <2>4. ~ Holds(m1, p)
    BY <2>1, <2>3, <1>7
  <2>5. ~ Holds(m2, p)
    BY <2>1, <2>3, <2>4, <1>2, <1>9
  <2>6. \A m : DOMAIN m = {} => ~ Holds(m, p)
    BY DEF Holds
  <2> QED
    BY <2>2, <2>4, <2>5, <2>6, <1>3, <1>12, <1>13
<1>20. /\ \A r \in reads' : r \in reads \/ r[2] \in Values(length')
       /\ \A p \in dead' : p \in dead \cup here.pending
       /\ \A p \in dead : p[2] # NewStore
       /\ \A r \in reads' : Written(r) => r \in reads \/ Holds(here.may, r) \/ r[2] = NewStore
  BY <1>5, <1>13, <1>14
<1> QED
  BY <1>2, <1>3, <1>12, <1>13, <1>17, <1>18, <1>19, <1>20, ClearStep

-----------------------------------------------------------------------------
(* Blocks close.                                                           *)
LEMMA JoinHolds ==
  /\ \A f, g, p : Holds(JoinMay(f, g), p) => Holds(f, p) \/ Holds(g, p)
  /\ \A f, d, p : Holds(Outer(f, d), p) => Holds(f, p) /\ p[1][1] <= d
<1>1. \A f, g, p : Holds(JoinMay(f, g), p) => Holds(f, p) \/ Holds(g, p)
  BY DEF Holds, JoinMay
<1>2. \A f, d, p : Holds(Outer(f, d), p) => Holds(f, p) /\ p[1][1] <= d
  BY DEF Holds, Outer, WithinScope
<1> QED
  BY <1>1, <1>2

(* Held by an execution that goes on below the scope m, or kept.           *)
Goes(p, m) ==
  (\E o \in Kept(scopes, 3) : Holds(o, p)) \/ Holds(Outer(here.may, m), p)

(* What leaves a block holds none of the writes that were pending in it.   *)
LEMMA CloseStep ==
  ASSUME IInv, DInv, verdict = "open", length' = length, NEW m \in Nat, m < Depth,
         here'.pending = {}, blurred' = blurred, Well(scopes'),
         \A p \in dead' : p \in dead \/ (p \in here.pending /\ p[1][1] = Depth),
         \A x \in {here'.may} \cup Kept(scopes', 3) : \A p : Holds(x, p) => Goes(p, m),
         \A x \in {here'.may} \cup Kept(scopes', 1) : Within(x, length),
         \A r \in reads' : r \in reads \/ Holds(Outer(here.may, m), r)
  PROVE  DInv'
<1>1. ValuesOK /\ ShapeOK /\ PendingOK /\ Depth \in Nat
  BY DEF DInv, IInv, ScopesOK, IsSeq, Depth
<1>2. Within(here.may, length)
  BY <1>1 DEF ValuesOK
<1>3. \A p \in dead : p[2] # Unset
  BY <1>1, ValuesApart DEF ShapeOK
<1>4. \A p : Goes(p, m) => \E o \in {here.may} \cup Kept(scopes, 3) : Holds(o, p)
  BY JoinHolds DEF Goes
<1>5. \A x \in {here'.may} \cup Kept(scopes', 3) : Comes(x, Unset)
  BY <1>4 DEF Comes
<1>6. \A r \in reads' : r \in reads \/ (Holds(here.may, r) /\ r[1][1] <= m)
  BY JoinHolds
<1>7. \A r \in reads' : r \in reads \/ r[2] \in Values(length')
  BY <1>2, <1>6 DEF Within, Holds
<1>8. ASSUME NEW p \in dead', p \notin dead, p[1] \notin blurred'
      PROVE  p \notin reads' /\ \A x \in {here'.may} \cup Kept(scopes', 3) : ~ Holds(x, p)
  <2>1. p \in here.pending /\ p[1] \notin blurred /\ ~ (p[1][1] <= m)
    BY <1>1, <1>8
  <2>2. p \notin reads /\ \A o \in Kept(scopes, 3) : ~ Holds(o, p)
    BY <2>1, <1>1 DEF PendingOK
  <2>3. ~ Holds(Outer(here.may, m), p)
    BY <2>1, JoinHolds
  <2> QED
    BY <2>1, <2>2, <2>3, <1>6 DEF Goes
<1>9. /\ \A p \in dead' : p \in dead \cup here.pending
      /\ \A p \in dead' : p[1] \notin blurred' => p[1] \notin blurred
      /\ \A r \in reads' : Written(r) => r \in reads \/ Holds(here.may, r) \/ r[2] = Unset
      /\ \A x \in {here'.may} \cup Kept(scopes', 1) :
           Within(x, length') \/ x \in {here.may} \cup Kept(scopes, 1)
  BY <1>6
<1> QED
  BY <1>3, <1>5, <1>7, <1>8, <1>9, ClearStep

LEMMA ClosingFacts ==
  ASSUME IInv, DInv, Top.kind \in Conditional \cup {"loop", "catch"}, NEW m \in 1..(Depth - 1)
  PROVE  /\ Well(scopes) /\ Top.entry.pending = {} /\ IsState(Top.entry)
         /\ Within(Top.may, length) /\ Within(Top.entry.may, length)
         /\ Within(here.may, length) /\ Within(Outer(here.may, m), length)
         /\ \A x \in Kept(scopes, 1) : Within(x, length)
         /\ \A p : Holds(Top.may, p) \/ Holds(Top.entry.may, p) => Goes(p, m)
         /\ m \in Nat /\ m < Depth /\ Leaving(m).may = Outer(here.may, m)
         /\ Well(Cut(scopes, m))
         /\ \A k \in {1, 3} : Kept(Cut(scopes, m), k) \subseteq Kept(scopes, k)
<1>1. /\ Depth \in Nat /\ Depth >= 3 /\ Depth = Len(scopes) /\ Top = scopes[Len(scopes)]
      /\ IsSeq(scopes) /\ IsState(Top.entry)
  BY DeepTop
<1>2. ValuesOK /\ Well(scopes)
  BY DEF DInv
<1>3. Top.may \in Kept(scopes, 3) /\ Top.entry.may \in Kept(scopes, 3)
  BY <1>1, TopKept
<1>4. \A x \in {here.may} \cup Kept(scopes, 1) : Within(x, length)
  BY <1>2 DEF ValuesOK
<1>5. Within(Top.may, length) /\ Within(Top.entry.may, length)
  BY <1>3, <1>4, KeptSubset
<1>6. Within(here.may, length) /\ Within(Outer(here.may, m), length)
  BY <1>4, WithinSame
<1>7. Top.entry.pending = {}
  BY <1>1, <1>2 DEF Well
<1>8. m \in Nat /\ m < Depth /\ m \in 1..Depth /\ m \in 0..Len(scopes)
  BY <1>1
<1>9. Leaving(m).may = Outer(here.may, m)
  BY <1>8, LeavingSound DEF IsChanged
<1>10. /\ Well(Cut(scopes, m))
       /\ \A k \in {1, 3} : Kept(Cut(scopes, m), k) \subseteq Kept(scopes, k)
  <2>1. /\ Well(Cut(scopes, m))
        /\ \A k \in Nat \ {0} : Kept(Cut(scopes, m), k) \subseteq Kept(scopes, k)
    BY <1>1, <1>2, <1>8, KeptCut
  <2>2. 1 \in Nat \ {0} /\ 3 \in Nat \ {0}
    OBVIOUS
  <2> QED
    BY <2>1, <2>2
<1> QED
  BY <1>1, <1>2, <1>3, <1>4, <1>5, <1>6, <1>7, <1>8, <1>9, <1>10 DEF Goes

LEMMA DeadEndBranch ==
  ASSUME IInv, DInv, EndBranch
  PROVE  DInv'
<1> DEFINE n == Depth - 1
           left == Leaving(n)
           kind == IF Top.kind = "else" THEN "after" ELSE "between"
           outs == IF left.continues THEN Top.outs \cup {left.inits} ELSE Top.outs
           may == JoinMay(Top.may, left.may)
           reached == Top.reached \/ left.reached
           top == Closed(Top, kind, outs, may, reached)
<1>1. /\ Top.kind \in {"if", "else"} /\ here' = Top.entry
      /\ scopes' = [scopes EXCEPT ![Depth] = top] /\ verdict = "open" /\ length' = length
      /\ dead' = dead \cup LeftUnread(Depth) /\ reads' = reads /\ blurred' = blurred
  BY DEF EndBranch, Place, Same, Closed, Seam, CloseTop
<1>2. Top.kind \in Conditional
  BY <1>1 DEF Conditional
<1>3. /\ Depth = Len(scopes) /\ Depth \in Nat /\ n \in 1..(Depth - 1) /\ n \in 1..Depth
      /\ Top = scopes[Len(scopes)] /\ IsScope(Top) /\ IsSeq(scopes) /\ Len(scopes) \in Nat \ {0}
  BY <1>2, ConditionalFacts DEF IInv, ScopesOK
<1>4. /\ Well(scopes) /\ Top.entry.pending = {}
      /\ Within(Top.may, length) /\ Within(Top.entry.may, length) /\ Within(Outer(here.may, n), length)
      /\ \A x \in Kept(scopes, 1) : Within(x, length)
      /\ \A p : Holds(Top.may, p) \/ Holds(Top.entry.may, p) => Goes(p, n)
      /\ n \in Nat /\ n < Depth /\ left.may = Outer(here.may, n)
  <2> HIDE DEF n, left
  <2> QED
    BY <1>2, <1>3, ClosingFacts DEF left
<1>5. reached \in BOOLEAN
  <2>1. left.reached \in BOOLEAN
    BY <1>3, LeavingSound DEF IsChanged, Sound, IsState
  <2> QED
    BY <2>1, <1>3 DEF IsScope
<1>6. scopes' = Put(scopes, Len(scopes), top)
  BY <1>1, <1>3 DEF Put
<1> HIDE DEF n, left, kind, outs, reached
<1>7. /\ Within(may, length) /\ \A p : Holds(may, p) => Goes(p, n)
  <2>1. Within(may, length)
    BY <1>4, WithinSame
  <2>2. \A p : Holds(may, p) => Goes(p, n)
    BY <1>4, JoinHolds DEF Goes
  <2> QED
    BY <2>1, <2>2
<1> HIDE DEF may
<1>8. top.declared = {} /\ top.entry = scopes[Len(scopes)].entry /\ top.may = may
  BY <1>3, <1>5, ClosedFields DEF IsClosed
<1> HIDE DEF top
<1>9. /\ Well(scopes')
      /\ \A k \in {1, 3} : \A x \in Kept(scopes', k) : x \in Kept(scopes, k) \/ x = may
  <2> DEFINE t == Put(scopes, Len(scopes), top)
  <2>1. /\ Well(t)
        /\ \A k \in Nat \ {0} : \A x \in Kept(t, k) :
             x \in Kept(scopes, k) \/ x = top.may \/ x = top.entry.may
    BY <1>3, <1>4, <1>8, KeptPut
  <2> HIDE DEF t
  <2>2. 1 \in Nat \ {0} /\ 3 \in Nat \ {0} /\ scopes' = t
    BY <1>6 DEF t
  <2>3. \A k \in {1, 3} : Top.entry.may \in Kept(scopes, k)
    BY <1>2, DeepTop, TopKept
  <2> QED
    BY <2>1, <2>2, <2>3, <1>3, <1>8
<1>10. \A x \in {here'.may} \cup Kept(scopes', 3) : \A p : Holds(x, p) => Goes(p, n)
  BY <1>1, <1>4, <1>7, <1>9 DEF Goes
<1>11. \A x \in {here'.may} \cup Kept(scopes', 1) : Within(x, length)
  BY <1>1, <1>4, <1>7, <1>9
<1>12. \A p \in dead' : p \in dead \/ (p \in here.pending /\ p[1][1] = Depth)
  BY <1>1 DEF LeftUnread
<1> QED
  BY <1>1, <1>4, <1>9, <1>10, <1>11, <1>12, CloseStep

LEMMA DeadEndIf ==
  ASSUME IInv, DInv, EndIf
  PROVE  DInv'
<1> DEFINE n == Depth - 1
           entry == Top.entry
           skips == Top.kind = "between"
           outs == ContinuingStates(Top)
           goes == entry.continues /\ outs # {}
           inits == IF goes THEN mergeContinuingSemanticFlowStates(outs) ELSE entry.inits
           may == IF skips THEN JoinMay(Top.may, entry.may) ELSE Top.may
           reached == Top.reached \/ (skips /\ entry.reached)
           none == {}
<1>1. /\ Top.kind \in {"between", "after"} /\ verdict = "open" /\ length' = length
      /\ scopes' = Cut(scopes, n) /\ dead' = dead /\ reads' = reads /\ blurred' = blurred
      /\ here' = [continues |-> goes, inits |-> inits, pending |-> none, waiting |-> none,
                  may |-> may, reached |-> reached]
  BY DEF EndIf, Place, Same, Seam, Cut
<1>2. Top.kind \in Conditional
  BY <1>1 DEF Conditional
<1>3. n \in 1..(Depth - 1)
  BY <1>2, ConditionalFacts
<1>4. here'.pending = none /\ here'.may = may
  <2> HIDE DEF goes, inits, may, reached, none, n
  <2> QED
    BY <1>1
<1>5. /\ Within(Top.may, length) /\ Within(entry.may, length)
      /\ \A x \in Kept(scopes, 1) : Within(x, length)
      /\ \A p : Holds(Top.may, p) \/ Holds(entry.may, p) => Goes(p, n)
      /\ n \in Nat /\ n < Depth /\ Well(Cut(scopes, n))
      /\ Kept(Cut(scopes, n), 1) \subseteq Kept(scopes, 1)
      /\ Kept(Cut(scopes, n), 3) \subseteq Kept(scopes, 3)
  <2> HIDE DEF n
  <2> QED
    BY <1>2, <1>3, ClosingFacts
<1> HIDE DEF n, entry
<1>6. Within(may, length) /\ \A p : Holds(may, p) => Goes(p, n)
  BY <1>5, WithinSame, JoinHolds
<1>7. here'.pending = {}
  BY <1>4
<1> HIDE DEF may, none, outs, goes, inits, reached, skips
<1>8. \A x \in {here'.may} \cup Kept(scopes', 3) : \A p : Holds(x, p) => Goes(p, n)
  BY <1>1, <1>4, <1>5, <1>6 DEF Goes
<1>9. \A x \in {here'.may} \cup Kept(scopes', 1) : Within(x, length)
  BY <1>1, <1>4, <1>5, <1>6
<1>10. \A p \in dead' : p \in dead \/ (p \in here.pending /\ p[1][1] = Depth)
  BY <1>1
<1>11. \A r \in reads' : r \in reads \/ Holds(Outer(here.may, n), r)
  BY <1>1
<1> QED
  BY <1>1, <1>5, <1>7, <1>8, <1>9, <1>10, <1>11, CloseStep

(* Behind a loop or a secure statement.                                    *)
LEMMA DeadBack ==
  ASSUME IInv, DInv, Top.kind \in {"loop", "catch"}, NEW m \in 1..(Depth - 1), NEW may,
         verdict = "open", length' = length, blurred' = blurred,
         dead' = dead \cup LeftUnread(Depth),
         scopes' = Cut(scopes, m), here' = WithMay(Top.entry, may),
         DOMAIN may \subseteq DOMAIN Top.entry.may \cup DOMAIN Leaving(m).may,
         \A b \in DOMAIN may : may[b] \subseteq JoinMay(Top.entry.may, Leaving(m).may)[b],
         \A r \in reads' : r \in reads \/ Holds(Leaving(m).may, r)
  PROVE  DInv'
<1> DEFINE entry == Top.entry
           all == JoinMay(entry.may, Leaving(m).may)
<1>1. /\ entry.pending = {} /\ IsState(entry)
      /\ Within(entry.may, length) /\ Within(Outer(here.may, m), length)
      /\ \A x \in Kept(scopes, 1) : Within(x, length)
      /\ \A p : Holds(entry.may, p) => Goes(p, m)
      /\ m \in Nat /\ m < Depth /\ Leaving(m).may = Outer(here.may, m)
      /\ Well(Cut(scopes, m))
      /\ Kept(Cut(scopes, m), 1) \subseteq Kept(scopes, 1)
      /\ Kept(Cut(scopes, m), 3) \subseteq Kept(scopes, 3)
  BY ClosingFacts
<1>2. here'.pending = {} /\ here'.may = may
  <2>1. \A h : IsState(h) => WithMay(h, may).pending = h.pending /\ WithMay(h, may).may = may
    BY DEF IsState, WithMay
  <2> QED
    BY <2>1, <1>1
<1>3. Within(all, length) /\ \A p : Holds(all, p) => Goes(p, m)
  <2>1. Within(all, length)
    BY <1>1, WithinSame
  <2>2. \A p : Holds(all, p) => Holds(entry.may, p) \/ Holds(Outer(here.may, m), p)
    BY <1>1, JoinHolds
  <2> QED
    BY <2>1, <2>2, <1>1 DEF Goes
<1>4. DOMAIN may \subseteq DOMAIN all /\ \A b \in DOMAIN may : may[b] \subseteq all[b]
  <2>1. DOMAIN all = DOMAIN entry.may \cup DOMAIN Leaving(m).may
    <3>1. \A f, g : DOMAIN JoinMay(f, g) = DOMAIN f \cup DOMAIN g
      BY DEF JoinMay
    <3> QED
      BY <3>1
  <2>2. \A b \in DOMAIN may : may[b] \subseteq all[b]
    OBVIOUS
  <2>3. DOMAIN may \subseteq DOMAIN entry.may \cup DOMAIN Leaving(m).may
    OBVIOUS
  <2> HIDE DEF all
  <2> QED
    BY <2>1, <2>2, <2>3
<1> HIDE DEF all
<1>5. Within(may, length) /\ \A p : Holds(may, p) => Goes(p, m)
  BY <1>3, <1>4 DEF Within, Holds
<1> HIDE DEF entry
<1>6. \A x \in {here'.may} \cup Kept(scopes', 3) : \A p : Holds(x, p) => Goes(p, m)
  BY <1>1, <1>2, <1>5 DEF Goes
<1>7. \A x \in {here'.may} \cup Kept(scopes', 1) : Within(x, length)
  BY <1>1, <1>2, <1>5
<1>8. \A p \in dead' : p \in dead \/ (p \in here.pending /\ p[1][1] = Depth)
  BY DEF LeftUnread
<1>9. \A r \in reads' : r \in reads \/ Holds(Outer(here.may, m), r)
  BY <1>1
<1> QED
  BY <1>1, <1>2, <1>6, <1>7, <1>8, <1>9, CloseStep

LEMMA DeadEndLoop ==
  ASSUME IInv, DInv, EndLoop
  PROVE  DInv'
<1> DEFINE n == Depth - 1
           left == Leaving(n)
           entry == Top.entry
           mark == Carried(Depth)
           may == [b \in DOMAIN entry.may |->
                     IF mark \in entry.may[b]
                     THEN (JoinMay(entry.may, left.may)[b]) \ {mark} ELSE entry.may[b]]
           again == {x \in DOMAIN left.may : <<x, mark>> \in reads}
           more == UNION {{b} \X (left.may[b] \ {mark}) : b \in again}
<1>1. /\ Top.kind = "loop" /\ verdict = "open" /\ length' = length /\ blurred' = blurred
      /\ dead' = dead \cup LeftUnread(Depth)
      /\ scopes' = Cut(scopes, n) /\ here' = WithMay(entry, may)
  BY DEF EndLoop, Place, Same, WithMay, Seam, CloseTop, Cut
<1>2. n \in 1..(Depth - 1)
  BY <1>1, DeepTop
<1>3. \A r \in reads' : r \in reads \/ Holds(left.may, r)
  <2>1. \A r \in reads' : r \in reads \/ r \in more
    BY DEF EndLoop, Untold
  <2>2. ASSUME NEW r \in more PROVE Holds(left.may, r)
    <3>1. PICK b \in again : r \in {b} \X (left.may[b] \ {mark})
      BY <2>2
    <3>2. r[1] = b /\ r[2] \in left.may[b] /\ b \in DOMAIN left.may
      BY <3>1
    <3> QED
      BY <3>2 DEF Holds
  <2> QED
    BY <2>1, <2>2
<1>4. /\ DOMAIN may \subseteq DOMAIN entry.may \cup DOMAIN left.may
      /\ \A b \in DOMAIN may : may[b] \subseteq JoinMay(entry.may, left.may)[b]
  <2>1. \A b \in DOMAIN entry.may : entry.may[b] \subseteq JoinMay(entry.may, left.may)[b]
    BY JoinKeeps
  <2> HIDE DEF entry, left, mark
  <2> QED
    BY <2>1
<1> HIDE DEF may, n
<1> QED
  BY <1>1, <1>2, <1>3, <1>4, DeadBack

LEMMA DeadEndSecure ==
  ASSUME IInv, DInv, EndSecure
  PROVE  DInv'
<1> DEFINE m == IF scopes[Depth - 1].kind = "caught" THEN Depth - 2 ELSE Depth - 1
           left == Leaving(m)
           entry == Top.entry
           may == JoinMay(entry.may, left.may)
<1>1. /\ Top.kind = "catch" /\ verdict = "open" /\ length' = length /\ blurred' = blurred
      /\ dead' = dead \cup LeftUnread(Depth) /\ reads' = reads
      /\ scopes' = Cut(scopes, m) /\ here' = WithMay(entry, may)
  BY DEF EndSecure, Place, Same, WithMay, Seam, CloseTop, Cut
<1>2. m \in 1..(Depth - 1)
  BY <1>1, DeepTop
<1>3. /\ DOMAIN may \subseteq DOMAIN entry.may \cup DOMAIN left.may
      /\ \A b \in DOMAIN may : may[b] \subseteq JoinMay(entry.may, left.may)[b]
  BY JoinFacts
<1>4. \A r \in reads' : r \in reads \/ Holds(left.may, r)
  BY <1>1
<1> HIDE DEF may, m
<1> QED
  BY <1>1, <1>2, <1>3, <1>4, DeadBack
LEMMA DeadEnd ==
  ASSUME DInv, validateCallableSemanticFlow
  PROVE  DInv'
<1>1. /\ verdict' # "open" /\ verdict = "open"
      /\ dead' = dead \cup LeftUnread(Depth) \cup LeftUnread(1)
      /\ scopes' = scopes /\ here' = here /\ reads' = reads /\ blurred' = blurred /\ length' = length
  BY DEF validateCallableSemanticFlow, Same
<1>2. \A p \in dead' : p \in dead \cup here.pending
  BY <1>1 DEF LeftUnread
<1>3. ValuesOK' /\ Well(scopes')
  BY <1>1, <1>2 DEF DInv, ValuesOK
<1>4. ShapeOK' /\ PendingOK'
  BY <1>1, <1>2 DEF DInv, ShapeOK, PendingOK, Depth
<1>5. \A p \in dead' : p[1] \notin blurred' => p \notin reads'
  BY <1>1, <1>2 DEF DInv, DeadOK, PendingOK
<1>6. DeadOK'
  BY <1>1, <1>5 DEF DeadOK
<1> QED
  BY <1>3, <1>4, <1>6 DEF DInv

LEMMA DeadInit == Init => DInv
<1> SUFFICES ASSUME Init PROVE DInv
  OBVIOUS
<1> DEFINE params == {1} \X Params
           pending == {<<b, Given>> : b \in params}
           may == [b \in params |-> {Given}]
           none == {}
           start == [continues |-> TRUE, inits |-> params, reached |-> TRUE,
                     pending |-> pending, waiting |-> none, may |-> may]
<1>1. PICK hoisted \in SUBSET Names :
        /\ scopes = <<Scope("params", Params, Params, start), Scope("body", hoisted, {}, start)>>
        /\ here = start
  BY DEF Init
<1>2. length = 0 /\ dead = {} /\ reads = {}
  BY DEF Init
<1> DEFINE c1 == Scope("params", Params, Params, start)
           c2 == Scope("body", hoisted, none, start)
<1>3. scopes = <<c1, c2>>
  BY <1>1
<1>4. start.pending = pending /\ start.may = may
  <2> HIDE DEF pending, may, params
  <2> QED
    OBVIOUS
<1>5. /\ \A p \in pending : p[1] = <<1, p[1][2]>> /\ p[2] = Given
      /\ Within(may, 0)
  <2>1. Given \in Values(0)
    BY DEF Values
  <2> QED
    BY <2>1 DEF Within
<1> HIDE DEF start, pending, may, params
<1>6. /\ c1.kind = "params" /\ c1.hoisted = Params /\ c1.declared = Params /\ c1.entry = start
      /\ c2.kind = "body" /\ c2.declared = {} /\ c2.entry = start
      /\ DOMAIN c1.may = {} /\ DOMAIN c2.may = {}
  BY EmptyMap DEF Scope
<1> HIDE DEF c1, c2, none
<1>7. /\ Len(scopes) = 2 /\ scopes[1] = c1 /\ scopes[2] = c2 /\ \A i \in 1..2 : i = 1 \/ i = 2
  BY <1>3
<1>8. Kept(scopes, 3) = {}
  <2>1. 3..2 = {}
    OBVIOUS
  <2> QED
    BY <2>1, <1>7 DEF Kept
<1>9. \A m \in Kept(scopes, 1) : m = may \/ DOMAIN m = {}
  BY <1>4, <1>6, <1>7 DEF Kept
<1>10. ValuesOK
  <2>1. \A m \in {here.may} \cup Kept(scopes, 1) : Within(m, 0)
    BY <1>1, <1>4, <1>5, <1>9, WithinSame
  <2>2. \A p \in here.pending \cup dead \cup reads : p[2] \in Values(0)
    <3>1. Given \in Values(0)
      BY DEF Values
    <3> QED
      BY <3>1, <1>1, <1>2, <1>4, <1>5
  <2> QED
    BY <2>1, <2>2, <1>2 DEF ValuesOK
<1>11. Well(scopes)
  <2>1. \A i \in 1..2 : ~ (i >= 3)
    OBVIOUS
  <2> QED
    BY <2>1, <1>6, <1>7 DEF Well
<1>12. ShapeOK
  <2>1. \A p \in here.pending : p[1][1] = 1 /\ Written(p)
    BY <1>1, <1>4, <1>5 DEF Written
  <2> QED
    BY <2>1, <1>2, <1>6, <1>7 DEF ShapeOK, Depth
<1>13. DeadOK
  BY <1>2 DEF DeadOK
<1>14. PendingOK
  <2>1. \A p : ~ Shadowed(p, scopes)
    BY <1>6, <1>7 DEF Shadowed
  <2> QED
    BY <2>1, <1>2, <1>8 DEF PendingOK
<1> QED
  BY <1>10, <1>11, <1>12, <1>13, <1>14 DEF DInv

-----------------------------------------------------------------------------
(* The writes an earlier branch may have read.                             *)
LEMMA WaitStep ==
  ASSUME ValuesOK, ShapeOK, WaitOK, length' = length \/ length' = length + 1,
         \A p \in here'.waiting :
           p \in here.pending \cup here.waiting \/ \E e \in Entries(scopes) : p \in e.waiting,
         \A e \in Entries(scopes') :
           e \in Entries(scopes) \/ e.waiting \subseteq here.pending \cup Waits
  PROVE  WaitOK'
<1>1. Values(length) \subseteq Values(length')
  BY ValuesApart DEF ValuesOK
<1>2. \A p \in here.pending \cup Waits : p[2] \in Values(length) /\ Written(p)
  BY DEF ValuesOK, ShapeOK, WaitOK
<1>3. \A p \in here'.waiting : p \in here.pending \cup Waits
  BY DEF Waits
<1>4. \A e \in Entries(scopes') : \A p \in e.waiting : p \in here.pending \cup Waits
  BY DEF Waits
<1>5. \A p \in Waits' : p \in here.pending \cup Waits
  BY <1>3, <1>4 DEF Waits
<1> QED
  BY <1>1, <1>2, <1>5 DEF WaitOK

LEMMA WaitStatement ==
  ASSUME IInv, DInv, WaitOK, NEW v \in Names,
         Read(v) \/ Assign(v) \/ AssignInArm(v) \/ Capture(v)
  PROVE  WaitOK'
<1>1. Takes /\ Place(Evaluating) /\ scopes' = scopes
  BY DEF Read, Assign, AssignInArm, Capture, Same
<1>2. IsState(here) /\ length' = length + 1 /\ ValuesOK /\ ShapeOK
  BY <1>1, PlaceFacts DEF Sound, Takes, DInv
<1>3. here'.waiting \subseteq here.waiting
  <2>1. CASE Read(v)
    <3>1. here' = markSemanticDeadStoreRead(here, v)
      BY <2>1 DEF Read
    <3> QED
      BY <3>1, <1>2, ReadFields
  <2>2. CASE Assign(v)
    <3> DEFINE values == {NewStore}
    <3>1. here' = StoreAt(here, v, values)
      BY <2>2 DEF Assign
    <3> HIDE DEF values
    <3> QED
      BY <3>1, <1>2, StoreFields
  <2>3. CASE AssignInArm(v)
    <3> DEFINE values == MayOf(here, findNearestSemanticBinding(v), v) \cup {NewStore}
    <3>1. here' = StoreAt(here, v, values)
      BY <2>3 DEF AssignInArm
    <3> HIDE DEF values
    <3> QED
      BY <3>1, <1>2, StoreFields
  <2>4. CASE Capture(v)
    BY <2>4 DEF Capture, Same
  <2> QED
    BY <2>1, <2>2, <2>3, <2>4
<1> QED
  BY <1>1, <1>2, <1>3, WaitStep

LEMMA WaitDeclare ==
  ASSUME IInv, DInv, WaitOK, NEW v, NEW how \in {"initialized", "bare", "optional"},
         Declare(v, how)
  PROVE  WaitOK'
<1> DEFINE b == <<Depth, v>>
           value == CASE how = "initialized" -> NewStore
                      [] how = "optional" -> Absent
                      [] how = "bare" -> Unset
           initializes == how # "bare"
           values == {value}
           k == Bind(here, b, initializes, values)
           new == <<b, NewStore>>
           w == {p \in k.pending : p[1] # b} \cup {new}
<1>1. /\ Takes /\ Place(Blocks) /\ v \in Top.hoisted
      /\ scopes' = [scopes EXCEPT ![Depth].declared = @ \cup {v}]
  BY DEF Declare
<1>2. here' = IF how = "initialized" THEN [k EXCEPT !.pending = w] ELSE k
  BY DEF Declare, Bind
<1>3. /\ Depth \in Nat \ {0, 1} /\ Depth = Len(scopes) /\ IsSeq(scopes) /\ IsState(here)
      /\ IsScope(scopes[Len(scopes)]) /\ v \in scopes[Len(scopes)].hoisted
      /\ length' = length + 1 /\ ValuesOK /\ ShapeOK /\ Well(scopes)
  BY <1>1, BlockFacts DEF Sound, Takes, DInv, IInv, ScopesOK, ScopeOK, Top
<1> HIDE DEF b, initializes, values, w, k
<1>4. k.waiting = here.waiting /\ [k EXCEPT !.pending = w].waiting = here.waiting
  BY <1>3, BindPending DEF k
<1>5. here'.waiting = here.waiting
  BY <1>2, <1>4
<1>6. scopes' = Declaring(scopes, v)
  BY <1>1, <1>3 DEF Declaring, Put
<1>7. Entries(scopes') = Entries(scopes)
  BY <1>3, <1>6, KeptDeclaring
<1> QED
  BY <1>3, <1>5, <1>7, WaitStep

LEMMA WaitReturn ==
  ASSUME IInv, DInv, WaitOK, Return
  PROVE  WaitOK'
<1> DEFINE nothing == <<>>
<1>1. /\ Takes /\ Place(Blocks) /\ scopes' = scopes
      /\ here' = [here EXCEPT !.continues = FALSE, !.reached = FALSE, !.may = nothing]
  BY DEF Return, Same
<1>2. IsState(here) /\ length' = length + 1 /\ ValuesOK /\ ShapeOK
  BY <1>1, BlockFacts DEF Sound, Takes, DInv
<1> HIDE DEF nothing
<1>3. here'.waiting = here.waiting
  BY <1>1, <1>2, ReturnFields
<1> QED
  BY <1>1, <1>2, <1>3, WaitStep

LEMMA WaitAsking ==
  ASSUME IInv, DInv, WaitOK, OpenIf \/ OpenLoop
  PROVE  WaitOK'
<1> DEFINE none == {}
           nothing == <<>>
           no == FALSE
           cleared == clearSemanticDeadStorePendingWrites(here)
           entry == [cleared EXCEPT !.may = nothing, !.reached = no]
<1>1. PICK kind \in Conditions : Asking(kind)
  BY DEF OpenIf, OpenLoop, Conditions
<1>2. /\ length' = length /\ Place(Blocks)
      /\ scopes' = Grown(scopes, Scope(kind, none, none, entry))
  BY <1>1 DEF Asking, Seam, Push, Grown
<1>3. /\ IsSeq(scopes) /\ IsState(here) /\ ValuesOK /\ Well(scopes) /\ ShapeOK
  BY <1>2, BlockFacts DEF IInv, ScopesOK, DInv, Sound
<1>4. entry.pending = {} /\ entry.waiting = {}
  <2> HIDE DEF nothing, no
  <2> QED
    BY <1>3, ClearedPending
<1>5. none = {}
  OBVIOUS
<1> HIDE DEF none, entry
<1>6. Entries(scopes') = Entries(scopes) \cup {entry}
  BY <1>2, <1>3, <1>4, <1>5, KeptGrown
<1>7. here'.waiting = here.waiting
  <2>1. CASE OpenIf
    BY <2>1 DEF OpenIf
  <2>2. CASE OpenLoop
    <3> DEFINE again == [b \in DOMAIN here.may |-> here.may[b] \cup {Carried(Depth + 1)}]
    <3>1. here' = [here EXCEPT !.may = again]
      BY <2>2 DEF OpenLoop
    <3> HIDE DEF again
    <3> QED
      BY <3>1, <1>3, LoopFields
  <2> QED
    BY <2>1, <2>2
<1> QED
  BY <1>2, <1>3, <1>4, <1>6, <1>7, WaitStep

LEMMA WaitNextCondition ==
  ASSUME IInv, DInv, WaitOK, NextCondition
  PROVE  WaitOK'
<1> DEFINE top == [Top EXCEPT !.kind = "if?"]
<1>1. /\ length' = length /\ Top.kind = "between" /\ here' = here
      /\ scopes' = [scopes EXCEPT ![Depth].kind = "if?"]
  BY DEF NextCondition, Place, Seam, Same
<1>2. /\ Depth = Len(scopes) /\ Depth \in Nat /\ Depth >= 3 /\ Top = scopes[Len(scopes)]
      /\ IsSeq(scopes) /\ IsScope(Top) /\ Top.declared = {}
      /\ ValuesOK /\ ShapeOK /\ Well(scopes)
  BY <1>1, AskedFacts DEF ScopesOK, DInv
<1>3. scopes' = Put(scopes, Len(scopes), top)
  BY <1>1, <1>2 DEF Put
<1>4. top.declared = {} /\ top.entry = Top.entry
  BY <1>2 DEF IsScope
<1> HIDE DEF top
<1>5. Top.entry.pending = {} /\ Top.entry \in Entries(scopes)
  BY <1>2, TopKept DEF Well
<1>6. Entries(scopes') \subseteq Entries(scopes)
  BY <1>2, <1>3, <1>4, <1>5, KeptPut
<1> QED
  BY <1>1, <1>2, <1>6, WaitStep

LEMMA WaitOpenBlock ==
  ASSUME IInv, DInv, WaitOK, NEW hoisted,
         OpenBranch(hoisted) \/ OpenElse(hoisted) \/ OpenRound(hoisted)
  PROVE  WaitOK'
<1>1. Well(scopes) /\ ValuesOK /\ ShapeOK
  BY DEF DInv
<1>2. PICK kind, entry :
        /\ Behind(kind, hoisted, entry) /\ Top.kind \in {"if?", "loop?", "between"}
        /\ entry.pending = {}
        /\ entry.waiting \subseteq here.pending \cup here.waiting \cup Top.entry.waiting
  BY <1>1, BlockEntry
<1> DEFINE top == Reopened(Top, kind, hoisted, entry)
<1>3. /\ length' = length + 1
      /\ here' = clearSemanticDeadStorePendingWrites(here)
      /\ scopes' = [scopes EXCEPT ![Depth] = [@ EXCEPT !.kind = kind, !.hoisted = hoisted, !.entry = entry]]
  BY <1>2 DEF Behind, Takes
<1>4. /\ Depth = Len(scopes) /\ Depth \in Nat /\ Depth >= 3 /\ Top = scopes[Len(scopes)]
      /\ IsSeq(scopes) /\ IsScope(Top) /\ Top.declared = {} /\ IsState(here)
  BY <1>2, AskedFacts DEF Sound, ScopesOK
<1>5. scopes' = Put(scopes, Len(scopes), top)
  BY <1>3, <1>4 DEF Put, Reopened
<1>6. top.declared = {} /\ top.entry = entry
  BY <1>4, ReopenedFields DEF IsReopened
<1> HIDE DEF top
<1>7. here'.waiting = {}
  <2> DEFINE m == here.may
             r == here.reached
  <2> HIDE DEF m, r
  <2> QED
    BY <1>3, <1>4, ClearedPending
<1>8. Entries(scopes') \subseteq Entries(scopes) \cup {entry}
  BY <1>1, <1>2, <1>4, <1>5, <1>6, KeptPut
<1>9. entry.waiting \subseteq here.pending \cup Waits
  BY <1>2, <1>4, TopKept DEF Waits
<1> QED
  BY <1>1, <1>3, <1>7, <1>8, <1>9, WaitStep

LEMMA WaitEnding ==
  ASSUME IInv, DInv, WaitOK, EndBranch \/ EndIf \/ EndLoop \/ EndSecure
  PROVE  WaitOK'
<1>1. Top.kind \in Conditional \cup {"loop", "catch"} /\ length' = length
  BY DEF EndBranch, EndIf, EndLoop, EndSecure, Place, Seam, Conditional
<1>2. /\ Depth \in Nat /\ Depth >= 3 /\ Depth = Len(scopes) /\ Top = scopes[Len(scopes)]
      /\ IsSeq(scopes) /\ IsScope(Top) /\ IsState(Top.entry)
  BY <1>1, DeepTop
<1>3. Well(scopes) /\ ValuesOK /\ ShapeOK /\ Top.entry \in Entries(scopes)
  BY <1>2, TopKept DEF DInv
<1>4. here'.waiting = {} \/ here'.waiting = Top.entry.waiting
  <2>1. CASE EndBranch
    BY <2>1 DEF EndBranch
  <2>2. CASE EndIf
    <3> DEFINE entry == Top.entry
               skips == Top.kind = "between"
               outs == ContinuingStates(Top)
               goes == entry.continues /\ outs # {}
               inits == IF goes THEN mergeContinuingSemanticFlowStates(outs) ELSE entry.inits
               may == IF skips THEN JoinMay(Top.may, entry.may) ELSE Top.may
               reached == Top.reached \/ (skips /\ entry.reached)
               none == {}
    <3>1. here' = [continues |-> goes, inits |-> inits, pending |-> none, waiting |-> none,
                   may |-> may, reached |-> reached]
      BY <2>2 DEF EndIf
    <3> HIDE DEF goes, inits, may, reached
    <3>2. here'.waiting = none
      BY <3>1
    <3> QED
      BY <3>2
  <2>3. CASE EndLoop \/ EndSecure
    <3>1. PICK m : here' = [Top.entry EXCEPT !.may = m]
      BY <2>3, Zenon DEF EndLoop, EndSecure
    <3> QED
      BY <3>1, <1>2, LoopFields
  <2> QED
    BY <2>1, <2>2, <2>3
<1>5. Entries(scopes') \subseteq Entries(scopes)
  <2>1. CASE EndBranch
    <3> DEFINE n == Depth - 1
               left == Leaving(n)
               kind == IF Top.kind = "else" THEN "after" ELSE "between"
               outs == IF left.continues THEN Top.outs \cup {left.inits} ELSE Top.outs
               may == JoinMay(Top.may, left.may)
               reached == Top.reached \/ left.reached
               top == Closed(Top, kind, outs, may, reached)
    <3>1. scopes' = [scopes EXCEPT ![Depth] = top] /\ Top.kind \in Conditional
      BY <2>1 DEF EndBranch, Closed, Place, Conditional
    <3>2. scopes' = Put(scopes, Len(scopes), top)
      BY <3>1, <1>2 DEF Put
    <3>3. reached \in BOOLEAN
      <4>1. Depth = Len(scopes) /\ n \in 1..Depth
        BY <3>1, ConditionalFacts
      <4>2. left.reached \in BOOLEAN
        BY <4>1, LeavingSound DEF IsChanged, Sound, IsState
      <4> QED
        BY <4>2, <1>2 DEF IsScope
    <3> HIDE DEF n, left, kind, outs, may, reached
    <3>4. top.declared = {} /\ top.entry = Top.entry
      BY <1>2, <3>3, ClosedFields DEF IsClosed
    <3> HIDE DEF top
    <3>5. top.entry.pending = {} /\ Len(scopes) \in Nat \ {0}
      BY <3>4, <1>2, <1>3 DEF Well
    <3> QED
      BY <3>2, <3>4, <3>5, <1>2, <1>3, KeptPut
  <2>2. ASSUME NEW m \in 0..Len(scopes), scopes' = SubSeq(scopes, 1, m)
        PROVE  Entries(scopes') \subseteq Entries(scopes)
    BY <2>2, <1>2, <1>3, KeptCut DEF Cut
  <2>3. Depth - 1 \in 0..Len(scopes) /\ Depth - 2 \in 0..Len(scopes)
    BY <1>2
  <2>4. EndIf \/ EndLoop \/ EndSecure =>
          scopes' = SubSeq(scopes, 1, Depth - 1) \/ scopes' = SubSeq(scopes, 1, Depth - 2)
    BY Zenon DEF EndIf, EndLoop, EndSecure
  <2> QED
    BY <2>1, <2>2, <2>3, <2>4
<1> QED
  BY <1>1, <1>3, <1>4, <1>5, WaitStep

LEMMA WaitSecure ==
  ASSUME IInv, DInv, WaitOK, NEW v, NEW c, NEW hoisted, OpenSecure(v, c, hoisted)
  PROVE  WaitOK'
<1> DEFINE b == <<Depth, v>>
           none == {}
           i1 == IF here.continues THEN here.inits \cup {b} ELSE here.inits
           m1 == IF here.reached
                 THEN [x \in DOMAIN here.may \cup {b} |-> IF x = b THEN {NewStore} ELSE here.may[x]]
                 ELSE here.may
           bound == Changing(here, none, none, i1, m1)
           caught == IF c = Nobody THEN {} ELSE {c}
           C == {Depth + 1} \X caught
           failed == [x \in DOMAIN bound.may \cup C |->
                        IF x = b THEN {Unset} ELSE IF x \in DOMAIN bound.may THEN bound.may[x] ELSE {Given}]
           i2 == IF here.continues THEN bound.inits \cup C ELSE bound.inits
           m2 == IF here.reached THEN failed ELSE bound.may
           s1 == Declaring(scopes, v)
           error == Scope("caught", caught, caught, bound)
           block == Scope("catch", hoisted, {}, bound)
<1>1. /\ Takes /\ Place(Blocks) /\ v \in Top.hoisted
      /\ here' = [bound EXCEPT !.inits = i2, !.may = m2]
      /\ scopes' = (IF c = Nobody THEN [scopes EXCEPT ![Depth].declared = @ \cup {v}]
                    ELSE Append([scopes EXCEPT ![Depth].declared = @ \cup {v}], error))
                   \o <<block>>
  BY Zenon DEF OpenSecure, Changing
<1>2. /\ Depth \in Nat \ {0, 1} /\ Depth = Len(scopes) /\ IsSeq(scopes) /\ IsState(here)
      /\ IsScope(scopes[Len(scopes)]) /\ v \in scopes[Len(scopes)].hoisted
      /\ length' = length + 1 /\ ValuesOK /\ ShapeOK /\ Well(scopes)
  <2>1. Takes /\ Place(Blocks) /\ v \in Top.hoisted
    BY <1>1
  <2> HIDE DEF b, none, i1, m1, bound, caught, C, failed, i2, m2, s1, error, block
  <2> QED
    BY <2>1, BlockFacts DEF Sound, Takes, DInv, IInv, ScopesOK, ScopeOK, Top
<1>3. bound.pending = {} /\ bound.waiting = {} /\ here'.waiting = {}
  <2> HIDE DEF i1, m1, i2, m2, none
  <2>1. bound.pending = none /\ bound.waiting = none /\ here'.waiting = none
    BY <1>1, <1>2, SecuredFields
  <2> QED
    BY <2>1 DEF none
<1>4. scopes' = s1 \o <<block>> \/ scopes' = Append(s1, error) \o <<block>>
  <2>1. [scopes EXCEPT ![Depth].declared = @ \cup {v}] = s1
    BY <1>2 DEF Declaring, Put
  <2> HIDE DEF s1, error, block
  <2> QED
    BY <2>1, <1>1
<1> HIDE DEF s1, bound, caught
<1>5. Well(s1) /\ IsSeq(s1) /\ Entries(s1) = Entries(scopes)
  BY <1>2, KeptDeclaring DEF s1
<1>6. IsSecured(s1, s1 \o <<block>>, bound) /\ IsSecured(s1, Append(s1, error) \o <<block>>, bound)
  BY <1>3, <1>5, KeptSecured
<1> HIDE DEF error, block
<1>7. Entries(scopes') \subseteq Entries(scopes) \cup {bound}
  BY <1>4, <1>5, <1>6 DEF IsSecured
<1> QED
  BY <1>2, <1>3, <1>7, WaitStep

LEMMA WaitInit == Init => WaitOK
<1> SUFFICES ASSUME Init PROVE WaitOK
  OBVIOUS
<1> DEFINE params == {1} \X Params
           pending == {<<b, Given>> : b \in params}
           may == [b \in params |-> {Given}]
           none == {}
           start == [continues |-> TRUE, inits |-> params, reached |-> TRUE,
                     pending |-> pending, waiting |-> none, may |-> may]
<1>1. PICK hoisted \in SUBSET Names :
        /\ scopes = <<Scope("params", Params, Params, start), Scope("body", hoisted, {}, start)>>
        /\ here = start
  BY DEF Init
<1> DEFINE c1 == Scope("params", Params, Params, start)
           c2 == Scope("body", hoisted, none, start)
<1>2. scopes = <<c1, c2>>
  BY <1>1
<1>3. start.waiting = {}
  <2> HIDE DEF pending, may, params, none
  <2>1. start.waiting = none
    OBVIOUS
  <2> QED
    BY <2>1 DEF none
<1> HIDE DEF start
<1>4. c1.entry = start /\ c2.entry = start
  BY DEF Scope
<1> HIDE DEF c1, c2
<1>5. \A i \in 1..Len(scopes) : scopes[i] = c1 \/ scopes[i] = c2
  BY <1>2
<1>6. \A e \in Entries(scopes) : e.waiting = {}
  BY <1>3, <1>4, <1>5 DEF Entries
<1>7. Waits = {}
  BY <1>1, <1>3, <1>6 DEF Waits
<1> QED
  BY <1>7 DEF WaitOK

-----------------------------------------------------------------------------
(* Together they are kept.                                                 *)
StoresInv == DInv /\ WaitOK

LEMMA StoresKept == MaxEvents \in Nat /\ IInv /\ StoresInv /\ [Next]_vars => StoresInv'
<1> SUFFICES ASSUME MaxEvents \in Nat, IInv, DInv, WaitOK, [Next]_vars PROVE StoresInv'
  BY DEF StoresInv
<1> USE DEF StoresInv
<1>1. ASSUME NEW v \in Names, Read(v) \/ Assign(v) \/ AssignInArm(v) \/ Capture(v)
      PROVE  StoresInv'
  BY <1>1, DeadRead, DeadAssign, DeadCapture, WaitStatement
<1>2. ASSUME NEW v \in Names, NEW how \in {"initialized", "bare", "optional"}, Declare(v, how)
      PROVE  StoresInv'
  BY <1>2, DeadDeclare, WaitDeclare
<1>3. CASE Return
  BY <1>3, DeadReturn, WaitReturn
<1>4. CASE OpenIf \/ OpenLoop
  BY <1>4, DeadOpenIf, DeadOpenLoop, WaitAsking
<1>5. CASE NextCondition
  BY <1>5, DeadNextCondition, WaitNextCondition
<1>6. ASSUME NEW hoisted \in SUBSET Names,
             OpenBranch(hoisted) \/ OpenElse(hoisted) \/ OpenRound(hoisted)
      PROVE  StoresInv'
  BY <1>6, DeadOpenBlock, WaitOpenBlock
<1>7. CASE EndBranch \/ EndIf \/ EndLoop \/ EndSecure
  BY <1>7, DeadEndBranch, DeadEndIf, DeadEndLoop, DeadEndSecure, WaitEnding
<1>8. ASSUME NEW v \in Names, NEW c \in Names \cup {Nobody}, NEW hoisted \in SUBSET Names,
             OpenSecure(v, c, hoisted)
      PROVE  StoresInv'
  BY <1>8, DeadOpenSecure, WaitSecure
<1>9. CASE validateCallableSemanticFlow
  <2>1. UNCHANGED <<scopes, here, length>>
    BY <1>9 DEF validateCallableSemanticFlow, Same
  <2>2. WaitOK'
    BY <2>1 DEF WaitOK, Waits, Entries
  <2> QED
    BY <1>9, <2>2, DeadEnd
<1>10. CASE UNCHANGED vars
  BY <1>10 DEF vars, DInv, ValuesOK, ShapeOK, DeadOK, PendingOK, Depth, WaitOK, Waits, Entries
<1> QED
  BY <1>1, <1>2, <1>3, <1>4, <1>5, <1>6, <1>7, <1>8, <1>9, <1>10 DEF Next

LEMMA StoresInit == Init => StoresInv
BY DeadInit, WaitInit DEF StoresInv

LEMMA StoresAreDead == StoresInv => DeadStoresAreDead
BY DInvNoReads DEF StoresInv

LEMMA StoresInvariant == ASSUME MaxEvents \in Nat PROVE Spec => []StoresInv
<1>1. IInv /\ StoresInv /\ [Next]_vars => StoresInv'
  BY StoresKept
<1> QED
  BY <1>1, StoresInit, Invariant, PTL DEF Spec

(* A store the analyzer reports as dead is read by no execution, later     *)
(* rounds of a loop included, as long as the walk can follow the variable: *)
(* the dead-store walk of SemanticA.cpp, for every body.  MaxEvents only   *)
(* bounds its length.                                                      *)
THEOREM DeadStoresAreUnread == ASSUME MaxEvents \in Nat PROVE Spec => []DeadStoresAreDead
BY StoresInvariant, StoresAreDead, PTL
=============================================================================
