-------------------------- MODULE EvaluatorProofs --------------------------
(***************************************************************************)
(* The V1 evaluator.                                                       *)
(*                                                                         *)
(* Quickening cannot be observed but where another expression's site is    *)
(* used or a kind has changed: a site describes an expression at its       *)
(* offset, with its own kind or one its operands may promote to, and where *)
(* it is the expression that is evaluated and the kind is what its         *)
(* operands promote to now, converting them changes nothing.               *)
(*                                                                         *)
(* What is skipped of a body that CodeGen writes ends where the code of    *)
(* the construct ends.  Streams are aligned: from the contents of every    *)
(* construct its parts lead, each as a whole, to where its size says.  In  *)
(* such a stream reading token by token arrives at the same places, by     *)
(* induction on the construct; and what the operators of Emission write is *)
(* aligned if what they are given is.                                      *)
(*                                                                         *)
(* What is evaluated of such a body is read in step with it: what an open  *)
(* construct has still to read leads from where it is read to its end, for *)
(* the innermost from the position, for the others from the end of the one *)
(* within; a loop is in one of five places.  Each action keeps that, until *)
(* a value that is missing makes a reader leave out a part (derailed).     *)
(***************************************************************************)
EXTENDS Evaluator, Sequences, FiniteSetTheorems, NaturalsInduction, WellFoundedInduction, TLAPS

(* A candidate's site, as installed.                                       *)
LEMMA FreshDescribes ==
  ASSUME NEW e \in Exprs
  PROVE  Describes(SiteOf(e), e)
BY DEF Describes, Site, SiteOf

(* What an evaluation finds or installs describes an expression at the     *)
(* same offset.                                                            *)
LEMMA FoundDescribes ==
  ASSUME SitesDescribe, NEW e \in Exprs, Quickened(e)
  PROVE  \E d \in Exprs : Code[d].at = Code[e].at /\ Candidate(d) /\ Describes(SiteAt(e), d)
<1>1. CASE Known(e)
  BY <1>1 DEF Known, SiteAt, SitesDescribe
<1>2. CASE ~Known(e)
  <2>1. Candidate(e) /\ Describes(SiteAt(e), e)
    BY <1>2, FreshDescribes DEF Quickened, SiteAt
  <2> QED
    BY <2>1
<1> QED
  BY <1>1, <1>2

(* The fields of a site are those of the expression it describes.          *)
LEMMA SiteFields ==
  ASSUME NEW e \in Exprs, NEW k
  PROVE  LET s == Site(e, k) IN
         /\ s.family = Code[e].family /\ s.op = Code[e].op /\ s.size = Code[e].size
         /\ s.a = Code[e].a /\ s.b = Code[e].b /\ s.c = Code[e].c
         /\ s.kind = k
BY DEF Site, SiteOf

LEMMA OwnFields ==
  ASSUME NEW e \in Exprs
  PROVE  /\ SiteOf(e) = Site(e, Code[e].kind)
         /\ \A f : Numeric(SiteOf(e), f) <=>
                     IsNum(f[Code[e].a]) /\ (Code[e].family = "Sqrt" \/ IsNum(f[Code[e].b]))
         /\ \A f : Promoted(SiteOf(e), f) =
                     IF Code[e].family = "Sqrt" THEN f[Code[e].a].kind
                     ELSE Promote(f[Code[e].a].kind, f[Code[e].b].kind)
BY DEF Site, SiteOf, Numeric, Promoted

(* What numbers promote to is a numeric kind.                              *)
LEMMA MetIsNumeric ==
  ASSUME NEW e \in Exprs
  PROVE  Met(e) \subseteq NumKinds
BY OwnFields DEF Met, IsNum, Promote

(* Specialising keeps the description: what is seen is one of the frames.  *)
LEMMA SpecialisedDescribes ==
  ASSUME slots \in Frames, NEW e \in Exprs, NEW s, Describes(s, e)
  PROVE  Describes(Specialised(s), e)
<1> DEFINE t == Specialised(s)
<1>1. CASE ~(Adaptive(s) /\ Observed(s))
  BY <1>1 DEF Specialised
<1>2. CASE Adaptive(s) /\ Observed(s)
  <2>1. /\ t = [s EXCEPT !.kind = SeenKind(s)]
        /\ s = Site(e, s.kind)
    BY <1>2 DEF Specialised, Describes
  <2>2. t = Site(e, t.kind) /\ t.kind = SeenKind(s)
    BY <2>1 DEF Site, SiteOf
  <2>3. /\ s.family = Code[e].family /\ s.a = Code[e].a /\ s.b = Code[e].b
        /\ s.kind = "Obj"
    BY <1>2, <2>1, SiteFields DEF Adaptive
  <2>4. s.kind \notin Met(e)
    BY <2>3, MetIsNumeric DEF NumKinds
  <2>5. Adaptive(Code[e])
    BY <1>2, <2>3, <2>4 DEF Describes, Adaptive
  <2>6. Numeric(SiteOf(e), slots) /\ t.kind = Promoted(SiteOf(e), slots)
    BY <1>2, <2>2, <2>3, OwnFields DEF Observed, SeenKind, Numeric, Promoted
  <2>7. t.kind \in Met(e)
    BY <2>6 DEF Met
  <2> HIDE DEF t
  <2>8. Describes(t, e)
    BY <2>2, <2>5, <2>7 DEF Describes
  <2> QED
    BY <2>8 DEF t
<1> QED
  BY <1>1, <1>2

(* The site an evaluation uses and remembers.                              *)
LEMMA UsedDescribes ==
  ASSUME SitesDescribe, NEW e \in Exprs, Quickened(e)
  PROVE  \E d \in Exprs : /\ Code[d].at = Code[e].at /\ Candidate(d)
                          /\ Describes(Specialised(SiteAt(e)), d)
BY FoundDescribes, SpecialisedDescribes DEF SitesDescribe

(* Descriptions do not depend on the state.                                *)
LEMMA RememberKeeps ==
  ASSUME SitesDescribe, NEW e \in Exprs, Quickened(e),
         Remember(e, Specialised(SiteAt(e))),
         UNCHANGED <<slots, invocations>>
  PROVE  SitesDescribe'
<1> DEFINE s == Specialised(SiteAt(e))
<1>1. PICK d \in Exprs : Code[d].at = Code[e].at /\ Candidate(d) /\ Describes(s, d)
  BY UsedDescribes
<1>2. \A o \in DOMAIN sites' : \E x \in Exprs :
        Code[x].at = o /\ Candidate(x) /\ Describes(sites'[o], x)
  <2> SUFFICES ASSUME NEW o \in DOMAIN sites'
               PROVE  \E x \in Exprs : Code[x].at = o /\ Candidate(x) /\ Describes(sites'[o], x)
    OBVIOUS
  <2> HIDE DEF s
  <2>1. CASE o = Code[e].at
    BY <1>1, <2>1 DEF Remember, s
  <2>2. CASE o # Code[e].at
    <3>1. o \in DOMAIN sites /\ sites'[o] = sites[o]
      BY <2>2 DEF Remember
    <3> QED
      BY <3>1 DEF SitesDescribe
  <2> QED
    BY <2>1, <2>2
<1>3. Warm'
  BY DEF Warm, Quickened
<1>4. (slots \in Frames)'
  BY DEF SitesDescribe
<1> QED
  BY <1>2, <1>3, <1>4 DEF SitesDescribe, Describes, Candidate, Site, SiteOf, Adaptive, Met,
     Numeric, Promoted, IsNum

LEMMA StepKeeps ==
  SitesDescribe /\ [QNext]_vars => SitesDescribe'
<1> SUFFICES ASSUME SitesDescribe, [QNext]_vars PROVE SitesDescribe'
  OBVIOUS
<1> DEFINE Same == UNCHANGED sites /\ slots' \in Frames /\ (Warm => Warm')
<1>1. ASSUME Same PROVE SitesDescribe'
  BY <1>1 DEF SitesDescribe, Describes, Candidate, Site, SiteOf, Adaptive, Met, Numeric,
     Promoted, IsNum
<1>2. CASE Invoke
  <2>1. Warm => Warm'
    BY <1>2 DEF Invoke, Warm
  <2> QED
    BY <1>1, <1>2, <2>1 DEF Invoke, Switch
<1>3. CASE Return
  BY <1>1, <1>3 DEF Return, Switch, Warm
<1>4. ASSUME NEW e \in Exprs, EvaluatePlain(e) PROVE SitesDescribe'
  BY <1>1, <1>4 DEF EvaluatePlain, Evaluate, Warm, SitesDescribe
<1>5. ASSUME NEW e \in Exprs, EvaluateFast(e) PROVE SitesDescribe'
  BY <1>5, RememberKeeps DEF EvaluateFast
<1>6. ASSUME NEW e \in Exprs, FallBack(e) PROVE SitesDescribe'
  BY <1>6, RememberKeeps DEF FallBack, Evaluate
<1>7. CASE UNCHANGED vars
  BY <1>1, <1>7 DEF vars, Warm, SitesDescribe
<1> QED
  BY <1>2, <1>3, <1>4, <1>5, <1>6, <1>7 DEF QNext

(* Sites describe expressions at their offsets, with kinds their operands  *)
(* may have.                                                               *)
THEOREM SitesAreDescribed == QSpec => []SitesDescribe
<1>1. QInit => SitesDescribe
  BY DEF QInit, Init, SitesDescribe
<1> QED
  BY <1>1, StepKeeps, PTL DEF QSpec
-----------------------------------------------------------------------------
(* What runs at a site is what the code with the site's kind yields.       *)
LEMMA FastIsOutcome ==
  ASSUME NEW d \in Exprs, Candidate(d), NEW s, Describes(s, d), Runs(s)
  PROVE  /\ s = Site(d, s.kind) /\ s.size = Code[d].size
         /\ Fast(s) = Outcome(s)
<1>1. /\ s = Site(d, s.kind) /\ s.size = Code[d].size
      /\ s.family \in Families \ {"Ref"}
  BY SiteFields, CodeAssumption DEF Describes, Candidate
<1>2. CASE s.family = "Arith"
  <2>1. Fast(s) = Outcome(s)
    BY <1>2 DEF Runs, Fast, Outcome
  <2> QED
    BY <1>1, <2>1
<1>3. CASE s.family = "Compare"
  <2>1. Fast(s) = Outcome(s)
    BY <1>3 DEF Runs, Fast, Outcome
  <2> QED
    BY <1>1, <2>1
<1>4. CASE s.family = "Sqrt"
  <2>1. Fast(s) = Outcome(s)
    BY <1>4 DEF Runs, Fast, Outcome
  <2> QED
    BY <1>1, <2>1
<1>5. CASE s.family = "Get"
  <2>1. Fast(s) = Outcome(s)
    BY <1>5 DEF Runs, Fast, Outcome
  <2> QED
    BY <1>1, <2>1
<1>6. CASE s.family = "Set"
  <2>1. Fast(s) = Outcome(s)
    BY <1>6 DEF Runs, Fast, Outcome
  <2> QED
    BY <1>1, <2>1
<1> QED
  BY <1>1, <1>2, <1>3, <1>4, <1>5, <1>6 DEF Families

(* With its static kind a site yields what the expression does.            *)
LEMMA StaticIsPlain ==
  ASSUME NEW e \in Exprs
  PROVE  Outcome(Site(e, Code[e].kind)) = Plain(e)
<1> DEFINE s == Site(e, Code[e].kind)
           c == Code[e]
<1>1. /\ s.family = c.family /\ s.op = c.op /\ s.kind = c.kind
      /\ s.a = c.a /\ s.b = c.b /\ s.c = c.c
  BY SiteFields
<1> HIDE DEF s, c
<1>2. Outcome(s) = Outcome(c)
  BY <1>1 DEF Outcome
<1> QED
  BY <1>2 DEF Plain, s, c

(* With the kind its operands promote to, too: conversion is exact.        *)
LEMMA ConvertsExactly ==
  ASSUME slots \in Frames, NEW e \in Exprs, Numeric(SiteOf(e), slots), NEW k \in NumKinds,
         k = Promoted(SiteOf(e), slots)
  PROVE  /\ Conv(k, In(Code[e].a).num) = In(Code[e].a).num
         /\ Code[e].family # "Sqrt" =>
              /\ k = Promote(In(Code[e].a).kind, In(Code[e].b).kind)
              /\ Conv(k, In(Code[e].b).num) = In(Code[e].b).num
<1> DEFINE u == slots[Code[e].a]  v == slots[Code[e].b]
<1>1. Code[e].a \in DOMAIN slots /\ Code[e].b \in DOMAIN slots
  BY OperandsAreSlots
<1>2. IsNum(u) /\ (Code[e].family = "Sqrt" \/ IsNum(v))
  BY OwnFields
<1>3. k = IF Code[e].family = "Sqrt" THEN u.kind ELSE Promote(u.kind, v.kind)
  BY OwnFields
<1>4. CASE Code[e].family = "Sqrt"
  <2>1. Rank[u.kind] <= Rank[k]
    BY <1>3, <1>4 DEF Rank, NumKinds
  <2> QED
    BY <1>1, <1>2, <1>4, <2>1, WideningExact DEF In
<1>5. CASE Code[e].family # "Sqrt"
  <2>1. u.kind \in NumKinds /\ v.kind \in NumKinds
    BY <1>2, <1>5 DEF IsNum
  <2>2. Rank[u.kind] <= Rank[k] /\ Rank[v.kind] <= Rank[k]
    BY <1>3, <1>5, <2>1 DEF Promote, Rank, NumKinds
  <2> QED
    BY <1>1, <1>2, <1>3, <1>5, <2>2, WideningExact DEF In
<1> QED
  BY <1>4, <1>5

LEMMA PromotedIsPlain ==
  ASSUME slots \in Frames, NEW e \in Exprs, Adaptive(Code[e]), Numeric(SiteOf(e), slots),
         NEW k \in NumKinds, k = Promoted(SiteOf(e), slots)
  PROVE  Outcome(Site(e, k)) = Plain(e)
<1> DEFINE s == Site(e, k)
           c == Code[e]
           u == In(c.a)
           v == In(c.b)
<1>1. /\ s.family = c.family /\ s.op = c.op /\ s.kind = k
      /\ s.a = c.a /\ s.b = c.b /\ s.c = c.c
  BY SiteFields
<1>2. k # "Obj" /\ c.kind = "Obj" /\ c.family \in {"Arith", "Compare", "Sqrt"}
  BY DEF NumKinds, Adaptive
<1>3. IsNum(u) /\ (c.family = "Sqrt" \/ IsNum(v))
  BY OwnFields DEF In
<1>4. /\ Conv(k, u.num) = u.num
      /\ c.family # "Sqrt" => k = Promote(u.kind, v.kind) /\ Conv(k, v.num) = v.num
  BY ConvertsExactly
<1>5. Plain(e) = Outcome(c)
  BY DEF Plain
<1> HIDE DEF s, c
<1>6. CASE c.family = "Arith"
  <2>1. TypedArith(c.op, k, u, v) = GenericArith(c.op, u, v)
    BY <1>3, <1>4, <1>6 DEF TypedArith, GenericArith
  <2> QED
    BY <1>1, <1>2, <1>5, <1>6, <2>1 DEF Outcome, s
<1>7. CASE c.family = "Compare"
  <2>1. u.kind # "None" /\ v.kind # "None"
    BY <1>3, <1>7 DEF IsNum, NumKinds
  <2>2. TypedCompare(c.op, k, u, v) = GenericCompare(c.op, u, v)
    BY <1>3, <1>4, <1>7, <2>1 DEF TypedCompare, GenericCompare
  <2> QED
    BY <1>1, <1>2, <1>5, <1>7, <2>2 DEF Outcome, s
<1>8. CASE c.family = "Sqrt"
  <2>1. EvalSqrt(k, u) = EvalSqrt("Obj", u)
    BY <1>2, <1>3, <1>4, <1>8 DEF EvalSqrt
  <2> QED
    BY <1>1, <1>2, <1>5, <1>8, <2>1 DEF Outcome, s
<1> QED
  BY <1>2, <1>6, <1>7, <1>8

(* A fast evaluation is the plain one, or one of the two departures.       *)
LEMMA FastIsPlain ==
  ASSUME SitesDescribe, NEW e \in Exprs, EvaluateFast(e)
  PROVE  \/ Evaluate(e)
         \/ \E d \in Exprs, k \in NumKinds \cup {"Obj"} : TakenFor(e, d, k)
<1> DEFINE s == Specialised(SiteAt(e))
<1>1. /\ Quickened(e) /\ Runs(s) /\ Done(e, Fast(s), s.size) /\ slots' = slots
      /\ slots \in Frames /\ Warm
  BY DEF EvaluateFast, SitesDescribe, Quickened
<1>2. PICK d \in Exprs : Code[d].at = Code[e].at /\ Candidate(d) /\ Describes(s, d)
  BY <1>1, UsedDescribes
<1> DEFINE k == s.kind
<1> HIDE DEF s
<1>3. s = Site(d, k) /\ s.size = Code[d].size /\ Fast(s) = Outcome(s)
  BY <1>1, <1>2, FastIsOutcome
<1>4. k = Code[d].kind \/ (Adaptive(Code[d]) /\ k \in Met(d))
  BY <1>2 DEF Describes
<1> HIDE DEF k
<1>5. Done(e, Outcome(Site(d, k)), Code[d].size) /\ Runs(Site(d, k))
  BY <1>1, <1>3
<1>6. CASE d = e /\ Outcome(Site(e, k)) = Plain(e)
  BY <1>1, <1>5, <1>6 DEF Evaluate
<1>7. k \in NumKinds \cup {"Obj"}
  BY <1>4, MetIsNumeric, CodeAssumption
<1>8. ASSUME \/ k = Code[d].kind /\ d # e
             \/ Adaptive(Code[d]) /\ k \in Met(d) /\ (d # e \/ k # SeenKind(SiteOf(d)))
      PROVE  TakenFor(e, d, k)
  BY <1>1, <1>2, <1>5, <1>8 DEF TakenFor
<1>9. CASE d = e /\ k = Code[e].kind
  BY <1>6, <1>9, StaticIsPlain
<1>10. CASE d = e /\ Adaptive(Code[e]) /\ k \in Met(e) /\ k = SeenKind(SiteOf(e))
  <2>1. Numeric(SiteOf(e), slots)
    <3>1. /\ Site(e, k).family = Code[e].family /\ Site(e, k).a = Code[e].a
          /\ Site(e, k).b = Code[e].b
      BY SiteFields
    <3>2. IsNum(slots[Code[e].a]) /\ (Code[e].family = "Sqrt" \/ IsNum(slots[Code[e].b]))
      BY <1>5, <1>10, <3>1 DEF Runs, Adaptive, In
    <3> QED
      BY <3>2, OwnFields
  <2>2. Outcome(Site(e, k)) = Plain(e)
    BY <1>1, <1>10, <2>1, MetIsNumeric, PromotedIsPlain DEF SeenKind
  <2> QED
    BY <1>6, <1>10, <2>2
<1> QED
  BY <1>4, <1>7, <1>8, <1>9, <1>10

(* Evaluation with quickening is plain evaluation, step by step, but for   *)
(* sites that are shared and kinds that changed.                           *)
THEOREM Refinement == QSpec => AsPlain
<1>1. QInit => Init
  BY DEF QInit
<1>2. SitesDescribe /\ [QNext]_vars => [Next \/ Departs]_pvars
  <2> SUFFICES ASSUME SitesDescribe, [QNext]_vars PROVE [Next \/ Departs]_pvars
    OBVIOUS
  <2>1. CASE Invoke
    BY <2>1 DEF Invoke, Next
  <2>2. CASE Return
    BY <2>2 DEF Return, Next
  <2>3. ASSUME NEW e \in Exprs, EvaluatePlain(e) PROVE Next
    BY <2>3 DEF EvaluatePlain, Next
  <2>4. ASSUME NEW e \in Exprs, EvaluateFast(e) PROVE Next \/ Departs
    <3>1. CASE Evaluate(e)
      BY <3>1 DEF Next
    <3>2. CASE \E d \in Exprs, k \in NumKinds \cup {"Obj"} : TakenFor(e, d, k)
      <4>1. out'.expr = e
        BY <2>4 DEF EvaluateFast, Done
      <4> QED
        BY <3>2, <4>1 DEF Departs
    <3> QED
      BY <2>4, <3>1, <3>2, FastIsPlain
  <2>5. ASSUME NEW e \in Exprs, FallBack(e) PROVE Next
    BY <2>5 DEF FallBack, Next
  <2>6. CASE UNCHANGED vars
    BY <2>6 DEF vars, pvars
  <2> QED
    BY <2>1, <2>2, <2>3, <2>4, <2>5, <2>6 DEF QNext
<1> QED
  BY <1>1, <1>2, SitesAreDescribed, PTL DEF QSpec, AsPlain

(* The evaluator, of which only one side is looked at in a behaviour,      *)
(* evaluates with quickening as QSpec says.                                *)
THEOREM EvaluatorQuickens ==
  ASSUME Frames # {}, Arrays # {}
  PROVE  EvaluatorSpec => QSpec
<1>1. EvaluatorInit => QInit
  BY DEF EvaluatorInit, NoSites, QInit, Init
<1>2. [EvaluatorNext]_<<side, ofSites, ofBytes>> => [QNext]_vars
  BY DEF EvaluatorNext, OnSites, OnBytes, ofSites
<1> QED
  BY <1>1, <1>2, PTL DEF EvaluatorSpec, QSpec
-----------------------------------------------------------------------------
(* Numbers.                                                                *)
LEMMA LeastNumber ==
  ASSUME NEW S \in SUBSET Nat, S # {}
  PROVE  \E m \in S : \A n \in S : m <= n
<1> DEFINE R == OpToRel(<, Nat)
<1>1. IsWellFoundedOn(R, Nat)
  BY NatLessThanWellFounded, Zenon
<1>2. \A m, n \in S : n < m => <<n, m>> \in R
  BY SMT DEF OpToRel
<1> HIDE DEF R
<1>3. PICK m \in S : \A n \in S : ~ (<<n, m>> \in R)
  BY <1>1, WFMin
<1>4. \A n \in S : ~ (n < m)
  BY <1>2, <1>3
<1>5. \A n \in S : m <= n
  BY <1>4
<1>6. QED
  BY <1>5

LEMMA Upwards ==
  ASSUME NEW N \in Nat, NEW S, 0 \in S, \A n \in 1..N : n - 1 \in S => n \in S
  PROVE  \A n \in 0..N : n \in S
<1> DEFINE bad == {n \in 0..N : n \notin S}
<1> SUFFICES ASSUME bad # {} PROVE FALSE
  OBVIOUS
<1>1. bad \in SUBSET Nat
  OBVIOUS
<1>2. PICK m \in bad : \A n \in bad : m <= n
  <2> HIDE DEF bad
  <2> QED
    BY <1>1, LeastNumber
<1>3. m \in 1..N /\ m - 1 \in 0..N /\ m - 1 \notin bad
  BY <1>2
<1> QED
  BY <1>2, <1>3
-----------------------------------------------------------------------------
(* The tables of the readers.                                              *)
ExprOps == DOMAIN Bytes!EvalLayouts

ReferenceOps == {"INTOBJCREATE", "VAR_REF", "FUNC_REF", "LOCAL_REF", "TYPED_LOCAL_REF"}
CallOps == {"IVKFUNC", "CALL_DIRECT", "CALL_BUILTIN_MEMBER"}
OperatorOps ==
  {"UNARY_OPERATOR", "BINARY_OPERATOR", "TYPED_BINARY", "TYPED_NEGATE", "TYPED_COMPARE"}
MemberOps ==
  {"NEWOBJ", "MEMBER_GET", "MEMBER_GET_FIELD_SLOT", "MEMBER_SET", "MEMBER_SET_FIELD_SLOT",
   "MEMBER_IVK", "REGEX_LITERAL", "VAR_SET", "LOCAL_SET"}
IndexingOps ==
  {"INDEX_GET", "TYPED_INDEX_GET", "INDEX_SET", "TYPED_INDEX_SET", "ARRAY_LITERAL",
   "DICT_LITERAL", "TYPECHECK", "TERNARY", "CAST", "TYPED_INTRINSIC"}
DeclOps ==
  {"VAR", "RETURN", "SECURE_DECL", "LOCAL_DECL", "SECURE_LOCAL_DECL", "CONDITIONAL",
   "FUNC", "CLASS_DEF"}

LEMMA SkipOps ==
  /\ DOMAIN Bytes!SkipReferences = ReferenceOps /\ DOMAIN Bytes!SkipCalls = CallOps
  /\ DOMAIN Bytes!SkipOperators = OperatorOps /\ DOMAIN Bytes!SkipMembers = MemberOps
  /\ DOMAIN Bytes!SkipIndexing = IndexingOps /\ DOMAIN Bytes!SkipStmtLayouts = DeclOps
  /\ DOMAIN Bytes!ExecLayouts = DeclOps
<1>1. DOMAIN Bytes!SkipReferences = ReferenceOps
  BY DEF Bytes!SkipReferences, ReferenceOps
<1>2. DOMAIN Bytes!SkipCalls = CallOps
  BY DEF Bytes!SkipCalls, CallOps
<1>3. DOMAIN Bytes!SkipOperators = OperatorOps
  BY DEF Bytes!SkipOperators, OperatorOps
<1>4. DOMAIN Bytes!SkipMembers = MemberOps
  BY DEF Bytes!SkipMembers, MemberOps
<1>5. DOMAIN Bytes!SkipIndexing = IndexingOps
  BY DEF Bytes!SkipIndexing, IndexingOps
<1>6. DOMAIN Bytes!SkipStmtLayouts = DeclOps
  BY DEF Bytes!SkipStmtLayouts, DeclOps
<1>7. DOMAIN Bytes!ExecLayouts = DeclOps
  BY DEF Bytes!ExecLayouts, DeclOps
<1> QED
  BY <1>1, <1>2, <1>3, <1>4, <1>5, <1>6, <1>7

LEMMA EvalOps ==
  /\ Bytes!EvalReferences = Bytes!SkipReferences
  /\ Bytes!EvalCalls = Bytes!SkipCalls /\ Bytes!EvalOperators = Bytes!SkipOperators
  /\ DOMAIN Bytes!EvalAssignments = {"VAR_SET", "LOCAL_SET"}
  /\ DOMAIN Bytes!EvalLiterals = {"ARRAY_LITERAL", "DICT_LITERAL"}
  /\ DOMAIN Bytes!EvalTypes = {"TYPED_INTRINSIC", "TYPECHECK", "CAST", "TERNARY"}
  /\ DOMAIN Bytes!EvalIndexing = {"INDEX_GET", "TYPED_INDEX_GET", "INDEX_SET", "TYPED_INDEX_SET"}
  /\ DOMAIN Bytes!EvalMembers =
       {"NEWOBJ", "MEMBER_GET", "MEMBER_GET_FIELD_SLOT", "MEMBER_SET", "MEMBER_SET_FIELD_SLOT",
        "MEMBER_IVK", "REGEX_LITERAL"}
<1>1. Bytes!EvalReferences = Bytes!SkipReferences
  BY DEF Bytes!SkipReferences, Bytes!EvalReferences
<1>2. Bytes!EvalCalls = Bytes!SkipCalls
  BY DEF Bytes!SkipCalls, Bytes!EvalCalls
<1>3. Bytes!EvalOperators = Bytes!SkipOperators
  BY DEF Bytes!SkipOperators, Bytes!EvalOperators
<1>4. DOMAIN Bytes!EvalAssignments = {"VAR_SET", "LOCAL_SET"}
  BY DEF Bytes!EvalAssignments
<1>5. DOMAIN Bytes!EvalLiterals = {"ARRAY_LITERAL", "DICT_LITERAL"}
  BY DEF Bytes!EvalLiterals
<1>6. DOMAIN Bytes!EvalTypes = {"TYPED_INTRINSIC", "TYPECHECK", "CAST", "TERNARY"}
  BY DEF Bytes!EvalTypes
<1>7. DOMAIN Bytes!EvalIndexing = {"INDEX_GET", "TYPED_INDEX_GET", "INDEX_SET", "TYPED_INDEX_SET"}
  BY DEF Bytes!EvalIndexing
<1>8. DOMAIN Bytes!EvalMembers =
       {"NEWOBJ", "MEMBER_GET", "MEMBER_GET_FIELD_SLOT", "MEMBER_SET", "MEMBER_SET_FIELD_SLOT",
        "MEMBER_IVK", "REGEX_LITERAL"}
  BY DEF Bytes!EvalMembers
<1> QED
  BY <1>1, <1>2, <1>3, <1>4, <1>5, <1>6, <1>7, <1>8

(* What a table made of two holds.                                         *)
LEMMA TablesJoined ==
  /\ \E a, b, d :
       /\ a = Bytes!Joined(Bytes!SkipMembers, Bytes!SkipIndexing)
       /\ b = Bytes!Joined(Bytes!SkipOperators, a)
       /\ d = Bytes!Joined(Bytes!SkipCalls, b)
       /\ Bytes!SkipExprLayouts = Bytes!Joined(Bytes!SkipReferences, d)
  /\ \E a, b, d, e, f, g :
       /\ a = Bytes!Joined(Bytes!EvalIndexing, Bytes!EvalMembers)
       /\ b = Bytes!Joined(Bytes!EvalTypes, a)
       /\ d = Bytes!Joined(Bytes!EvalLiterals, b)
       /\ e = Bytes!Joined(Bytes!EvalAssignments, d)
       /\ f = Bytes!Joined(Bytes!EvalOperators, e)
       /\ g = Bytes!Joined(Bytes!EvalCalls, f)
       /\ Bytes!EvalLayouts = Bytes!Joined(Bytes!EvalReferences, g)
BY Zenon DEF Bytes!SkipExprLayouts, Bytes!EvalLayouts

LEMMA SkipExprsAre ==
  /\ DOMAIN Bytes!SkipExprLayouts =
       ReferenceOps \cup CallOps \cup OperatorOps \cup MemberOps \cup IndexingOps
  /\ \A op \in DOMAIN Bytes!SkipExprLayouts : Bytes!SkipExprLayouts[op] =
       IF op \in ReferenceOps THEN Bytes!SkipReferences[op]
       ELSE IF op \in CallOps THEN Bytes!SkipCalls[op]
       ELSE IF op \in OperatorOps THEN Bytes!SkipOperators[op]
       ELSE IF op \in MemberOps THEN Bytes!SkipMembers[op]
       ELSE Bytes!SkipIndexing[op]
<1>1. PICK a, b, d :
       /\ a = Bytes!Joined(Bytes!SkipMembers, Bytes!SkipIndexing)
       /\ b = Bytes!Joined(Bytes!SkipOperators, a)
       /\ d = Bytes!Joined(Bytes!SkipCalls, b)
       /\ Bytes!SkipExprLayouts = Bytes!Joined(Bytes!SkipReferences, d)
  BY TablesJoined
<1>2. /\ DOMAIN a = MemberOps \cup IndexingOps
      /\ \A op \in DOMAIN a :
           a[op] = IF op \in MemberOps THEN Bytes!SkipMembers[op] ELSE Bytes!SkipIndexing[op]
  <2>1. a = Bytes!Joined(Bytes!SkipMembers, Bytes!SkipIndexing)
    BY <1>1
  <2>2. MemberOps = DOMAIN Bytes!SkipMembers /\ IndexingOps = DOMAIN Bytes!SkipIndexing
    BY SkipOps
  <2> QED
    BY <2>1, <2>2 DEF Bytes!Joined
<1>3. /\ DOMAIN b = OperatorOps \cup DOMAIN a
      /\ \A op \in DOMAIN b : b[op] = IF op \in OperatorOps THEN Bytes!SkipOperators[op] ELSE a[op]
  <2>1. b = Bytes!Joined(Bytes!SkipOperators, a)
    BY <1>1
  <2>2. OperatorOps = DOMAIN Bytes!SkipOperators
    BY SkipOps, EvalOps
  <2> QED
    BY <2>1, <2>2 DEF Bytes!Joined
<1>4. /\ DOMAIN d = CallOps \cup DOMAIN b
      /\ \A op \in DOMAIN d : d[op] = IF op \in CallOps THEN Bytes!SkipCalls[op] ELSE b[op]
  <2>1. d = Bytes!Joined(Bytes!SkipCalls, b)
    BY <1>1
  <2>2. CallOps = DOMAIN Bytes!SkipCalls
    BY SkipOps, EvalOps
  <2> QED
    BY <2>1, <2>2 DEF Bytes!Joined
<1>5. /\ DOMAIN Bytes!SkipExprLayouts = ReferenceOps \cup DOMAIN d
      /\ \A op \in DOMAIN Bytes!SkipExprLayouts : Bytes!SkipExprLayouts[op] =
           IF op \in ReferenceOps THEN Bytes!SkipReferences[op] ELSE d[op]
  <2>1. Bytes!SkipExprLayouts = Bytes!Joined(Bytes!SkipReferences, d)
    BY <1>1
  <2>2. ReferenceOps = DOMAIN Bytes!SkipReferences
    BY SkipOps, EvalOps
  <2> QED
    BY <2>1, <2>2 DEF Bytes!Joined
<1> QED
  BY <1>2, <1>3, <1>4, <1>5

LEMMA EvalExprsAre ==
  /\ ExprOps = ReferenceOps \cup CallOps \cup OperatorOps \cup MemberOps \cup IndexingOps
  /\ \A op \in ExprOps : Bytes!EvalLayouts[op] =
       IF op \in ReferenceOps THEN Bytes!SkipReferences[op]
       ELSE IF op \in CallOps THEN Bytes!SkipCalls[op]
       ELSE IF op \in OperatorOps THEN Bytes!SkipOperators[op]
       ELSE IF op \in DOMAIN Bytes!EvalAssignments THEN Bytes!EvalAssignments[op]
       ELSE IF op \in DOMAIN Bytes!EvalLiterals THEN Bytes!EvalLiterals[op]
       ELSE IF op \in DOMAIN Bytes!EvalTypes THEN Bytes!EvalTypes[op]
       ELSE IF op \in DOMAIN Bytes!EvalIndexing THEN Bytes!EvalIndexing[op]
       ELSE Bytes!EvalMembers[op]
<1>1. PICK a, b, d, e, f, g :
       /\ a = Bytes!Joined(Bytes!EvalIndexing, Bytes!EvalMembers)
       /\ b = Bytes!Joined(Bytes!EvalTypes, a)
       /\ d = Bytes!Joined(Bytes!EvalLiterals, b)
       /\ e = Bytes!Joined(Bytes!EvalAssignments, d)
       /\ f = Bytes!Joined(Bytes!EvalOperators, e)
       /\ g = Bytes!Joined(Bytes!EvalCalls, f)
       /\ Bytes!EvalLayouts = Bytes!Joined(Bytes!EvalReferences, g)
  BY TablesJoined
<1>2. /\ DOMAIN a = DOMAIN Bytes!EvalIndexing \cup DOMAIN Bytes!EvalMembers
      /\ \A op \in DOMAIN a : a[op] =
           IF op \in DOMAIN Bytes!EvalIndexing THEN Bytes!EvalIndexing[op] ELSE Bytes!EvalMembers[op]
  <2>1. a = Bytes!Joined(Bytes!EvalIndexing, Bytes!EvalMembers)
    BY <1>1
  <2>2. DOMAIN Bytes!EvalIndexing = DOMAIN Bytes!EvalIndexing
    OBVIOUS
  <2> QED
    BY <2>1, <2>2 DEF Bytes!Joined
<1>3. /\ DOMAIN b = DOMAIN Bytes!EvalTypes \cup DOMAIN a
      /\ \A op \in DOMAIN b :
           b[op] = IF op \in DOMAIN Bytes!EvalTypes THEN Bytes!EvalTypes[op] ELSE a[op]
  <2>1. b = Bytes!Joined(Bytes!EvalTypes, a)
    BY <1>1
  <2>2. DOMAIN Bytes!EvalTypes = DOMAIN Bytes!EvalTypes
    OBVIOUS
  <2> QED
    BY <2>1, <2>2 DEF Bytes!Joined
<1>4. /\ DOMAIN d = DOMAIN Bytes!EvalLiterals \cup DOMAIN b
      /\ \A op \in DOMAIN d :
           d[op] = IF op \in DOMAIN Bytes!EvalLiterals THEN Bytes!EvalLiterals[op] ELSE b[op]
  <2>1. d = Bytes!Joined(Bytes!EvalLiterals, b)
    BY <1>1
  <2>2. DOMAIN Bytes!EvalLiterals = DOMAIN Bytes!EvalLiterals
    OBVIOUS
  <2> QED
    BY <2>1, <2>2 DEF Bytes!Joined
<1>5. /\ DOMAIN e = DOMAIN Bytes!EvalAssignments \cup DOMAIN d
      /\ \A op \in DOMAIN e :
           e[op] = IF op \in DOMAIN Bytes!EvalAssignments THEN Bytes!EvalAssignments[op] ELSE d[op]
  <2>1. e = Bytes!Joined(Bytes!EvalAssignments, d)
    BY <1>1
  <2>2. DOMAIN Bytes!EvalAssignments = DOMAIN Bytes!EvalAssignments
    OBVIOUS
  <2> QED
    BY <2>1, <2>2 DEF Bytes!Joined
<1>6. /\ DOMAIN f = OperatorOps \cup DOMAIN e
      /\ \A op \in DOMAIN f : f[op] = IF op \in OperatorOps THEN Bytes!SkipOperators[op] ELSE e[op]
  <2>1. f = Bytes!Joined(Bytes!EvalOperators, e)
    BY <1>1
  <2>2. OperatorOps = DOMAIN Bytes!EvalOperators /\ Bytes!EvalOperators = Bytes!SkipOperators
    BY SkipOps, EvalOps
  <2> QED
    BY <2>1, <2>2 DEF Bytes!Joined
<1>7. /\ DOMAIN g = CallOps \cup DOMAIN f
      /\ \A op \in DOMAIN g : g[op] = IF op \in CallOps THEN Bytes!SkipCalls[op] ELSE f[op]
  <2>1. g = Bytes!Joined(Bytes!EvalCalls, f)
    BY <1>1
  <2>2. CallOps = DOMAIN Bytes!EvalCalls /\ Bytes!EvalCalls = Bytes!SkipCalls
    BY SkipOps, EvalOps
  <2> QED
    BY <2>1, <2>2 DEF Bytes!Joined
<1>8. /\ ExprOps = ReferenceOps \cup DOMAIN g
      /\ \A op \in ExprOps : Bytes!EvalLayouts[op] =
           IF op \in ReferenceOps THEN Bytes!SkipReferences[op] ELSE g[op]
  <2>1. Bytes!EvalLayouts = Bytes!Joined(Bytes!EvalReferences, g)
    BY <1>1
  <2>2. ReferenceOps = DOMAIN Bytes!EvalReferences /\ Bytes!EvalReferences = Bytes!SkipReferences
    BY SkipOps, EvalOps
  <2> QED
    BY <2>1, <2>2 DEF Bytes!Joined, ExprOps
<1>9. /\ MemberOps = DOMAIN Bytes!EvalAssignments \cup DOMAIN Bytes!EvalMembers
      /\ IndexingOps = DOMAIN Bytes!EvalLiterals \cup DOMAIN Bytes!EvalTypes
                       \cup DOMAIN Bytes!EvalIndexing
  BY EvalOps DEF MemberOps, IndexingOps
<1>10. ExprOps = ReferenceOps \cup CallOps \cup OperatorOps \cup MemberOps \cup IndexingOps
  BY <1>2, <1>3, <1>4, <1>5, <1>6, <1>7, <1>8, <1>9
<1>11. \A op \in DOMAIN e : e[op] =
       IF op \in DOMAIN Bytes!EvalAssignments THEN Bytes!EvalAssignments[op]
       ELSE IF op \in DOMAIN Bytes!EvalLiterals THEN Bytes!EvalLiterals[op]
       ELSE IF op \in DOMAIN Bytes!EvalTypes THEN Bytes!EvalTypes[op]
       ELSE IF op \in DOMAIN Bytes!EvalIndexing THEN Bytes!EvalIndexing[op]
       ELSE Bytes!EvalMembers[op]
  BY <1>2, <1>3, <1>4, <1>5
<1>12. \A op \in ExprOps : Bytes!EvalLayouts[op] =
       IF op \in ReferenceOps THEN Bytes!SkipReferences[op]
       ELSE IF op \in CallOps THEN Bytes!SkipCalls[op]
       ELSE IF op \in OperatorOps THEN Bytes!SkipOperators[op] ELSE e[op]
  BY <1>6, <1>7, <1>8
<1>13. \A op \in ExprOps : op \in ReferenceOps \/ op \in CallOps \/ op \in OperatorOps \/ op \in DOMAIN e
  BY <1>6, <1>7, <1>8
<1> QED
  BY <1>10, <1>11, <1>12, <1>13

(* skipExpr and evalExpr read the same of every expression.                *)
LEMMA SameTables ==
  /\ DOMAIN Bytes!SkipExprLayouts = ExprOps
  /\ \A op \in ExprOps : Bytes!SkipExprLayouts[op] = Bytes!EvalLayouts[op]
<1>1. \A op \in MemberOps :
        /\ op \in DOMAIN Bytes!EvalAssignments => Bytes!SkipMembers[op] = Bytes!EvalAssignments[op]
        /\ op \notin DOMAIN Bytes!EvalAssignments =>
             op \in DOMAIN Bytes!EvalMembers /\ Bytes!SkipMembers[op] = Bytes!EvalMembers[op]
  <2>1. \A op \in {"VAR_SET", "LOCAL_SET"} : Bytes!SkipMembers[op] = Bytes!EvalAssignments[op]
    BY DEF Bytes!SkipMembers, Bytes!EvalAssignments
  <2>2. \A op \in DOMAIN Bytes!EvalMembers : Bytes!SkipMembers[op] = Bytes!EvalMembers[op]
    <3>1. /\ Bytes!SkipMembers["NEWOBJ"] = Bytes!EvalMembers["NEWOBJ"]
          /\ Bytes!SkipMembers["MEMBER_GET"] = Bytes!EvalMembers["MEMBER_GET"]
          /\ Bytes!SkipMembers["MEMBER_GET_FIELD_SLOT"] = Bytes!EvalMembers["MEMBER_GET_FIELD_SLOT"]
          /\ Bytes!SkipMembers["MEMBER_SET"] = Bytes!EvalMembers["MEMBER_SET"]
          /\ Bytes!SkipMembers["MEMBER_SET_FIELD_SLOT"] = Bytes!EvalMembers["MEMBER_SET_FIELD_SLOT"]
          /\ Bytes!SkipMembers["MEMBER_IVK"] = Bytes!EvalMembers["MEMBER_IVK"]
          /\ Bytes!SkipMembers["REGEX_LITERAL"] = Bytes!EvalMembers["REGEX_LITERAL"]
      BY DEF Bytes!SkipMembers, Bytes!EvalMembers
    <3> QED
      BY <3>1, EvalOps
  <2> QED
    BY <2>1, <2>2, EvalOps DEF MemberOps
<1>2. \A op \in IndexingOps :
        /\ op \in DOMAIN Bytes!EvalLiterals => Bytes!SkipIndexing[op] = Bytes!EvalLiterals[op]
        /\ op \in DOMAIN Bytes!EvalTypes => Bytes!SkipIndexing[op] = Bytes!EvalTypes[op]
        /\ op \in DOMAIN Bytes!EvalIndexing => Bytes!SkipIndexing[op] = Bytes!EvalIndexing[op]
        /\ op \notin DOMAIN Bytes!EvalLiterals /\ op \notin DOMAIN Bytes!EvalTypes
             => op \in DOMAIN Bytes!EvalIndexing
  <2>1. \A op \in {"ARRAY_LITERAL", "DICT_LITERAL"} : Bytes!SkipIndexing[op] = Bytes!EvalLiterals[op]
    BY DEF Bytes!SkipIndexing, Bytes!EvalLiterals
  <2>2. /\ Bytes!SkipIndexing["TYPED_INTRINSIC"] = Bytes!EvalTypes["TYPED_INTRINSIC"]
        /\ Bytes!SkipIndexing["TYPECHECK"] = Bytes!EvalTypes["TYPECHECK"]
        /\ Bytes!SkipIndexing["CAST"] = Bytes!EvalTypes["CAST"]
        /\ Bytes!SkipIndexing["TERNARY"] = Bytes!EvalTypes["TERNARY"]
    BY DEF Bytes!SkipIndexing, Bytes!EvalTypes
  <2>3. /\ Bytes!SkipIndexing["INDEX_GET"] = Bytes!EvalIndexing["INDEX_GET"]
        /\ Bytes!SkipIndexing["TYPED_INDEX_GET"] = Bytes!EvalIndexing["TYPED_INDEX_GET"]
        /\ Bytes!SkipIndexing["INDEX_SET"] = Bytes!EvalIndexing["INDEX_SET"]
        /\ Bytes!SkipIndexing["TYPED_INDEX_SET"] = Bytes!EvalIndexing["TYPED_INDEX_SET"]
    BY DEF Bytes!SkipIndexing, Bytes!EvalIndexing
  <2>4. /\ \A op \in DOMAIN Bytes!EvalTypes : Bytes!SkipIndexing[op] = Bytes!EvalTypes[op]
        /\ \A op \in DOMAIN Bytes!EvalIndexing : Bytes!SkipIndexing[op] = Bytes!EvalIndexing[op]
    BY <2>2, <2>3, EvalOps
  <2> QED
    BY <2>1, <2>4, EvalOps DEF IndexingOps
<1>3. MemberOps \cap IndexingOps = {}
  BY DEF MemberOps, IndexingOps
<1>4. /\ MemberOps = DOMAIN Bytes!EvalAssignments \cup DOMAIN Bytes!EvalMembers
      /\ IndexingOps = DOMAIN Bytes!EvalLiterals \cup DOMAIN Bytes!EvalTypes
                       \cup DOMAIN Bytes!EvalIndexing
  BY EvalOps DEF MemberOps, IndexingOps
<1> QED
  BY <1>1, <1>2, <1>3, <1>4, SkipExprsAre, EvalExprsAre

(* The layouts are sequences of items.                                     *)
LEMMA SomeItems ==
  ASSUME NEW S
  PROVE  /\ <<>> \in Seq(S)
         /\ \A a \in S : <<a>> \in Seq(S)
         /\ \A a, b \in S : <<a, b>> \in Seq(S)
         /\ \A a, b, d \in S : <<a, b, d>> \in Seq(S)
         /\ \A a, b, d, f \in S : <<a, b, d, f>> \in Seq(S)
         /\ \A a, b, d, f, g \in S : <<a, b, d, f, g>> \in Seq(S)
OBVIOUS

LEMMA SkipReferencesAre == \A op \in ReferenceOps : Bytes!SkipReferences[op] \in Seq(Bytes!SkipItems)
<1>1. Bytes!SkipReferences["INTOBJCREATE"] \in Seq(Bytes!SkipItems)
  <2>1. <<"object">> \in Seq(Bytes!SkipItems)
    BY SomeItems DEF Bytes!SkipItems
  <2> QED
    BY <2>1 DEF Bytes!SkipReferences
<1>2. Bytes!SkipReferences["VAR_REF"] \in Seq(Bytes!SkipItems)
  <2>1. <<"id">> \in Seq(Bytes!SkipItems)
    BY SomeItems DEF Bytes!SkipItems
  <2> QED
    BY <2>1 DEF Bytes!SkipReferences
<1>3. Bytes!SkipReferences["FUNC_REF"] \in Seq(Bytes!SkipItems)
  <2>1. <<"id">> \in Seq(Bytes!SkipItems)
    BY SomeItems DEF Bytes!SkipItems
  <2> QED
    BY <2>1 DEF Bytes!SkipReferences
<1>4. Bytes!SkipReferences["LOCAL_REF"] \in Seq(Bytes!SkipItems)
  <2>1. <<"slot">> \in Seq(Bytes!SkipItems)
    BY SomeItems DEF Bytes!SkipItems
  <2> QED
    BY <2>1 DEF Bytes!SkipReferences
<1>5. Bytes!SkipReferences["TYPED_LOCAL_REF"] \in Seq(Bytes!SkipItems)
  <2>1. <<"kind", "slot">> \in Seq(Bytes!SkipItems)
    BY SomeItems DEF Bytes!SkipItems
  <2> QED
    BY <2>1 DEF Bytes!SkipReferences
<1> QED
  BY <1>1, <1>2, <1>3, <1>4, <1>5 DEF ReferenceOps

LEMMA SkipCallsAre == \A op \in CallOps : Bytes!SkipCalls[op] \in Seq(Bytes!SkipItems)
<1>1. Bytes!SkipCalls["IVKFUNC"] \in Seq(Bytes!SkipItems)
  <2>1. <<"e", "args">> \in Seq(Bytes!SkipItems)
    BY SomeItems DEF Bytes!SkipItems
  <2> QED
    BY <2>1 DEF Bytes!SkipCalls
<1>2. Bytes!SkipCalls["CALL_DIRECT"] \in Seq(Bytes!SkipItems)
  <2>1. <<"id", "args">> \in Seq(Bytes!SkipItems)
    BY SomeItems DEF Bytes!SkipItems
  <2> QED
    BY <2>1 DEF Bytes!SkipCalls
<1>3. Bytes!SkipCalls["CALL_BUILTIN_MEMBER"] \in Seq(Bytes!SkipItems)
  <2>1. <<"e", "member", "args">> \in Seq(Bytes!SkipItems)
    BY SomeItems DEF Bytes!SkipItems
  <2> QED
    BY <2>1 DEF Bytes!SkipCalls
<1> QED
  BY <1>1, <1>2, <1>3 DEF CallOps

LEMMA SkipOperatorsAre == \A op \in OperatorOps : Bytes!SkipOperators[op] \in Seq(Bytes!SkipItems)
<1>1. Bytes!SkipOperators["UNARY_OPERATOR"] \in Seq(Bytes!SkipItems)
  <2>1. <<"oprtr", "e">> \in Seq(Bytes!SkipItems)
    BY SomeItems DEF Bytes!SkipItems
  <2> QED
    BY <2>1 DEF Bytes!SkipOperators
<1>2. Bytes!SkipOperators["BINARY_OPERATOR"] \in Seq(Bytes!SkipItems)
  <2>1. <<"oprtr", "e", "e">> \in Seq(Bytes!SkipItems)
    BY SomeItems DEF Bytes!SkipItems
  <2> QED
    BY <2>1 DEF Bytes!SkipOperators
<1>3. Bytes!SkipOperators["TYPED_BINARY"] \in Seq(Bytes!SkipItems)
  <2>1. <<"kind", "oprtr", "e", "e">> \in Seq(Bytes!SkipItems)
    BY SomeItems DEF Bytes!SkipItems
  <2> QED
    BY <2>1 DEF Bytes!SkipOperators
<1>4. Bytes!SkipOperators["TYPED_NEGATE"] \in Seq(Bytes!SkipItems)
  <2>1. <<"kind", "e">> \in Seq(Bytes!SkipItems)
    BY SomeItems DEF Bytes!SkipItems
  <2> QED
    BY <2>1 DEF Bytes!SkipOperators
<1>5. Bytes!SkipOperators["TYPED_COMPARE"] \in Seq(Bytes!SkipItems)
  <2>1. <<"kind", "oprtr", "e", "e">> \in Seq(Bytes!SkipItems)
    BY SomeItems DEF Bytes!SkipItems
  <2> QED
    BY <2>1 DEF Bytes!SkipOperators
<1> QED
  BY <1>1, <1>2, <1>3, <1>4, <1>5 DEF OperatorOps

LEMMA SkipMembersAre == \A op \in MemberOps : Bytes!SkipMembers[op] \in Seq(Bytes!SkipItems)
<1>1. Bytes!SkipMembers["NEWOBJ"] \in Seq(Bytes!SkipItems)
  <2>1. <<"id", "args">> \in Seq(Bytes!SkipItems)
    BY SomeItems DEF Bytes!SkipItems
  <2> QED
    BY <2>1 DEF Bytes!SkipMembers
<1>2. Bytes!SkipMembers["MEMBER_GET"] \in Seq(Bytes!SkipItems)
  <2>1. <<"e", "id">> \in Seq(Bytes!SkipItems)
    BY SomeItems DEF Bytes!SkipItems
  <2> QED
    BY <2>1 DEF Bytes!SkipMembers
<1>3. Bytes!SkipMembers["MEMBER_GET_FIELD_SLOT"] \in Seq(Bytes!SkipItems)
  <2>1. <<"e", "slot">> \in Seq(Bytes!SkipItems)
    BY SomeItems DEF Bytes!SkipItems
  <2> QED
    BY <2>1 DEF Bytes!SkipMembers
<1>4. Bytes!SkipMembers["MEMBER_SET"] \in Seq(Bytes!SkipItems)
  <2>1. <<"e", "id", "e">> \in Seq(Bytes!SkipItems)
    BY SomeItems DEF Bytes!SkipItems
  <2> QED
    BY <2>1 DEF Bytes!SkipMembers
<1>5. Bytes!SkipMembers["MEMBER_SET_FIELD_SLOT"] \in Seq(Bytes!SkipItems)
  <2>1. <<"e", "slot", "e">> \in Seq(Bytes!SkipItems)
    BY SomeItems DEF Bytes!SkipItems
  <2> QED
    BY <2>1 DEF Bytes!SkipMembers
<1>6. Bytes!SkipMembers["MEMBER_IVK"] \in Seq(Bytes!SkipItems)
  <2>1. <<"e", "id", "args">> \in Seq(Bytes!SkipItems)
    BY SomeItems DEF Bytes!SkipItems
  <2> QED
    BY <2>1 DEF Bytes!SkipMembers
<1>7. Bytes!SkipMembers["REGEX_LITERAL"] \in Seq(Bytes!SkipItems)
  <2>1. <<"id", "id">> \in Seq(Bytes!SkipItems)
    BY SomeItems DEF Bytes!SkipItems
  <2> QED
    BY <2>1 DEF Bytes!SkipMembers
<1>8. Bytes!SkipMembers["VAR_SET"] \in Seq(Bytes!SkipItems)
  <2>1. <<"id", "e">> \in Seq(Bytes!SkipItems)
    BY SomeItems DEF Bytes!SkipItems
  <2> QED
    BY <2>1 DEF Bytes!SkipMembers
<1>9. Bytes!SkipMembers["LOCAL_SET"] \in Seq(Bytes!SkipItems)
  <2>1. <<"slot", "e">> \in Seq(Bytes!SkipItems)
    BY SomeItems DEF Bytes!SkipItems
  <2> QED
    BY <2>1 DEF Bytes!SkipMembers
<1> QED
  BY <1>1, <1>2, <1>3, <1>4, <1>5, <1>6, <1>7, <1>8, <1>9 DEF MemberOps

LEMMA SkipIndexingAre == \A op \in IndexingOps : Bytes!SkipIndexing[op] \in Seq(Bytes!SkipItems)
<1>1. Bytes!SkipIndexing["INDEX_GET"] \in Seq(Bytes!SkipItems)
  <2>1. <<"e", "e">> \in Seq(Bytes!SkipItems)
    BY SomeItems DEF Bytes!SkipItems
  <2> QED
    BY <2>1 DEF Bytes!SkipIndexing
<1>2. Bytes!SkipIndexing["TYPED_INDEX_GET"] \in Seq(Bytes!SkipItems)
  <2>1. <<"kind", "e", "e">> \in Seq(Bytes!SkipItems)
    BY SomeItems DEF Bytes!SkipItems
  <2> QED
    BY <2>1 DEF Bytes!SkipIndexing
<1>3. Bytes!SkipIndexing["INDEX_SET"] \in Seq(Bytes!SkipItems)
  <2>1. <<"e", "e", "e">> \in Seq(Bytes!SkipItems)
    BY SomeItems DEF Bytes!SkipItems
  <2> QED
    BY <2>1 DEF Bytes!SkipIndexing
<1>4. Bytes!SkipIndexing["TYPED_INDEX_SET"] \in Seq(Bytes!SkipItems)
  <2>1. <<"kind", "e", "e", "e">> \in Seq(Bytes!SkipItems)
    BY SomeItems DEF Bytes!SkipItems
  <2> QED
    BY <2>1 DEF Bytes!SkipIndexing
<1>5. Bytes!SkipIndexing["ARRAY_LITERAL"] \in Seq(Bytes!SkipItems)
  <2>1. <<"args">> \in Seq(Bytes!SkipItems)
    BY SomeItems DEF Bytes!SkipItems
  <2> QED
    BY <2>1 DEF Bytes!SkipIndexing
<1>6. Bytes!SkipIndexing["DICT_LITERAL"] \in Seq(Bytes!SkipItems)
  <2>1. <<"pairs">> \in Seq(Bytes!SkipItems)
    BY SomeItems DEF Bytes!SkipItems
  <2> QED
    BY <2>1 DEF Bytes!SkipIndexing
<1>7. Bytes!SkipIndexing["TYPECHECK"] \in Seq(Bytes!SkipItems)
  <2>1. <<"e", "id">> \in Seq(Bytes!SkipItems)
    BY SomeItems DEF Bytes!SkipItems
  <2> QED
    BY <2>1 DEF Bytes!SkipIndexing
<1>8. Bytes!SkipIndexing["TERNARY"] \in Seq(Bytes!SkipItems)
  <2>1. <<"e", "e", "e">> \in Seq(Bytes!SkipItems)
    BY SomeItems DEF Bytes!SkipItems
  <2> QED
    BY <2>1 DEF Bytes!SkipIndexing
<1>9. Bytes!SkipIndexing["CAST"] \in Seq(Bytes!SkipItems)
  <2>1. <<"e", "id">> \in Seq(Bytes!SkipItems)
    BY SomeItems DEF Bytes!SkipItems
  <2> QED
    BY <2>1 DEF Bytes!SkipIndexing
<1>10. Bytes!SkipIndexing["TYPED_INTRINSIC"] \in Seq(Bytes!SkipItems)
  <2>1. <<"kind", "oprtr", "e">> \in Seq(Bytes!SkipItems)
    BY SomeItems DEF Bytes!SkipItems
  <2> QED
    BY <2>1 DEF Bytes!SkipIndexing
<1> QED
  BY <1>1, <1>2, <1>3, <1>4, <1>5, <1>6, <1>7, <1>8, <1>9, <1>10 DEF IndexingOps

LEMMA SkipStmtLayoutsAre == \A op \in DeclOps : Bytes!SkipStmtLayouts[op] \in Seq(Bytes!SkipItems)
<1>1. Bytes!SkipStmtLayouts["VAR"] \in Seq(Bytes!SkipItems)
  <2>1. <<"id", "varinit">> \in Seq(Bytes!SkipItems)
    BY SomeItems DEF Bytes!SkipItems
  <2> QED
    BY <2>1 DEF Bytes!SkipStmtLayouts
<1>2. Bytes!SkipStmtLayouts["RETURN"] \in Seq(Bytes!SkipItems)
  <2>1. <<"init">> \in Seq(Bytes!SkipItems)
    BY SomeItems DEF Bytes!SkipItems
  <2> QED
    BY <2>1 DEF Bytes!SkipStmtLayouts
<1>3. Bytes!SkipStmtLayouts["SECURE_DECL"] \in Seq(Bytes!SkipItems)
  <2>1. <<"id", "optid", "optid", "e", "block">> \in Seq(Bytes!SkipItems)
    BY SomeItems DEF Bytes!SkipItems
  <2> QED
    BY <2>1 DEF Bytes!SkipStmtLayouts
<1>4. Bytes!SkipStmtLayouts["LOCAL_DECL"] \in Seq(Bytes!SkipItems)
  <2>1. <<"slot", "init">> \in Seq(Bytes!SkipItems)
    BY SomeItems DEF Bytes!SkipItems
  <2> QED
    BY <2>1 DEF Bytes!SkipStmtLayouts
<1>5. Bytes!SkipStmtLayouts["SECURE_LOCAL_DECL"] \in Seq(Bytes!SkipItems)
  <2>1. <<"slot", "optslot", "optid", "e", "block">> \in Seq(Bytes!SkipItems)
    BY SomeItems DEF Bytes!SkipItems
  <2> QED
    BY <2>1 DEF Bytes!SkipStmtLayouts
<1>6. Bytes!SkipStmtLayouts["CONDITIONAL"] \in Seq(Bytes!SkipItems)
  <2>1. <<"specs", "conditional_end">> \in Seq(Bytes!SkipItems)
    BY SomeItems DEF Bytes!SkipItems
  <2> QED
    BY <2>1 DEF Bytes!SkipStmtLayouts
<1>7. Bytes!SkipStmtLayouts["FUNC"] \in Seq(Bytes!SkipItems)
  <2>1. <<"function">> \in Seq(Bytes!SkipItems)
    BY SomeItems DEF Bytes!SkipItems
  <2> QED
    BY <2>1 DEF Bytes!SkipStmtLayouts
<1>8. Bytes!SkipStmtLayouts["CLASS_DEF"] \in Seq(Bytes!SkipItems)
  <2>1. <<"class">> \in Seq(Bytes!SkipItems)
    BY SomeItems DEF Bytes!SkipItems
  <2> QED
    BY <2>1 DEF Bytes!SkipStmtLayouts
<1> QED
  BY <1>1, <1>2, <1>3, <1>4, <1>5, <1>6, <1>7, <1>8 DEF DeclOps

LEMMA ExprLayoutsAre == \A op \in ExprOps : Bytes!SkipExprLayouts[op] \in Seq(Bytes!SkipItems)
BY SkipReferencesAre, SkipCallsAre, SkipOperatorsAre, SkipMembersAre, SkipIndexingAre,
   SkipExprsAre, SameTables

LEMMA OpsApart == ExprOps \cap DeclOps = {} /\ "BLOCK_BEGIN" \notin ExprOps \cup DeclOps
BY EvalExprsAre DEF ReferenceOps, CallOps, OperatorOps, MemberOps, IndexingOps, DeclOps

\* What is read of the construct behind its opcode.
Contents(op) == IF op = "BLOCK_BEGIN" THEN <<"stmts">> ELSE Bytes!SkippedStmt(op)

LEMMA ContentsAre ==
  /\ \A op : Contents(op) \in Seq(Bytes!SkipItems) /\ Bytes!SkippedStmt(op) \in Seq(Bytes!SkipItems)
             /\ Bytes!LayoutIn(Bytes!SkipExprLayouts, op) \in Seq(Bytes!SkipItems)
  /\ \A op \in ExprOps : /\ Contents(op) = Bytes!SkipExprLayouts[op]
                         /\ Bytes!SkippedStmt(op) = Contents(op)
                         /\ Bytes!LayoutIn(Bytes!SkipExprLayouts, op) = Contents(op)
  /\ \A op \in DeclOps : /\ Contents(op) = Bytes!SkipStmtLayouts[op]
                         /\ Bytes!SkippedStmt(op) = Contents(op)
<1>2. \A op : Bytes!LayoutIn(Bytes!SkipExprLayouts, op) \in Seq(Bytes!SkipItems)
  BY ExprLayoutsAre, SameTables, SomeItems DEF Bytes!LayoutIn
<1>3. \A op : Bytes!SkippedStmt(op) \in Seq(Bytes!SkipItems)
  <2> TAKE op
  <2>1. CASE op \in DeclOps
    BY <2>1, SkipStmtLayoutsAre, SkipOps DEF Bytes!SkippedStmt
  <2>2. CASE op \notin DeclOps
    <3>1. Bytes!SkippedStmt(op) = Bytes!LayoutIn(Bytes!SkipExprLayouts, op)
      BY <2>2, SkipOps DEF Bytes!SkippedStmt
    <3> QED
      BY <1>2, <3>1
  <2> QED
    BY <2>1, <2>2
<1>4. \A op : Contents(op) \in Seq(Bytes!SkipItems)
  <2>1. <<"stmts">> \in Seq(Bytes!SkipItems)
    BY SomeItems DEF Bytes!SkipItems
  <2> QED
    BY <1>3, <2>1 DEF Contents
<1>5. \A op \in ExprOps : Bytes!LayoutIn(Bytes!SkipExprLayouts, op) = Bytes!SkipExprLayouts[op]
  BY SameTables DEF Bytes!LayoutIn
<1>6. \A op \in ExprOps : Bytes!SkippedStmt(op) = Bytes!SkipExprLayouts[op]
  BY <1>5, OpsApart, SkipOps DEF Bytes!SkippedStmt
<1>7. \A op \in DeclOps : Bytes!SkippedStmt(op) = Bytes!SkipStmtLayouts[op]
  BY SkipOps DEF Bytes!SkippedStmt
<1>8. \A op \in ExprOps \cup DeclOps : Contents(op) = Bytes!SkippedStmt(op)
  BY OpsApart DEF Contents
<1> QED
  BY <1>2, <1>3, <1>4, <1>5, <1>6, <1>7, <1>8
-----------------------------------------------------------------------------
(* Ways through a stream.  A place is what is still to be read, and from   *)
(* where; x leads to y along M if y is in what M reaches from x.           *)
Places == Seq(Bytes!SkipItems) \X Nat

Leads(M, x, y) ==
  \A R \in SUBSET Places : y \in R /\ (\A m \in M : m[2] \in R => m[1] \in R) => x \in R

LEMMA LeadsHere ==
  ASSUME NEW M, NEW x PROVE Leads(M, x, x)
BY DEF Leads

LEMMA LeadsOn ==
  ASSUME NEW M, NEW x \in Places, NEW y \in Places, NEW z \in Places,
         <<x, y>> \in M, Leads(M, y, z)
  PROVE  Leads(M, x, z)
<1> SUFFICES ASSUME NEW R \in SUBSET Places, z \in R, \A m \in M : m[2] \in R => m[1] \in R
             PROVE  x \in R
  BY Zenon DEF Leads
<1>1. y \in R
  BY Zenon DEF Leads
<1> QED
  BY <1>1

LEMMA LeadsFrom ==
  ASSUME NEW M \in SUBSET (Places \X Places), NEW x \in Places, NEW z \in Places, Leads(M, x, z)
  PROVE  x = z \/ \E y \in Places : <<x, y>> \in M /\ Leads(M, y, z)
<1> DEFINE R == {u \in Places : u = z \/ \E y \in Places : <<u, y>> \in M /\ Leads(M, y, z)}
<1>1. z \in R
  OBVIOUS
<1>2. ASSUME NEW m \in M, m[2] \in R PROVE m[1] \in R
  <2>1. m = <<m[1], m[2]>> /\ m[1] \in Places /\ m[2] \in Places
    OBVIOUS
  <2>2. Leads(M, m[2], z)
    <3>1. CASE m[2] = z
      BY <3>1, LeadsHere
    <3>2. CASE \E y \in Places : <<m[2], y>> \in M /\ Leads(M, y, z)
      BY <2>1, <3>2, LeadsOn
    <3> QED
      BY <1>2, <3>1, <3>2
  <2> QED
    BY <2>1, <2>2
<1>3. R \in SUBSET Places
  OBVIOUS
<1> HIDE DEF R
<1>4. x \in R
  BY <1>1, <1>2, <1>3, Zenon DEF Leads
<1> QED
  BY <1>4 DEF R

LEMMA LeadsFurther ==
  ASSUME NEW M \in SUBSET (Places \X Places),
         NEW x \in Places, NEW y \in Places, NEW z \in Places, Leads(M, x, y), Leads(M, y, z)
  PROVE  Leads(M, x, z)
<1> DEFINE R == {u \in Places : Leads(M, u, z)}
<1>1. y \in R
  OBVIOUS
<1>2. ASSUME NEW m \in M, m[2] \in R PROVE m[1] \in R
  <2>1. m = <<m[1], m[2]>> /\ m[1] \in Places /\ m[2] \in Places
    OBVIOUS
  <2> QED
    BY <1>2, <2>1, LeadsOn
<1>3. R \in SUBSET Places
  OBVIOUS
<1> HIDE DEF R
<1>4. x \in R
  BY <1>1, <1>2, <1>3, Zenon DEF Leads
<1> QED
  BY <1>4 DEF R
-----------------------------------------------------------------------------
(* Streams.                                                                *)
PlainKinds ==
  {"id", "slot", "kind", "object", "member", "attributes", "function", "class",
   "conditional_end", "end"}
Operators ==
  {"+", "-", "*", "/", "%", "==", "!=", "<", "<=", ">", ">=", "&&", "||", "&", "|", "^", "<<",
   ">>", "!", "~", "sqrt"}

Tokens ==
  [t : {"op"}, op : ExprOps \cup DeclOps \cup {"BLOCK_BEGIN"}, size : Nat \ {0}, kids : Seq(Nat)]
  \cup [t : PlainKinds] \cup [t : {"oprtr"}, v : Operators] \cup [t : {"flag"}, v : BOOLEAN]
  \cup [t : {"condtype"}, v : {"IF", "ELSE", "LOOPIF"}] \cup [t : {"count"}, n : Nat]

LEMMA TokenIs ==
  ASSUME NEW tok \in Tokens
  PROVE  /\ tok.t \in PlainKinds \cup {"op", "oprtr", "flag", "condtype", "count"}
         /\ tok.t = "op" => tok.op \in ExprOps \cup DeclOps \cup {"BLOCK_BEGIN"}
                            /\ tok.size \in Nat /\ tok.size > 0
         /\ tok.t = "flag" => tok.v \in BOOLEAN
         /\ tok.t = "condtype" => tok.v \in {"IF", "ELSE", "LOOPIF"}
         /\ tok.t = "count" => tok.n \in Nat
<1>1. CASE tok \in [t : {"op"}, op : ExprOps \cup DeclOps \cup {"BLOCK_BEGIN"},
                    size : Nat \ {0}, kids : Seq(Nat)]
  BY <1>1
<1>2. CASE tok \in [t : PlainKinds]
  BY <1>2 DEF PlainKinds
<1>3. CASE tok \in [t : {"oprtr"}, v : Operators]
  BY <1>3
<1>4. CASE tok \in [t : {"flag"}, v : BOOLEAN]
  BY <1>4
<1>5. CASE tok \in [t : {"condtype"}, v : {"IF", "ELSE", "LOOPIF"}]
  BY <1>5
<1>6. CASE tok \in [t : {"count"}, n : Nat]
  BY <1>6
<1> QED
  BY <1>1, <1>2, <1>3, <1>4, <1>5, <1>6 DEF Tokens

Stmts == ExprOps \cup DeclOps

\* One item is read, a construct as a whole.
Moves(c, x, y) ==
  LET item == Head(x[1])  rest == Tail(x[1])  p == x[2]  tok == c[p]
  IN /\ x[1] # <<>> /\ p \in DOMAIN c
     /\ \/ item = "stmts" /\ tok.t = "end" /\ y = <<rest, p + 1>>
        \/ item = "stmts" /\ tok.t = "op" /\ tok.op \in Stmts /\ y = <<x[1], p + tok.size>>
        \/ item = "block" /\ Bytes!OpensBlock(tok) /\ y = <<rest, p + tok.size>>
        \/ item = "e" /\ tok.t = "op" /\ tok.op \in ExprOps /\ y = <<rest, p + tok.size>>
        \/ /\ item \in Bytes!Operands /\ tok.t = Bytes!Wanted(item)
           /\ item = "spec" => tok.v \in {"IF", "ELSE"}
           /\ y = <<Bytes!Skipped(item, tok) \o rest, p + 1>>

Jumps(c) == {m \in Places \X Places : Moves(c, m[1], m[2])}

\* One token is read, as SkipTo does.
Reads(c, x, y) ==
  LET item == Head(x[1])  rest == Tail(x[1])  p == x[2]  tok == Bytes!TokenAt(c, p)
  IN /\ x[1] # <<>>
     /\ \/ item = "stmts" /\ tok.t = "end" /\ y = <<rest, p + 1>>
        \/ item = "stmts" /\ tok.t # "end" /\ Bytes!IsCode(tok)
           /\ y = <<Bytes!SkippedStmt(Bytes!OpcodeOf(tok)) \o x[1], p + 1>>
        \/ item = "block" /\ Bytes!OpensBlock(tok) /\ y = <<<<"stmts">> \o rest, p + 1>>
        \/ item = "block" /\ ~Bytes!OpensBlock(tok) /\ Bytes!IsCode(tok) /\ y = <<rest, p + 1>>
        \/ tok.t = Bytes!Wanted(item) /\ y = <<Bytes!Skipped(item, tok) \o rest, p + 1>>

Tokenwise(c) == {m \in Places \X Places : Reads(c, m[1], m[2])}

LEMMA RepeatIs ==
  ASSUME NEW S, NEW a \in S, NEW n \in Nat
  PROVE  Bytes!Repeat(a, n) \in Seq(S)
BY DEF Bytes!Repeat

(* What an item stands for is items.                                       *)
LEMMA SkippedIs ==
  ASSUME NEW item \in Bytes!SkipItems, NEW tok \in Tokens, tok.t = Bytes!Wanted(item)
  PROVE  Bytes!Skipped(item, tok) \in Seq(Bytes!SkipItems)
<1>0. /\ tok.t = "flag" => tok.v \in BOOLEAN
      /\ tok.t = "count" => tok.n \in Nat
  BY TokenIs
<1>1. /\ \A a \in Bytes!SkipItems : <<a>> \in Seq(Bytes!SkipItems)
      /\ \A a, b \in Bytes!SkipItems : <<a, b>> \in Seq(Bytes!SkipItems)
      /\ <<>> \in Seq(Bytes!SkipItems)
      /\ {"e", "spec", "id", "slot", "attributes", "block"} \subseteq Bytes!SkipItems
  BY SomeItems DEF Bytes!SkipItems
<1>2. CASE item = "e"
  <2>1. Bytes!Skipped(item, tok) = Bytes!LayoutIn(Bytes!SkipExprLayouts, tok.op)
    BY <1>2 DEF Bytes!Skipped, Bytes!FlagItems
  <2> QED
    BY <2>1, ContentsAre
<1>3. CASE item \in Bytes!FlagItems
  <2>1. tok.v \in BOOLEAN
    <3>1. tok.t = "flag"
      BY <1>3 DEF Bytes!Wanted, Bytes!FlagItems, Bytes!CountItems, Bytes!ExprItems
    <3> QED
      BY <1>0, <3>1
  <2>2. Bytes!Announced(item, tok.v) \in Seq(Bytes!SkipItems)
    <3>1. (IF item = "varinit" THEN <<"attributes">> ELSE <<>>) \in Seq(Bytes!SkipItems)
      BY <1>1
    <3>2. (IF ~tok.v THEN <<>>
           ELSE IF item = "optid" THEN <<"id">> ELSE IF item = "optslot" THEN <<"slot">> ELSE <<"e">>)
            \in Seq(Bytes!SkipItems)
      BY <1>1, <2>1
    <3>3. \A u, v \in Seq(Bytes!SkipItems) : u \o v \in Seq(Bytes!SkipItems)
      OBVIOUS
    <3> QED
      BY <3>1, <3>2, <3>3 DEF Bytes!Announced
  <2>3. Bytes!Skipped(item, tok) = Bytes!Announced(item, tok.v)
    BY <1>3 DEF Bytes!Skipped, Bytes!FlagItems
  <2> QED
    BY <2>2, <2>3
<1>4. CASE item \in Bytes!CountItems
  <2>1. tok.n \in Nat /\ 2 * tok.n \in Nat
    <3>1. tok.t = "count"
      BY <1>4 DEF Bytes!Wanted, Bytes!FlagItems, Bytes!CountItems, Bytes!ExprItems
    <3> QED
      BY <1>0, <3>1
  <2>2. /\ Bytes!Repeat("e", tok.n) \in Seq(Bytes!SkipItems)
        /\ Bytes!Repeat("e", 2 * tok.n) \in Seq(Bytes!SkipItems)
        /\ Bytes!Repeat("spec", tok.n) \in Seq(Bytes!SkipItems)
    BY <1>1, <2>1, RepeatIs
  <2>3. Bytes!Skipped(item, tok) \in
          {Bytes!Repeat("e", tok.n), Bytes!Repeat("e", 2 * tok.n), Bytes!Repeat("spec", tok.n)}
    BY <1>4 DEF Bytes!Skipped, Bytes!CountItems, Bytes!FlagItems
  <2> QED
    BY <2>2, <2>3
<1>5. CASE item = "spec"
  BY <1>1, <1>5 DEF Bytes!Skipped, Bytes!SkipSpec, Bytes!FlagItems
<1>6. CASE item \notin Bytes!FlagItems \cup Bytes!CountItems \cup {"e", "spec"}
  BY <1>1, <1>6 DEF Bytes!Skipped, Bytes!CountItems
<1> QED
  BY <1>2, <1>3, <1>4, <1>5, <1>6
-----------------------------------------------------------------------------
(* Skipping token by token.                                                *)
LEMMA WantedIs ==
  ASSUME NEW item \in Bytes!SkipItems
  PROVE  /\ Bytes!Wanted(item) # "eof"
         /\ item \in {"stmts", "block"} => Bytes!Wanted(item) = item
         /\ item = "e" => Bytes!Wanted(item) = "op"
         /\ item \in Bytes!Operands => Bytes!Wanted(item) # "op"
BY DEF Bytes!SkipItems, Bytes!Wanted, Bytes!FlagItems, Bytes!CountItems, Bytes!ExprItems, Bytes!Operands

LEMMA ReadsInside ==
  ASSUME NEW c \in Seq(Tokens), NEW x \in Places, NEW y, Reads(c, x, y)
  PROVE  /\ x[1] \in Seq(Bytes!SkipItems) /\ x[1] # <<>> /\ x[2] \in Nat
         /\ Head(x[1]) \in Bytes!SkipItems /\ Tail(x[1]) \in Seq(Bytes!SkipItems)
         /\ x[2] \in DOMAIN c /\ Bytes!TokenAt(c, x[2]) = c[x[2]] /\ c[x[2]] \in Tokens
<1>1. x[1] \in Seq(Bytes!SkipItems) /\ x[2] \in Nat
  BY DEF Places
<1>2. x[1] # <<>>
  BY DEF Reads
<1>3. Head(x[1]) \in Bytes!SkipItems /\ Tail(x[1]) \in Seq(Bytes!SkipItems)
  BY <1>1, <1>2
<1>4. x[2] \in DOMAIN c
  <2> SUFFICES ASSUME x[2] \notin DOMAIN c PROVE FALSE
    OBVIOUS
  <2>1. Bytes!TokenAt(c, x[2]).t = "eof"
    BY DEF Bytes!TokenAt
  <2>2. Bytes!TokenAt(c, x[2]).t # Bytes!Wanted(Head(x[1]))
    BY <1>3, <2>1, WantedIs
  <2> QED
    BY <2>1, <2>2 DEF Reads, Bytes!IsCode, Bytes!OpensBlock
<1>5. c[x[2]] \in Tokens
  BY <1>4
<1> QED
  BY <1>1, <1>2, <1>3, <1>4, <1>5 DEF Bytes!TokenAt

LEMMA ReadsStay ==
  ASSUME NEW c \in Seq(Tokens), NEW x \in Places, NEW y, Reads(c, x, y)
  PROVE  y \in Places
<1> DEFINE item == Head(x[1])
           rest == Tail(x[1])
           p == x[2]
           tok == Bytes!TokenAt(c, p)
<1>1. /\ x[1] \in Seq(Bytes!SkipItems) /\ item \in Bytes!SkipItems /\ rest \in Seq(Bytes!SkipItems)
      /\ p \in Nat /\ tok \in Tokens
  BY ReadsInside
<1>2. \A s \in Seq(Bytes!SkipItems) : <<s, p + 1>> \in Places
  BY <1>1 DEF Places
<1>3. \A s, t \in Seq(Bytes!SkipItems) : s \o t \in Seq(Bytes!SkipItems)
  OBVIOUS
<1>4. /\ \A op : Bytes!SkippedStmt(op) \in Seq(Bytes!SkipItems)
      /\ <<"stmts">> \in Seq(Bytes!SkipItems)
  <2>1. <<"stmts">> = Contents("BLOCK_BEGIN")
    BY DEF Contents
  <2> QED
    BY <2>1, ContentsAre
<1>5. tok.t = Bytes!Wanted(item) => Bytes!Skipped(item, tok) \in Seq(Bytes!SkipItems)
  BY <1>1, SkippedIs
<1>6. \/ y = <<rest, p + 1>>
      \/ y = <<Bytes!SkippedStmt(Bytes!OpcodeOf(tok)) \o x[1], p + 1>>
      \/ y = <<<<"stmts">> \o rest, p + 1>>
      \/ tok.t = Bytes!Wanted(item) /\ y = <<Bytes!Skipped(item, tok) \o rest, p + 1>>
  BY DEF Reads
<1> HIDE DEF item, rest, p, tok
<1>7. CASE y = <<rest, p + 1>>
  BY <1>1, <1>2, <1>7
<1>8. CASE y = <<Bytes!SkippedStmt(Bytes!OpcodeOf(tok)) \o x[1], p + 1>>
  <2>1. Bytes!SkippedStmt(Bytes!OpcodeOf(tok)) \o x[1] \in Seq(Bytes!SkipItems)
    BY <1>1, <1>3, <1>4
  <2> QED
    BY <1>2, <1>8, <2>1
<1>9. CASE y = <<<<"stmts">> \o rest, p + 1>>
  BY <1>1, <1>2, <1>3, <1>4, <1>9
<1>10. CASE tok.t = Bytes!Wanted(item) /\ y = <<Bytes!Skipped(item, tok) \o rest, p + 1>>
  BY <1>1, <1>2, <1>3, <1>5, <1>10
<1> QED
  BY <1>6, <1>7, <1>8, <1>9, <1>10

LEMMA ReadsOneWay ==
  ASSUME NEW c \in Seq(Tokens), NEW x \in Places, NEW y, NEW z, Reads(c, x, y), Reads(c, x, z)
  PROVE  y = z
<1>1. /\ Head(x[1]) \in Bytes!SkipItems
      /\ Bytes!TokenAt(c, x[2]).t \notin {"stmts", "block"}
  <2>1. Bytes!TokenAt(c, x[2]) \in Tokens
    BY ReadsInside
  <2> QED
    BY <2>1, ReadsInside, TokenIs DEF PlainKinds
<1>2. Head(x[1]) \in {"stmts", "block"} => Bytes!TokenAt(c, x[2]).t # Bytes!Wanted(Head(x[1]))
  BY <1>1, WantedIs
<1> DEFINE item == Head(x[1])
           rest == Tail(x[1])
           p == x[2]
           tok == Bytes!TokenAt(c, p)
           ways(v) ==
             \/ item = "stmts" /\ tok.t = "end" /\ v = <<rest, p + 1>>
             \/ item = "stmts" /\ tok.t # "end" /\ Bytes!IsCode(tok)
                /\ v = <<Bytes!SkippedStmt(Bytes!OpcodeOf(tok)) \o x[1], p + 1>>
             \/ item = "block" /\ Bytes!OpensBlock(tok) /\ v = <<<<"stmts">> \o rest, p + 1>>
             \/ item = "block" /\ ~Bytes!OpensBlock(tok) /\ Bytes!IsCode(tok) /\ v = <<rest, p + 1>>
             \/ tok.t = Bytes!Wanted(item) /\ v = <<Bytes!Skipped(item, tok) \o rest, p + 1>>
<1>3. ways(y) /\ ways(z)
  BY DEF Reads
<1>4. item \in {"stmts", "block"} => tok.t # Bytes!Wanted(item)
  BY <1>2
<1>5. Bytes!OpensBlock(tok) \in BOOLEAN
  BY DEF Bytes!OpensBlock
<1> DEFINE a == <<rest, p + 1>>
           b == <<Bytes!SkippedStmt(Bytes!OpcodeOf(tok)) \o x[1], p + 1>>
           d == <<<<"stmts">> \o rest, p + 1>>
           e == <<Bytes!Skipped(item, tok) \o rest, p + 1>>
<1> HIDE DEF item, rest, p, tok, a, b, d, e
<1>6. ASSUME NEW v, ways(v)
      PROVE  v = IF item = "stmts" THEN IF tok.t = "end" THEN a ELSE b
                 ELSE IF item = "block" THEN IF Bytes!OpensBlock(tok) THEN d ELSE a
                 ELSE e
  <2>1. CASE item = "stmts"
    BY <1>4, <1>6, <2>1 DEF a, b
  <2>2. CASE item = "block"
    BY <1>4, <1>6, <2>2 DEF a, d
  <2>3. CASE item \notin {"stmts", "block"}
    BY <1>6, <2>3 DEF e
  <2> QED
    BY <2>1, <2>2, <2>3
<1> HIDE DEF ways
<1> QED
  BY <1>3, <1>6, Zenon

\* The equation of SkipTo.
Onward(c, f, x) ==
  LET todo == x[1]  p == x[2]  tok == Bytes!TokenAt(c, p)
  IN IF todo = <<>> THEN p
     ELSE CASE Head(todo) = "stmts" /\ tok.t = "end" -> f[<<Tail(todo), p + 1>>]
            [] Head(todo) = "stmts" /\ tok.t # "end" /\ Bytes!IsCode(tok)
                 -> f[<<Bytes!SkippedStmt(Bytes!OpcodeOf(tok)) \o todo, p + 1>>]
            [] Head(todo) = "block" /\ Bytes!OpensBlock(tok)
                 -> f[<<<<"stmts">> \o Tail(todo), p + 1>>]
            [] Head(todo) = "block" /\ ~Bytes!OpensBlock(tok) /\ Bytes!IsCode(tok)
                 -> f[<<Tail(todo), p + 1>>]
            [] tok.t = Bytes!Wanted(Head(todo))
                 -> f[<<Bytes!Skipped(Head(todo), tok) \o Tail(todo), p + 1>>]
            [] OTHER -> 0

LEMMA OnwardIs ==
  ASSUME NEW c \in Seq(Tokens), NEW x \in Places, NEW f
  PROVE  /\ x[1] = <<>> => Onward(c, f, x) = x[2]
         /\ \A y : Reads(c, x, y) => Onward(c, f, x) = f[y]
         /\ x[1] # <<>> /\ (\A y : ~Reads(c, x, y)) => Onward(c, f, x) = 0
<1>1. x[1] = <<>> => Onward(c, f, x) = x[2]
  BY DEF Onward
<1> SUFFICES ASSUME x[1] # <<>>
             PROVE  /\ \A y : Reads(c, x, y) => Onward(c, f, x) = f[y]
                    /\ (\A y : ~Reads(c, x, y)) => Onward(c, f, x) = 0
  BY <1>1 DEF Reads
<1> DEFINE item == Head(x[1])
           rest == Tail(x[1])
           p == x[2]
           tok == Bytes!TokenAt(c, p)
           a == <<rest, p + 1>>
           b == <<Bytes!SkippedStmt(Bytes!OpcodeOf(tok)) \o x[1], p + 1>>
           d == <<<<"stmts">> \o rest, p + 1>>
           e == <<Bytes!Skipped(item, tok) \o rest, p + 1>>
<1>2. item \in {"stmts", "block"} => tok.t # Bytes!Wanted(item)
  <2>1. item \in Bytes!SkipItems
    BY DEF Places
  <2>2. tok.t \notin {"stmts", "block"}
    <3>1. CASE p \in DOMAIN c
      <4>1. tok \in Tokens
        BY <3>1 DEF Bytes!TokenAt
      <4> QED
        BY <4>1, TokenIs DEF PlainKinds
    <3>2. CASE p \notin DOMAIN c
      BY <3>2 DEF Bytes!TokenAt
    <3> QED
      BY <3>1, <3>2
  <2> QED
    BY <2>1, <2>2, WantedIs
<1>3. Onward(c, f, x) =
        CASE item = "stmts" /\ tok.t = "end" -> f[a]
          [] item = "stmts" /\ tok.t # "end" /\ Bytes!IsCode(tok) -> f[b]
          [] item = "block" /\ Bytes!OpensBlock(tok) -> f[d]
          [] item = "block" /\ ~Bytes!OpensBlock(tok) /\ Bytes!IsCode(tok) -> f[a]
          [] tok.t = Bytes!Wanted(item) -> f[e]
          [] OTHER -> 0
  BY DEF Onward
<1>4. \A y : Reads(c, x, y) <=>
        \/ item = "stmts" /\ tok.t = "end" /\ y = a
        \/ item = "stmts" /\ tok.t # "end" /\ Bytes!IsCode(tok) /\ y = b
        \/ item = "block" /\ Bytes!OpensBlock(tok) /\ y = d
        \/ item = "block" /\ ~Bytes!OpensBlock(tok) /\ Bytes!IsCode(tok) /\ y = a
        \/ tok.t = Bytes!Wanted(item) /\ y = e
  BY DEF Reads
<1> HIDE DEF item, rest, p, tok, a, b, d, e
<1>5. CASE item = "stmts" /\ tok.t = "end"
  BY <1>2, <1>3, <1>4, <1>5
<1>6. CASE item = "stmts" /\ tok.t # "end" /\ Bytes!IsCode(tok)
  BY <1>2, <1>3, <1>4, <1>6
<1>7. CASE item = "block" /\ Bytes!OpensBlock(tok)
  BY <1>2, <1>3, <1>4, <1>7
<1>8. CASE item = "block" /\ ~Bytes!OpensBlock(tok) /\ Bytes!IsCode(tok)
  BY <1>2, <1>3, <1>4, <1>8
<1>9. CASE tok.t = Bytes!Wanted(item)
  BY <1>2, <1>3, <1>4, <1>9
<1>10. CASE /\ ~(item = "stmts" /\ tok.t = "end")
            /\ ~(item = "stmts" /\ tok.t # "end" /\ Bytes!IsCode(tok))
            /\ ~(item = "block" /\ Bytes!OpensBlock(tok))
            /\ ~(item = "block" /\ ~Bytes!OpensBlock(tok) /\ Bytes!IsCode(tok))
            /\ tok.t # Bytes!Wanted(item)
  BY <1>3, <1>4, <1>10
<1> QED
  BY <1>5, <1>6, <1>7, <1>8, <1>9, <1>10

LEMMA TokenwiseIs ==
  ASSUME NEW c \in Seq(Tokens), NEW x \in Places, NEW y, Reads(c, x, y)
  PROVE  y \in Places /\ <<x, y>> \in Tokenwise(c)
<1>1. y \in Places
  BY ReadsStay
<1> QED
  BY <1>1 DEF Tokenwise

LEMMA TokenwiseWays ==
  ASSUME NEW c
  PROVE  /\ Tokenwise(c) \in SUBSET (Places \X Places)
         /\ \A x, y : <<x, y>> \in Tokenwise(c) => Reads(c, x, y)
BY DEF Tokenwise

\* There is a function that satisfies it: where the tokens lead, if anywhere.
EndsOf(c, x) == {q \in Nat : Leads(Tokenwise(c), x, <<<<>>, q>>)}
SkippedTo(c) ==
  [x \in Places |-> IF EndsOf(c, x) = {} THEN 0 ELSE CHOOSE q : q \in EndsOf(c, x)]

LEMMA EndsArePlaces == \A q \in Nat : <<<<>>, q>> \in Places
BY SomeItems DEF Places

LEMMA SkippingExists ==
  ASSUME NEW c \in Seq(Tokens), NEW x \in Places
  PROVE  SkippedTo(c)[x] = Onward(c, SkippedTo(c), x)
<1> DEFINE M == Tokenwise(c)
           to(q) == Leads(M, x, <<<<>>, q>>)
<1>1. \A u \in Places : SkippedTo(c)[u] = IF EndsOf(c, u) = {} THEN 0 ELSE CHOOSE q : q \in EndsOf(c, u)
  BY Zenon DEF SkippedTo
<1>0. EndsOf(c, x) = {q \in Nat : to(q)}
  BY DEF EndsOf
<1>2. x = <<x[1], x[2]>> /\ x[1] \in Seq(Bytes!SkipItems) /\ x[2] \in Nat
  BY DEF Places
<1>3. CASE x[1] = <<>>
  <2>1. \A y : <<x, y>> \notin M
    BY <1>3, TokenwiseWays DEF Reads
  <2>2. \A q \in Nat : to(q) <=> q = x[2]
    <3> TAKE q \in Nat
    <3>1. to(q) => x = <<<<>>, q>>
      BY <2>1, EndsArePlaces, TokenwiseWays, LeadsFrom
    <3>2. x = <<<<>>, q>> => to(q)
      BY LeadsHere
    <3> QED
      BY <1>2, <1>3, <3>1, <3>2
  <2> HIDE DEF to
  <2>3. SkippedTo(c)[x] = x[2]
    <3>1. EndsOf(c, x) = {x[2]}
      BY <1>0, <1>2, <2>2
    <3> QED
      BY <1>1, <3>1
  <2> QED
    BY <1>3, <2>3, OnwardIs
<1>4. CASE \E y : Reads(c, x, y)
  <2>1. PICK y : Reads(c, x, y)
    BY <1>4
  <2>2. y \in Places /\ <<x, y>> \in M
    BY <2>1, TokenwiseIs
  <2>3. x[1] # <<>>
    BY <2>1 DEF Reads
  <2>4. \A q \in Nat : to(q) <=> Leads(M, y, <<<<>>, q>>)
    <3> TAKE q \in Nat
    <3>1. to(q) => Leads(M, y, <<<<>>, q>>)
      <4> HAVE to(q)
      <4>1. x # <<<<>>, q>>
        BY <2>3
      <4>2. PICK z \in Places : <<x, z>> \in M /\ Leads(M, z, <<<<>>, q>>)
        BY <4>1, EndsArePlaces, TokenwiseWays, LeadsFrom
      <4>3. z = y
        BY <2>1, <4>2, TokenwiseWays, ReadsOneWay
      <4> QED
        BY <4>2, <4>3
    <3>2. Leads(M, y, <<<<>>, q>>) => to(q)
      BY <2>2, EndsArePlaces, LeadsOn
    <3> QED
      BY <3>1, <3>2
  <2> HIDE DEF to
  <2>5. EndsOf(c, x) = EndsOf(c, y)
    BY <1>0, <2>4 DEF EndsOf
  <2>6. SkippedTo(c)[x] = SkippedTo(c)[y]
    BY <1>1, <2>2, <2>5, Zenon
  <2> QED
    BY <2>1, <2>6, OnwardIs
<1>5. CASE x[1] # <<>> /\ \A y : ~Reads(c, x, y)
  <2>1. \A q \in Nat : ~to(q)
    <3> SUFFICES ASSUME NEW q \in Nat, to(q) PROVE FALSE
      OBVIOUS
    <3>1. x # <<<<>>, q>>
      BY <1>5
    <3>2. \E y \in Places : <<x, y>> \in M
      BY <3>1, EndsArePlaces, TokenwiseWays, LeadsFrom
    <3> QED
      BY <1>5, <3>2, TokenwiseWays
  <2> HIDE DEF to
  <2>2. SkippedTo(c)[x] = 0
    BY <1>0, <1>1, <2>1
  <2> QED
    BY <1>5, <2>2, OnwardIs
<1> QED
  BY <1>3, <1>4, <1>5

LEMMA SkipToIs ==
  ASSUME NEW c \in Seq(Tokens), NEW items \in Seq(Bytes!SkipItems), NEW from \in Nat, NEW q \in Nat,
         Leads(Tokenwise(c), <<items, from>>, <<<<>>, q>>)
  PROVE  Bytes!SkipTo(c, items, from) = q
<1> DEFINE Good(f) == f = [x \in Places |-> Onward(c, f, x)]
           g == CHOOSE f : Good(f)
<1>1. Bytes!SkipTo(c, items, from) = g[<<items, from>>]
  BY Zenon DEF Bytes!SkipTo, Places, Onward
<1>2. Good(g)
  <2>1. Good(SkippedTo(c))
    <3>1. SkippedTo(c) = [x \in Places |-> SkippedTo(c)[x]]
      BY DEF SkippedTo
    <3> QED
      BY <3>1, SkippingExists
  <2> HIDE DEF Good
  <2> QED
    BY <2>1
<1> HIDE DEF g
<1> DEFINE R == {x \in Places : g[x] = q}
<1>3. <<<<>>, q>> \in R
  <2>1. <<<<>>, q>> \in Places /\ <<<<>>, q>>[1] = <<>> /\ <<<<>>, q>>[2] = q
    BY EndsArePlaces
  <2>2. g[<<<<>>, q>>] = Onward(c, g, <<<<>>, q>>)
    BY <1>2, <2>1
  <2> QED
    BY <2>1, <2>2, OnwardIs
<1>4. ASSUME NEW m \in Tokenwise(c), m[2] \in R PROVE m[1] \in R
  <2>1. m = <<m[1], m[2]>> /\ m[1] \in Places /\ m[2] \in Places /\ Reads(c, m[1], m[2])
    BY DEF Tokenwise
  <2>2. g[m[1]] = Onward(c, g, m[1])
    BY <1>2, <2>1
  <2>3. Onward(c, g, m[1]) = g[m[2]]
    BY <2>1, OnwardIs
  <2> QED
    BY <1>4, <2>1, <2>2, <2>3
<1>5. R \in SUBSET Places
  OBVIOUS
<1> HIDE DEF R
<1>6. <<items, from>> \in R
  BY <1>3, <1>4, <1>5, Zenon DEF Leads
<1> QED
  BY <1>1, <1>6 DEF R

LEMMA SameSequences ==
  ASSUME NEW S, NEW s \in Seq(S), NEW t \in Seq(S), Len(s) = Len(t), \A i \in 1..Len(s) : s[i] = t[i]
  PROVE  s = t
OBVIOUS

AssociativeOn(S) == \A u, v, w \in Seq(S) : (u \o v) \o w = u \o (v \o w)

LEMMA Associative ==
  ASSUME NEW S
  PROVE  AssociativeOn(S)
<1>1. \A u, v, w \in Seq(S) : (u \o v) \o w = u \o (v \o w)
  OBVIOUS
<1> QED
  BY <1>1 DEF AssociativeOn

LEMMA Concatenation ==
  ASSUME NEW S
  PROVE  /\ \A u, v, w \in Seq(S) : (u \o v) \o w = u \o (v \o w)
         /\ \A u, v \in Seq(S) : u \o v \in Seq(S)
         /\ \A u, v \in Seq(S) : u # <<>> =>
              u \o v # <<>> /\ Head(u \o v) = Head(u) /\ Tail(u \o v) = Tail(u) \o v
<1>1. \A u, v, w \in Seq(S) : (u \o v) \o w = u \o (v \o w)
  OBVIOUS
<1>2. \A u, v \in Seq(S) : u \o v \in Seq(S)
  OBVIOUS
<1>3. ASSUME NEW u \in Seq(S), NEW v \in Seq(S), u # <<>>
      PROVE  u \o v # <<>> /\ Head(u \o v) = Head(u) /\ Tail(u \o v) = Tail(u) \o v
  <2>1. Len(u) \in Nat /\ Len(v) \in Nat /\ Len(u) > 0
    BY <1>3
  <2>2. /\ u \o v \in Seq(S) /\ Len(u \o v) = Len(u) + Len(v)
        /\ \A i \in 1..(Len(u) + Len(v)) :
             (u \o v)[i] = IF i <= Len(u) THEN u[i] ELSE v[i - Len(u)]
    OBVIOUS
  <2>3. u \o v # <<>> /\ Head(u \o v) = Head(u)
    BY <1>3, <2>1, <2>2
  <2>4. /\ Tail(u) \in Seq(S) /\ Len(Tail(u)) = Len(u) - 1
        /\ \A i \in 1..(Len(u) - 1) : Tail(u)[i] = u[i + 1]
    BY <1>3, <2>1
  <2>5. /\ Tail(u \o v) \in Seq(S) /\ Len(Tail(u \o v)) = Len(u) + Len(v) - 1
        /\ \A i \in 1..(Len(u) + Len(v) - 1) : Tail(u \o v)[i] = (u \o v)[i + 1]
    <3>1. \A w \in Seq(S) : w # <<>> =>
            /\ Tail(w) \in Seq(S) /\ Len(Tail(w)) = Len(w) - 1
            /\ \A i \in 1..(Len(w) - 1) : Tail(w)[i] = w[i + 1]
      OBVIOUS
    <3> QED
      BY <2>2, <2>3, <3>1
  <2>6. /\ Tail(u) \o v \in Seq(S) /\ Len(Tail(u) \o v) = Len(u) - 1 + Len(v)
        /\ \A i \in 1..(Len(u) - 1 + Len(v)) :
             (Tail(u) \o v)[i] = IF i <= Len(u) - 1 THEN Tail(u)[i] ELSE v[i - (Len(u) - 1)]
    BY <2>1, <2>4
  <2>7. \A i \in 1..(Len(u) + Len(v) - 1) : Tail(u \o v)[i] = (Tail(u) \o v)[i]
    BY <2>1, <2>2, <2>4, <2>5, <2>6
  <2> DEFINE a == Tail(u \o v)
             b == Tail(u) \o v
  <2>8. a \in Seq(S) /\ b \in Seq(S) /\ Len(a) = Len(b) /\ \A i \in 1..Len(a) : a[i] = b[i]
    BY <2>1, <2>5, <2>6, <2>7
  <2> HIDE DEF a, b
  <2>9. a = b
    BY <2>8, SameSequences
  <2> QED
    BY <2>3, <2>9 DEF a, b
<1> QED
  BY <1>1, <1>2, <1>3

\* What stands behind what is read does not matter.
LEMMA ReadsBefore ==
  ASSUME NEW c \in Seq(Tokens), NEW x \in Places, NEW y \in Places, Reads(c, x, y),
         NEW more \in Seq(Bytes!SkipItems)
  PROVE  Reads(c, <<x[1] \o more, x[2]>>, <<y[1] \o more, y[2]>>)
<1> DEFINE item == Head(x[1])
           rest == Tail(x[1])
           p == x[2]
           tok == Bytes!TokenAt(c, p)
           s == Bytes!SkippedStmt(Bytes!OpcodeOf(tok))
           k == Bytes!Skipped(item, tok)
           I == Bytes!SkipItems
<1>1. /\ x[1] \in Seq(I) /\ x[1] # <<>> /\ rest \in Seq(I) /\ tok \in Tokens /\ item \in I
  BY ReadsInside
<1>2. /\ x[1] \o more # <<>> /\ Head(x[1] \o more) = item /\ Tail(x[1] \o more) = rest \o more
  BY <1>1, Concatenation
<1>3. s \in Seq(I) /\ <<"stmts">> \in Seq(I) /\ (tok.t = Bytes!Wanted(item) => k \in Seq(I))
  <2>1. <<"stmts">> = Contents("BLOCK_BEGIN")
    BY DEF Contents
  <2> QED
    BY <1>1, <2>1, ContentsAre, SkippedIs
<1>4. AssociativeOn(I)
  BY Associative, Zenon
<1>5. \/ item = "stmts" /\ tok.t = "end" /\ y = <<rest, p + 1>>
      \/ item = "stmts" /\ tok.t # "end" /\ Bytes!IsCode(tok) /\ y = <<s \o x[1], p + 1>>
      \/ item = "block" /\ Bytes!OpensBlock(tok) /\ y = <<<<"stmts">> \o rest, p + 1>>
      \/ item = "block" /\ ~Bytes!OpensBlock(tok) /\ Bytes!IsCode(tok) /\ y = <<rest, p + 1>>
      \/ tok.t = Bytes!Wanted(item) /\ y = <<k \o rest, p + 1>>
  BY DEF Reads
<1> SUFFICES LET z == <<y[1] \o more, y[2]>> IN
      \/ item = "stmts" /\ tok.t = "end" /\ z = <<rest \o more, p + 1>>
      \/ item = "stmts" /\ tok.t # "end" /\ Bytes!IsCode(tok) /\ z = <<s \o (x[1] \o more), p + 1>>
      \/ item = "block" /\ Bytes!OpensBlock(tok) /\ z = <<<<"stmts">> \o (rest \o more), p + 1>>
      \/ item = "block" /\ ~Bytes!OpensBlock(tok) /\ Bytes!IsCode(tok) /\ z = <<rest \o more, p + 1>>
      \/ tok.t = Bytes!Wanted(item) /\ z = <<k \o (rest \o more), p + 1>>
  BY <1>2, Zenon DEF Reads
<1>7. x[1] \in Seq(I) /\ more \in Seq(I)
  BY <1>1
<1> HIDE DEF item, rest, p, tok, s, k, I
<1>6. /\ (s \o x[1]) \o more = s \o (x[1] \o more)
      /\ (<<"stmts">> \o rest) \o more = <<"stmts">> \o (rest \o more)
      /\ tok.t = Bytes!Wanted(item) => (k \o rest) \o more = k \o (rest \o more)
  <2> DEFINE a == <<"stmts">>
  <2>1. rest \in Seq(I) /\ s \in Seq(I) /\ a \in Seq(I) /\ x[1] \in Seq(I) /\ more \in Seq(I)
    BY <1>1, <1>3, <1>7
  <2> HIDE DEF a
  <2>a. a \in Seq(I)
    BY <2>1
  <2>m. more \in Seq(I)
    BY <2>1
  <2>r. rest \in Seq(I)
    BY <2>1
  <2>2. (s \o x[1]) \o more = s \o (x[1] \o more)
    <3>1. s \in Seq(I)
      BY <2>1
    <3>2. x[1] \in Seq(I)
      BY <2>1
    <3> QED
      BY <1>4, <2>m, <3>1, <3>2, Zenon DEF AssociativeOn
  <2>3. (a \o rest) \o more = a \o (rest \o more)
    BY <1>4, <2>a, <2>m, <2>r, Zenon DEF AssociativeOn
  <2>4. ASSUME tok.t = Bytes!Wanted(item) PROVE (k \o rest) \o more = k \o (rest \o more)
    <3>1. k \in Seq(I)
      BY <1>3, <2>4
    <3> QED
      BY <1>4, <2>m, <2>r, <3>1, Zenon DEF AssociativeOn
  <2> QED
    BY <2>2, <2>3, <2>4 DEF a
<1> DEFINE z == <<y[1] \o more, y[2]>>
<1>8. CASE item = "stmts" /\ tok.t = "end" /\ y = <<rest, p + 1>>
  BY <1>8
<1>9. CASE item = "stmts" /\ tok.t # "end" /\ Bytes!IsCode(tok) /\ y = <<s \o x[1], p + 1>>
  BY <1>6, <1>9
<1>10. CASE item = "block" /\ Bytes!OpensBlock(tok) /\ y = <<<<"stmts">> \o rest, p + 1>>
  BY <1>6, <1>10
<1>11. CASE item = "block" /\ ~Bytes!OpensBlock(tok) /\ Bytes!IsCode(tok) /\ y = <<rest, p + 1>>
  BY <1>11
<1>12. CASE tok.t = Bytes!Wanted(item) /\ y = <<k \o rest, p + 1>>
  BY <1>6, <1>12
<1> QED
  BY <1>5, <1>8, <1>9, <1>10, <1>11, <1>12

LEMMA LeadsBefore ==
  ASSUME NEW c \in Seq(Tokens), NEW items \in Seq(Bytes!SkipItems), NEW p \in Nat, NEW q \in Nat,
         Leads(Tokenwise(c), <<items, p>>, <<<<>>, q>>), NEW more \in Seq(Bytes!SkipItems)
  PROVE  Leads(Tokenwise(c), <<items \o more, p>>, <<more, q>>)
<1> DEFINE with(u) == <<u[1] \o more, u[2]>>
           R == {u \in Places : Leads(Tokenwise(c), with(u), <<more, q>>)}
<1>1. \A u \in Places : with(u) \in Places
  <2> TAKE u \in Places
  <2>1. u[1] \in Seq(Bytes!SkipItems) /\ u[2] \in Nat
    BY DEF Places
  <2>2. u[1] \o more \in Seq(Bytes!SkipItems)
    BY <2>1, Concatenation
  <2> QED
    BY <2>1, <2>2 DEF Places
<1>2. <<more, q>> \in Places
  BY DEF Places
<1>3. <<<<>>, q>> \in R
  <2>1. with(<<<<>>, q>>) = <<more, q>>
    OBVIOUS
  <2> QED
    BY <2>1, LeadsHere, EndsArePlaces
<1>4. ASSUME NEW m \in Tokenwise(c), m[2] \in R PROVE m[1] \in R
  <2>1. m = <<m[1], m[2]>> /\ m[1] \in Places /\ m[2] \in Places /\ Reads(c, m[1], m[2])
    BY DEF Tokenwise
  <2>2. Reads(c, with(m[1]), with(m[2]))
    BY <2>1, ReadsBefore
  <2>3. <<with(m[1]), with(m[2])>> \in Tokenwise(c)
    BY <1>1, <2>1, <2>2, TokenwiseIs
  <2>4. with(m[1]) \in Places /\ with(m[2]) \in Places
    BY <1>1, <2>1
  <2> HIDE DEF with
  <2>5. Leads(Tokenwise(c), with(m[1]), <<more, q>>)
    BY <1>2, <1>4, <2>3, <2>4, LeadsOn
  <2> QED
    BY <2>1, <2>5
<1>5. R \in SUBSET Places
  OBVIOUS
<1>6. with(<<items, p>>) = <<items \o more, p>>
  OBVIOUS
<1> HIDE DEF R
<1>7. <<items, p>> \in R
  BY <1>3, <1>4, <1>5, Zenon DEF Leads
<1> QED
  BY <1>6, <1>7 DEF R
-----------------------------------------------------------------------------
(* A stream is aligned if every construct ends where its size says: from   *)
(* its contents its parts lead there, one as a whole after the other.      *)
IsNode(c, p) == p \in DOMAIN c /\ c[p].t = "op"
Behind(c, p) == p + c[p].size

LoopItems == <<"e", "block", "conditional_end">>

\* A loop repeats its condition, which therefore has a fixed place.
LoopAt(c, p) ==
  /\ c[p].op = "CONDITIONAL" /\ p + 1 \in DOMAIN c /\ p + 2 \in DOMAIN c
  /\ c[p + 1].t = "count" /\ c[p + 1].n = 1
  /\ c[p + 2].t = "condtype" /\ c[p + 2].v = "LOOPIF"
  /\ Leads(Jumps(c), <<LoopItems, p + 3>>, <<<<>>, Behind(c, p)>>)

Whole(c, p) ==
  LoopAt(c, p) \/ Leads(Jumps(c), <<Contents(c[p].op), p + 1>>, <<<<>>, Behind(c, p)>>)

Aligned(c) == c \in Seq(Tokens) /\ \A p : IsNode(c, p) => Whole(c, p)

LEMMA NodeIs ==
  ASSUME NEW c \in Seq(Tokens), NEW p, IsNode(c, p)
  PROVE  /\ p \in Nat /\ p > 0 /\ p <= Len(c)
         /\ c[p].op \in Stmts \cup {"BLOCK_BEGIN"} /\ c[p].size \in Nat /\ c[p].size > 0
         /\ Behind(c, p) \in Nat /\ Behind(c, p) > p /\ Bytes!EndAt(c, p) = Behind(c, p)
<1>1. c[p] \in Tokens /\ p \in 1..Len(c) /\ Len(c) \in Nat
  BY DEF IsNode
<1>2. c[p].op \in Stmts \cup {"BLOCK_BEGIN"} /\ c[p].size \in Nat /\ c[p].size > 0
  BY <1>1, TokenIs DEF IsNode, Stmts
<1> QED
  BY <1>1, <1>2 DEF Behind, IsNode, Bytes!EndAt, Bytes!TokenAt

\* What a move is, by what it reads.
LEMMA MovesAre ==
  ASSUME NEW c \in Seq(Tokens), NEW x \in Places, NEW y \in Places, Moves(c, x, y)
  PROVE  /\ x[1] \in Seq(Bytes!SkipItems) /\ x[1] # <<>> /\ x[2] \in Nat /\ x[2] \in DOMAIN c
         /\ c[x[2]] \in Tokens /\ y[2] \in Nat /\ y[2] > x[2]
         /\ y[2] = x[2] + 1 \/ (IsNode(c, x[2]) /\ y[2] = Behind(c, x[2]))
<1>1. /\ x[1] \in Seq(Bytes!SkipItems) /\ x[2] \in Nat /\ y[2] \in Nat
  BY DEF Places
<1>2. x[1] # <<>> /\ x[2] \in DOMAIN c
  BY DEF Moves
<1>3. c[x[2]] \in Tokens
  BY <1>2
<1>4. y[2] = x[2] + 1 \/ (c[x[2]].t = "op" /\ y[2] = x[2] + c[x[2]].size)
  <2>1. \/ \E s : y = <<s, x[2] + 1>>
        \/ c[x[2]].t = "op" /\ \E s : y = <<s, x[2] + c[x[2]].size>>
    BY Zenon DEF Moves, Bytes!OpensBlock
  <2> QED
    BY <2>1
<1>5. c[x[2]].t = "op" => c[x[2]].size \in Nat /\ c[x[2]].size > 0
  BY <1>3, TokenIs
<1> QED
  BY <1>1, <1>2, <1>3, <1>4, <1>5 DEF IsNode, Behind

\* A move reads the tokens of what it jumps over.
LEMMA MovesRead ==
  ASSUME NEW c \in Seq(Tokens), NEW x \in Places, NEW y \in Places, Moves(c, x, y),
         IsNode(c, x[2]) => Leads(Tokenwise(c), <<Contents(c[x[2]].op), x[2] + 1>>,
                                                <<<<>>, Behind(c, x[2])>>)
  PROVE  Leads(Tokenwise(c), x, y)
<1> DEFINE item == Head(x[1])
           rest == Tail(x[1])
           p == x[2]
           tok == c[p]
           I == Bytes!SkipItems
<1>1. /\ x[1] \in Seq(I) /\ x[1] # <<>> /\ p \in Nat /\ p \in DOMAIN c /\ tok \in Tokens
      /\ rest \in Seq(I) /\ item \in I
  BY MovesAre
<1>2. Bytes!TokenAt(c, p) = tok
  BY <1>1 DEF Bytes!TokenAt
<1>3. ASSUME Reads(c, x, y) PROVE Leads(Tokenwise(c), x, y)
  BY <1>3, TokenwiseIs, LeadsOn, LeadsHere
<1>4. ASSUME tok.t = "op", NEW more \in Seq(I), Reads(c, x, <<Contents(tok.op) \o more, p + 1>>),
             y = <<more, p + tok.size>>
      PROVE  Leads(Tokenwise(c), x, y)
  <2>1. IsNode(c, p) /\ Behind(c, p) = p + tok.size
    BY <1>1, <1>4 DEF IsNode, Behind
  <2>2. Contents(tok.op) \in Seq(I) /\ p + 1 \in Nat /\ Behind(c, p) \in Nat
    BY <1>1, <2>1, ContentsAre, NodeIs
  <2>3. Leads(Tokenwise(c), <<Contents(tok.op), p + 1>>, <<<<>>, Behind(c, p)>>)
    BY <2>1
  <2> DEFINE z == <<Contents(tok.op) \o more, p + 1>>
  <2>4. Leads(Tokenwise(c), z, <<more, Behind(c, p)>>)
    <3> HIDE DEF tok, p
    <3> QED
      BY <2>2, <2>3, LeadsBefore DEF I
  <2>5. z \in Places /\ <<x, z>> \in Tokenwise(c)
    BY <1>4, TokenwiseIs
  <2> QED
    BY <1>4, <2>1, <2>4, <2>5, LeadsOn
<1>5. \/ item = "stmts" /\ tok.t = "end" /\ y = <<rest, p + 1>>
      \/ item = "stmts" /\ tok.t = "op" /\ tok.op \in Stmts /\ y = <<x[1], p + tok.size>>
      \/ item = "block" /\ Bytes!OpensBlock(tok) /\ y = <<rest, p + tok.size>>
      \/ item = "e" /\ tok.t = "op" /\ tok.op \in ExprOps /\ y = <<rest, p + tok.size>>
      \/ /\ item \in Bytes!Operands /\ tok.t = Bytes!Wanted(item)
         /\ y = <<Bytes!Skipped(item, tok) \o rest, p + 1>>
  BY Zenon DEF Moves
<1>6. /\ item = "stmts" /\ tok.t = "end" => Reads(c, x, <<rest, p + 1>>)
      /\ item = "stmts" /\ tok.t # "end" /\ Bytes!IsCode(tok)
           => Reads(c, x, <<Bytes!SkippedStmt(Bytes!OpcodeOf(tok)) \o x[1], p + 1>>)
      /\ item = "block" /\ Bytes!OpensBlock(tok) => Reads(c, x, <<<<"stmts">> \o rest, p + 1>>)
      /\ tok.t = Bytes!Wanted(item) => Reads(c, x, <<Bytes!Skipped(item, tok) \o rest, p + 1>>)
  <2>1. item = "stmts" /\ tok.t = "end" => Reads(c, x, <<rest, p + 1>>)
    BY <1>1, <1>2, Zenon DEF Reads
  <2>2. item = "stmts" /\ tok.t # "end" /\ Bytes!IsCode(tok)
           => Reads(c, x, <<Bytes!SkippedStmt(Bytes!OpcodeOf(tok)) \o x[1], p + 1>>)
    BY <1>1, <1>2, Zenon DEF Reads
  <2>3. item = "block" /\ Bytes!OpensBlock(tok) => Reads(c, x, <<<<"stmts">> \o rest, p + 1>>)
    BY <1>1, <1>2, Zenon DEF Reads
  <2>4. tok.t = Bytes!Wanted(item) => Reads(c, x, <<Bytes!Skipped(item, tok) \o rest, p + 1>>)
    BY <1>1, <1>2, Zenon DEF Reads
  <2> QED
    BY <2>1, <2>2, <2>3, <2>4
<1> HIDE DEF item, rest, p, tok, I
<1>7. CASE item = "stmts" /\ tok.t = "end" /\ y = <<rest, p + 1>>
  BY <1>3, <1>6, <1>7
<1>8. CASE item = "stmts" /\ tok.t = "op" /\ tok.op \in Stmts /\ y = <<x[1], p + tok.size>>
  <2>1. Bytes!IsCode(tok) /\ Bytes!OpcodeOf(tok) = tok.op /\ tok.t # "end"
    BY <1>8 DEF Bytes!IsCode, Bytes!OpcodeOf
  <2>2. Bytes!SkippedStmt(tok.op) = Contents(tok.op)
    BY <1>8, ContentsAre DEF Stmts
  <2>3. Reads(c, x, <<Contents(tok.op) \o x[1], p + 1>>)
    BY <1>6, <1>8, <2>1, <2>2
  <2> QED
    BY <1>1, <1>4, <1>8, <2>3
<1>9. CASE item = "block" /\ Bytes!OpensBlock(tok) /\ y = <<rest, p + tok.size>>
  <2>1. tok.t = "op" /\ tok.op = "BLOCK_BEGIN"
    BY <1>9 DEF Bytes!OpensBlock
  <2>2. <<"stmts">> = Contents(tok.op)
    BY <2>1 DEF Contents
  <2>3. Reads(c, x, <<Contents(tok.op) \o rest, p + 1>>)
    BY <1>6, <1>9, <2>2
  <2> QED
    BY <1>1, <1>4, <1>9, <2>1, <2>3
<1>10. CASE item = "e" /\ tok.t = "op" /\ tok.op \in ExprOps /\ y = <<rest, p + tok.size>>
  <2>1. Bytes!Wanted(item) = "op"
    BY <1>1, <1>10, WantedIs DEF I
  <2>2. Bytes!Skipped(item, tok) = Contents(tok.op)
    <3>1. Bytes!Skipped(item, tok) = Bytes!LayoutIn(Bytes!SkipExprLayouts, tok.op)
      BY <1>10 DEF Bytes!Skipped, Bytes!FlagItems
    <3> QED
      BY <1>10, <3>1, ContentsAre
  <2>3. Reads(c, x, <<Contents(tok.op) \o rest, p + 1>>)
    BY <1>6, <1>10, <2>1, <2>2
  <2> QED
    BY <1>1, <1>4, <1>10, <2>3
<1>11. CASE tok.t = Bytes!Wanted(item) /\ y = <<Bytes!Skipped(item, tok) \o rest, p + 1>>
  BY <1>3, <1>6, <1>11
<1> QED
  BY <1>5, <1>7, <1>8, <1>9, <1>10, <1>11

LEMMA InnerReads ==
  ASSUME NEW c \in Seq(Tokens), NEW lo \in Nat, NEW q \in Nat, NEW x \in Places, x[2] >= lo,
         Leads(Jumps(c), x, <<<<>>, q>>),
         \A p : IsNode(c, p) /\ p >= lo /\ Behind(c, p) <= q =>
           Leads(Tokenwise(c), <<Contents(c[p].op), p + 1>>, <<<<>>, Behind(c, p)>>)
  PROVE  Leads(Tokenwise(c), x, <<<<>>, q>>)
<1> DEFINE R == {u \in Places : u[2] >= lo => u[2] <= q /\ Leads(Tokenwise(c), u, <<<<>>, q>>)}
<1>1. <<<<>>, q>> \in R
  BY EndsArePlaces, LeadsHere
<1>2. ASSUME NEW m \in Jumps(c), m[2] \in R PROVE m[1] \in R
  <2> DEFINE u == m[1]
             v == m[2]
  <2>1. u \in Places /\ v \in Places /\ Moves(c, u, v)
    BY DEF Jumps
  <2>2. /\ u[2] \in Nat /\ v[2] \in Nat /\ v[2] > u[2]
        /\ v[2] = u[2] + 1 \/ (IsNode(c, u[2]) /\ v[2] = Behind(c, u[2]))
    BY <2>1, MovesAre
  <2> SUFFICES ASSUME u[2] >= lo PROVE u[2] <= q /\ Leads(Tokenwise(c), u, <<<<>>, q>>)
    BY <2>1
  <2>3. v[2] >= lo /\ v[2] <= q /\ Leads(Tokenwise(c), v, <<<<>>, q>>)
    BY <1>2, <2>2
  <2>4. Leads(Tokenwise(c), u, v)
    <3>1. CASE IsNode(c, u[2]) /\ v[2] = Behind(c, u[2])
      BY <2>1, <2>2, <2>3, <3>1, MovesRead
    <3>2. CASE ~(IsNode(c, u[2]) /\ v[2] = Behind(c, u[2]))
      <4>1. v[2] = u[2] + 1
        BY <2>2, <3>2
      <4>2. IsNode(c, u[2]) => Behind(c, u[2]) > u[2]
        BY NodeIs
      <4>3. CASE ~IsNode(c, u[2])
        BY <2>1, <4>3, MovesRead
      <4>4. CASE IsNode(c, u[2])
        <5> DEFINE item == Head(u[1])
        <5>1. c[u[2]].t = "op"
          BY <4>4 DEF IsNode
        <5>2. v[2] = u[2] + c[u[2]].size \/ (item \in Bytes!Operands /\ c[u[2]].t = Bytes!Wanted(item))
          <6>1. \/ \E s : v = <<s, u[2] + c[u[2]].size>>
                \/ item \in Bytes!Operands /\ c[u[2]].t = Bytes!Wanted(item)
            BY <2>1, <5>1, Zenon DEF Moves
          <6> QED
            BY <6>1
        <5>3. item \in Bytes!SkipItems
          BY <2>1, MovesAre
        <5>4. item \in Bytes!Operands => Bytes!Wanted(item) # "op"
          BY <5>3, WantedIs
        <5> QED
          BY <3>2, <4>4, <5>1, <5>2, <5>4 DEF Behind
      <4> QED
        BY <4>3, <4>4
    <3> QED
      BY <3>1, <3>2
  <2> QED
    <3>1. Leads(Tokenwise(c), u, <<<<>>, q>>)
      BY <2>1, <2>3, <2>4, EndsArePlaces, TokenwiseWays, LeadsFurther
    <3> QED
      BY <2>2, <2>3, <3>1
<1>3. R \in SUBSET Places
  OBVIOUS
<1> HIDE DEF R
<1>4. x \in R
  BY <1>1, <1>2, <1>3, Zenon DEF Leads
<1> QED
  BY <1>4 DEF R
LEMMA ShortSequences ==
  /\ \A a : <<a>> # <<>> /\ Head(<<a>>) = a /\ Tail(<<a>>) = <<>>
  /\ \A a, b : <<a, b>> # <<>> /\ Head(<<a, b>>) = a /\ Tail(<<a, b>>) = <<b>>
  /\ \A a, b : <<a>> \o <<b>> = <<a, b>>
  /\ \A a, b, d : <<a, b>> \o <<d>> = <<a, b, d>>
<1>1. \A a : <<a>> # <<>> /\ Head(<<a>>) = a /\ Tail(<<a>>) = <<>>
  OBVIOUS
<1>2. \A a, b : <<a, b>> # <<>> /\ Head(<<a, b>>) = a /\ Tail(<<a, b>>) = <<b>>
  OBVIOUS
<1>3. ASSUME NEW S, NEW s \in Seq(S), NEW t \in Seq(S), Len(s) = Len(t), \A i \in 1..Len(s) : s[i] = t[i]
      PROVE  s = t
  BY <1>3
<1>4. \A a, b : <<a>> \o <<b>> = <<a, b>>
  <2> TAKE a, b
  <2> DEFINE u == <<a>> \o <<b>>
  <2>1. <<a>> \in Seq({a, b}) /\ <<b>> \in Seq({a, b}) /\ <<a, b>> \in Seq({a, b})
    OBVIOUS
  <2>2. u \in Seq({a, b}) /\ Len(u) = 2 /\ u[1] = a /\ u[2] = b
    BY <2>1
  <2> HIDE DEF u
  <2>3. u = <<a, b>>
    BY <1>3, <2>1, <2>2
  <2> QED
    BY <2>3 DEF u
<1>5. \A a, b, d : <<a, b>> \o <<d>> = <<a, b, d>>
  <2> TAKE a, b, d
  <2> DEFINE u == <<a, b>> \o <<d>>
  <2>1. <<a, b>> \in Seq({a, b, d}) /\ <<d>> \in Seq({a, b, d}) /\ <<a, b, d>> \in Seq({a, b, d})
    OBVIOUS
  <2>2. u \in Seq({a, b, d}) /\ Len(u) = 3 /\ u[1] = a /\ u[2] = b /\ u[3] = d
    BY <2>1
  <2> HIDE DEF u
  <2>3. u = <<a, b, d>>
    BY <1>3, <2>1, <2>2
  <2> QED
    BY <2>3 DEF u
<1> QED
  BY <1>1, <1>2, <1>4, <1>5

\* The contents of a loop, read as those of any conditional.
LEMMA LoopsRead ==
  ASSUME NEW c \in Seq(Tokens), NEW p, IsNode(c, p), LoopAt(c, p), NEW q \in Nat,
         Leads(Tokenwise(c), <<LoopItems, p + 3>>, <<<<>>, q>>)
  PROVE  Leads(Tokenwise(c), <<Contents(c[p].op), p + 1>>, <<<<>>, q>>)
<1> DEFINE a == <<<<"specs", "conditional_end">>, p + 1>>
           b == <<<<"spec", "conditional_end">>, p + 2>>
           d == <<LoopItems, p + 3>>
<1>1. p \in Nat /\ c[p + 1].t = "count" /\ c[p + 1].n = 1 /\ c[p + 2].t = "condtype" /\ c[p + 2].v = "LOOPIF"
  BY NodeIs DEF LoopAt
<1>2. /\ Bytes!TokenAt(c, p + 1) = c[p + 1] /\ Bytes!TokenAt(c, p + 2) = c[p + 2]
  BY DEF LoopAt, Bytes!TokenAt
<1>3. Contents(c[p].op) = <<"specs", "conditional_end">>
  <2>1. c[p].op = "CONDITIONAL"
    BY DEF LoopAt
  <2>2. "CONDITIONAL" \in DeclOps
    BY DEF DeclOps
  <2>3. Bytes!SkipStmtLayouts["CONDITIONAL"] = <<"specs", "conditional_end">>
    BY DEF Bytes!SkipStmtLayouts
  <2> QED
    BY <2>1, <2>2, <2>3, ContentsAre
<1>4. a \in Places /\ b \in Places /\ d \in Places
  <2>1. {"specs", "spec", "conditional_end", "e", "block"} \subseteq Bytes!SkipItems
    BY DEF Bytes!SkipItems
  <2>2. /\ <<"specs", "conditional_end">> \in Seq(Bytes!SkipItems)
        /\ <<"spec", "conditional_end">> \in Seq(Bytes!SkipItems)
        /\ LoopItems \in Seq(Bytes!SkipItems)
    BY <2>1 DEF LoopItems
  <2>3. p + 1 \in Nat /\ p + 2 \in Nat /\ p + 3 \in Nat
    BY <1>1
  <2> QED
    BY <2>2, <2>3, Zenon DEF Places
<1>5. Reads(c, a, b)
  <2>1. Bytes!Wanted("specs") = "count"
    BY DEF Bytes!Wanted, Bytes!FlagItems, Bytes!CountItems, Bytes!ExprItems
  <2>2. Bytes!Skipped("specs", c[p + 1]) = <<"spec">>
    <3>1. Bytes!Skipped("specs", c[p + 1]) = Bytes!Repeat("spec", 1)
      BY <1>1 DEF Bytes!Skipped, Bytes!FlagItems
    <3>2. Bytes!Repeat("spec", 1) = <<"spec">>
      BY DEF Bytes!Repeat
    <3> QED
      BY <3>1, <3>2
  <2>3. a[1] = <<"specs", "conditional_end">> /\ a[2] = p + 1
    BY Zenon
  <2>4. Head(a[1]) = "specs" /\ a[1] # <<>> /\ Tail(a[1]) = <<"conditional_end">>
    BY <2>3, ShortSequences
  <2>5. <<"spec">> \o Tail(a[1]) = <<"spec", "conditional_end">>
    BY <2>4, ShortSequences
  <2>6. b = <<Bytes!Skipped("specs", c[p + 1]) \o Tail(a[1]), a[2] + 1>>
    <3>1. p + 2 = a[2] + 1
      BY <1>1, <2>3
    <3> QED
      BY <2>2, <2>5, <3>1
  <2> HIDE DEF a, b
  <2> QED
    BY <1>1, <1>2, <2>1, <2>3, <2>4, <2>6, Zenon DEF Reads
<1>6. Reads(c, b, d)
  <2>1. Bytes!Wanted("spec") = "condtype"
    BY DEF Bytes!Wanted, Bytes!FlagItems, Bytes!CountItems, Bytes!ExprItems
  <2>2. Bytes!Skipped("spec", c[p + 2]) = <<"e", "block">>
    BY <1>1 DEF Bytes!Skipped, Bytes!FlagItems, Bytes!SkipSpec
  <2>3. b[1] = <<"spec", "conditional_end">> /\ b[2] = p + 2
    BY Zenon
  <2>4. Head(b[1]) = "spec" /\ b[1] # <<>> /\ Tail(b[1]) = <<"conditional_end">>
    BY <2>3, ShortSequences
  <2>5. <<"e", "block">> \o Tail(b[1]) = LoopItems
    BY <2>4, ShortSequences DEF LoopItems
  <2>6. d = <<Bytes!Skipped("spec", c[p + 2]) \o Tail(b[1]), b[2] + 1>>
    <3>1. p + 3 = b[2] + 1
      BY <1>1, <2>3
    <3> QED
      BY <2>2, <2>5, <3>1
  <2> HIDE DEF b, d
  <2> QED
    BY <1>1, <1>2, <2>1, <2>3, <2>4, <2>6, Zenon DEF Reads
<1>7. <<a, b>> \in Tokenwise(c) /\ <<b, d>> \in Tokenwise(c)
  BY <1>4, <1>5, <1>6, TokenwiseIs
<1> HIDE DEF a, b, d
<1>8. Leads(Tokenwise(c), a, <<<<>>, q>>)
  BY <1>4, <1>7, EndsArePlaces, LeadsOn DEF d
<1> QED
  BY <1>3, <1>8 DEF a

(* In an aligned stream skipping the contents of a construct, token by     *)
(* token, ends behind it: by the least construct of which this is false.   *)
LEMMA NodesRead ==
  ASSUME NEW c, Aligned(c), NEW p, IsNode(c, p)
  PROVE  Leads(Tokenwise(c), <<Contents(c[p].op), p + 1>>, <<<<>>, Behind(c, p)>>)
<1> DEFINE Good(r) == Leads(Tokenwise(c), <<Contents(c[r].op), r + 1>>, <<<<>>, Behind(c, r)>>)
           bad == {k \in Nat : \E r : IsNode(c, r) /\ c[r].size = k /\ ~Good(r)}
<1>1. c \in Seq(Tokens)
  BY DEF Aligned
<1>2. \A r : IsNode(c, r) /\ ~Good(r) => c[r].size \in bad
  BY <1>1, NodeIs
<1> SUFFICES ASSUME bad # {} PROVE FALSE
  BY <1>2
<1>3. PICK k \in bad : \A n \in bad : k <= n
  <2> HIDE DEF bad
  <2>1. bad \in SUBSET Nat
    BY DEF bad
  <2> QED
    BY <2>1, LeastNumber
<1>4. PICK r : IsNode(c, r) /\ c[r].size = k /\ ~Good(r)
  OBVIOUS
<1> DEFINE q == Behind(c, r)
<1>5. r \in Nat /\ q \in Nat /\ q = r + k /\ k \in Nat
  BY <1>1, <1>4, NodeIs DEF Behind
<1>6. \A s : IsNode(c, s) /\ s >= r + 1 /\ Behind(c, s) <= q => Good(s)
  <2> SUFFICES ASSUME NEW s, IsNode(c, s), s >= r + 1, Behind(c, s) <= q, ~Good(s) PROVE FALSE
    OBVIOUS
  <2>1. s \in Nat /\ c[s].size \in Nat /\ Behind(c, s) = s + c[s].size
    BY <1>1, NodeIs DEF Behind
  <2>2. c[s].size \in bad
    BY <1>2
  <2> HIDE DEF bad, Good
  <2> QED
    BY <1>3, <1>5, <2>1, <2>2
<1>7. r + 1 \in Nat /\ r + 3 \in Nat /\ r + 3 >= r + 1 /\ r + 1 >= r + 1
  BY <1>5
<1>8. CASE LoopAt(c, r)
  <2>1. Leads(Jumps(c), <<LoopItems, r + 3>>, <<<<>>, q>>)
    BY <1>8 DEF LoopAt
  <2>2. <<LoopItems, r + 3>> \in Places
    <3>1. LoopItems \in Seq(Bytes!SkipItems)
      BY DEF LoopItems, Bytes!SkipItems
    <3> QED
      BY <1>7, <3>1 DEF Places
  <2>3. Leads(Tokenwise(c), <<LoopItems, r + 3>>, <<<<>>, q>>)
    <3> DEFINE x == <<LoopItems, r + 3>>
    <3>1. x \in Places /\ x[2] >= r + 1 /\ Leads(Jumps(c), x, <<<<>>, q>>)
      BY <1>7, <2>1, <2>2
    <3> HIDE DEF x, q
    <3>2. Leads(Tokenwise(c), x, <<<<>>, q>>)
      BY <1>1, <1>5, <1>6, <1>7, <3>1, InnerReads
    <3> QED
      BY <3>2 DEF x
  <2> QED
    BY <1>1, <1>4, <1>5, <1>8, <2>3, LoopsRead
<1>9. CASE Leads(Jumps(c), <<Contents(c[r].op), r + 1>>, <<<<>>, q>>)
  <2> DEFINE x == <<Contents(c[r].op), r + 1>>
  <2>1. x \in Places /\ x[2] >= r + 1 /\ Leads(Jumps(c), x, <<<<>>, q>>)
    <3>1. Contents(c[r].op) \in Seq(Bytes!SkipItems)
      BY ContentsAre
    <3> QED
      BY <1>7, <1>9, <3>1 DEF Places
  <2> HIDE DEF x, q
  <2>2. Leads(Tokenwise(c), x, <<<<>>, q>>)
    BY <1>1, <1>5, <1>6, <1>7, <2>1, InnerReads
  <2>3. Leads(Tokenwise(c), <<Contents(c[r].op), r + 1>>, <<<<>>, Behind(c, r)>>)
    BY <2>2 DEF x, q
  <2> QED
    BY <1>4, <2>3
<1> QED
  BY <1>4, <1>8, <1>9 DEF Aligned, Whole

\* So it is for what is skipped, from wherever that begins.
LEMMA SkippingFollows ==
  ASSUME NEW c, Aligned(c), NEW p, IsNode(c, p)
  PROVE  Bytes!SkipTo(c, IF Bytes!OpensBlock(c[p]) THEN <<"stmts">> ELSE Bytes!SkippedStmt(c[p].op), p + 1)
           = Bytes!EndAt(c, p)
<1>1. c \in Seq(Tokens)
  BY DEF Aligned
<1>2. /\ p + 1 \in Nat /\ Behind(c, p) \in Nat /\ Bytes!EndAt(c, p) = Behind(c, p)
      /\ c[p].op \in Stmts \cup {"BLOCK_BEGIN"}
  BY <1>1, NodeIs
<1>3. (IF Bytes!OpensBlock(c[p]) THEN <<"stmts">> ELSE Bytes!SkippedStmt(c[p].op)) = Contents(c[p].op)
  <2>1. Bytes!OpensBlock(c[p]) <=> c[p].op = "BLOCK_BEGIN"
    BY DEF Bytes!OpensBlock, IsNode
  <2>2. c[p].op = "BLOCK_BEGIN" => Contents(c[p].op) = <<"stmts">>
    BY DEF Contents
  <2>3. c[p].op \in Stmts => Bytes!SkippedStmt(c[p].op) = Contents(c[p].op)
    BY ContentsAre DEF Stmts
  <2> QED
    BY <1>2, <2>1, <2>2, <2>3
<1>4. Contents(c[p].op) \in Seq(Bytes!SkipItems)
  BY ContentsAre
<1>5. Bytes!SkipTo(c, Contents(c[p].op), p + 1) = Behind(c, p)
  BY <1>1, <1>2, <1>4, NodesRead, SkipToIs
<1> QED
  BY <1>2, <1>3, <1>5
-----------------------------------------------------------------------------
(* A stream within a longer one.                                           *)
At(u, c, k) == k \in Nat /\ Len(u) + k <= Len(c) /\ \A i \in 1..Len(u) : c[i + k] = u[i]

Shifted(x, k) == <<x[1], x[2] + k>>

LEMMA ShiftedIs ==
  ASSUME NEW x \in Places, NEW k \in Nat
  PROVE  Shifted(x, k) \in Places /\ Shifted(x, k)[1] = x[1] /\ Shifted(x, k)[2] = x[2] + k
         /\ x[1] \in Seq(Bytes!SkipItems) /\ x[2] \in Nat
<1>1. x[1] \in Seq(Bytes!SkipItems) /\ x[2] + k \in Nat /\ x[2] \in Nat
  BY DEF Places
<1> QED
  BY <1>1, Zenon DEF Places, Shifted

LEMMA MovesWithin ==
  ASSUME NEW u \in Seq(Tokens), NEW c \in Seq(Tokens), NEW k, At(u, c, k),
         NEW x \in Places, NEW y \in Places, Moves(u, x, y)
  PROVE  Moves(c, Shifted(x, k), Shifted(y, k))
<1> DEFINE item == Head(x[1])
           rest == Tail(x[1])
           p == x[2]
           tok == u[p]
           s == Shifted(x, k)
           t == Shifted(y, k)
<1>1. /\ k \in Nat /\ p \in Nat /\ p \in DOMAIN u /\ tok \in Tokens /\ x[1] # <<>>
  BY MovesAre DEF At
<1>2. p + k \in DOMAIN c /\ c[p + k] = tok
  <2>1. p \in 1..Len(u) /\ Len(u) \in Nat /\ Len(c) \in Nat
    BY <1>1
  <2>2. \A i \in 1..Len(u) : c[i + k] = u[i] /\ Len(u) + k <= Len(c)
    BY DEF At
  <2>3. DOMAIN c = 1..Len(c)
    OBVIOUS
  <2> QED
    BY <1>1, <2>1, <2>2, <2>3
<1>3. /\ s[1] = x[1] /\ s[2] = p + k /\ t[1] = y[1] /\ t[2] = y[2] + k
  BY <1>1, ShiftedIs
<1>4. tok.t = "op" => tok.size \in Nat
  BY <1>1, TokenIs
<1>5. \/ item = "stmts" /\ tok.t = "end" /\ y = <<rest, p + 1>>
      \/ item = "stmts" /\ tok.t = "op" /\ tok.op \in Stmts /\ y = <<x[1], p + tok.size>>
      \/ item = "block" /\ Bytes!OpensBlock(tok) /\ y = <<rest, p + tok.size>>
      \/ item = "e" /\ tok.t = "op" /\ tok.op \in ExprOps /\ y = <<rest, p + tok.size>>
      \/ /\ item \in Bytes!Operands /\ tok.t = Bytes!Wanted(item)
         /\ item = "spec" => tok.v \in {"IF", "ELSE"}
         /\ y = <<Bytes!Skipped(item, tok) \o rest, p + 1>>
  BY DEF Moves
<1>6. \A a : /\ y = <<a, p + 1>> => t = <<a, p + k + 1>>
             /\ tok.t = "op" /\ y = <<a, p + tok.size>> => t = <<a, p + k + tok.size>>
  <2> TAKE a
  <2>1. y = <<a, p + 1>> => t = <<a, p + k + 1>>
    BY <1>1 DEF Shifted
  <2>2. tok.t = "op" /\ y = <<a, p + tok.size>> => t = <<a, p + k + tok.size>>
    BY <1>1, <1>4 DEF Shifted
  <2> QED
    BY <2>1, <2>2
<1>7. Bytes!OpensBlock(tok) => tok.t = "op"
  BY DEF Bytes!OpensBlock
<1> HIDE DEF item, rest, p, tok, t
<1>8. \/ item = "stmts" /\ tok.t = "end" /\ t = <<rest, p + k + 1>>
      \/ item = "stmts" /\ tok.t = "op" /\ tok.op \in Stmts /\ t = <<x[1], p + k + tok.size>>
      \/ item = "block" /\ Bytes!OpensBlock(tok) /\ t = <<rest, p + k + tok.size>>
      \/ item = "e" /\ tok.t = "op" /\ tok.op \in ExprOps /\ t = <<rest, p + k + tok.size>>
      \/ /\ item \in Bytes!Operands /\ tok.t = Bytes!Wanted(item)
         /\ item = "spec" => tok.v \in {"IF", "ELSE"}
         /\ t = <<Bytes!Skipped(item, tok) \o rest, p + k + 1>>
  BY <1>5, <1>6, <1>7, Zenon
<1>9. /\ Head(s[1]) = item /\ Tail(s[1]) = rest /\ s[1] = x[1] /\ s[1] # <<>>
      /\ s[2] = p + k /\ s[2] \in DOMAIN c /\ c[s[2]] = tok
  BY <1>1, <1>2, <1>3 DEF item, rest
<1> HIDE DEF s
<1>10. Moves(c, s, t)
  BY <1>8, <1>9, Zenon DEF Moves
<1> QED
  BY <1>10 DEF s, t

LEMMA LeadsWithin ==
  ASSUME NEW u \in Seq(Tokens), NEW c \in Seq(Tokens), NEW k, At(u, c, k),
         NEW x \in Places, NEW y \in Places, Leads(Jumps(u), x, y)
  PROVE  Leads(Jumps(c), Shifted(x, k), Shifted(y, k))
<1> DEFINE R == {w \in Places : Leads(Jumps(c), Shifted(w, k), Shifted(y, k))}
<1>1. k \in Nat
  BY DEF At
<1>2. y \in R
  BY LeadsHere
<1>3. ASSUME NEW m \in Jumps(u), m[2] \in R PROVE m[1] \in R
  <2>1. m[1] \in Places /\ m[2] \in Places /\ Moves(u, m[1], m[2])
    BY DEF Jumps
  <2>2. /\ Shifted(m[1], k) \in Places /\ Shifted(m[2], k) \in Places /\ Shifted(y, k) \in Places
        /\ Moves(c, Shifted(m[1], k), Shifted(m[2], k))
    BY <1>1, <2>1, MovesWithin, ShiftedIs
  <2>3. <<Shifted(m[1], k), Shifted(m[2], k)>> \in Jumps(c)
    BY <2>2 DEF Jumps
  <2>4. Leads(Jumps(c), Shifted(m[1], k), Shifted(y, k))
    BY <1>3, <2>2, <2>3, LeadsOn
  <2> QED
    BY <2>1, <2>4
<1>4. R \in SUBSET Places
  OBVIOUS
<1> HIDE DEF R
<1>5. x \in R
  BY <1>2, <1>3, <1>4, Zenon DEF Leads
<1> QED
  BY <1>5 DEF R

\* What is still to be read behind does not matter.
LEMMA MovesBefore ==
  ASSUME NEW c \in Seq(Tokens), NEW x \in Places, NEW y \in Places, Moves(c, x, y),
         NEW more \in Seq(Bytes!SkipItems)
  PROVE  Moves(c, <<x[1] \o more, x[2]>>, <<y[1] \o more, y[2]>>)
<1> DEFINE item == Head(x[1])
           rest == Tail(x[1])
           p == x[2]
           tok == c[p]
           k == Bytes!Skipped(item, tok)
           I == Bytes!SkipItems
           z == <<y[1] \o more, y[2]>>
<1>1. /\ x[1] \in Seq(I) /\ x[1] # <<>> /\ rest \in Seq(I) /\ tok \in Tokens /\ item \in I
      /\ p \in DOMAIN c
  BY MovesAre
<1>2. /\ x[1] \o more # <<>> /\ Head(x[1] \o more) = item /\ Tail(x[1] \o more) = rest \o more
  BY <1>1, Concatenation
<1>3. tok.t = Bytes!Wanted(item) => k \in Seq(I)
  BY <1>1, SkippedIs
<1>4. AssociativeOn(I)
  BY Associative, Zenon
<1>5. \/ item = "stmts" /\ tok.t = "end" /\ y = <<rest, p + 1>>
      \/ item = "stmts" /\ tok.t = "op" /\ tok.op \in Stmts /\ y = <<x[1], p + tok.size>>
      \/ item = "block" /\ Bytes!OpensBlock(tok) /\ y = <<rest, p + tok.size>>
      \/ item = "e" /\ tok.t = "op" /\ tok.op \in ExprOps /\ y = <<rest, p + tok.size>>
      \/ /\ item \in Bytes!Operands /\ tok.t = Bytes!Wanted(item)
         /\ item = "spec" => tok.v \in {"IF", "ELSE"}
         /\ y = <<k \o rest, p + 1>>
  BY DEF Moves
<1> SUFFICES
      \/ item = "stmts" /\ tok.t = "end" /\ z = <<rest \o more, p + 1>>
      \/ item = "stmts" /\ tok.t = "op" /\ tok.op \in Stmts /\ z = <<x[1] \o more, p + tok.size>>
      \/ item = "block" /\ Bytes!OpensBlock(tok) /\ z = <<rest \o more, p + tok.size>>
      \/ item = "e" /\ tok.t = "op" /\ tok.op \in ExprOps /\ z = <<rest \o more, p + tok.size>>
      \/ /\ item \in Bytes!Operands /\ tok.t = Bytes!Wanted(item)
         /\ item = "spec" => tok.v \in {"IF", "ELSE"}
         /\ z = <<k \o (rest \o more), p + 1>>
  BY <1>1, <1>2, Zenon DEF Moves
<1>6. tok.t = Bytes!Wanted(item) => (k \o rest) \o more = k \o (rest \o more)
  <2>1. more \in Seq(I)
    OBVIOUS
  <2>2. rest \in Seq(I)
    BY <1>1
  <2> HIDE DEF item, rest, p, tok, k, I, z
  <2>3. ASSUME k \in Seq(I) PROVE (k \o rest) \o more = k \o (rest \o more)
    BY <1>4, <2>1, <2>2, <2>3, Zenon DEF AssociativeOn
  <2> QED
    BY <1>3, <2>3
<1>7. \A a, n : y = <<a, n>> => z = <<a \o more, n>>
  OBVIOUS
<1> HIDE DEF item, rest, p, tok, k, I, z
<1> QED
  BY <1>5, <1>6, <1>7, Zenon

LEMMA JumpsBefore ==
  ASSUME NEW c \in Seq(Tokens), NEW x \in Places, NEW y \in Places, Leads(Jumps(c), x, y),
         NEW more \in Seq(Bytes!SkipItems)
  PROVE  Leads(Jumps(c), <<x[1] \o more, x[2]>>, <<y[1] \o more, y[2]>>)
<1> DEFINE with(u) == <<u[1] \o more, u[2]>>
           R == {u \in Places : Leads(Jumps(c), with(u), with(y))}
<1>1. \A u \in Places : with(u) \in Places
  <2> TAKE u \in Places
  <2>1. u[1] \in Seq(Bytes!SkipItems) /\ u[2] \in Nat
    BY DEF Places
  <2>2. u[1] \o more \in Seq(Bytes!SkipItems)
    BY <2>1, Concatenation
  <2> QED
    BY <2>1, <2>2 DEF Places
<1>2. y \in R
  BY LeadsHere
<1>3. ASSUME NEW m \in Jumps(c), m[2] \in R PROVE m[1] \in R
  <2>1. m[1] \in Places /\ m[2] \in Places /\ Moves(c, m[1], m[2])
    BY DEF Jumps
  <2>2. Moves(c, with(m[1]), with(m[2]))
    BY <2>1, MovesBefore
  <2>3. with(m[1]) \in Places /\ with(m[2]) \in Places /\ with(y) \in Places
    BY <1>1, <2>1
  <2>4. <<with(m[1]), with(m[2])>> \in Jumps(c)
    <3> HIDE DEF with
    <3> QED
      BY <2>2, <2>3 DEF Jumps
  <2>5. Leads(Jumps(c), with(m[2]), with(y))
    BY <1>3
  <2> HIDE DEF with
  <2>6. Leads(Jumps(c), with(m[1]), with(y))
    BY <2>3, <2>4, <2>5, LeadsOn
  <2> QED
    BY <2>1, <2>6
<1>4. R \in SUBSET Places
  OBVIOUS
<1> HIDE DEF R
<1>5. x \in R
  BY <1>2, <1>3, <1>4, Zenon DEF Leads
<1> QED
  BY <1>5 DEF R

LEMMA ConcatenationIs ==
  ASSUME NEW S, NEW u \in Seq(S), NEW v \in Seq(S)
  PROVE  /\ u \o v \in Seq(S) /\ Len(u \o v) = Len(u) + Len(v) /\ Len(u) \in Nat /\ Len(v) \in Nat
         /\ \A i \in 1..Len(u) : (u \o v)[i] = u[i]
         /\ \A i \in 1..Len(v) : (u \o v)[i + Len(u)] = v[i]
         /\ DOMAIN u = 1..Len(u) /\ DOMAIN v = 1..Len(v) /\ DOMAIN (u \o v) = 1..(Len(u) + Len(v))
<1>1. /\ u \o v \in Seq(S) /\ Len(u \o v) = Len(u) + Len(v) /\ Len(u) \in Nat /\ Len(v) \in Nat
      /\ DOMAIN u = 1..Len(u) /\ DOMAIN v = 1..Len(v) /\ DOMAIN (u \o v) = 1..(Len(u) + Len(v))
  OBVIOUS
<1>2. \A i \in 1..(Len(u) + Len(v)) : (u \o v)[i] = IF i <= Len(u) THEN u[i] ELSE v[i - Len(u)]
  OBVIOUS
<1>3. \A i \in 1..Len(u) : (u \o v)[i] = u[i]
  BY <1>1, <1>2
<1>4. ASSUME NEW i \in 1..Len(v) PROVE (u \o v)[i + Len(u)] = v[i]
  <2>1. i + Len(u) \in 1..(Len(u) + Len(v)) /\ ~(i + Len(u) <= Len(u)) /\ (i + Len(u)) - Len(u) = i
    BY <1>1
  <2> QED
    BY <1>2, <2>1
<1> QED
  BY <1>1, <1>3, <1>4

LEMMA AtParts ==
  ASSUME NEW u \in Seq(Tokens), NEW v \in Seq(Tokens)
  PROVE  /\ At(u, u \o v, 0) /\ At(v, u \o v, Len(u))
         /\ \A c \in Seq(Tokens) : \A k : At(u \o v, c, k) => At(u, c, k) /\ At(v, c, k + Len(u))
<1>1. /\ Len(u \o v) = Len(u) + Len(v) /\ Len(u) \in Nat /\ Len(v) \in Nat
      /\ \A i \in 1..Len(u) : (u \o v)[i] = u[i]
      /\ \A i \in 1..Len(v) : (u \o v)[i + Len(u)] = v[i]
  BY ConcatenationIs
<1>2. At(u, u \o v, 0)
  BY <1>1 DEF At
<1>3. At(v, u \o v, Len(u))
  BY <1>1 DEF At
<1>4. ASSUME NEW c \in Seq(Tokens), NEW k, At(u \o v, c, k)
      PROVE  At(u, c, k) /\ At(v, c, k + Len(u))
  <2>1. k \in Nat /\ Len(c) \in Nat /\ Len(u) + Len(v) + k <= Len(c)
    BY <1>1, <1>4 DEF At
  <2>2. \A i \in 1..(Len(u) + Len(v)) : c[i + k] = (u \o v)[i]
    BY <1>1, <1>4 DEF At
  <2>3. At(u, c, k)
    BY <1>1, <2>1, <2>2 DEF At
  <2>4. \A i \in 1..Len(v) : c[i + (k + Len(u))] = v[i]
    <3> TAKE i \in 1..Len(v)
    <3>1. i + Len(u) \in 1..(Len(u) + Len(v)) /\ i + (k + Len(u)) = (i + Len(u)) + k
      BY <1>1, <2>1
    <3> QED
      BY <1>1, <2>2, <3>1
  <2>5. At(v, c, k + Len(u))
    BY <1>1, <2>1, <2>4 DEF At
  <2> QED
    BY <2>3, <2>5
<1> QED
  BY <1>2, <1>3, <1>4

LEMMA WholeWithin ==
  ASSUME NEW u \in Seq(Tokens), NEW c \in Seq(Tokens), NEW k, At(u, c, k), NEW p, IsNode(u, p),
         Whole(u, p)
  PROVE  Whole(c, p + k)
<1>1. /\ k \in Nat /\ p \in Nat /\ p \in 1..Len(u) /\ Behind(u, p) \in Nat /\ u[p].size \in Nat
  BY NodeIs DEF At
<1>2. \A i \in 1..Len(u) : c[i + k] = u[i] /\ i + k \in DOMAIN c
  <2>1. /\ Len(u) \in Nat /\ Len(c) \in Nat /\ DOMAIN c = 1..Len(c)
        /\ \A i \in 1..Len(u) : c[i + k] = u[i] /\ Len(u) + k <= Len(c)
    BY DEF At
  <2> QED
    BY <1>1, <2>1
<1>3. Behind(c, p + k) = Behind(u, p) + k
  BY <1>1, <1>2 DEF Behind
<1>4. \A s \in Seq(Bytes!SkipItems), n \in Nat : <<s, n>> \in Places /\ Shifted(<<s, n>>, k) = <<s, n + k>>
  BY DEF Places, Shifted
<1>5. <<<<>>, Behind(u, p)>> \in Places /\ Shifted(<<<<>>, Behind(u, p)>>, k) = <<<<>>, Behind(c, p + k)>>
  BY <1>1, <1>3, EndsArePlaces DEF Shifted
<1>6. CASE LoopAt(u, p)
  <2>1. LoopItems \in Seq(Bytes!SkipItems) /\ p + 3 \in Nat
    BY <1>1 DEF LoopItems, Bytes!SkipItems
  <2>2. Leads(Jumps(u), <<LoopItems, p + 3>>, <<<<>>, Behind(u, p)>>)
    BY <1>6 DEF LoopAt
  <2>3. Leads(Jumps(c), <<LoopItems, (p + 3) + k>>, <<<<>>, Behind(c, p + k)>>)
    <3> DEFINE x == <<LoopItems, p + 3>>
               y == <<<<>>, Behind(u, p)>>
    <3>1. /\ x \in Places /\ Shifted(x, k) = <<LoopItems, (p + 3) + k>>
          /\ y \in Places /\ Shifted(y, k) = <<<<>>, Behind(c, p + k)>>
      BY <1>4, <1>5, <2>1, Zenon
    <3>2. Leads(Jumps(u), x, y)
      BY <2>2
    <3> HIDE DEF x, y
    <3>3. Leads(Jumps(c), Shifted(x, k), Shifted(y, k))
      BY <3>1, <3>2, LeadsWithin
    <3> QED
      BY <3>1, <3>3
  <2>4. /\ p + 1 \in 1..Len(u) /\ p + 2 \in 1..Len(u)
        /\ (p + 1) + k = (p + k) + 1 /\ (p + 2) + k = (p + k) + 2 /\ (p + 3) + k = (p + k) + 3
    BY <1>1, <1>6 DEF LoopAt
  <2>5. /\ c[p + k] = u[p] /\ c[(p + k) + 1] = u[p + 1] /\ c[(p + k) + 2] = u[p + 2]
        /\ (p + k) + 1 \in DOMAIN c /\ (p + k) + 2 \in DOMAIN c
    <3>1. /\ c[p + k] = u[p] /\ c[(p + 1) + k] = u[p + 1] /\ c[(p + 2) + k] = u[p + 2]
          /\ (p + 1) + k \in DOMAIN c /\ (p + 2) + k \in DOMAIN c
      BY <1>1, <1>2, <2>4, Zenon
    <3> QED
      BY <2>4, <3>1, Zenon
  <2>6. LoopAt(c, p + k)
    BY <1>6, <2>3, <2>4, <2>5 DEF LoopAt
  <2> QED
    BY <2>6 DEF Whole
<1>7. CASE Leads(Jumps(u), <<Contents(u[p].op), p + 1>>, <<<<>>, Behind(u, p)>>)
  <2>1. Contents(u[p].op) \in Seq(Bytes!SkipItems) /\ p + 1 \in Nat
    BY <1>1, ContentsAre
  <2>2. Leads(Jumps(c), <<Contents(u[p].op), (p + 1) + k>>, <<<<>>, Behind(c, p + k)>>)
    <3> DEFINE x == <<Contents(u[p].op), p + 1>>
               y == <<<<>>, Behind(u, p)>>
    <3>1. /\ x \in Places /\ Shifted(x, k) = <<Contents(u[p].op), (p + 1) + k>>
          /\ y \in Places /\ Shifted(y, k) = <<<<>>, Behind(c, p + k)>>
      BY <1>4, <1>5, <2>1, Zenon
    <3>2. Leads(Jumps(u), x, y)
      BY <1>7
    <3> HIDE DEF x, y
    <3>3. Leads(Jumps(c), Shifted(x, k), Shifted(y, k))
      BY <3>1, <3>2, LeadsWithin
    <3> QED
      BY <3>1, <3>3
  <2>3. (p + 1) + k = (p + k) + 1 /\ c[p + k] = u[p]
    BY <1>1, <1>2
  <2> QED
    BY <2>2, <2>3 DEF Whole
<1> QED
  BY <1>6, <1>7 DEF Whole

LEMMA AlignedTogether ==
  ASSUME NEW u, NEW v, Aligned(u), Aligned(v)
  PROVE  Aligned(u \o v)
<1> DEFINE c == u \o v
<1>1. u \in Seq(Tokens) /\ v \in Seq(Tokens)
  BY DEF Aligned
<1>2. /\ c \in Seq(Tokens) /\ Len(u) \in Nat /\ Len(v) \in Nat
      /\ \A i \in 1..Len(u) : c[i] = u[i]
      /\ \A i \in 1..Len(v) : c[i + Len(u)] = v[i]
      /\ DOMAIN u = 1..Len(u) /\ DOMAIN v = 1..Len(v) /\ DOMAIN c = 1..(Len(u) + Len(v))
  BY <1>1, ConcatenationIs
<1>3. At(u, c, 0) /\ At(v, c, Len(u))
  BY <1>1, AtParts
<1> HIDE DEF c
<1>4. ASSUME NEW p, IsNode(c, p) PROVE Whole(c, p)
  <2>1. p \in 1..(Len(u) + Len(v)) /\ c[p].t = "op"
    BY <1>2, <1>4 DEF IsNode
  <2>2. CASE p <= Len(u)
    <3>1. p \in 1..Len(u) /\ u[p] = c[p] /\ p + 0 = p
      BY <1>2, <2>1, <2>2
    <3>2. IsNode(u, p)
      BY <1>2, <2>1, <3>1 DEF IsNode
    <3>3. Whole(u, p)
      BY <3>2 DEF Aligned
    <3>4. Whole(c, p + 0)
      BY <1>1, <1>2, <1>3, <3>2, <3>3, WholeWithin
    <3> QED
      BY <3>1, <3>4
  <2>3. CASE ~(p <= Len(u))
    <3> DEFINE q == p - Len(u)
    <3>1. q \in 1..Len(v) /\ q + Len(u) = p
      BY <1>2, <2>1, <2>3
    <3>2. v[q] = c[p]
      BY <1>2, <3>1
    <3>3. IsNode(v, q)
      BY <1>2, <2>1, <3>1, <3>2 DEF IsNode
    <3>4. Whole(v, q)
      BY <3>3 DEF Aligned
    <3>5. Whole(c, q + Len(u))
      <4> HIDE DEF q
      <4> QED
        BY <1>1, <1>2, <1>3, <3>3, <3>4, WholeWithin
    <3> QED
      BY <3>1, <3>5
  <2> QED
    BY <2>2, <2>3
<1>5. Aligned(c)
  BY <1>2, <1>4 DEF Aligned
<1> QED
  BY <1>5 DEF c
-----------------------------------------------------------------------------
(* u is a part of what is written that leaves t of what s stands for.      *)
Through(u, s, t) ==
  \A c \in Seq(Tokens) : \A k : At(u, c, k) =>
    Leads(Jumps(c), <<s, k + 1>>, <<t, k + 1 + Len(u)>>)

Part(u, s, t) ==
  Aligned(u) /\ s \in Seq(Bytes!SkipItems) /\ t \in Seq(Bytes!SkipItems) /\ Through(u, s, t)

LEMMA ArePlaces == \A s \in Seq(Bytes!SkipItems), n \in Nat : <<s, n>> \in Places
BY DEF Places

LEMMA JumpWays == \A c : Jumps(c) \in SUBSET (Places \X Places)
BY DEF Jumps

LEMMA PartsJoin ==
  ASSUME NEW u, NEW v, NEW s, NEW t, NEW w, Part(u, s, t), Part(v, t, w)
  PROVE  Part(u \o v, s, w)
<1>1. u \in Seq(Tokens) /\ v \in Seq(Tokens) /\ Len(u) \in Nat /\ Len(v) \in Nat
  BY DEF Part, Aligned
<1>2. Len(u \o v) = Len(u) + Len(v)
  BY <1>1, ConcatenationIs
<1>3. ASSUME NEW c \in Seq(Tokens), NEW k, At(u \o v, c, k)
      PROVE  Leads(Jumps(c), <<s, k + 1>>, <<w, k + 1 + Len(u \o v)>>)
  <2>1. At(u, c, k) /\ At(v, c, k + Len(u))
    BY <1>1, <1>3, AtParts
  <2>2. k \in Nat
    BY <2>1 DEF At
  <2>3. Leads(Jumps(c), <<s, k + 1>>, <<t, k + 1 + Len(u)>>)
    BY <2>1 DEF Part, Through
  <2>4. Leads(Jumps(c), <<t, k + Len(u) + 1>>, <<w, k + Len(u) + 1 + Len(v)>>)
    BY <2>1 DEF Part, Through
  <2>5. k + Len(u) + 1 = k + 1 + Len(u) /\ k + Len(u) + 1 + Len(v) = k + 1 + Len(u \o v)
    BY <1>1, <1>2, <2>2
  <2>6. /\ <<s, k + 1>> \in Places /\ <<t, k + 1 + Len(u)>> \in Places
        /\ <<w, k + 1 + Len(u \o v)>> \in Places
    <3>1. k + 1 \in Nat /\ k + 1 + Len(u) \in Nat /\ k + 1 + Len(u \o v) \in Nat
      BY <1>1, <1>2, <2>2
    <3> QED
      BY <3>1, ArePlaces DEF Part
  <2>7. Leads(Jumps(c), <<t, k + 1 + Len(u)>>, <<w, k + 1 + Len(u \o v)>>)
    BY <2>4, <2>5
  <2> QED
    BY <2>3, <2>6, <2>7, JumpWays, LeadsFurther
<1>4. Aligned(u \o v)
  BY AlignedTogether DEF Part
<1>5. Through(u \o v, s, w)
  BY <1>3 DEF Through
<1> QED
  BY <1>4, <1>5 DEF Part

LEMMA PartsBefore ==
  ASSUME NEW u, NEW s, NEW t, Part(u, s, t), NEW more \in Seq(Bytes!SkipItems)
  PROVE  Part(u, s \o more, t \o more)
<1>1. u \in Seq(Tokens) /\ Len(u) \in Nat /\ s \in Seq(Bytes!SkipItems) /\ t \in Seq(Bytes!SkipItems)
  BY DEF Part, Aligned
<1>2. s \o more \in Seq(Bytes!SkipItems) /\ t \o more \in Seq(Bytes!SkipItems)
  BY <1>1, Concatenation
<1>3. ASSUME NEW c \in Seq(Tokens), NEW k, At(u, c, k)
      PROVE  Leads(Jumps(c), <<s \o more, k + 1>>, <<t \o more, k + 1 + Len(u)>>)
  <2> DEFINE x == <<s, k + 1>>
             y == <<t, k + 1 + Len(u)>>
  <2>1. k + 1 \in Nat /\ k + 1 + Len(u) \in Nat
    BY <1>1, <1>3 DEF At
  <2>2. x \in Places /\ y \in Places
    BY <1>1, <2>1, ArePlaces
  <2>3. Leads(Jumps(c), x, y)
    BY <1>3 DEF Part, Through
  <2>4. x[1] = s /\ x[2] = k + 1 /\ y[1] = t /\ y[2] = k + 1 + Len(u)
    BY Zenon
  <2> HIDE DEF x, y
  <2>5. Leads(Jumps(c), <<x[1] \o more, x[2]>>, <<y[1] \o more, y[2]>>)
    BY <2>2, <2>3, JumpsBefore
  <2> QED
    BY <2>4, <2>5
<1>4. Through(u, s \o more, t \o more)
  BY <1>3 DEF Through
<1> QED
  BY <1>2, <1>4 DEF Part

LEMMA EmptyIs == \A S : <<>> \in Seq(S) /\ \A s \in Seq(S) : <<>> \o s = s /\ s \o <<>> = s
<1> TAKE S
<1>1. <<>> \in Seq(S)
  OBVIOUS
<1>2. ASSUME NEW s \in Seq(S) PROVE <<>> \o s = s /\ s \o <<>> = s
  <2>1. <<>> \o s = s
    OBVIOUS
  <2>2. s \o <<>> = s
    OBVIOUS
  <2> QED
    BY <2>1, <2>2
<1> QED
  BY <1>1, <1>2

\* What is written for s, then for t.
LEMMA PartsTogether ==
  ASSUME NEW u, NEW v, NEW s, NEW t, Part(u, s, <<>>), Part(v, t, <<>>)
  PROVE  Part(u \o v, s \o t, <<>>)
<1>1. t \in Seq(Bytes!SkipItems)
  BY DEF Part
<1>2. Part(u, s \o t, <<>> \o t)
  BY <1>1, PartsBefore
<1>3. Part(u, s \o t, t)
  BY <1>1, <1>2, EmptyIs
<1> QED
  BY <1>3, PartsJoin
-----------------------------------------------------------------------------
(* What is written: operands, and streams of a construct.                  *)
LEMMA OneToken ==
  ASSUME NEW tok \in Tokens
  PROVE  /\ <<tok>> \in Seq(Tokens) /\ Len(<<tok>>) = 1 /\ <<tok>>[1] = tok
         /\ DOMAIN <<tok>> = {1} /\ (tok.t # "op" => Aligned(<<tok>>))
<1>1. /\ <<tok>> \in Seq(Tokens) /\ Len(<<tok>>) = 1 /\ <<tok>>[1] = tok /\ DOMAIN <<tok>> = {1}
  OBVIOUS
<1> DEFINE c == <<tok>>
<1>2. ASSUME tok.t # "op" PROVE \A p : ~IsNode(c, p)
  <2>1. c[1] = tok /\ DOMAIN c = {1}
    BY <1>1
  <2> HIDE DEF c
  <2> QED
    BY <1>2, <2>1 DEF IsNode
<1> QED
  BY <1>1, <1>2 DEF Aligned

LEMMA AtFirst ==
  ASSUME NEW u \in Seq(Tokens), NEW c \in Seq(Tokens), NEW k, At(u, c, k), Len(u) >= 1
  PROVE  k \in Nat /\ k + 1 \in Nat /\ k + 1 \in DOMAIN c /\ c[k + 1] = u[1] /\ k + 1 + Len(u) \in Nat
<1>1. k \in Nat /\ Len(u) \in Nat /\ Len(c) \in Nat /\ DOMAIN c = 1..Len(c) /\ Len(u) + k <= Len(c)
  BY DEF At
<1>2. 1 \in 1..Len(u) /\ 1 + k = k + 1
  BY <1>1
<1>3. c[1 + k] = u[1]
  BY <1>2 DEF At
<1> QED
  BY <1>1, <1>2, <1>3

\* One move is a part.
LEMMA MovePart ==
  ASSUME NEW u, Aligned(u), Len(u) >= 1, NEW s \in Seq(Bytes!SkipItems), NEW t \in Seq(Bytes!SkipItems),
         \A c \in Seq(Tokens) : \A n \in DOMAIN c :
           c[n] = u[1] => Moves(c, <<s, n>>, <<t, n + Len(u)>>)
  PROVE  Part(u, s, t)
<1>1. u \in Seq(Tokens) /\ Len(u) \in Nat
  BY DEF Aligned
<1>2. ASSUME NEW c \in Seq(Tokens), NEW k, At(u, c, k)
      PROVE  Leads(Jumps(c), <<s, k + 1>>, <<t, k + 1 + Len(u)>>)
  <2>1. k + 1 \in Nat /\ k + 1 \in DOMAIN c /\ c[k + 1] = u[1] /\ k + 1 + Len(u) \in Nat
    BY <1>1, <1>2, AtFirst
  <2> DEFINE x == <<s, k + 1>>
             y == <<t, k + 1 + Len(u)>>
  <2>2. x \in Places /\ y \in Places
    BY <2>1, ArePlaces
  <2>3. Moves(c, x, y)
    BY <2>1
  <2> HIDE DEF x, y
  <2>4. <<x, y>> \in Jumps(c)
    BY <2>2, <2>3 DEF Jumps
  <2>5. Leads(Jumps(c), x, y)
    BY <2>2, <2>4, LeadsHere, LeadsOn
  <2> QED
    BY <2>5 DEF x, y
<1> QED
  BY <1>2 DEF Part, Through

LEMMA OperandPart ==
  ASSUME NEW tok \in Tokens, tok.t # "op", NEW item \in Bytes!SkipItems \cap Bytes!Operands,
         tok.t = Bytes!Wanted(item), item = "spec" => tok.v \in {"IF", "ELSE"}
  PROVE  Part(<<tok>>, <<item>>, Bytes!Skipped(item, tok))
<1> DEFINE u == <<tok>>
           s == <<item>>
           t == Bytes!Skipped(item, tok)
<1>1. u \in Seq(Tokens) /\ Len(u) = 1 /\ u[1] = tok /\ Aligned(u) /\ Len(u) >= 1
  BY OneToken
<1>2. s \in Seq(Bytes!SkipItems) /\ Head(s) = item /\ Tail(s) = <<>> /\ s # <<>>
  BY ShortSequences
<1>3. t \in Seq(Bytes!SkipItems) /\ t \o <<>> = t
  <2>1. t \in Seq(Bytes!SkipItems)
    BY SkippedIs
  <2> HIDE DEF t
  <2> QED
    BY <2>1, EmptyIs
<1> HIDE DEF u, s, t
<1>4. ASSUME NEW c \in Seq(Tokens), NEW n \in DOMAIN c, c[n] = u[1]
      PROVE  Moves(c, <<s, n>>, <<t, n + Len(u)>>)
  <2> DEFINE x == <<s, n>>
             y == <<t, n + Len(u)>>
  <2>1. x[1] = s /\ x[2] = n /\ y = <<t \o <<>>, n + 1>>
    BY <1>1, <1>3
  <2>2. c[n] = tok
    BY <1>1, <1>4
  <2>3. /\ x[1] # <<>> /\ x[2] \in DOMAIN c /\ Head(x[1]) = item /\ Tail(x[1]) = <<>> /\ c[x[2]] = tok
        /\ y = <<Bytes!Skipped(item, tok) \o Tail(x[1]), x[2] + 1>>
    BY <1>2, <2>1, <2>2 DEF t
  <2> HIDE DEF x, y
  <2>4. Moves(c, x, y)
    BY <2>3, Zenon DEF Moves
  <2> QED
    BY <2>4 DEF x, y
<1>5. Part(u, s, t)
  BY <1>1, <1>2, <1>3, <1>4, MovePart
<1> QED
  BY <1>5 DEF u, s, t

LEMMA EndPart == Part(<<[t |-> "end"]>>, <<"stmts">>, <<>>)
<1> DEFINE tok == [t |-> "end"]
           u == <<tok>>
           s == <<"stmts">>
<1>1. tok \in Tokens /\ tok.t = "end"
  BY DEF Tokens, PlainKinds
<1> HIDE DEF tok
<1>2. u \in Seq(Tokens) /\ Len(u) = 1 /\ u[1] = tok /\ Aligned(u) /\ Len(u) >= 1
  BY <1>1, OneToken
<1>3. s \in Seq(Bytes!SkipItems) /\ Head(s) = "stmts" /\ Tail(s) = <<>> /\ s # <<>>
      /\ <<>> \in Seq(Bytes!SkipItems)
  BY ShortSequences DEF Bytes!SkipItems
<1> HIDE DEF u, s
<1>4. ASSUME NEW c \in Seq(Tokens), NEW n \in DOMAIN c, c[n] = u[1]
      PROVE  Moves(c, <<s, n>>, <<<<>>, n + Len(u)>>)
  <2> DEFINE x == <<s, n>>
             y == <<<<>>, n + Len(u)>>
  <2>1. x[1] = s /\ x[2] = n /\ y = <<<<>>, n + 1>>
    BY <1>2
  <2>2. /\ x[1] # <<>> /\ x[2] \in DOMAIN c /\ Head(x[1]) = "stmts" /\ c[x[2]].t = "end"
        /\ y = <<Tail(x[1]), x[2] + 1>>
    BY <1>1, <1>2, <1>3, <1>4, <2>1
  <2> HIDE DEF x, y
  <2>3. Moves(c, x, y)
    BY <2>2, Zenon DEF Moves
  <2> QED
    BY <2>3 DEF x, y
<1>5. Part(u, s, <<>>)
  BY <1>2, <1>3, <1>4, MovePart
<1> QED
  BY <1>5 DEF u, s, tok

\* u is all that is written of one construct with an opcode of ops.
Construct(u, ops) ==
  Aligned(u) /\ Len(u) >= 1 /\ u[1].t = "op" /\ u[1].op \in ops /\ u[1].size = Len(u)

LEMMA ConstructParts ==
  ASSUME NEW u
  PROVE  /\ Construct(u, ExprOps) => Part(u, <<"e">>, <<>>)
         /\ Construct(u, {"BLOCK_BEGIN"}) => Part(u, <<"block">>, <<>>)
         /\ Construct(u, Stmts) => Part(u, <<"stmts">>, <<"stmts">>)
<1>1. /\ \A a : <<a>> # <<>> /\ Head(<<a>>) = a /\ Tail(<<a>>) = <<>>
      /\ <<>> \in Seq(Bytes!SkipItems) /\ <<"e">> \in Seq(Bytes!SkipItems)
      /\ <<"block">> \in Seq(Bytes!SkipItems) /\ <<"stmts">> \in Seq(Bytes!SkipItems)
  BY ShortSequences DEF Bytes!SkipItems
<1>2. ASSUME Construct(u, ExprOps) PROVE Part(u, <<"e">>, <<>>)
  <2>1. Aligned(u) /\ Len(u) >= 1
    BY <1>2 DEF Construct
  <2>2. ASSUME NEW c \in Seq(Tokens), NEW n \in DOMAIN c, c[n] = u[1]
        PROVE  Moves(c, <<<<"e">>, n>>, <<<<>>, n + Len(u)>>)
    <3> DEFINE x == <<<<"e">>, n>>
               y == <<<<>>, n + Len(u)>>
    <3>1. /\ x[1] # <<>> /\ x[2] \in DOMAIN c /\ Head(x[1]) = "e" /\ c[x[2]].t = "op"
          /\ c[x[2]].op \in ExprOps /\ y = <<Tail(x[1]), x[2] + c[x[2]].size>>
      BY <1>1, <1>2, <2>2 DEF Construct
    <3> HIDE DEF x, y
    <3>2. Moves(c, x, y)
      BY <3>1, Zenon DEF Moves
    <3> QED
      BY <3>2 DEF x, y
  <2> QED
    BY <1>1, <2>1, <2>2, MovePart
<1>3. ASSUME Construct(u, {"BLOCK_BEGIN"}) PROVE Part(u, <<"block">>, <<>>)
  <2>1. Aligned(u) /\ Len(u) >= 1
    BY <1>3 DEF Construct
  <2>2. ASSUME NEW c \in Seq(Tokens), NEW n \in DOMAIN c, c[n] = u[1]
        PROVE  Moves(c, <<<<"block">>, n>>, <<<<>>, n + Len(u)>>)
    <3> DEFINE x == <<<<"block">>, n>>
               y == <<<<>>, n + Len(u)>>
    <3>1. /\ x[1] # <<>> /\ x[2] \in DOMAIN c /\ Head(x[1]) = "block"
          /\ Bytes!OpensBlock(c[x[2]]) /\ y = <<Tail(x[1]), x[2] + c[x[2]].size>>
      BY <1>1, <1>3, <2>2 DEF Construct, Bytes!OpensBlock
    <3> HIDE DEF x, y
    <3>2. Moves(c, x, y)
      BY <3>1, Zenon DEF Moves
    <3> QED
      BY <3>2 DEF x, y
  <2> QED
    BY <1>1, <2>1, <2>2, MovePart
<1>4. ASSUME Construct(u, Stmts) PROVE Part(u, <<"stmts">>, <<"stmts">>)
  <2>1. Aligned(u) /\ Len(u) >= 1
    BY <1>4 DEF Construct
  <2>2. ASSUME NEW c \in Seq(Tokens), NEW n \in DOMAIN c, c[n] = u[1]
        PROVE  Moves(c, <<<<"stmts">>, n>>, <<<<"stmts">>, n + Len(u)>>)
    <3> DEFINE x == <<<<"stmts">>, n>>
               y == <<<<"stmts">>, n + Len(u)>>
    <3>1. /\ x[1] # <<>> /\ x[2] \in DOMAIN c /\ Head(x[1]) = "stmts" /\ c[x[2]].t = "op"
          /\ c[x[2]].op \in Stmts /\ y = <<x[1], x[2] + c[x[2]].size>>
      BY <1>1, <1>4, <2>2 DEF Construct
    <3> HIDE DEF x, y
    <3>2. Moves(c, x, y)
      BY <3>1, Zenon DEF Moves
    <3> QED
      BY <3>2 DEF x, y
  <2> QED
    BY <1>1, <2>1, <2>2, MovePart
<1> QED
  BY <1>2, <1>3, <1>4
-----------------------------------------------------------------------------
(* Concatenating, and collecting, one after the other.                     *)
Steps(V, n, base, G, f) ==
  f \in [0..n -> V] /\ f[0] = base /\ \A i \in 1..n : f[i] = G[<<f[i - 1], i>>]

LEMMA StepByStep ==
  ASSUME NEW V, NEW n \in Nat, NEW base \in V, NEW G, G \in [V \X (1..n) -> V]
  PROVE  \E f : Steps(V, n, base, G, f)
<1> DEFINE Upto(m) == \E f \in [0..m -> V] : f[0] = base /\ \A i \in 1..m : f[i] = G[<<f[i - 1], i>>]
           S == {m \in 0..n : Upto(m)}
<1>1. 0 \in S
  <2> DEFINE f == [i \in 0..0 |-> base]
  <2>1. f \in [0..0 -> V] /\ f[0] = base /\ \A i \in 1..0 : f[i] = G[<<f[i - 1], i>>]
    OBVIOUS
  <2>2. 0 \in 0..n
    OBVIOUS
  <2> HIDE DEF f
  <2>3. Upto(0)
    BY <2>1
  <2> QED
    BY <2>2, <2>3
<1>2. ASSUME NEW m \in 1..n, m - 1 \in S PROVE m \in S
  <2>1. PICK f \in [0..(m - 1) -> V] : f[0] = base /\ \A i \in 1..(m - 1) : f[i] = G[<<f[i - 1], i>>]
    BY <1>2
  <2>2. /\ m - 1 \in 0..(m - 1) /\ m \in 0..n /\ m \in Nat
    OBVIOUS
  <2>3. f[m - 1] \in V
    BY <2>2
  <2>4. G[<<f[m - 1], m>>] \in V
    BY <2>3
  <2> DEFINE g == [i \in 0..m |-> IF i = m THEN G[<<f[m - 1], m>>] ELSE f[i]]
  <2>5. \A i \in 0..m : i # m => i \in 0..(m - 1)
    BY <2>2
  <2>6. g \in [0..m -> V]
    BY <2>4, <2>5
  <2>7. \A i \in 0..(m - 1) : g[i] = f[i]
    BY <2>2
  <2>8. g[m] = G[<<f[m - 1], m>>]
    BY <2>2
  <2>9. g[0] = base
    <3>1. 0 \in 0..(m - 1)
      BY <2>2
    <3> QED
      BY <2>1, <2>7, <3>1
  <2> HIDE DEF g
  <2>10. \A i \in 1..m : g[i] = G[<<g[i - 1], i>>]
    <3> TAKE i \in 1..m
    <3>1. CASE i = m
      BY <2>2, <2>7, <2>8, <3>1
    <3>2. CASE i # m
      <4>1. i \in 1..(m - 1) /\ i \in 0..(m - 1) /\ i - 1 \in 0..(m - 1)
        BY <2>2, <3>2
      <4> QED
        BY <2>1, <2>7, <4>1
    <3> QED
      BY <3>1, <3>2
  <2>11. Upto(m)
    BY <2>6, <2>9, <2>10
  <2> QED
    BY <2>2, <2>11
<1> HIDE DEF S
<1>3. \A m \in 0..n : m \in S
  BY <1>1, <1>2, Upwards
<1>4. n \in 0..n
  OBVIOUS
<1>5. n \in S
  BY <1>3, <1>4
<1> QED
  BY <1>5 DEF S, Steps

\* The streams of ss up to the i-th.
Flattening(S, ss, g) ==
  /\ g \in [0..Len(ss) -> Seq(S)] /\ g[0] = <<>>
  /\ \A i \in 1..Len(ss) : g[i] = g[i - 1] \o ss[i]

LEMMA FlattenIs ==
  ASSUME NEW S, NEW ss \in Seq(Seq(S))
  PROVE  /\ \E g : Flattening(S, ss, g)
         /\ \A g : Flattening(S, ss, g) => Bytes!FlattenSeq(ss) = g[Len(ss)]
<1> DEFINE n == Len(ss)
           V == Seq(S)
<1>1. n \in Nat /\ (\A i \in 1..n : ss[i] \in V) /\ <<>> \in V
  BY EmptyIs
<1>2. \E g : Flattening(S, ss, g)
  <2> DEFINE G == [x \in V \X (1..n) |-> x[1] \o ss[x[2]]]
  <2>1. G \in [V \X (1..n) -> V]
    <3> SUFFICES ASSUME NEW x \in V \X (1..n) PROVE x[1] \o ss[x[2]] \in V
      OBVIOUS
    <3>1. x[1] \in Seq(S) /\ ss[x[2]] \in Seq(S)
      BY <1>1
    <3> QED
      BY <3>1
  <2>2. \A v \in V, i \in 1..n : G[<<v, i>>] = v \o ss[i]
    OBVIOUS
  <2> HIDE DEF G, V, n
  <2>5. PICK f : Steps(V, n, <<>>, G, f)
    <3>1. <<>> \in V /\ n \in Nat
      BY <1>1
    <3> QED
      BY <2>1, <3>1, StepByStep
  <2>3. f \in [0..n -> V] /\ f[0] = <<>> /\ \A i \in 1..n : f[i] = G[<<f[i - 1], i>>]
    BY <2>5 DEF Steps
  <2>4. \A i \in 1..n : f[i] = f[i - 1] \o ss[i]
    <3> TAKE i \in 1..n
    <3>1. i - 1 \in 0..n
      BY <1>1
    <3>2. f[i - 1] \in V
      BY <2>3, <3>1
    <3> QED
      BY <2>2, <2>3, <3>2
  <2>6. Flattening(S, ss, f)
    BY <2>3, <2>4 DEF Flattening, n, V
  <2> QED
    BY <2>6
<1>3. ASSUME NEW g, Flattening(S, ss, g) PROVE Bytes!FlattenSeq(ss) = g[n]
  <2>1. g \in [0..n -> V] /\ g[0] = <<>> /\ \A i \in 1..n : g[i] = g[i - 1] \o ss[i]
    BY <1>3 DEF Flattening
  <2>2. CASE n = 0
    <3>1. ss = <<>>
      BY <2>2
    <3>2. Bytes!FlattenSeq(ss) = ss
      BY <2>2 DEF Bytes!FlattenSeq
    <3> QED
      BY <2>1, <2>2, <3>1, <3>2
  <2>3. CASE n # 0
    <3> DEFINE Good(f) == f = [i \in 1..n |-> IF i = 1 THEN ss[i] ELSE f[i - 1] \o ss[i]]
               h == CHOOSE f : Good(f)
    <3>1. Bytes!FlattenSeq(ss) = h[n]
      BY <2>3, Zenon DEF Bytes!FlattenSeq
    <3>2. Good(h)
      <4> DEFINE f == [i \in 1..n |-> g[i]]
      <4>1. \A i \in 1..n : f[i] = IF i = 1 THEN ss[i] ELSE f[i - 1] \o ss[i]
        <5> TAKE i \in 1..n
        <5>1. f[i] = g[i] /\ g[i] = g[i - 1] \o ss[i] /\ ss[i] \in Seq(S)
          BY <1>1, <2>1
        <5>2. CASE i = 1
          <6>1. g[i - 1] = <<>>
            BY <2>1, <5>2
          <6>2. <<>> \o ss[i] = ss[i]
            BY <5>1, EmptyIs
          <6> QED
            BY <5>1, <5>2, <6>1, <6>2
        <5>3. CASE i # 1
          <6>1. i - 1 \in 1..n
            BY <1>1, <5>3
          <6>2. f[i - 1] = g[i - 1]
            BY <6>1
          <6> HIDE DEF f
          <6> QED
            BY <5>1, <5>3, <6>2
        <5> QED
          BY <5>2, <5>3
      <4>2. f = [i \in 1..n |-> f[i]]
        OBVIOUS
      <4> HIDE DEF f
      <4>3. Good(f)
        BY <4>1, <4>2
      <4> HIDE DEF Good
      <4> QED
        BY <4>3
    <3> HIDE DEF h
    <3>3. \A i \in 1..n : h[i] = IF i = 1 THEN ss[i] ELSE h[i - 1] \o ss[i]
      BY <3>2, Zenon
    <3> DEFINE R == {i \in 0..n : i = 0 \/ h[i] = g[i]}
    <3>4. 0 \in R
      BY <1>1
    <3>5. ASSUME NEW i \in 1..n, i - 1 \in R PROVE i \in R
      <4>1. h[i] = IF i = 1 THEN ss[i] ELSE h[i - 1] \o ss[i]
        BY <3>3
      <4>2. g[i] = g[i - 1] \o ss[i] /\ ss[i] \in Seq(S)
        BY <1>1, <2>1
      <4>3. CASE i = 1
        <5>1. g[i - 1] = <<>>
          BY <2>1, <4>3
        <5>2. <<>> \o ss[i] = ss[i]
          BY <4>2, EmptyIs
        <5> QED
          BY <4>1, <4>2, <4>3, <5>1, <5>2
      <4>4. CASE i # 1
        <5>1. i - 1 # 0 /\ i \in 0..n
          BY <1>1, <4>4
        <5>2. h[i - 1] = g[i - 1]
          BY <3>5, <5>1
        <5>3. h[i] = g[i]
          BY <4>1, <4>2, <4>4, <5>2
        <5> QED
          BY <5>1, <5>3
      <4>5. i \in 0..n
        BY <1>1
      <4> QED
        BY <4>3, <4>4, <4>5
    <3> HIDE DEF R
    <3>6. \A i \in 0..n : i \in R
      BY <1>1, <3>4, <3>5, Upwards
    <3>7. n \in R
      BY <1>1, <3>6
    <3> QED
      BY <2>3, <3>1, <3>7 DEF R
  <2> QED
    BY <2>2, <2>3
<1> QED
  BY <1>2, <1>3

LEMMA FlattenJoins ==
  ASSUME NEW S, NEW ss \in Seq(Seq(S)), NEW tt \in Seq(Seq(S))
  PROVE  /\ Bytes!FlattenSeq(ss) \in Seq(S)
         /\ Bytes!FlattenSeq(ss \o tt) = Bytes!FlattenSeq(ss) \o Bytes!FlattenSeq(tt)
<1> DEFINE n == Len(ss)
           m == Len(tt)
           all == ss \o tt
<1>1. /\ n \in Nat /\ m \in Nat /\ all \in Seq(Seq(S)) /\ Len(all) = n + m
      /\ \A i \in 1..n : all[i] = ss[i]
      /\ \A i \in 1..m : all[i + n] = tt[i] /\ tt[i] \in Seq(S)
  BY ConcatenationIs
<1> HIDE DEF n, m, all
<1>2. PICK f : Flattening(S, ss, f)
  BY FlattenIs
<1>3. PICK g : Flattening(S, tt, g)
  BY FlattenIs
<1>4. PICK h : Flattening(S, all, h)
  BY <1>1, FlattenIs
<1>5. /\ f \in [0..n -> Seq(S)] /\ f[0] = <<>> /\ \A i \in 1..n : f[i] = f[i - 1] \o ss[i]
  BY <1>2 DEF Flattening, n
<1>6. /\ g \in [0..m -> Seq(S)] /\ g[0] = <<>> /\ \A i \in 1..m : g[i] = g[i - 1] \o tt[i]
  BY <1>3 DEF Flattening, m
<1>7. /\ h \in [0..(n + m) -> Seq(S)] /\ h[0] = <<>>
      /\ \A i \in 1..(n + m) : h[i] = h[i - 1] \o all[i]
  BY <1>1, <1>4 DEF Flattening
<1> DEFINE R == {i \in 0..n : h[i] = f[i]}
           Q == {i \in 0..m : h[i + n] = f[n] \o g[i]}
<1>8. f[n] \in Seq(S) /\ n \in 0..n /\ m \in 0..m /\ 0 \in 0..n /\ 0 \in 0..m
  BY <1>1, <1>5
<1>9. 0 \in R
  BY <1>5, <1>7, <1>8
<1>10. ASSUME NEW i \in 1..n, i - 1 \in R PROVE i \in R
  <2>1. i \in 0..n /\ i \in 1..(n + m) /\ h[i - 1] = f[i - 1]
    BY <1>1, <1>10
  <2>2. h[i] = h[i - 1] \o all[i] /\ f[i] = f[i - 1] \o ss[i] /\ all[i] = ss[i]
    BY <1>1, <1>5, <1>7, <2>1
  <2> QED
    BY <2>1, <2>2
<1>11. n \in R
  <2> HIDE DEF R
  <2>1. \A i \in 0..n : i \in R
    BY <1>1, <1>9, <1>10, Upwards
  <2> QED
    BY <1>8, <2>1
<1>12. 0 \in Q
  <2>1. f[n] \o <<>> = f[n]
    BY <1>8, EmptyIs
  <2>2. h[0 + n] = f[n]
    BY <1>1, <1>11
  <2> QED
    BY <1>6, <1>8, <2>1, <2>2
<1>13. ASSUME NEW i \in 1..m, i - 1 \in Q PROVE i \in Q
  <2>1. i + n \in 1..(n + m) /\ (i + n) - 1 = (i - 1) + n /\ i - 1 \in 0..m /\ i \in 0..m
    BY <1>1
  <2>2. h[i + n] = h[(i - 1) + n] \o all[i + n]
    BY <1>7, <2>1
  <2>3. h[(i - 1) + n] = f[n] \o g[i - 1] /\ all[i + n] = tt[i] /\ g[i] = g[i - 1] \o tt[i]
    BY <1>1, <1>6, <1>13
  <2>4. g[i - 1] \in Seq(S) /\ tt[i] \in Seq(S)
    BY <1>1, <1>6, <2>1
  <2>5. (f[n] \o g[i - 1]) \o tt[i] = f[n] \o (g[i - 1] \o tt[i])
    <3>1. f[n] \in Seq(S)
      BY <1>8
    <3>2. AssociativeOn(S)
      BY Associative, Zenon
    <3> QED
      BY <2>4, <3>1, <3>2, Zenon DEF AssociativeOn
  <2>6. h[i + n] = f[n] \o g[i]
    BY <2>2, <2>3, <2>5
  <2> QED
    BY <2>1, <2>6
<1>14. m \in Q
  <2> HIDE DEF Q
  <2>1. \A i \in 0..m : i \in Q
    BY <1>1, <1>12, <1>13, Upwards
  <2> QED
    BY <1>8, <2>1
<1>15. h[m + n] = f[n] \o g[m] /\ m + n = n + m
  <2>1. h[m + n] = f[n] \o g[m]
    BY <1>14, Zenon
  <2>2. m + n = n + m
    BY <1>1
  <2> QED
    BY <2>1, <2>2
<1>16. Bytes!FlattenSeq(ss) = f[n] /\ Bytes!FlattenSeq(tt) = g[m] /\ Bytes!FlattenSeq(all) = h[n + m]
  BY <1>1, <1>2, <1>3, <1>4, FlattenIs DEF n, m
<1> QED
  BY <1>8, <1>15, <1>16 DEF all

LEMMA FlattenFew ==
  ASSUME NEW S
  PROVE  /\ Bytes!FlattenSeq(<<>>) = <<>>
         /\ \A a \in Seq(S) : Bytes!FlattenSeq(<<a>>) = a
<1>1. Bytes!FlattenSeq(<<>>) = <<>>
  BY DEF Bytes!FlattenSeq
<1>2. ASSUME NEW a \in Seq(S) PROVE Bytes!FlattenSeq(<<a>>) = a
  <2> DEFINE ss == <<a>>
  <2>1. ss \in Seq(Seq(S)) /\ Len(ss) = 1 /\ ss[1] = a
    OBVIOUS
  <2> HIDE DEF ss
  <2>2. PICK g : Flattening(S, ss, g)
    BY <2>1, FlattenIs
  <2>3. g[0] = <<>> /\ g[1] = g[1 - 1] \o ss[1]
    BY <2>1, <2>2 DEF Flattening
  <2>4. g[1] = a
    BY <2>1, <2>3, EmptyIs
  <2> QED
    BY <2>1, <2>2, <2>4, FlattenIs DEF ss
<1> QED
  BY <1>1, <1>2
-----------------------------------------------------------------------------
(* Parts and nodes.                                                        *)
Parts == [child : BOOLEAN, tokens : Seq(Tokens)]
StreamsOf(ps) == [i \in DOMAIN ps |-> ps[i].tokens]

LEMMA StreamsAre ==
  ASSUME NEW ps \in Seq(Parts)
  PROVE  /\ StreamsOf(ps) \in Seq(Seq(Tokens)) /\ Len(StreamsOf(ps)) = Len(ps)
         /\ \A i \in 1..Len(ps) : StreamsOf(ps)[i] = ps[i].tokens
<1>1. Len(ps) \in Nat /\ DOMAIN ps = 1..Len(ps) /\ \A i \in 1..Len(ps) : ps[i].tokens \in Seq(Tokens)
  <2>1. \A p \in Parts : p.tokens \in Seq(Tokens)
    BY DEF Parts
  <2>2. Len(ps) \in Nat /\ DOMAIN ps = 1..Len(ps) /\ \A i \in 1..Len(ps) : ps[i] \in Parts
    OBVIOUS
  <2> QED
    BY <2>1, <2>2
<1>2. StreamsOf(ps) = [i \in 1..Len(ps) |-> ps[i].tokens]
  BY <1>1 DEF StreamsOf
<1>3. StreamsOf(ps) \in Seq(Seq(Tokens))
  BY <1>1, <1>2
<1> QED
  BY <1>1, <1>2, <1>3

LEMMA StreamsTogether ==
  ASSUME NEW u, NEW v, u \in Seq(Seq(Tokens)), v \in Seq(Seq(Tokens))
  PROVE  /\ u \o v \in Seq(Seq(Tokens)) /\ Len(u \o v) = Len(u) + Len(v)
         /\ \A i \in 1..Len(u) : (u \o v)[i] = u[i]
         /\ \A i \in 1..Len(v) : (u \o v)[i + Len(u)] = v[i]
<1> DEFINE S == Seq(Tokens)
<1>1. u \in Seq(S) /\ v \in Seq(S)
  OBVIOUS
<1> HIDE DEF S
<1>2. /\ u \o v \in Seq(S) /\ Len(u \o v) = Len(u) + Len(v)
      /\ \A i \in 1..Len(u) : (u \o v)[i] = u[i]
      /\ \A i \in 1..Len(v) : (u \o v)[i + Len(u)] = v[i]
  BY <1>1, ConcatenationIs
<1> QED
  BY <1>2 DEF S

LEMMA TokensOfIs ==
  ASSUME NEW ps \in Seq(Parts), NEW qs \in Seq(Parts)
  PROVE  /\ Bytes!TokensOf(ps) \in Seq(Tokens) /\ Bytes!TokensOf(ps) = Bytes!FlattenSeq(StreamsOf(ps))
         /\ ps \o qs \in Seq(Parts)
         /\ Bytes!TokensOf(ps \o qs) = Bytes!TokensOf(ps) \o Bytes!TokensOf(qs)
<1>1. \A rs : Bytes!TokensOf(rs) = Bytes!FlattenSeq(StreamsOf(rs))
  BY DEF Bytes!TokensOf, StreamsOf
<1>2. ps \o qs \in Seq(Parts)
  OBVIOUS
<1>3. StreamsOf(ps \o qs) = StreamsOf(ps) \o StreamsOf(qs)
  <2> DEFINE u == StreamsOf(ps)
             v == StreamsOf(qs)
             all == ps \o qs
             w == StreamsOf(all)
  <2>1. /\ u \in Seq(Seq(Tokens)) /\ Len(u) = Len(ps) /\ \A i \in 1..Len(ps) : u[i] = ps[i].tokens
        /\ v \in Seq(Seq(Tokens)) /\ Len(v) = Len(qs) /\ \A i \in 1..Len(qs) : v[i] = qs[i].tokens
        /\ w \in Seq(Seq(Tokens)) /\ Len(w) = Len(all) /\ \A i \in 1..Len(all) : w[i] = all[i].tokens
    BY <1>2, StreamsAre
  <2>2. /\ Len(all) = Len(ps) + Len(qs) /\ Len(ps) \in Nat /\ Len(qs) \in Nat
        /\ \A i \in 1..Len(ps) : all[i] = ps[i]
        /\ \A i \in 1..Len(qs) : all[i + Len(ps)] = qs[i]
    BY ConcatenationIs
  <2>3. /\ u \o v \in Seq(Seq(Tokens)) /\ Len(u \o v) = Len(ps) + Len(qs)
        /\ \A i \in 1..Len(ps) : (u \o v)[i] = u[i]
        /\ \A i \in 1..Len(qs) : (u \o v)[i + Len(ps)] = v[i]
    <3>1. ASSUME NEW a, NEW b, a \in Seq(Seq(Tokens)), b \in Seq(Seq(Tokens)), Len(a) = Len(ps), Len(b) = Len(qs)
          PROVE  /\ a \o b \in Seq(Seq(Tokens)) /\ Len(a \o b) = Len(ps) + Len(qs)
                 /\ \A i \in 1..Len(ps) : (a \o b)[i] = a[i]
                 /\ \A i \in 1..Len(qs) : (a \o b)[i + Len(ps)] = b[i]
      <4>1. a \o b \in Seq(Seq(Tokens)) /\ Len(a \o b) = Len(ps) + Len(qs)
        BY <3>1, StreamsTogether
      <4>2. \A i \in 1..Len(ps) : (a \o b)[i] = a[i]
        BY <3>1, StreamsTogether
      <4>3. \A i \in 1..Len(qs) : (a \o b)[i + Len(ps)] = b[i]
        BY <3>1, StreamsTogether
      <4> QED
        BY <4>1, <4>2, <4>3
    <3>2. u \in Seq(Seq(Tokens)) /\ v \in Seq(Seq(Tokens))
      BY <2>1
    <3>3. Len(u) = Len(ps) /\ Len(v) = Len(qs)
      BY <2>1
    <3> HIDE DEF u, v
    <3>4. u \o v \in Seq(Seq(Tokens)) /\ Len(u \o v) = Len(ps) + Len(qs)
      BY <3>1, <3>2, <3>3
    <3>5. \A i \in 1..Len(ps) : (u \o v)[i] = u[i]
      BY <3>1, <3>2, <3>3
    <3>6. \A i \in 1..Len(qs) : (u \o v)[i + Len(ps)] = v[i]
      BY <3>1, <3>2, <3>3
    <3> QED
      BY <3>4, <3>5, <3>6
  <2> HIDE DEF u, v, all, w
  <2>4. ASSUME NEW i \in 1..Len(w) PROVE w[i] = (u \o v)[i]
    <3>1. i \in 1..(Len(ps) + Len(qs)) /\ w[i] = all[i].tokens
      BY <2>1, <2>2
    <3>2. CASE i <= Len(ps)
      <4>1. i \in 1..Len(ps)
        BY <2>2, <3>1, <3>2
      <4> QED
        BY <2>1, <2>2, <2>3, <3>1, <4>1
    <3>3. CASE ~(i <= Len(ps))
      <4> DEFINE j == i - Len(ps)
      <4>1. j \in 1..Len(qs) /\ j + Len(ps) = i
        BY <2>2, <3>1, <3>3
      <4> HIDE DEF j
      <4> QED
        BY <2>1, <2>2, <2>3, <3>1, <4>1
    <3> QED
      BY <3>2, <3>3
  <2>5. w = u \o v
    BY <2>1, <2>2, <2>3, <2>4, SameSequences
  <2> QED
    BY <2>5 DEF u, v, w, all
<1>4. StreamsOf(ps) \in Seq(Seq(Tokens)) /\ StreamsOf(qs) \in Seq(Seq(Tokens))
  BY StreamsAre
<1> QED
  BY <1>1, <1>2, <1>3, <1>4, FlattenJoins

LEMMA TokensOfOne ==
  /\ Bytes!TokensOf(<<>>) = <<>>
  /\ \A p \in Parts : Bytes!TokensOf(<<p>>) = p.tokens /\ <<p>> \in Seq(Parts)
<1>1. Bytes!TokensOf(<<>>) = <<>>
  <2>1. StreamsOf(<<>>) = <<>>
    BY DEF StreamsOf
  <2> QED
    BY <2>1, FlattenFew DEF Bytes!TokensOf, StreamsOf
<1>2. ASSUME NEW p \in Parts PROVE Bytes!TokensOf(<<p>>) = p.tokens /\ <<p>> \in Seq(Parts)
  <2>1. p.tokens \in Seq(Tokens)
    BY DEF Parts
  <2>2. <<p>> \in Seq(Parts) /\ Len(<<p>>) = 1 /\ <<p>>[1] = p
    OBVIOUS
  <2>3. StreamsOf(<<p>>) = <<p.tokens>>
    <3>1. /\ StreamsOf(<<p>>) \in Seq(Seq(Tokens)) /\ Len(StreamsOf(<<p>>)) = 1
          /\ StreamsOf(<<p>>)[1] = p.tokens
      <4> DEFINE ps == <<p>>
      <4>1. ps \in Seq(Parts) /\ Len(ps) = 1 /\ ps[1] = p
        BY <2>2
      <4> HIDE DEF ps
      <4>2. /\ StreamsOf(ps) \in Seq(Seq(Tokens)) /\ Len(StreamsOf(ps)) = 1
            /\ \A i \in 1..1 : StreamsOf(ps)[i] = ps[i].tokens
        BY <4>1, StreamsAre
      <4> QED
        BY <4>1, <4>2 DEF ps
    <3> DEFINE s == StreamsOf(<<p>>)
               t == <<p.tokens>>
    <3>2. t \in Seq(Seq(Tokens)) /\ Len(t) = 1 /\ t[1] = p.tokens
      BY <2>1
    <3> HIDE DEF s, t
    <3>3. Len(s) = Len(t) /\ \A i \in 1..Len(s) : s[i] = t[i]
      BY <3>1, <3>2 DEF s
    <3>4. s = t
      BY <3>1, <3>2, <3>3, SameSequences DEF s
    <3> QED
      BY <3>4 DEF s, t
  <2> QED
    BY <2>1, <2>2, <2>3, FlattenFew, TokensOfIs
<1> QED
  BY <1>1, <1>2

LEMMA KidsAre ==
  ASSUME NEW ps \in Seq(Parts)
  PROVE  Bytes!KidsOf(ps) \in Seq(Nat)
<1> DEFINE n == Len(ps)
           V == Seq(Nat)
           G == [x \in V \X (1..n) |->
                   IF ps[x[2]].child THEN Append(x[1], Bytes!OffsetOf(ps, x[2])) ELSE x[1]]
           Good(f) == f = [i \in 0..n |->
                       IF i = 0 THEN <<>>
                       ELSE IF ps[i].child THEN Append(f[i - 1], Bytes!OffsetOf(ps, i)) ELSE f[i - 1]]
           h == CHOOSE f : Good(f)
<1>1. n \in Nat /\ <<>> \in V
  BY EmptyIs
<1>2. \A i \in 1..n : Bytes!OffsetOf(ps, i) \in Nat
  <2> TAKE i \in 1..n
  <2>1. SubSeq(ps, 1, i - 1) \in Seq(Parts)
    <3>1. i - 1 \in Int /\ i - 1 <= Len(ps)
      BY <1>1
    <3> QED
      BY <3>1
  <2>2. Bytes!TokensOf(SubSeq(ps, 1, i - 1)) \in Seq(Tokens)
    BY <2>1, TokensOfIs
  <2>3. Len(Bytes!TokensOf(SubSeq(ps, 1, i - 1))) \in Nat
    BY <2>2
  <2> QED
    BY <2>3 DEF Bytes!OffsetOf
<1>3. G \in [V \X (1..n) -> V]
  <2> SUFFICES ASSUME NEW x \in V \X (1..n)
               PROVE  (IF ps[x[2]].child THEN Append(x[1], Bytes!OffsetOf(ps, x[2])) ELSE x[1]) \in V
    OBVIOUS
  <2>1. x[1] \in Seq(Nat) /\ x[2] \in 1..n
    OBVIOUS
  <2>2. Bytes!OffsetOf(ps, x[2]) \in Nat
    BY <1>2, <2>1
  <2> QED
    BY <2>1, <2>2
<1>4. \A v \in V, i \in 1..n : G[<<v, i>>] = IF ps[i].child THEN Append(v, Bytes!OffsetOf(ps, i)) ELSE v
  OBVIOUS
<1>5. Bytes!KidsOf(ps) = h[n]
  BY Zenon DEF Bytes!KidsOf
<1> HIDE DEF G, V, h, n
<1>6. PICK f : Steps(V, n, <<>>, G, f)
  BY <1>1, <1>3, StepByStep
<1>7. f \in [0..n -> V] /\ f[0] = <<>> /\ \A i \in 1..n : f[i] = G[<<f[i - 1], i>>]
  BY <1>6 DEF Steps
<1>8. Good(f)
  <2>1. \A i \in 0..n : f[i] = IF i = 0 THEN <<>>
          ELSE IF ps[i].child THEN Append(f[i - 1], Bytes!OffsetOf(ps, i)) ELSE f[i - 1]
    <3> TAKE i \in 0..n
    <3>1. CASE i = 0
      BY <1>7, <3>1
    <3>2. CASE i # 0
      <4>1. i \in 1..n /\ i - 1 \in 0..n
        BY <1>1, <3>2
      <4>2. f[i - 1] \in V
        BY <1>7, <4>1
      <4>3. f[i] = G[<<f[i - 1], i>>]
        BY <1>7, <4>1
      <4> QED
        BY <1>4, <3>2, <4>1, <4>2, <4>3
    <3> QED
      BY <3>1, <3>2
  <2>2. f = [i \in 0..n |-> f[i]]
    BY <1>7
  <2> QED
    BY <2>1, <2>2
<1>9. Good(h)
  <2> HIDE DEF Good
  <2> QED
    BY <1>8 DEF h
<1>10. \A i \in 0..n : h[i] = IF i = 0 THEN <<>>
          ELSE IF ps[i].child THEN Append(h[i - 1], Bytes!OffsetOf(ps, i)) ELSE h[i - 1]
  BY <1>9, Zenon
<1> DEFINE R == {i \in 0..n : h[i] \in V}
<1>11. 0 \in R
  BY <1>1, <1>10
<1>12. ASSUME NEW i \in 1..n, i - 1 \in R PROVE i \in R
  <2>1. i \in 0..n /\ i # 0
    BY <1>1
  <2>2. h[i] = IF ps[i].child THEN Append(h[i - 1], Bytes!OffsetOf(ps, i)) ELSE h[i - 1]
    BY <1>10, <2>1
  <2>3. h[i - 1] \in V /\ Bytes!OffsetOf(ps, i) \in Nat
    BY <1>2, <1>12
  <2>4. h[i] \in V
    BY <2>2, <2>3 DEF V
  <2> QED
    BY <2>1, <2>4
<1> HIDE DEF R
<1>13. \A i \in 0..n : i \in R
  BY <1>1, <1>11, <1>12, Upwards
<1>14. n \in R
  BY <1>1, <1>13
<1> QED
  BY <1>5, <1>14 DEF R, V

\* What the node of an opcode looks like.
LEMMA NodeShape ==
  ASSUME NEW op \in Stmts \cup {"BLOCK_BEGIN"}, NEW ps \in Seq(Parts), NEW N, N = Bytes!Node(op, ps),
         NEW body, body = Bytes!TokensOf(ps)
  PROVE  /\ N \in Seq(Tokens) /\ body \in Seq(Tokens) /\ Len(body) \in Nat /\ Len(N) = Len(body) + 1
         /\ N[1].t = "op" /\ N[1].op = op /\ N[1].size = Len(N)
         /\ At(body, N, 1) /\ IsNode(N, 1) /\ Behind(N, 1) = Len(N) + 1
         /\ \E tok \in Tokens : N = <<tok>> \o body /\ tok = N[1]
<1> DEFINE tok == [t |-> "op", op |-> op, size |-> 1 + Len(body), kids |-> Bytes!KidsOf(ps)]
<1>1. body \in Seq(Tokens) /\ Len(body) \in Nat
  BY TokensOfIs
<1>2. tok \in Tokens
  <2>1. 1 + Len(body) \in Nat \ {0}
    BY <1>1
  <2>2. Bytes!KidsOf(ps) \in Seq(Nat)
    BY KidsAre
  <2> QED
    BY <2>1, <2>2 DEF Tokens, Stmts
<1>3. N = <<tok>> \o body
  BY DEF Bytes!Node
<1>4. tok.t = "op" /\ tok.op = op /\ tok.size = 1 + Len(body)
  OBVIOUS
<1> HIDE DEF tok
<1>5. <<tok>> \in Seq(Tokens) /\ Len(<<tok>>) = 1 /\ <<tok>>[1] = tok
  BY <1>2, OneToken
<1>6. /\ N \in Seq(Tokens) /\ Len(N) = 1 + Len(body) /\ N[1] = tok /\ At(body, N, 1)
  <2> DEFINE u == <<tok>>
  <2>1. u \in Seq(Tokens) /\ Len(u) = 1 /\ u[1] = tok /\ 1 \in 1..Len(u)
    BY <1>5
  <2> HIDE DEF u
  <2>2. /\ u \o body \in Seq(Tokens) /\ Len(u \o body) = Len(u) + Len(body)
        /\ \A i \in 1..Len(u) : (u \o body)[i] = u[i]
    <3>1. u \in Seq(Tokens) /\ body \in Seq(Tokens)
      BY <1>1, <2>1
    <3> QED
      BY <3>1, ConcatenationIs
  <2>3. At(body, u \o body, Len(u))
    BY <1>1, <2>1, AtParts
  <2>4. N = u \o body
    BY <1>3 DEF u
  <2> QED
    BY <2>1, <2>2, <2>3, <2>4
<1>7. 1 \in DOMAIN N
  BY <1>1, <1>6
<1>8. IsNode(N, 1) /\ Behind(N, 1) = Len(N) + 1
  BY <1>1, <1>4, <1>6, <1>7 DEF IsNode, Behind
<1>9. N[1].t = "op" /\ N[1].op = op /\ N[1].size = Len(N)
  BY <1>4, <1>6
<1>10. Len(N) = Len(body) + 1
  BY <1>1, <1>6
<1> QED
  BY <1>1, <1>2, <1>3, <1>6, <1>8, <1>9, <1>10, Zenon

LEMMA NodeConstruct ==
  ASSUME NEW op \in Stmts \cup {"BLOCK_BEGIN"}, NEW ps \in Seq(Parts), Aligned(Bytes!TokensOf(ps)),
         Whole(Bytes!Node(op, ps), 1)
  PROVE  Construct(Bytes!Node(op, ps), {op})
<1> DEFINE N == Bytes!Node(op, ps)
           body == Bytes!TokensOf(ps)
<1>1. /\ N \in Seq(Tokens) /\ body \in Seq(Tokens) /\ Len(body) \in Nat /\ Len(N) = Len(body) + 1
      /\ N[1].t = "op" /\ N[1].op = op /\ N[1].size = Len(N) /\ At(body, N, 1)
  BY NodeShape
<1>2. Aligned(body) /\ Whole(N, 1)
  OBVIOUS
<1> HIDE DEF N, body
<1>3. ASSUME NEW p, IsNode(N, p) PROVE Whole(N, p)
  <2>1. p \in 1..(Len(body) + 1) /\ N[p].t = "op"
    BY <1>1, <1>3 DEF IsNode
  <2>2. CASE p # 1
    <3> DEFINE q == p - 1
    <3>1. q \in 1..Len(body) /\ q + 1 = p
      BY <1>1, <2>1, <2>2
    <3>2. body[q] = N[p] /\ q \in DOMAIN body
      BY <1>1, <3>1 DEF At
    <3> HIDE DEF q
    <3>3. IsNode(body, q)
      BY <2>1, <3>2 DEF IsNode
    <3>4. Whole(body, q)
      BY <1>2, <3>3 DEF Aligned
    <3>5. Whole(N, q + 1)
      BY <1>1, <3>3, <3>4, WholeWithin
    <3> QED
      BY <3>1, <3>5
  <2> QED
    BY <1>2, <2>2
<1>4. Construct(N, {op})
  BY <1>1, <1>3 DEF Construct, Aligned
<1> QED
  BY <1>4 DEF N

\* What is written for items.
Written(ps, items) == ps \in Seq(Parts) /\ Part(Bytes!TokensOf(ps), items, <<>>)

LEMMA NodeWritten ==
  ASSUME NEW op \in Stmts \cup {"BLOCK_BEGIN"}, NEW ps, Written(ps, Contents(op))
  PROVE  Construct(Bytes!Node(op, ps), {op})
<1> DEFINE N == Bytes!Node(op, ps)
           body == Bytes!TokensOf(ps)
<1>1. ps \in Seq(Parts) /\ Aligned(body) /\ Through(body, Contents(op), <<>>)
  BY DEF Written, Part
<1>2. /\ N \in Seq(Tokens) /\ Len(body) \in Nat /\ Len(N) = Len(body) + 1 /\ N[1].op = op
      /\ At(body, N, 1) /\ Behind(N, 1) = Len(N) + 1
  <2>1. ps \in Seq(Parts)
    BY <1>1
  <2> QED
    BY <2>1, NodeShape
<1>3. Leads(Jumps(N), <<Contents(op), 1 + 1>>, <<<<>>, 1 + 1 + Len(body)>>)
  <2> HIDE DEF N, body
  <2> QED
    BY <1>1, <1>2 DEF Through
<1>4. 1 + 1 + Len(body) = Behind(N, 1)
  BY <1>2
<1>5. Whole(N, 1)
  BY <1>2, <1>3, <1>4 DEF Whole
<1> QED
  BY <1>1, <1>5, NodeConstruct
-----------------------------------------------------------------------------
(* What is written for the items of a layout.                              *)
LEMMA ContentsOf ==
  /\ \A op \in ReferenceOps : op \in ExprOps /\ Contents(op) = Bytes!SkipReferences[op]
  /\ \A op \in CallOps : op \in ExprOps /\ Contents(op) = Bytes!SkipCalls[op]
  /\ \A op \in OperatorOps : op \in ExprOps /\ Contents(op) = Bytes!SkipOperators[op]
  /\ \A op \in MemberOps : op \in ExprOps /\ Contents(op) = Bytes!SkipMembers[op]
  /\ \A op \in IndexingOps : op \in ExprOps /\ Contents(op) = Bytes!SkipIndexing[op]
  /\ \A op \in DeclOps : Contents(op) = Bytes!SkipStmtLayouts[op]
<1>1. /\ ReferenceOps \cap (CallOps \cup OperatorOps \cup MemberOps \cup IndexingOps) = {}
      /\ CallOps \cap (OperatorOps \cup MemberOps \cup IndexingOps) = {}
      /\ OperatorOps \cap (MemberOps \cup IndexingOps) = {} /\ MemberOps \cap IndexingOps = {}
  BY DEF ReferenceOps, CallOps, OperatorOps, MemberOps, IndexingOps
<1>2. /\ ExprOps = ReferenceOps \cup CallOps \cup OperatorOps \cup MemberOps \cup IndexingOps
      /\ DOMAIN Bytes!SkipExprLayouts = ExprOps
      /\ \A op \in ExprOps : Contents(op) = Bytes!SkipExprLayouts[op]
  BY EvalExprsAre, SameTables, ContentsAre
<1>3. \A op \in ExprOps : Contents(op) =
       IF op \in ReferenceOps THEN Bytes!SkipReferences[op]
       ELSE IF op \in CallOps THEN Bytes!SkipCalls[op]
       ELSE IF op \in OperatorOps THEN Bytes!SkipOperators[op]
       ELSE IF op \in MemberOps THEN Bytes!SkipMembers[op]
       ELSE Bytes!SkipIndexing[op]
  BY <1>2, SkipExprsAre
<1> QED
  BY <1>1, <1>2, <1>3, ContentsAre

LEMMA WrittenOne ==
  ASSUME NEW p \in Parts, NEW s, Part(p.tokens, s, <<>>)
  PROVE  Written(<<p>>, s)
BY TokensOfOne DEF Written

LEMMA WrittenNone == Written(<<>>, <<>>)
<1>1. Aligned(<<>>)
  <2>1. \A p : ~IsNode(<<>>, p)
    BY DEF IsNode
  <2> QED
    BY <2>1, EmptyIs DEF Aligned
<1>2. Through(<<>>, <<>>, <<>>)
  <2> SUFFICES ASSUME NEW c \in Seq(Tokens), NEW k, At(<<>>, c, k)
               PROVE  Leads(Jumps(c), <<<<>>, k + 1>>, <<<<>>, k + 1 + Len(<<>>)>>)
    BY DEF Through
  <2>1. k + 1 + Len(<<>>) = k + 1
    BY DEF At
  <2> QED
    BY <2>1, LeadsHere
<1>3. <<>> \in Seq(Parts)
  BY EmptyIs
<1> QED
  BY <1>1, <1>2, <1>3, TokensOfOne, EmptyIs DEF Written, Part

LEMMA WrittenTogether ==
  ASSUME NEW ps, NEW qs, NEW s, NEW t, Written(ps, s), Written(qs, t)
  PROVE  Written(ps \o qs, s \o t)
<1>1. ps \in Seq(Parts) /\ qs \in Seq(Parts)
  BY DEF Written
<1>2. ps \o qs \in Seq(Parts) /\ Bytes!TokensOf(ps \o qs) = Bytes!TokensOf(ps) \o Bytes!TokensOf(qs)
  BY <1>1, TokensOfIs
<1>3. Part(Bytes!TokensOf(ps) \o Bytes!TokensOf(qs), s \o t, <<>>)
  BY PartsTogether DEF Written
<1> QED
  BY <1>2, <1>3 DEF Written

LEMMA LongerSequences ==
  /\ \A a, b, d, f : <<a, b, d>> \o <<f>> = <<a, b, d, f>>
  /\ \A a, b, d, f, g : <<a, b, d, f>> \o <<g>> = <<a, b, d, f, g>>
<1>1. ASSUME NEW a, NEW b, NEW d, NEW f PROVE <<a, b, d>> \o <<f>> = <<a, b, d, f>>
  <2> DEFINE S == {a, b, d, f}
             u == <<a, b, d>> \o <<f>>
             v == <<a, b, d, f>>
  <2>1. <<a, b, d>> \in Seq(S) /\ <<f>> \in Seq(S) /\ v \in Seq(S)
    OBVIOUS
  <2>2. u \in Seq(S) /\ Len(u) = 4 /\ u[1] = a /\ u[2] = b /\ u[3] = d /\ u[4] = f
    BY <2>1
  <2>3. Len(v) = 4 /\ v[1] = a /\ v[2] = b /\ v[3] = d /\ v[4] = f
    OBVIOUS
  <2> HIDE DEF u, v, S
  <2>4. \A i \in 1..Len(u) : u[i] = v[i]
    BY <2>2, <2>3
  <2>5. u = v
    BY <2>1, <2>2, <2>3, <2>4, SameSequences
  <2> QED
    BY <2>5 DEF u, v
<1>2. ASSUME NEW a, NEW b, NEW d, NEW f, NEW g PROVE <<a, b, d, f>> \o <<g>> = <<a, b, d, f, g>>
  <2> DEFINE S == {a, b, d, f, g}
             u == <<a, b, d, f>> \o <<g>>
             v == <<a, b, d, f, g>>
  <2>1. <<a, b, d, f>> \in Seq(S) /\ <<g>> \in Seq(S) /\ v \in Seq(S)
    OBVIOUS
  <2>2. u \in Seq(S) /\ Len(u) = 5 /\ u[1] = a /\ u[2] = b /\ u[3] = d /\ u[4] = f /\ u[5] = g
    BY <2>1
  <2>3. Len(v) = 5 /\ v[1] = a /\ v[2] = b /\ v[3] = d /\ v[4] = f /\ v[5] = g
    OBVIOUS
  <2> HIDE DEF u, v, S
  <2>4. \A i \in 1..Len(u) : u[i] = v[i]
    BY <2>2, <2>3
  <2>5. u = v
    BY <2>1, <2>2, <2>3, <2>4, SameSequences
  <2> QED
    BY <2>5 DEF u, v
<1> QED
  BY <1>1, <1>2

LEMMA WrittenFew ==
  ASSUME NEW p, NEW a, Written(<<p>>, <<a>>), NEW q, NEW b, Written(<<q>>, <<b>>)
  PROVE  /\ Written(<<p, q>>, <<a, b>>)
         /\ \A r, d : Written(<<r>>, <<d>>) =>
              /\ Written(<<p, q, r>>, <<a, b, d>>)
              /\ \A s, f : Written(<<s>>, <<f>>) => Written(<<p, q, r, s>>, <<a, b, d, f>>)
<1>1. Written(<<p, q>>, <<a, b>>)
  <2>1. Written(<<p>> \o <<q>>, <<a>> \o <<b>>)
    BY WrittenTogether
  <2> QED
    BY <2>1, ShortSequences
<1>2. ASSUME NEW r, NEW d, Written(<<r>>, <<d>>)
      PROVE  Written(<<p, q, r>>, <<a, b, d>>)
  <2>1. Written(<<p, q>> \o <<r>>, <<a, b>> \o <<d>>)
    BY <1>1, <1>2, WrittenTogether
  <2>2. <<p, q>> \o <<r>> = <<p, q, r>> /\ <<a, b>> \o <<d>> = <<a, b, d>>
    BY ShortSequences
  <2> QED
    BY <2>1, <2>2
<1>3. ASSUME NEW r, NEW d, Written(<<r>>, <<d>>), NEW s, NEW f, Written(<<s>>, <<f>>)
      PROVE  Written(<<p, q, r, s>>, <<a, b, d, f>>)
  <2>1. Written(<<p, q, r>>, <<a, b, d>>)
    BY <1>2, <1>3
  <2>2. Written(<<p, q, r>> \o <<s>>, <<a, b, d>> \o <<f>>)
    BY <1>3, <2>1, WrittenTogether
  <2>3. <<p, q, r>> \o <<s>> = <<p, q, r, s>> /\ <<a, b, d>> \o <<f>> = <<a, b, d, f>>
    BY LongerSequences
  <2> QED
    BY <2>2, <2>3
<1> QED
  BY <1>1, <1>2, <1>3

\* A count, a flag or a condition type, and what it announces.
LEMMA WrittenAnnounced ==
  ASSUME NEW p \in Parts, NEW item, NEW s, Part(p.tokens, <<item>>, s), NEW ps, Written(ps, s)
  PROVE  Written(<<p>> \o ps, <<item>>)
<1>1. <<p>> \in Seq(Parts) /\ ps \in Seq(Parts) /\ Bytes!TokensOf(<<p>>) = p.tokens
  BY TokensOfOne DEF Written
<1>2. /\ <<p>> \o ps \in Seq(Parts)
      /\ Bytes!TokensOf(<<p>> \o ps) = p.tokens \o Bytes!TokensOf(ps)
  <2> DEFINE u == <<p>>
  <2>1. u \in Seq(Parts) /\ Bytes!TokensOf(u) = p.tokens
    BY <1>1
  <2> HIDE DEF u
  <2>2. u \o ps \in Seq(Parts) /\ Bytes!TokensOf(u \o ps) = Bytes!TokensOf(u) \o Bytes!TokensOf(ps)
    BY <1>1, <2>1, TokensOfIs
  <2> QED
    BY <2>1, <2>2 DEF u
<1>3. Part(p.tokens \o Bytes!TokensOf(ps), <<item>>, <<>>)
  BY PartsJoin DEF Written
<1> QED
  BY <1>2, <1>3 DEF Written

\* The parts of every node.
LEMMA RawParts ==
  ASSUME NEW tok \in Tokens, tok.t # "op", NEW item \in Bytes!SkipItems \cap Bytes!Operands,
         tok.t = Bytes!Wanted(item), item = "spec" => tok.v \in {"IF", "ELSE"}
  PROVE  /\ Bytes!Raw(<<tok>>) \in Parts
         /\ Part(Bytes!Raw(<<tok>>).tokens, <<item>>, Bytes!Skipped(item, tok))
<1>1. <<tok>> \in Seq(Tokens)
  OBVIOUS
<1>2. Bytes!Raw(<<tok>>) \in Parts /\ Bytes!Raw(<<tok>>).tokens = <<tok>>
  <2> DEFINE u == <<tok>>
  <2> HIDE DEF u
  <2>1. u \in Seq(Tokens) => Bytes!Raw(u) \in Parts /\ Bytes!Raw(u).tokens = u
    BY DEF Bytes!Raw, Parts
  <2> QED
    BY <1>1, <2>1 DEF u
<1>3. Part(<<tok>>, <<item>>, Bytes!Skipped(item, tok))
  BY OperandPart
<1> QED
  BY <1>2, <1>3

OperandKinds == PlainKinds \ {"end"}

LEMMA OperandWritten ==
  ASSUME NEW kind \in OperandKinds
  PROVE  Written(<<Bytes!Operand(kind)>>, <<kind>>)
<1> DEFINE tok == [t |-> kind]
<1>1. tok \in Tokens /\ tok.t = kind
  BY DEF Tokens, OperandKinds
<1>2. kind # "op" /\ kind \in Bytes!SkipItems \cap Bytes!Operands /\ kind # "spec"
  BY DEF OperandKinds, PlainKinds, Bytes!SkipItems, Bytes!Operands
<1>3. Bytes!Wanted(kind) = kind
  BY DEF OperandKinds, PlainKinds, Bytes!Wanted, Bytes!FlagItems, Bytes!CountItems, Bytes!ExprItems
<1>4. Bytes!Skipped(kind, tok) = <<>>
  <2> HIDE DEF tok
  <2> QED
    BY DEF OperandKinds, PlainKinds, Bytes!Skipped, Bytes!FlagItems
<1>5. Bytes!Operand(kind) = Bytes!Raw(<<tok>>)
  BY DEF Bytes!Operand
<1> HIDE DEF tok
<1>6. Bytes!Raw(<<tok>>) \in Parts /\ Part(Bytes!Raw(<<tok>>).tokens, <<kind>>, <<>>)
  <2>1. tok.t # "op" /\ tok.t = Bytes!Wanted(kind)
    BY <1>1, <1>2, <1>3
  <2> QED
    BY <1>1, <1>2, <1>4, <2>1, RawParts
<1> QED
  BY <1>5, <1>6, WrittenOne

LEMMA OprtrWritten ==
  ASSUME NEW v \in Operators
  PROVE  Written(<<Bytes!Oprtr(v)>>, <<"oprtr">>)
<1> DEFINE tok == [t |-> "oprtr", v |-> v]
<1>1. tok \in Tokens /\ tok.t = "oprtr"
  BY DEF Tokens
<1>2. "oprtr" \in Bytes!SkipItems \cap Bytes!Operands /\ Bytes!Wanted("oprtr") = "oprtr"
  BY DEF Bytes!SkipItems, Bytes!Operands, Bytes!Wanted, Bytes!FlagItems, Bytes!CountItems, Bytes!ExprItems
<1>3. Bytes!Skipped("oprtr", tok) = <<>>
  BY DEF Bytes!Skipped, Bytes!FlagItems
<1>4. Bytes!Oprtr(v) = Bytes!Raw(<<tok>>)
  BY DEF Bytes!Oprtr
<1> HIDE DEF tok
<1>5. Bytes!Raw(<<tok>>) \in Parts /\ Part(Bytes!Raw(<<tok>>).tokens, <<"oprtr">>, <<>>)
  BY <1>1, <1>2, <1>3, RawParts
<1> QED
  BY <1>4, <1>5, WrittenOne

LEMMA ChildWritten ==
  ASSUME NEW u
  PROVE  /\ Construct(u, ExprOps) => Written(<<Bytes!Child(u)>>, <<"e">>)
         /\ Construct(u, {"BLOCK_BEGIN"}) => Written(<<Bytes!Child(u)>>, <<"block">>)
<1>1. u \in Seq(Tokens) => Bytes!Child(u) \in Parts /\ Bytes!Child(u).tokens = u
  BY DEF Bytes!Child, Parts
<1>2. \A ops : Construct(u, ops) => u \in Seq(Tokens)
  BY DEF Construct, Aligned
<1> QED
  BY <1>1, <1>2, ConstructParts, WrittenOne
-----------------------------------------------------------------------------
(* Flags, counts and condition types, and what they announce.              *)
LEMMA AnnouncedIs ==
  /\ Bytes!Announced("init", FALSE) = <<>> /\ Bytes!Announced("init", TRUE) = <<"e">>
  /\ Bytes!Announced("optid", FALSE) = <<>> /\ Bytes!Announced("optid", TRUE) = <<"id">>
  /\ Bytes!Announced("optslot", FALSE) = <<>> /\ Bytes!Announced("optslot", TRUE) = <<"slot">>
  /\ Bytes!Announced("varinit", FALSE) = <<"attributes">>
  /\ Bytes!Announced("varinit", TRUE) = <<"attributes", "e">>
<1>1. \A a : <<>> \o <<a>> = <<a>> /\ <<a>> \o <<>> = <<a>>
  <2> TAKE a
  <2> DEFINE u == <<a>>
  <2>1. u \in Seq({a})
    OBVIOUS
  <2> HIDE DEF u
  <2>2. <<>> \o u = u /\ u \o <<>> = u
    BY <2>1, EmptyIs
  <2> QED
    BY <2>2 DEF u
<1>2. /\ <<>> \o <<>> = <<>> /\ <<"attributes">> \o <<"e">> = <<"attributes", "e">>
  BY EmptyIs, ShortSequences
<1>3. /\ Bytes!Announced("init", FALSE) = <<>> \o <<>>
      /\ Bytes!Announced("optid", FALSE) = <<>> \o <<>>
      /\ Bytes!Announced("optslot", FALSE) = <<>> \o <<>>
      /\ Bytes!Announced("varinit", FALSE) = <<"attributes">> \o <<>>
  BY DEF Bytes!Announced
<1>4. /\ Bytes!Announced("init", TRUE) = <<>> \o <<"e">>
      /\ Bytes!Announced("optid", TRUE) = <<>> \o <<"id">>
      /\ Bytes!Announced("optslot", TRUE) = <<>> \o <<"slot">>
      /\ Bytes!Announced("varinit", TRUE) = <<"attributes">> \o <<"e">>
  BY DEF Bytes!Announced
<1> QED
  BY <1>1, <1>2, <1>3, <1>4

LEMMA FlagParts ==
  ASSUME NEW v \in BOOLEAN, NEW item \in Bytes!FlagItems
  PROVE  Bytes!Flag(v) \in Parts /\ Part(Bytes!Flag(v).tokens, <<item>>, Bytes!Announced(item, v))
<1> DEFINE tok == [t |-> "flag", v |-> v]
<1>1. tok \in Tokens /\ tok.t = "flag" /\ tok.v = v
  BY DEF Tokens
<1>2. /\ item \in Bytes!SkipItems \cap Bytes!Operands /\ Bytes!Wanted(item) = "flag"
      /\ item # "spec" /\ item # "e"
  BY DEF Bytes!SkipItems, Bytes!Operands, Bytes!Wanted, Bytes!FlagItems, Bytes!CountItems, Bytes!ExprItems
<1>3. Bytes!Flag(v) = Bytes!Raw(<<tok>>)
  BY DEF Bytes!Flag
<1> HIDE DEF tok
<1>4. Bytes!Skipped(item, tok) = Bytes!Announced(item, v)
  BY <1>1 DEF Bytes!Skipped, Bytes!FlagItems
<1>5. Bytes!Raw(<<tok>>) \in Parts /\ Part(Bytes!Raw(<<tok>>).tokens, <<item>>, Bytes!Skipped(item, tok))
  BY <1>1, <1>2, RawParts
<1> QED
  BY <1>3, <1>4, <1>5

LEMMA CountParts ==
  ASSUME NEW n \in Nat
  PROVE  /\ Bytes!Count(n) \in Parts
         /\ Part(Bytes!Count(n).tokens, <<"args">>, Bytes!Repeat("e", n))
         /\ Part(Bytes!Count(n).tokens, <<"pairs">>, Bytes!Repeat("e", 2 * n))
         /\ Part(Bytes!Count(n).tokens, <<"specs">>, Bytes!Repeat("spec", n))
<1> DEFINE tok == [t |-> "count", n |-> n]
<1>1. tok \in Tokens /\ tok.t = "count" /\ tok.n = n
  BY DEF Tokens
<1>2. \A item \in Bytes!CountItems :
        item \in Bytes!SkipItems \cap Bytes!Operands /\ Bytes!Wanted(item) = "count" /\ item # "spec"
  BY DEF Bytes!SkipItems, Bytes!Operands, Bytes!Wanted, Bytes!FlagItems, Bytes!CountItems, Bytes!ExprItems
<1>3. Bytes!Count(n) = Bytes!Raw(<<tok>>)
  BY DEF Bytes!Count
<1> HIDE DEF tok
<1>4. /\ Bytes!Skipped("args", tok) = Bytes!Repeat("e", n)
      /\ Bytes!Skipped("pairs", tok) = Bytes!Repeat("e", 2 * n)
      /\ Bytes!Skipped("specs", tok) = Bytes!Repeat("spec", n)
  BY <1>1 DEF Bytes!Skipped, Bytes!FlagItems
<1>5. \A item \in Bytes!CountItems :
        /\ Bytes!Raw(<<tok>>) \in Parts
        /\ Part(Bytes!Raw(<<tok>>).tokens, <<item>>, Bytes!Skipped(item, tok))
  BY <1>1, <1>2, RawParts
<1>6. "args" \in Bytes!CountItems /\ "pairs" \in Bytes!CountItems /\ "specs" \in Bytes!CountItems
  BY DEF Bytes!CountItems
<1> QED
  BY <1>3, <1>4, <1>5, <1>6

LEMMA CondTypeParts ==
  ASSUME NEW v \in {"IF", "ELSE"}
  PROVE  /\ Bytes!CondType(v) \in Parts
         /\ Part(Bytes!CondType(v).tokens, <<"spec">>, Bytes!SkipSpec(v))
<1> DEFINE tok == [t |-> "condtype", v |-> v]
<1>1. tok \in Tokens /\ tok.t = "condtype" /\ tok.v = v
  BY DEF Tokens
<1>2. "spec" \in Bytes!SkipItems \cap Bytes!Operands /\ Bytes!Wanted("spec") = "condtype"
  BY DEF Bytes!SkipItems, Bytes!Operands, Bytes!Wanted, Bytes!FlagItems, Bytes!CountItems, Bytes!ExprItems
<1>3. Bytes!CondType(v) = Bytes!Raw(<<tok>>)
  BY DEF Bytes!CondType
<1> HIDE DEF tok
<1>4. Bytes!Skipped("spec", tok) = Bytes!SkipSpec(v)
  BY <1>1 DEF Bytes!Skipped, Bytes!FlagItems
<1>5. Bytes!Raw(<<tok>>) \in Parts /\ Part(Bytes!Raw(<<tok>>).tokens, <<"spec">>, Bytes!Skipped("spec", tok))
  BY <1>1, <1>2, RawParts
<1> QED
  BY <1>3, <1>4, <1>5

AbsentOr(u, ops) == u = <<>> \/ Construct(u, ops)

LEMMA InitializerWritten ==
  ASSUME NEW e, AbsentOr(e, ExprOps)
  PROVE  /\ Written(Bytes!Initializer(e), <<"init">>)
         /\ Written(<<Bytes!Flag(e # <<>>), Bytes!Operand("attributes")>>
                      \o (IF e = <<>> THEN <<>> ELSE <<Bytes!Child(e)>>), <<"varinit">>)
<1> DEFINE has == e # <<>>
           f == Bytes!Flag(has)
           a == Bytes!Operand("attributes")
           more == IF e = <<>> THEN <<>> ELSE <<Bytes!Child(e)>>
<1>1. has \in BOOLEAN /\ "init" \in Bytes!FlagItems /\ "varinit" \in Bytes!FlagItems
  BY DEF Bytes!FlagItems
<1> HIDE DEF f
<1>2. /\ f \in Parts /\ Part(f.tokens, <<"init">>, Bytes!Announced("init", has))
      /\ Part(f.tokens, <<"varinit">>, Bytes!Announced("varinit", has))
  BY <1>1, FlagParts DEF f
<1>3. Written(<<a>>, <<"attributes">>)
  BY OperandWritten DEF OperandKinds, PlainKinds
<1> HIDE DEF a
<1>4. Written(more, Bytes!Announced("init", has))
  <2>1. CASE e = <<>>
    BY <2>1, AnnouncedIs, WrittenNone
  <2>2. CASE e # <<>>
    <3>1. Construct(e, ExprOps)
      BY <2>2 DEF AbsentOr
    <3>2. Written(<<Bytes!Child(e)>>, <<"e">>)
      BY <3>1, ChildWritten
    <3>3. more = <<Bytes!Child(e)>> /\ Bytes!Announced("init", has) = <<"e">>
      BY <2>2, AnnouncedIs
    <3> QED
      BY <3>2, <3>3
  <2> QED
    BY <2>1, <2>2
<1>5. <<"attributes">> \o Bytes!Announced("init", has) = Bytes!Announced("varinit", has)
  <2>1. <<"attributes">> \o <<"e">> = <<"attributes", "e">>
    BY ShortSequences
  <2>2. <<"attributes">> \o <<>> = <<"attributes">>
    <3> DEFINE u == <<"attributes">>
    <3>1. u \in Seq({"attributes"})
      OBVIOUS
    <3> HIDE DEF u
    <3>2. u \o <<>> = u
      BY <3>1, EmptyIs
    <3> QED
      BY <3>2 DEF u
  <2>3. has = TRUE \/ has = FALSE
    OBVIOUS
  <2> HIDE DEF has
  <2> QED
    BY <2>1, <2>2, <2>3, AnnouncedIs
<1> HIDE DEF more, has
<1>6. Written(<<a>> \o more, Bytes!Announced("varinit", has))
  <2>1. Written(<<a>> \o more, <<"attributes">> \o Bytes!Announced("init", has))
    BY <1>3, <1>4, WrittenTogether
  <2> QED
    BY <1>5, <2>1
<1>7. Written(<<f>> \o more, <<"init">>)
  BY <1>2, <1>4, WrittenAnnounced
<1>8. Written(<<f>> \o (<<a>> \o more), <<"varinit">>)
  BY <1>2, <1>6, WrittenAnnounced
<1>9. <<f>> \o (<<a>> \o more) = <<f, a>> \o more
  <2>1. <<f>> \o <<a>> = <<f, a>>
    BY ShortSequences
  <2>2. more \in Seq(Parts) /\ a \in Parts
    <3>1. <<a>> \in Seq(Parts) /\ more \in Seq(Parts)
      BY <1>3, <1>4 DEF Written
    <3> QED
      BY <3>1
  <2>3. <<f>> \in Seq(Parts) /\ <<a>> \in Seq(Parts)
    BY <1>2, <2>2
  <2> DEFINE u == <<f>>
             w == <<a>>
  <2> HIDE DEF u, w
  <2>4. (u \o w) \o more = u \o (w \o more)
    BY <2>2, <2>3, Concatenation DEF u, w
  <2> QED
    BY <2>1, <2>4 DEF u, w
<1>10. Bytes!Initializer(e) = <<f>> \o more
  BY DEF Bytes!Initializer, f, more, has
<1> QED
  BY <1>7, <1>8, <1>9, <1>10 DEF f, a, more, has

LEMMA OptionalWritten ==
  ASSUME NEW has \in BOOLEAN
  PROVE  /\ Written(Bytes!Optional(has, "id"), <<"optid">>)
         /\ Written(Bytes!Optional(has, "slot"), <<"optslot">>)
<1> DEFINE f == Bytes!Flag(has)
<1>1. "optid" \in Bytes!FlagItems /\ "optslot" \in Bytes!FlagItems
  BY DEF Bytes!FlagItems
<1>2. /\ f \in Parts /\ Part(f.tokens, <<"optid">>, Bytes!Announced("optid", has))
      /\ Part(f.tokens, <<"optslot">>, Bytes!Announced("optslot", has))
  BY <1>1, FlagParts
<1>3. Written(<<Bytes!Operand("id")>>, <<"id">>) /\ Written(<<Bytes!Operand("slot")>>, <<"slot">>)
  BY OperandWritten DEF OperandKinds, PlainKinds
<1> DEFINE more(kind) == IF has THEN <<Bytes!Operand(kind)>> ELSE <<>>
<1>4. Written(more("id"), Bytes!Announced("optid", has))
  <2>1. CASE has = FALSE
    BY <2>1, AnnouncedIs, WrittenNone
  <2>2. CASE has = TRUE
    BY <1>3, <2>2, AnnouncedIs
  <2> QED
    BY <2>1, <2>2
<1>5. Written(more("slot"), Bytes!Announced("optslot", has))
  <2>1. CASE has = FALSE
    BY <2>1, AnnouncedIs, WrittenNone
  <2>2. CASE has = TRUE
    BY <1>3, <2>2, AnnouncedIs
  <2> QED
    BY <2>1, <2>2
<1>6. \A kind : Bytes!Optional(has, kind) = <<f>> \o more(kind)
  BY DEF Bytes!Optional
<1> HIDE DEF f, more
<1>7. Written(<<f>> \o more("id"), <<"optid">>)
  BY <1>2, <1>4, WrittenAnnounced
<1>8. Written(<<f>> \o more("slot"), <<"optslot">>)
  BY <1>2, <1>5, WrittenAnnounced
<1> QED
  BY <1>6, <1>7, <1>8
-----------------------------------------------------------------------------
(* Parts one after the other.                                              *)
LEMMA EmptyPart == ASSUME NEW s \in Seq(Bytes!SkipItems) PROVE Part(<<>>, s, s)
<1>1. Part(<<>>, <<>>, <<>>)
  BY WrittenNone, TokensOfOne DEF Written
<1>2. Part(<<>>, <<>> \o s, <<>> \o s)
  BY <1>1, PartsBefore
<1>3. <<>> \o s = s
  BY EmptyIs
<1> QED
  BY <1>2, <1>3

LEMMA PartsInTurn ==
  ASSUME NEW pss \in Seq(Seq(Parts)), NEW n, n = Len(pss), NEW T, T \in [0..n -> Seq(Bytes!SkipItems)],
         \A i \in 1..n : Part(Bytes!TokensOf(pss[i]), T[i - 1], T[i])
  PROVE  /\ Bytes!FlattenSeq(pss) \in Seq(Parts)
         /\ Part(Bytes!TokensOf(Bytes!FlattenSeq(pss)), T[0], T[n])
<1>1. PICK g : Flattening(Parts, pss, g)
  BY FlattenIs
<1>2. /\ g \in [0..n -> Seq(Parts)] /\ g[0] = <<>>
      /\ \A i \in 1..n : g[i] = g[i - 1] \o pss[i]
  BY <1>1 DEF Flattening
<1>3. n \in Nat /\ \A i \in 1..n : pss[i] \in Seq(Parts)
  <2> DEFINE V == Seq(Parts)
  <2>1. pss \in Seq(V)
    OBVIOUS
  <2> HIDE DEF V
  <2>2. n \in Nat /\ \A i \in 1..n : pss[i] \in V
    BY <2>1
  <2> QED
    BY <2>2 DEF V
<1> DEFINE R == {i \in 0..n : Part(Bytes!TokensOf(g[i]), T[0], T[i])}
<1>4. 0 \in R
  BY <1>2, <1>3, EmptyPart, TokensOfOne
<1>5. ASSUME NEW i \in 1..n, i - 1 \in R PROVE i \in R
  <2>0. i - 1 \in 0..n /\ i \in 0..n
    BY <1>3
  <2>1. i - 1 \in 0..n /\ i \in 0..n /\ g[i - 1] \in Seq(Parts) /\ pss[i] \in Seq(Parts)
    <3>1. g[i - 1] \in Seq(Parts)
      BY <1>2, <2>0
    <3>2. pss[i] \in Seq(Parts)
      BY <1>3
    <3> QED
      BY <2>0, <3>1, <3>2
  <2>2. Bytes!TokensOf(g[i]) = Bytes!TokensOf(g[i - 1]) \o Bytes!TokensOf(pss[i])
    <3>1. g[i] = g[i - 1] \o pss[i]
      BY <1>2
    <3>2. g[i - 1] \in Seq(Parts)
      BY <2>1
    <3>3. pss[i] \in Seq(Parts)
      BY <2>1
    <3>4. Bytes!TokensOf(g[i - 1] \o pss[i]) = Bytes!TokensOf(g[i - 1]) \o Bytes!TokensOf(pss[i])
      BY <3>2, <3>3, TokensOfIs
    <3> QED
      BY <3>1, <3>4
  <2>3. Part(Bytes!TokensOf(g[i - 1]), T[0], T[i - 1]) /\ Part(Bytes!TokensOf(pss[i]), T[i - 1], T[i])
    BY <1>5
  <2>4. Part(Bytes!TokensOf(g[i - 1]) \o Bytes!TokensOf(pss[i]), T[0], T[i])
    BY <2>3, PartsJoin
  <2> QED
    BY <2>1, <2>2, <2>4
<1> HIDE DEF R
<1>6. \A i \in 0..n : i \in R
  BY <1>3, <1>4, <1>5, Upwards
<1>7. n \in R /\ g[n] \in Seq(Parts)
  BY <1>2, <1>3, <1>6
<1>8. Bytes!FlattenSeq(pss) = g[n]
  BY <1>1, FlattenIs
<1> QED
  BY <1>7, <1>8 DEF R

\* The parts of a sequence, each in its turn.
LEMMA SinglesFlatten ==
  ASSUME NEW S, NEW ps \in Seq(S)
  PROVE  /\ [i \in 1..Len(ps) |-> <<ps[i]>>] \in Seq(Seq(S))
         /\ Bytes!FlattenSeq([i \in 1..Len(ps) |-> <<ps[i]>>]) = ps
<1> DEFINE n == Len(ps)
           pss == [i \in 1..n |-> <<ps[i]>>]
           g == [i \in 0..n |-> SubSeq(ps, 1, i)]
<1>1. n \in Nat /\ \A i \in 1..n : ps[i] \in S /\ <<ps[i]>> \in Seq(S)
  OBVIOUS
<1>2. pss \in Seq(Seq(S)) /\ Len(pss) = n
  BY <1>1
<1>3. \A i \in 1..n : g[i] = g[i - 1] \o pss[i]
  <2> TAKE i \in 1..n
  <2> DEFINE a == SubSeq(ps, 1, i - 1)
             b == <<ps[i]>>
             d == SubSeq(ps, 1, i)
  <2>1. i - 1 \in 0..n /\ i \in 0..n
    BY <1>1
  <2>2. /\ a \in Seq(S) /\ Len(a) = i - 1 /\ (\A k \in 1..(i - 1) : a[k] = ps[k])
        /\ d \in Seq(S) /\ Len(d) = i /\ (\A k \in 1..i : d[k] = ps[k])
        /\ b \in Seq(S) /\ Len(b) = 1 /\ b[1] = ps[i]
    <3>1. a \in Seq(S) /\ Len(a) = i - 1 /\ (\A k \in 1..(i - 1) : a[k] = ps[k])
      BY <2>1
    <3>2. d \in Seq(S) /\ Len(d) = i /\ (\A k \in 1..i : d[k] = ps[k])
      BY <2>1
    <3>3. b \in Seq(S) /\ Len(b) = 1 /\ b[1] = ps[i]
      BY <1>1
    <3> QED
      BY <3>1, <3>2, <3>3
  <2> HIDE DEF a, b, d
  <2>3. a \o b \in Seq(S) /\ Len(a \o b) = i /\ \A k \in 1..i : (a \o b)[k] = ps[k]
    <3>0. a \in Seq(S) /\ b \in Seq(S)
      BY <2>2
    <3>1. /\ a \o b \in Seq(S) /\ Len(a \o b) = Len(a) + Len(b)
          /\ \A k \in 1..Len(a) : (a \o b)[k] = a[k]
          /\ \A k \in 1..Len(b) : (a \o b)[k + Len(a)] = b[k]
      BY <3>0, ConcatenationIs
    <3>2. Len(a \o b) = i /\ \A k \in 1..(i - 1) : (a \o b)[k] = ps[k]
      BY <2>2, <3>1
    <3>3. (a \o b)[1 + Len(a)] = ps[i] /\ 1 + Len(a) = i
      BY <2>2, <3>1
    <3>4. (a \o b)[i] = ps[i]
      <4>1. \A k : k = i /\ (a \o b)[k] = ps[i] => (a \o b)[i] = ps[i]
        OBVIOUS
      <4> QED
        BY <3>3, <4>1
    <3> QED
      BY <3>1, <3>2, <3>4
  <2>4. a \o b = d
    <3>1. a \o b \in Seq(S) /\ d \in Seq(S) /\ Len(a \o b) = Len(d)
      BY <2>2, <2>3
    <3>2. \A k \in 1..Len(a \o b) : (a \o b)[k] = d[k]
      BY <2>2, <2>3
    <3> QED
      BY <3>1, <3>2, SameSequences
  <2>5. g[i] = d /\ g[i - 1] = a /\ pss[i] = b
    BY <2>1 DEF a, b, d
  <2> QED
    BY <2>4, <2>5
<1>4. g \in [0..n -> Seq(S)] /\ g[0] = <<>> /\ g[n] = ps
  <2>1. \A i \in 0..n : SubSeq(ps, 1, i) \in Seq(S)
    OBVIOUS
  <2>2. g[0] = <<>>
    BY <1>1
  <2>3. g[n] = ps
    BY <1>1
  <2> QED
    BY <2>1, <2>2, <2>3
<1> HIDE DEF pss, g
<1>5. Flattening(S, pss, g)
  BY <1>2, <1>3, <1>4 DEF Flattening
<1>6. Bytes!FlattenSeq(pss) = g[n]
  BY <1>2, <1>5, FlattenIs
<1> QED
  BY <1>2, <1>4, <1>6 DEF pss

LEMMA RepeatStarts ==
  ASSUME NEW a \in {"e", "spec"}
  PROVE  /\ \A n \in Nat : Bytes!Repeat(a, n) \in Seq(Bytes!SkipItems)
         /\ \A n \in Nat : n > 0 => Bytes!Repeat(a, n) = <<a>> \o Bytes!Repeat(a, n - 1)
         /\ Bytes!Repeat(a, 0) = <<>> /\ Bytes!Repeat(a, 1) = <<a>>
<1>0. a \in Bytes!SkipItems
  BY DEF Bytes!SkipItems
<1>1. \A n \in Nat : /\ Bytes!Repeat(a, n) \in Seq(Bytes!SkipItems) /\ Len(Bytes!Repeat(a, n)) = n
                     /\ \A i \in 1..n : Bytes!Repeat(a, n)[i] = a
  BY <1>0 DEF Bytes!Repeat
<1>2. ASSUME NEW n \in Nat, n > 0 PROVE Bytes!Repeat(a, n) = <<a>> \o Bytes!Repeat(a, n - 1)
  <2> DEFINE u == <<a>>
             v == Bytes!Repeat(a, n - 1)
             w == Bytes!Repeat(a, n)
  <2>1. n - 1 \in Nat
    BY <1>2
  <2>2. u \in Seq(Bytes!SkipItems) /\ Len(u) = 1 /\ u[1] = a
    BY <1>0
  <2>3. /\ v \in Seq(Bytes!SkipItems) /\ Len(v) = n - 1 /\ (\A i \in 1..(n - 1) : v[i] = a)
        /\ w \in Seq(Bytes!SkipItems) /\ Len(w) = n /\ (\A i \in 1..n : w[i] = a)
    BY <1>1, <2>1
  <2> HIDE DEF u, v, w
  <2>4. /\ u \o v \in Seq(Bytes!SkipItems) /\ Len(u \o v) = n
        /\ (u \o v)[1] = a /\ \A i \in 1..(n - 1) : (u \o v)[i + 1] = a
    <3>0. u \in Seq(Bytes!SkipItems) /\ v \in Seq(Bytes!SkipItems)
      BY <2>2, <2>3
    <3>1. /\ u \o v \in Seq(Bytes!SkipItems) /\ Len(u \o v) = Len(u) + Len(v)
          /\ \A k \in 1..Len(u) : (u \o v)[k] = u[k]
          /\ \A k \in 1..Len(v) : (u \o v)[k + Len(u)] = v[k]
      BY <3>0, ConcatenationIs
    <3> QED
      BY <2>2, <2>3, <3>1
  <2>5. ASSUME NEW i \in 1..n PROVE (u \o v)[i] = a
    <3>1. CASE i = 1
      BY <2>4, <3>1
    <3>2. CASE i # 1
      <4>1. i - 1 \in 1..(n - 1) /\ (i - 1) + 1 = i
        BY <3>2
      <4>2. (u \o v)[(i - 1) + 1] = a
        BY <2>4, <4>1
      <4> QED
        BY <4>1, <4>2
    <3> QED
      BY <3>1, <3>2
  <2>6. w = u \o v
    BY <2>3, <2>4, <2>5, SameSequences
  <2> QED
    BY <2>6 DEF u, v, w
<1>3. Bytes!Repeat(a, 0) = <<>>
  BY <1>1
<1>4. Bytes!Repeat(a, 1) = <<a>>
  <2> DEFINE u == <<a>>
             w == Bytes!Repeat(a, 1)
  <2>1. u \in Seq(Bytes!SkipItems) /\ Len(u) = 1 /\ u[1] = a
    BY <1>0
  <2>2. w \in Seq(Bytes!SkipItems) /\ Len(w) = 1 /\ (\A i \in 1..1 : w[i] = a)
    BY <1>1
  <2> HIDE DEF u, w
  <2>3. w = u
    BY <2>1, <2>2, SameSequences
  <2> QED
    BY <2>3 DEF u, w
<1> QED
  BY <1>1, <1>2, <1>3, <1>4
-----------------------------------------------------------------------------
(* Children, blocks and conditionals.                                      *)
LEMMA ChildrenInTurn ==
  ASSUME NEW us, us \in Seq(Seq(Tokens)), NEW n, n = Len(us), NEW T,
         T \in [0..n -> Seq(Bytes!SkipItems)], \A i \in 1..n : Part(us[i], T[i - 1], T[i])
  PROVE  Bytes!Children(us) \in Seq(Parts) /\ Part(Bytes!TokensOf(Bytes!Children(us)), T[0], T[n])
<1> DEFINE ps == Bytes!Children(us)
           pss == [i \in 1..Len(ps) |-> <<ps[i]>>]
<1>1. n \in Nat /\ DOMAIN us = 1..n /\ \A i \in 1..n : us[i] \in Seq(Tokens)
  <2> DEFINE V == Seq(Tokens)
  <2>1. us \in Seq(V)
    OBVIOUS
  <2> HIDE DEF V
  <2>2. n \in Nat /\ DOMAIN us = 1..n /\ \A i \in 1..n : us[i] \in V
    BY <2>1
  <2> QED
    BY <2>2 DEF V
<1>2. \A i \in 1..n : Bytes!Child(us[i]) \in Parts /\ Bytes!Child(us[i]).tokens = us[i]
  BY <1>1 DEF Bytes!Child, Parts
<1>3. ps = [i \in 1..n |-> Bytes!Child(us[i])]
  BY <1>1 DEF Bytes!Children
<1>4. ps \in Seq(Parts) /\ Len(ps) = n /\ \A i \in 1..n : ps[i] \in Parts /\ ps[i].tokens = us[i]
  <2> HIDE DEF ps
  <2>1. \A i \in 1..n : ps[i] = Bytes!Child(us[i])
    BY <1>3
  <2>2. ps \in Seq(Parts) /\ Len(ps) = n
    BY <1>1, <1>2, <1>3
  <2> QED
    BY <1>2, <2>1, <2>2
<1> HIDE DEF ps
<1>5. pss \in Seq(Seq(Parts)) /\ Bytes!FlattenSeq(pss) = ps
  BY <1>4, SinglesFlatten
<1>6. Len(pss) = n /\ \A i \in 1..n : pss[i] = <<ps[i]>>
  BY <1>1, <1>4
<1> HIDE DEF pss
<1>7. \A i \in 1..n : Part(Bytes!TokensOf(pss[i]), T[i - 1], T[i])
  BY <1>4, <1>6, TokensOfOne
<1>8. Part(Bytes!TokensOf(Bytes!FlattenSeq(pss)), T[0], T[n])
  BY <1>5, <1>6, <1>7, PartsInTurn
<1> QED
  BY <1>4, <1>5, <1>8 DEF ps

\* The streams of constructs with an opcode of ops.
Constructs(ops) == {u \in Seq(Tokens) : Construct(u, ops)}

LEMMA ConstructsAre ==
  ASSUME NEW ops, NEW us \in Seq(Constructs(ops))
  PROVE  /\ Len(us) \in Nat /\ \A i \in 1..Len(us) : Construct(us[i], ops)
         /\ us \in Seq(Seq(Tokens))
<1> DEFINE V == Constructs(ops)
<1>1. V \subseteq Seq(Tokens) /\ \A u \in V : Construct(u, ops)
  BY DEF Constructs
<1> HIDE DEF V
<1>2. us \in Seq(V)
  BY DEF V
<1>3. Len(us) \in Nat /\ \A i \in 1..Len(us) : us[i] \in V
  BY <1>2
<1> DEFINE W == Seq(Tokens)
<1>4. V \subseteq W
  BY <1>1
<1> HIDE DEF W
<1>5. us \in Seq(W)
  BY <1>2, <1>4
<1> QED
  BY <1>1, <1>3, <1>5 DEF W

LEMMA ChildrenWritten ==
  ASSUME NEW us \in Seq(Constructs(ExprOps))
  PROVE  Written(Bytes!Children(us), Bytes!Repeat("e", Len(us)))
<1> DEFINE n == Len(us)
           T == [i \in 0..n |-> Bytes!Repeat("e", n - i)]
<1>1. n \in Nat /\ us \in Seq(Seq(Tokens)) /\ \A i \in 1..n : Part(us[i], <<"e">>, <<>>)
  BY ConstructsAre, ConstructParts
<1> HIDE DEF n
<1>2. T \in [0..n -> Seq(Bytes!SkipItems)]
  <2>1. \A i \in 0..n : n - i \in Nat
    BY <1>1
  <2> QED
    BY <2>1, RepeatStarts
<1>3. ASSUME NEW i \in 1..n PROVE Part(us[i], T[i - 1], T[i])
  <2> DEFINE more == Bytes!Repeat("e", n - i)
  <2>1. i \in 0..n /\ i - 1 \in 0..n /\ n - i \in Nat /\ n - (i - 1) \in Nat /\ n - (i - 1) > 0
        /\ (n - (i - 1)) - 1 = n - i
    BY <1>1
  <2>2. more \in Seq(Bytes!SkipItems)
    BY <2>1, RepeatStarts
  <2>3. Bytes!Repeat("e", n - (i - 1)) = <<"e">> \o more
    <3> DEFINE k == n - (i - 1)
    <3>1. k \in Nat /\ k > 0 /\ k - 1 = n - i
      BY <2>1
    <3> HIDE DEF k
    <3>2. Bytes!Repeat("e", k) = <<"e">> \o Bytes!Repeat("e", k - 1)
      BY <3>1, RepeatStarts
    <3> QED
      BY <3>1, <3>2 DEF k
  <2>4. T[i - 1] = <<"e">> \o more /\ T[i] = more
    BY <2>1, <2>3
  <2> HIDE DEF more, T
  <2>5. Part(us[i], <<"e">> \o more, <<>> \o more)
    BY <1>1, <2>2, PartsBefore
  <2>6. <<>> \o more = more
    BY <2>2, EmptyIs
  <2> QED
    BY <2>4, <2>5, <2>6
<1>4. T[0] = Bytes!Repeat("e", n) /\ T[n] = <<>>
  <2>1. 0 \in 0..n /\ n \in 0..n /\ n - 0 = n /\ n - n = 0
    BY <1>1
  <2> QED
    BY <2>1, RepeatStarts
<1> HIDE DEF T
<1>5. Bytes!Children(us) \in Seq(Parts) /\ Part(Bytes!TokensOf(Bytes!Children(us)), T[0], T[n])
  BY <1>1, <1>2, <1>3, ChildrenInTurn DEF n
<1> QED
  BY <1>4, <1>5 DEF Written, n

LEMMA ArgumentsWritten ==
  ASSUME NEW us \in Seq(Constructs(ExprOps))
  PROVE  /\ Written(Bytes!Arguments(us), <<"args">>)
         /\ Len(us) % 2 = 0 =>
              Written(<<Bytes!Count(Len(us) \div 2)>> \o Bytes!Children(us), <<"pairs">>)
<1>1. Len(us) \in Nat
  BY ConstructsAre
<1>2. Written(Bytes!Children(us), Bytes!Repeat("e", Len(us)))
  BY ChildrenWritten
<1>3. Written(Bytes!Arguments(us), <<"args">>)
  <2>1. /\ Bytes!Count(Len(us)) \in Parts
        /\ Part(Bytes!Count(Len(us)).tokens, <<"args">>, Bytes!Repeat("e", Len(us)))
    BY <1>1, CountParts
  <2> QED
    BY <1>2, <2>1, WrittenAnnounced DEF Bytes!Arguments
<1>4. ASSUME Len(us) % 2 = 0
      PROVE  Written(<<Bytes!Count(Len(us) \div 2)>> \o Bytes!Children(us), <<"pairs">>)
  <2> DEFINE m == Len(us) \div 2
  <2>1. m \in Nat /\ 2 * m = Len(us)
    BY <1>1, <1>4
  <2> HIDE DEF m
  <2>2. /\ Bytes!Count(m) \in Parts
        /\ Part(Bytes!Count(m).tokens, <<"pairs">>, Bytes!Repeat("e", 2 * m))
    BY <2>1, CountParts
  <2>3. Part(Bytes!Count(m).tokens, <<"pairs">>, Bytes!Repeat("e", Len(us)))
    BY <2>1, <2>2
  <2> QED
    BY <1>2, <2>2, <2>3, WrittenAnnounced DEF m
<1> QED
  BY <1>3, <1>4

LEMMA BlockConstruct ==
  ASSUME NEW us \in Seq(Constructs(Stmts))
  PROVE  Construct(Bytes!Block(us), {"BLOCK_BEGIN"})
<1> DEFINE n == Len(us)
           T == [i \in 0..n |-> <<"stmts">>]
           tok == [t |-> "end"]
           ps == Bytes!Children(us)
           e == Bytes!Raw(<<tok>>)
<1>1. n \in Nat /\ us \in Seq(Seq(Tokens)) /\ \A i \in 1..n : Part(us[i], <<"stmts">>, <<"stmts">>)
  BY ConstructsAre, ConstructParts
<1> HIDE DEF n
<1>2. T \in [0..n -> Seq(Bytes!SkipItems)]
  BY DEF Bytes!SkipItems
<1>3. \A i \in 1..n : Part(us[i], T[i - 1], T[i])
  <2>1. \A i \in 1..n : T[i - 1] = <<"stmts">> /\ T[i] = <<"stmts">>
    BY <1>1
  <2> QED
    BY <1>1, <2>1
<1>4. T[0] = <<"stmts">> /\ T[n] = <<"stmts">>
  BY <1>1
<1> HIDE DEF T
<1>5. ps \in Seq(Parts) /\ Part(Bytes!TokensOf(ps), <<"stmts">>, <<"stmts">>)
  <2>1. Bytes!Children(us) \in Seq(Parts) /\ Part(Bytes!TokensOf(Bytes!Children(us)), T[0], T[n])
    BY <1>1, <1>2, <1>3, ChildrenInTurn DEF n
  <2> QED
    BY <1>4, <2>1
<1>6. e \in Parts /\ e.tokens = <<tok>>
  <2>1. tok \in Tokens
    BY DEF Tokens, PlainKinds
  <2> HIDE DEF tok
  <2>2. <<tok>> \in Seq(Tokens)
    BY <2>1
  <2> DEFINE u == <<tok>>
  <2> HIDE DEF u
  <2>3. u \in Seq(Tokens) => Bytes!Raw(u) \in Parts /\ Bytes!Raw(u).tokens = u
    BY DEF Bytes!Raw, Parts
  <2> QED
    BY <2>2, <2>3 DEF u
<1>7. Bytes!Block(us) = Bytes!Node("BLOCK_BEGIN", ps \o <<e>>)
  BY DEF Bytes!Block
<1>8. Part(e.tokens, <<"stmts">>, <<>>)
  BY <1>6, EndPart
<1> HIDE DEF ps, e
<1>9. Written(ps \o <<e>>, <<"stmts">>)
  <2> DEFINE q == <<e>>
  <2>1. q \in Seq(Parts) /\ Bytes!TokensOf(q) = e.tokens
    BY <1>6, TokensOfOne
  <2> HIDE DEF q
  <2>2. ps \o q \in Seq(Parts) /\ Bytes!TokensOf(ps \o q) = Bytes!TokensOf(ps) \o Bytes!TokensOf(q)
    BY <1>5, <2>1, TokensOfIs
  <2>3. Part(Bytes!TokensOf(ps) \o e.tokens, <<"stmts">>, <<>>)
    BY <1>5, <1>8, PartsJoin
  <2>4. Written(ps \o q, <<"stmts">>)
    BY <2>1, <2>2, <2>3 DEF Written
  <2> QED
    BY <2>4 DEF q
<1>10. Written(ps \o <<e>>, Contents("BLOCK_BEGIN"))
  BY <1>9 DEF Contents
<1> QED
  BY <1>7, <1>10, NodeWritten
\* Conditions with their blocks.
SpecsOf(E, S) == [cond : E, block : Seq(S)]

LEMMA BranchWritten ==
  ASSUME NEW s \in SpecsOf(Constructs(ExprOps), Constructs(Stmts)), NEW ps,
         ps = <<Bytes!CondType("IF"), Bytes!Child(s.cond), Bytes!Child(Bytes!Block(s.block))>>
  PROVE  Written(ps, <<"spec">>)
<1> DEFINE a == Bytes!CondType("IF")
           b == Bytes!Child(s.cond)
           d == Bytes!Child(Bytes!Block(s.block))
<1>1. Construct(s.cond, ExprOps) /\ Construct(Bytes!Block(s.block), {"BLOCK_BEGIN"})
  <2>1. s.cond \in Constructs(ExprOps) /\ s.block \in Seq(Constructs(Stmts))
    BY DEF SpecsOf
  <2> QED
    BY <2>1, BlockConstruct DEF Constructs
<1>2. Written(<<b>>, <<"e">>) /\ Written(<<d>>, <<"block">>)
  BY <1>1, ChildWritten
<1>3. a \in Parts /\ Part(a.tokens, <<"spec">>, <<"e", "block">>)
  BY CondTypeParts DEF Bytes!SkipSpec
<1>4. ps = <<a, b, d>>
  OBVIOUS
<1> HIDE DEF a, b, d
<1>5. Written(<<b, d>>, <<"e", "block">>)
  BY <1>2, WrittenFew
<1>6. Written(<<a>> \o <<b, d>>, <<"spec">>)
  BY <1>3, <1>5, WrittenAnnounced
<1>7. <<a>> \o <<b, d>> = <<a, b, d>>
  <2> DEFINE S == {a, b, d}
             u == <<a>> \o <<b, d>>
             v == <<a, b, d>>
  <2>1. u \in Seq(S) /\ v \in Seq(S) /\ Len(u) = 3 /\ Len(v) = 3
    OBVIOUS
  <2>2. u[1] = a /\ u[2] = b /\ u[3] = d /\ v[1] = a /\ v[2] = b /\ v[3] = d
    OBVIOUS
  <2> HIDE DEF u, v, S
  <2>3. \A i \in 1..Len(u) : u[i] = v[i]
    BY <2>1, <2>2
  <2>4. u = v
    BY <2>1, <2>3, SameSequences
  <2> QED
    BY <2>4 DEF u, v
<1> QED
  BY <1>4, <1>6, <1>7

LEMMA BranchesInTurn ==
  ASSUME NEW pss, pss \in Seq(Seq(Parts)), NEW n, n = Len(pss), NEW k \in {0, 1},
         \A i \in 1..n : Written(pss[i], <<"spec">>)
  PROVE  /\ Bytes!FlattenSeq(pss) \in Seq(Parts) /\ n \in Nat
         /\ Part(Bytes!TokensOf(Bytes!FlattenSeq(pss)),
                 Bytes!Repeat("spec", n + k), Bytes!Repeat("spec", k))
<1> DEFINE T == [i \in 0..n |-> Bytes!Repeat("spec", (n + k) - i)]
<1>1. n \in Nat
  <2> DEFINE V == Seq(Parts)
  <2>1. pss \in Seq(V)
    OBVIOUS
  <2> HIDE DEF V
  <2> QED
    BY <2>1
<1>2. T \in [0..n -> Seq(Bytes!SkipItems)]
  <2>1. \A i \in 0..n : (n + k) - i \in Nat
    BY <1>1
  <2> QED
    BY <2>1, RepeatStarts
<1>3. ASSUME NEW i \in 1..n PROVE Part(Bytes!TokensOf(pss[i]), T[i - 1], T[i])
  <2> DEFINE more == Bytes!Repeat("spec", (n + k) - i)
  <2>1. i \in 0..n /\ i - 1 \in 0..n /\ (n + k) - i \in Nat
    BY <1>1
  <2>2. more \in Seq(Bytes!SkipItems)
    BY <2>1, RepeatStarts
  <2>3. Bytes!Repeat("spec", (n + k) - (i - 1)) = <<"spec">> \o more
    <3> DEFINE j == (n + k) - (i - 1)
    <3>1. j \in Nat /\ j > 0 /\ j - 1 = (n + k) - i
      BY <1>1
    <3> HIDE DEF j
    <3>2. Bytes!Repeat("spec", j) = <<"spec">> \o Bytes!Repeat("spec", j - 1)
      BY <3>1, RepeatStarts
    <3> QED
      BY <3>1, <3>2 DEF j
  <2>4. T[i - 1] = <<"spec">> \o more /\ T[i] = more
    BY <2>1, <2>3
  <2> HIDE DEF more, T
  <2>5. Part(Bytes!TokensOf(pss[i]), <<"spec">> \o more, <<>> \o more)
    BY <2>2, PartsBefore DEF Written
  <2>6. <<>> \o more = more
    BY <2>2, EmptyIs
  <2> QED
    BY <2>4, <2>5, <2>6
<1>4. T[0] = Bytes!Repeat("spec", n + k) /\ T[n] = Bytes!Repeat("spec", k)
  <2>1. 0 \in 0..n /\ n \in 0..n /\ (n + k) - 0 = n + k /\ (n + k) - n = k
    BY <1>1
  <2> QED
    BY <2>1
<1> HIDE DEF T
<1>5. /\ Bytes!FlattenSeq(pss) \in Seq(Parts)
      /\ Part(Bytes!TokensOf(Bytes!FlattenSeq(pss)), T[0], T[n])
  BY <1>2, <1>3, PartsInTurn
<1> QED
  BY <1>1, <1>4, <1>5

LEMMA ConditionalConstruct ==
  ASSUME NEW specs \in Seq(SpecsOf(Constructs(ExprOps), Constructs(Stmts))),
         NEW other \in Seq(Constructs(Stmts))
  PROVE  Construct(Bytes!Conditional(specs, other), {"CONDITIONAL"})
<1> DEFINE n == Len(specs)
           k == IF other = <<>> THEN 0 ELSE 1
           branch(s) == <<Bytes!CondType("IF"), Bytes!Child(s.cond), Bytes!Child(Bytes!Block(s.block))>>
           pss == [i \in DOMAIN specs |-> branch(specs[i])]
           branches == Bytes!FlattenSeq(pss)
           last == IF other = <<>> THEN <<>>
                   ELSE <<Bytes!CondType("ELSE"), Bytes!Child(Bytes!Block(other))>>
           count == Bytes!Count(n + k)
           end == Bytes!Operand("conditional_end")
<1>1. n \in Nat /\ DOMAIN specs = 1..n /\ k \in {0, 1} /\ n + k \in Nat
  OBVIOUS
<1>2. \A i \in 1..n : Written(branch(specs[i]), <<"spec">>)
  <2> TAKE i \in 1..n
  <2>1. specs[i] \in SpecsOf(Constructs(ExprOps), Constructs(Stmts))
    OBVIOUS
  <2> QED
    BY <2>1, BranchWritten
<1>3. Bytes!Conditional(specs, other)
        = Bytes!Node("CONDITIONAL", <<count>> \o branches \o last \o <<end>>)
  BY DEF Bytes!Conditional
<1>4. pss \in Seq(Seq(Parts)) /\ Len(pss) = n /\ \A i \in 1..n : Written(pss[i], <<"spec">>)
  <2> DEFINE V == Seq(Parts)
  <2>1. \A i \in 1..n : branch(specs[i]) \in V
    BY <1>2 DEF Written
  <2> HIDE DEF V, branch, n
  <2>2. pss \in Seq(V) /\ Len(pss) = n /\ \A i \in 1..n : pss[i] = branch(specs[i])
    BY <1>1, <2>1
  <2> HIDE DEF pss
  <2> QED
    BY <1>2, <2>2 DEF V
<1> HIDE DEF pss, n
<1>5. /\ branches \in Seq(Parts)
      /\ Part(Bytes!TokensOf(branches), Bytes!Repeat("spec", n + k), Bytes!Repeat("spec", k))
  BY <1>1, <1>4, BranchesInTurn
<1>6. Written(last, Bytes!Repeat("spec", k))
  <2>1. CASE other = <<>>
    BY <2>1, WrittenNone, RepeatStarts
  <2>2. CASE other # <<>>
    <3>1. Written(<<Bytes!Child(Bytes!Block(other))>>, <<"block">>)
      BY BlockConstruct, ChildWritten
    <3> DEFINE a == Bytes!CondType("ELSE")
               b == Bytes!Child(Bytes!Block(other))
    <3>2. a \in Parts /\ Part(a.tokens, <<"spec">>, <<"block">>)
      BY CondTypeParts DEF Bytes!SkipSpec
    <3>3. last = <<a, b>> /\ k = 1
      BY <2>2
    <3> HIDE DEF a, b, last, k
    <3>4. Written(<<a>> \o <<b>>, <<"spec">>)
      BY <3>1, <3>2, WrittenAnnounced DEF b
    <3>5. <<a>> \o <<b>> = <<a, b>> /\ Bytes!Repeat("spec", 1) = <<"spec">>
      BY ShortSequences, RepeatStarts
    <3> QED
      BY <3>3, <3>4, <3>5
  <2> QED
    BY <2>1, <2>2
<1>7. /\ count \in Parts /\ Part(count.tokens, <<"specs">>, Bytes!Repeat("spec", n + k))
  BY <1>1, CountParts
<1>8. Written(<<end>>, <<"conditional_end">>)
  BY OperandWritten DEF OperandKinds, PlainKinds
<1> HIDE DEF k, branches, last, count, end
<1>9. Written(branches \o last, Bytes!Repeat("spec", n + k))
  <2>1. last \in Seq(Parts) /\ Part(Bytes!TokensOf(last), Bytes!Repeat("spec", k), <<>>)
    BY <1>6 DEF Written
  <2>2. /\ branches \o last \in Seq(Parts)
        /\ Bytes!TokensOf(branches \o last) = Bytes!TokensOf(branches) \o Bytes!TokensOf(last)
    BY <1>5, <2>1, TokensOfIs
  <2>3. Part(Bytes!TokensOf(branches) \o Bytes!TokensOf(last), Bytes!Repeat("spec", n + k), <<>>)
    BY <1>5, <2>1, PartsJoin
  <2> QED
    BY <2>2, <2>3 DEF Written
<1>10. Written(<<count>> \o (branches \o last), <<"specs">>)
  BY <1>7, <1>9, WrittenAnnounced
<1>11. <<count>> \o (branches \o last) = <<count>> \o branches \o last
  <2> DEFINE u == <<count>>
  <2>1. u \in Seq(Parts) /\ branches \in Seq(Parts) /\ last \in Seq(Parts)
    BY <1>5, <1>6, <1>7 DEF Written
  <2> HIDE DEF u
  <2>2. AssociativeOn(Parts)
    BY Associative, Zenon
  <2>3. u \in Seq(Parts)
    BY <2>1
  <2>4. branches \in Seq(Parts)
    BY <2>1
  <2>5. last \in Seq(Parts)
    BY <2>1
  <2>6. (u \o branches) \o last = u \o (branches \o last)
    BY <2>2, <2>3, <2>4, <2>5, Zenon DEF AssociativeOn
  <2> QED
    BY <2>6 DEF u
<1>12. Written(<<count>> \o branches \o last, <<"specs">>)
  BY <1>10, <1>11
<1>13. Written((<<count>> \o branches \o last) \o <<end>>, <<"specs">> \o <<"conditional_end">>)
  BY <1>8, <1>12, WrittenTogether
<1>14. /\ <<"specs">> \o <<"conditional_end">> = <<"specs", "conditional_end">>
       /\ Contents("CONDITIONAL") = <<"specs", "conditional_end">> /\ "CONDITIONAL" \in Stmts
  <2>1. "CONDITIONAL" \in DeclOps
    BY DEF DeclOps
  <2>2. Contents("CONDITIONAL") = Bytes!SkipStmtLayouts["CONDITIONAL"]
    BY <2>1, ContentsAre
  <2>3. Bytes!SkipStmtLayouts["CONDITIONAL"] = <<"specs", "conditional_end">>
    BY DEF Bytes!SkipStmtLayouts
  <2> QED
    BY <2>1, <2>2, <2>3, ShortSequences DEF Stmts
<1>15. Written(<<count>> \o branches \o last \o <<end>>, Contents("CONDITIONAL"))
  BY <1>13, <1>14
<1> QED
  BY <1>3, <1>14, <1>15, NodeWritten

LEMMA LoopConstruct ==
  ASSUME NEW cond \in Constructs(ExprOps), NEW body \in Seq(Constructs(Stmts))
  PROVE  Construct(Bytes!Loop(cond, body), {"CONDITIONAL"})
<1> DEFINE a == Bytes!Count(1)
           b == Bytes!CondType("LOOPIF")
           d == Bytes!Child(cond)
           e == Bytes!Child(Bytes!Block(body))
           f == Bytes!Operand("conditional_end")
           first == [t |-> "count", n |-> 1]
           second == [t |-> "condtype", v |-> "LOOPIF"]
           ps == <<a, b, d, e, f>>
           qs == <<d, e, f>>
           N == Bytes!Node("CONDITIONAL", ps)
           more == Bytes!TokensOf(qs)
           all == Bytes!TokensOf(ps)
<1>1. Bytes!Loop(cond, body) = N
  BY DEF Bytes!Loop
<1>2. Written(qs, LoopItems)
  <2>1. Construct(cond, ExprOps) /\ Construct(Bytes!Block(body), {"BLOCK_BEGIN"})
    BY BlockConstruct DEF Constructs
  <2>2. Written(<<d>>, <<"e">>) /\ Written(<<e>>, <<"block">>)
    BY <2>1, ChildWritten
  <2>3. Written(<<f>>, <<"conditional_end">>)
    BY OperandWritten DEF OperandKinds, PlainKinds
  <2> HIDE DEF d, e, f
  <2> QED
    BY <2>2, <2>3, WrittenFew DEF LoopItems
<1>3. /\ first \in Tokens /\ second \in Tokens /\ first.t = "count" /\ first.n = 1
      /\ second.t = "condtype" /\ second.v = "LOOPIF"
  BY DEF Tokens
<1>4. a = Bytes!Raw(<<first>>) /\ b = Bytes!Raw(<<second>>)
  BY DEF Bytes!Count, Bytes!CondType
<1> HIDE DEF first, second
<1>5. a \in Parts /\ a.tokens = <<first>> /\ b \in Parts /\ b.tokens = <<second>>
  <2>1. ASSUME NEW u \in Seq(Tokens) PROVE Bytes!Raw(u) \in Parts /\ Bytes!Raw(u).tokens = u
    BY DEF Bytes!Raw, Parts
  <2>2. <<first>> \in Seq(Tokens) /\ <<second>> \in Seq(Tokens)
    BY <1>3
  <2> HIDE DEF a, b
  <2> QED
    BY <1>4, <2>1, <2>2
<1> HIDE DEF a, b, d, e, f
<1>6. ps = (<<a>> \o <<b>>) \o qs
  <2> DEFINE S == {a, b, d, e, f}
             u == <<a, b>> \o <<d, e, f>>
             v == <<a, b, d, e, f>>
  <2>1. u \in Seq(S) /\ v \in Seq(S) /\ Len(u) = 5 /\ Len(v) = 5
    OBVIOUS
  <2>2. u[1] = a /\ u[2] = b /\ u[3] = d /\ u[4] = e /\ u[5] = f
    OBVIOUS
  <2>3. v[1] = a /\ v[2] = b /\ v[3] = d /\ v[4] = e /\ v[5] = f
    OBVIOUS
  <2> HIDE DEF u, v, S
  <2>4. \A i \in 1..Len(u) : u[i] = v[i]
    BY <2>1, <2>2, <2>3
  <2>5. u = v
    BY <2>1, <2>4, SameSequences
  <2>6. <<a>> \o <<b>> = <<a, b>>
    BY ShortSequences
  <2> QED
    BY <2>5, <2>6 DEF u, v
<1>7. qs \in Seq(Parts) /\ Part(more, LoopItems, <<>>)
  BY <1>2 DEF Written
<1> HIDE DEF qs, ps
<1>8. ps \in Seq(Parts) /\ all = (<<first>> \o <<second>>) \o more
  <2> DEFINE u == <<a>>
             v == <<b>>
  <2>1. u \in Seq(Parts) /\ v \in Seq(Parts) /\ Bytes!TokensOf(u) = <<first>> /\ Bytes!TokensOf(v) = <<second>>
    BY <1>5, TokensOfOne
  <2> HIDE DEF u, v
  <2>2. u \o v \in Seq(Parts) /\ Bytes!TokensOf(u \o v) = Bytes!TokensOf(u) \o Bytes!TokensOf(v)
    BY <2>1, TokensOfIs
  <2> DEFINE w == u \o v
  <2> HIDE DEF w
  <2>3. w \o qs \in Seq(Parts) /\ Bytes!TokensOf(w \o qs) = Bytes!TokensOf(w) \o Bytes!TokensOf(qs)
    BY <1>7, <2>2, TokensOfIs DEF w
  <2> QED
    BY <1>6, <2>1, <2>2, <2>3 DEF u, v, w
<1> HIDE DEF more
<1>9. Aligned(all)
  <2>1. Aligned(<<first>>) /\ Aligned(<<second>>) /\ Aligned(more)
    BY <1>3, <1>7, OneToken DEF Part
  <2>2. Aligned(<<first>> \o <<second>>)
    BY <2>1, AlignedTogether
  <2> QED
    BY <1>8, <2>1, <2>2, AlignedTogether
<1>10. "CONDITIONAL" \in Stmts \cup {"BLOCK_BEGIN"}
  BY DEF Stmts, DeclOps
<1>11. Whole(N, 1)
  <2>1. /\ N \in Seq(Tokens) /\ all \in Seq(Tokens) /\ Len(all) \in Nat /\ Len(N) = Len(all) + 1
        /\ N[1].op = "CONDITIONAL" /\ At(all, N, 1) /\ Behind(N, 1) = Len(N) + 1
    <3>1. ps \in Seq(Parts)
      BY <1>8
    <3> QED
      BY <1>10, <3>1, NodeShape
  <2> DEFINE u == <<first>>
             v == <<second>>
             w == u \o v
  <2>2. /\ u \in Seq(Tokens) /\ Len(u) = 1 /\ u[1] = first /\ v \in Seq(Tokens) /\ Len(v) = 1
        /\ v[1] = second
    BY <1>3, OneToken
  <2>3. more \in Seq(Tokens)
    BY <1>7 DEF Part, Aligned
  <2>4. all = w \o more
    BY <1>8
  <2> HIDE DEF N, all, u, v
  <2>5. w \in Seq(Tokens) /\ Len(w) = 2
    <3>1. u \in Seq(Tokens) /\ v \in Seq(Tokens)
      BY <2>2
    <3>2. w \in Seq(Tokens) /\ Len(w) = Len(u) + Len(v)
      BY <3>1, ConcatenationIs
    <3> QED
      BY <2>2, <3>2
  <2> HIDE DEF w
  <2>6. At(w, N, 1) /\ At(more, N, 3)
    <3>1. At(w, N, 1) /\ At(more, N, 1 + Len(w))
      BY <2>1, <2>3, <2>4, <2>5, AtParts
    <3>2. 1 + Len(w) = 3
      BY <2>5
    <3> QED
      BY <3>1, <3>2
  <2>7. At(u, N, 1) /\ At(v, N, 2)
    <3>1. At(u, N, 1) /\ At(v, N, 1 + Len(u))
      BY <2>1, <2>2, <2>6, AtParts DEF w
    <3>2. 1 + Len(u) = 2
      BY <2>2
    <3> QED
      BY <3>1, <3>2
  <2>8. /\ 1 + 1 \in DOMAIN N /\ N[1 + 1] = first
        /\ 1 + 2 \in DOMAIN N /\ N[1 + 2] = second
    <3>0. /\ N \in Seq(Tokens) /\ u \in Seq(Tokens) /\ Len(u) >= 1
          /\ v \in Seq(Tokens) /\ Len(v) >= 1
      BY <2>1, <2>2
    <3>1. 1 + 1 \in DOMAIN N /\ N[1 + 1] = first
      <4>1. 1 + 1 \in DOMAIN N /\ N[1 + 1] = u[1]
        BY <2>7, <3>0, AtFirst
      <4> QED
        BY <2>2, <4>1
    <3>2. 2 + 1 \in DOMAIN N /\ N[2 + 1] = second
      <4>1. 2 + 1 \in DOMAIN N /\ N[2 + 1] = v[1]
        BY <2>7, <3>0, AtFirst
      <4> QED
        BY <2>2, <4>1
    <3>3. 2 + 1 = 1 + 2
      OBVIOUS
    <3> QED
      BY <3>1, <3>2, <3>3
  <2>9. Leads(Jumps(N), <<LoopItems, 3 + 1>>, <<<<>>, 3 + 1 + Len(more)>>)
    <3>1. Through(more, LoopItems, <<>>)
      BY <1>7 DEF Part
    <3> QED
      BY <2>1, <2>6, <3>1 DEF Through
  <2>10. Len(all) = 2 + Len(more) /\ Len(more) \in Nat
    <3>1. w \in Seq(Tokens)
      BY <2>5
    <3>2. Len(w \o more) = Len(w) + Len(more) /\ Len(more) \in Nat
      BY <2>3, <3>1, ConcatenationIs
    <3> QED
      BY <2>4, <2>5, <3>2
  <2>11. 3 + 1 = 1 + 3 /\ 3 + 1 + Len(more) = Behind(N, 1)
    BY <2>1, <2>10
  <2>12. Leads(Jumps(N), <<LoopItems, 1 + 3>>, <<<<>>, Behind(N, 1)>>)
    BY <2>9, <2>11
  <2> QED
    BY <1>3, <2>1, <2>8, <2>12 DEF Whole, LoopAt
<1>12. Construct(N, {"CONDITIONAL"})
  BY <1>8, <1>9, <1>10, <1>11, NodeConstruct
<1> QED
  BY <1>1, <1>12
-----------------------------------------------------------------------------
(* Every construct that CodeGen writes.                                    *)
LEMMA ContentsListed ==
  /\ Contents("INTOBJCREATE") = <<"object">>
  /\ Contents("VAR_REF") = <<"id">>
  /\ Contents("FUNC_REF") = <<"id">>
  /\ Contents("LOCAL_REF") = <<"slot">>
  /\ Contents("TYPED_LOCAL_REF") = <<"kind", "slot">>
  /\ Contents("IVKFUNC") = <<"e", "args">>
  /\ Contents("CALL_DIRECT") = <<"id", "args">>
  /\ Contents("CALL_BUILTIN_MEMBER") = <<"e", "member", "args">>
  /\ Contents("UNARY_OPERATOR") = <<"oprtr", "e">>
  /\ Contents("BINARY_OPERATOR") = <<"oprtr", "e", "e">>
  /\ Contents("TYPED_BINARY") = <<"kind", "oprtr", "e", "e">>
  /\ Contents("TYPED_NEGATE") = <<"kind", "e">>
  /\ Contents("TYPED_COMPARE") = <<"kind", "oprtr", "e", "e">>
  /\ Contents("NEWOBJ") = <<"id", "args">>
  /\ Contents("MEMBER_GET") = <<"e", "id">>
  /\ Contents("MEMBER_GET_FIELD_SLOT") = <<"e", "slot">>
  /\ Contents("MEMBER_SET") = <<"e", "id", "e">>
  /\ Contents("MEMBER_SET_FIELD_SLOT") = <<"e", "slot", "e">>
  /\ Contents("MEMBER_IVK") = <<"e", "id", "args">>
  /\ Contents("REGEX_LITERAL") = <<"id", "id">>
  /\ Contents("VAR_SET") = <<"id", "e">>
  /\ Contents("LOCAL_SET") = <<"slot", "e">>
  /\ Contents("INDEX_GET") = <<"e", "e">>
  /\ Contents("TYPED_INDEX_GET") = <<"kind", "e", "e">>
  /\ Contents("INDEX_SET") = <<"e", "e", "e">>
  /\ Contents("TYPED_INDEX_SET") = <<"kind", "e", "e", "e">>
  /\ Contents("ARRAY_LITERAL") = <<"args">>
  /\ Contents("DICT_LITERAL") = <<"pairs">>
  /\ Contents("TYPECHECK") = <<"e", "id">>
  /\ Contents("TERNARY") = <<"e", "e", "e">>
  /\ Contents("CAST") = <<"e", "id">>
  /\ Contents("TYPED_INTRINSIC") = <<"kind", "oprtr", "e">>
  /\ Contents("VAR") = <<"id", "varinit">>
  /\ Contents("RETURN") = <<"init">>
  /\ Contents("SECURE_DECL") = <<"id", "optid", "optid", "e", "block">>
  /\ Contents("LOCAL_DECL") = <<"slot", "init">>
  /\ Contents("SECURE_LOCAL_DECL") = <<"slot", "optslot", "optid", "e", "block">>
  /\ Contents("FUNC") = <<"function">>
  /\ Contents("CLASS_DEF") = <<"class">>
<1>1. /\ Contents("INTOBJCREATE") = <<"object">>
      /\ Contents("VAR_REF") = <<"id">>
      /\ Contents("FUNC_REF") = <<"id">>
      /\ Contents("LOCAL_REF") = <<"slot">>
      /\ Contents("TYPED_LOCAL_REF") = <<"kind", "slot">>
  <2>1. \A op \in ReferenceOps : Contents(op) = Bytes!SkipReferences[op]
    BY ContentsOf
  <2> QED
    BY <2>1 DEF ReferenceOps, Bytes!SkipReferences
<1>2. /\ Contents("IVKFUNC") = <<"e", "args">>
      /\ Contents("CALL_DIRECT") = <<"id", "args">>
      /\ Contents("CALL_BUILTIN_MEMBER") = <<"e", "member", "args">>
  <2>1. \A op \in CallOps : Contents(op) = Bytes!SkipCalls[op]
    BY ContentsOf
  <2> QED
    BY <2>1 DEF CallOps, Bytes!SkipCalls
<1>3. /\ Contents("UNARY_OPERATOR") = <<"oprtr", "e">>
      /\ Contents("BINARY_OPERATOR") = <<"oprtr", "e", "e">>
      /\ Contents("TYPED_BINARY") = <<"kind", "oprtr", "e", "e">>
      /\ Contents("TYPED_NEGATE") = <<"kind", "e">>
      /\ Contents("TYPED_COMPARE") = <<"kind", "oprtr", "e", "e">>
  <2>1. \A op \in OperatorOps : Contents(op) = Bytes!SkipOperators[op]
    BY ContentsOf
  <2> QED
    BY <2>1 DEF OperatorOps, Bytes!SkipOperators
<1>4. /\ Contents("NEWOBJ") = <<"id", "args">>
      /\ Contents("MEMBER_GET") = <<"e", "id">>
      /\ Contents("MEMBER_GET_FIELD_SLOT") = <<"e", "slot">>
      /\ Contents("MEMBER_SET") = <<"e", "id", "e">>
      /\ Contents("MEMBER_SET_FIELD_SLOT") = <<"e", "slot", "e">>
      /\ Contents("MEMBER_IVK") = <<"e", "id", "args">>
      /\ Contents("REGEX_LITERAL") = <<"id", "id">>
      /\ Contents("VAR_SET") = <<"id", "e">>
      /\ Contents("LOCAL_SET") = <<"slot", "e">>
  <2>1. \A op \in MemberOps : Contents(op) = Bytes!SkipMembers[op]
    BY ContentsOf
  <2> QED
    BY <2>1 DEF MemberOps, Bytes!SkipMembers
<1>5. /\ Contents("INDEX_GET") = <<"e", "e">>
      /\ Contents("TYPED_INDEX_GET") = <<"kind", "e", "e">>
      /\ Contents("INDEX_SET") = <<"e", "e", "e">>
      /\ Contents("TYPED_INDEX_SET") = <<"kind", "e", "e", "e">>
      /\ Contents("ARRAY_LITERAL") = <<"args">>
      /\ Contents("DICT_LITERAL") = <<"pairs">>
      /\ Contents("TYPECHECK") = <<"e", "id">>
      /\ Contents("TERNARY") = <<"e", "e", "e">>
      /\ Contents("CAST") = <<"e", "id">>
      /\ Contents("TYPED_INTRINSIC") = <<"kind", "oprtr", "e">>
  <2>1. \A op \in IndexingOps : Contents(op) = Bytes!SkipIndexing[op]
    BY ContentsOf
  <2> QED
    BY <2>1 DEF IndexingOps, Bytes!SkipIndexing
<1>6. /\ Contents("VAR") = <<"id", "varinit">>
      /\ Contents("RETURN") = <<"init">>
      /\ Contents("SECURE_DECL") = <<"id", "optid", "optid", "e", "block">>
      /\ Contents("LOCAL_DECL") = <<"slot", "init">>
      /\ Contents("SECURE_LOCAL_DECL") = <<"slot", "optslot", "optid", "e", "block">>
      /\ Contents("FUNC") = <<"function">>
      /\ Contents("CLASS_DEF") = <<"class">>
  <2>1. \A op \in DeclOps : Contents(op) = Bytes!SkipStmtLayouts[op]
    BY ContentsOf
  <2> QED
    BY <2>1 DEF DeclOps, Bytes!SkipStmtLayouts
<1> QED
  BY <1>1, <1>2, <1>3, <1>4, <1>5, <1>6

LEMMA OpsListed ==
  /\ {"INTOBJCREATE", "VAR_REF", "FUNC_REF", "LOCAL_REF", "TYPED_LOCAL_REF", "IVKFUNC",
      "CALL_DIRECT", "CALL_BUILTIN_MEMBER", "UNARY_OPERATOR", "BINARY_OPERATOR",
      "TYPED_BINARY", "TYPED_NEGATE", "TYPED_COMPARE", "NEWOBJ", "MEMBER_GET",
      "MEMBER_GET_FIELD_SLOT", "MEMBER_SET", "MEMBER_SET_FIELD_SLOT", "MEMBER_IVK",
      "REGEX_LITERAL", "VAR_SET", "LOCAL_SET", "INDEX_GET", "TYPED_INDEX_GET",
      "INDEX_SET", "TYPED_INDEX_SET", "ARRAY_LITERAL", "DICT_LITERAL", "TYPECHECK",
      "TERNARY", "CAST", "TYPED_INTRINSIC"} \subseteq ExprOps
  /\ {"VAR", "RETURN", "SECURE_DECL", "LOCAL_DECL", "SECURE_LOCAL_DECL", "FUNC", "CLASS_DEF"}
       \subseteq DeclOps
<1>1. ExprOps = ReferenceOps \cup CallOps \cup OperatorOps \cup MemberOps \cup IndexingOps
  BY EvalExprsAre
<1> QED
  BY <1>1 DEF ReferenceOps, CallOps, OperatorOps, MemberOps, IndexingOps, DeclOps

LEMMA ExprNode ==
  ASSUME NEW op \in ExprOps, NEW ps, Written(ps, Contents(op))
  PROVE  Bytes!Node(op, ps) \in Constructs(ExprOps)
<1>1. Construct(Bytes!Node(op, ps), {op})
  BY NodeWritten DEF Stmts
<1> QED
  BY <1>1 DEF Constructs, Construct, Aligned

LEMMA DeclNode ==
  ASSUME NEW op \in DeclOps, NEW ps, Written(ps, Contents(op))
  PROVE  Bytes!Node(op, ps) \in Constructs(Stmts)
<1>1. Construct(Bytes!Node(op, ps), {op}) /\ op \in Stmts
  BY NodeWritten DEF Stmts
<1> QED
  BY <1>1 DEF Constructs, Construct, Aligned

LEMMA PiecesWritten ==
  /\ \A e \in Constructs(ExprOps) : Written(<<Bytes!Child(e)>>, <<"e">>)
  /\ Written(<<Bytes!Operand("id")>>, <<"id">>) /\ Written(<<Bytes!Operand("slot")>>, <<"slot">>)
  /\ Written(<<Bytes!Operand("kind")>>, <<"kind">>)
  /\ Written(<<Bytes!Operand("object")>>, <<"object">>)
  /\ Written(<<Bytes!Operand("member")>>, <<"member">>)
  /\ Written(<<Bytes!Operand("function")>>, <<"function">>)
  /\ Written(<<Bytes!Operand("class")>>, <<"class">>)
  /\ \A v \in Operators : Written(<<Bytes!Oprtr(v)>>, <<"oprtr">>)
<1>1. \A e \in Constructs(ExprOps) : Written(<<Bytes!Child(e)>>, <<"e">>)
  BY ChildWritten DEF Constructs
<1>2. \A kind \in OperandKinds : Written(<<Bytes!Operand(kind)>>, <<kind>>)
  BY OperandWritten
<1>3. {"id", "slot", "kind", "object", "member", "function", "class"} \subseteq OperandKinds
  BY DEF OperandKinds, PlainKinds
<1>4. \A v \in Operators : Written(<<Bytes!Oprtr(v)>>, <<"oprtr">>)
  BY OprtrWritten
<1> QED
  BY <1>1, <1>2, <1>3, <1>4

LEMMA LeavesWritten ==
  /\ Bytes!Literal \in Constructs(ExprOps)
  /\ Bytes!RegexLiteral \in Constructs(ExprOps)
  /\ Bytes!VarRef \in Constructs(ExprOps)
  /\ Bytes!LocalRef \in Constructs(ExprOps)
  /\ Bytes!TypedLocalRef \in Constructs(ExprOps)
  /\ Bytes!FuncRef \in Constructs(ExprOps)
<1>1. Bytes!Literal \in Constructs(ExprOps)
  <2>1. Written(<<Bytes!Operand("object")>>, <<"object">>)
    BY PiecesWritten
  <2>3. Bytes!Node("INTOBJCREATE", <<Bytes!Operand("object")>>) \in Constructs(ExprOps)
    BY <2>1, ContentsListed, OpsListed, ExprNode
  <2> QED
    BY <2>3 DEF Bytes!Literal
<1>2. Bytes!RegexLiteral \in Constructs(ExprOps)
  <2>1. Written(<<Bytes!Operand("id")>>, <<"id">>)
    BY PiecesWritten
  <2>2. Written(<<Bytes!Operand("id"), Bytes!Operand("id")>>, <<"id", "id">>)
    BY <2>1, WrittenFew
  <2>3. Bytes!Node("REGEX_LITERAL", <<Bytes!Operand("id"), Bytes!Operand("id")>>) \in Constructs(ExprOps)
    BY <2>2, ContentsListed, OpsListed, ExprNode
  <2> QED
    BY <2>3 DEF Bytes!RegexLiteral
<1>3. Bytes!VarRef \in Constructs(ExprOps)
  <2>1. Written(<<Bytes!Operand("id")>>, <<"id">>)
    BY PiecesWritten
  <2>3. Bytes!Node("VAR_REF", <<Bytes!Operand("id")>>) \in Constructs(ExprOps)
    BY <2>1, ContentsListed, OpsListed, ExprNode
  <2> QED
    BY <2>3 DEF Bytes!VarRef
<1>4. Bytes!LocalRef \in Constructs(ExprOps)
  <2>1. Written(<<Bytes!Operand("slot")>>, <<"slot">>)
    BY PiecesWritten
  <2>3. Bytes!Node("LOCAL_REF", <<Bytes!Operand("slot")>>) \in Constructs(ExprOps)
    BY <2>1, ContentsListed, OpsListed, ExprNode
  <2> QED
    BY <2>3 DEF Bytes!LocalRef
<1>5. Bytes!TypedLocalRef \in Constructs(ExprOps)
  <2>1. /\ Written(<<Bytes!Operand("kind")>>, <<"kind">>)
        /\ Written(<<Bytes!Operand("slot")>>, <<"slot">>)
    BY PiecesWritten
  <2>2. Written(<<Bytes!Operand("kind"), Bytes!Operand("slot")>>, <<"kind", "slot">>)
    BY <2>1, WrittenFew
  <2>3. Bytes!Node("TYPED_LOCAL_REF", <<Bytes!Operand("kind"), Bytes!Operand("slot")>>) \in Constructs(ExprOps)
    BY <2>2, ContentsListed, OpsListed, ExprNode
  <2> QED
    BY <2>3 DEF Bytes!TypedLocalRef
<1>6. Bytes!FuncRef \in Constructs(ExprOps)
  <2>1. Written(<<Bytes!Operand("id")>>, <<"id">>)
    BY PiecesWritten
  <2>3. Bytes!Node("FUNC_REF", <<Bytes!Operand("id")>>) \in Constructs(ExprOps)
    BY <2>1, ContentsListed, OpsListed, ExprNode
  <2> QED
    BY <2>3 DEF Bytes!FuncRef
<1> QED
  BY <1>1, <1>2, <1>3, <1>4, <1>5, <1>6

LEMMA UnariesWritten ==
  /\ \A a \in Constructs(ExprOps) : Bytes!Cast(a) \in Constructs(ExprOps)
  /\ \A a \in Constructs(ExprOps) : Bytes!TypeCheck(a) \in Constructs(ExprOps)
  /\ \A a \in Constructs(ExprOps) : Bytes!MemberGet(a) \in Constructs(ExprOps)
  /\ \A a \in Constructs(ExprOps) : Bytes!MemberGetFieldSlot(a) \in Constructs(ExprOps)
  /\ \A a \in Constructs(ExprOps) : Bytes!Unary(a) \in Constructs(ExprOps)
  /\ \A a \in Constructs(ExprOps) : Bytes!TypedNegate(a) \in Constructs(ExprOps)
  /\ \A a \in Constructs(ExprOps) : Bytes!TypedIntrinsic(a) \in Constructs(ExprOps)
  /\ \A a \in Constructs(ExprOps) : Bytes!VarSet(a) \in Constructs(ExprOps)
  /\ \A a \in Constructs(ExprOps) : Bytes!LocalSet(a) \in Constructs(ExprOps)
<1>1. ASSUME NEW a \in Constructs(ExprOps)
      PROVE  Bytes!Cast(a) \in Constructs(ExprOps)
  <2>1. /\ Written(<<Bytes!Child(a)>>, <<"e">>)
        /\ Written(<<Bytes!Operand("id")>>, <<"id">>)
    BY PiecesWritten
  <2>2. Written(<<Bytes!Child(a), Bytes!Operand("id")>>, <<"e", "id">>)
    BY <2>1, WrittenFew
  <2>3. Bytes!Node("CAST", <<Bytes!Child(a), Bytes!Operand("id")>>) \in Constructs(ExprOps)
    BY <2>2, ContentsListed, OpsListed, ExprNode
  <2> QED
    BY <2>3 DEF Bytes!Cast
<1>2. ASSUME NEW a \in Constructs(ExprOps)
      PROVE  Bytes!TypeCheck(a) \in Constructs(ExprOps)
  <2>1. /\ Written(<<Bytes!Child(a)>>, <<"e">>)
        /\ Written(<<Bytes!Operand("id")>>, <<"id">>)
    BY PiecesWritten
  <2>2. Written(<<Bytes!Child(a), Bytes!Operand("id")>>, <<"e", "id">>)
    BY <2>1, WrittenFew
  <2>3. Bytes!Node("TYPECHECK", <<Bytes!Child(a), Bytes!Operand("id")>>) \in Constructs(ExprOps)
    BY <2>2, ContentsListed, OpsListed, ExprNode
  <2> QED
    BY <2>3 DEF Bytes!TypeCheck
<1>3. ASSUME NEW a \in Constructs(ExprOps)
      PROVE  Bytes!MemberGet(a) \in Constructs(ExprOps)
  <2>1. /\ Written(<<Bytes!Child(a)>>, <<"e">>)
        /\ Written(<<Bytes!Operand("id")>>, <<"id">>)
    BY PiecesWritten
  <2>2. Written(<<Bytes!Child(a), Bytes!Operand("id")>>, <<"e", "id">>)
    BY <2>1, WrittenFew
  <2>3. Bytes!Node("MEMBER_GET", <<Bytes!Child(a), Bytes!Operand("id")>>) \in Constructs(ExprOps)
    BY <2>2, ContentsListed, OpsListed, ExprNode
  <2> QED
    BY <2>3 DEF Bytes!MemberGet
<1>4. ASSUME NEW a \in Constructs(ExprOps)
      PROVE  Bytes!MemberGetFieldSlot(a) \in Constructs(ExprOps)
  <2>1. /\ Written(<<Bytes!Child(a)>>, <<"e">>)
        /\ Written(<<Bytes!Operand("slot")>>, <<"slot">>)
    BY PiecesWritten
  <2>2. Written(<<Bytes!Child(a), Bytes!Operand("slot")>>, <<"e", "slot">>)
    BY <2>1, WrittenFew
  <2>3. Bytes!Node("MEMBER_GET_FIELD_SLOT", <<Bytes!Child(a), Bytes!Operand("slot")>>) \in Constructs(ExprOps)
    BY <2>2, ContentsListed, OpsListed, ExprNode
  <2> QED
    BY <2>3 DEF Bytes!MemberGetFieldSlot
<1>5. ASSUME NEW a \in Constructs(ExprOps)
      PROVE  Bytes!Unary(a) \in Constructs(ExprOps)
  <2>1. /\ Written(<<Bytes!Oprtr("!")>>, <<"oprtr">>)
        /\ Written(<<Bytes!Child(a)>>, <<"e">>)
    BY PiecesWritten DEF Operators
  <2>2. Written(<<Bytes!Oprtr("!"), Bytes!Child(a)>>, <<"oprtr", "e">>)
    BY <2>1, WrittenFew
  <2>3. Bytes!Node("UNARY_OPERATOR", <<Bytes!Oprtr("!"), Bytes!Child(a)>>) \in Constructs(ExprOps)
    BY <2>2, ContentsListed, OpsListed, ExprNode
  <2> QED
    BY <2>3 DEF Bytes!Unary
<1>6. ASSUME NEW a \in Constructs(ExprOps)
      PROVE  Bytes!TypedNegate(a) \in Constructs(ExprOps)
  <2>1. /\ Written(<<Bytes!Operand("kind")>>, <<"kind">>)
        /\ Written(<<Bytes!Child(a)>>, <<"e">>)
    BY PiecesWritten
  <2>2. Written(<<Bytes!Operand("kind"), Bytes!Child(a)>>, <<"kind", "e">>)
    BY <2>1, WrittenFew
  <2>3. Bytes!Node("TYPED_NEGATE", <<Bytes!Operand("kind"), Bytes!Child(a)>>) \in Constructs(ExprOps)
    BY <2>2, ContentsListed, OpsListed, ExprNode
  <2> QED
    BY <2>3 DEF Bytes!TypedNegate
<1>7. ASSUME NEW a \in Constructs(ExprOps)
      PROVE  Bytes!TypedIntrinsic(a) \in Constructs(ExprOps)
  <2>1. /\ Written(<<Bytes!Operand("kind")>>, <<"kind">>)
        /\ Written(<<Bytes!Oprtr("sqrt")>>, <<"oprtr">>)
        /\ Written(<<Bytes!Child(a)>>, <<"e">>)
    BY PiecesWritten DEF Operators
  <2>2. Written(<<Bytes!Operand("kind"), Bytes!Oprtr("sqrt"), Bytes!Child(a)>>, <<"kind", "oprtr", "e">>)
    BY <2>1, WrittenFew
  <2>3. Bytes!Node("TYPED_INTRINSIC", <<Bytes!Operand("kind"), Bytes!Oprtr("sqrt"), Bytes!Child(a)>>) \in Constructs(ExprOps)
    BY <2>2, ContentsListed, OpsListed, ExprNode
  <2> QED
    BY <2>3 DEF Bytes!TypedIntrinsic
<1>8. ASSUME NEW a \in Constructs(ExprOps)
      PROVE  Bytes!VarSet(a) \in Constructs(ExprOps)
  <2>1. /\ Written(<<Bytes!Operand("id")>>, <<"id">>)
        /\ Written(<<Bytes!Child(a)>>, <<"e">>)
    BY PiecesWritten
  <2>2. Written(<<Bytes!Operand("id"), Bytes!Child(a)>>, <<"id", "e">>)
    BY <2>1, WrittenFew
  <2>3. Bytes!Node("VAR_SET", <<Bytes!Operand("id"), Bytes!Child(a)>>) \in Constructs(ExprOps)
    BY <2>2, ContentsListed, OpsListed, ExprNode
  <2> QED
    BY <2>3 DEF Bytes!VarSet
<1>9. ASSUME NEW a \in Constructs(ExprOps)
      PROVE  Bytes!LocalSet(a) \in Constructs(ExprOps)
  <2>1. /\ Written(<<Bytes!Operand("slot")>>, <<"slot">>)
        /\ Written(<<Bytes!Child(a)>>, <<"e">>)
    BY PiecesWritten
  <2>2. Written(<<Bytes!Operand("slot"), Bytes!Child(a)>>, <<"slot", "e">>)
    BY <2>1, WrittenFew
  <2>3. Bytes!Node("LOCAL_SET", <<Bytes!Operand("slot"), Bytes!Child(a)>>) \in Constructs(ExprOps)
    BY <2>2, ContentsListed, OpsListed, ExprNode
  <2> QED
    BY <2>3 DEF Bytes!LocalSet
<1> QED
  BY <1>1, <1>2, <1>3, <1>4, <1>5, <1>6, <1>7, <1>8, <1>9

LEMMA BinariesWritten ==
  /\ \A a, b \in Constructs(ExprOps) : Bytes!IndexGet(a, b) \in Constructs(ExprOps)
  /\ \A a, b \in Constructs(ExprOps) : Bytes!TypedIndexGet(a, b) \in Constructs(ExprOps)
  /\ \A a, b \in Constructs(ExprOps) : Bytes!TypedBinary(a, b) \in Constructs(ExprOps)
  /\ \A a, b \in Constructs(ExprOps) : Bytes!TypedCompare(a, b) \in Constructs(ExprOps)
  /\ \A a, b \in Constructs(ExprOps) : Bytes!MemberSet(a, b) \in Constructs(ExprOps)
  /\ \A a, b \in Constructs(ExprOps) : Bytes!MemberSetFieldSlot(a, b) \in Constructs(ExprOps)
  /\ \A o \in Operators : \A a, b \in Constructs(ExprOps) : Bytes!Binary(o, a, b) \in Constructs(ExprOps)
<1>1. ASSUME NEW a \in Constructs(ExprOps), NEW b \in Constructs(ExprOps)
      PROVE  Bytes!IndexGet(a, b) \in Constructs(ExprOps)
  <2>1. /\ Written(<<Bytes!Child(a)>>, <<"e">>)
        /\ Written(<<Bytes!Child(b)>>, <<"e">>)
    BY PiecesWritten
  <2>2. Written(<<Bytes!Child(a), Bytes!Child(b)>>, <<"e", "e">>)
    BY <2>1, WrittenFew
  <2>3. Bytes!Node("INDEX_GET", <<Bytes!Child(a), Bytes!Child(b)>>) \in Constructs(ExprOps)
    BY <2>2, ContentsListed, OpsListed, ExprNode
  <2> QED
    BY <2>3 DEF Bytes!IndexGet
<1>2. ASSUME NEW a \in Constructs(ExprOps), NEW b \in Constructs(ExprOps)
      PROVE  Bytes!TypedIndexGet(a, b) \in Constructs(ExprOps)
  <2>1. /\ Written(<<Bytes!Operand("kind")>>, <<"kind">>)
        /\ Written(<<Bytes!Child(a)>>, <<"e">>)
        /\ Written(<<Bytes!Child(b)>>, <<"e">>)
    BY PiecesWritten
  <2>2. Written(<<Bytes!Operand("kind"), Bytes!Child(a), Bytes!Child(b)>>, <<"kind", "e", "e">>)
    BY <2>1, WrittenFew
  <2>3. Bytes!Node("TYPED_INDEX_GET", <<Bytes!Operand("kind"), Bytes!Child(a), Bytes!Child(b)>>) \in Constructs(ExprOps)
    BY <2>2, ContentsListed, OpsListed, ExprNode
  <2> QED
    BY <2>3 DEF Bytes!TypedIndexGet
<1>3. ASSUME NEW a \in Constructs(ExprOps), NEW b \in Constructs(ExprOps)
      PROVE  Bytes!TypedBinary(a, b) \in Constructs(ExprOps)
  <2>1. /\ Written(<<Bytes!Operand("kind")>>, <<"kind">>)
        /\ Written(<<Bytes!Oprtr("+")>>, <<"oprtr">>)
        /\ Written(<<Bytes!Child(a)>>, <<"e">>)
        /\ Written(<<Bytes!Child(b)>>, <<"e">>)
    BY PiecesWritten DEF Operators
  <2>2. Written(<<Bytes!Operand("kind"), Bytes!Oprtr("+"), Bytes!Child(a), Bytes!Child(b)>>, <<"kind", "oprtr", "e", "e">>)
    BY <2>1, WrittenFew
  <2>3. Bytes!Node("TYPED_BINARY", <<Bytes!Operand("kind"), Bytes!Oprtr("+"), Bytes!Child(a), Bytes!Child(b)>>) \in Constructs(ExprOps)
    BY <2>2, ContentsListed, OpsListed, ExprNode
  <2> QED
    BY <2>3 DEF Bytes!TypedBinary
<1>4. ASSUME NEW a \in Constructs(ExprOps), NEW b \in Constructs(ExprOps)
      PROVE  Bytes!TypedCompare(a, b) \in Constructs(ExprOps)
  <2>1. /\ Written(<<Bytes!Operand("kind")>>, <<"kind">>)
        /\ Written(<<Bytes!Oprtr("<")>>, <<"oprtr">>)
        /\ Written(<<Bytes!Child(a)>>, <<"e">>)
        /\ Written(<<Bytes!Child(b)>>, <<"e">>)
    BY PiecesWritten DEF Operators
  <2>2. Written(<<Bytes!Operand("kind"), Bytes!Oprtr("<"), Bytes!Child(a), Bytes!Child(b)>>, <<"kind", "oprtr", "e", "e">>)
    BY <2>1, WrittenFew
  <2>3. Bytes!Node("TYPED_COMPARE", <<Bytes!Operand("kind"), Bytes!Oprtr("<"), Bytes!Child(a), Bytes!Child(b)>>) \in Constructs(ExprOps)
    BY <2>2, ContentsListed, OpsListed, ExprNode
  <2> QED
    BY <2>3 DEF Bytes!TypedCompare
<1>5. ASSUME NEW a \in Constructs(ExprOps), NEW b \in Constructs(ExprOps)
      PROVE  Bytes!MemberSet(a, b) \in Constructs(ExprOps)
  <2>1. /\ Written(<<Bytes!Child(a)>>, <<"e">>)
        /\ Written(<<Bytes!Operand("id")>>, <<"id">>)
        /\ Written(<<Bytes!Child(b)>>, <<"e">>)
    BY PiecesWritten
  <2>2. Written(<<Bytes!Child(a), Bytes!Operand("id"), Bytes!Child(b)>>, <<"e", "id", "e">>)
    BY <2>1, WrittenFew
  <2>3. Bytes!Node("MEMBER_SET", <<Bytes!Child(a), Bytes!Operand("id"), Bytes!Child(b)>>) \in Constructs(ExprOps)
    BY <2>2, ContentsListed, OpsListed, ExprNode
  <2> QED
    BY <2>3 DEF Bytes!MemberSet
<1>6. ASSUME NEW a \in Constructs(ExprOps), NEW b \in Constructs(ExprOps)
      PROVE  Bytes!MemberSetFieldSlot(a, b) \in Constructs(ExprOps)
  <2>1. /\ Written(<<Bytes!Child(a)>>, <<"e">>)
        /\ Written(<<Bytes!Operand("slot")>>, <<"slot">>)
        /\ Written(<<Bytes!Child(b)>>, <<"e">>)
    BY PiecesWritten
  <2>2. Written(<<Bytes!Child(a), Bytes!Operand("slot"), Bytes!Child(b)>>, <<"e", "slot", "e">>)
    BY <2>1, WrittenFew
  <2>3. Bytes!Node("MEMBER_SET_FIELD_SLOT", <<Bytes!Child(a), Bytes!Operand("slot"), Bytes!Child(b)>>) \in Constructs(ExprOps)
    BY <2>2, ContentsListed, OpsListed, ExprNode
  <2> QED
    BY <2>3 DEF Bytes!MemberSetFieldSlot
<1>7. ASSUME NEW o \in Operators, NEW a \in Constructs(ExprOps), NEW b \in Constructs(ExprOps)
      PROVE  Bytes!Binary(o, a, b) \in Constructs(ExprOps)
  <2>1. /\ Written(<<Bytes!Oprtr(o)>>, <<"oprtr">>)
        /\ Written(<<Bytes!Child(a)>>, <<"e">>)
        /\ Written(<<Bytes!Child(b)>>, <<"e">>)
    BY PiecesWritten
  <2>2. Written(<<Bytes!Oprtr(o), Bytes!Child(a), Bytes!Child(b)>>, <<"oprtr", "e", "e">>)
    BY <2>1, WrittenFew
  <2>3. Bytes!Node("BINARY_OPERATOR", <<Bytes!Oprtr(o), Bytes!Child(a), Bytes!Child(b)>>) \in Constructs(ExprOps)
    BY <2>2, ContentsListed, OpsListed, ExprNode
  <2> QED
    BY <2>3 DEF Bytes!Binary
<1> QED
  BY <1>1, <1>2, <1>3, <1>4, <1>5, <1>6, <1>7

LEMMA TernariesWritten ==
  /\ \A a, b, d \in Constructs(ExprOps) : Bytes!Ternary(a, b, d) \in Constructs(ExprOps)
  /\ \A a, b, d \in Constructs(ExprOps) : Bytes!IndexSet(a, b, d) \in Constructs(ExprOps)
  /\ \A a, b, d \in Constructs(ExprOps) : Bytes!TypedIndexSet(a, b, d) \in Constructs(ExprOps)
<1>1. ASSUME NEW a \in Constructs(ExprOps), NEW b \in Constructs(ExprOps), NEW d \in Constructs(ExprOps)
      PROVE  Bytes!Ternary(a, b, d) \in Constructs(ExprOps)
  <2>1. /\ Written(<<Bytes!Child(a)>>, <<"e">>)
        /\ Written(<<Bytes!Child(b)>>, <<"e">>)
        /\ Written(<<Bytes!Child(d)>>, <<"e">>)
    BY PiecesWritten
  <2>2. Written(<<Bytes!Child(a), Bytes!Child(b), Bytes!Child(d)>>, <<"e", "e", "e">>)
    BY <2>1, WrittenFew
  <2>3. Bytes!Node("TERNARY", <<Bytes!Child(a), Bytes!Child(b), Bytes!Child(d)>>) \in Constructs(ExprOps)
    BY <2>2, ContentsListed, OpsListed, ExprNode
  <2> QED
    BY <2>3 DEF Bytes!Ternary
<1>2. ASSUME NEW a \in Constructs(ExprOps), NEW b \in Constructs(ExprOps), NEW d \in Constructs(ExprOps)
      PROVE  Bytes!IndexSet(a, b, d) \in Constructs(ExprOps)
  <2>1. /\ Written(<<Bytes!Child(a)>>, <<"e">>)
        /\ Written(<<Bytes!Child(b)>>, <<"e">>)
        /\ Written(<<Bytes!Child(d)>>, <<"e">>)
    BY PiecesWritten
  <2>2. Written(<<Bytes!Child(a), Bytes!Child(b), Bytes!Child(d)>>, <<"e", "e", "e">>)
    BY <2>1, WrittenFew
  <2>3. Bytes!Node("INDEX_SET", <<Bytes!Child(a), Bytes!Child(b), Bytes!Child(d)>>) \in Constructs(ExprOps)
    BY <2>2, ContentsListed, OpsListed, ExprNode
  <2> QED
    BY <2>3 DEF Bytes!IndexSet
<1>3. ASSUME NEW a \in Constructs(ExprOps), NEW b \in Constructs(ExprOps), NEW d \in Constructs(ExprOps)
      PROVE  Bytes!TypedIndexSet(a, b, d) \in Constructs(ExprOps)
  <2>1. /\ Written(<<Bytes!Operand("kind")>>, <<"kind">>)
        /\ Written(<<Bytes!Child(a)>>, <<"e">>)
        /\ Written(<<Bytes!Child(b)>>, <<"e">>)
        /\ Written(<<Bytes!Child(d)>>, <<"e">>)
    BY PiecesWritten
  <2>2. Written(<<Bytes!Operand("kind"), Bytes!Child(a), Bytes!Child(b), Bytes!Child(d)>>, <<"kind", "e", "e", "e">>)
    BY <2>1, WrittenFew
  <2>3. Bytes!Node("TYPED_INDEX_SET", <<Bytes!Operand("kind"), Bytes!Child(a), Bytes!Child(b), Bytes!Child(d)>>) \in Constructs(ExprOps)
    BY <2>2, ContentsListed, OpsListed, ExprNode
  <2> QED
    BY <2>3 DEF Bytes!TypedIndexSet
<1> QED
  BY <1>1, <1>2, <1>3

LEMMA InvocationsWritten ==
  ASSUME NEW us \in Seq(Constructs(ExprOps))
  PROVE  /\ Bytes!NewObj(us) \in Constructs(ExprOps)
         /\ \A a \in Constructs(ExprOps) : Bytes!CallBuiltinMember(a, us) \in Constructs(ExprOps)
         /\ \A a \in Constructs(ExprOps) : Bytes!MemberIvk(a, us) \in Constructs(ExprOps)
         /\ \A a \in Constructs(ExprOps) : Bytes!IvkFunc(a, us) \in Constructs(ExprOps)
         /\ Bytes!CallDirect(us) \in Constructs(ExprOps)
         /\ Bytes!ArrayLiteral(us) \in Constructs(ExprOps)
         /\ Len(us) % 2 = 0 => Bytes!DictLiteral(us) \in Constructs(ExprOps)
<1>0. Written(Bytes!Arguments(us), <<"args">>)
  BY ArgumentsWritten
<1>1. Bytes!NewObj(us) \in Constructs(ExprOps)
  <2>1. Written(<<Bytes!Operand("id")>>, <<"id">>)
    BY PiecesWritten
  <2>3. Written(<<Bytes!Operand("id")>> \o Bytes!Arguments(us), <<"id">> \o <<"args">>)
    BY <1>0, <2>1, WrittenTogether
  <2>4. <<"id">> \o <<"args">> = <<"id", "args">>
    BY ShortSequences
  <2>5. Bytes!Node("NEWOBJ", <<Bytes!Operand("id")>> \o Bytes!Arguments(us)) \in Constructs(ExprOps)
    BY <2>3, <2>4, ContentsListed, OpsListed, ExprNode
  <2> QED
    BY <2>5 DEF Bytes!NewObj
<1>2. ASSUME NEW a \in Constructs(ExprOps) PROVE Bytes!CallBuiltinMember(a, us) \in Constructs(ExprOps)
  <2>1. Written(<<Bytes!Child(a)>>, <<"e">>) /\ Written(<<Bytes!Operand("member")>>, <<"member">>)
    BY PiecesWritten
  <2>2. Written(<<Bytes!Child(a), Bytes!Operand("member")>>, <<"e", "member">>)
    BY <2>1, WrittenFew
  <2>3. Written(<<Bytes!Child(a), Bytes!Operand("member")>> \o Bytes!Arguments(us), <<"e", "member">> \o <<"args">>)
    BY <1>0, <2>2, WrittenTogether
  <2>4. <<"e", "member">> \o <<"args">> = <<"e", "member", "args">>
    BY ShortSequences
  <2>5. Bytes!Node("CALL_BUILTIN_MEMBER", <<Bytes!Child(a), Bytes!Operand("member")>> \o Bytes!Arguments(us)) \in Constructs(ExprOps)
    BY <2>3, <2>4, ContentsListed, OpsListed, ExprNode
  <2> QED
    BY <2>5 DEF Bytes!CallBuiltinMember
<1>3. ASSUME NEW a \in Constructs(ExprOps) PROVE Bytes!MemberIvk(a, us) \in Constructs(ExprOps)
  <2>1. Written(<<Bytes!Child(a)>>, <<"e">>) /\ Written(<<Bytes!Operand("id")>>, <<"id">>)
    BY PiecesWritten
  <2>2. Written(<<Bytes!Child(a), Bytes!Operand("id")>>, <<"e", "id">>)
    BY <2>1, WrittenFew
  <2>3. Written(<<Bytes!Child(a), Bytes!Operand("id")>> \o Bytes!Arguments(us), <<"e", "id">> \o <<"args">>)
    BY <1>0, <2>2, WrittenTogether
  <2>4. <<"e", "id">> \o <<"args">> = <<"e", "id", "args">>
    BY ShortSequences
  <2>5. Bytes!Node("MEMBER_IVK", <<Bytes!Child(a), Bytes!Operand("id")>> \o Bytes!Arguments(us)) \in Constructs(ExprOps)
    BY <2>3, <2>4, ContentsListed, OpsListed, ExprNode
  <2> QED
    BY <2>5 DEF Bytes!MemberIvk
<1>4. ASSUME NEW a \in Constructs(ExprOps) PROVE Bytes!IvkFunc(a, us) \in Constructs(ExprOps)
  <2>1. Written(<<Bytes!Child(a)>>, <<"e">>)
    BY PiecesWritten
  <2>3. Written(<<Bytes!Child(a)>> \o Bytes!Arguments(us), <<"e">> \o <<"args">>)
    BY <1>0, <2>1, WrittenTogether
  <2>4. <<"e">> \o <<"args">> = <<"e", "args">>
    BY ShortSequences
  <2>5. Bytes!Node("IVKFUNC", <<Bytes!Child(a)>> \o Bytes!Arguments(us)) \in Constructs(ExprOps)
    BY <2>3, <2>4, ContentsListed, OpsListed, ExprNode
  <2> QED
    BY <2>5 DEF Bytes!IvkFunc
<1>5. Bytes!CallDirect(us) \in Constructs(ExprOps)
  <2>1. Written(<<Bytes!Operand("id")>>, <<"id">>)
    BY PiecesWritten
  <2>3. Written(<<Bytes!Operand("id")>> \o Bytes!Arguments(us), <<"id">> \o <<"args">>)
    BY <1>0, <2>1, WrittenTogether
  <2>4. <<"id">> \o <<"args">> = <<"id", "args">>
    BY ShortSequences
  <2>5. Bytes!Node("CALL_DIRECT", <<Bytes!Operand("id")>> \o Bytes!Arguments(us)) \in Constructs(ExprOps)
    BY <2>3, <2>4, ContentsListed, OpsListed, ExprNode
  <2> QED
    BY <2>5 DEF Bytes!CallDirect
<1>6. Bytes!ArrayLiteral(us) \in Constructs(ExprOps)
  <2>1. Bytes!Node("ARRAY_LITERAL", Bytes!Arguments(us)) \in Constructs(ExprOps)
    BY <1>0, ContentsListed, OpsListed, ExprNode
  <2> QED
    BY <2>1 DEF Bytes!ArrayLiteral, Bytes!Arguments
<1>7. ASSUME Len(us) % 2 = 0 PROVE Bytes!DictLiteral(us) \in Constructs(ExprOps)
  <2> DEFINE ps == <<Bytes!Count(Len(us) \div 2)>> \o Bytes!Children(us)
  <2>1. Written(ps, <<"pairs">>)
    BY <1>7, ArgumentsWritten
  <2>2. Bytes!DictLiteral(us) = Bytes!Node("DICT_LITERAL", ps)
    BY DEF Bytes!DictLiteral
  <2> HIDE DEF ps
  <2>3. Bytes!Node("DICT_LITERAL", ps) \in Constructs(ExprOps)
    BY <2>1, ContentsListed, OpsListed, ExprNode
  <2> QED
    BY <2>2, <2>3
<1> QED
  BY <1>1, <1>2, <1>3, <1>4, <1>5, <1>6, <1>7

\* Declarations and statements.
LEMMA DeclsWritten ==
  ASSUME NEW e, e = <<>> \/ e \in Constructs(ExprOps)
  PROVE  /\ Bytes!VarDecl(e) \in Constructs(Stmts) /\ Bytes!LocalDecl(e) \in Constructs(Stmts)
         /\ Bytes!Return(e) \in Constructs(Stmts)
         /\ Bytes!FuncDecl \in Constructs(Stmts) /\ Bytes!ClassDecl \in Constructs(Stmts)
<1> DEFINE more == IF e = <<>> THEN <<>> ELSE <<Bytes!Child(e)>>
           fl == Bytes!Flag(e # <<>>)
           at == Bytes!Operand("attributes")
           id == Bytes!Operand("id")
<1>1. AbsentOr(e, ExprOps)
  BY DEF AbsentOr, Constructs
<1>2. Written(Bytes!Initializer(e), <<"init">>) /\ Written(<<fl, at>> \o more, <<"varinit">>)
  BY <1>1, InitializerWritten
<1>3. Bytes!VarDecl(e) \in Constructs(Stmts)
  <2>1. Bytes!VarDecl(e) = Bytes!Node("VAR", <<id, fl, at>> \o more)
    BY DEF Bytes!VarDecl
  <2>2. Written(<<id>>, <<"id">>)
    BY PiecesWritten
  <2>3. id \in Parts /\ fl \in Parts /\ at \in Parts /\ more \in Seq(Parts)
    <3>1. id \in Parts /\ at \in Parts
      <4>1. \A kind \in OperandKinds : Written(<<Bytes!Operand(kind)>>, <<kind>>)
        BY OperandWritten
      <4>2. Written(<<id>>, <<"id">>) /\ Written(<<at>>, <<"attributes">>)
        BY <4>1 DEF OperandKinds, PlainKinds
      <4>3. <<id>> \in Seq(Parts) /\ <<at>> \in Seq(Parts)
        BY <4>2 DEF Written
      <4> HIDE DEF id, at
      <4> QED
        BY <4>3
    <3>2. fl \in Parts
      <4>1. "init" \in Bytes!FlagItems
        BY DEF Bytes!FlagItems
      <4> QED
        BY <4>1, FlagParts
    <3>3. more \in Seq(Parts)
      <4>1. CASE e = <<>>
        BY <4>1, EmptyIs
      <4>2. CASE e # <<>>
        <5>1. Written(<<Bytes!Child(e)>>, <<"e">>)
          BY <4>2, PiecesWritten
        <5> QED
          BY <4>2, <5>1 DEF Written
      <4> QED
        BY <4>1, <4>2
    <3> QED
      BY <3>1, <3>2, <3>3
  <2> HIDE DEF more, fl, at, id
  <2>4. Written(<<id>> \o (<<fl, at>> \o more), <<"id">> \o <<"varinit">>)
    BY <1>2, <2>2, WrittenTogether
  <2>5. <<id>> \o (<<fl, at>> \o more) = <<id, fl, at>> \o more
    <3> DEFINE u == <<id>>
               v == <<fl, at>>
    <3>1. id \in Parts /\ fl \in Parts /\ at \in Parts /\ more \in Seq(Parts)
      BY <2>3
    <3>2. v \in Seq(Parts) /\ u \in Seq(Parts) /\ u \o v = <<id, fl, at>>
      <4>1. v \in Seq(Parts) /\ u \in Seq(Parts)
        BY <3>1
      <4> DEFINE x == <<id, fl, at>>
      <4>2. x \in Seq(Parts) /\ Len(x) = 3 /\ x[1] = id /\ x[2] = fl /\ x[3] = at
        BY <3>1
      <4>3. u \o v \in Seq(Parts) /\ Len(u \o v) = 3
        BY <4>1
      <4>4. (u \o v)[1] = id /\ (u \o v)[2] = fl /\ (u \o v)[3] = at
        BY <4>1
      <4> DEFINE y == u \o v
      <4> HIDE DEF x, y
      <4>5. y = x
        BY <4>2, <4>3, <4>4, SameSequences DEF y
      <4> QED
        BY <4>1, <4>5 DEF x, y
    <3> HIDE DEF u, v
    <3>3. u \in Seq(Parts) /\ v \in Seq(Parts) /\ more \in Seq(Parts)
      BY <3>1, <3>2
    <3>4. AssociativeOn(Parts)
      BY Associative, Zenon
    <3>5. (u \o v) \o more = u \o (v \o more)
      BY <3>3, <3>4, Zenon DEF AssociativeOn
    <3> QED
      BY <3>2, <3>5 DEF u, v
  <2>6. <<"id">> \o <<"varinit">> = <<"id", "varinit">>
    BY ShortSequences
  <2>7. Written(<<id, fl, at>> \o more, <<"id", "varinit">>)
    BY <2>4, <2>5, <2>6
  <2>8. Bytes!Node("VAR", <<id, fl, at>> \o more) \in Constructs(Stmts)
    BY <2>7, ContentsListed, OpsListed, DeclNode
  <2> QED
    BY <2>1, <2>8
<1>4. Bytes!LocalDecl(e) \in Constructs(Stmts)
  <2>1. Written(<<Bytes!Operand("slot")>>, <<"slot">>)
    BY PiecesWritten
  <2>2. Written(<<Bytes!Operand("slot")>> \o Bytes!Initializer(e), <<"slot">> \o <<"init">>)
    BY <1>2, <2>1, WrittenTogether
  <2>3. <<"slot">> \o <<"init">> = <<"slot", "init">>
    BY ShortSequences
  <2>4. Bytes!Node("LOCAL_DECL", <<Bytes!Operand("slot")>> \o Bytes!Initializer(e)) \in Constructs(Stmts)
    BY <2>2, <2>3, ContentsListed, OpsListed, DeclNode
  <2> QED
    BY <2>4 DEF Bytes!LocalDecl
<1>5. Bytes!Return(e) \in Constructs(Stmts)
  <2>1. Bytes!Node("RETURN", Bytes!Initializer(e)) \in Constructs(Stmts)
    BY <1>2, ContentsListed, OpsListed, DeclNode
  <2> QED
    BY <2>1 DEF Bytes!Return
<1>6. Bytes!FuncDecl \in Constructs(Stmts) /\ Bytes!ClassDecl \in Constructs(Stmts)
  <2>1. /\ Bytes!Node("FUNC", <<Bytes!Operand("function")>>) \in Constructs(Stmts)
        /\ Bytes!Node("CLASS_DEF", <<Bytes!Operand("class")>>) \in Constructs(Stmts)
    BY PiecesWritten, ContentsListed, OpsListed, DeclNode
  <2> QED
    BY <2>1 DEF Bytes!FuncDecl, Bytes!ClassDecl
<1> QED
  BY <1>3, <1>4, <1>5, <1>6

LEMMA SecuresWritten ==
  ASSUME NEW binding \in BOOLEAN, NEW type \in BOOLEAN, NEW guard \in Constructs(ExprOps),
         NEW catch \in Seq(Constructs(Stmts))
  PROVE  /\ Bytes!SecureDecl(binding, type, guard, catch) \in Constructs(Stmts)
         /\ Bytes!SecureLocalDecl(binding, type, guard, catch) \in Constructs(Stmts)
<1> DEFINE g == Bytes!Child(guard)
           k == Bytes!Child(Bytes!Block(catch))
<1>1. Written(<<g>>, <<"e">>) /\ Written(<<k>>, <<"block">>)
  BY BlockConstruct, PiecesWritten, ChildWritten
<1> HIDE DEF g, k
<1>2. Written(<<g, k>>, <<"e", "block">>)
  BY <1>1, WrittenFew
<1>3. \A a, b, d, f, h : /\ <<a, b, d>> \o <<f, h>> = <<a, b, d, f, h>>
  <2> TAKE a, b, d, f, h
  <2> DEFINE S == {a, b, d, f, h}
             u == <<a, b, d>> \o <<f, h>>
             v == <<a, b, d, f, h>>
  <2>1. u \in Seq(S) /\ v \in Seq(S) /\ Len(u) = 5 /\ Len(v) = 5
    OBVIOUS
  <2>2. u[1] = a /\ u[2] = b /\ u[3] = d /\ u[4] = f /\ u[5] = h
    OBVIOUS
  <2>3. v[1] = a /\ v[2] = b /\ v[3] = d /\ v[4] = f /\ v[5] = h
    OBVIOUS
  <2> HIDE DEF u, v, S
  <2>4. \A i \in 1..Len(u) : u[i] = v[i]
    BY <2>1, <2>2, <2>3
  <2>5. u = v
    BY <2>1, <2>4, SameSequences
  <2> QED
    BY <2>5 DEF u, v
<1>4. ASSUME NEW first, NEW i, Written(<<first>>, <<i>>), NEW p, NEW a, Written(p, <<a>>)
      PROVE  Written(<<first>> \o p \o Bytes!Optional(type, "id") \o <<g, k>>, <<i, a, "optid", "e", "block">>)
  <2>1. Written(<<first>> \o p, <<i>> \o <<a>>)
    BY <1>4, WrittenTogether
  <2>2. Written(Bytes!Optional(type, "id"), <<"optid">>)
    BY OptionalWritten
  <2>3. Written(<<first>> \o p \o Bytes!Optional(type, "id"), (<<i>> \o <<a>>) \o <<"optid">>)
    BY <2>1, <2>2, WrittenTogether
  <2>4. Written(<<first>> \o p \o Bytes!Optional(type, "id") \o <<g, k>>,
                ((<<i>> \o <<a>>) \o <<"optid">>) \o <<"e", "block">>)
    BY <1>2, <2>3, WrittenTogether
  <2>5. <<i>> \o <<a>> = <<i, a>> /\ <<i, a>> \o <<"optid">> = <<i, a, "optid">>
    BY ShortSequences
  <2>6. <<i, a, "optid">> \o <<"e", "block">> = <<i, a, "optid", "e", "block">>
    BY <1>3
  <2>7. ((<<i>> \o <<a>>) \o <<"optid">>) \o <<"e", "block">> = <<i, a, "optid", "e", "block">>
    BY <2>5, <2>6
  <2> QED
    BY <2>4, <2>7
<1>5. /\ Written(Bytes!Optional(binding, "id"), <<"optid">>)
      /\ Written(Bytes!Optional(binding, "slot"), <<"optslot">>)
  BY OptionalWritten
<1>6. Bytes!SecureDecl(binding, type, guard, catch) \in Constructs(Stmts)
  <2> DEFINE ps == <<Bytes!Operand("id")>> \o Bytes!Optional(binding, "id")
                   \o Bytes!Optional(type, "id") \o <<g, k>>
  <2>1. Written(<<Bytes!Operand("id")>>, <<"id">>)
    BY PiecesWritten
  <2>2. Written(ps, <<"id", "optid", "optid", "e", "block">>)
    BY <1>4, <1>5, <2>1
  <2>3. Bytes!SecureDecl(binding, type, guard, catch) = Bytes!Node("SECURE_DECL", ps)
    BY DEF Bytes!SecureDecl, g, k
  <2> HIDE DEF ps
  <2>4. Bytes!Node("SECURE_DECL", ps) \in Constructs(Stmts)
    BY <2>2, ContentsListed, OpsListed, DeclNode
  <2> QED
    BY <2>3, <2>4
<1>7. Bytes!SecureLocalDecl(binding, type, guard, catch) \in Constructs(Stmts)
  <2> DEFINE ps == <<Bytes!Operand("slot")>> \o Bytes!Optional(binding, "slot")
                   \o Bytes!Optional(type, "id") \o <<g, k>>
  <2>1. Written(<<Bytes!Operand("slot")>>, <<"slot">>)
    BY PiecesWritten
  <2>2. Written(ps, <<"slot", "optslot", "optid", "e", "block">>)
    BY <1>4, <1>5, <2>1
  <2>3. Bytes!SecureLocalDecl(binding, type, guard, catch) = Bytes!Node("SECURE_LOCAL_DECL", ps)
    BY DEF Bytes!SecureLocalDecl, g, k
  <2> HIDE DEF ps
  <2>4. Bytes!Node("SECURE_LOCAL_DECL", ps) \in Constructs(Stmts)
    BY <2>2, ContentsListed, OpsListed, DeclNode
  <2> QED
    BY <2>3, <2>4
<1> QED
  BY <1>6, <1>7

LEMMA ConditionalsWritten ==
  /\ \A specs \in Seq(SpecsOf(Constructs(ExprOps), Constructs(Stmts))) :
       \A other \in Seq(Constructs(Stmts)) : Bytes!Conditional(specs, other) \in Constructs(Stmts)
  /\ \A cond \in Constructs(ExprOps) :
       \A body \in Seq(Constructs(Stmts)) : Bytes!Loop(cond, body) \in Constructs(Stmts)
<1>1. \A u : Construct(u, {"CONDITIONAL"}) => u \in Constructs(Stmts)
  <2>1. "CONDITIONAL" \in Stmts
    BY DEF Stmts, DeclOps
  <2> QED
    BY <2>1 DEF Constructs, Construct, Aligned
<1> QED
  BY <1>1, ConditionalConstruct, LoopConstruct
-----------------------------------------------------------------------------
(* Programs that CodeGen writes: the least sets of expressions and of      *)
(* statements that the operators of Emission lead to, whatever the parts.  *)
ExprsClosed(E) ==
  /\ {Bytes!Literal, Bytes!RegexLiteral, Bytes!VarRef, Bytes!LocalRef, Bytes!TypedLocalRef,
      Bytes!FuncRef} \subseteq E
  /\ \A a \in E :
       {Bytes!Cast(a), Bytes!TypeCheck(a), Bytes!MemberGet(a), Bytes!MemberGetFieldSlot(a),
        Bytes!Unary(a), Bytes!TypedNegate(a), Bytes!TypedIntrinsic(a), Bytes!VarSet(a),
        Bytes!LocalSet(a)} \subseteq E
  /\ \A a, b \in E :
       {Bytes!IndexGet(a, b), Bytes!TypedIndexGet(a, b), Bytes!TypedBinary(a, b),
        Bytes!TypedCompare(a, b), Bytes!MemberSet(a, b), Bytes!MemberSetFieldSlot(a, b)} \subseteq E
  /\ \A o \in Operators : \A a, b \in E : Bytes!Binary(o, a, b) \in E
  /\ \A a, b, d \in E :
       {Bytes!Ternary(a, b, d), Bytes!IndexSet(a, b, d), Bytes!TypedIndexSet(a, b, d)} \subseteq E
  /\ \A us \in Seq(E) :
       /\ {Bytes!ArrayLiteral(us), Bytes!NewObj(us), Bytes!CallDirect(us)} \subseteq E
       /\ Len(us) % 2 = 0 => Bytes!DictLiteral(us) \in E
       /\ \A a \in E : {Bytes!CallBuiltinMember(a, us), Bytes!MemberIvk(a, us),
                        Bytes!IvkFunc(a, us)} \subseteq E

StmtsClosed(E, S) ==
  /\ E \subseteq S /\ {Bytes!FuncDecl, Bytes!ClassDecl} \subseteq S
  /\ \A e \in E \cup {<<>>} : {Bytes!VarDecl(e), Bytes!LocalDecl(e), Bytes!Return(e)} \subseteq S
  /\ \A binding, type \in BOOLEAN : \A guard \in E : \A catch \in Seq(S) :
       {Bytes!SecureDecl(binding, type, guard, catch),
        Bytes!SecureLocalDecl(binding, type, guard, catch)} \subseteq S
  /\ \A specs \in Seq(SpecsOf(E, S)) : \A other \in Seq(S) : Bytes!Conditional(specs, other) \in S
  /\ \A cond \in E : \A body \in Seq(S) : Bytes!Loop(cond, body) \in S

\* A function body: the statements that were written, one after the other.
Emitted(c) ==
  \A E, S : ExprsClosed(E) /\ StmtsClosed(E, S) => \E stmts \in Seq(S) : c = Bytes!FlattenSeq(stmts)

LEMMA ConstructsClosed ==
  ExprsClosed(Constructs(ExprOps)) /\ StmtsClosed(Constructs(ExprOps), Constructs(Stmts))
<1> DEFINE E == Constructs(ExprOps)
           S == Constructs(Stmts)
<1>1. E \subseteq S
  BY DEF Constructs, Construct, Stmts
<1>2. ExprsClosed(E)
  <2>1. {Bytes!Literal, Bytes!RegexLiteral, Bytes!VarRef, Bytes!LocalRef, Bytes!TypedLocalRef,
         Bytes!FuncRef} \subseteq E
    BY LeavesWritten
  <2>2. \A a \in E :
          {Bytes!Cast(a), Bytes!TypeCheck(a), Bytes!MemberGet(a), Bytes!MemberGetFieldSlot(a),
           Bytes!Unary(a), Bytes!TypedNegate(a), Bytes!TypedIntrinsic(a), Bytes!VarSet(a),
           Bytes!LocalSet(a)} \subseteq E
    BY UnariesWritten
  <2>3. \A a, b \in E :
          {Bytes!IndexGet(a, b), Bytes!TypedIndexGet(a, b), Bytes!TypedBinary(a, b),
           Bytes!TypedCompare(a, b), Bytes!MemberSet(a, b), Bytes!MemberSetFieldSlot(a, b)} \subseteq E
    BY BinariesWritten
  <2>4. \A o \in Operators : \A a, b \in E : Bytes!Binary(o, a, b) \in E
    BY BinariesWritten
  <2>5. \A a, b, d \in E :
          {Bytes!Ternary(a, b, d), Bytes!IndexSet(a, b, d), Bytes!TypedIndexSet(a, b, d)} \subseteq E
    BY TernariesWritten
  <2>6. ASSUME NEW us \in Seq(E)
        PROVE  /\ {Bytes!ArrayLiteral(us), Bytes!NewObj(us), Bytes!CallDirect(us)} \subseteq E
               /\ Len(us) % 2 = 0 => Bytes!DictLiteral(us) \in E
               /\ \A a \in E : {Bytes!CallBuiltinMember(a, us), Bytes!MemberIvk(a, us),
                                Bytes!IvkFunc(a, us)} \subseteq E
    BY InvocationsWritten
  <2> HIDE DEF E
  <2> QED
    BY <2>1, <2>2, <2>3, <2>4, <2>5, <2>6, Zenon DEF ExprsClosed
<1>3. StmtsClosed(E, S)
  <2>1. {Bytes!FuncDecl, Bytes!ClassDecl} \subseteq S
    BY DeclsWritten
  <2>2. \A e \in E \cup {<<>>} : {Bytes!VarDecl(e), Bytes!LocalDecl(e), Bytes!Return(e)} \subseteq S
    <3> TAKE e \in E \cup {<<>>}
    <3>1. e = <<>> \/ e \in Constructs(ExprOps)
      OBVIOUS
    <3> QED
      BY <3>1, DeclsWritten
  <2>3. \A binding, type \in BOOLEAN : \A guard \in E : \A catch \in Seq(S) :
          {Bytes!SecureDecl(binding, type, guard, catch),
           Bytes!SecureLocalDecl(binding, type, guard, catch)} \subseteq S
    BY SecuresWritten
  <2>4. /\ \A specs \in Seq(SpecsOf(E, S)) : \A other \in Seq(S) : Bytes!Conditional(specs, other) \in S
        /\ \A cond \in E : \A body \in Seq(S) : Bytes!Loop(cond, body) \in S
    BY ConditionalsWritten
  <2> HIDE DEF E, S
  <2> QED
    BY <1>1, <2>1, <2>2, <2>3, <2>4, Zenon DEF StmtsClosed
<1> QED
  BY <1>2, <1>3

LEMMA StatementsInTurn ==
  ASSUME NEW us \in Seq(Constructs(Stmts))
  PROVE  Part(Bytes!FlattenSeq(us), <<"stmts">>, <<"stmts">>)
<1> DEFINE n == Len(us)
           T == [i \in 0..n |-> <<"stmts">>]
           ps == Bytes!Children(us)
<1>1. n \in Nat /\ us \in Seq(Seq(Tokens)) /\ \A i \in 1..n : Part(us[i], <<"stmts">>, <<"stmts">>)
  BY ConstructsAre, ConstructParts
<1> HIDE DEF n
<1>2. T \in [0..n -> Seq(Bytes!SkipItems)]
  BY DEF Bytes!SkipItems
<1>3. \A i \in 1..n : Part(us[i], T[i - 1], T[i])
  <2>1. \A i \in 1..n : T[i - 1] = <<"stmts">> /\ T[i] = <<"stmts">>
    BY <1>1
  <2> QED
    BY <1>1, <2>1
<1>4. T[0] = <<"stmts">> /\ T[n] = <<"stmts">>
  BY <1>1
<1> HIDE DEF T
<1>5. Bytes!Children(us) \in Seq(Parts) /\ Part(Bytes!TokensOf(Bytes!Children(us)), T[0], T[n])
  BY <1>1, <1>2, <1>3, ChildrenInTurn DEF n
<1>6. Bytes!TokensOf(ps) = Bytes!FlattenSeq(us)
  <2>1. Bytes!TokensOf(ps) = Bytes!FlattenSeq([i \in DOMAIN ps |-> ps[i].tokens])
    BY DEF Bytes!TokensOf
  <2>2. DOMAIN ps = DOMAIN us /\ \A i \in DOMAIN us : ps[i].tokens = us[i]
    BY DEF Bytes!Children, Bytes!Child
  <2>3. us = [i \in DOMAIN us |-> us[i]]
    <3> DEFINE V == Constructs(Stmts)
    <3> HIDE DEF V
    <3>1. us \in Seq(V)
      BY DEF V
    <3> QED
      BY <3>1
  <2> HIDE DEF ps
  <2>4. [i \in DOMAIN ps |-> ps[i].tokens] = us
    BY <2>2, <2>3
  <2> QED
    BY <2>1, <2>4
<1> QED
  BY <1>4, <1>5, <1>6

LEMMA EmittedIsAligned ==
  ASSUME NEW c, Emitted(c)
  PROVE  Aligned(c) /\ Through(c, <<"stmts">>, <<"stmts">>)
<1>1. PICK us \in Seq(Constructs(Stmts)) : c = Bytes!FlattenSeq(us)
  BY ConstructsClosed, Zenon DEF Emitted
<1> QED
  BY <1>1, StatementsInTurn DEF Part

LEMMA SkippedAsEmitted ==
  ASSUME NEW c, Emitted(c), NEW p \in DOMAIN c, c[p].t = "op"
  PROVE  Bytes!SkipTo(c, IF Bytes!OpensBlock(c[p]) THEN <<"stmts">> ELSE Bytes!SkippedStmt(c[p].op), p + 1)
           = Bytes!EndAt(c, p)
<1>1. Aligned(c) /\ IsNode(c, p)
  BY EmittedIsAligned DEF IsNode
<1>2. (IF Bytes!OpensBlock(c[p]) THEN <<"stmts">> ELSE Bytes!SkippedStmt(c[p].op)) = Contents(c[p].op)
  BY DEF Bytes!OpensBlock, Contents
<1> QED
  BY <1>1, <1>2, SkippingFollows

(* For every program CodeGen writes: from every construct of it, skipExpr  *)
(* and skipRuntimeStmt, which know only layouts, end exactly where its     *)
(* code ends.                                                              *)
THEOREM SkippingFollowsCodeGen ==
  ASSUME \A c \in Programs : Emitted(c)
  PROVE  EvaluatorSpec => []SkippingFollowsEmission
<1> DEFINE Inv == side = "bytes" => code \in Programs
<1>1. EvaluatorInit => Inv
  BY DEF EvaluatorInit, Bytes!Init
<1>2. Inv /\ [EvaluatorNext]_<<side, ofSites, ofBytes>> => Inv'
  <2> SUFFICES ASSUME Inv, [EvaluatorNext]_<<side, ofSites, ofBytes>> PROVE Inv'
    OBVIOUS
  <2>1. ASSUME Bytes!Next PROVE code' = code
    BY <2>1 DEF Bytes!Next, Bytes!ReadOperand, Bytes!EvalExpr, Bytes!PassExpr, Bytes!Misread,
       Bytes!ExprDone, Bytes!NextStmt, Bytes!StmtDone, Bytes!SetReturn, Bytes!PassStmt,
       Bytes!EndBlock, Bytes!EndBody, Bytes!AssertFails, Bytes!EnterBlock, Bytes!PassBlock,
       Bytes!NoBlock, Bytes!EndIteration, Bytes!Terminated, Bytes!Leave, Bytes!Enter, Bytes!Stop,
       Bytes!Skip, Bytes!vars
  <2> QED
    BY <2>1 DEF EvaluatorNext, OnSites, OnBytes, ofBytes
<1>3. Inv => SkippingFollowsEmission
  BY SkippedAsEmitted DEF SkippingFollowsEmission, Bytes!SkippingFollowsEmission
<1> QED
  BY <1>1, <1>2, <1>3, PTL DEF EvaluatorSpec

-----------------------------------------------------------------------------
(* What a frame of the evaluator has still to read, in the words of the    *)
(* skipping functions.                                                     *)
PlainOf(item) ==
  IF item \in Bytes!ExprItems THEN "e" ELSE IF item \in Bytes!BlockItems THEN "block" ELSE item
AsSkipped(todo) == [i \in DOMAIN todo |-> PlainOf(todo[i])]

ReadItems == Bytes!SkipItems \cup Bytes!ExprItems \cup (Bytes!BlockItems \ {"loop"})

LEMMA PlainIs ==
  /\ \A item \in ReadItems : PlainOf(item) \in Bytes!SkipItems
  /\ \A item \in Bytes!SkipItems : PlainOf(item) = item
  /\ \A item \in Bytes!Operands : PlainOf(item) = item
  /\ Bytes!SkipItems \subseteq ReadItems
BY DEF PlainOf, ReadItems, Bytes!SkipItems, Bytes!ExprItems, Bytes!BlockItems, Bytes!Operands,
   Bytes!FlagItems, Bytes!CountItems

LEMMA AsSkippedIs ==
  ASSUME NEW s \in Seq(ReadItems)
  PROVE  /\ AsSkipped(s) \in Seq(Bytes!SkipItems) /\ Len(AsSkipped(s)) = Len(s)
         /\ \A i \in 1..Len(s) : AsSkipped(s)[i] = PlainOf(s[i])
<1>1. Len(s) \in Nat /\ \A i \in 1..Len(s) : s[i] \in ReadItems
  OBVIOUS
<1>2. AsSkipped(s) = [i \in 1..Len(s) |-> PlainOf(s[i])]
  BY DEF AsSkipped
<1>3. \A i \in 1..Len(s) : PlainOf(s[i]) \in Bytes!SkipItems
  BY <1>1, PlainIs
<1> QED
  BY <1>1, <1>2, <1>3

LEMMA AsSkippedHere ==
  ASSUME NEW s \in Seq(ReadItems), s # <<>>
  PROVE  /\ AsSkipped(s) # <<>> /\ Head(AsSkipped(s)) = PlainOf(Head(s))
         /\ Tail(s) \in Seq(ReadItems) /\ Head(s) \in ReadItems
         /\ Tail(AsSkipped(s)) = AsSkipped(Tail(s))
<1> DEFINE a == AsSkipped(s)
           b == AsSkipped(Tail(s))
<1>1. /\ Len(s) \in Nat /\ Len(s) > 0 /\ Tail(s) \in Seq(ReadItems) /\ Head(s) \in ReadItems
      /\ Len(Tail(s)) = Len(s) - 1 /\ Head(s) = s[1]
  OBVIOUS
<1>2. a \in Seq(Bytes!SkipItems) /\ Len(a) = Len(s) /\ \A i \in 1..Len(s) : a[i] = PlainOf(s[i])
  BY AsSkippedIs
<1>3. /\ b \in Seq(Bytes!SkipItems) /\ Len(b) = Len(Tail(s))
      /\ \A i \in 1..Len(Tail(s)) : b[i] = PlainOf(Tail(s)[i])
  BY <1>1, AsSkippedIs
<1>4. \A i \in 1..(Len(s) - 1) : Tail(s)[i] = s[i + 1]
  OBVIOUS
<1> HIDE DEF a, b
<1>5. a # <<>> /\ Head(a) = PlainOf(Head(s))
  BY <1>1, <1>2
<1>6. Tail(a) \in Seq(Bytes!SkipItems) /\ Len(Tail(a)) = Len(s) - 1
      /\ \A i \in 1..(Len(s) - 1) : Tail(a)[i] = a[i + 1]
  BY <1>1, <1>2
<1>7. \A i \in 1..(Len(s) - 1) : Tail(a)[i] = b[i]
  BY <1>1, <1>2, <1>3, <1>4, <1>6
<1> DEFINE v == Tail(a)
<1> HIDE DEF v
<1>8. v = b
  <2>1. v \in Seq(Bytes!SkipItems) /\ b \in Seq(Bytes!SkipItems) /\ Len(v) = Len(b)
    BY <1>1, <1>3, <1>6 DEF v
  <2>2. \A i \in 1..Len(v) : v[i] = b[i]
    BY <1>6, <1>7 DEF v
  <2> QED
    BY <2>1, <2>2, SameSequences
<1> QED
  BY <1>1, <1>5, <1>8 DEF a, b, v

LEMMA AsSkippedTogether ==
  ASSUME NEW s \in Seq(ReadItems), NEW t \in Seq(ReadItems)
  PROVE  s \o t \in Seq(ReadItems) /\ AsSkipped(s \o t) = AsSkipped(s) \o AsSkipped(t)
<1> DEFINE a == AsSkipped(s)
           b == AsSkipped(t)
           u == s \o t
           d == AsSkipped(u)
           e == a \o b
           I == Bytes!SkipItems
<1>1. u \in Seq(ReadItems) /\ Len(u) = Len(s) + Len(t) /\ Len(s) \in Nat /\ Len(t) \in Nat
  OBVIOUS
<1>2. /\ a \in Seq(I) /\ b \in Seq(I) /\ Len(a) = Len(s) /\ Len(b) = Len(t)
      /\ \A i \in 1..Len(s) : a[i] = PlainOf(s[i])
      /\ \A i \in 1..Len(t) : b[i] = PlainOf(t[i])
  BY AsSkippedIs
<1>3. d \in Seq(I) /\ Len(d) = Len(u) /\ \A i \in 1..Len(u) : d[i] = PlainOf(u[i])
  BY <1>1, AsSkippedIs
<1>4. /\ \A i \in 1..Len(s) : u[i] = s[i]
      /\ \A i \in 1..Len(t) : u[i + Len(s)] = t[i]
  BY ConcatenationIs
<1>5. /\ e \in Seq(I) /\ Len(e) = Len(a) + Len(b)
      /\ \A i \in 1..Len(a) : e[i] = a[i]
      /\ \A i \in 1..Len(b) : e[i + Len(a)] = b[i]
  <2>1. a \in Seq(I) /\ b \in Seq(I)
    BY <1>2
  <2> HIDE DEF a, b, I
  <2> QED
    BY <2>1, ConcatenationIs
<1> HIDE DEF a, b, u, d, e, I
<1>6. \A i \in 1..Len(d) : d[i] = e[i]
  <2> TAKE i \in 1..Len(d)
  <2>1. CASE i \in 1..Len(s)
    BY <1>1, <1>2, <1>3, <1>4, <1>5, <2>1
  <2>2. CASE i \notin 1..Len(s)
    <3> DEFINE k == i - Len(s)
    <3>1. k \in 1..Len(t) /\ i = k + Len(s) /\ i \in 1..Len(u)
      BY <1>1, <1>3, <2>2
    <3> HIDE DEF k
    <3>2. d[i] = PlainOf(u[i]) /\ u[i] = t[k]
      BY <1>3, <1>4, <3>1
    <3>3. e[i] = b[k] /\ b[k] = PlainOf(t[k])
      BY <1>2, <1>5, <3>1
    <3> QED
      BY <3>2, <3>3
  <2> QED
    BY <2>1, <2>2
<1>7. d = e
  BY <1>1, <1>2, <1>3, <1>5, <1>6, SameSequences
<1> QED
  BY <1>1, <1>7 DEF a, b, d, e, u

LEMMA AsSkippedAgain ==
  ASSUME NEW s \in Seq(Bytes!SkipItems)
  PROVE  s \in Seq(ReadItems) /\ AsSkipped(s) = s
<1>1. Len(s) \in Nat /\ \A i \in 1..Len(s) : s[i] \in Bytes!SkipItems
  OBVIOUS
<1>2. s \in Seq(ReadItems)
  <2>1. \A i \in 1..Len(s) : s[i] \in ReadItems
    BY <1>1, PlainIs
  <2>2. s = [i \in 1..Len(s) |-> s[i]]
    OBVIOUS
  <2> QED
    BY <1>1, <2>1, <2>2
<1> DEFINE a == AsSkipped(s)
<1>3. a \in Seq(Bytes!SkipItems) /\ Len(a) = Len(s) /\ \A i \in 1..Len(s) : a[i] = PlainOf(s[i])
  BY <1>2, AsSkippedIs
<1> HIDE DEF a
<1>4. a = s
  <2>1. \A i \in 1..Len(s) : a[i] = s[i]
    BY <1>1, <1>3, PlainIs
  <2> QED
    BY <1>3, <2>1, SameSequences
<1> QED
  BY <1>2, <1>4 DEF a

LEMMA AsSkippedFew ==
  /\ AsSkipped(<<>>) = <<>>
  /\ \A a \in ReadItems : AsSkipped(<<a>>) = <<PlainOf(a)>>
  /\ \A a, b \in ReadItems : AsSkipped(<<a, b>>) = <<PlainOf(a), PlainOf(b)>>
  /\ \A a, b, d, f, g \in ReadItems : AsSkipped(<<a, b, d, f, g>>)
       = <<PlainOf(a), PlainOf(b), PlainOf(d), PlainOf(f), PlainOf(g)>>
<1>1. AsSkipped(<<>>) = <<>>
  BY DEF AsSkipped
<1>2. ASSUME NEW a \in ReadItems PROVE AsSkipped(<<a>>) = <<PlainOf(a)>>
  BY DEF AsSkipped
<1>3. ASSUME NEW a \in ReadItems, NEW b \in ReadItems
      PROVE  AsSkipped(<<a, b>>) = <<PlainOf(a), PlainOf(b)>>
  BY DEF AsSkipped
<1>4. ASSUME NEW a \in ReadItems, NEW b \in ReadItems, NEW d \in ReadItems, NEW f \in ReadItems,
             NEW g \in ReadItems
      PROVE  AsSkipped(<<a, b, d, f, g>>)
               = <<PlainOf(a), PlainOf(b), PlainOf(d), PlainOf(f), PlainOf(g)>>
  BY DEF AsSkipped
<1> QED
  BY <1>1, <1>2, <1>3, <1>4

LEMMA AsSkippedRepeat ==
  ASSUME NEW a \in ReadItems, NEW n \in Nat
  PROVE  /\ Bytes!Repeat(a, n) \in Seq(ReadItems)
         /\ AsSkipped(Bytes!Repeat(a, n)) = Bytes!Repeat(PlainOf(a), n)
<1>1. Bytes!Repeat(a, n) \in Seq(ReadItems)
  BY RepeatIs
<1>2. AsSkipped(Bytes!Repeat(a, n)) = Bytes!Repeat(PlainOf(a), n)
  BY DEF AsSkipped, Bytes!Repeat
<1> QED
  BY <1>1, <1>2

\* What an operand announces is executed as it is skipped, item by item.
LEMMA ExecutedIs ==
  ASSUME NEW item \in Bytes!Operands, NEW tok \in Tokens, tok.t = Bytes!Wanted(item),
         item = "spec" => tok.v \in {"IF", "ELSE"}
  PROVE  /\ Bytes!Executed(item, tok) \in Seq(ReadItems)
         /\ AsSkipped(Bytes!Executed(item, tok)) = Bytes!Skipped(item, tok)
<1>0. /\ tok.t = "flag" => tok.v \in BOOLEAN
      /\ tok.t = "count" => tok.n \in Nat
  BY TokenIs
<1>1. /\ {"e", "arg", "spec", "id", "slot", "attributes", "cond", "branch", "else"} \subseteq ReadItems
      /\ {"e", "spec", "id", "slot", "attributes"} \subseteq Bytes!SkipItems
  BY DEF ReadItems, Bytes!SkipItems, Bytes!ExprItems, Bytes!BlockItems
<1>2. PlainOf("e") = "e" /\ PlainOf("arg") = "e" /\ PlainOf("spec") = "spec" /\ PlainOf("cond") = "e"
      /\ PlainOf("branch") = "block" /\ PlainOf("else") = "block"
  BY DEF PlainOf, Bytes!ExprItems, Bytes!BlockItems
<1>3. item \in Bytes!SkipItems
  BY DEF Bytes!SkipItems, Bytes!Operands, Bytes!FlagItems, Bytes!CountItems
<1>4. CASE item \in Bytes!FlagItems
  <2>1. Bytes!Executed(item, tok) = Bytes!Announced(item, tok.v)
    BY <1>4 DEF Bytes!Executed, Bytes!FlagItems
  <2>2. Bytes!Skipped(item, tok) = Bytes!Announced(item, tok.v)
    BY <1>4 DEF Bytes!Skipped, Bytes!FlagItems
  <2>3. Bytes!Skipped(item, tok) \in Seq(Bytes!SkipItems)
    BY <1>3, SkippedIs
  <2> QED
    BY <2>1, <2>2, <2>3, AsSkippedAgain
<1>5. CASE item \in Bytes!CountItems
  <2>1. tok.n \in Nat /\ 2 * tok.n \in Nat
    <3>1. Bytes!Wanted(item) = "count"
      BY <1>5 DEF Bytes!Wanted, Bytes!CountItems, Bytes!FlagItems, Bytes!ExprItems
    <3> QED
      BY <1>0, <3>1
  <2>2. CASE item = "args"
    <3>1. Bytes!Executed(item, tok) = Bytes!Repeat("arg", tok.n)
      BY <2>2 DEF Bytes!Executed, Bytes!FlagItems
    <3>2. Bytes!Skipped(item, tok) = Bytes!Repeat("e", tok.n)
      BY <2>2 DEF Bytes!Skipped, Bytes!FlagItems
    <3> QED
      BY <1>1, <1>2, <2>1, <3>1, <3>2, AsSkippedRepeat
  <2>3. CASE item = "pairs"
    <3>1. Bytes!Executed(item, tok) = Bytes!Repeat("e", 2 * tok.n)
      BY <2>3 DEF Bytes!Executed, Bytes!FlagItems
    <3>2. Bytes!Skipped(item, tok) = Bytes!Repeat("e", 2 * tok.n)
      BY <2>3 DEF Bytes!Skipped, Bytes!FlagItems
    <3> QED
      BY <1>1, <1>2, <2>1, <3>1, <3>2, AsSkippedRepeat
  <2>4. CASE item = "specs"
    <3>1. Bytes!Executed(item, tok) = Bytes!Repeat("spec", tok.n)
      BY <2>4 DEF Bytes!Executed, Bytes!FlagItems
    <3>2. Bytes!Skipped(item, tok) = Bytes!Repeat("spec", tok.n)
      BY <2>4 DEF Bytes!Skipped, Bytes!FlagItems
    <3> QED
      BY <1>1, <1>2, <2>1, <3>1, <3>2, AsSkippedRepeat
  <2> QED
    BY <1>5, <2>2, <2>3, <2>4 DEF Bytes!CountItems
<1>6. CASE item = "spec"
  <2>1. Bytes!Executed(item, tok) = Bytes!SpecItems(tok.v)
    BY <1>6 DEF Bytes!Executed, Bytes!FlagItems
  <2>2. Bytes!Skipped(item, tok) = Bytes!SkipSpec(tok.v)
    BY <1>6 DEF Bytes!Skipped, Bytes!FlagItems
  <2>3. CASE tok.v = "IF"
    <3>1. Bytes!SpecItems(tok.v) = <<"cond", "branch">> /\ Bytes!SkipSpec(tok.v) = <<"e", "block">>
      BY <2>3 DEF Bytes!SpecItems, Bytes!SkipSpec
    <3>2. <<"cond", "branch">> \in Seq(ReadItems)
      BY <1>1, SomeItems
    <3> QED
      BY <1>1, <1>2, <2>1, <2>2, <3>1, <3>2, AsSkippedFew
  <2>4. CASE tok.v = "ELSE"
    <3>1. Bytes!SpecItems(tok.v) = <<"else">> /\ Bytes!SkipSpec(tok.v) = <<"block">>
      BY <2>4 DEF Bytes!SpecItems, Bytes!SkipSpec
    <3>2. <<"else">> \in Seq(ReadItems)
      BY <1>1, SomeItems
    <3> QED
      BY <1>1, <1>2, <2>1, <2>2, <3>1, <3>2, AsSkippedFew
  <2> QED
    BY <1>6, <2>3, <2>4
<1>7. CASE item \notin Bytes!FlagItems \cup Bytes!CountItems \cup {"spec"}
  <2>1. Bytes!Executed(item, tok) = <<>>
    BY <1>7 DEF Bytes!Executed, Bytes!FlagItems, Bytes!CountItems
  <2>2. Bytes!Skipped(item, tok) = <<>>
    BY <1>7 DEF Bytes!Skipped, Bytes!FlagItems, Bytes!CountItems, Bytes!Operands
  <2>3. <<>> \in Seq(ReadItems)
    BY SomeItems
  <2> QED
    BY <2>1, <2>2, <2>3, AsSkippedFew
<1> QED
  BY <1>4, <1>5, <1>6, <1>7

\* Statements are executed as they are skipped, and expressions evaluated.
LEMMA ExecLayoutsAre ==
  /\ DOMAIN Bytes!ExecLayouts = DeclOps
  /\ \A op \in DeclOps : /\ Bytes!ExecLayouts[op] \in Seq(ReadItems)
                         /\ AsSkipped(Bytes!ExecLayouts[op]) = Contents(op)
<1>1. ASSUME NEW op \in DeclOps \ {"SECURE_DECL", "SECURE_LOCAL_DECL"}
      PROVE  Bytes!ExecLayouts[op] \in Seq(ReadItems) /\ AsSkipped(Bytes!ExecLayouts[op]) = Contents(op)
  <2>1. Bytes!ExecLayouts[op] = Bytes!SkipStmtLayouts[op]
    BY DEF Bytes!ExecLayouts, Bytes!SkipStmtLayouts, DeclOps
  <2>2. Bytes!SkipStmtLayouts[op] = Contents(op) /\ Contents(op) \in Seq(Bytes!SkipItems)
    BY ContentsAre
  <2> QED
    BY <2>1, <2>2, AsSkippedAgain
<1>2. /\ {"id", "slot", "optid", "optslot", "e", "catch"} \subseteq ReadItems
      /\ PlainOf("id") = "id" /\ PlainOf("slot") = "slot" /\ PlainOf("optid") = "optid"
      /\ PlainOf("optslot") = "optslot" /\ PlainOf("e") = "e" /\ PlainOf("catch") = "block"
  BY DEF ReadItems, PlainOf, Bytes!SkipItems, Bytes!ExprItems, Bytes!BlockItems
<1>3. ASSUME NEW a \in {"id", "slot"}, NEW b \in {"optid", "optslot"}
      PROVE  /\ <<a, b, "optid", "e", "catch">> \in Seq(ReadItems)
             /\ AsSkipped(<<a, b, "optid", "e", "catch">>) = <<a, b, "optid", "e", "block">>
  <2>1. a \in ReadItems /\ b \in ReadItems /\ PlainOf(a) = a /\ PlainOf(b) = b
    BY <1>2
  <2>2. <<a, b, "optid", "e", "catch">> \in Seq(ReadItems)
    BY <1>2, <2>1, SomeItems
  <2>3. AsSkipped(<<a, b, "optid", "e", "catch">>)
          = <<PlainOf(a), PlainOf(b), PlainOf("optid"), PlainOf("e"), PlainOf("catch")>>
    BY <1>2, <2>1, AsSkippedFew
  <2> QED
    BY <1>2, <2>1, <2>2, <2>3
<1>4. /\ Bytes!ExecLayouts["SECURE_DECL"] = <<"id", "optid", "optid", "e", "catch">>
      /\ Bytes!ExecLayouts["SECURE_LOCAL_DECL"] = <<"slot", "optslot", "optid", "e", "catch">>
  BY DEF Bytes!ExecLayouts
<1>5. /\ Bytes!SkipStmtLayouts["SECURE_DECL"] = <<"id", "optid", "optid", "e", "block">>
      /\ Bytes!SkipStmtLayouts["SECURE_LOCAL_DECL"] = <<"slot", "optslot", "optid", "e", "block">>
  BY DEF Bytes!SkipStmtLayouts
<1>6. Contents("SECURE_DECL") = Bytes!SkipStmtLayouts["SECURE_DECL"]
      /\ Contents("SECURE_LOCAL_DECL") = Bytes!SkipStmtLayouts["SECURE_LOCAL_DECL"]
  BY ContentsAre DEF DeclOps
<1>7. \A op \in {"SECURE_DECL", "SECURE_LOCAL_DECL"} :
        Bytes!ExecLayouts[op] \in Seq(ReadItems) /\ AsSkipped(Bytes!ExecLayouts[op]) = Contents(op)
  BY <1>3, <1>4, <1>5, <1>6
<1> QED
  BY <1>1, <1>7, SkipOps

LEMMA EvalLayoutsAre ==
  \A op \in ExprOps : /\ Bytes!EvalLayouts[op] = Contents(op)
                      /\ Bytes!LayoutIn(Bytes!EvalLayouts, op) = Contents(op)
                      /\ Contents(op) \in Seq(ReadItems) /\ AsSkipped(Contents(op)) = Contents(op)
<1> TAKE op \in ExprOps
<1>1. Contents(op) = Bytes!SkipExprLayouts[op] /\ Contents(op) \in Seq(Bytes!SkipItems)
  BY ContentsAre
<1>2. Bytes!SkipExprLayouts[op] = Bytes!EvalLayouts[op]
  BY SameTables
<1>3. Bytes!LayoutIn(Bytes!EvalLayouts, op) = Bytes!EvalLayouts[op]
  BY DEF ExprOps, Bytes!LayoutIn
<1> QED
  BY <1>1, <1>2, <1>3, AsSkippedAgain

\* The first jump on the way from what is still to be read.
LEMMA FirstJump ==
  ASSUME NEW c \in Seq(Tokens), NEW s \in Seq(Bytes!SkipItems), s # <<>>, NEW p \in Nat,
         NEW z \in Places, Leads(Jumps(c), <<s, p>>, z), <<s, p>> # z
  PROVE  /\ p \in DOMAIN c /\ c[p] \in Tokens
         /\ Head(s) \in Bytes!Operands =>
              /\ c[p].t = Bytes!Wanted(Head(s)) /\ (Head(s) = "spec" => c[p].v \in {"IF", "ELSE"})
              /\ Leads(Jumps(c), <<Bytes!Skipped(Head(s), c[p]) \o Tail(s), p + 1>>, z)
         /\ Head(s) = "e" =>
              /\ IsNode(c, p) /\ c[p].op \in ExprOps
              /\ Leads(Jumps(c), <<Tail(s), Behind(c, p)>>, z)
         /\ Head(s) = "block" =>
              /\ IsNode(c, p) /\ c[p].op = "BLOCK_BEGIN"
              /\ Leads(Jumps(c), <<Tail(s), Behind(c, p)>>, z)
         /\ Head(s) = "stmts" =>
              \/ c[p].t = "end" /\ Leads(Jumps(c), <<Tail(s), p + 1>>, z)
              \/ IsNode(c, p) /\ c[p].op \in Stmts /\ Leads(Jumps(c), <<s, Behind(c, p)>>, z)
<1> DEFINE x == <<s, p>>
           item == Head(s)
           rest == Tail(s)
           tok == c[p]
<1>1. x \in Places /\ Jumps(c) \in SUBSET (Places \X Places)
  BY ArePlaces, JumpWays
<1>2. PICK y \in Places : <<x, y>> \in Jumps(c) /\ Leads(Jumps(c), y, z)
  <2> HIDE DEF x
  <2> QED
    BY <1>1, LeadsFrom DEF x
<1>3. Moves(c, x, y)
  BY <1>2 DEF Jumps
<1>4. x[1] = s /\ x[2] = p
  OBVIOUS
<1> HIDE DEF x
<1>5. p \in DOMAIN c
  BY <1>3, <1>4, Zenon DEF Moves
<1>6. \/ item = "stmts" /\ tok.t = "end" /\ y = <<rest, p + 1>>
      \/ item = "stmts" /\ tok.t = "op" /\ tok.op \in Stmts /\ y = <<s, p + tok.size>>
      \/ item = "block" /\ Bytes!OpensBlock(tok) /\ y = <<rest, p + tok.size>>
      \/ item = "e" /\ tok.t = "op" /\ tok.op \in ExprOps /\ y = <<rest, p + tok.size>>
      \/ /\ item \in Bytes!Operands /\ tok.t = Bytes!Wanted(item)
         /\ item = "spec" => tok.v \in {"IF", "ELSE"}
         /\ y = <<Bytes!Skipped(item, tok) \o rest, p + 1>>
  BY <1>3, <1>4, Zenon DEF Moves
<1>7. \A i \in Bytes!Operands : i # "stmts" /\ i # "block" /\ i # "e"
  BY DEF Bytes!Operands, Bytes!FlagItems, Bytes!CountItems
<1>8. Behind(c, p) = p + tok.size /\ (tok.t = "op" => IsNode(c, p))
  BY <1>5 DEF Behind, IsNode
<1>9. tok \in Tokens
  BY <1>5
<1>10. Bytes!OpensBlock(tok) => tok.t = "op" /\ tok.op = "BLOCK_BEGIN"
  BY DEF Bytes!OpensBlock
<1> HIDE DEF item, rest, tok
<1>11. item \in Bytes!Operands =>
         /\ tok.t = Bytes!Wanted(item) /\ (item = "spec" => tok.v \in {"IF", "ELSE"})
         /\ Leads(Jumps(c), <<Bytes!Skipped(item, tok) \o rest, p + 1>>, z)
  BY <1>2, <1>6, <1>7
<1>12. item = "e" => /\ IsNode(c, p) /\ tok.op \in ExprOps
                     /\ Leads(Jumps(c), <<rest, Behind(c, p)>>, z)
  BY <1>2, <1>6, <1>7, <1>8
<1>13. item = "block" => /\ IsNode(c, p) /\ tok.op = "BLOCK_BEGIN"
                         /\ Leads(Jumps(c), <<rest, Behind(c, p)>>, z)
  BY <1>2, <1>6, <1>7, <1>8, <1>10
<1>14. item = "stmts" =>
         \/ tok.t = "end" /\ Leads(Jumps(c), <<rest, p + 1>>, z)
         \/ IsNode(c, p) /\ tok.op \in Stmts /\ Leads(Jumps(c), <<s, Behind(c, p)>>, z)
  BY <1>2, <1>6, <1>7, <1>8
<1> QED
  BY <1>5, <1>9, <1>11, <1>12, <1>13, <1>14 DEF item, rest, tok

\* From nothing that is to be read nothing leads on.
LEMMA NoJump ==
  ASSUME NEW c, NEW p \in Nat, NEW z \in Places, Leads(Jumps(c), <<<<>>, p>>, z)
  PROVE  z = <<<<>>, p>>
<1> DEFINE x == <<<<>>, p>>
<1>1. x \in Places /\ Jumps(c) \in SUBSET (Places \X Places)
  BY EndsArePlaces, JumpWays
<1>2. x[1] = <<>>
  OBVIOUS
<1> HIDE DEF x
<1>3. ASSUME NEW y \in Places, <<x, y>> \in Jumps(c) PROVE FALSE
  <2>1. Moves(c, x, y)
    BY <1>3 DEF Jumps
  <2> QED
    BY <1>2, <2>1, Zenon DEF Moves
<1> QED
  BY <1>1, <1>3, LeadsFrom DEF x
-----------------------------------------------------------------------------
(* An open construct that goes as it should: what it has still to read     *)
(* leads from where it is read to its end.  A body never ends; a loop      *)
(* repeats, and is in one of five places.                                  *)
Target(c, op, at) == IF op = "BODY" THEN <<<<"stmts">>, Len(c) + 1>> ELSE <<<<>>, Behind(c, at)>>

Looping(c, at, todo, cur) ==
  \/ todo = <<"specs", "conditional_end">> /\ cur = at + 1
  \/ todo = <<"spec", "conditional_end">> /\ cur = at + 2
  \/ todo = <<"cond", "loop", "conditional_end">> /\ cur = at + 3
  \/ /\ todo = <<"loop", "conditional_end">>
     /\ Leads(Jumps(c), <<<<"block", "conditional_end">>, cur>>, <<<<>>, Behind(c, at)>>)
  \/ /\ todo = <<"again", "conditional_end">>
     /\ Leads(Jumps(c), <<<<"conditional_end">>, cur>>, <<<<>>, Behind(c, at)>>)

Straight(c, op, at, todo, cur) ==
  todo \in Seq(ReadItems) /\ Leads(Jumps(c), <<AsSkipped(todo), cur>>, Target(c, op, at))

Going(c, op, at, todo, cur) ==
  /\ cur \in Nat
  /\ op # "BODY" => IsNode(c, at)
  /\ op \in {"BODY", "BLOCK_BEGIN"} => todo = <<"stmts">>
  /\ \/ Straight(c, op, at, todo, cur)
     \/ op = "CONDITIONAL" /\ LoopAt(c, at) /\ Looping(c, at, todo, cur)

LEMMA TargetIs ==
  ASSUME NEW c \in Seq(Tokens), NEW op, NEW at, op # "BODY" => IsNode(c, at)
  PROVE  /\ Target(c, op, at) \in Places
         /\ op # "BODY" => Target(c, op, at) = <<<<>>, Behind(c, at)>>
         /\ op = "BODY" => Target(c, op, at) = <<<<"stmts">>, Len(c) + 1>>
<1>1. CASE op = "BODY"
  <2>1. <<"stmts">> \in Seq(Bytes!SkipItems)
    BY SomeItems DEF Bytes!SkipItems
  <2>2. Len(c) + 1 \in Nat
    OBVIOUS
  <2> QED
    BY <1>1, <2>1, <2>2, ArePlaces DEF Target
<1>2. CASE op # "BODY"
  <2>1. Behind(c, at) \in Nat
    BY <1>2, NodeIs
  <2> QED
    BY <1>2, <2>1, EndsArePlaces DEF Target
<1> QED
  BY <1>1, <1>2

\* What stands ahead of a construct that is open, by what it has to read next.
LEMMA StraightOn ==
  ASSUME NEW c \in Seq(Tokens), NEW op, NEW at, IsNode(c, at), op # "BODY", NEW cur \in Nat,
         NEW todo, todo # <<>>, Straight(c, op, at, todo, cur)
  PROVE  /\ cur \in DOMAIN c /\ c[cur] \in Tokens
         /\ todo \in Seq(ReadItems) /\ Tail(todo) \in Seq(ReadItems) /\ Head(todo) \in ReadItems
         /\ Head(todo) \in Bytes!Operands =>
              /\ c[cur].t = Bytes!Wanted(Head(todo))
              /\ Straight(c, op, at, Bytes!Executed(Head(todo), c[cur]) \o Tail(todo), cur + 1)
         /\ Head(todo) \in Bytes!ExprItems =>
              /\ IsNode(c, cur) /\ c[cur].op \in ExprOps
              /\ Straight(c, op, at, Tail(todo), Behind(c, cur))
         /\ Head(todo) \in Bytes!BlockItems =>
              /\ IsNode(c, cur) /\ c[cur].op = "BLOCK_BEGIN"
              /\ Straight(c, op, at, Tail(todo), Behind(c, cur))
         /\ Head(todo) = "stmts" =>
              \/ /\ c[cur].t = "end"
                 /\ todo = <<"stmts">> => cur + 1 = Behind(c, at)
              \/ IsNode(c, cur) /\ c[cur].op \in Stmts /\ Straight(c, op, at, todo, Behind(c, cur))
<1> DEFINE s == AsSkipped(todo)
           z == Target(c, op, at)
           item == Head(todo)
           plain == Head(s)
           rest == Tail(todo)
           tok == c[cur]
           I == Bytes!SkipItems
<1>1. todo \in Seq(ReadItems) /\ Leads(Jumps(c), <<s, cur>>, z)
  BY DEF Straight
<1>2. /\ s # <<>> /\ Head(s) = PlainOf(item) /\ rest \in Seq(ReadItems) /\ item \in ReadItems
      /\ Tail(s) = AsSkipped(rest) /\ s \in Seq(I)
  BY <1>1, AsSkippedHere, AsSkippedIs
<1>3. z \in Places /\ z = <<<<>>, Behind(c, at)>> /\ <<s, cur>> # z
  <2>1. z \in Places /\ z = <<<<>>, Behind(c, at)>>
    BY TargetIs
  <2> HIDE DEF s, z
  <2> QED
    BY <1>2, <2>1
<1> HIDE DEF s, z
<1>4. /\ cur \in DOMAIN c /\ tok \in Tokens
      /\ plain \in Bytes!Operands =>
           /\ tok.t = Bytes!Wanted(plain) /\ (plain = "spec" => tok.v \in {"IF", "ELSE"})
           /\ Leads(Jumps(c), <<Bytes!Skipped(plain, tok) \o Tail(s), cur + 1>>, z)
      /\ plain = "e" => /\ IsNode(c, cur) /\ tok.op \in ExprOps
                        /\ Leads(Jumps(c), <<Tail(s), Behind(c, cur)>>, z)
      /\ plain = "block" => /\ IsNode(c, cur) /\ tok.op = "BLOCK_BEGIN"
                            /\ Leads(Jumps(c), <<Tail(s), Behind(c, cur)>>, z)
      /\ plain = "stmts" =>
           \/ tok.t = "end" /\ Leads(Jumps(c), <<Tail(s), cur + 1>>, z)
           \/ IsNode(c, cur) /\ tok.op \in Stmts /\ Leads(Jumps(c), <<s, Behind(c, cur)>>, z)
  BY <1>1, <1>2, <1>3, FirstJump
<1> HIDE DEF item, plain, rest, tok, I
<1>5. plain = PlainOf(item)
  BY <1>2 DEF plain
<1>6. ASSUME item \in Bytes!Operands
      PROVE  /\ tok.t = Bytes!Wanted(item)
             /\ Straight(c, op, at, Bytes!Executed(item, tok) \o rest, cur + 1)
  <2>1. plain = item
    BY <1>5, <1>6, PlainIs
  <2>2. /\ tok.t = Bytes!Wanted(item) /\ (item = "spec" => tok.v \in {"IF", "ELSE"})
        /\ Leads(Jumps(c), <<Bytes!Skipped(item, tok) \o Tail(s), cur + 1>>, z)
    BY <1>4, <1>6, <2>1
  <2> DEFINE d == Bytes!Executed(item, tok)
  <2>3. d \in Seq(ReadItems) /\ AsSkipped(d) = Bytes!Skipped(item, tok)
    BY <1>4, <1>6, <2>2, ExecutedIs
  <2> HIDE DEF d
  <2>4. d \o rest \in Seq(ReadItems) /\ AsSkipped(d \o rest) = AsSkipped(d) \o AsSkipped(rest)
    BY <1>2, <2>3, AsSkippedTogether
  <2>5. Leads(Jumps(c), <<AsSkipped(d \o rest), cur + 1>>, z)
    BY <1>2, <2>2, <2>3, <2>4
  <2>6. Straight(c, op, at, d \o rest, cur + 1)
    BY <2>4, <2>5 DEF Straight, z
  <2> QED
    BY <2>2, <2>6 DEF d
<1>7. ASSUME NEW p, Leads(Jumps(c), <<Tail(s), p>>, z) PROVE Straight(c, op, at, rest, p)
  BY <1>2, <1>7 DEF Straight, z
<1>8. item \in Bytes!ExprItems => plain = "e"
  BY <1>5 DEF PlainOf
<1>9. item \in Bytes!BlockItems => plain = "block"
  BY <1>5 DEF PlainOf, Bytes!ExprItems, Bytes!BlockItems
<1>10. ASSUME item = "stmts"
       PROVE  \/ tok.t = "end" /\ (todo = <<"stmts">> => cur + 1 = Behind(c, at))
              \/ IsNode(c, cur) /\ tok.op \in Stmts /\ Straight(c, op, at, todo, Behind(c, cur))
  <2>1. plain = "stmts"
    BY <1>5, <1>10 DEF PlainOf, Bytes!ExprItems, Bytes!BlockItems
  <2>2. CASE tok.t = "end" /\ Leads(Jumps(c), <<Tail(s), cur + 1>>, z)
    <3>1. ASSUME todo = <<"stmts">> PROVE cur + 1 = Behind(c, at)
      <4>1. rest = <<>>
        BY <3>1, ShortSequences DEF rest
      <4>2. Tail(s) = <<>>
        BY <1>2, <4>1, AsSkippedFew
      <4>3. Leads(Jumps(c), <<<<>>, cur + 1>>, z)
        BY <2>2, <4>2
      <4>4. z = <<<<>>, cur + 1>>
        BY <1>3, <4>3, NoJump
      <4> QED
        BY <1>3, <4>4
    <3> QED
      BY <2>2, <3>1
  <2>3. CASE IsNode(c, cur) /\ tok.op \in Stmts /\ Leads(Jumps(c), <<s, Behind(c, cur)>>, z)
    BY <1>1, <2>3 DEF Straight, s, z
  <2> QED
    BY <1>4, <2>1, <2>2, <2>3
<1>11. item \in Bytes!ExprItems => /\ IsNode(c, cur) /\ tok.op \in ExprOps
                                   /\ Straight(c, op, at, rest, Behind(c, cur))
  BY <1>4, <1>7, <1>8
<1>12. item \in Bytes!BlockItems => /\ IsNode(c, cur) /\ tok.op = "BLOCK_BEGIN"
                                    /\ Straight(c, op, at, rest, Behind(c, cur))
  BY <1>4, <1>7, <1>9
<1> QED
  BY <1>1, <1>2, <1>4, <1>6, <1>10, <1>11, <1>12 DEF item, rest, tok

\* A body goes on with its statements, or is at its end.
LEMMA BodyOn ==
  ASSUME NEW c \in Seq(Tokens), NEW at, NEW cur \in Nat,
         Straight(c, "BODY", at, <<"stmts">>, cur)
  PROVE  \/ cur = Len(c) + 1
         \/ IsNode(c, cur) /\ c[cur].op \in Stmts
            /\ Straight(c, "BODY", at, <<"stmts">>, Behind(c, cur))
<1> DEFINE s == <<"stmts">>
           z == <<s, Len(c) + 1>>
<1>1. /\ AsSkipped(s) = s /\ s \in Seq(Bytes!SkipItems) /\ s # <<>> /\ Head(s) = "stmts"
      /\ Tail(s) = <<>> /\ s \in Seq(ReadItems)
  <2>1. s \in Seq(Bytes!SkipItems)
    BY SomeItems DEF Bytes!SkipItems
  <2> QED
    BY <2>1, AsSkippedAgain, ShortSequences
<1>2. Target(c, "BODY", at) = z
  BY TargetIs
<1>3. Leads(Jumps(c), <<s, cur>>, z) /\ z \in Places
  BY <1>1, <1>2, TargetIs DEF Straight
<1> HIDE DEF s
<1> SUFFICES ASSUME <<s, cur>> # z
             PROVE  IsNode(c, cur) /\ c[cur].op \in Stmts /\ Straight(c, "BODY", at, s, Behind(c, cur))
  BY DEF s
<1> HIDE DEF z
<1>4. \/ c[cur].t = "end" /\ Leads(Jumps(c), <<Tail(s), cur + 1>>, z)
      \/ IsNode(c, cur) /\ c[cur].op \in Stmts /\ Leads(Jumps(c), <<s, Behind(c, cur)>>, z)
  BY <1>1, <1>3, FirstJump
<1>5. ASSUME Leads(Jumps(c), <<Tail(s), cur + 1>>, z) PROVE FALSE
  <2>1. Leads(Jumps(c), <<<<>>, cur + 1>>, z)
    BY <1>1, <1>5
  <2>2. z = <<<<>>, cur + 1>>
    BY <1>3, <2>1, NoJump
  <2> QED
    BY <1>1, <2>2 DEF z
<1> QED
  BY <1>1, <1>2, <1>4, <1>5 DEF Straight

\* The same of the five places of a loop.
LEMMA LoopOn ==
  ASSUME NEW c \in Seq(Tokens), NEW at, IsNode(c, at), LoopAt(c, at), NEW cur \in Nat,
         NEW todo, Looping(c, at, todo, cur)
  PROVE  /\ todo # <<>> /\ Head(todo) # "stmts" /\ Head(todo) \notin Bytes!BlockItems \ {"loop"}
         /\ Head(todo) \in Bytes!Operands =>
              /\ cur \in DOMAIN c /\ c[cur].t = Bytes!Wanted(Head(todo))
              /\ Looping(c, at, Bytes!Executed(Head(todo), c[cur]) \o Tail(todo), cur + 1)
         /\ Head(todo) \in Bytes!ExprItems =>
              /\ IsNode(c, cur) /\ c[cur].op \in ExprOps
              /\ Looping(c, at, Tail(todo), Behind(c, cur))
         /\ Head(todo) = "loop" =>
              /\ IsNode(c, cur) /\ c[cur].op = "BLOCK_BEGIN"
              /\ Straight(c, "CONDITIONAL", at, Tail(todo), Behind(c, cur))
              /\ Looping(c, at, <<"again">> \o Tail(todo), Behind(c, cur))
         /\ Head(todo) = "again" =>
              /\ Straight(c, "CONDITIONAL", at, Tail(todo), cur)
              /\ Looping(c, at, <<"cond", "loop">> \o Tail(todo), at + 3)
<1> DEFINE z == <<<<>>, Behind(c, at)>>
           last == <<"conditional_end">>
<1>1. z \in Places /\ Target(c, "CONDITIONAL", at) = z /\ at + 3 \in Nat /\ at \in Nat
  <2>1. "CONDITIONAL" # "BODY"
    OBVIOUS
  <2>2. Target(c, "CONDITIONAL", at) = z /\ Target(c, "CONDITIONAL", at) \in Places
    BY <2>1, TargetIs, Zenon
  <2>3. at \in Nat
    BY NodeIs
  <2> QED
    BY <2>2, <2>3
<1>2. /\ last \in Seq(Bytes!SkipItems) /\ AsSkipped(last) = last /\ last \in Seq(ReadItems)
  <2>1. last \in Seq(Bytes!SkipItems)
    BY SomeItems DEF Bytes!SkipItems
  <2> QED
    BY <2>1, AsSkippedAgain
<1>3. ASSUME NEW p, Leads(Jumps(c), <<last, p>>, z) PROVE Straight(c, "CONDITIONAL", at, last, p)
  BY <1>1, <1>2, <1>3 DEF Straight
<1>4. /\ {"specs", "spec"} \subseteq Bytes!Operands /\ "cond" \in Bytes!ExprItems
      /\ "loop" \in Bytes!BlockItems
      /\ \A i \in Bytes!Operands : i \notin Bytes!ExprItems \cup Bytes!BlockItems \cup {"again", "stmts"}
      /\ \A i \in Bytes!ExprItems : i \notin Bytes!BlockItems \cup {"again", "stmts"}
      /\ \A i \in Bytes!BlockItems : i \notin {"again", "stmts"}
  BY DEF Bytes!Operands, Bytes!FlagItems, Bytes!CountItems, Bytes!ExprItems, Bytes!BlockItems
<1>5. CASE todo = <<"specs", "conditional_end">> /\ cur = at + 1
  <2>1. todo # <<>> /\ Head(todo) = "specs" /\ Tail(todo) = last
    BY <1>5, ShortSequences
  <2>2. cur \in DOMAIN c /\ c[cur].t = "count" /\ c[cur].n = 1
    BY <1>5 DEF LoopAt
  <2>3. Bytes!Wanted("specs") = "count"
    BY DEF Bytes!Wanted, Bytes!FlagItems, Bytes!CountItems, Bytes!ExprItems
  <2>4. Bytes!Executed("specs", c[cur]) = <<"spec">>
    <3>1. Bytes!Executed("specs", c[cur]) = Bytes!Repeat("spec", 1)
      BY <2>2 DEF Bytes!Executed, Bytes!FlagItems
    <3>2. Bytes!Repeat("spec", 1) = <<"spec">>
      BY DEF Bytes!Repeat
    <3> QED
      BY <3>1, <3>2
  <2>5. Bytes!Executed("specs", c[cur]) \o last = <<"spec", "conditional_end">>
    BY <2>4, ShortSequences
  <2>6. cur + 1 = at + 2
    BY <1>1, <1>5
  <2>7. Looping(c, at, Bytes!Executed("specs", c[cur]) \o last, cur + 1)
    BY <2>5, <2>6 DEF Looping
  <2> QED
    BY <1>4, <2>1, <2>2, <2>3, <2>7
<1>6. CASE todo = <<"spec", "conditional_end">> /\ cur = at + 2
  <2>1. todo # <<>> /\ Head(todo) = "spec" /\ Tail(todo) = last
    BY <1>6, ShortSequences
  <2>2. cur \in DOMAIN c /\ c[cur].t = "condtype" /\ c[cur].v = "LOOPIF"
    BY <1>6 DEF LoopAt
  <2>3. Bytes!Wanted("spec") = "condtype"
    BY DEF Bytes!Wanted, Bytes!FlagItems, Bytes!CountItems, Bytes!ExprItems
  <2>4. Bytes!Executed("spec", c[cur]) = <<"cond", "loop">>
    BY <2>2 DEF Bytes!Executed, Bytes!FlagItems, Bytes!SpecItems
  <2>5. Bytes!Executed("spec", c[cur]) \o last = <<"cond", "loop", "conditional_end">>
    <3>1. <<"cond", "loop">> \o last = <<"cond", "loop", "conditional_end">>
      BY ShortSequences
    <3> QED
      BY <2>4, <3>1
  <2>6. cur + 1 = at + 3
    BY <1>1, <1>6
  <2>7. Looping(c, at, Bytes!Executed("spec", c[cur]) \o last, cur + 1)
    BY <2>5, <2>6 DEF Looping
  <2> QED
    BY <1>4, <2>1, <2>2, <2>3, <2>7
<1>7. CASE todo = <<"cond", "loop", "conditional_end">> /\ cur = at + 3
  <2> DEFINE s == LoopItems
  <2>1. todo # <<>> /\ Head(todo) = "cond" /\ Tail(todo) = <<"loop", "conditional_end">>
    BY <1>7
  <2>2. s \in Seq(Bytes!SkipItems) /\ s # <<>> /\ Head(s) = "e" /\ Tail(s) = <<"block", "conditional_end">>
    BY DEF LoopItems, Bytes!SkipItems
  <2>3. Leads(Jumps(c), <<s, cur>>, z)
    BY <1>7 DEF LoopAt
  <2>4. <<s, cur>> # z
    BY <2>2
  <2> HIDE DEF s, z
  <2>5. IsNode(c, cur) /\ c[cur].op \in ExprOps /\ Leads(Jumps(c), <<Tail(s), Behind(c, cur)>>, z)
    BY <1>1, <2>2, <2>3, <2>4, FirstJump
  <2>6. Looping(c, at, Tail(todo), Behind(c, cur))
    BY <2>1, <2>2, <2>5 DEF Looping, z
  <2> QED
    BY <1>4, <2>1, <2>5, <2>6
<1>8. CASE todo = <<"loop", "conditional_end">>
           /\ Leads(Jumps(c), <<<<"block", "conditional_end">>, cur>>, z)
  <2> DEFINE s == <<"block", "conditional_end">>
  <2>1. todo # <<>> /\ Head(todo) = "loop" /\ Tail(todo) = last
    BY <1>8, ShortSequences
  <2>2. s \in Seq(Bytes!SkipItems) /\ s # <<>> /\ Head(s) = "block" /\ Tail(s) = last
    BY SomeItems, ShortSequences DEF Bytes!SkipItems
  <2>3. Leads(Jumps(c), <<s, cur>>, z) /\ <<s, cur>> # z
    BY <1>8, <2>2
  <2> HIDE DEF s, z
  <2>4. /\ IsNode(c, cur) /\ c[cur].op = "BLOCK_BEGIN"
        /\ Leads(Jumps(c), <<Tail(s), Behind(c, cur)>>, z)
    BY <1>1, <2>2, <2>3, FirstJump
  <2>5. Leads(Jumps(c), <<last, Behind(c, cur)>>, z)
    BY <2>2, <2>4
  <2>6. Straight(c, "CONDITIONAL", at, last, Behind(c, cur))
    BY <1>3, <2>5
  <2>7. <<"again">> \o last = <<"again", "conditional_end">>
    BY ShortSequences
  <2>8. Looping(c, at, <<"again">> \o last, Behind(c, cur))
    BY <2>5, <2>7 DEF Looping, z
  <2> QED
    BY <1>4, <2>1, <2>4, <2>6, <2>8
<1>9. CASE todo = <<"again", "conditional_end">> /\ Leads(Jumps(c), <<last, cur>>, z)
  <2>1. todo # <<>> /\ Head(todo) = "again" /\ Tail(todo) = last
    BY <1>9, ShortSequences
  <2>2. <<"cond", "loop">> \o last = <<"cond", "loop", "conditional_end">>
    BY ShortSequences
  <2>3. Looping(c, at, <<"cond", "loop">> \o last, at + 3)
    BY <2>2 DEF Looping
  <2>4. Straight(c, "CONDITIONAL", at, last, cur)
    BY <1>3, <1>9
  <2> QED
    BY <1>4, <2>1, <2>3, <2>4
<1> QED
  BY <1>5, <1>6, <1>7, <1>8, <1>9 DEF Looping

\* What an open construct finds where it reads, and that it goes on so.
FindsNext(c, op, at, todo, cur) ==
  /\ op \in {"BODY", "BLOCK_BEGIN"} => Head(todo) = "stmts"
  /\ Head(todo) \in Bytes!Operands =>
       /\ cur \in DOMAIN c /\ c[cur].t = Bytes!Wanted(Head(todo))
       /\ Going(c, op, at, Bytes!Executed(Head(todo), c[cur]) \o Tail(todo), cur + 1)
  /\ Head(todo) \in Bytes!ExprItems =>
       /\ IsNode(c, cur) /\ c[cur].op \in ExprOps
       /\ Going(c, op, at, Tail(todo), Behind(c, cur))
  /\ Head(todo) \in Bytes!BlockItems =>
       /\ IsNode(c, cur) /\ c[cur].op = "BLOCK_BEGIN"
       /\ Going(c, op, at, Tail(todo), Behind(c, cur))
       /\ Head(todo) = "loop" => Going(c, op, at, <<"again">> \o Tail(todo), Behind(c, cur))
  /\ Head(todo) = "stmts" =>
       \/ op = "BODY" /\ cur = Len(c) + 1
       \/ /\ cur \in DOMAIN c /\ c[cur].t = "end" /\ op # "BODY"
          /\ op = "BLOCK_BEGIN" => cur + 1 = Behind(c, at)
       \/ IsNode(c, cur) /\ c[cur].op \in Stmts /\ Going(c, op, at, todo, Behind(c, cur))
  /\ Head(todo) = "again" =>
       /\ Going(c, op, at, Tail(todo), cur)
       /\ Going(c, op, at, <<"cond", "loop">> \o Tail(todo), at + 3)

LEMMA GoingOn ==
  ASSUME NEW c \in Seq(Tokens), NEW op, NEW at, NEW cur, NEW todo, todo # <<>>,
         Going(c, op, at, todo, cur)
  PROVE  /\ op \in {"BODY", "BLOCK_BEGIN"} => Head(todo) = "stmts"
         /\ Head(todo) \in Bytes!Operands =>
              /\ cur \in DOMAIN c /\ c[cur].t = Bytes!Wanted(Head(todo))
              /\ Going(c, op, at, Bytes!Executed(Head(todo), c[cur]) \o Tail(todo), cur + 1)
         /\ Head(todo) \in Bytes!ExprItems =>
              /\ IsNode(c, cur) /\ c[cur].op \in ExprOps
              /\ Going(c, op, at, Tail(todo), Behind(c, cur))
         /\ Head(todo) \in Bytes!BlockItems =>
              /\ IsNode(c, cur) /\ c[cur].op = "BLOCK_BEGIN"
              /\ Going(c, op, at, Tail(todo), Behind(c, cur))
              /\ Head(todo) = "loop" => Going(c, op, at, <<"again">> \o Tail(todo), Behind(c, cur))
         /\ Head(todo) = "stmts" =>
              \/ op = "BODY" /\ cur = Len(c) + 1
              \/ /\ cur \in DOMAIN c /\ c[cur].t = "end" /\ op # "BODY"
                 /\ op = "BLOCK_BEGIN" => cur + 1 = Behind(c, at)
              \/ IsNode(c, cur) /\ c[cur].op \in Stmts /\ Going(c, op, at, todo, Behind(c, cur))
         /\ Head(todo) = "again" =>
              /\ Going(c, op, at, Tail(todo), cur)
              /\ Going(c, op, at, <<"cond", "loop">> \o Tail(todo), at + 3)
<1>1. cur \in Nat /\ (op # "BODY" => IsNode(c, at)) /\ (op \in {"BODY", "BLOCK_BEGIN"} => todo = <<"stmts">>)
  BY DEF Going
<1>2. /\ \A i \in Bytes!Operands : i \notin Bytes!ExprItems \cup Bytes!BlockItems \cup {"again", "stmts"}
      /\ \A i \in Bytes!ExprItems : i \notin Bytes!BlockItems \cup {"again", "stmts"}
      /\ \A i \in Bytes!BlockItems : i \notin {"again", "stmts"}
      /\ "again" # "stmts" /\ "loop" \in Bytes!BlockItems
  BY DEF Bytes!Operands, Bytes!FlagItems, Bytes!CountItems, Bytes!ExprItems, Bytes!BlockItems
<1>3. op \in {"BODY", "BLOCK_BEGIN"} => Head(todo) = "stmts"
  BY <1>1, ShortSequences
<1>4. \A p : IsNode(c, p) => Behind(c, p) \in Nat
  BY NodeIs
<1>5. at \in Nat \/ op = "BODY"
  BY <1>1, NodeIs
<1>6. CASE op = "BODY"
  <2>1. todo = <<"stmts">> /\ Head(todo) = "stmts"
    BY <1>1, <1>3, <1>6
  <2>2. Straight(c, "BODY", at, <<"stmts">>, cur)
    BY <1>6, <2>1 DEF Going
  <2>3. \/ cur = Len(c) + 1
        \/ IsNode(c, cur) /\ c[cur].op \in Stmts /\ Straight(c, "BODY", at, todo, Behind(c, cur))
    BY <1>1, <2>1, <2>2, BodyOn
  <2>4. \/ cur = Len(c) + 1
        \/ IsNode(c, cur) /\ c[cur].op \in Stmts /\ Going(c, op, at, todo, Behind(c, cur))
    BY <1>4, <1>6, <2>1, <2>3 DEF Going
  <2> QED
    BY <1>2, <1>6, <2>1, <2>4
<1>7. CASE op # "BODY" /\ Straight(c, op, at, todo, cur)
  <2> DEFINE item == Head(todo)
             rest == Tail(todo)
             tok == c[cur]
  <2>1. IsNode(c, at)
    BY <1>1, <1>7
  <2>2. /\ cur \in DOMAIN c /\ item \in ReadItems
        /\ item \in Bytes!Operands => /\ tok.t = Bytes!Wanted(item)
                                      /\ Straight(c, op, at, Bytes!Executed(item, tok) \o rest, cur + 1)
        /\ item \in Bytes!ExprItems => /\ IsNode(c, cur) /\ tok.op \in ExprOps
                                       /\ Straight(c, op, at, rest, Behind(c, cur))
        /\ item \in Bytes!BlockItems => /\ IsNode(c, cur) /\ tok.op = "BLOCK_BEGIN"
                                        /\ Straight(c, op, at, rest, Behind(c, cur))
        /\ item = "stmts" =>
             \/ tok.t = "end" /\ (todo = <<"stmts">> => cur + 1 = Behind(c, at))
             \/ IsNode(c, cur) /\ tok.op \in Stmts /\ Straight(c, op, at, todo, Behind(c, cur))
    BY <1>1, <1>7, <2>1, StraightOn
  <2>3. item # "again" /\ item # "loop"
    BY <2>2 DEF ReadItems, Bytes!SkipItems, Bytes!ExprItems, Bytes!BlockItems
  <2>4. ASSUME NEW t, NEW p \in Nat, item # "stmts", Straight(c, op, at, t, p)
        PROVE  Going(c, op, at, t, p)
    BY <1>3, <2>1, <2>4 DEF Going
  <2>5. ASSUME item = "stmts", IsNode(c, cur), Straight(c, op, at, todo, Behind(c, cur))
        PROVE  Going(c, op, at, todo, Behind(c, cur))
    BY <1>1, <1>4, <2>1, <2>5 DEF Going
  <2>6. cur + 1 \in Nat
    BY <1>1
  <2> HIDE DEF item, rest, tok
  <2>7. item \in Bytes!Operands => /\ cur \in DOMAIN c /\ tok.t = Bytes!Wanted(item)
                                   /\ Going(c, op, at, Bytes!Executed(item, tok) \o rest, cur + 1)
    BY <1>2, <2>2, <2>4, <2>6
  <2>8. item \in Bytes!ExprItems => /\ IsNode(c, cur) /\ tok.op \in ExprOps
                                    /\ Going(c, op, at, rest, Behind(c, cur))
    BY <1>2, <1>4, <2>2, <2>4
  <2>9. item \in Bytes!BlockItems => /\ IsNode(c, cur) /\ tok.op = "BLOCK_BEGIN"
                                     /\ Going(c, op, at, rest, Behind(c, cur))
    BY <1>2, <1>4, <2>2, <2>4
  <2>10. item = "stmts" =>
           \/ /\ cur \in DOMAIN c /\ tok.t = "end" /\ op # "BODY"
              /\ op = "BLOCK_BEGIN" => cur + 1 = Behind(c, at)
           \/ IsNode(c, cur) /\ tok.op \in Stmts /\ Going(c, op, at, todo, Behind(c, cur))
    BY <1>1, <1>7, <2>2, <2>5
  <2> QED
    BY <1>3, <2>3, <2>7, <2>8, <2>9, <2>10 DEF item, rest, tok
<1>8. CASE op = "CONDITIONAL" /\ LoopAt(c, at) /\ Looping(c, at, todo, cur)
  <2> DEFINE item == Head(todo)
             rest == Tail(todo)
             tok == c[cur]
  <2>1. IsNode(c, at) /\ at \in Nat
    BY <1>1, <1>5, <1>8
  <2>2. /\ item # "stmts" /\ item \notin Bytes!BlockItems \ {"loop"}
        /\ item \in Bytes!Operands =>
             /\ cur \in DOMAIN c /\ tok.t = Bytes!Wanted(item)
             /\ Looping(c, at, Bytes!Executed(item, tok) \o rest, cur + 1)
        /\ item \in Bytes!ExprItems => /\ IsNode(c, cur) /\ tok.op \in ExprOps
                                       /\ Looping(c, at, rest, Behind(c, cur))
        /\ item = "loop" => /\ IsNode(c, cur) /\ tok.op = "BLOCK_BEGIN"
                            /\ Straight(c, "CONDITIONAL", at, rest, Behind(c, cur))
                            /\ Looping(c, at, <<"again">> \o rest, Behind(c, cur))
        /\ item = "again" => /\ Straight(c, "CONDITIONAL", at, rest, cur)
                             /\ Looping(c, at, <<"cond", "loop">> \o rest, at + 3)
    BY <1>1, <1>8, <2>1, LoopOn
  <2>3. ASSUME NEW t, NEW p \in Nat, Straight(c, "CONDITIONAL", at, t, p) \/ Looping(c, at, t, p)
        PROVE  Going(c, op, at, t, p)
    BY <1>8, <2>1, <2>3 DEF Going
  <2>4. cur + 1 \in Nat /\ at + 3 \in Nat
    BY <1>1, <2>1
  <2> HIDE DEF item, rest, tok
  <2>7. item \in Bytes!Operands => /\ cur \in DOMAIN c /\ tok.t = Bytes!Wanted(item)
                                   /\ Going(c, op, at, Bytes!Executed(item, tok) \o rest, cur + 1)
    BY <2>2, <2>3, <2>4
  <2>8. item \in Bytes!ExprItems => /\ IsNode(c, cur) /\ tok.op \in ExprOps
                                    /\ Going(c, op, at, rest, Behind(c, cur))
    BY <1>4, <2>2, <2>3
  <2>9. item \in Bytes!BlockItems => /\ IsNode(c, cur) /\ tok.op = "BLOCK_BEGIN"
                                     /\ Going(c, op, at, rest, Behind(c, cur))
                                     /\ Going(c, op, at, <<"again">> \o rest, Behind(c, cur))
    BY <1>4, <2>2, <2>3
  <2>10. item = "again" => /\ Going(c, op, at, rest, cur)
                           /\ Going(c, op, at, <<"cond", "loop">> \o rest, at + 3)
    BY <1>1, <2>2, <2>3, <2>4
  <2> QED
    BY <1>3, <2>2, <2>7, <2>8, <2>9, <2>10 DEF item, rest, tok
<1> QED
  BY <1>6, <1>7, <1>8 DEF Going

LEMMA Finds ==
  ASSUME NEW c \in Seq(Tokens), NEW op, NEW at, NEW cur, NEW todo, todo # <<>>,
         Going(c, op, at, todo, cur)
  PROVE  FindsNext(c, op, at, todo, cur)
BY GoingOn DEF FindsNext

\* A construct of which nothing is left to read is read to its end.
LEMMA GoingDone ==
  ASSUME NEW c \in Seq(Tokens), NEW op, NEW at, NEW cur, Going(c, op, at, <<>>, cur)
  PROVE  op \notin {"BODY", "BLOCK_BEGIN"} /\ IsNode(c, at) /\ cur = Behind(c, at)
<1>1. op \notin {"BODY", "BLOCK_BEGIN"} /\ IsNode(c, at) /\ cur \in Nat
  BY ShortSequences DEF Going
<1>2. ~Looping(c, at, <<>>, cur)
  <2> DEFINE u == <<>>
  <2>1. \A a, b : <<a, b>> # u
    OBVIOUS
  <2>2. \A a, b, d : <<a, b, d>> # u
    OBVIOUS
  <2> HIDE DEF u
  <2>3. ~Looping(c, at, u, cur)
    BY <2>1, <2>2 DEF Looping
  <2> QED
    BY <2>3 DEF u
<1>3. Leads(Jumps(c), <<<<>>, cur>>, Target(c, op, at))
  BY <1>2, AsSkippedFew DEF Going, Straight
<1>4. Target(c, op, at) \in Places /\ Target(c, op, at) = <<<<>>, Behind(c, at)>>
  BY <1>1, TargetIs
<1>5. Target(c, op, at) = <<<<>>, cur>>
  BY <1>1, <1>3, <1>4, NoJump
<1> QED
  BY <1>1, <1>4, <1>5

\* A construct that is opened goes as it should.
LEMMA GoingOpened ==
  ASSUME NEW c, Aligned(c), NEW p, IsNode(c, p)
  PROVE  /\ c[p].op \in ExprOps => Going(c, c[p].op, p, Contents(c[p].op), p + 1)
         /\ c[p].op \in DeclOps => Going(c, c[p].op, p, Bytes!ExecLayouts[c[p].op], p + 1)
         /\ c[p].op = "BLOCK_BEGIN" => Going(c, "BLOCK_BEGIN", p, <<"stmts">>, p + 1)
<1> DEFINE op == c[p].op
           z == <<<<>>, Behind(c, p)>>
<1>1. c \in Seq(Tokens) /\ p + 1 \in Nat /\ op \in Stmts \cup {"BLOCK_BEGIN"}
  <2>1. c \in Seq(Tokens)
    BY DEF Aligned
  <2> QED
    BY <2>1, NodeIs
<1>2. /\ ExprOps \cap DeclOps = {} /\ "BLOCK_BEGIN" \notin ExprOps \cup DeclOps
      /\ "BODY" \notin ExprOps \cup DeclOps \cup {"BLOCK_BEGIN"} /\ "CONDITIONAL" \in DeclOps
  <2>1. "BODY" \notin ExprOps
    BY EvalExprsAre DEF ReferenceOps, CallOps, OperatorOps, MemberOps, IndexingOps
  <2> QED
    BY <2>1, OpsApart DEF DeclOps
<1>3. LoopAt(c, p) \/ Leads(Jumps(c), <<Contents(op), p + 1>>, z)
  BY DEF Aligned, Whole
<1>4. LoopAt(c, p) => op = "CONDITIONAL"
  BY DEF LoopAt
<1>5. op # "BODY" => Target(c, op, p) = z
  BY <1>1, TargetIs
<1> HIDE DEF op, z
<1>6. ASSUME op \in ExprOps PROVE Going(c, op, p, Contents(op), p + 1)
  <2>1. Leads(Jumps(c), <<AsSkipped(Contents(op)), p + 1>>, Target(c, op, p))
    BY <1>2, <1>3, <1>4, <1>5, <1>6, EvalLayoutsAre
  <2>2. Contents(op) \in Seq(ReadItems)
    BY <1>6, EvalLayoutsAre
  <2> QED
    BY <1>1, <1>2, <1>6, <2>1, <2>2 DEF Going, Straight
<1>7. ASSUME op \in DeclOps PROVE Going(c, op, p, Bytes!ExecLayouts[op], p + 1)
  <2> DEFINE todo == Bytes!ExecLayouts[op]
  <2>1. todo \in Seq(ReadItems) /\ AsSkipped(todo) = Contents(op)
    BY <1>7, ExecLayoutsAre
  <2>2. ASSUME LoopAt(c, p) PROVE Going(c, op, p, todo, p + 1)
    <3>1. todo = <<"specs", "conditional_end">>
      BY <1>4, <2>2 DEF Bytes!ExecLayouts
    <3>2. Looping(c, p, todo, p + 1)
      BY <3>1 DEF Looping
    <3> HIDE DEF todo
    <3> QED
      BY <1>1, <1>2, <1>4, <1>7, <2>2, <3>2 DEF Going
  <2>3. ASSUME Leads(Jumps(c), <<Contents(op), p + 1>>, z) PROVE Going(c, op, p, todo, p + 1)
    <3> HIDE DEF todo
    <3>1. Straight(c, op, p, todo, p + 1)
      BY <1>2, <1>5, <1>7, <2>1, <2>3 DEF Straight
    <3> QED
      BY <1>1, <1>2, <1>7, <3>1 DEF Going
  <2> HIDE DEF todo
  <2>4. Going(c, op, p, todo, p + 1)
    BY <1>3, <2>2, <2>3
  <2> QED
    BY <2>4 DEF todo
<1>8. ASSUME op = "BLOCK_BEGIN" PROVE Going(c, op, p, <<"stmts">>, p + 1)
  <2>1. Contents(op) = <<"stmts">>
    BY <1>8 DEF Contents
  <2>2. <<"stmts">> \in Seq(ReadItems) /\ AsSkipped(<<"stmts">>) = <<"stmts">>
    <3>1. <<"stmts">> \in Seq(Bytes!SkipItems)
      BY SomeItems DEF Bytes!SkipItems
    <3> QED
      BY <3>1, AsSkippedAgain
  <2>3. Leads(Jumps(c), <<<<"stmts">>, p + 1>>, z) /\ Target(c, op, p) = z
    BY <1>2, <1>3, <1>4, <1>5, <1>8, <2>1
  <2>4. Straight(c, op, p, <<"stmts">>, p + 1)
    BY <2>2, <2>3 DEF Straight
  <2> QED
    BY <1>1, <1>8, <2>4 DEF Going
<1> QED
  BY <1>6, <1>7, <1>8 DEF op
-----------------------------------------------------------------------------
(* The stack of open constructs.                                           *)
IsSequence(st) == \E S : st \in Seq(S)

IsFrame(f) == f = [op |-> f.op, at |-> f.at, todo |-> f.todo, res |-> f.res, mode |-> f.mode]

LEMMA OneOrMore == \A n \in Nat : n > 0 => (~(n > 1) => n = 1) /\ n + 1 # 1
OBVIOUS

LEMMA NothingIs == \A S : \A s \in Seq(S) : Len(s) = 0 => s = <<>>
OBVIOUS

LEMMA AgainFirst ==
  \A S : \A s \in Seq(S) : s # <<>> => /\ <<"again">> \o Tail(s) # <<>>
                                      /\ Head(<<"again">> \o Tail(s)) = "again"
<1> TAKE S
<1> TAKE s \in Seq(S)
<1> HAVE s # <<>>
<1> DEFINE T == S \cup {"again"}
           u == <<"again">>
           v == Tail(s)
<1>1. v \in Seq(S)
  OBVIOUS
<1> HIDE DEF v
<1>2. v \in Seq(T)
  <2>1. Len(v) \in Nat /\ v = [i \in 1..Len(v) |-> v[i]] /\ \A i \in 1..Len(v) : v[i] \in S
    BY <1>1
  <2> QED
    BY <2>1
<1>3. u \in Seq(T) /\ Len(u) = 1 /\ u[1] = "again"
  OBVIOUS
<1> HIDE DEF T, u
<1>4. /\ u \o v \in Seq(T) /\ Len(u \o v) = Len(u) + Len(v) /\ Len(v) \in Nat
      /\ \A i \in 1..Len(u) : (u \o v)[i] = u[i]
  BY <1>2, <1>3, ConcatenationIs
<1> DEFINE w == u \o v
<1>5. w \in Seq(T) /\ Len(w) > 0 /\ w[1] = "again"
  BY <1>3, <1>4
<1> HIDE DEF w
<1>6. w # <<>> /\ Head(w) = "again"
  BY <1>5
<1> QED
  BY <1>6 DEF u, v, w

LEMMA StackIs ==
  ASSUME NEW st, IsSequence(st), st # <<>>
  PROVE  /\ Len(st) \in Nat /\ Len(st) > 0
         /\ Bytes!Last(st) = st[Len(st)]
<1>1. PICK S : st \in Seq(S)
  BY DEF IsSequence
<1> QED
  BY <1>1 DEF Bytes!Last

LEMMA Pushed ==
  ASSUME NEW st, IsSequence(st), NEW f
  PROVE  /\ IsSequence(Append(st, f)) /\ Len(Append(st, f)) = Len(st) + 1 /\ Append(st, f) # <<>>
         /\ Append(st, f)[Len(st) + 1] = f
         /\ \A i \in 1..Len(st) : Append(st, f)[i] = st[i]
<1>1. PICK S : st \in Seq(S)
  BY DEF IsSequence
<1> DEFINE T == S \cup {f}
<1>2. st \in Seq(T) /\ f \in T
  <2>1. Len(st) \in Nat /\ st = [i \in 1..Len(st) |-> st[i]] /\ \A i \in 1..Len(st) : st[i] \in S
    BY <1>1
  <2> QED
    BY <2>1
<1> HIDE DEF T
<1>3. Append(st, f) \in Seq(T)
  BY <1>2
<1> QED
  BY <1>2, <1>3 DEF IsSequence

LEMMA Popped ==
  ASSUME NEW st, IsSequence(st), st # <<>>
  PROVE  /\ IsSequence(Bytes!Front(st)) /\ Len(Bytes!Front(st)) = Len(st) - 1
         /\ \A i \in 1..(Len(st) - 1) : Bytes!Front(st)[i] = st[i]
<1>1. PICK S : st \in Seq(S)
  BY DEF IsSequence
<1>2. Len(st) \in Nat /\ Len(st) > 0
  BY <1>1
<1>3. Bytes!Front(st) = SubSeq(st, 1, Len(st) - 1)
  BY DEF Bytes!Front
<1>4. SubSeq(st, 1, Len(st) - 1) \in Seq(S)
  BY <1>1, <1>2
<1>5. Len(SubSeq(st, 1, Len(st) - 1)) = Len(st) - 1
  <2>1. \A n \in Nat : n <= Len(st) => Len(SubSeq(st, 1, n)) = n
    BY <1>1
  <2>2. Len(st) - 1 \in Nat /\ Len(st) - 1 <= Len(st)
    BY <1>2
  <2> QED
    BY <2>1, <2>2
<1>6. \A i \in 1..(Len(st) - 1) : SubSeq(st, 1, Len(st) - 1)[i] = st[i]
  BY <1>1, <1>2
<1> QED
  BY <1>3, <1>4, <1>5, <1>6 DEF IsSequence

\* The three changes: of the top, of what is below it when it is left, and of
\* both when a block is entered.
TopIs(st, f, st2) ==
  /\ IsSequence(st2) /\ st2 # <<>> /\ Len(st2) = Len(st) /\ st2[Len(st)] = f
  /\ \A i \in 1..(Len(st) - 1) : st2[i] = st[i]

TopsAre(st, f, g, st2) ==
  /\ IsSequence(st2) /\ st2 # <<>> /\ Len(st2) = Len(st) + 1
  /\ st2[Len(st)] = f /\ st2[Len(st) + 1] = g
  /\ \A i \in 1..(Len(st) - 1) : st2[i] = st[i]

LEMMA Replaced ==
  ASSUME NEW st, IsSequence(st), st # <<>>, NEW f
  PROVE  TopIs(st, f, Append(Bytes!Front(st), f))
<1> DEFINE st2 == Append(Bytes!Front(st), f)
<1> DEFINE u == Bytes!Front(st)
<1>1. IsSequence(u) /\ Len(u) = Len(st) - 1 /\ \A i \in 1..(Len(st) - 1) : u[i] = st[i]
  BY Popped
<1>2. Len(st) \in Nat /\ Len(st) > 0
  BY StackIs
<1> HIDE DEF u
<1>3. /\ IsSequence(Append(u, f)) /\ Len(Append(u, f)) = Len(u) + 1 /\ Append(u, f) # <<>>
      /\ Append(u, f)[Len(u) + 1] = f
      /\ \A i \in 1..Len(u) : Append(u, f)[i] = u[i]
  BY <1>1, Pushed
<1>4. st2 = Append(u, f)
  BY DEF u
<1> HIDE DEF st2
<1>5. TopIs(st, f, st2)
  BY <1>1, <1>2, <1>3, <1>4 DEF TopIs
<1> QED
  BY <1>5 DEF st2

LeftIs(st, f, st2) ==
  /\ IsSequence(st2) /\ st2 # <<>> /\ Len(st2) = Len(st) - 1 /\ st2[Len(st) - 1] = f
  /\ \A i \in 1..(Len(st) - 2) : st2[i] = st[i]

LEMMA Left ==
  ASSUME NEW st, IsSequence(st), st # <<>>, Len(st) > 1, NEW f
  PROVE  LeftIs(st, f, Append(Bytes!Front(Bytes!Front(st)), f))
<1> DEFINE u == Bytes!Front(st)
           w == Bytes!Front(u)
           st2 == Append(w, f)
<1>1. IsSequence(u) /\ Len(u) = Len(st) - 1 /\ \A i \in 1..(Len(st) - 1) : u[i] = st[i]
  BY Popped
<1>2. Len(st) \in Nat /\ Len(st) > 1
  BY StackIs
<1> HIDE DEF u
<1>3. u # <<>>
  BY <1>1, <1>2
<1>4. IsSequence(u)
  BY <1>1
<1>5. IsSequence(w) /\ Len(w) = Len(u) - 1 /\ \A i \in 1..(Len(u) - 1) : w[i] = u[i]
  BY <1>3, <1>4, Popped
<1> HIDE DEF w
<1>6. /\ IsSequence(st2) /\ Len(st2) = Len(w) + 1 /\ st2 # <<>> /\ st2[Len(w) + 1] = f
      /\ \A i \in 1..Len(w) : st2[i] = w[i]
  BY <1>5, Pushed
<1> HIDE DEF st2
<1>7. LeftIs(st, f, st2)
  BY <1>1, <1>2, <1>5, <1>6 DEF LeftIs
<1> QED
  BY <1>7 DEF st2, w, u

LEMMA Entered ==
  ASSUME NEW st, IsSequence(st), st # <<>>, NEW f, NEW g
  PROVE  TopsAre(st, f, g, Bytes!Front(st) \o <<f, g>>)
<1> DEFINE st2 == Bytes!Front(st) \o <<f, g>>
           u == Bytes!Front(st)
           v == <<f, g>>
<1>1. IsSequence(u) /\ Len(u) = Len(st) - 1 /\ \A i \in 1..(Len(st) - 1) : u[i] = st[i]
  BY Popped
<1>2. Len(st) \in Nat /\ Len(st) > 0
  BY StackIs
<1> HIDE DEF u
<1>3. PICK S : u \in Seq(S)
  BY <1>1 DEF IsSequence
<1> DEFINE T == S \cup {f, g}
<1>4. u \in Seq(T)
  <2>1. Len(u) \in Nat /\ u = [i \in 1..Len(u) |-> u[i]] /\ \A i \in 1..Len(u) : u[i] \in S
    BY <1>3
  <2> QED
    BY <2>1
<1>5. v \in Seq(T) /\ Len(v) = 2 /\ v[1] = f /\ v[2] = g
  OBVIOUS
<1> HIDE DEF T, v, st2
<1>6. /\ u \o v \in Seq(T) /\ Len(u \o v) = Len(u) + Len(v)
      /\ \A i \in 1..Len(u) : (u \o v)[i] = u[i]
      /\ \A i \in 1..Len(v) : (u \o v)[i + Len(u)] = v[i]
  <2>1. u \in Seq(T) /\ v \in Seq(T)
    BY <1>4, <1>5
  <2> QED
    BY <2>1, ConcatenationIs
<1>7. (u \o v)[1 + Len(u)] = f /\ (u \o v)[2 + Len(u)] = g
  BY <1>5, <1>6
<1>8. st2 = u \o v
  BY DEF u, v, st2
<1>9. st2 # <<>>
  BY <1>1, <1>2, <1>5, <1>6, <1>8
<1>10. Len(u) + 1 = Len(st) /\ Len(u) + 2 = Len(st) + 1 /\ 1 + Len(u) = Len(st) /\ 2 + Len(u) = Len(st) + 1
  BY <1>1, <1>2
<1>11. IsSequence(u \o v)
  BY <1>6, Zenon DEF IsSequence
<1>12. (u \o v)[Len(st)] = f /\ (u \o v)[Len(st) + 1] = g
  BY <1>7, <1>10
<1>13. \A i \in 1..(Len(st) - 1) : (u \o v)[i] = st[i]
  BY <1>1, <1>6
<1>14. Len(u \o v) = Len(st) + 1
  BY <1>5, <1>6, <1>10
<1>15. TopsAre(st, f, g, st2)
  BY <1>8, <1>9, <1>11, <1>12, <1>13, <1>14 DEF TopsAre
<1> QED
  BY <1>15 DEF st2
-----------------------------------------------------------------------------
(* The open constructs as they should be: the innermost goes on, every     *)
(* other one goes on where the one in it ends.                             *)
After(todo) == IF Head(todo) \in {"stmts", "again"} THEN todo ELSE Tail(todo)

Goes(c, f, p) == Going(c, f.op, f.at, f.todo, p)
Waits(c, f, g) ==
  /\ IsSequence(f.todo) /\ f.todo # <<>>
  /\ Going(c, f.op, f.at, After(f.todo), Bytes!EndAt(c, g.at))
Framed(f, i) == IsFrame(f) /\ (f.op = "BODY" <=> i = 1)

InStep(c, st, p) ==
  /\ IsSequence(st) /\ st # <<>>
  /\ \A i \in 1..Len(st) : Framed(st[i], i)
  /\ \A i \in 1..(Len(st) - 1) : Waits(c, st[i], st[i + 1])
  /\ Goes(c, st[Len(st)], p)

LEMMA WaitsSame ==
  \A c, f, g, h : Waits(c, f, g) /\ h.at = g.at => Waits(c, f, h)
BY DEF Waits

LEMMA FramedSame ==
  \A f, g, i : Framed(f, i) /\ IsFrame(g) /\ g.op = f.op => Framed(g, i)
BY DEF Framed

LEMMA TopChanged ==
  ASSUME NEW c, NEW st, NEW p, InStep(c, st, p),
         NEW f, IsFrame(f), f.op = Bytes!Last(st).op, f.at = Bytes!Last(st).at,
         NEW q, Goes(c, f, q), NEW st2, st2 = Append(Bytes!Front(st), f)
  PROVE  InStep(c, st2, q)
<1>1. /\ IsSequence(st) /\ st # <<>>
      /\ \A i \in 1..Len(st) : Framed(st[i], i)
      /\ \A i \in 1..(Len(st) - 1) : Waits(c, st[i], st[i + 1])
  BY DEF InStep
<1>2. Len(st) \in Nat /\ Len(st) > 0 /\ f.op = st[Len(st)].op /\ f.at = st[Len(st)].at
  BY <1>1, StackIs
<1>3. /\ IsSequence(st2) /\ st2 # <<>> /\ Len(st2) = Len(st) /\ st2[Len(st)] = f
      /\ \A i \in 1..(Len(st) - 1) : st2[i] = st[i]
  BY <1>1, Replaced DEF TopIs
<1>4. ASSUME NEW i \in 1..Len(st2) PROVE Framed(st2[i], i)
  <2>1. CASE i = Len(st)
    BY <1>1, <1>2, <1>3, <2>1, FramedSame
  <2>2. CASE i # Len(st)
    <3>1. i \in 1..(Len(st) - 1) /\ i \in 1..Len(st)
      BY <1>2, <1>3, <2>2
    <3> QED
      BY <1>1, <1>3, <3>1
  <2> QED
    BY <2>1, <2>2
<1>5. ASSUME NEW i \in 1..(Len(st2) - 1) PROVE Waits(c, st2[i], st2[i + 1])
  <2>1. i \in 1..(Len(st) - 1)
    BY <1>3
  <2>2. st2[i] = st[i] /\ Waits(c, st[i], st[i + 1])
    BY <1>1, <1>3, <2>1
  <2>3. CASE i + 1 = Len(st)
    BY <1>2, <1>3, <2>2, <2>3, WaitsSame
  <2>4. CASE i + 1 # Len(st)
    <3>1. i + 1 \in 1..(Len(st) - 1)
      BY <1>2, <2>1, <2>4
    <3> QED
      BY <1>3, <2>2, <3>1
  <2> QED
    BY <2>3, <2>4
<1>6. Goes(c, st2[Len(st2)], q)
  BY <1>3
<1> QED
  BY <1>3, <1>4, <1>5, <1>6 DEF InStep

LEMMA TopOpens ==
  ASSUME NEW c, NEW st, NEW p, InStep(c, st, p),
         NEW f, IsFrame(f), f.op # "BODY", Waits(c, Bytes!Last(st), f),
         NEW q, Goes(c, f, q)
  PROVE  InStep(c, Append(st, f), q)
<1>1. /\ IsSequence(st) /\ st # <<>>
      /\ \A i \in 1..Len(st) : Framed(st[i], i)
      /\ \A i \in 1..(Len(st) - 1) : Waits(c, st[i], st[i + 1])
  BY DEF InStep
<1>2. Len(st) \in Nat /\ Len(st) > 0 /\ Waits(c, st[Len(st)], f)
  BY <1>1, StackIs
<1> DEFINE st2 == Append(st, f)
<1>3. /\ IsSequence(st2) /\ Len(st2) = Len(st) + 1 /\ st2 # <<>> /\ st2[Len(st) + 1] = f
      /\ \A i \in 1..Len(st) : st2[i] = st[i]
  BY <1>1, Pushed
<1> HIDE DEF st2
<1>4. ASSUME NEW i \in 1..Len(st2) PROVE Framed(st2[i], i)
  <2>1. CASE i = Len(st) + 1
    BY <1>2, <1>3, <2>1 DEF Framed
  <2>2. CASE i # Len(st) + 1
    <3>1. i \in 1..Len(st)
      BY <1>2, <1>3, <2>2
    <3> QED
      BY <1>1, <1>3, <3>1
  <2> QED
    BY <2>1, <2>2
<1>5. ASSUME NEW i \in 1..(Len(st2) - 1) PROVE Waits(c, st2[i], st2[i + 1])
  <2>1. i \in 1..Len(st) /\ st2[i] = st[i]
    BY <1>2, <1>3
  <2>2. CASE i = Len(st)
    BY <1>2, <1>3, <2>1, <2>2
  <2>3. CASE i # Len(st)
    <3>1. i \in 1..(Len(st) - 1) /\ i + 1 \in 1..Len(st)
      BY <1>2, <2>1, <2>3
    <3> QED
      BY <1>1, <1>3, <2>1, <3>1
  <2> QED
    BY <2>2, <2>3
<1>6. Goes(c, st2[Len(st2)], q)
  BY <1>3
<1>7. InStep(c, st2, q)
  BY <1>3, <1>4, <1>5, <1>6 DEF InStep
<1> QED
  BY <1>7 DEF st2

LEMMA TopEnters ==
  ASSUME NEW c, NEW st, NEW p, InStep(c, st, p),
         NEW f, IsFrame(f), f.op = Bytes!Last(st).op, f.at = Bytes!Last(st).at,
         NEW g, IsFrame(g), g.op # "BODY", Waits(c, f, g), NEW q, Goes(c, g, q),
         NEW st2, st2 = Bytes!Front(st) \o <<f, g>>
  PROVE  InStep(c, st2, q)
<1>1. /\ IsSequence(st) /\ st # <<>>
      /\ \A i \in 1..Len(st) : Framed(st[i], i)
      /\ \A i \in 1..(Len(st) - 1) : Waits(c, st[i], st[i + 1])
  BY DEF InStep
<1>2. Len(st) \in Nat /\ Len(st) > 0 /\ f.op = st[Len(st)].op /\ f.at = st[Len(st)].at
  BY <1>1, StackIs
<1>3. /\ IsSequence(st2) /\ st2 # <<>> /\ Len(st2) = Len(st) + 1
      /\ st2[Len(st)] = f /\ st2[Len(st) + 1] = g
      /\ \A i \in 1..(Len(st) - 1) : st2[i] = st[i]
  BY <1>1, Entered DEF TopsAre
<1>4. ASSUME NEW i \in 1..Len(st2) PROVE Framed(st2[i], i)
  <2>1. CASE i = Len(st)
    <3>1. Len(st) \in 1..Len(st)
      BY <1>2
    <3>2. Framed(st[Len(st)], Len(st))
      BY <1>1, <3>1
    <3> QED
      BY <1>2, <1>3, <2>1, <3>2, FramedSame
  <2>2. CASE i = Len(st) + 1
    <3>1. i # 1 /\ st2[i] = g
      BY <1>2, <1>3, <2>2, OneOrMore
    <3> QED
      BY <3>1 DEF Framed
  <2>3. CASE i # Len(st) /\ i # Len(st) + 1
    <3>1. i \in 1..(Len(st) - 1) /\ i \in 1..Len(st)
      BY <1>2, <1>3, <2>3
    <3> QED
      BY <1>1, <1>3, <3>1
  <2> QED
    BY <2>1, <2>2, <2>3
<1>5. ASSUME NEW i \in 1..(Len(st2) - 1) PROVE Waits(c, st2[i], st2[i + 1])
  <2>1. i \in 1..Len(st)
    BY <1>2, <1>3
  <2>2. CASE i = Len(st)
    BY <1>3, <2>2
  <2>3. CASE i # Len(st)
    <3>1. i \in 1..(Len(st) - 1)
      BY <1>2, <2>1, <2>3
    <3>2. st2[i] = st[i] /\ Waits(c, st[i], st[i + 1])
      BY <1>1, <1>3, <3>1
    <3>3. CASE i + 1 = Len(st)
      BY <1>2, <1>3, <3>2, <3>3, WaitsSame
    <3>4. CASE i + 1 # Len(st)
      <4>1. i + 1 \in 1..(Len(st) - 1)
        BY <1>2, <3>1, <3>4
      <4> QED
        BY <1>3, <3>2, <4>1
    <3> QED
      BY <3>3, <3>4
  <2> QED
    BY <2>2, <2>3
<1>6. Goes(c, st2[Len(st2)], q)
  BY <1>3
<1> QED
  BY <1>3, <1>4, <1>5, <1>6 DEF InStep

\* What a construct has still to read once a part of it has given something.
LEMMA ReceivedIs ==
  ASSUME NEW f, IsFrame(f), f.todo # <<>>, NEW v, ~Bytes!Derails(f, v),
         IsSequence(f.todo)
  PROVE  /\ IsFrame(Bytes!Received(f, v))
         /\ Bytes!Received(f, v).op = f.op /\ Bytes!Received(f, v).at = f.at
         /\ Bytes!Received(f, v).todo = After(f.todo)
<1> DEFINE head == Head(f.todo)
           g == [f EXCEPT !.todo = Tail(@), !.res = Append(@, v)]
           r == Bytes!Received(f, v)
           Right(h) == IsFrame(h) /\ h.op = f.op /\ h.at = f.at /\ h.todo = After(f.todo)
<1>1. f = [op |-> f.op, at |-> f.at, todo |-> f.todo, res |-> f.res, mode |-> f.mode]
  BY DEF IsFrame
<1>2. g = [op |-> f.op, at |-> f.at, todo |-> Tail(f.todo), res |-> Append(f.res, v), mode |-> f.mode]
  <2> DEFINE t == Tail(f.todo)
             a == Append(f.res, v)
  <2>1. g = [f EXCEPT !.todo = t, !.res = a]
    BY <1>1
  <2> HIDE DEF t, a, g
  <2>2. g = [op |-> f.op, at |-> f.at, todo |-> t, res |-> a, mode |-> f.mode]
    BY <1>1, <2>1
  <2> QED
    BY <2>2 DEF t, a
<1>2a. g.op = f.op /\ g.at = f.at /\ g.todo = Tail(f.todo) /\ IsFrame(g)
  <2> HIDE DEF g
  <2> QED
    BY <1>2 DEF IsFrame
<1>2b. r = CASE head = "stmts" -> f
             [] head = "again" -> f
             [] head \in {"branch", "else", "catch"} -> [f EXCEPT !.todo = Tail(@)]
             [] head = "arg" /\ v = "null" /\ (f.op = "ARRAY_LITERAL" \/ f.mode = "lazy")
                  -> [g EXCEPT !.todo = <<>>]
             [] head = "arg" /\ v = "null" /\ f.mode = "collect"
                  -> [g EXCEPT !.todo = Bytes!Repeat("discarded", Len(f.res) - 1 + Len(f.todo))]
             [] OTHER -> g
  BY DEF Bytes!Received
<1> HIDE DEF r
<1>3. CASE head \in {"stmts", "again"}
  <2>1. r = f
    BY <1>2b, <1>3
  <2>2. After(f.todo) = f.todo
    BY <1>3 DEF After
  <2>3. Right(r)
    BY <2>1, <2>2
  <2> QED
    BY <2>3 DEF r
<1>4. CASE head \in {"branch", "else", "catch"}
  <2> DEFINE h == [f EXCEPT !.todo = Tail(@)]
  <2>1. r = h
    BY <1>2b, <1>4
  <2>2. After(f.todo) = Tail(f.todo)
    BY <1>4 DEF After
  <2>3. h.op = f.op /\ h.at = f.at /\ h.todo = Tail(f.todo) /\ IsFrame(h)
    BY <1>1 DEF IsFrame
  <2> HIDE DEF h, r
  <2>4. Right(r)
    BY <2>1, <2>2, <2>3
  <2> QED
    BY <2>4 DEF r
<1>5. CASE head \notin {"stmts", "again", "branch", "else", "catch"}
  <2>1. After(f.todo) = Tail(f.todo)
    BY <1>5 DEF After
  <2>2. CASE head = "arg" /\ v = "null" /\ (f.op = "ARRAY_LITERAL" \/ f.mode = "lazy")
    <3> DEFINE h == [g EXCEPT !.todo = <<>>]
    <3>1. r = h
      <4>1. head = "arg" /\ v = "null" /\ (f.op = "ARRAY_LITERAL" \/ f.mode = "lazy")
        BY <2>2
      <4>2. head \notin {"stmts", "again", "branch", "else", "catch"}
        BY <1>5
      <4>3. f.mode # "collect"
        BY <4>1 DEF Bytes!Derails
      <4> HIDE DEF g, head
      <4> QED
        BY <1>2b, <4>1, <4>2, <4>3
    <3>2. h.op = f.op /\ h.at = f.at /\ h.todo = <<>> /\ IsFrame(h)
      <4> DEFINE a == Append(f.res, v)
      <4>1. g = [op |-> f.op, at |-> f.at, todo |-> Tail(f.todo), res |-> a, mode |-> f.mode]
        BY <1>2
      <4> HIDE DEF a, g
      <4>2. h = [op |-> f.op, at |-> f.at, todo |-> <<>>, res |-> a, mode |-> f.mode]
        BY <4>1
      <4> HIDE DEF h
      <4> QED
        BY <4>2 DEF IsFrame
    <3>3. ~(Len(f.todo) > 1)
      BY <2>2 DEF Bytes!Derails
    <3>4. Tail(f.todo) = <<>>
      <4> DEFINE t == f.todo
      <4>1. PICK S : t \in Seq(S)
        BY DEF IsSequence
      <4>2. t # <<>> /\ ~(Len(t) > 1)
        BY <3>3
      <4> HIDE DEF t
      <4>3. Len(t) = 1
        <5>1. Len(t) \in Nat /\ Len(t) > 0
          BY <4>1, <4>2
        <5> QED
          BY <4>2, <5>1, OneOrMore
      <4>4. Tail(t) \in Seq(S) /\ Len(Tail(t)) = 0
        BY <4>1, <4>2, <4>3
      <4>5. Tail(t) = <<>>
        BY <4>4, NothingIs
      <4> QED
        BY <4>5 DEF t
    <3> HIDE DEF h, r
    <3>5. Right(r)
      BY <2>1, <3>1, <3>2, <3>4
    <3> QED
      BY <3>5 DEF r
  <2>3. CASE ~(head = "arg" /\ v = "null" /\ (f.op = "ARRAY_LITERAL" \/ f.mode = "lazy"))
    <3>1. ~(head = "arg" /\ v = "null" /\ f.mode = "collect")
      BY DEF Bytes!Derails
    <3>2. r = g
      <4> HIDE DEF g, head
      <4> QED
        BY <1>2b, <1>5, <2>3, <3>1
    <3> HIDE DEF g, r
    <3>3. Right(r)
      BY <1>2a, <2>1, <3>2
    <3> QED
      BY <3>3 DEF r
  <2> QED
    BY <2>2, <2>3
<1> QED
  BY <1>3, <1>4, <1>5

\* What is still to be read is a sequence.
LEMMA GoingSeq ==
  ASSUME NEW c, NEW op, NEW at, NEW todo, NEW p, Going(c, op, at, todo, p)
  PROVE  IsSequence(todo)
<1>1. CASE Straight(c, op, at, todo, p)
  BY <1>1 DEF Straight, IsSequence
<1>2. CASE Looping(c, at, todo, p)
  <2> DEFINE S == {"specs", "spec", "cond", "loop", "again", "conditional_end"}
  <2>1. /\ <<"specs", "conditional_end">> \in Seq(S)
        /\ <<"spec", "conditional_end">> \in Seq(S)
        /\ <<"cond", "loop", "conditional_end">> \in Seq(S)
        /\ <<"loop", "conditional_end">> \in Seq(S)
        /\ <<"again", "conditional_end">> \in Seq(S)
    OBVIOUS
  <2> HIDE DEF S
  <2>2. todo \in Seq(S)
    BY <1>2, <2>1, Zenon DEF Looping
  <2> QED
    BY <2>2 DEF IsSequence
<1> QED
  BY <1>1, <1>2 DEF Going

LEMMA TopLeaves ==
  ASSUME NEW c, NEW st, NEW p, InStep(c, st, p), Bytes!Last(st).op # "BODY",
         NEW v, ~Bytes!Derails(st[Len(st) - 1], v),
         NEW st2, st2 = Append(Bytes!Front(Bytes!Front(st)), Bytes!Received(st[Len(st) - 1], v))
  PROVE  InStep(c, st2, Bytes!EndAt(c, Bytes!Last(st).at))
<1> DEFINE n == Len(st) - 1
           f == st[n]
           r == Bytes!Received(f, v)
           q == Bytes!EndAt(c, Bytes!Last(st).at)
<1>1. /\ IsSequence(st) /\ st # <<>>
      /\ \A i \in 1..Len(st) : Framed(st[i], i)
      /\ \A i \in 1..(Len(st) - 1) : Waits(c, st[i], st[i + 1])
  BY DEF InStep
<1>2. Len(st) \in Nat /\ Len(st) > 0 /\ Bytes!Last(st) = st[Len(st)]
  BY <1>1, StackIs
<1>3. Len(st) > 1
  <2>1. Framed(st[Len(st)], Len(st))
    BY <1>1, <1>2
  <2>2. Len(st) # 1
    BY <1>2, <2>1 DEF Framed
  <2> QED
    BY <1>2, <2>2, OneOrMore
<1>4. n \in Nat /\ n > 0 /\ n \in 1..Len(st) /\ n \in 1..(Len(st) - 1) /\ n + 1 = Len(st)
  BY <1>2, <1>3
<1>5. Framed(f, n) /\ Waits(c, f, st[Len(st)])
  BY <1>1, <1>4
<1>6. IsFrame(f) /\ f.todo # <<>> /\ IsSequence(f.todo)
  BY <1>5 DEF Framed, Waits
<1>7. IsFrame(r) /\ r.op = f.op /\ r.at = f.at /\ r.todo = After(f.todo)
  BY <1>6, ReceivedIs
<1>8. Goes(c, r, q)
  BY <1>2, <1>5, <1>7 DEF Goes, Waits
<1> DEFINE st3 == Append(Bytes!Front(Bytes!Front(st)), r)
<1>9. /\ IsSequence(st3) /\ st3 # <<>> /\ Len(st3) = n /\ st3[n] = r
      /\ \A i \in 1..(Len(st) - 2) : st3[i] = st[i]
  <2>1. IsSequence(st) /\ st # <<>> /\ Len(st) > 1
    BY <1>1, <1>3
  <2> HIDE DEF r
  <2> QED
    BY <2>1, Left DEF LeftIs
<1> HIDE DEF st3, r, f, q, n
<1>10. ASSUME NEW i \in 1..Len(st3) PROVE Framed(st3[i], i)
  <2>1. CASE i = n
    BY <1>5, <1>7, <1>9, <2>1, FramedSame
  <2>2. CASE i # n
    <3>1. i \in 1..(Len(st) - 2) /\ i \in 1..Len(st)
      BY <1>2, <1>4, <1>9, <2>2
    <3> QED
      BY <1>1, <1>9, <3>1
  <2> QED
    BY <2>1, <2>2
<1>11. ASSUME NEW i \in 1..(Len(st3) - 1) PROVE Waits(c, st3[i], st3[i + 1])
  <2>1. i \in 1..(Len(st) - 2) /\ i \in 1..(Len(st) - 1)
    BY <1>2, <1>4, <1>9
  <2>2. st3[i] = st[i] /\ Waits(c, st[i], st[i + 1])
    BY <1>1, <1>9, <2>1
  <2>3. CASE i + 1 = n
    <3>1. st3[i + 1] = r /\ st[i + 1] = f
      BY <1>9, <2>3 DEF f
    <3> QED
      BY <1>7, <2>2, <3>1, WaitsSame
  <2>4. CASE i + 1 # n
    <3>1. i + 1 \in 1..(Len(st) - 2)
      BY <1>2, <1>4, <2>1, <2>4
    <3> QED
      BY <1>9, <2>2, <3>1
  <2> QED
    BY <2>3, <2>4
<1>12. Goes(c, st3[Len(st3)], q)
  BY <1>8, <1>9
<1>13. InStep(c, st3, q)
  BY <1>9, <1>10, <1>11, <1>12 DEF InStep
<1>14. st3 = st2
  BY DEF st3, r, f, n
<1> QED
  BY <1>13, <1>14 DEF q

\* What is skipped of it.
LEMMA SkippedWhole ==
  ASSUME NEW c, Aligned(c), NEW p, IsNode(c, p)
  PROVE  /\ c[p].op \in ExprOps => Bytes!SkipTo(c, <<"e">>, p) = Behind(c, p)
         /\ c[p].op = "BLOCK_BEGIN" => Bytes!SkipTo(c, <<"block">>, p) = Behind(c, p)
         /\ c[p].op \in Stmts => Bytes!SkipTo(c, Bytes!SkippedStmt(c[p].op), p + 1) = Behind(c, p)
<1>1. c \in Seq(Tokens)
  BY DEF Aligned
<1>2. /\ p \in Nat /\ Behind(c, p) \in Nat /\ Bytes!EndAt(c, p) = Behind(c, p)
      /\ c[p].op \in Stmts \cup {"BLOCK_BEGIN"} /\ Behind(c, p) = p + c[p].size
      /\ p \in DOMAIN c /\ c[p].t = "op"
  BY <1>1, NodeIs DEF Behind, IsNode
<1>3. ASSUME NEW item \in {"e", "block"},
             item = "e" => c[p].op \in ExprOps, item = "block" => c[p].op = "BLOCK_BEGIN"
      PROVE  Bytes!SkipTo(c, <<item>>, p) = Behind(c, p)
  <2> DEFINE s == <<item>>
             x == <<s, p>>
             y == <<<<>>, Behind(c, p)>>
  <2>1. s \in Seq(Bytes!SkipItems) /\ s # <<>> /\ Head(s) = item /\ Tail(s) = <<>>
    <3>1. item \in Bytes!SkipItems
      BY DEF Bytes!SkipItems
    <3> QED
      BY <3>1, SomeItems, ShortSequences
  <2>2. y \in Places
    BY <1>2, EndsArePlaces
  <2> HIDE DEF s
  <2>3. x \in Places
    BY <1>2, <2>1 DEF Places
  <2>4. x[1] = s /\ x[2] = p
    OBVIOUS
  <2> HIDE DEF x
  <2>5. Moves(c, x, y)
    BY <1>2, <1>3, <2>1, <2>4 DEF Moves, Bytes!OpensBlock
  <2>6. Leads(Tokenwise(c), <<Contents(c[x[2]].op), x[2] + 1>>, <<<<>>, Behind(c, x[2])>>)
    BY <2>4, NodesRead
  <2> HIDE DEF y
  <2>7. Leads(Tokenwise(c), x, y)
    BY <1>1, <2>2, <2>3, <2>5, <2>6, MovesRead
  <2>8. Leads(Tokenwise(c), <<s, p>>, <<<<>>, Behind(c, p)>>)
    BY <2>7 DEF x, y
  <2>9. Bytes!SkipTo(c, s, p) = Behind(c, p)
    BY <1>1, <1>2, <2>1, <2>8, SkipToIs
  <2> QED
    BY <2>9 DEF s
<1>4. ASSUME c[p].op \in Stmts
      PROVE  Bytes!SkipTo(c, Bytes!SkippedStmt(c[p].op), p + 1) = Behind(c, p)
  <2>1. ~Bytes!OpensBlock(c[p])
    BY <1>4, OpsApart DEF Stmts, Bytes!OpensBlock
  <2> QED
    BY <1>2, <2>1, SkippingFollows
<1> QED
  BY <1>3, <1>4

(* The reader in step with what it reads.                                  *)
InBytes ==
  /\ code \in Programs /\ derailed \in BOOLEAN
  /\ derailed = FALSE => /\ astray = FALSE /\ missed = FALSE /\ status # "garbled"
                         /\ InStep(code, stack, pos)
OutOfBytes == astray = FALSE /\ missed = FALSE /\ status = "done"
Readers == IF side = "bytes" THEN InBytes ELSE OutOfBytes

\* The construct that is being read.
LEMMA TopIsFine ==
  ASSUME InBytes, derailed = FALSE, \A c \in Programs : Emitted(c)
  PROVE  /\ Aligned(code) /\ code \in Seq(Tokens) /\ IsSequence(stack) /\ stack # <<>>
         /\ IsFrame(Bytes!Top) /\ Going(code, Bytes!Top.op, Bytes!Top.at, Bytes!Top.todo, pos)
         /\ pos \in Nat
         /\ \A p : IsNode(code, p) => Bytes!EndAt(code, p) = Behind(code, p)
         /\ \A p : IsNode(code, p) =>
              /\ Bytes!TokenAt(code, p) = code[p] /\ Bytes!IsCode(code[p])
              /\ Bytes!OpcodeOf(code[p]) = code[p].op
         /\ Bytes!Tok = Bytes!TokenAt(code, pos)
         /\ \A p \in DOMAIN code : Bytes!TokenAt(code, p) = code[p]
<1>1. Aligned(code)
  BY EmittedIsAligned DEF InBytes
<1>2. code \in Seq(Tokens)
  BY <1>1 DEF Aligned
<1>3. InStep(code, stack, pos)
  BY DEF InBytes
<1>4. IsSequence(stack) /\ stack # <<>> /\ Goes(code, stack[Len(stack)], pos)
      /\ \A i \in 1..Len(stack) : Framed(stack[i], i)
  BY <1>3 DEF InStep
<1>5. Len(stack) \in Nat /\ Len(stack) > 0 /\ Bytes!Top = stack[Len(stack)]
  BY <1>4, StackIs DEF Bytes!Top
<1>6. Len(stack) \in 1..Len(stack)
  BY <1>5
<1>7. IsFrame(Bytes!Top)
  BY <1>4, <1>5, <1>6 DEF Framed
<1>8. Going(code, Bytes!Top.op, Bytes!Top.at, Bytes!Top.todo, pos)
  BY <1>4, <1>5 DEF Goes
<1>9. pos \in Nat
  BY <1>8 DEF Going
<1>10. \A p : IsNode(code, p) => Bytes!EndAt(code, p) = Behind(code, p)
  BY <1>2, NodeIs
<1>11. \A p : IsNode(code, p) =>
              /\ Bytes!TokenAt(code, p) = code[p] /\ Bytes!IsCode(code[p])
              /\ Bytes!OpcodeOf(code[p]) = code[p].op
  BY DEF IsNode, Bytes!TokenAt, Bytes!IsCode, Bytes!OpcodeOf
<1>12. Bytes!Tok = Bytes!TokenAt(code, pos) /\ \A p \in DOMAIN code : Bytes!TokenAt(code, p) = code[p]
  BY DEF Bytes!Tok, Bytes!TokenAt
<1> QED
  BY <1>1, <1>2, <1>4, <1>7, <1>8, <1>9, <1>10, <1>11, <1>12

LEMMA TopFinds ==
  ASSUME InBytes, derailed = FALSE, \A c \in Programs : Emitted(c), Bytes!Top.todo # <<>>
  PROVE  FindsNext(code, Bytes!Top.op, Bytes!Top.at, Bytes!Top.todo, pos)
<1>1. code \in Seq(Tokens) /\ Going(code, Bytes!Top.op, Bytes!Top.at, Bytes!Top.todo, pos)
  BY TopIsFine
<1> QED
  BY <1>1, Finds

LEMMA FrameChanged ==
  ASSUME NEW f, IsFrame(f), NEW a, NEW b
  PROVE  /\ [f EXCEPT !.todo = a]
              = [op |-> f.op, at |-> f.at, todo |-> a, res |-> f.res, mode |-> f.mode]
         /\ [f EXCEPT !.todo = a, !.res = b]
              = [op |-> f.op, at |-> f.at, todo |-> a, res |-> b, mode |-> f.mode]
         /\ [f EXCEPT !.todo = a, !.mode = b]
              = [op |-> f.op, at |-> f.at, todo |-> a, res |-> f.res, mode |-> b]
         /\ [f EXCEPT !.mode = b]
              = [op |-> f.op, at |-> f.at, todo |-> f.todo, res |-> f.res, mode |-> b]
<1>1. f = [op |-> f.op, at |-> f.at, todo |-> f.todo, res |-> f.res, mode |-> f.mode]
  BY DEF IsFrame
<1>2. [f EXCEPT !.todo = a] = [op |-> f.op, at |-> f.at, todo |-> a, res |-> f.res, mode |-> f.mode]
  BY <1>1
<1>3. [f EXCEPT !.todo = a, !.res = b]
        = [op |-> f.op, at |-> f.at, todo |-> a, res |-> b, mode |-> f.mode]
  <2> DEFINE g == [f EXCEPT !.todo = a, !.res = b]
  <2>1. g = [f EXCEPT !.todo = a, !.res = b]
    OBVIOUS
  <2> HIDE DEF g
  <2>2. g = [op |-> f.op, at |-> f.at, todo |-> a, res |-> b, mode |-> f.mode]
    BY <1>1, <2>1
  <2> QED
    BY <2>2 DEF g
<1>4. [f EXCEPT !.todo = a, !.mode = b]
        = [op |-> f.op, at |-> f.at, todo |-> a, res |-> f.res, mode |-> b]
  <2> DEFINE g == [f EXCEPT !.todo = a, !.mode = b]
  <2>1. g = [f EXCEPT !.todo = a, !.mode = b]
    OBVIOUS
  <2> HIDE DEF g
  <2>2. g = [op |-> f.op, at |-> f.at, todo |-> a, res |-> f.res, mode |-> b]
    BY <1>1, <2>1
  <2> QED
    BY <2>2 DEF g
<1>5. [f EXCEPT !.mode = b]
        = [op |-> f.op, at |-> f.at, todo |-> f.todo, res |-> f.res, mode |-> b]
  BY <1>1
<1> QED
  BY <1>2, <1>3, <1>4, <1>5

Kept ==
  /\ code' = code /\ derailed' \in BOOLEAN
  /\ derailed' = FALSE => /\ astray' = FALSE /\ missed' = FALSE /\ status' # "garbled"
                          /\ InStep(code, stack', pos')

LEMMA KeptIs == InBytes /\ Kept => InBytes'
BY DEF InBytes, Kept

LEMMA ChangeKeeps ==
  ASSUME InBytes, derailed = FALSE, \A c \in Programs : Emitted(c),
         NEW f, IsFrame(f), f.op = Bytes!Top.op, f.at = Bytes!Top.at,
         Going(code, f.op, f.at, f.todo, pos'), Bytes!ReplaceTop(f),
         code' = code, derailed' = derailed, astray' = FALSE, missed' = missed, status' = status
  PROVE  Kept
<1>1. missed = FALSE /\ status # "garbled" /\ InStep(code, stack, pos)
  BY DEF InBytes
<1>2. f.op = Bytes!Last(stack).op /\ f.at = Bytes!Last(stack).at
  BY DEF Bytes!Top
<1>3. Goes(code, f, pos')
  BY DEF Goes
<1>4. stack' = Append(Bytes!Front(stack), f)
  BY DEF Bytes!ReplaceTop
<1>5. InStep(code, stack', pos')
  BY <1>1, <1>2, <1>3, <1>4, TopChanged
<1> QED
  BY <1>1, <1>5 DEF Kept

LEMMA EnterKeeps ==
  ASSUME InBytes, derailed = FALSE, \A c \in Programs : Emitted(c),
         NEW op, op # "BODY", NEW todo, Going(code, op, pos, todo, pos + 1),
         Bytes!Top.todo # <<>>,
         Going(code, Bytes!Top.op, Bytes!Top.at, After(Bytes!Top.todo), Bytes!EndAt(code, pos)),
         Bytes!Enter(Bytes!Frame(op, pos, todo)), derailed' = derailed
  PROVE  Kept
<1> DEFINE f == Bytes!Frame(op, pos, todo)
           t == Bytes!Top
<1>1. astray = FALSE /\ missed = FALSE /\ status # "garbled" /\ InStep(code, stack, pos)
  BY DEF InBytes
<1>2. /\ stack' = Append(stack, f) /\ pos' = pos + 1
      /\ code' = code /\ astray' = astray /\ missed' = missed /\ status' = status
  BY DEF Bytes!Enter
<1>3. f.op = op /\ f.at = pos /\ f.todo = todo /\ IsFrame(f)
  BY DEF Bytes!Frame, IsFrame
<1>4. IsSequence(t.todo)
  BY TopIsFine, GoingSeq
<1>5. Waits(code, t, f)
  BY <1>3, <1>4 DEF Waits
<1>6. Goes(code, f, pos + 1)
  BY <1>3 DEF Goes
<1>7. f.op # "BODY" /\ Waits(code, Bytes!Last(stack), f)
  BY <1>3, <1>5 DEF Bytes!Top
<1> HIDE DEF f, t
<1>8. InStep(code, Append(stack, f), pos + 1)
  BY <1>1, <1>3, <1>6, <1>7, TopOpens
<1> QED
  BY <1>1, <1>2, <1>8 DEF Kept

LEMMA LeaveKeeps ==
  ASSUME InBytes, derailed = FALSE, \A c \in Programs : Emitted(c),
         Bytes!Top.op # "BODY", NEW v, NEW q, q = Bytes!EndAt(code, Bytes!Top.at),
         Bytes!Leave(v, q)
  PROVE  Kept
<1> DEFINE f == stack[Len(stack) - 1]
<1>1. astray = FALSE /\ missed = FALSE /\ status # "garbled" /\ InStep(code, stack, pos)
  BY DEF InBytes
<1>2. /\ stack' = Append(Bytes!Front(Bytes!Front(stack)), Bytes!Received(f, v)) /\ pos' = q
      /\ code' = code /\ missed' = missed /\ status' = status
      /\ astray' = (astray \/ q # Bytes!EndAt(code, Bytes!Top.at))
      /\ derailed' = (derailed \/ Bytes!Derails(f, v))
  BY DEF Bytes!Leave
<1>3. derailed' \in BOOLEAN /\ astray' = FALSE
  BY <1>1, <1>2
<1>4. ASSUME ~Bytes!Derails(f, v) PROVE InStep(code, stack', pos')
  <2>1. Bytes!Last(stack).op # "BODY" /\ q = Bytes!EndAt(code, Bytes!Last(stack).at)
    BY DEF Bytes!Top
  <2>2. InStep(code, stack', Bytes!EndAt(code, Bytes!Last(stack).at))
    BY <1>1, <1>2, <1>4, <2>1, TopLeaves
  <2> QED
    BY <1>2, <2>1, <2>2
<1> QED
  BY <1>1, <1>2, <1>3, <1>4 DEF Kept
-----------------------------------------------------------------------------
(* Every step of the evaluator keeps the reader in step.                   *)
LEMMA OperandKeeps ==
  ASSUME InBytes, derailed = FALSE, \A c \in Programs : Emitted(c), Bytes!ReadOperand
  PROVE  Kept
<1> DEFINE t == Bytes!Top
           todo == Bytes!Executed(Head(t.todo), code[pos]) \o Tail(t.todo)
<1>1. /\ IsFrame(t) /\ Going(code, t.op, t.at, t.todo, pos)
      /\ Bytes!Tok = Bytes!TokenAt(code, pos) /\ \A p \in DOMAIN code : Bytes!TokenAt(code, p) = code[p]
      /\ code \in Seq(Tokens)
  BY TopIsFine
<1>2. t.todo # <<>> /\ Head(t.todo) \in Bytes!Operands
  BY DEF Bytes!ReadOperand, Bytes!Reading, Bytes!Item
<1>3. pos \in DOMAIN code /\ Going(code, t.op, t.at, todo, pos + 1)
  BY <1>2, TopFinds DEF FindsNext
<1>4. Bytes!Tok = code[pos]
  BY <1>1, <1>3
<1>5. PICK m : Bytes!ReplaceTop([t EXCEPT !.todo = Bytes!Executed(Bytes!Item, Bytes!Tok) \o Tail(@),
                                          !.mode = m])
  BY DEF Bytes!ReadOperand
<1> DEFINE f == [op |-> t.op, at |-> t.at, todo |-> todo, res |-> t.res, mode |-> m]
<1>6. Bytes!ReplaceTop(f)
  <2>1. t = [op |-> t.op, at |-> t.at, todo |-> t.todo, res |-> t.res, mode |-> t.mode]
    BY <1>1 DEF IsFrame
  <2>2. todo = Bytes!Executed(Bytes!Item, Bytes!Tok) \o Tail(t.todo)
    BY <1>4 DEF Bytes!Item
  <2>3. [t EXCEPT !.todo = Bytes!Executed(Bytes!Item, Bytes!Tok) \o Tail(@), !.mode = m]
          = [t EXCEPT !.todo = todo, !.mode = m]
    BY <2>1, <2>2
  <2> HIDE DEF todo
  <2>4. [t EXCEPT !.todo = todo, !.mode = m] = f
    BY <1>1, FrameChanged
  <2> HIDE DEF f
  <2>5. Bytes!ReplaceTop([t EXCEPT !.todo = Bytes!Executed(Bytes!Item, Bytes!Tok) \o Tail(@), !.mode = m])
    BY <1>5 DEF t
  <2> QED
    BY <2>3, <2>4, <2>5
<1>7. IsFrame(f) /\ f.op = t.op /\ f.at = t.at /\ f.todo = todo
  BY DEF IsFrame
<1>8. /\ pos' = pos + 1 /\ code' = code /\ derailed' = derailed /\ astray' = astray
      /\ missed' = missed /\ status' = status
  BY DEF Bytes!ReadOperand
<1>9. astray' = FALSE
  BY <1>8 DEF InBytes
<1> HIDE DEF f, todo
<1>10. Going(code, f.op, f.at, f.todo, pos')
  BY <1>3, <1>7, <1>8
<1> QED
  BY <1>6, <1>7, <1>8, <1>9, <1>10, ChangeKeeps

LEMMA EvalKeeps ==
  ASSUME InBytes, derailed = FALSE, \A c \in Programs : Emitted(c), Bytes!EvalExpr
  PROVE  Kept
<1> DEFINE t == Bytes!Top
           op == code[pos].op
<1>1. /\ Aligned(code) /\ Going(code, t.op, t.at, t.todo, pos) /\ Bytes!Tok = Bytes!TokenAt(code, pos)
      /\ \A p : IsNode(code, p) => Bytes!EndAt(code, p) = Behind(code, p)
      /\ \A p : IsNode(code, p) =>
           Bytes!TokenAt(code, p) = code[p] /\ Bytes!OpcodeOf(code[p]) = code[p].op
      /\ code \in Seq(Tokens)
  BY TopIsFine
<1>2. t.todo # <<>> /\ Head(t.todo) \in Bytes!ExprItems
  BY DEF Bytes!EvalExpr, Bytes!Reading, Bytes!Item
<1>3. /\ IsNode(code, pos) /\ op \in ExprOps
      /\ Going(code, t.op, t.at, Tail(t.todo), Behind(code, pos))
  BY <1>2, TopFinds DEF FindsNext
<1>4. Bytes!OpcodeOf(Bytes!Tok) = op /\ Bytes!EndAt(code, pos) = Behind(code, pos)
  BY <1>1, <1>3
<1>5. op # "BODY"
  BY <1>3, EvalExprsAre DEF ReferenceOps, CallOps, OperatorOps, MemberOps, IndexingOps
<1>6. Bytes!LayoutIn(Bytes!EvalLayouts, op) = Contents(op)
  BY <1>3, EvalLayoutsAre
<1>7. Going(code, op, pos, Contents(op), pos + 1)
  BY <1>1, <1>3, GoingOpened
<1>8. Head(t.todo) \notin {"stmts", "again"}
  BY <1>2 DEF Bytes!ExprItems
<1>9. After(t.todo) = Tail(t.todo)
  BY <1>8 DEF After
<1>10. Bytes!Enter(Bytes!Frame(op, pos, Contents(op))) /\ derailed' = derailed
  BY <1>4, <1>6 DEF Bytes!EvalExpr
<1>11. Going(code, t.op, t.at, After(t.todo), Bytes!EndAt(code, pos))
  BY <1>3, <1>4, <1>9
<1> HIDE DEF op
<1> QED
  BY <1>2, <1>5, <1>7, <1>10, <1>11, EnterKeeps

LEMMA SkipKeeps ==
  ASSUME InBytes, derailed = FALSE, \A c \in Programs : Emitted(c), IsNode(code, pos),
         NEW items, NEW from, Bytes!SkipTo(code, items, from) = Behind(code, pos),
         NEW f, IsFrame(f), f.op = Bytes!Top.op, f.at = Bytes!Top.at,
         Going(code, f.op, f.at, f.todo, Behind(code, pos)), Bytes!Skip(items, pos, from, f)
  PROVE  Kept
<1>1. /\ Behind(code, pos) \in Nat /\ Behind(code, pos) > pos /\ pos \in Nat
      /\ Bytes!EndAt(code, pos) = Behind(code, pos)
  BY TopIsFine, NodeIs
<1>2. Bytes!SkipTo(code, items, from) # 0
  BY <1>1
<1>3. /\ Bytes!ReplaceTop(f) /\ pos' = Behind(code, pos)
      /\ astray' = (astray \/ Behind(code, pos) # Bytes!EndAt(code, pos))
      /\ code' = code /\ derailed' = derailed /\ missed' = missed /\ status' = status
  BY <1>2 DEF Bytes!Skip
<1>4. astray' = FALSE
  BY <1>1, <1>3 DEF InBytes
<1>5. Going(code, f.op, f.at, f.todo, pos')
  BY <1>3
<1> QED
  BY <1>3, <1>4, <1>5, ChangeKeeps

LEMMA PassExprKeeps ==
  ASSUME InBytes, derailed = FALSE, \A c \in Programs : Emitted(c), Bytes!PassExpr
  PROVE  Kept
<1> DEFINE t == Bytes!Top
           rest == Tail(t.todo)
           res == Append(t.res, "skipped")
           f == [op |-> t.op, at |-> t.at, todo |-> rest, res |-> res, mode |-> t.mode]
<1>1. /\ Aligned(code) /\ IsFrame(t) /\ Going(code, t.op, t.at, t.todo, pos) /\ code \in Seq(Tokens)
  BY TopIsFine
<1>2. t.todo # <<>> /\ Head(t.todo) \in Bytes!ExprItems
  BY DEF Bytes!PassExpr, Bytes!Reading, Bytes!Item
<1>3. /\ IsNode(code, pos) /\ code[pos].op \in ExprOps
      /\ Going(code, t.op, t.at, rest, Behind(code, pos))
  BY <1>2, TopFinds DEF FindsNext
<1>4. Bytes!SkipTo(code, <<"e">>, pos) = Behind(code, pos)
  BY <1>1, <1>3, SkippedWhole
<1>5. Bytes!Skip(<<"e">>, pos, pos, [t EXCEPT !.todo = Tail(@), !.res = Append(@, "skipped")])
  BY DEF Bytes!PassExpr
<1>6. t = [op |-> t.op, at |-> t.at, todo |-> t.todo, res |-> t.res, mode |-> t.mode]
  BY <1>1 DEF IsFrame
<1>7. [t EXCEPT !.todo = Tail(@), !.res = Append(@, "skipped")] = f
  <2> DEFINE g == [t EXCEPT !.todo = Tail(@), !.res = Append(@, "skipped")]
  <2>1. g = [t EXCEPT !.todo = rest, !.res = res]
    BY <1>6
  <2> HIDE DEF rest, res, g
  <2>2. g = [op |-> t.op, at |-> t.at, todo |-> rest, res |-> res, mode |-> t.mode]
    BY <1>6, <2>1
  <2> QED
    BY <2>2 DEF g
<1>9. IsFrame(f) /\ f.op = t.op /\ f.at = t.at /\ f.todo = rest
  BY DEF IsFrame
<1> HIDE DEF f, rest, res
<1>10. Bytes!Skip(<<"e">>, pos, pos, f)
  BY <1>5, <1>7
<1>11. Going(code, f.op, f.at, f.todo, Behind(code, pos))
  BY <1>3, <1>9
<1> DEFINE items == <<"e">>
<1>12. Bytes!SkipTo(code, items, pos) = Behind(code, pos) /\ Bytes!Skip(items, pos, pos, f)
  BY <1>4, <1>10
<1> HIDE DEF items
<1> QED
  BY <1>3, <1>9, <1>11, <1>12, SkipKeeps

LEMMA PassBlockKeeps ==
  ASSUME InBytes, derailed = FALSE, \A c \in Programs : Emitted(c), Bytes!PassBlock
  PROVE  Kept
<1> DEFINE t == Bytes!Top
           rest == Tail(t.todo)
           f == [op |-> t.op, at |-> t.at, todo |-> rest, res |-> t.res, mode |-> t.mode]
<1>1. /\ Aligned(code) /\ IsFrame(t) /\ Going(code, t.op, t.at, t.todo, pos) /\ code \in Seq(Tokens)
  BY TopIsFine
<1>2. t.todo # <<>> /\ Head(t.todo) \in Bytes!BlockItems
  BY DEF Bytes!PassBlock, Bytes!AtBlock, Bytes!Reading, Bytes!Item
<1>3. /\ IsNode(code, pos) /\ code[pos].op = "BLOCK_BEGIN"
      /\ Going(code, t.op, t.at, rest, Behind(code, pos))
  BY <1>2, TopFinds DEF FindsNext
<1> DEFINE items == <<"block">>
<1>4. Bytes!SkipTo(code, items, pos) = Behind(code, pos)
  BY <1>1, <1>3, SkippedWhole
<1>5. Bytes!Skip(items, pos, pos, [t EXCEPT !.todo = Tail(@)])
  BY DEF Bytes!PassBlock
<1>6. t = [op |-> t.op, at |-> t.at, todo |-> t.todo, res |-> t.res, mode |-> t.mode]
  BY <1>1 DEF IsFrame
<1>7. [t EXCEPT !.todo = Tail(@)] = f
  <2>1. [t EXCEPT !.todo = Tail(@)] = [t EXCEPT !.todo = rest]
    BY <1>6
  <2> HIDE DEF rest
  <2>2. [t EXCEPT !.todo = rest] = f
    BY <1>1, FrameChanged
  <2> QED
    BY <2>1, <2>2
<1>8. IsFrame(f) /\ f.op = t.op /\ f.at = t.at /\ f.todo = rest
  BY DEF IsFrame
<1> HIDE DEF f, rest, items
<1>9. Bytes!Skip(items, pos, pos, f)
  BY <1>5, <1>7
<1>10. Going(code, f.op, f.at, f.todo, Behind(code, pos))
  BY <1>3, <1>8
<1> QED
  BY <1>3, <1>4, <1>8, <1>9, <1>10, SkipKeeps

LEMMA NeverMisread ==
  ASSUME InBytes, derailed = FALSE, \A c \in Programs : Emitted(c)
  PROVE  ~Bytes!Misread
<1> DEFINE t == Bytes!Top
<1>1. /\ Going(code, t.op, t.at, t.todo, pos) /\ code \in Seq(Tokens)
      /\ Bytes!Tok = Bytes!TokenAt(code, pos) /\ \A p \in DOMAIN code : Bytes!TokenAt(code, p) = code[p]
      /\ \A p : IsNode(code, p) => Bytes!TokenAt(code, p) = code[p] /\ Bytes!IsCode(code[p])
  BY TopIsFine
<1>2. ASSUME Bytes!Reading(Bytes!Operands) PROVE Bytes!Tok.t = Bytes!Wanted(Bytes!Item)
  <2>1. t.todo # <<>> /\ Head(t.todo) \in Bytes!Operands
    BY <1>2 DEF Bytes!Reading, Bytes!Item
  <2>2. pos \in DOMAIN code /\ code[pos].t = Bytes!Wanted(Head(t.todo))
    BY <2>1, TopFinds DEF FindsNext
  <2> QED
    BY <1>1, <2>2 DEF Bytes!Item
<1>3. ASSUME Bytes!Reading(Bytes!ExprItems) \/ Bytes!Reading(Bytes!BlockItems) PROVE Bytes!IsCode(Bytes!Tok)
  <2>1. t.todo # <<>> /\ Head(t.todo) \in Bytes!ExprItems \cup Bytes!BlockItems
    BY <1>3 DEF Bytes!Reading, Bytes!Item
  <2>2. IsNode(code, pos)
    BY <2>1, TopFinds DEF FindsNext
  <2> QED
    BY <1>1, <2>2
<1>4. ASSUME Bytes!Reading({"stmts"}) PROVE Bytes!IsCode(Bytes!Tok) \/ (t.op = "BODY" /\ Bytes!Tok.t = "eof")
  <2>1. t.todo # <<>> /\ Head(t.todo) = "stmts"
    BY <1>4 DEF Bytes!Reading, Bytes!Item
  <2>2. \/ t.op = "BODY" /\ pos = Len(code) + 1
        \/ pos \in DOMAIN code /\ code[pos].t = "end"
        \/ IsNode(code, pos)
    BY <2>1, TopFinds DEF FindsNext
  <2>3. ASSUME pos = Len(code) + 1 PROVE Bytes!Tok.t = "eof"
    <3>1. pos \notin DOMAIN code
      BY <1>1, <2>3
    <3>2. Bytes!Tok = [t |-> "eof"]
      BY <1>1, <3>1 DEF Bytes!TokenAt
    <3> QED
      BY <3>2
  <2>4. ASSUME pos \in DOMAIN code, code[pos].t = "end" PROVE Bytes!IsCode(Bytes!Tok)
    BY <1>1, <2>4 DEF Bytes!IsCode
  <2>5. ASSUME IsNode(code, pos) PROVE Bytes!IsCode(Bytes!Tok)
    BY <1>1, <2>5
  <2> QED
    BY <2>2, <2>3, <2>4, <2>5
<1>5. ASSUME Bytes!Misread PROVE FALSE
  <2>1. CASE Bytes!Reading(Bytes!Operands) /\ Bytes!Tok.t # Bytes!Wanted(Bytes!Item)
    BY <1>2, <2>1
  <2>2. CASE Bytes!Reading(Bytes!ExprItems \cup {"stmts"}) /\ ~Bytes!IsCode(Bytes!Tok)
    <3>1. Bytes!Reading(Bytes!ExprItems) \/ Bytes!Reading({"stmts"})
      BY <2>2 DEF Bytes!Reading
    <3>2. ~(Bytes!Top.op = "BODY" /\ Bytes!Tok.t = "eof")
      BY <1>5 DEF Bytes!Misread
    <3> QED
      BY <1>3, <1>4, <2>2, <3>1, <3>2
  <2>3. CASE Bytes!AtBlock /\ ~Bytes!IsCode(Bytes!Tok)
    BY <1>3, <2>3 DEF Bytes!AtBlock
  <2> QED
    BY <1>5, <2>1, <2>2, <2>3 DEF Bytes!Misread
<1> QED
  BY <1>5

LEMMA NoBlockMissing ==
  ASSUME InBytes, derailed = FALSE, \A c \in Programs : Emitted(c)
  PROVE  ~Bytes!NoBlock
<1> DEFINE t == Bytes!Top
<1>1. /\ Going(code, t.op, t.at, t.todo, pos) /\ code \in Seq(Tokens)
      /\ Bytes!Tok = Bytes!TokenAt(code, pos)
      /\ \A p : IsNode(code, p) => Bytes!TokenAt(code, p) = code[p]
  BY TopIsFine
<1>2. ASSUME Bytes!NoBlock PROVE FALSE
  <2>1. t.todo # <<>> /\ Head(t.todo) \in Bytes!BlockItems /\ ~Bytes!OpensBlock(Bytes!Tok)
    BY <1>2 DEF Bytes!NoBlock, Bytes!AtBlock, Bytes!Reading, Bytes!Item
  <2>2. IsNode(code, pos) /\ code[pos].op = "BLOCK_BEGIN"
    BY <2>1, TopFinds DEF FindsNext
  <2>3. Bytes!OpensBlock(Bytes!Tok)
    BY <1>1, <2>2 DEF Bytes!OpensBlock, IsNode
  <2> QED
    BY <2>1, <2>3
<1> QED
  BY <1>2

\* A construct is left behind its last part, and a block behind its end.
LEMMA DoneKeeps ==
  ASSUME InBytes, derailed = FALSE, \A c \in Programs : Emitted(c),
         Bytes!ExprDone \/ Bytes!StmtDone \/ Bytes!SetReturn
  PROVE  Kept
<1> DEFINE t == Bytes!Top
<1>1. /\ Going(code, t.op, t.at, t.todo, pos) /\ code \in Seq(Tokens)
      /\ \A p : IsNode(code, p) => Bytes!EndAt(code, p) = Behind(code, p)
  BY TopIsFine
<1>2. t.todo = <<>> /\ \E v : Bytes!Leave(v, pos)
  BY DEF Bytes!ExprDone, Bytes!StmtDone, Bytes!SetReturn
<1>3. Going(code, t.op, t.at, <<>>, pos)
  BY <1>1, <1>2
<1>4. t.op # "BODY" /\ IsNode(code, t.at) /\ pos = Behind(code, t.at)
  BY <1>1, <1>3, GoingDone
<1>5. pos = Bytes!EndAt(code, t.at)
  BY <1>1, <1>4
<1> QED
  BY <1>2, <1>4, <1>5, LeaveKeeps

LEMMA BlockEndKeeps ==
  ASSUME InBytes, derailed = FALSE, \A c \in Programs : Emitted(c), Bytes!EndBlock
  PROVE  Kept
<1> DEFINE t == Bytes!Top
<1>1. /\ Going(code, t.op, t.at, t.todo, pos) /\ code \in Seq(Tokens) /\ pos \in Nat
      /\ Bytes!Tok = Bytes!TokenAt(code, pos) /\ \A p \in DOMAIN code : Bytes!TokenAt(code, p) = code[p]
      /\ \A p : IsNode(code, p) => Bytes!EndAt(code, p) = Behind(code, p)
      /\ \A p : IsNode(code, p) => Bytes!TokenAt(code, p) = code[p]
  BY TopIsFine
<1>2. /\ t.todo # <<>> /\ Head(t.todo) = "stmts" /\ t.op = "BLOCK_BEGIN" /\ Bytes!Tok.t = "end"
      /\ Bytes!Leave(Bytes!Ran, pos + 1)
  BY DEF Bytes!EndBlock, Bytes!Reading, Bytes!Item
<1>3. pos + 1 = Behind(code, t.at) \/ IsNode(code, pos)
  BY <1>2, TopFinds DEF FindsNext
<1>4. ~IsNode(code, pos)
  <2>1. IsNode(code, pos) => Bytes!Tok.t = "op"
    BY <1>1 DEF IsNode
  <2> QED
    BY <1>2, <2>1
<1>5. IsNode(code, t.at)
  BY <1>1, <1>2 DEF Going
<1>6. pos + 1 = Bytes!EndAt(code, t.at) /\ t.op # "BODY"
  BY <1>1, <1>2, <1>3, <1>4, <1>5
<1> DEFINE q == pos + 1
<1>7. q = Bytes!EndAt(code, t.at) /\ Bytes!Leave(Bytes!Ran, q)
  BY <1>2, <1>6
<1> HIDE DEF q
<1> QED
  BY <1>6, <1>7, LeaveKeeps

LEMMA PassStmtKeeps ==
  ASSUME InBytes, derailed = FALSE, \A c \in Programs : Emitted(c), Bytes!PassStmt
  PROVE  Kept
<1> DEFINE t == Bytes!Top
           items == Bytes!SkippedStmt(Bytes!OpcodeOf(Bytes!Tok))
<1>1. /\ Aligned(code) /\ IsFrame(t) /\ Going(code, t.op, t.at, t.todo, pos)
      /\ Bytes!Tok = Bytes!TokenAt(code, pos) /\ \A p \in DOMAIN code : Bytes!TokenAt(code, p) = code[p]
      /\ \A p : IsNode(code, p) =>
           Bytes!TokenAt(code, p) = code[p] /\ Bytes!OpcodeOf(code[p]) = code[p].op
  BY TopIsFine
<1>2. /\ t.todo # <<>> /\ Head(t.todo) = "stmts" /\ t.op = "BLOCK_BEGIN" /\ Bytes!Tok.t # "end"
      /\ Bytes!Skip(items, pos, pos + 1, t)
  BY DEF Bytes!PassStmt, Bytes!Reading, Bytes!Item
<1>3. \/ pos \in DOMAIN code /\ code[pos].t = "end"
      \/ /\ IsNode(code, pos) /\ code[pos].op \in Stmts
         /\ Going(code, t.op, t.at, t.todo, Behind(code, pos))
  BY <1>2, TopFinds DEF FindsNext
<1>4. /\ IsNode(code, pos) /\ code[pos].op \in Stmts
      /\ Going(code, t.op, t.at, t.todo, Behind(code, pos))
  BY <1>1, <1>2, <1>3
<1>5. items = Bytes!SkippedStmt(code[pos].op)
  BY <1>1, <1>4
<1> HIDE DEF items
<1>6. Bytes!SkipTo(code, items, pos + 1) = Behind(code, pos)
  BY <1>1, <1>4, <1>5, SkippedWhole
<1> DEFINE from == pos + 1
<1>7. Bytes!SkipTo(code, items, from) = Behind(code, pos) /\ Bytes!Skip(items, pos, from, t)
  BY <1>2, <1>6
<1> HIDE DEF from
<1> QED
  BY <1>1, <1>4, <1>7, SkipKeeps

LEMMA IterationKeeps ==
  ASSUME InBytes, derailed = FALSE, \A c \in Programs : Emitted(c), Bytes!EndIteration
  PROVE  Kept
<1> DEFINE t == Bytes!Top
           rest == Tail(t.todo)
           back == <<"cond", "loop">> \o Tail(t.todo)
<1>1. IsFrame(t)
  BY TopIsFine
<1>2. t = [op |-> t.op, at |-> t.at, todo |-> t.todo, res |-> t.res, mode |-> t.mode]
  BY <1>1 DEF IsFrame
<1>3. /\ t.todo # <<>> /\ Head(t.todo) = "again"
      /\ code' = code /\ derailed' = derailed /\ astray' = astray /\ missed' = missed
      /\ status' = status
  BY DEF Bytes!EndIteration, Bytes!Reading, Bytes!Item
<1>4. Going(code, t.op, t.at, rest, pos) /\ Going(code, t.op, t.at, back, t.at + 3)
  BY <1>3, TopFinds DEF FindsNext
<1>5. astray' = FALSE
  BY <1>3 DEF InBytes
<1>6. CASE willReturn
  <2> DEFINE f == [op |-> t.op, at |-> t.at, todo |-> rest, res |-> t.res, mode |-> t.mode]
             g == [t EXCEPT !.todo = Tail(@)]
  <2>1. Bytes!ReplaceTop(g) /\ pos' = pos
    BY <1>6 DEF Bytes!EndIteration
  <2>2. g = f
    <3>1. g = [t EXCEPT !.todo = rest]
      BY <1>2
    <3> HIDE DEF g, rest
    <3> QED
      BY <1>2, <3>1
  <2>3. IsFrame(f) /\ f.op = t.op /\ f.at = t.at /\ f.todo = rest
    BY DEF IsFrame
  <2> HIDE DEF f, g, rest
  <2>4. Bytes!ReplaceTop(f) /\ Going(code, f.op, f.at, f.todo, pos')
    BY <1>4, <2>1, <2>2, <2>3
  <2> QED
    BY <1>3, <1>5, <2>3, <2>4, ChangeKeeps
<1>7. CASE ~willReturn
  <2> DEFINE f == [op |-> t.op, at |-> t.at, todo |-> back, res |-> <<>>, mode |-> t.mode]
             g == [t EXCEPT !.todo = <<"cond", "loop">> \o Tail(@), !.res = <<>>]
  <2>1. Bytes!ReplaceTop(g) /\ pos' = t.at + 3
    BY <1>7 DEF Bytes!EndIteration, Bytes!ConditionPos
  <2>2. g = f
    <3> DEFINE none == <<>>
    <3>1. g = [t EXCEPT !.todo = back, !.res = none]
      BY <1>2
    <3> HIDE DEF g, back, none
    <3>2. g = [op |-> t.op, at |-> t.at, todo |-> back, res |-> none, mode |-> t.mode]
      BY <1>2, <3>1
    <3> QED
      BY <3>2 DEF none
  <2>3. IsFrame(f) /\ f.op = t.op /\ f.at = t.at /\ f.todo = back
    BY DEF IsFrame
  <2> HIDE DEF f, g, back
  <2>4. Bytes!ReplaceTop(f) /\ Going(code, f.op, f.at, f.todo, pos')
    BY <1>4, <2>1, <2>2, <2>3
  <2> QED
    BY <1>3, <1>5, <2>3, <2>4, ChangeKeeps
<1> QED
  BY <1>6, <1>7

LEMMA StmtKeeps ==
  ASSUME InBytes, derailed = FALSE, \A c \in Programs : Emitted(c), Bytes!NextStmt
  PROVE  Kept
<1> DEFINE t == Bytes!Top
           op == Bytes!OpcodeOf(Bytes!Tok)
<1>1. /\ Aligned(code) /\ Going(code, t.op, t.at, t.todo, pos) /\ code \in Seq(Tokens)
      /\ Bytes!Tok = Bytes!TokenAt(code, pos) /\ \A p \in DOMAIN code : Bytes!TokenAt(code, p) = code[p]
      /\ \A p : IsNode(code, p) => Bytes!EndAt(code, p) = Behind(code, p)
      /\ \A p : IsNode(code, p) =>
           Bytes!TokenAt(code, p) = code[p] /\ Bytes!OpcodeOf(code[p]) = code[p].op
  BY TopIsFine
<1>2. t.todo # <<>> /\ Head(t.todo) = "stmts" /\ Bytes!IsCode(Bytes!Tok)
  BY DEF Bytes!NextStmt, Bytes!Reading, Bytes!Item
<1>3. After(t.todo) = t.todo
  BY <1>2 DEF After
<1>4. "BODY" \notin ExprOps \cup DeclOps /\ "end" \notin ExprOps \cup DeclOps
  BY EvalExprsAre DEF ReferenceOps, CallOps, OperatorOps, MemberOps, IndexingOps, DeclOps
<1>5. \/ t.op = "BODY" /\ pos = Len(code) + 1
      \/ pos \in DOMAIN code /\ code[pos].t = "end"
      \/ IsNode(code, pos) /\ Going(code, t.op, t.at, t.todo, Behind(code, pos))
  BY <1>2, TopFinds DEF FindsNext
<1>6. ASSUME op \in ExprOps \cup DeclOps
      PROVE  /\ IsNode(code, pos) /\ op = code[pos].op
             /\ Going(code, t.op, t.at, After(t.todo), Bytes!EndAt(code, pos))
  <2>1. ~(pos = Len(code) + 1)
    <3>1. SUFFICES ASSUME pos = Len(code) + 1 PROVE FALSE
      OBVIOUS
    <3>2. pos \notin DOMAIN code
      BY <1>1, <3>1
    <3>3. Bytes!Tok = [t |-> "eof"]
      BY <1>1, <3>2 DEF Bytes!TokenAt
    <3> QED
      BY <1>2, <3>3 DEF Bytes!IsCode
  <2>2. ~(pos \in DOMAIN code /\ code[pos].t = "end")
    <3>1. SUFFICES ASSUME pos \in DOMAIN code, code[pos].t = "end" PROVE FALSE
      OBVIOUS
    <3>2. Bytes!Tok.t = "end"
      BY <1>1, <3>1
    <3>3. op = "end"
      BY <3>2 DEF Bytes!OpcodeOf
    <3> HIDE DEF op
    <3> QED
      BY <1>4, <1>6, <3>3
  <2>3. IsNode(code, pos) /\ Going(code, t.op, t.at, t.todo, Behind(code, pos))
    BY <1>5, <2>1, <2>2
  <2> QED
    BY <1>1, <1>3, <2>3
<1>7. CASE op \in DOMAIN Bytes!ExecLayouts /\ Bytes!Enter(Bytes!Frame(op, pos, Bytes!ExecLayouts[op]))
           /\ UNCHANGED derailed
  <2>1. op \in DeclOps
    BY <1>7, ExecLayoutsAre
  <2> DEFINE todo == Bytes!ExecLayouts[op]
  <2>2. Going(code, op, pos, todo, pos + 1)
    <3>1. IsNode(code, pos) /\ op = code[pos].op
      BY <1>6, <2>1
    <3> QED
      BY <1>1, <2>1, <3>1, GoingOpened
  <2>3. Going(code, t.op, t.at, After(t.todo), Bytes!EndAt(code, pos)) /\ op # "BODY"
    BY <1>4, <1>6, <2>1
  <2>4. Bytes!Enter(Bytes!Frame(op, pos, todo)) /\ derailed' = derailed
    BY <1>7
  <2> HIDE DEF op, todo
  <2> QED
    BY <1>2, <2>2, <2>3, <2>4, EnterKeeps
<1>8. CASE op \in Bytes!ExpressionStatements /\ Bytes!Enter(Bytes!Frame(op, pos, Bytes!EvalLayouts[op]))
           /\ UNCHANGED derailed
  <2>1. op \in ExprOps
    BY <1>8 DEF Bytes!ExpressionStatements, ExprOps
  <2> DEFINE todo == Bytes!EvalLayouts[op]
  <2>2. Going(code, op, pos, todo, pos + 1)
    <3>1. IsNode(code, pos) /\ op = code[pos].op
      BY <1>6, <2>1
    <3>2. todo = Contents(op)
      BY <2>1, EvalLayoutsAre
    <3> QED
      BY <1>1, <2>1, <3>1, <3>2, GoingOpened
  <2>3. Going(code, t.op, t.at, After(t.todo), Bytes!EndAt(code, pos)) /\ op # "BODY"
    BY <1>4, <1>6, <2>1
  <2>4. Bytes!Enter(Bytes!Frame(op, pos, todo)) /\ derailed' = derailed
    BY <1>8
  <2> HIDE DEF op, todo
  <2> QED
    BY <1>2, <2>2, <2>3, <2>4, EnterKeeps
<1>9. CASE derailed' = TRUE /\ code' = code
  BY <1>9 DEF Kept
<1> QED
  BY <1>7, <1>8, <1>9, Zenon DEF Bytes!NextStmt

LEMMA BlockKeeps ==
  ASSUME InBytes, derailed = FALSE, \A c \in Programs : Emitted(c), Bytes!EnterBlock
  PROVE  Kept
<1> DEFINE t == Bytes!Top
           item == Bytes!Item
           rest == Tail(t.todo)
           g == Bytes!Frame("BLOCK_BEGIN", pos, <<"stmts">>)
<1>1. /\ Aligned(code) /\ IsFrame(t) /\ Going(code, t.op, t.at, t.todo, pos)
      /\ \A p : IsNode(code, p) => Bytes!EndAt(code, p) = Behind(code, p)
  BY TopIsFine
<1>2. t.todo # <<>> /\ Head(t.todo) = item /\ item \in Bytes!BlockItems
  BY DEF Bytes!EnterBlock, Bytes!AtBlock, Bytes!Reading, Bytes!Item
<1>3. /\ IsNode(code, pos) /\ code[pos].op = "BLOCK_BEGIN"
      /\ Going(code, t.op, t.at, rest, Behind(code, pos))
      /\ item = "loop" => Going(code, t.op, t.at, <<"again">> \o rest, Behind(code, pos))
  BY <1>2, TopFinds DEF FindsNext
<1>4. Bytes!EndAt(code, pos) = Behind(code, pos)
  BY <1>1, <1>3
<1>5. g.op = "BLOCK_BEGIN" /\ g.at = pos /\ g.todo = <<"stmts">> /\ IsFrame(g)
  BY DEF Bytes!Frame, IsFrame
<1>6. Goes(code, g, pos + 1)
  <2>1. Going(code, "BLOCK_BEGIN", pos, <<"stmts">>, pos + 1)
    BY <1>1, <1>3, GoingOpened
  <2> QED
    BY <1>5, <2>1 DEF Goes
<1>7. /\ pos' = pos + 1 /\ code' = code /\ derailed' = derailed /\ astray' = astray
      /\ missed' = missed /\ status' = status
  BY DEF Bytes!EnterBlock
<1> DEFINE Becomes(f) == stack' = Bytes!Front(stack) \o <<f, g>>
           Fits(f) == IsFrame(f) /\ f.op = t.op /\ f.at = t.at /\ Waits(code, f, g)
<1>8. IsSequence(t.todo)
  BY <1>1, GoingSeq
<1>9. item # "loop" => Waits(code, t, g)
  <2>1. item # "loop" => After(t.todo) = rest
    BY <1>2 DEF After, Bytes!BlockItems
  <2> QED
    BY <1>2, <1>3, <1>4, <1>5, <1>8, <2>1 DEF Waits
<1>10. \E f : Fits(f) /\ Becomes(f)
  <2>1. CASE item \in {"branch", "else"}
    <3> DEFINE f == [op |-> t.op, at |-> t.at, todo |-> t.todo, res |-> t.res, mode |-> "taken"]
               h == [t EXCEPT !.mode = "taken"]
    <3>1. Becomes(h)
      BY <2>1 DEF Bytes!EnterBlock
    <3>2. h = f
      BY <1>1, FrameChanged
    <3>3. f.op = t.op /\ f.at = t.at /\ f.todo = t.todo /\ IsFrame(f)
      BY DEF IsFrame
    <3>4. Waits(code, t, g)
      BY <1>9, <2>1
    <3> HIDE DEF f, h, g
    <3>5. Waits(code, f, g)
      BY <3>3, <3>4 DEF Waits
    <3> QED
      BY <3>1, <3>2, <3>3, <3>5
  <2>2. CASE item = "loop"
    <3> DEFINE todo == <<"again">> \o rest
               f == [op |-> t.op, at |-> t.at, todo |-> todo, res |-> t.res, mode |-> t.mode]
               h == [t EXCEPT !.todo = <<"again">> \o Tail(@)]
    <3>1. Becomes(h)
      BY <2>2 DEF Bytes!EnterBlock
    <3>2. h = f
      <4>1. t = [op |-> t.op, at |-> t.at, todo |-> t.todo, res |-> t.res, mode |-> t.mode]
        BY <1>1 DEF IsFrame
      <4>2. h = [t EXCEPT !.todo = todo]
        BY <4>1
      <4> HIDE DEF h, todo
      <4> QED
        BY <4>1, <4>2
    <3>3. f.op = t.op /\ f.at = t.at /\ f.todo = todo /\ IsFrame(f)
      BY DEF IsFrame
    <3>4. Going(code, t.op, t.at, todo, Behind(code, pos))
      BY <1>3, <2>2
    <3>5. IsSequence(todo)
      <4> HIDE DEF todo
      <4> QED
        BY <3>4, GoingSeq
    <3>6. todo # <<>> /\ Head(todo) = "again"
      <4>1. PICK S : t.todo \in Seq(S)
        BY <1>8 DEF IsSequence
      <4> DEFINE s == t.todo
      <4>2. s # <<>> /\ s \in Seq(S)
        BY <1>2, <4>1
      <4> HIDE DEF s
      <4>3. <<"again">> \o Tail(s) # <<>> /\ Head(<<"again">> \o Tail(s)) = "again"
        BY <4>2, AgainFirst
      <4> QED
        BY <4>3 DEF s
    <3>7. After(todo) = todo
      <4> HIDE DEF todo
      <4> QED
        BY <3>6 DEF After
    <3> HIDE DEF f, h, g, todo
    <3>8. Waits(code, f, g)
      BY <1>4, <1>5, <3>3, <3>4, <3>5, <3>6, <3>7 DEF Waits
    <3> QED
      BY <3>1, <3>2, <3>3, <3>8
  <2>3. CASE item = "catch"
    <3>1. Becomes(t)
      BY <2>3 DEF Bytes!EnterBlock
    <3>2. Fits(t)
      BY <1>1, <1>9, <2>3
    <3> HIDE DEF g
    <3> QED
      BY <3>1, <3>2
  <2> QED
    BY <1>2, <2>1, <2>2, <2>3 DEF Bytes!BlockItems
<1>11. PICK f : Fits(f) /\ Becomes(f)
  BY <1>10
<1>12. f.op = Bytes!Last(stack).op /\ f.at = Bytes!Last(stack).at /\ g.op # "BODY"
  BY <1>5, <1>11 DEF Bytes!Top
<1>13. InStep(code, stack, pos) /\ astray = FALSE /\ missed = FALSE /\ status # "garbled"
  BY DEF InBytes
<1> HIDE DEF g
<1> DEFINE q == pos + 1
<1>14. Goes(code, g, q)
  BY <1>6
<1> HIDE DEF q
<1>15. InStep(code, stack', q)
  BY <1>5, <1>11, <1>12, <1>13, <1>14, TopEnters
<1> QED
  BY <1>7, <1>13, <1>15 DEF Kept, q

LEMMA StopKeeps ==
  ASSUME InBytes, derailed = FALSE,
         Bytes!EndBody \/ Bytes!AssertFails \/ Bytes!Terminated
  PROVE  Kept
<1>1. astray = FALSE /\ missed = FALSE /\ status # "garbled" /\ InStep(code, stack, pos)
  BY DEF InBytes
<1>2. /\ code' = code /\ pos' = pos /\ stack' = stack /\ derailed' = derailed /\ astray' = astray
      /\ missed' = missed
  BY DEF Bytes!EndBody, Bytes!AssertFails, Bytes!Terminated, Bytes!Stop, Bytes!vars
<1>3. status' # "garbled"
  BY <1>1 DEF Bytes!EndBody, Bytes!AssertFails, Bytes!Terminated, Bytes!Stop, Bytes!vars
<1> QED
  BY <1>1, <1>2, <1>3 DEF Kept

\* Once off the way nothing is promised any more.
LEMMA DerailedStays ==
  ASSUME Bytes!Next
  PROVE  code' = code /\ (derailed = TRUE => derailed' = TRUE)
<1>1. ASSUME Bytes!ReadOperand \/ Bytes!EvalExpr \/ Bytes!NoBlock \/ Bytes!EndIteration
             \/ Bytes!EnterBlock \/ Bytes!Terminated
      PROVE  code' = code /\ derailed' = derailed
  BY <1>1 DEF Bytes!ReadOperand, Bytes!EvalExpr, Bytes!NoBlock, Bytes!EndIteration, Bytes!EnterBlock,
     Bytes!Terminated, Bytes!Enter, Bytes!vars
<1>2. ASSUME Bytes!Misread \/ Bytes!EndBody \/ Bytes!AssertFails
      PROVE  code' = code /\ derailed' = derailed
  BY <1>2 DEF Bytes!Misread, Bytes!EndBody, Bytes!AssertFails, Bytes!Stop
<1>3. ASSUME Bytes!PassExpr \/ Bytes!PassStmt \/ Bytes!PassBlock
      PROVE  code' = code /\ derailed' = derailed
  <2>1. ASSUME NEW items, NEW start, NEW from, NEW f, Bytes!Skip(items, start, from, f)
        PROVE  code' = code /\ derailed' = derailed
    BY <2>1, Zenon DEF Bytes!Skip, Bytes!Stop
  <2> QED
    BY <1>3, <2>1, Zenon DEF Bytes!PassExpr, Bytes!PassStmt, Bytes!PassBlock
<1>4. ASSUME Bytes!ExprDone \/ Bytes!StmtDone \/ Bytes!SetReturn \/ Bytes!EndBlock
      PROVE  code' = code /\ (derailed = TRUE => derailed' = TRUE)
  <2>1. ASSUME NEW v, NEW q, Bytes!Leave(v, q)
        PROVE  code' = code /\ (derailed = TRUE => derailed' = TRUE)
    BY <2>1 DEF Bytes!Leave
  <2> QED
    BY <1>4, <2>1, Zenon DEF Bytes!ExprDone, Bytes!StmtDone, Bytes!SetReturn, Bytes!EndBlock
<1>5. ASSUME Bytes!NextStmt
      PROVE  code' = code /\ (derailed = TRUE => derailed' = TRUE)
  BY <1>5 DEF Bytes!NextStmt, Bytes!Enter
<1> QED
  BY <1>1, <1>2, <1>3, <1>4, <1>5 DEF Bytes!Next

LEMMA StepsKeep ==
  ASSUME InBytes, \A c \in Programs : Emitted(c), Bytes!Next
  PROVE  InBytes'
<1>1. CASE derailed = TRUE
  BY <1>1, DerailedStays DEF InBytes
<1>2. CASE derailed = FALSE
  <2>1. Bytes!ReadOperand => Kept
    BY <1>2, OperandKeeps
  <2>2. Bytes!EvalExpr => Kept
    BY <1>2, EvalKeeps
  <2>3. Bytes!PassExpr => Kept
    BY <1>2, PassExprKeeps
  <2>4. ~Bytes!Misread /\ ~Bytes!NoBlock
    BY <1>2, NeverMisread, NoBlockMissing
  <2>5. Bytes!ExprDone \/ Bytes!StmtDone \/ Bytes!SetReturn => Kept
    BY <1>2, DoneKeeps
  <2>6. Bytes!NextStmt => Kept
    BY <1>2, StmtKeeps
  <2>7. Bytes!PassStmt => Kept
    BY <1>2, PassStmtKeeps
  <2>8. Bytes!EndBlock => Kept
    BY <1>2, BlockEndKeeps
  <2>9. Bytes!EndBody \/ Bytes!AssertFails \/ Bytes!Terminated => Kept
    BY <1>2, StopKeeps
  <2>10. Bytes!EnterBlock => Kept
    BY <1>2, BlockKeeps
  <2>11. Bytes!PassBlock => Kept
    BY <1>2, PassBlockKeeps
  <2>12. Bytes!EndIteration => Kept
    BY <1>2, IterationKeeps
  <2>13. Kept
    BY <2>1, <2>2, <2>3, <2>4, <2>5, <2>6, <2>7, <2>8, <2>9, <2>10, <2>11, <2>12 DEF Bytes!Next
  <2> QED
    BY <2>13, KeptIs
<1> QED
  BY <1>1, <1>2 DEF InBytes

\* A body begins in step.
LEMMA BodyBegins ==
  ASSUME NEW c, Emitted(c)
  PROVE  InStep(c, <<Bytes!Frame("BODY", 0, <<"stmts">>)>>, 1)
<1> DEFINE f == Bytes!Frame("BODY", 0, <<"stmts">>)
           s == <<"stmts">>
           st == <<f>>
<1>1. Aligned(c) /\ c \in Seq(Tokens) /\ Through(c, s, s)
  BY EmittedIsAligned DEF Aligned
<1>2. f.op = "BODY" /\ f.at = 0 /\ f.todo = s /\ IsFrame(f)
  BY DEF Bytes!Frame, IsFrame
<1>3. s \in Seq(Bytes!SkipItems) /\ s \in Seq(ReadItems) /\ AsSkipped(s) = s
  <2>1. s \in Seq(Bytes!SkipItems)
    BY SomeItems DEF Bytes!SkipItems
  <2> HIDE DEF s
  <2> QED
    BY <2>1, AsSkippedAgain
<1>4. Leads(Jumps(c), <<s, 1>>, <<s, Len(c) + 1>>)
  <2>1. At(c, c, 0)
    BY <1>1 DEF At
  <2>2. Leads(Jumps(c), <<s, 0 + 1>>, <<s, 0 + 1 + Len(c)>>)
    <3> HIDE DEF s
    <3> QED
      BY <1>1, <2>1, Zenon DEF Through
  <2>3. 0 + 1 = 1 /\ 0 + 1 + Len(c) = Len(c) + 1
    BY <1>1
  <2> QED
    BY <2>2, <2>3
<1> HIDE DEF f
<1>5. Going(c, "BODY", 0, s, 1)
  <2>1. Straight(c, "BODY", 0, s, 1)
    BY <1>3, <1>4 DEF Straight, Target
  <2> QED
    BY <2>1 DEF Going
<1>6. IsSequence(st) /\ st # <<>> /\ Len(st) = 1 /\ st[1] = f
  <2>1. st \in Seq({f})
    OBVIOUS
  <2>2. st # <<>> /\ Len(st) = 1 /\ st[1] = f
    OBVIOUS
  <2> HIDE DEF st
  <2> QED
    BY <2>1, <2>2, Zenon DEF IsSequence
<1> HIDE DEF st, s
<1>7. \A i \in 1..Len(st) : Framed(st[i], i)
  BY <1>2, <1>6 DEF Framed
<1>8. \A i \in 1..(Len(st) - 1) : Waits(c, st[i], st[i + 1])
  BY <1>6
<1>9. Goes(c, st[Len(st)], 1)
  BY <1>2, <1>5, <1>6 DEF Goes
<1>10. InStep(c, st, 1)
  BY <1>6, <1>7, <1>8, <1>9 DEF InStep
<1> QED
  BY <1>10 DEF st, f

(* For every program CodeGen writes, whatever its expressions give: the    *)
(* evaluator takes an operand for something else, leaves a construct       *)
(* somewhere else than at its end, or misses a block, only behind an       *)
(* element or argument that gave nothing, or a statement that is a literal *)
(* or a reference.                                                         *)
THEOREM EvaluationFollowsCodeGen ==
  ASSUME \A c \in Programs : Emitted(c)
  PROVE  EvaluatorSpec => []OnlyDerailedGoAstray
<1>1. EvaluatorInit => Readers
  <2> SUFFICES ASSUME EvaluatorInit PROVE Readers
    OBVIOUS
  <2>1. CASE side = "sites" /\ QInit /\ NoBytes
    BY <2>1 DEF Readers, OutOfBytes, NoBytes
  <2>2. CASE side = "bytes" /\ Bytes!Init /\ NoSites
    <3>1. /\ code \in Programs /\ derailed = FALSE /\ astray = FALSE /\ missed = FALSE /\ status = "run"
          /\ stack = <<Bytes!Frame("BODY", 0, <<"stmts">>)>> /\ pos = 1
      BY <2>2 DEF Bytes!Init
    <3>2. InStep(code, <<Bytes!Frame("BODY", 0, <<"stmts">>)>>, 1)
      BY <3>1, BodyBegins
    <3>3. InStep(code, stack, pos)
      BY <3>1, <3>2
    <3> QED
      BY <2>2, <3>1, <3>3 DEF Readers, InBytes
  <2> QED
    BY <2>1, <2>2 DEF EvaluatorInit
<1>2. Readers /\ [EvaluatorNext]_<<side, ofSites, ofBytes>> => Readers'
  <2> SUFFICES ASSUME Readers, [EvaluatorNext]_<<side, ofSites, ofBytes>> PROVE Readers'
    OBVIOUS
  <2>1. CASE OnBytes
    <3>1. side = "bytes" /\ side' = "bytes" /\ Bytes!Next
      BY <2>1 DEF OnBytes
    <3>2. InBytes
      BY <3>1 DEF Readers
    <3>3. InBytes'
      BY <3>1, <3>2, StepsKeep
    <3> QED
      BY <3>1, <3>3 DEF Readers
  <2>2. CASE OnSites \/ UNCHANGED <<side, ofSites, ofBytes>>
    <3>1. UNCHANGED <<side, code, pos, stack, derailed, astray, missed, status>>
      BY <2>2 DEF OnSites, ofBytes
    <3> QED
      BY <3>1 DEF Readers, InBytes, OutOfBytes
  <2> QED
    BY <2>1, <2>2 DEF EvaluatorNext
<1>3. Readers => OnlyDerailedGoAstray
  BY DEF Readers, InBytes, OutOfBytes, OnlyDerailedGoAstray, Bytes!OnlyDerailedGoAstray
<1> QED
  BY <1>1, <1>2, <1>3, PTL DEF EvaluatorSpec
-----------------------------------------------------------------------------
\* Such programs there are.
LEMMA LoopIsEmitted ==
  Emitted(Bytes!FlattenSeq(<<Bytes!Loop(Bytes!Binary("&&", Bytes!VarRef, Bytes!Literal),
                                        <<Bytes!Return(Bytes!VarRef)>>)>>))
<1> DEFINE cond == Bytes!Binary("&&", Bytes!VarRef, Bytes!Literal)
           body == <<Bytes!Return(Bytes!VarRef)>>
           loop == Bytes!Loop(cond, body)
<1>1. ASSUME NEW E, NEW S, ExprsClosed(E), StmtsClosed(E, S) PROVE loop \in S
  <2>1. Bytes!VarRef \in E /\ Bytes!Literal \in E
    BY <1>1 DEF ExprsClosed
  <2>2. cond \in E
    BY <1>1, <2>1 DEF ExprsClosed, Operators
  <2>3. Bytes!Return(Bytes!VarRef) \in S
    BY <1>1, <2>1 DEF StmtsClosed
  <2>4. body \in Seq(S)
    BY <2>3
  <2> HIDE DEF cond, body
  <2> QED
    BY <1>1, <2>2, <2>4 DEF StmtsClosed
<1> HIDE DEF loop
<1>2. ASSUME NEW S, loop \in S PROVE <<loop>> \in Seq(S)
  BY <1>2
<1>3. Emitted(Bytes!FlattenSeq(<<loop>>))
  BY <1>1, <1>2, Zenon DEF Emitted
<1> QED
  BY <1>3 DEF loop
=============================================================================
