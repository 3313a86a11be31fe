----------------------------- MODULE Quickening -----------------------------
(***************************************************************************)
(* Adaptive quickening (RTEngine.cpp, getOrInstallQuickenedExpr and        *)
(* tryExecuteQuickenedExpr). From its fourth call on, a function remembers *)
(* by offset what the expressions it evaluates are, and for expressions on *)
(* Any operands the numeric kind the first operands have; later            *)
(* evaluations at the offset execute what is remembered.                   *)
(***************************************************************************)
EXTENDS PlainExpr

CONSTANT Threshold  (* kQuickeningInvocationThreshold                       *)

VARIABLES
  invocations,  (* RTFuncTemplate.invocations, counted up to Threshold     *)
  sites         (* RTFuncTemplate.quickenedExprs, by offset                *)

vars == <<slots, array, out, invocations, sites>>

Warm == invocations >= Threshold

(* What inspectQuickeningCandidate reads; a plain slot is no candidate.    *)
Candidate(e) == Code[e].family # "Ref"

SiteOf(e) ==
  [family |-> Code[e].family, op |-> Code[e].op, kind |-> Code[e].kind,
   a |-> Code[e].a, b |-> Code[e].b, c |-> Code[e].c, size |-> Code[e].size]

Known(e)     == Code[e].at \in DOMAIN sites

(* Faulty: sites are installed from the first call on.                     *)
QuickenedCold(e) == Known(e) \/ Candidate(e)

Quickened(e) == Warm /\ (Known(e) \/ Candidate(e))
SiteAt(e)    == IF Known(e) THEN sites[Code[e].at] ELSE SiteOf(e)

(* The operands of a site in a frame, numbers and what they promote to.    *)
Numeric(s, f)  == IsNum(f[s.a]) /\ (s.family = "Sqrt" \/ IsNum(f[s.b]))
Promoted(s, f) == IF s.family = "Sqrt" THEN f[s.a].kind ELSE Promote(f[s.a].kind, f[s.b].kind)

(* resolveKind: the operands' kind, once, for a site that has none.        *)
Observed(s) == Numeric(s, slots)
SeenKind(s) == Promoted(s, slots)
Adaptive(s) == s.family \in {"Arith", "Compare", "Sqrt"} /\ s.kind = "Obj"

(* Faulty: the right operand's kind is not looked at.                      *)
SpecialisedLeft(s) ==
  IF Adaptive(s) /\ Observed(s) THEN [s EXCEPT !.kind = In(s.a).kind] ELSE s

Specialised(s) ==
  IF Adaptive(s) /\ Observed(s) THEN [s EXCEPT !.kind = SeenKind(s)] ELSE s

Runs(s) ==
  CASE s.family \in {"Arith", "Compare"} -> s.kind # "Obj" /\ IsNum(In(s.a)) /\ IsNum(In(s.b))
    [] s.family = "Sqrt" -> s.kind # "Obj" /\ IsNum(In(s.a))
    [] s.family = "Get"  -> CanGet(In(s.a), In(s.b))
    [] OTHER             -> CanSet(In(s.a), In(s.b), In(s.c))

Fast(s) ==
  CASE s.family = "Arith"   -> Yields(TypedArith(s.op, s.kind, In(s.a), In(s.b)))
    [] s.family = "Compare" -> Yields(TypedCompare(s.op, s.kind, In(s.a), In(s.b)))
    [] s.family = "Sqrt"    -> EvalSqrt(s.kind, In(s.a))
    [] s.family = "Get"     -> Yields(Got(s.kind, In(s.b)))
    [] OTHER                -> Writes(In(s.c), Stored(s.kind, In(s.b), In(s.c)))

Remember(e, s) ==
  sites' = [o \in DOMAIN sites \cup {Code[e].at} |-> IF o = Code[e].at THEN s ELSE sites[o]]

QInit == Init /\ invocations = 1 /\ sites = [o \in {} |-> None]

(* A call of the function: Threshold calls are as good as more.            *)
Invoke ==
  /\ Switch /\ invocations' = (IF Warm THEN invocations ELSE invocations + 1)
  /\ UNCHANGED sites

(* The body assigns slots, or the activation that called this one goes on. *)
Return == Switch /\ UNCHANGED <<invocations, sites>>

EvaluatePlain(e) == ~Quickened(e) /\ Evaluate(e) /\ UNCHANGED <<invocations, sites>>

EvaluateFast(e) ==
  LET s == Specialised(SiteAt(e)) IN
  /\ Quickened(e) /\ Runs(s)
  /\ Done(e, Fast(s), s.size) /\ Remember(e, s)
  /\ UNCHANGED <<slots, invocations>>

(* The site cannot execute its operands: plain evaluation from the start.  *)
FallBack(e) ==
  LET s == Specialised(SiteAt(e)) IN
  /\ Quickened(e) /\ ~Runs(s)
  /\ Evaluate(e) /\ Remember(e, s)
  /\ UNCHANGED invocations

QNext ==
  \/ Invoke \/ Return
  \/ \E e \in Exprs : EvaluatePlain(e) \/ EvaluateFast(e) \/ FallBack(e)

QSpec == QInit /\ [][QNext]_vars
-----------------------------------------------------------------------------
(* Code is V1 bytecode, its operands are slots of the frame, and widening  *)
(* a number does not change it. (It does beyond 2^24 for Float and 2^53    *)
(* for Double; programs with such numbers are left out.)                   *)
Families == {"Arith", "Compare", "Sqrt", "Get", "Set", "Ref"}
ASSUME CodeAssumption ==
  \A e \in Exprs :
    /\ Code[e].family \in Families
    /\ Code[e].kind \in NumKinds \cup {"Obj"}
ASSUME WideningExact ==
  \A f \in Frames : \A s \in DOMAIN f : \A k \in NumKinds :
    IsNum(f[s]) /\ Rank[f[s].kind] <= Rank[k] => Conv(k, f[s].num) = f[s].num
ASSUME ThresholdAssumption == Threshold \in Nat \ {0}
ASSUME OperandsAreSlots ==
  \A f \in Frames : \A e \in Exprs : {Code[e].a, Code[e].b, Code[e].c} \subseteq DOMAIN f
-----------------------------------------------------------------------------
(* A site is the expression's, with its static kind or with one that       *)
(* numbers its operands may be promote to.                                 *)
Site(e, k) == [SiteOf(e) EXCEPT !.kind = k]
Met(e)     == {Promoted(SiteOf(e), f) : f \in {g \in Frames : Numeric(SiteOf(e), g)}}

Describes(s, e) ==
  /\ s = Site(e, s.kind)
  /\ s.kind = Code[e].kind \/ (Adaptive(Code[e]) /\ s.kind \in Met(e))

(* Slots hold what a frame may hold; sites are installed only by a         *)
(* function called often enough, and each describes an expression at its   *)
(* offset and has a kind that expression's operands may have.              *)
SitesDescribe ==
  /\ slots \in Frames
  /\ sites # [o \in {} |-> None] => Warm
  /\ \A o \in DOMAIN sites : \E e \in Exprs :
       Code[e].at = o /\ Candidate(e) /\ Describes(sites[o], e)

(* Two things the code does not rule out: statements of a V2 function that *)
(* are left to V1 have a stream each, so another expression d may stand at *)
(* e's offset and is evaluated in its place; and later operands may have   *)
(* another kind than the first ones, which they are converted to.          *)
TakenFor(e, d, k) ==
  /\ Warm /\ Code[d].at = Code[e].at /\ Candidate(d) /\ Runs(Site(d, k))
  /\ Done(e, Outcome(Site(d, k)), Code[d].size) /\ UNCHANGED slots
  /\ \/ k = Code[d].kind /\ d # e
     \/ Adaptive(Code[d]) /\ k \in Met(d) /\ (d # e \/ k # SeenKind(SiteOf(d)))

Departs ==
  \E e \in Exprs : /\ e = out'.expr
                   /\ \E d \in Exprs, k \in NumKinds \cup {"Obj"} : TakenFor(e, d, k)

(* Otherwise quickening cannot be observed: every evaluation, quickened or *)
(* not, has the value, the error and the effect of the plain one and       *)
(* leaves the stream behind the expression.                                *)
AsPlain == Init /\ [][Next \/ Departs]_pvars

(* It cannot be observed at all: a site is one expression's                *)
(* (docs/NumericalExecutionImprovementPlan.md:385) and its kind is right.  *)
SameAsPlain == Spec
=============================================================================
