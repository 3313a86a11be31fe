----------------------------- MODULE Evaluator -----------------------------
(***************************************************************************)
(* The V1 evaluator seen from two sides that share the function it runs    *)
(* but no state: as a reader that finds its way through the bytes          *)
(* (Bytecode), with values abstracted to what decides the way, and as an   *)
(* evaluator that remembers what stands at an offset (Quickening), with    *)
(* every way abstracted to "in any order".  `side` is the one looked at.   *)
(***************************************************************************)
EXTENDS Quickening

CONSTANT Programs   \* the function bodies of Bytecode

VARIABLES
  side,   \* "bytes" or "sites"
  code, pos, stack, willReturn, val, derailed, astray, missed, status

Bytes == INSTANCE Bytecode

ofSites == vars
ofBytes == <<code, pos, stack, willReturn, val, derailed, astray, missed, status>>

NoSites ==
  /\ slots = CHOOSE f \in Frames : TRUE
  /\ array = CHOOSE a \in Arrays : TRUE
  /\ out = [expr |-> "none", value |-> None, error |-> FALSE, stop |-> 0]
  /\ invocations = 1 /\ sites = [o \in {} |-> None]

NoBytes ==
  /\ code = <<>> /\ pos = 1 /\ stack = <<>> /\ val = <<>> /\ status = "done"
  /\ willReturn = FALSE /\ derailed = FALSE /\ astray = FALSE /\ missed = FALSE

EvaluatorInit ==
  \/ side = "sites" /\ QInit /\ NoBytes
  \/ side = "bytes" /\ Bytes!Init /\ NoSites

OnSites == side = "sites" /\ QNext /\ UNCHANGED <<side, ofBytes>>
OnBytes == side = "bytes" /\ Bytes!Next /\ UNCHANGED <<side, ofSites>>

EvaluatorNext == OnSites \/ OnBytes

EvaluatorSpec == EvaluatorInit /\ [][EvaluatorNext]_<<side, ofSites, ofBytes>>
-----------------------------------------------------------------------------
(* skipExpr and skipRuntimeStmt agree with CodeGen: from wherever a        *)
(* construct begins, what skips it ends where it ends.                     *)
SkippingFollowsEmission == side = "bytes" => Bytes!SkippingFollowsEmission

(* An operand is taken for something else, or a construct left somewhere   *)
(* else than at its end, only behind an element or argument that gave      *)
(* nothing, or a statement that is a literal or a reference.               *)
OnlyDerailedGoAstray == Bytes!OnlyDerailedGoAstray

(* The catch block of a secure declaration is executed when its guarded    *)
(* expression gave nothing (docs/StarbytesSemantics.md:303).               *)
CatchBlockExecuted == Bytes!CatchBlockExecuted

(* What is evaluated of a construct is what is due: the operands of a      *)
(* short-circuit or ternary expression, the first true branch, the last    *)
(* iteration of a loop, the catch block, nothing behind a return.          *)
EvaluatesWhatIsDue == Bytes!EvaluatesWhatIsDue
=============================================================================
