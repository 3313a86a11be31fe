------------------------------ MODULE PlainV2 ------------------------------
(***************************************************************************)
(* What executing a V2 function promises, with or without a compiler: the  *)
(* activations of the function run the instructions of the image one after *)
(* the other, only calls and the microtasks that run between instructions  *)
(* come in between, and an error ends the activation that meets it.        *)
(***************************************************************************)
EXTENDS V2Image

CONSTANTS Images, MaxDepth

VARIABLES
  image,   (* the code of the function                                    *)
  stack,   (* its activations: [pc, phase], the running one last          *)
  failed   (* the last activation ended with an error                     *)

pvars == <<image, stack, failed>>

Running == stack # <<>>
Last    == stack[Len(stack)]
Frame(pc, phase)   == [pc |-> pc, phase |-> phase]
Goto(pc, phase)    == stack' = [stack EXCEPT ![Len(stack)] = Frame(pc, phase)]
Leave              == stack' = SubSeq(stack, 1, Len(stack) - 1)
In                 == At(image, Last.pc)

Init == image \in Images /\ stack = <<>> /\ failed = FALSE

(* A program, a call or a microtask begins an activation.                  *)
Invoke ==
  /\ Running => Last.phase # "fetch" /\ Len(stack) < MaxDepth
  /\ stack' = Append(stack, Frame(0, "fetch")) /\ failed' = FALSE
  /\ UNCHANGED image

(* Whoever called the function takes its error.                            *)
TakeError == ~Running /\ failed' = FALSE /\ UNCHANGED <<image, stack>>

(* The instructions that may come after the one at pc.                     *)
Successors(pc) ==
  IF At(image, pc).op = "Jump" THEN {At(image, pc).a}
  ELSE IF IsBranch(At(image, pc)) THEN {pc + 1, BranchTarget(At(image, pc))}
  ELSE {pc + 1}

(* An instruction that may fail, call or end its activation.               *)
Executing == Running /\ Last.pc \in Pcs(image) /\ Last.phase \in {"fetch", "call"}
Fallible  == In.op \notin {"Jump", "Return"}
Calls     == In.op \in {"CallDirect", "V1Stmt"}

BeginCall ==
  /\ Executing /\ Last.phase = "fetch" /\ Calls /\ Len(stack) < MaxDepth
  /\ stack' = Append([stack EXCEPT ![Len(stack)] = Frame(Last.pc, "call")],
                     Frame(0, "fetch"))
  /\ failed' = FALSE /\ UNCHANGED image

(* The instruction succeeds; microtasks may run before the next one.       *)
Succeed ==
  /\ Executing /\ In.op # "Return"
  /\ failed => In.op = "V1Stmt"
  /\ \/ \E pc \in Successors(Last.pc) : Goto(pc, "fetch")
     \/ Goto(Last.pc, "drain")
  /\ failed' = FALSE /\ UNCHANGED image

Fail ==
  /\ Executing /\ Fallible
  /\ Leave /\ failed' = TRUE /\ UNCHANGED image

(* `return`: the instruction, or a statement that contains one.            *)
ReturnNow ==
  /\ Executing /\ In.op = "V1Stmt" /\ Leave /\ failed' = FALSE /\ UNCHANGED image

BeginReturn ==
  /\ Executing /\ In.op = "Return" /\ Goto(Last.pc, "drain")
  /\ UNCHANGED <<image, failed>>

EndDrain ==
  /\ Running /\ Last.phase = "drain"
  /\ IF In.op = "Return" THEN Leave
     ELSE Goto(IF In.op = "Jump" THEN In.a ELSE Last.pc + 1, "fetch")
  /\ failed' = FALSE /\ UNCHANGED image

(* The end of the function's code.                                         *)
FallOff ==
  /\ Running /\ Last.phase = "fetch" /\ Last.pc >= Len(image)
  /\ Leave /\ UNCHANGED <<image, failed>>

Next == \/ Invoke \/ TakeError \/ BeginCall \/ Succeed \/ Fail \/ ReturnNow \/ BeginReturn
        \/ EndDrain \/ FallOff

Spec == Init /\ [][Next]_pvars
=============================================================================
