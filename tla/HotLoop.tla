------------------------------ MODULE HotLoop ------------------------------
(***************************************************************************)
(* Execution of one V2 function: the register interpreter                  *)
(* (invokeV2FuncWithValues), the counters that find hot loops, and the     *)
(* compiled loops that take over at a loop header and hand back at a loop  *)
(* exit or when a guard fails (src/runtime/RTEngine.cpp, RTJit.cpp).       *)
(*                                                                         *)
(* Values are abstracted: an instruction that may fail does so or not, a   *)
(* branch goes either way.  What is kept is where every activation of the  *)
(* function is, in which tier, and what all activations share: the loop    *)
(* records of the image and the compiled code.  Activations nest, through  *)
(* recursive calls and through the microtasks run between instructions.    *)
(*                                                                         *)
(* The operations of a compiled loop correspond one to one to the          *)
(* instructions between its header and its back edge, an array access      *)
(* being preceded by its guard; a position in the compiled code is written *)
(* as the pc of the instruction and the part of it that comes next.        *)
(***************************************************************************)
EXTENDS V2Image

CONSTANTS
  Images,         (* the execution images considered                       *)
  HotThreshold,   (* kV2HotLoopThreshold                                   *)
  MaxDepth        (* bound: nested activations                             *)

Plain == {"Move", "LoadConst", "NumCast", "Binary", "BinaryInplace",
          "IntrinsicSqrt", "ArrayGet", "ArraySet", "ArrayUpdate"}

Guarded == {"ArrayGet", "ArraySet", "ArrayUpdate"}

WellFormed(img) ==
  /\ Len(img) > 0
  /\ \A pc \in Pcs(img) :
       /\ At(img, pc).op \in ExecOpcodes
       /\ At(img, pc).op = "Jump" => At(img, pc).a \in 0..Len(img)
       /\ IsBranch(At(img, pc)) => BranchTarget(At(img, pc)) \in 0..Len(img)
       /\ At(img, pc).orig \in Nat

ASSUME HotLoopAssumption ==
  /\ Images \subseteq Seq([op : ExecOpcodes, kind : Nat, aux : Nat,
                           a : Nat, b : Nat, c : Nat, orig : Nat])
  /\ \A img \in Images : WellFormed(img)
  /\ HotThreshold \in Nat /\ MaxDepth \in Nat

VARIABLES
  image,   (* the execution image of the function                          *)
  frames,  (* its activations, the running one last                        *)
  loops,   (* V2LoopRuntimeState of every loop of the image                *)
  err,     (* lastRuntimeError is set                                      *)
  jit      (* jitEnabled, and a target is available                        *)

vars == <<image, frames, loops, err, jit>>

-----------------------------------------------------------------------------
(* Counters: executions saturate at the threshold, guardSamples and        *)
(* guardFailures are compared with zero only.                              *)
LoopState == [count : 0..HotThreshold, sampled : BOOLEAN, failed : BOOLEAN,
              hot : BOOLEAN, code : {"none", "live", "dead"}]

FreshLoops(img) ==
  [l \in Loops(img) |-> [count |-> 0, sampled |-> FALSE, failed |-> FALSE,
                         hot |-> FALSE, code |-> "none"]]

(* buildTier2LoopIR: the loops whose instructions all have an IR form.     *)
Compilable(l) ==
  \A pc \in Header(image, l)..l :
    At(image, pc).op \in Plain \cup {"CompareJumpFalse", "CallDirect", "Jump"}

(* maybeTriggerHotLoopTier2 *)
Trigger(l, s) ==
  IF s.hot \/ s.count < HotThreshold \/ s.failed \/ ~s.sampled THEN s
  ELSE [s EXCEPT !.hot = TRUE,
                 !.code = IF Compilable(l) /\ jit THEN "live" ELSE s.code]

Counted(s) == [s EXCEPT !.count = IF @ < HotThreshold THEN @ + 1 ELSE @]

(* The loop records once the interpreter has arrived at pc.                *)
Arrive(pc) ==
  LET l == HeaderLoop(image, pc) IN
  IF l = NoLoop THEN loops
  ELSE [loops EXCEPT ![l] = Trigger(l, Counted(loops[l]))]

(* noteLoopGuardObservation *)
Observe(ls, pc, ok) ==
  LET l == InnermostLoop(image, pc) IN
  IF l = NoLoop THEN ls
  ELSE [ls EXCEPT ![l].sampled = TRUE, ![l].failed = @ \/ ~ok]

(* Faulty: deoptimized code is entered again.                              *)
EnterableDead(pc) ==
  LET l == HeaderLoop(image, pc) IN
  l # NoLoop /\ jit /\ Arrive(pc)[l].code # "none"

(* Compiled code that is entered at pc: live and not deoptimized.          *)
Enterable(pc) ==
  LET l == HeaderLoop(image, pc) IN
  l # NoLoop /\ jit /\ Arrive(pc)[l].code = "live"

-----------------------------------------------------------------------------
(* part: the interpreter, or what comes next in the compiled loop `loop`.  *)
Parts  == {"interp", "guard", "op"}
Phases == {"fetch", "call", "drain"}

Interp(pc, phase) == [pc |-> pc, phase |-> phase, part |-> "interp", loop |-> NoLoop]

Compiled(pc, phase, l) ==
  [pc |-> pc, phase |-> phase, loop |-> l,
   part |-> IF At(image, pc).op \in Guarded THEN "guard" ELSE "op"]

Depth      == Len(frames)
Top        == frames[Depth]
Op         == At(image, Top.pc)
Replace(f) == frames' = [frames EXCEPT ![Depth] = f]
Push(f)    == frames' = Append([frames EXCEPT ![Depth] = f], Interp(0, "fetch"))
Pop        == frames' = SubSeq(frames, 1, Depth - 1)

(* isDrainingMicrotasks, as far as this function's activations know.       *)
UnderDrain == \E i \in 1..(Depth - 1) : frames[i].phase = "drain"

Init ==
  /\ image \in Images /\ frames = <<>> /\ err = FALSE /\ jit \in BOOLEAN
  /\ loops = FreshLoops(image)

(* exec: a new run of the program drops the images, hence the loop records. *)
Exec ==
  /\ frames = <<>>
  /\ jit' \in BOOLEAN /\ loops' = FreshLoops(image) /\ err' = FALSE
  /\ UNCHANGED <<image, frames>>

(* The program calls the function.                                         *)
Invoke ==
  /\ frames = <<>>
  /\ frames' = <<Interp(0, "fetch")>> /\ err' = FALSE
  /\ UNCHANGED <<image, loops, jit>>

-----------------------------------------------------------------------------
(* The interpreter.                                                        *)
AtFetch ==
  /\ frames # <<>> /\ Top.phase = "fetch" /\ Top.part = "interp"
  /\ Top.pc < Len(image) /\ ~err

Dispatch == AtFetch /\ ~Enterable(Top.pc)

(* The compiled loop takes over at its header.                             *)
EnterLoop ==
  /\ AtFetch /\ Enterable(Top.pc)
  /\ loops' = Arrive(Top.pc)
  /\ Replace(Compiled(Top.pc, "fetch", HeaderLoop(image, Top.pc)))
  /\ UNCHANGED <<image, err, jit>>

(* An instruction, a branch that falls through or a call of another        *)
(* function succeeds; processMicrotasks follows.                           *)
StepOver ==
  /\ Dispatch /\ Op.op # "Jump"
  /\ loops' = Observe(Arrive(Top.pc), Top.pc, TRUE)
  /\ Replace(Interp(Top.pc, "drain"))
  /\ UNCHANGED <<image, err, jit>>

(* A jump, or a branch that is taken: no microtasks run.                   *)
TakeJump ==
  /\ Dispatch
  /\ Op.op = "Jump" \/ IsBranch(Op)
  /\ loops' = Observe(Arrive(Top.pc), Top.pc, TRUE)
  /\ Replace(Interp(IF Op.op = "Jump" THEN Op.a ELSE BranchTarget(Op), "fetch"))
  /\ UNCHANGED <<image, err, jit>>

(* fail(): the loop's failure is counted and the activation ends.          *)
FailInstr ==
  /\ Dispatch /\ Op.op \notin {"Jump", "Return"}
  /\ loops' = Observe(Arrive(Top.pc), Top.pc, FALSE)
  /\ Pop /\ err' = TRUE
  /\ UNCHANGED <<image, jit>>

(* A call instruction, or a statement, calls this function again.          *)
CallAgain ==
  /\ Dispatch /\ Op.op \in {"CallDirect", "V1Stmt"} /\ Depth < MaxDepth
  /\ loops' = Arrive(Top.pc)
  /\ Push(Interp(Top.pc, "call"))
  /\ UNCHANGED <<image, err, jit>>

(* The nested activation has ended.  A statement may recover from its      *)
(* error (`secure`), a call instruction passes it on.                      *)
Returned == frames # <<>> /\ Top.phase = "call"

(* A statement with a `return` in it, reached with or without calls.       *)
ReturnInStmt ==
  /\ \/ Dispatch /\ loops' = Arrive(Top.pc)
     \/ Returned /\ Top.part = "interp" /\ UNCHANGED loops
  /\ Op.op = "V1Stmt"
  /\ Pop /\ err' = FALSE
  /\ UNCHANGED <<image, jit>>

CallReturns ==
  /\ Returned /\ Top.part = "interp"
  /\ err => Op.op = "V1Stmt"
  /\ loops' = Observe(loops, Top.pc, TRUE)
  /\ Replace(Interp(Top.pc, "drain")) /\ err' = FALSE
  /\ UNCHANGED <<image, jit>>

CallFails ==
  /\ Returned /\ Top.part = "interp"
  /\ err \/ Op.op = "V1Stmt"
  /\ loops' = Observe(loops, Top.pc, FALSE)
  /\ Pop /\ err' = TRUE
  /\ UNCHANGED <<image, jit>>

(* processMicrotasks: a queued lazy call may run this function too, and    *)
(* takes its error with it.                                                *)
DrainTask ==
  /\ frames # <<>> /\ Top.phase = "drain" /\ ~UnderDrain /\ Depth < MaxDepth
  /\ Push(Top) /\ err' = FALSE
  /\ UNCHANGED <<image, loops, jit>>

DrainEnd ==
  /\ frames # <<>> /\ Top.phase = "drain" /\ Top.part = "interp"
  /\ IF Op.op = "Return" THEN Pop ELSE Replace(Interp(Top.pc + 1, "fetch"))
  /\ err' = FALSE
  /\ UNCHANGED <<image, loops, jit>>

FallOff ==
  /\ frames # <<>> /\ Top.phase = "fetch" /\ Top.part = "interp"
  /\ Top.pc >= Len(image) \/ err
  /\ Pop
  /\ UNCHANGED <<image, loops, err, jit>>

-----------------------------------------------------------------------------
(* executeCompiledLoop.                                                    *)
InCode(part) == frames # <<>> /\ Top.phase = "fetch" /\ Top.part = part
NextOp(pc)   == Compiled(pc, "fetch", Top.loop)

(* deopt(): this code is never entered again.                              *)
Kill(pc) ==
  /\ loops' = [loops EXCEPT ![Top.loop].code = "dead"]
  /\ Replace(Interp(pc, "fetch"))
  /\ UNCHANGED <<image, err, jit>>

(* DeoptPoint.resumePc of the guard before pc: the pc of the BYTECODE, if  *)
(* it is not 0, where the interpreter counts in instructions of the image. *)
ResumePc(pc) == IF At(image, pc).orig # 0 THEN At(image, pc).orig ELSE pc

GuardHolds ==
  /\ InCode("guard")
  /\ Replace([Top EXCEPT !.part = "op"])
  /\ UNCHANGED <<image, loops, err, jit>>

GuardFails ==
  /\ InCode("guard")
  /\ Kill(ResumePc(Top.pc))

(* Faulty: the interpreter resumes at the loop header.                     *)
DeoptRestarts ==
  /\ InCode("op") /\ Op.op \in Plain \cup {"CompareJumpFalse", "CallDirect"}
  /\ Kill(Header(image, Top.loop))

(* An operand is not what the code expects: resume at the instruction.     *)
Deopt ==
  /\ InCode("op") /\ Op.op \in Plain \cup {"CompareJumpFalse", "CallDirect"}
  /\ Kill(Top.pc)

(* An operation, a branch or a call of another function goes on.           *)
CodeStep ==
  /\ InCode("op") /\ Op.op \in Plain \cup {"CompareJumpFalse", "CallDirect"}
  /\ Replace(NextOp(Top.pc + 1))
  /\ UNCHANGED <<image, loops, err, jit>>

(* Faulty: a branch out of the loop leaves to the pc after the loop.       *)
LeaveBehindLoop(pc) ==
  Replace(IF pc = Header(image, Top.loop) THEN NextOp(pc)
          ELSE Interp(Top.loop + 1, "fetch"))

(* Only the header has a place in the compiled code; any other target is   *)
(* left to the interpreter.                                                *)
GoTo(pc) ==
  Replace(IF pc = Header(image, Top.loop) THEN NextOp(pc) ELSE Interp(pc, "fetch"))

CodeBranch ==
  /\ InCode("op") /\ Op.op = "CompareJumpFalse"
  /\ GoTo(Op.c)
  /\ UNCHANGED <<image, loops, err, jit>>

(* A jump to the header runs microtasks first, another leaves the code.    *)
CodeJump ==
  /\ InCode("op") /\ Op.op = "Jump"
  /\ IF Op.a = Header(image, Top.loop) THEN Replace([Top EXCEPT !.phase = "drain"])
     ELSE Replace(Interp(Op.a, "fetch"))
  /\ UNCHANGED <<image, loops, err, jit>>

CodeDrainEnd ==
  /\ frames # <<>> /\ Top.phase = "drain" /\ Top.part = "op"
  /\ Replace(NextOp(Header(image, Top.loop))) /\ err' = FALSE
  /\ UNCHANGED <<image, loops, jit>>

(* A negative square root, or an error of a called function.               *)
CodeFails ==
  /\ InCode("op") /\ Op.op \in {"IntrinsicSqrt", "CallDirect"}
  /\ Pop /\ err' = TRUE
  /\ UNCHANGED <<image, loops, jit>>

CodeCallsAgain ==
  /\ InCode("op") /\ Op.op = "CallDirect" /\ Depth < MaxDepth
  /\ Push([Top EXCEPT !.phase = "call"])
  /\ UNCHANGED <<image, loops, err, jit>>

(* Faulty: the error of the called function is not looked at.              *)
CodeCallIgnoresError ==
  /\ Returned /\ Top.part = "op"
  /\ Replace(NextOp(Top.pc + 1)) /\ err' = FALSE
  /\ UNCHANGED <<image, loops, jit>>

CodeCallReturns ==
  /\ Returned /\ Top.part = "op"
  /\ IF err THEN Pop ELSE Replace(NextOp(Top.pc + 1))
  /\ UNCHANGED <<image, loops, err, jit>>

Interpret == \/ EnterLoop \/ StepOver \/ TakeJump \/ FailInstr \/ CallAgain
             \/ ReturnInStmt \/ CallReturns \/ CallFails \/ FallOff

Microtask == DrainTask \/ DrainEnd \/ CodeDrainEnd

RunCode == \/ GuardHolds \/ GuardFails \/ Deopt \/ CodeStep \/ CodeBranch
           \/ CodeJump \/ CodeFails \/ CodeCallsAgain \/ CodeCallReturns

Next == Exec \/ Invoke \/ Interpret \/ Microtask \/ RunCode

Spec == Init /\ [][Next]_vars
-----------------------------------------------------------------------------
Positions == [pc : Nat, phase : Phases, part : Parts, loop : Nat \cup {NoLoop}]

(* Compiled code has an operation for wherever an activation is in it.     *)
Placed(f) ==
  IF f.part = "interp" THEN f.phase # "fetch" => f.pc < Len(image)
  ELSE /\ f.loop \in Loops(image) /\ Compilable(f.loop)
       /\ f.pc \in Header(image, f.loop)..f.loop
       /\ f.part = "guard" => At(image, f.pc).op \in Guarded /\ f.phase = "fetch"

TypeOK ==
  /\ WellFormed(image) /\ jit \in BOOLEAN /\ err \in BOOLEAN
  /\ loops \in [Loops(image) -> LoopState]
  /\ frames \in Seq(Positions)
  /\ \A i \in 1..Depth : Placed(frames[i])

PlainExecution ==
  INSTANCE PlainV2 WITH
    stack  <- [i \in 1..Depth |-> [pc |-> frames[i].pc, phase |-> frames[i].phase]],
    failed <- err

(* The departure: a guard behind a fused instruction fails, and its pc is  *)
(* handed to the interpreter in the numbering of the bytecode.             *)
ResumesElsewhere ==
  /\ InCode("guard") /\ ResumePc(Top.pc) # Top.pc
  /\ Replace(Interp(ResumePc(Top.pc), "fetch"))
  /\ UNCHANGED <<image, err>>

(* Both tiers execute the instructions of the image and nothing else: what *)
(* runs after a loop was compiled, left or deoptimized is what plain       *)
(* interpretation would run.  Only the failing guard above goes elsewhere. *)
TiersAgree ==
  PlainExecution!Init
  /\ [][PlainExecution!Next \/ ResumesElsewhere]_(PlainExecution!pvars)

(* The same without the departure, as the plan of the execution model has  *)
(* it: hot loops are lowered without semantic drift.                       *)
NoSemanticDrift == PlainExecution!Spec

(* A change of tier by itself executes nothing.                            *)
ChangeTier == EnterLoop \/ GuardHolds \/ GuardFails \/ Deopt

(* A function does not go from one tier to the other for ever without      *)
(* executing anything in between: code that a guard left is not entered    *)
(* again at the header that the interpreter resumes at.                    *)
TierChangesEnd == []<><<ChangeTier>>_vars => []<><<Next /\ ~ChangeTier>>_vars
=============================================================================
