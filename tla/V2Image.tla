------------------------------ MODULE V2Image ------------------------------
(***************************************************************************)
(* The execution image of a V2 function: buildV2ExecutionImage groups the  *)
(* bytecode into superinstructions, discoverV2Loops finds the loops that   *)
(* may be compiled (src/runtime/RTEngine.cpp).                             *)
(*                                                                         *)
(* Program counters start at 0, as in the code.  A bytecode instruction    *)
(* has the fields of RTV2Instruction; the two constant loads are one       *)
(* opcode here, and Nop, which the lowerer never emits, is left out.       *)
(***************************************************************************)
EXTENDS Integers, Sequences, FiniteSets

At(s, pc) == s[pc + 1]
Pcs(s)    == 0..(Len(s) - 1)

Opcodes == {"Move", "LoadConst", "NumCast", "Binary", "Compare", "ArrayGet",
            "ArraySet", "CallDirect", "IntrinsicSqrt", "Jump", "JumpIfFalse",
            "V1Stmt", "Return"}

ExecOpcodes == Opcodes \cup {"CompareJumpFalse", "BinaryInplace", "ArrayUpdate"}

NoLoop == -1
-----------------------------------------------------------------------------
(* Superinstructions: when the instructions at i are fused into one.       *)
FusesBranch(code, i) ==
  /\ i + 1 < Len(code)
  /\ At(code, i).op = "Compare" /\ At(code, i + 1).op = "JumpIfFalse"
  /\ At(code, i + 1).a = At(code, i).a

FusesInplace(code, i) ==
  /\ i + 1 < Len(code)
  /\ At(code, i).op = "Binary" /\ At(code, i + 1).op = "Move"
  /\ At(code, i + 1).b = At(code, i).a

FusesUpdate(code, i) ==
  /\ i + 2 < Len(code)
  /\ LET get == At(code, i) bin == At(code, i + 1) set == At(code, i + 2) IN
     /\ get.op = "ArrayGet" /\ bin.op = "Binary" /\ set.op = "ArraySet"
     /\ bin.b = get.a /\ set.c = bin.a
     /\ set.a = get.b /\ set.b = get.c
     /\ get.kind = bin.kind /\ get.kind = set.kind

(* originalSpan: how many instructions the one installed at i stands for.  *)
Span(code, i) ==
  IF FusesBranch(code, i) \/ FusesInplace(code, i) THEN 2
  ELSE IF FusesUpdate(code, i) THEN 3 ELSE 1

(* The pcs at which an instruction is installed, and the end of the code.  *)
Starts(code) ==
  LET isStart[i \in 0..Len(code)] ==
        i = 0 \/ \E s \in {1, 2, 3} :
                   s <= i /\ Span(code, i - s) = s /\ isStart[i - s]
  IN  {i \in 0..Len(code) : isStart[i]}

(* originalToExecIndex *)
ExecIndex(code, i) == Cardinality({s \in Starts(code) : s < i})

Targets(code) == {At(code, i).a : i \in {j \in Pcs(code) : At(code, j).op = "Jump"}}
            \cup {At(code, i).b : i \in {j \in Pcs(code) : At(code, j).op = "JumpIfFalse"}}

(* No jump of the code leads outside it or into the middle of a group.     *)
Builds(code) == Targets(code) \subseteq Starts(code)

(* The instruction installed for the group that starts at i, its jump      *)
(* target already moved to the exec image.                                 *)
Installed(code, i) ==
  LET in == At(code, i)
      exec(op, a, b, c) ==
        [op |-> op, kind |-> in.kind, aux |-> in.aux, a |-> a, b |-> b, c |-> c,
         orig |-> i]
  IN  IF FusesBranch(code, i)
      THEN exec("CompareJumpFalse", in.b, in.c, ExecIndex(code, At(code, i + 1).b))
      ELSE IF FusesInplace(code, i)
      THEN exec("BinaryInplace", At(code, i + 1).a, in.b, in.c)
      ELSE IF FusesUpdate(code, i)
      THEN [exec("ArrayUpdate", in.b, in.c, At(code, i + 1).c)
              EXCEPT !.aux = At(code, i + 1).aux]
      ELSE IF in.op = "Jump"
      THEN exec(in.op, ExecIndex(code, in.a), in.b, in.c)
      ELSE IF in.op = "JumpIfFalse"
      THEN exec(in.op, in.a, ExecIndex(code, in.b), in.c)
      ELSE exec(in.op, in.a, in.b, in.c)

BuildImage(code) ==
  [k \in 1..(Cardinality(Starts(code)) - 1) |->
     Installed(code, CHOOSE i \in Starts(code) : ExecIndex(code, i) = k - 1)]
-----------------------------------------------------------------------------
(* The jump target of a conditional branch of the image. *)
BranchTarget(in) == IF in.op = "CompareJumpFalse" THEN in.c ELSE in.b

IsBranch(in) == in.op \in {"CompareJumpFalse", "JumpIfFalse"}

(* The branches that leave the loop closed by the jump at back.            *)
Exits(image, back) ==
  {pc \in At(image, back).a..(back - 1) :
     IsBranch(At(image, pc)) /\ BranchTarget(At(image, pc)) > back}

ExitPc(image, back) ==
  BranchTarget(At(image, CHOOSE pc \in Exits(image, back) :
                           \A q \in Exits(image, back) : pc <= q))

(* discoverV2Loops: a loop is named by the pc of its backward jump.  Loops *)
(* without a branch out of them, or that leave to the end, are ignored.    *)
Loops(image) ==
  {pc \in Pcs(image) :
     /\ At(image, pc).op = "Jump" /\ At(image, pc).a < pc
     /\ Exits(image, pc) # {} /\ ExitPc(image, pc) # Len(image)}

Header(image, l) == At(image, l).a

(* loopIndexByHeaderPc: the last loop found with this header.              *)
HeaderLoop(image, pc) ==
  LET ls == {l \in Loops(image) : Header(image, l) = pc} IN
  IF ls = {} THEN NoLoop ELSE CHOOSE l \in ls : \A m \in ls : m <= l

(* innermostLoopByPc: the shortest loop around pc, the last one on a tie.  *)
InnermostLoop(image, pc) ==
  LET ls == {l \in Loops(image) : Header(image, l) <= pc /\ pc <= l}
      size(l) == l - Header(image, l)
  IN  IF ls = {} THEN NoLoop
      ELSE CHOOSE l \in ls : \A m \in ls :
             size(l) < size(m) \/ (size(l) = size(m) /\ m <= l)
=============================================================================
