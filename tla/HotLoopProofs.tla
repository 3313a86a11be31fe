--------------------------- MODULE HotLoopProofs ---------------------------
(***************************************************************************)
(* Proofs about HotLoop, for any images, threshold and bounds.             *)
(*                                                                         *)
(* The argument is about positions.  Every activation is at an instruction *)
(* its tier can be at; all but the running one are inside a call or run    *)
(* microtasks; no error is left while an instruction is dispatched; and    *)
(* only loops that have an IR form were ever compiled.                     *)
(***************************************************************************)
EXTENDS HotLoop, SequenceTheorems, WellFoundedInduction, TLAPS

(* An activation is where its tier and its phase allow it to be.    *)
FrameOK(f) ==
  /\ f \in Positions /\ Placed(f)
  /\ f.phase = "call" => At(image, f.pc).op \in {"CallDirect", "V1Stmt"}
  /\ f.phase = "drain" /\ f.part = "interp" => At(image, f.pc).op # "Jump"
  /\ f.phase = "drain" /\ f.part # "interp" =>
       At(image, f.pc).op = "Jump" /\ At(image, f.pc).a = Header(image, f.loop)
  /\ f.phase = "call" /\ f.part # "interp" => At(image, f.pc).op = "CallDirect"

Waiting == {"call", "drain"}

StackOK(fs) ==
  /\ fs \in Seq(Positions)
  /\ \A i \in 1..Len(fs) : FrameOK(fs[i])
  /\ \A i \in 1..Len(fs) : i < Len(fs) => fs[i].phase \in Waiting

(* What was compiled was found hot, and has an IR form.                    *)
LoopsOK(ls) ==
  /\ ls \in [Loops(image) -> LoopState]
  /\ \A l \in Loops(image) : ls[l].code # "none" => ls[l].hot /\ Compilable(l)

(* Only compiled code is executed.                                         *)
EnteredOK(fs, ls) ==
  \A i \in 1..Len(fs) : fs[i].part # "interp" => ls[fs[i].loop].code # "none"

(* An error is on its way to a caller, or to whoever runs the microtasks.  *)
ErrOK == err => frames = <<>> \/ Top.phase \in Waiting

IInv ==
  /\ image \in Images /\ jit \in BOOLEAN /\ err \in BOOLEAN
  /\ StackOK(frames) /\ LoopsOK(loops) /\ EnteredOK(frames, loops) /\ ErrOK
-----------------------------------------------------------------------------
(* A nonempty set of numbers has a least one; a bounded one a greatest.    *)
LEMMA Least ==
  ASSUME NEW S \in SUBSET Nat, S # {}
  PROVE  \E m \in S : \A n \in S : m <= n
<1> DEFINE R == OpToRel(<, Nat)
<1>1. IsWellFoundedOn(R, Nat)
  BY NatLessThanWellFounded, Zenon
<1>2. \A m, n \in S : n < m => <<n, m>> \in R
  BY SMT DEF OpToRel
<1> HIDE DEF R
<1>3. PICK m \in S : \A n \in S : ~ (<<n, m>> \in R)
  BY <1>1, WFMin
<1>4. \A n \in S : ~ (n < m)
  BY <1>2, <1>3
<1>5. \A n \in S : m <= n
  BY <1>4
<1> QED
  BY <1>5

LEMMA Greatest ==
  ASSUME NEW k \in Nat, NEW S \in SUBSET (0..k), S # {}
  PROVE  \E m \in S : \A n \in S : n <= m
<1> DEFINE T == {j \in 0..k : k - j \in S}
<1>1. \A n \in S : k - n \in T
  OBVIOUS
<1>2. T \in SUBSET Nat /\ T # {}
  <2>1. PICK n \in S : TRUE
    OBVIOUS
  <2>2. k - n \in T
    BY <1>1
  <2>3. T \in SUBSET Nat
    OBVIOUS
  <2> HIDE DEF T
  <2> QED
    BY <2>2, <2>3
<1>3. \A t \in T : k - t \in S
  OBVIOUS
<1> HIDE DEF T
<1>4. PICK t \in T : \A u \in T : t <= u
  BY <1>2, Least
<1>5. k - t \in S /\ t \in Nat
  BY <1>2, <1>3, <1>4
<1>6. \A n \in S : t <= k - n
  BY <1>1, <1>4
<1>7. \A n \in S : n <= k - t
  BY <1>5, <1>6
<1> QED
  BY <1>5, <1>7

(* What the assumption on Images says of the code being executed.          *)
LEMMA ImageFacts ==
  ASSUME image \in Images
  PROVE  /\ WellFormed(image)
         /\ Len(image) \in Nat /\ Len(image) > 0
         /\ \A pc \in Pcs(image) : /\ At(image, pc).op \in ExecOpcodes
                                   /\ At(image, pc).a \in Nat
                                   /\ At(image, pc).b \in Nat
                                   /\ At(image, pc).c \in Nat
                                   /\ At(image, pc).orig \in Nat
         /\ \A pc \in Pcs(image) : At(image, pc).op = "Jump" =>
                                     At(image, pc).a \in 0..Len(image)
         /\ \A pc \in Pcs(image) : IsBranch(At(image, pc)) =>
                                     BranchTarget(At(image, pc)) \in 0..Len(image)
<1> DEFINE Instr == [op : ExecOpcodes, kind : Nat, aux : Nat,
                     a : Nat, b : Nat, c : Nat, orig : Nat]
<1>1. image \in Seq(Instr) /\ WellFormed(image)
  BY HotLoopAssumption
<1>2. Len(image) \in Nat
  BY <1>1
<1> HIDE DEF Instr
<1>3. \A pc \in Pcs(image) : At(image, pc) \in Instr
  BY <1>1, <1>2 DEF At, Pcs
<1> QED
  BY <1>1, <1>2, <1>3 DEF WellFormed, Instr

LEMMA LoopFacts ==
  ASSUME image \in Images, NEW l \in Loops(image)
  PROVE  /\ l \in Pcs(image) /\ l \in Nat /\ At(image, l).op = "Jump"
         /\ Header(image, l) = At(image, l).a
         /\ Header(image, l) \in Nat /\ Header(image, l) < l
         /\ \A pc \in Header(image, l)..l : pc \in Pcs(image) /\ pc \in Nat
<1>1. l \in Pcs(image) /\ At(image, l).op = "Jump" /\ At(image, l).a < l
  BY DEF Loops
<1>2. l \in 0..(Len(image) - 1) /\ Len(image) \in Nat /\ At(image, l).a \in Nat
  BY <1>1, ImageFacts DEF Pcs
<1> QED
  BY <1>1, <1>2 DEF Header, Pcs

(* The loop that starts at pc, if there is one.                            *)
LEMMA HeaderLoopFacts ==
  ASSUME image \in Images, NEW pc, HeaderLoop(image, pc) # NoLoop
  PROVE  /\ HeaderLoop(image, pc) \in Loops(image)
         /\ Header(image, HeaderLoop(image, pc)) = pc
<1> DEFINE ls == {l \in Loops(image) : Header(image, l) = pc}
<1>1. ls # {}
  BY DEF HeaderLoop
<1>2. Len(image) \in Nat /\ ls \in SUBSET (0..Len(image))
  BY ImageFacts, LoopFacts DEF Pcs
<1>3. \E l \in ls : \A m \in ls : m <= l
  BY <1>1, <1>2, Greatest
<1>4. HeaderLoop(image, pc) = CHOOSE l \in ls : \A m \in ls : m <= l
  BY <1>1 DEF HeaderLoop
<1>5. HeaderLoop(image, pc) \in ls
  BY <1>3, <1>4
<1> QED
  BY <1>5

(* The loop whose record is told about the instruction at pc.              *)
LEMMA InnermostLoopFacts ==
  ASSUME image \in Images, NEW pc, InnermostLoop(image, pc) # NoLoop
  PROVE  InnermostLoop(image, pc) \in Loops(image)
<1> DEFINE ls == {l \in Loops(image) : Header(image, l) <= pc /\ pc <= l}
           size(l) == l - Header(image, l)
           sizes == {size(l) : l \in ls}
<1>1. ls # {}
  BY DEF InnermostLoop
<1>2. \A l \in ls : size(l) \in Nat /\ l \in 0..Len(image)
  BY ImageFacts, LoopFacts DEF Pcs
<1>3. PICK s \in sizes : \A t \in sizes : s <= t
  <2>1. sizes \in SUBSET Nat /\ sizes # {}
    BY <1>1, <1>2
  <2> QED
    BY <2>1, Least
<1> DEFINE short == {l \in ls : size(l) = s}
<1>4. PICK l \in short : \A m \in short : m <= l
  <2>1. Len(image) \in Nat /\ short \in SUBSET (0..Len(image)) /\ short # {}
    BY <1>2, <1>3, ImageFacts
  <2> QED
    BY <2>1, Greatest
<1>5. \A m \in ls : size(l) < size(m) \/ (size(l) = size(m) /\ m <= l)
  <2> SUFFICES ASSUME NEW m \in ls, ~(size(l) < size(m))
               PROVE  size(l) = size(m) /\ m <= l
    OBVIOUS
  <2>1. size(m) \in sizes /\ size(l) = s
    BY <1>4
  <2>2. size(l) = size(m)
    <3>1. s <= size(m)
      BY <1>3, <2>1
    <3>2. size(l) \in Nat /\ size(m) \in Nat
      BY <1>2, <1>4
    <3> HIDE DEF size, ls, sizes, short
    <3> QED
      BY <2>1, <3>1, <3>2
  <2>3. m \in short
    BY <2>1, <2>2
  <2> QED
    BY <1>4, <2>2, <2>3
<1>6. InnermostLoop(image, pc) =
        CHOOSE k \in ls : \A m \in ls : size(k) < size(m) \/ (size(k) = size(m) /\ m <= k)
  BY <1>1 DEF InnermostLoop
<1>7. InnermostLoop(image, pc) \in ls
  <2> DEFINE good(k) == \A m \in ls : size(k) < size(m) \/ (size(k) = size(m) /\ m <= k)
  <2>1. l \in ls /\ good(l)
    BY <1>4, <1>5
  <2> HIDE DEF ls, size, good
  <2>2. (CHOOSE k \in ls : good(k)) \in ls
    BY <2>1
  <2> QED
    BY <1>6, <2>2 DEF good
<1> QED
  BY <1>7

-----------------------------------------------------------------------------
(* The three ways the stack changes.                                       *)
LEMMA ReplacedOK ==
  ASSUME NEW fs, StackOK(fs), Len(fs) > 0, NEW f, FrameOK(f)
  PROVE  LET gs == [fs EXCEPT ![Len(fs)] = f] IN
         /\ StackOK(gs) /\ Len(gs) = Len(fs) /\ gs[Len(fs)] = f
         /\ \A i \in 1..Len(fs) : i # Len(fs) => gs[i] = fs[i]
<1> DEFINE gs == [fs EXCEPT ![Len(fs)] = f]
<1>1. fs \in Seq(Positions) /\ f \in Positions /\ Len(fs) \in Nat
  BY DEF StackOK, FrameOK
<1>2. /\ gs \in Seq(Positions) /\ Len(gs) = Len(fs) /\ gs[Len(fs)] = f
      /\ \A i \in 1..Len(fs) : i # Len(fs) => gs[i] = fs[i]
  BY <1>1
<1> HIDE DEF gs
<1>3. StackOK(gs)
  <2>1. \A i \in 1..Len(gs) : FrameOK(gs[i])
    BY <1>1, <1>2 DEF StackOK
  <2>2. \A i \in 1..Len(gs) : i < Len(gs) => gs[i].phase \in Waiting
    BY <1>1, <1>2 DEF StackOK
  <2> QED
    BY <1>2, <2>1, <2>2 DEF StackOK
<1> QED
  BY <1>2, <1>3 DEF gs

LEMMA PushedOK ==
  ASSUME NEW fs, StackOK(fs), Len(fs) > 0 => fs[Len(fs)].phase \in Waiting,
         NEW f, FrameOK(f)
  PROVE  LET gs == Append(fs, f) IN
         /\ StackOK(gs) /\ Len(gs) = Len(fs) + 1 /\ gs[Len(gs)] = f
         /\ \A i \in 1..Len(fs) : gs[i] = fs[i]
<1> DEFINE gs == Append(fs, f)
<1>1. fs \in Seq(Positions) /\ f \in Positions /\ Len(fs) \in Nat
  BY DEF StackOK, FrameOK
<1>2. /\ gs \in Seq(Positions) /\ Len(gs) = Len(fs) + 1 /\ gs[Len(gs)] = f
      /\ \A i \in 1..Len(fs) : gs[i] = fs[i]
  BY <1>1
<1> HIDE DEF gs
<1>3. StackOK(gs)
  <2>1. \A i \in 1..Len(gs) : FrameOK(gs[i])
    <3> SUFFICES ASSUME NEW i \in 1..Len(gs) PROVE FrameOK(gs[i])
      OBVIOUS
    <3>1. CASE i = Len(gs)
      BY <1>2, <3>1
    <3>2. CASE i # Len(gs)
      BY <1>1, <1>2, <3>2 DEF StackOK
    <3> QED
      BY <3>1, <3>2
  <2>2. \A i \in 1..Len(gs) : i < Len(gs) => gs[i].phase \in Waiting
    BY <1>1, <1>2 DEF StackOK
  <2> QED
    BY <1>2, <2>1, <2>2 DEF StackOK
<1> QED
  BY <1>2, <1>3 DEF gs

LEMMA PoppedOK ==
  ASSUME NEW fs, StackOK(fs), Len(fs) > 0
  PROVE  LET gs == SubSeq(fs, 1, Len(fs) - 1) IN
         /\ StackOK(gs) /\ Len(gs) = Len(fs) - 1
         /\ \A i \in 1..Len(gs) : gs[i] = fs[i]
         /\ Len(gs) > 0 => gs[Len(gs)].phase \in Waiting
<1> DEFINE gs == SubSeq(fs, 1, Len(fs) - 1)
<1>1. fs \in Seq(Positions) /\ Len(fs) \in Nat
  BY DEF StackOK
<1>2. /\ gs \in Seq(Positions) /\ Len(gs) = Len(fs) - 1
      /\ \A i \in 1..Len(gs) : gs[i] = fs[i]
  <2>1. Len(fs) - 1 \in Nat
    BY <1>1
  <2>2. Len(gs) = Len(fs) - 1
    <3> DEFINE n == Len(fs) - 1
    <3>1. \A i \in 1..n : fs[i] \in Positions
      BY <1>1
    <3>a. n \in Nat
      BY <2>1
    <3> HIDE DEF n
    <3>2. n \in Int /\ 1 \in Int /\ (IF 1 <= n THEN n - 1 + 1 ELSE 0) = n
      BY <3>a
    <3>3. Len(SubSeq(fs, 1, n)) = IF 1 <= n THEN n - 1 + 1 ELSE 0
      BY <3>1, <3>2, SubSeqProperties
    <3> QED
      BY <3>2, <3>3 DEF n
  <2>3. gs \in Seq(Positions)
    BY <1>1, <2>1
  <2>4. \A i \in 1..(Len(fs) - 1) : gs[i] = fs[i]
    BY <1>1, <2>1
  <2> HIDE DEF gs
  <2> QED
    BY <2>2, <2>3, <2>4
<1> HIDE DEF gs
<1>3. /\ \A i \in 1..Len(gs) : FrameOK(gs[i])
      /\ \A i \in 1..Len(gs) : gs[i].phase \in Waiting
  BY <1>1, <1>2 DEF StackOK
<1> QED
  BY <1>1, <1>2, <1>3 DEF StackOK, gs

(* Frames mean the same after a step: no step changes the image.           *)
LEMMA SameFrames ==
  ASSUME image' = image, NEW f, FrameOK(f)
  PROVE  FrameOK(f)'
  BY DEF FrameOK, Placed, Header, Compilable, At, Loops, Pcs, Exits, ExitPc

LEMMA SameStack ==
  ASSUME image' = image, StackOK(frames')
  PROVE  StackOK(frames)'
  BY SameFrames DEF StackOK

(* Nobody is in a compiled loop who was not in it before.                  *)
NoNewcomer ==
  \A i \in 1..Len(frames') : frames'[i].part # "interp" =>
    /\ i \in 1..Len(frames) /\ frames[i].part # "interp"
    /\ frames[i].loop = frames'[i].loop

(* An activation that continues as f is not one of them.                   *)
Stays(f) == f.part = "interp" \/ (Top.part # "interp" /\ f.loop = Top.loop)

LEMMA TopFacts ==
  ASSUME StackOK(frames), frames # <<>>
  PROVE  /\ Depth \in Nat /\ Depth > 0 /\ frames \in Seq(Positions)
         /\ FrameOK(Top) /\ Top \in Positions
<1>1. frames \in Seq(Positions)
  BY DEF StackOK
<1>2. Depth \in Nat /\ Depth > 0
  BY <1>1 DEF Depth
<1>3. FrameOK(Top)
  BY <1>2 DEF StackOK, Top, Depth
<1> QED
  BY <1>1, <1>2, <1>3 DEF FrameOK

LEMMA TopReplaced ==
  ASSUME StackOK(frames), frames # <<>>, NEW f, FrameOK(f), Replace(f)
  PROVE  StackOK(frames') /\ frames' # <<>> /\ (Stays(f) => NoNewcomer)
<1> DEFINE gs == [frames EXCEPT ![Len(frames)] = f]
<1>1. Len(frames) \in Nat /\ Len(frames) > 0 /\ frames' = gs
  BY TopFacts DEF Depth, Replace
<1>2. /\ StackOK(gs) /\ Len(gs) = Len(frames) /\ gs[Len(frames)] = f
      /\ \A i \in 1..Len(frames) : i # Len(frames) => gs[i] = frames[i]
  BY <1>1, ReplacedOK
<1> HIDE DEF gs
<1>3. Stays(f) => NoNewcomer
  BY <1>1, <1>2 DEF Stays, NoNewcomer, Top, Depth
<1> QED
  BY <1>1, <1>2, <1>3

LEMMA TopPushed ==
  ASSUME StackOK(frames), frames # <<>>, FrameOK(Interp(0, "fetch")),
         NEW f, FrameOK(f), f.phase \in Waiting, Stays(f), Push(f)
  PROVE  StackOK(frames') /\ NoNewcomer
<1> DEFINE gs == [frames EXCEPT ![Len(frames)] = f]
<1>1. Len(frames) \in Nat /\ Len(frames) > 0
  BY TopFacts DEF Depth
<1>2. /\ StackOK(gs) /\ Len(gs) = Len(frames) /\ gs[Len(frames)] = f
      /\ \A i \in 1..Len(frames) : i # Len(frames) => gs[i] = frames[i]
  BY <1>1, ReplacedOK
<1>3. frames' = Append(gs, Interp(0, "fetch"))
  BY DEF Push, Depth
<1> HIDE DEF gs
<1>4. /\ StackOK(frames') /\ Len(frames') = Len(frames) + 1
      /\ frames'[Len(frames')] = Interp(0, "fetch")
      /\ \A i \in 1..Len(frames) : frames'[i] = gs[i]
  BY <1>1, <1>2, <1>3, PushedOK
<1>5. Interp(0, "fetch").part = "interp"
  BY DEF Interp
<1>6. NoNewcomer
  BY <1>1, <1>2, <1>4, <1>5 DEF Stays, NoNewcomer, Top, Depth
<1> QED
  BY <1>4, <1>6

LEMMA TopPopped ==
  ASSUME StackOK(frames), frames # <<>>, Pop
  PROVE  /\ StackOK(frames') /\ NoNewcomer
         /\ frames' = <<>> \/ frames'[Len(frames')].phase \in Waiting
<1>1. Len(frames) \in Nat /\ Len(frames) > 0
  BY TopFacts DEF Depth
<1>2. /\ StackOK(frames') /\ Len(frames') = Len(frames) - 1
      /\ \A i \in 1..Len(frames') : frames'[i] = frames[i]
      /\ Len(frames') > 0 => frames'[Len(frames')].phase \in Waiting
  BY <1>1, PoppedOK DEF Pop, Depth
<1>3. frames' = <<>> \/ Len(frames') > 0
  BY <1>1, <1>2 DEF StackOK
<1>4. NoNewcomer
  BY <1>1, <1>2 DEF NoNewcomer
<1> QED
  BY <1>2, <1>3, <1>4

-----------------------------------------------------------------------------
(* The positions that the actions move to.                                 *)
LEMMA InterpFetches ==
  ASSUME NEW pc \in Nat
  PROVE  FrameOK(Interp(pc, "fetch")) /\ Stays(Interp(pc, "fetch"))
  BY DEF FrameOK, Stays, Placed, Interp, Positions, Phases, Parts

LEMMA InterpWaits ==
  ASSUME image \in Images, NEW pc \in Pcs(image), NEW phase \in Waiting,
         phase = "call" => At(image, pc).op \in {"CallDirect", "V1Stmt"},
         phase = "drain" => At(image, pc).op # "Jump"
  PROVE  FrameOK(Interp(pc, phase)) /\ Stays(Interp(pc, phase))
<1>1. Len(image) \in Nat /\ pc \in Nat /\ pc < Len(image) /\ pc <= Len(image)
  BY ImageFacts DEF Pcs
<1> QED
  BY <1>1 DEF FrameOK, Stays, Placed, Interp, Positions, Phases, Parts, Waiting

LEMMA CodeFetches ==
  ASSUME image \in Images, NEW l \in Loops(image), Compilable(l),
         NEW pc \in Header(image, l)..l
  PROVE  FrameOK(Compiled(pc, "fetch", l))
<1>1. pc \in Nat /\ l \in Nat
  BY LoopFacts
<1>2. Compiled(pc, "fetch", l) \in Positions
  BY <1>1 DEF Compiled, Positions, Phases, Parts
<1> QED
  BY <1>2 DEF FrameOK, Placed, Compiled

(* Where the running activation is when it is in compiled code.            *)
LEMMA CodeFacts ==
  ASSUME image \in Images, StackOK(frames), frames # <<>>, Top.part # "interp"
  PROVE  /\ Top.loop \in Loops(image) /\ Compilable(Top.loop)
         /\ Top.pc \in Header(image, Top.loop)..Top.loop
         /\ Top.pc \in Pcs(image) /\ Top.pc \in Nat
         /\ Op.op \in Plain \cup {"CompareJumpFalse", "CallDirect", "Jump"}
         /\ Op.op # "Jump" => Top.pc + 1 \in Header(image, Top.loop)..Top.loop
         /\ Header(image, Top.loop) \in Header(image, Top.loop)..Top.loop
<1>1. FrameOK(Top) /\ Placed(Top)
  BY TopFacts DEF FrameOK
<1>2. /\ Top.loop \in Loops(image) /\ Compilable(Top.loop)
      /\ Top.pc \in Header(image, Top.loop)..Top.loop
  BY <1>1 DEF Placed
<1>3. /\ Top.loop \in Nat /\ At(image, Top.loop).op = "Jump"
      /\ Header(image, Top.loop) \in Nat /\ Header(image, Top.loop) < Top.loop
      /\ Top.pc \in Pcs(image) /\ Top.pc \in Nat
  BY <1>2, LoopFacts
<1>4. Op.op \in Plain \cup {"CompareJumpFalse", "CallDirect", "Jump"}
  BY <1>2 DEF Compilable, Op
<1>5. Op.op # "Jump" => Top.pc # Top.loop
  BY <1>3 DEF Op
<1> QED
  BY <1>2, <1>3, <1>4, <1>5

(* The same, when it is in the interpreter.                                *)
LEMMA InterpFacts ==
  ASSUME image \in Images, StackOK(frames), frames # <<>>, Top.part = "interp"
  PROVE  /\ Top.pc \in Nat /\ Top.pc + 1 \in Nat
         /\ Top.phase # "fetch" \/ Top.pc < Len(image) => Top.pc \in Pcs(image)
         /\ Top.phase = "call" => Op.op \in {"CallDirect", "V1Stmt"}
         /\ Top.phase = "drain" => Op.op # "Jump"
<1>1. FrameOK(Top) /\ Placed(Top) /\ Top.pc \in Nat /\ Len(image) \in Nat
  BY TopFacts, ImageFacts DEF FrameOK, Positions
<1> QED
  BY <1>1 DEF FrameOK, Placed, Op, Pcs

-----------------------------------------------------------------------------
(* The activations after each action.                                      *)
ErrHandedOver == err' => frames' = <<>> \/ frames'[Len(frames')].phase \in Waiting

Moved ==
  /\ image' = image /\ jit' \in BOOLEAN /\ err' \in BOOLEAN
  /\ StackOK(frames') /\ ErrHandedOver

LEMMA ProgramMoves ==
  ASSUME IInv, Exec \/ Invoke
  PROVE  Moved /\ NoNewcomer
<1>1. StackOK(<<>>)
  BY DEF StackOK
<1>2. FrameOK(Interp(0, "fetch"))
  BY ImageFacts, InterpFetches DEF IInv
<1>3. CASE Exec
  BY <1>1, <1>3 DEF Exec, Moved, ErrHandedOver, NoNewcomer
<1>4. CASE Invoke
  <2>1. frames' = <<Interp(0, "fetch")>> /\ Interp(0, "fetch") \in Positions
    BY <1>2, <1>4 DEF Invoke, FrameOK
  <2>2. StackOK(frames') /\ Len(frames') = 1 /\ frames'[1] = Interp(0, "fetch")
    BY <1>2, <2>1 DEF StackOK
  <2>3. NoNewcomer
    BY <2>2 DEF NoNewcomer, Interp
  <2> QED
    BY <1>4, <2>2, <2>3 DEF Invoke, Moved, ErrHandedOver, IInv
<1> QED
  BY <1>3, <1>4

LEMMA EnterLoopMoves ==
  ASSUME IInv, LoopsOK(Arrive(Top.pc)), EnterLoop
  PROVE  /\ Moved
         /\ \A i \in 1..Len(frames') : frames'[i].part # "interp" =>
              \/ Arrive(Top.pc)[frames'[i].loop].code = "live"
              \/ /\ i \in 1..Len(frames) /\ frames[i].part # "interp"
                 /\ frames[i].loop = frames'[i].loop
<1> DEFINE l == HeaderLoop(image, Top.pc)
           f == Compiled(Top.pc, "fetch", l)
<1>1. /\ image \in Images /\ StackOK(frames) /\ frames # <<>> /\ ~err
      /\ l # NoLoop /\ Arrive(Top.pc)[l].code = "live" /\ Replace(f)
      /\ UNCHANGED <<image, err, jit>>
  BY DEF IInv, EnterLoop, AtFetch, Enterable
<1>2. l \in Loops(image) /\ Header(image, l) = Top.pc
  BY <1>1, HeaderLoopFacts
<1>3. Compilable(l) /\ Top.pc \in Header(image, l)..l
  BY <1>1, <1>2, LoopFacts DEF LoopsOK
<1>4. FrameOK(f)
  BY <1>1, <1>2, <1>3, CodeFetches
<1>5. StackOK(frames')
  BY <1>1, <1>4, TopReplaced
<1>6. Len(frames) \in Nat /\ Len(frames) > 0
  BY <1>1, TopFacts DEF Depth
<1>7. /\ Len(frames') = Len(frames) /\ frames'[Len(frames)] = f
      /\ \A i \in 1..Len(frames) : i # Len(frames) => frames'[i] = frames[i]
  BY <1>1, <1>4, <1>6, ReplacedOK DEF Replace, Depth
<1>8. f.loop = l
  BY DEF Compiled
<1> QED
  BY <1>1, <1>5, <1>6, <1>7, <1>8 DEF Moved, ErrHandedOver, IInv

LEMMA InterpretMoves ==
  ASSUME IInv,
         \/ StepOver \/ TakeJump \/ FailInstr \/ CallAgain \/ ReturnInStmt
         \/ CallReturns \/ CallFails \/ FallOff
  PROVE  Moved /\ NoNewcomer
<1>1. image \in Images /\ StackOK(frames) /\ jit \in BOOLEAN /\ err \in BOOLEAN
  BY DEF IInv
<1>2. ASSUME Dispatch
      PROVE  /\ frames # <<>> /\ Top.part = "interp" /\ Top.phase = "fetch" /\ ~err
             /\ Top.pc \in Pcs(image)
  <2>1. frames # <<>> /\ Top.part = "interp" /\ Top.phase = "fetch" /\ ~err
        /\ Top.pc < Len(image)
    BY <1>2 DEF Dispatch, AtFetch
  <2> QED
    BY <1>1, <2>1, InterpFacts
<1>3. ASSUME Returned, Top.part = "interp"
      PROVE  /\ frames # <<>> /\ Top.phase = "call"
             /\ Top.pc \in Pcs(image) /\ Op.op \in {"CallDirect", "V1Stmt"}
  BY <1>1, <1>3, InterpFacts DEF Returned
<1>4. CASE StepOver
  <2>1. FrameOK(Interp(Top.pc, "drain")) /\ Stays(Interp(Top.pc, "drain"))
    BY <1>1, <1>2, <1>4, InterpWaits DEF StepOver, Op, Waiting
  <2> QED
    BY <1>1, <1>2, <1>4, <2>1, TopReplaced DEF StepOver, Moved, ErrHandedOver
<1>5. CASE TakeJump
  <2> DEFINE to == IF Op.op = "Jump" THEN Op.a ELSE BranchTarget(Op)
  <2>1. to \in Nat
    BY <1>1, <1>2, <1>5, ImageFacts DEF TakeJump, Op
  <2>2. FrameOK(Interp(to, "fetch")) /\ Stays(Interp(to, "fetch"))
    BY <2>1, InterpFetches
  <2> HIDE DEF to
  <2>3. Replace(Interp(to, "fetch")) /\ Dispatch /\ UNCHANGED <<image, err, jit>>
    BY <1>5 DEF TakeJump, to
  <2> QED
    BY <1>1, <1>2, <2>2, <2>3, TopReplaced DEF Moved, ErrHandedOver
<1>6. CASE FailInstr
  BY <1>1, <1>2, <1>6, TopPopped DEF FailInstr, Moved, ErrHandedOver
<1>7. CASE CallAgain
  <2>1. /\ FrameOK(Interp(Top.pc, "call")) /\ Stays(Interp(Top.pc, "call"))
        /\ Interp(Top.pc, "call").phase \in Waiting
    BY <1>1, <1>2, <1>7, InterpWaits DEF CallAgain, Op, Waiting, Interp
  <2>2. FrameOK(Interp(0, "fetch"))
    BY <1>1, ImageFacts, InterpFetches
  <2> QED
    BY <1>1, <1>2, <1>7, <2>1, <2>2, TopPushed DEF CallAgain, Moved, ErrHandedOver
<1>8. CASE ReturnInStmt
  <2>1. frames # <<>> /\ Pop /\ err' = FALSE /\ UNCHANGED <<image, jit>>
    BY <1>2, <1>8 DEF ReturnInStmt, Returned
  <2> QED
    BY <1>1, <2>1, TopPopped DEF Moved, ErrHandedOver
<1>9. CASE CallReturns
  <2>1. FrameOK(Interp(Top.pc, "drain")) /\ Stays(Interp(Top.pc, "drain"))
    BY <1>1, <1>3, <1>9, InterpWaits DEF CallReturns, Op, Waiting
  <2> QED
    BY <1>1, <1>3, <1>9, <2>1, TopReplaced DEF CallReturns, Moved, ErrHandedOver
<1>10. CASE CallFails
  BY <1>1, <1>3, <1>10, TopPopped DEF CallFails, Moved, ErrHandedOver
<1>11. CASE FallOff
  BY <1>1, <1>11, TopPopped DEF FallOff, Moved, ErrHandedOver
<1> QED
  BY <1>4, <1>5, <1>6, <1>7, <1>8, <1>9, <1>10, <1>11

LEMMA MicrotaskMoves ==
  ASSUME IInv, Microtask
  PROVE  Moved /\ NoNewcomer
<1>1. image \in Images /\ StackOK(frames) /\ jit \in BOOLEAN /\ err \in BOOLEAN
  BY DEF IInv
<1>2. FrameOK(Interp(0, "fetch"))
  BY <1>1, ImageFacts, InterpFetches
<1>3. CASE DrainTask
  <2>1. frames # <<>> /\ Top.phase \in Waiting /\ FrameOK(Top) /\ Top \in Positions
    BY <1>1, <1>3, TopFacts DEF DrainTask, Waiting
  <2>2. Stays(Top)
    BY <2>1 DEF Stays
  <2>3. Push(Top) /\ err' = FALSE /\ UNCHANGED <<image, jit>>
    BY <1>3 DEF DrainTask
  <2>4. StackOK(frames') /\ NoNewcomer
    BY <1>1, <1>2, <2>1, <2>2, <2>3, TopPushed
  <2> QED
    BY <1>1, <2>3, <2>4 DEF Moved, ErrHandedOver
<1>4. CASE DrainEnd
  <2>1. frames # <<>> /\ Top.part = "interp" /\ Top.phase = "drain"
    BY <1>4 DEF DrainEnd
  <2>2. Top.pc + 1 \in Nat
    BY <1>1, <2>1, InterpFacts
  <2>3. FrameOK(Interp(Top.pc + 1, "fetch")) /\ Stays(Interp(Top.pc + 1, "fetch"))
    BY <1>1, <2>2, InterpFetches
  <2>4. CASE Op.op = "Return"
    BY <1>1, <1>4, <2>1, <2>4, TopPopped DEF DrainEnd, Moved, ErrHandedOver
  <2>5. CASE Op.op # "Return"
    BY <1>1, <1>4, <2>1, <2>3, <2>5, TopReplaced DEF DrainEnd, Moved, ErrHandedOver
  <2> QED
    BY <2>4, <2>5
<1>5. CASE CodeDrainEnd
  <2>1. frames # <<>> /\ Top.part # "interp"
    BY <1>5 DEF CodeDrainEnd
  <2> DEFINE f == NextOp(Header(image, Top.loop))
  <2>2. FrameOK(f)
    BY <1>1, <2>1, CodeFacts, CodeFetches DEF NextOp
  <2>3. Stays(f)
    BY <2>1 DEF Stays, NextOp, Compiled
  <2> QED
    BY <1>1, <1>5, <2>1, <2>2, <2>3, TopReplaced DEF CodeDrainEnd, Moved, ErrHandedOver
<1> QED
  BY <1>3, <1>4, <1>5 DEF Microtask

LEMMA RunCodeMoves ==
  ASSUME IInv, RunCode
  PROVE  Moved /\ NoNewcomer
<1>1. image \in Images /\ StackOK(frames) /\ jit \in BOOLEAN /\ err \in BOOLEAN
  BY DEF IInv
<1>2. ASSUME NEW part \in {"guard", "op"}, InCode(part)
      PROVE  frames # <<>> /\ Top.part # "interp" /\ Top.phase = "fetch" /\ ~err
  BY <1>2 DEF InCode, IInv, ErrOK, Waiting
<1>3. ASSUME frames # <<>>, Top.part # "interp",
             NEW pc \in Header(image, Top.loop)..Top.loop
      PROVE  FrameOK(NextOp(pc)) /\ Stays(NextOp(pc))
  <2>1. FrameOK(NextOp(pc))
    BY <1>1, <1>3, CodeFacts, CodeFetches DEF NextOp
  <2>2. NextOp(pc).loop = Top.loop
    BY DEF NextOp, Compiled
  <2> QED
    BY <1>3, <2>1, <2>2 DEF Stays
<1>4. ASSUME frames # <<>>, ~err, NEW f, FrameOK(f), Stays(f), Replace(f),
             UNCHANGED <<image, err, jit>>
      PROVE  Moved /\ NoNewcomer
  BY <1>1, <1>4, TopReplaced DEF Moved, ErrHandedOver
<1>5. FrameOK(Top) /\ Placed(Top) /\ Top \in Positions
  <2>1. frames # <<>>
    BY DEF RunCode, InCode, Returned, GuardHolds, GuardFails, Deopt, CodeStep, CodeBranch,
           CodeJump, CodeFails, CodeCallsAgain, CodeCallReturns
  <2> QED
    BY <1>1, <2>1, TopFacts DEF FrameOK
<1>6. ASSUME NEW pc \in Nat, Kill(pc), frames # <<>>, ~err
      PROVE  Moved /\ NoNewcomer
  BY <1>1, <1>4, <1>6, InterpFetches DEF Kill
<1>7. CASE GuardHolds
  <2> DEFINE f == [Top EXCEPT !.part = "op"]
  <2>1. InCode("guard") /\ Replace(f) /\ UNCHANGED <<image, err, jit>>
    BY <1>7 DEF GuardHolds
  <2>2. f \in Positions /\ f.part = "op" /\ f.pc = Top.pc /\ f.phase = Top.phase
        /\ f.loop = Top.loop /\ Top.phase = "fetch" /\ Top.part = "guard"
    BY <1>5, <2>1 DEF Positions, Parts, InCode
  <2> HIDE DEF f
  <2>3. FrameOK(f) /\ Stays(f)
    BY <1>5, <2>2 DEF FrameOK, Placed, Stays
  <2> QED
    BY <1>2, <1>4, <2>1, <2>3
<1>8. CASE GuardFails
  <2>1. Kill(ResumePc(Top.pc)) /\ frames # <<>> /\ ~err
        /\ Top.part # "interp"
    BY <1>2, <1>8 DEF GuardFails, InCode
  <2>2. ResumePc(Top.pc) \in Nat
    BY <1>1, <2>1, CodeFacts, ImageFacts DEF ResumePc
  <2> QED
    BY <1>6, <2>1, <2>2
<1>9. CASE Deopt
  <2>1. frames # <<>> /\ ~err /\ Top.part # "interp" /\ Kill(Top.pc)
    BY <1>2, <1>9 DEF Deopt
  <2>2. Top.pc \in Nat
    BY <1>1, <2>1, CodeFacts
  <2> QED
    BY <1>6, <2>1, <2>2
<1>10. CASE CodeStep
  <2>1. frames # <<>> /\ ~err /\ Top.part # "interp" /\ Op.op # "Jump"
    BY <1>2, <1>10 DEF CodeStep, Plain
  <2>2. FrameOK(NextOp(Top.pc + 1)) /\ Stays(NextOp(Top.pc + 1))
    BY <1>1, <1>3, <2>1, CodeFacts
  <2> QED
    BY <1>4, <1>10, <2>1, <2>2 DEF CodeStep
<1>11. CASE CodeBranch
  <2>1. frames # <<>> /\ ~err /\ Top.part # "interp" /\ Op.op = "CompareJumpFalse"
        /\ GoTo(Op.c) /\ UNCHANGED <<image, err, jit>>
    BY <1>2, <1>11 DEF CodeBranch
  <2>2. Op.c \in Nat
    BY <1>1, <2>1, CodeFacts, ImageFacts DEF Op, IsBranch, BranchTarget
  <2> QED
    BY <1>1, <1>3, <1>4, <2>1, <2>2, CodeFacts, InterpFetches DEF GoTo
<1>12. CASE CodeJump
  <2>1. frames # <<>> /\ ~err /\ Top.part = "op" /\ Op.op = "Jump" /\ Top.phase = "fetch"
        /\ UNCHANGED <<image, err, jit>>
    BY <1>2, <1>12 DEF CodeJump, InCode
  <2>2. CASE Op.a = Header(image, Top.loop)
    <3> DEFINE f == [Top EXCEPT !.phase = "drain"]
    <3>1. Replace(f)
      BY <1>12, <2>2 DEF CodeJump
    <3>2. f \in Positions /\ f.part = "op" /\ f.pc = Top.pc /\ f.phase = "drain"
          /\ f.loop = Top.loop
      BY <1>5, <2>1 DEF Positions, Phases
    <3> HIDE DEF f
    <3>3. FrameOK(f) /\ Stays(f)
      BY <1>5, <2>1, <2>2, <3>2 DEF FrameOK, Placed, Stays, Op
    <3> QED
      BY <1>4, <2>1, <3>1, <3>3
  <2>3. CASE Op.a # Header(image, Top.loop)
    <3>1. Op.a \in Nat
      BY <1>1, <2>1, CodeFacts, ImageFacts DEF Op
    <3> QED
      BY <1>1, <1>4, <1>12, <2>1, <2>3, <3>1, InterpFetches DEF CodeJump
  <2> QED
    BY <2>2, <2>3
<1>13. CASE CodeFails
  <2>1. frames # <<>> /\ Pop /\ err' = TRUE /\ UNCHANGED <<image, jit>>
    BY <1>13 DEF CodeFails, InCode
  <2> QED
    BY <1>1, <2>1, TopPopped DEF Moved, ErrHandedOver
<1>14. CASE CodeCallsAgain
  <2> DEFINE f == [Top EXCEPT !.phase = "call"]
  <2>1. frames # <<>> /\ ~err /\ Top.part = "op" /\ Op.op = "CallDirect"
        /\ Push(f) /\ UNCHANGED <<image, err, jit>>
    BY <1>2, <1>14 DEF CodeCallsAgain, InCode
  <2>2. f \in Positions /\ f.part = "op" /\ f.pc = Top.pc /\ f.phase = "call"
        /\ f.loop = Top.loop
    BY <1>5, <2>1 DEF Positions, Phases
  <2> HIDE DEF f
  <2>3. FrameOK(f) /\ Stays(f) /\ f.phase \in Waiting
    BY <1>5, <2>1, <2>2 DEF FrameOK, Placed, Stays, Op, Waiting
  <2>4. FrameOK(Interp(0, "fetch"))
    BY <1>1, ImageFacts, InterpFetches
  <2> QED
    BY <1>1, <2>1, <2>3, <2>4, TopPushed DEF Moved, ErrHandedOver
<1>15. CASE CodeCallReturns
  <2>1. frames # <<>> /\ Top.part = "op" /\ Top.phase = "call" /\ UNCHANGED <<image, err, jit>>
    BY <1>15 DEF CodeCallReturns, Returned
  <2>2. CASE err
    BY <1>1, <1>15, <2>1, <2>2, TopPopped DEF CodeCallReturns, Moved, ErrHandedOver
  <2>3. CASE ~err
    <3>1. Op.op # "Jump"
      BY <1>5, <2>1 DEF FrameOK, Op
    <3>2. FrameOK(NextOp(Top.pc + 1)) /\ Stays(NextOp(Top.pc + 1))
      BY <1>1, <1>3, <2>1, <3>1, CodeFacts
    <3> QED
      BY <1>4, <1>15, <2>1, <2>3, <3>2 DEF CodeCallReturns
  <2> QED
    BY <2>2, <2>3
<1> QED
  BY <1>7, <1>8, <1>9, <1>10, <1>11, <1>12, <1>13, <1>14, <1>15 DEF RunCode

-----------------------------------------------------------------------------
(* The loop records after each action: compiled code may die but does not  *)
(* vanish, and only code that was never compiled comes to life.            *)
Evolves(ls, ms) ==
  \A l \in Loops(image) :
    /\ ls[l].code # "none" => ms[l].code # "none"
    /\ ls[l].code # "live" /\ ms[l].code = "live" => ls[l].code = "none" /\ ~ls[l].failed

LEMMA TriggerFacts ==
  ASSUME NEW l, NEW s \in LoopState, jit \in BOOLEAN,
         s.code # "none" => s.hot /\ Compilable(l)
  PROVE  /\ Trigger(l, s) \in LoopState
         /\ Trigger(l, s).code # "none" => Trigger(l, s).hot /\ Compilable(l)
         /\ s.code # "none" => Trigger(l, s).code # "none"
         /\ s.code # "live" /\ Trigger(l, s).code = "live" => s.code = "none" /\ ~s.failed
<1>1. CASE s.hot \/ s.count < HotThreshold \/ s.failed \/ ~s.sampled
  BY <1>1 DEF Trigger
<1>2. CASE ~(s.hot \/ s.count < HotThreshold \/ s.failed \/ ~s.sampled)
  <2> DEFINE code == IF Compilable(l) /\ jit THEN "live" ELSE s.code
             t == [s EXCEPT !.hot = TRUE, !.code = code]
  <2>1. code \in {"none", "live", "dead"} /\ s.code = "none"
    BY <1>2 DEF LoopState
  <2> HIDE DEF code
  <2>2. t \in LoopState /\ t.hot /\ t.code = code
    BY <2>1 DEF LoopState
  <2>3. Trigger(l, s) = t
    BY <1>2 DEF Trigger, code
  <2> QED
    BY <1>2, <2>1, <2>2, <2>3 DEF code
<1> QED
  BY <1>1, <1>2

LEMMA ArriveOK ==
  ASSUME IInv, NEW pc
  PROVE  LoopsOK(Arrive(pc)) /\ Evolves(loops, Arrive(pc))
<1> DEFINE l == HeaderLoop(image, pc)
           s == Counted(loops[l])
<1>1. LoopsOK(loops) /\ image \in Images /\ jit \in BOOLEAN /\ HotThreshold \in Nat
  BY HotLoopAssumption DEF IInv
<1>2. CASE l = NoLoop
  BY <1>1, <1>2 DEF Arrive, Evolves
<1>3. CASE l # NoLoop
  <2>1. l \in Loops(image)
    BY <1>1, <1>3, HeaderLoopFacts
  <2>2. loops[l] \in LoopState /\ (loops[l].code # "none" => loops[l].hot /\ Compilable(l))
    BY <1>1, <2>1 DEF LoopsOK
  <2>3. /\ s \in LoopState
        /\ s.code = loops[l].code /\ s.hot = loops[l].hot /\ s.failed = loops[l].failed
    BY <1>1, <2>2 DEF LoopState, Counted
  <2>4. Arrive(pc) = [loops EXCEPT ![l] = Trigger(l, s)]
    BY <1>3 DEF Arrive
  <2> HIDE DEF s, l
  <2>5. /\ Trigger(l, s) \in LoopState
        /\ Trigger(l, s).code # "none" => Trigger(l, s).hot /\ Compilable(l)
        /\ loops[l].code # "none" => Trigger(l, s).code # "none"
        /\ loops[l].code # "live" /\ Trigger(l, s).code = "live" =>
             loops[l].code = "none" /\ ~loops[l].failed
    BY <1>1, <2>2, <2>3, TriggerFacts
  <2> QED
    BY <1>1, <2>1, <2>4, <2>5 DEF LoopsOK, Evolves
<1> QED
  BY <1>2, <1>3

LEMMA ObserveOK ==
  ASSUME image \in Images, NEW ls, LoopsOK(ls), NEW pc, NEW ok \in BOOLEAN
  PROVE  /\ LoopsOK(Observe(ls, pc, ok))
         /\ \A l \in Loops(image) : Observe(ls, pc, ok)[l].code = ls[l].code
<1> DEFINE k == InnermostLoop(image, pc)
           s == [ls[k] EXCEPT !.sampled = TRUE, !.failed = @ \/ ~ok]
<1>1. CASE k = NoLoop
  BY <1>1 DEF Observe
<1>2. CASE k # NoLoop
  <2>1. k \in Loops(image)
    BY <1>2, InnermostLoopFacts
  <2>2. ls[k] \in LoopState /\ ls[k].failed \in BOOLEAN
    BY <2>1 DEF LoopsOK, LoopState
  <2>3. (ls[k].failed \/ ~ok) \in BOOLEAN
    OBVIOUS
  <2>4. s \in LoopState /\ s.code = ls[k].code /\ s.hot = ls[k].hot
    BY <2>2, <2>3 DEF LoopState
  <2>5. Observe(ls, pc, ok) = [ls EXCEPT ![k] = s]
    BY <1>2, <2>1 DEF Observe, LoopsOK
  <2> HIDE DEF s, k
  <2> QED
    BY <2>1, <2>4, <2>5 DEF LoopsOK
<1> QED
  BY <1>1, <1>2

LEMMA DispatchedLoops ==
  ASSUME IInv, NEW pc, NEW ok \in BOOLEAN
  PROVE  LET ms == Observe(Arrive(pc), pc, ok) IN LoopsOK(ms) /\ Evolves(loops, ms)
  BY ArriveOK, ObserveOK DEF IInv, Evolves

LEMMA KilledLoops ==
  ASSUME IInv, frames # <<>>, Top.part # "interp", NEW pc, Kill(pc)
  PROVE  LoopsOK(loops') /\ Evolves(loops, loops')
<1> DEFINE l == Top.loop
           s == [loops[l] EXCEPT !.code = "dead"]
<1>1. l \in Loops(image) /\ Compilable(l) /\ LoopsOK(loops) /\ StackOK(frames)
  BY CodeFacts DEF IInv
<1>2. Len(frames) \in Nat /\ Len(frames) > 0
  BY <1>1, TopFacts DEF Depth
<1>3. loops[l].code # "none"
  BY <1>2 DEF IInv, EnteredOK, Top, Depth
<1>4. loops[l] \in LoopState /\ loops[l].hot
  BY <1>1, <1>3 DEF LoopsOK
<1>5. s \in LoopState /\ s.code = "dead" /\ s.hot
  BY <1>4 DEF LoopState
<1>6. loops' = [loops EXCEPT ![l] = s]
  BY DEF Kill
<1> HIDE DEF s, l
<1> QED
  BY <1>1, <1>3, <1>5, <1>6 DEF LoopsOK, Evolves

LEMMA LoopsMove ==
  ASSUME IInv, [Next]_vars
  PROVE  LoopsOK(loops') /\ (Exec \/ Evolves(loops, loops'))
<1> DEFINE Goal == LoopsOK(loops') /\ (Exec \/ Evolves(loops, loops'))
<1>1. image \in Images /\ LoopsOK(loops) /\ HotThreshold \in Nat
  BY HotLoopAssumption DEF IInv
<1>2. ASSUME UNCHANGED loops PROVE Goal
  BY <1>1, <1>2 DEF Evolves
<1>3. ASSUME loops' = Arrive(Top.pc) PROVE Goal
  BY <1>3, ArriveOK
<1>4. ASSUME NEW ok \in BOOLEAN, loops' = Observe(Arrive(Top.pc), Top.pc, ok) PROVE Goal
  BY <1>4, DispatchedLoops
<1>5. ASSUME NEW ok \in BOOLEAN, loops' = Observe(loops, Top.pc, ok) PROVE Goal
  BY <1>1, <1>5, ObserveOK DEF Evolves
<1>6. CASE Exec
  <2>1. FreshLoops(image) \in [Loops(image) -> LoopState]
    BY <1>1 DEF FreshLoops, LoopState
  <2>2. \A l \in Loops(image) : FreshLoops(image)[l].code = "none"
    BY DEF FreshLoops
  <2> QED
    BY <1>6, <2>1, <2>2 DEF Exec, LoopsOK
<1>7. CASE EnterLoop \/ CallAgain
  BY <1>3, <1>7 DEF EnterLoop, CallAgain
<1>8. CASE StepOver \/ TakeJump
  BY <1>4, <1>8 DEF StepOver, TakeJump
<1>9. CASE FailInstr
  BY <1>4, <1>9 DEF FailInstr
<1>10. CASE ReturnInStmt
  BY <1>2, <1>3, <1>10 DEF ReturnInStmt
<1>11. CASE CallReturns
  BY <1>5, <1>11 DEF CallReturns
<1>12. CASE CallFails
  BY <1>5, <1>12 DEF CallFails
<1>13. CASE GuardFails \/ Deopt
  <2>1. PICK pc : Kill(pc) /\ frames # <<>> /\ Top.part # "interp"
    BY <1>13 DEF GuardFails, Deopt, InCode
  <2> QED
    BY <2>1, KilledLoops
<1>14. CASE Invoke \/ FallOff \/ Microtask \/ UNCHANGED vars
  BY <1>2, <1>14 DEF Invoke, FallOff, Microtask, DrainTask, DrainEnd, CodeDrainEnd, vars
<1>15. CASE \/ GuardHolds \/ CodeStep \/ CodeBranch \/ CodeJump \/ CodeFails
            \/ CodeCallsAgain \/ CodeCallReturns
  BY <1>2, <1>15 DEF GuardHolds, CodeStep, CodeBranch, CodeJump, CodeFails,
                     CodeCallsAgain, CodeCallReturns
<1> QED
  BY <1>6, <1>7, <1>8, <1>9, <1>10, <1>11, <1>12, <1>13, <1>14, <1>15
     DEF Next, Interpret, RunCode

-----------------------------------------------------------------------------
(* The inductive invariant, and the invariants it contains.                *)
LEMMA InitOK == Init => IInv
<1> SUFFICES ASSUME Init PROVE IInv
  OBVIOUS
<1>1. image \in Images /\ frames = <<>> /\ err = FALSE /\ jit \in BOOLEAN
      /\ loops = FreshLoops(image) /\ HotThreshold \in Nat
  BY HotLoopAssumption DEF Init
<1>2. loops \in [Loops(image) -> LoopState]
  BY <1>1 DEF FreshLoops, LoopState
<1>3. LoopsOK(loops)
  BY <1>1, <1>2 DEF LoopsOK, FreshLoops
<1>4. StackOK(frames) /\ EnteredOK(frames, loops)
  BY <1>1 DEF StackOK, EnteredOK
<1> QED
  BY <1>1, <1>3, <1>4 DEF IInv, ErrOK

(* The activations after any step: nobody enters a loop but by EnterLoop.  *)
LEMMA StackMoves ==
  ASSUME IInv, Next
  PROVE  Moved /\ (NoNewcomer \/ EnterLoop)
<1>1. CASE Exec \/ Invoke
  BY <1>1, ProgramMoves
<1>2. CASE Interpret
  BY <1>2, InterpretMoves, EnterLoopMoves, ArriveOK DEF Interpret
<1>3. CASE Microtask
  BY <1>3, MicrotaskMoves
<1>4. CASE RunCode
  BY <1>4, RunCodeMoves
<1> QED
  BY <1>1, <1>2, <1>3, <1>4 DEF Next

LEMMA EnteredMoves ==
  ASSUME IInv, Next
  PROVE  EnteredOK(frames', loops')
<1>1. /\ Moved /\ StackOK(frames') /\ StackOK(frames)
      /\ EnteredOK(frames, loops)
      /\ Evolves(loops, loops') \/ Exec
  BY StackMoves, LoopsMove DEF Moved, IInv
<1>2. CASE Exec
  BY <1>2 DEF Exec, EnteredOK
<1>3. CASE EnterLoop
  <2> SUFFICES ASSUME NEW i \in 1..Len(frames'), frames'[i].part # "interp"
               PROVE  loops'[frames'[i].loop].code # "none"
    BY DEF EnteredOK
  <2>1. frames'[i].loop \in Loops(image)
    BY <1>1 DEF StackOK, FrameOK, Placed
  <2>2. loops' = Arrive(Top.pc) /\ LoopsOK(Arrive(Top.pc)) /\ Evolves(loops, loops')
    BY <1>3, ArriveOK DEF EnterLoop
  <2>3. \/ loops'[frames'[i].loop].code = "live"
        \/ /\ i \in 1..Len(frames) /\ frames[i].part # "interp"
           /\ frames[i].loop = frames'[i].loop
    BY <1>3, <2>2, EnterLoopMoves
  <2> QED
    BY <1>1, <2>1, <2>2, <2>3 DEF EnteredOK, Evolves, IInv
<1>4. CASE NoNewcomer /\ ~Exec
  <2> SUFFICES ASSUME NEW i \in 1..Len(frames'), frames'[i].part # "interp"
               PROVE  loops'[frames'[i].loop].code # "none"
    BY DEF EnteredOK
  <2>1. frames'[i].loop \in Loops(image)
    BY <1>1 DEF StackOK, FrameOK, Placed
  <2>2. /\ i \in 1..Len(frames) /\ frames[i].part # "interp"
        /\ frames[i].loop = frames'[i].loop
    BY <1>4 DEF NoNewcomer
  <2> QED
    BY <1>1, <1>4, <2>1, <2>2 DEF EnteredOK, Evolves, IInv
<1> QED
  BY <1>2, <1>3, <1>4, StackMoves

LEMMA StepOK == IInv /\ [Next]_vars => IInv'
<1> SUFFICES ASSUME IInv, [Next]_vars PROVE IInv'
  OBVIOUS
<1>1. CASE UNCHANGED vars
  <2>1. image' = image /\ frames' = frames /\ loops' = loops /\ err' = err /\ jit' = jit
    BY <1>1 DEF vars
  <2>2. StackOK(frames)'
    BY <2>1, SameStack DEF IInv
  <2> QED
    BY <2>1, <2>2 DEF IInv, LoopsOK, EnteredOK, ErrOK, Compilable, Header, Top, Depth
<1>2. CASE Next
  <2>1. Moved /\ LoopsOK(loops') /\ EnteredOK(frames', loops')
    BY <1>2, StackMoves, LoopsMove, EnteredMoves
  <2>2. StackOK(frames)'
    BY <2>1, SameStack DEF Moved
  <2>3. LoopsOK(loops)'
    BY <2>1 DEF Moved, LoopsOK, Compilable, Header
  <2>4. EnteredOK(frames, loops)' /\ ErrOK'
    BY <2>1 DEF Moved, ErrHandedOver, EnteredOK, ErrOK, Top, Depth
  <2> QED
    BY <2>1, <2>2, <2>3, <2>4 DEF Moved, IInv
<1> QED
  BY <1>1, <1>2

LEMMA Inductive == Spec => []IInv
  BY InitOK, StepOK, PTL DEF Spec

(* Every activation is at an instruction of the function, at a place its   *)
(* tier has, whatever the images, the threshold and the nesting.           *)
THEOREM TypeCorrect == Spec => []TypeOK
<1>1. IInv => TypeOK
  BY ImageFacts DEF IInv, TypeOK, StackOK, LoopsOK, FrameOK, Depth
<1> QED
  BY <1>1, Inductive, PTL

-----------------------------------------------------------------------------
(* The activations as plain interpretation sees them.                      *)
PlainFrames == [pc : Nat, phase : Phases]
Seen(f)     == [pc |-> f.pc, phase |-> f.phase]
Bar(fs)     == [i \in 1..Len(fs) |-> Seen(fs[i])]

LEMMA LastReplaced ==
  ASSUME NEW S, NEW s \in Seq(S), NEW n, n = Len(s), n > 0, NEW e \in S
  PROVE  /\ [s EXCEPT ![n] = e] \in Seq(S) /\ Len([s EXCEPT ![n] = e]) = n
         /\ [s EXCEPT ![n] = e][n] = e
         /\ \A i \in 1..n : i # n => [s EXCEPT ![n] = e][i] = s[i]
  OBVIOUS

LEMMA LastDropped ==
  ASSUME NEW S, NEW s \in Seq(S), NEW n, n = Len(s), n > 0
  PROVE  /\ SubSeq(s, 1, n - 1) \in Seq(S) /\ Len(SubSeq(s, 1, n - 1)) = n - 1
         /\ \A i \in 1..(n - 1) : SubSeq(s, 1, n - 1)[i] = s[i]
<1>1. n \in Nat
  OBVIOUS
<1> QED
  BY <1>1

LEMMA BarLen ==
  ASSUME NEW fs \in Seq(Positions)
  PROVE  /\ Bar(fs) \in Seq(PlainFrames) /\ Len(Bar(fs)) = Len(fs)
         /\ \A i \in 1..Len(fs) : Bar(fs)[i] = Seen(fs[i])
         /\ Bar(fs) = <<>> <=> fs = <<>>
<1>1. Len(fs) \in Nat /\ \A i \in 1..Len(fs) : fs[i] \in Positions
  OBVIOUS
<1>2. \A f \in Positions : Seen(f) \in PlainFrames
  BY DEF Seen, Positions, PlainFrames
<1>3. Bar(fs) \in Seq(PlainFrames) /\ Len(Bar(fs)) = Len(fs)
  BY <1>1, <1>2 DEF Bar
<1>4. Bar(fs) = <<>> <=> fs = <<>>
  BY <1>1, <1>3
<1> QED
  BY <1>3, <1>4 DEF Bar

LEMMA BarReplaced ==
  ASSUME NEW fs \in Seq(Positions), Len(fs) > 0, NEW f \in Positions
  PROVE  Bar([fs EXCEPT ![Len(fs)] = f]) = [Bar(fs) EXCEPT ![Len(fs)] = Seen(f)]
<1> DEFINE gs == [fs EXCEPT ![Len(fs)] = f]
           bs == [Bar(fs) EXCEPT ![Len(fs)] = Seen(f)]
<1>1. /\ Len(fs) \in Nat /\ gs \in Seq(Positions) /\ Len(gs) = Len(fs) /\ gs[Len(fs)] = f
      /\ \A i \in 1..Len(fs) : i # Len(fs) => gs[i] = fs[i]
  OBVIOUS
<1>2. /\ Bar(fs) \in Seq(PlainFrames) /\ Len(Bar(fs)) = Len(fs)
      /\ Seen(f) \in PlainFrames
      /\ \A i \in 1..Len(fs) : Bar(fs)[i] = Seen(fs[i])
  BY BarLen DEF Seen, Positions, PlainFrames
<1>3. /\ bs \in Seq(PlainFrames) /\ Len(bs) = Len(fs)
      /\ bs[Len(fs)] = Seen(f)
      /\ \A i \in 1..Len(fs) : i # Len(fs) => bs[i] = Seen(fs[i])
  <2> DEFINE n == Len(fs)
             s == Bar(fs)
             e == Seen(f)
  <2>1. /\ s \in Seq(PlainFrames) /\ n = Len(s) /\ n > 0
        /\ e \in PlainFrames /\ n \in Nat
        /\ \A i \in 1..n : s[i] = Seen(fs[i])
    BY <1>1, <1>2
  <2> HIDE DEF n, s, e
  <2>2. /\ [s EXCEPT ![n] = e] \in Seq(PlainFrames)
        /\ Len([s EXCEPT ![n] = e]) = n /\ [s EXCEPT ![n] = e][n] = e
        /\ \A i \in 1..n : i # n => [s EXCEPT ![n] = e][i] = s[i]
    BY <2>1, LastReplaced
  <2> QED
    BY <2>1, <2>2 DEF n, s, e
<1> HIDE DEF gs, bs
<1>4. /\ Bar(gs) \in Seq(PlainFrames) /\ Len(Bar(gs)) = Len(fs)
      /\ \A i \in 1..Len(fs) : Bar(gs)[i] = Seen(gs[i])
  BY <1>1, BarLen
<1>5. \A i \in 1..Len(fs) : Bar(gs)[i] = bs[i]
  BY <1>1, <1>3, <1>4
<1>6. Bar(gs) = bs
  BY <1>3, <1>4, <1>5, SeqEqual
<1> QED
  BY <1>6 DEF gs, bs

LEMMA BarPushed ==
  ASSUME NEW fs \in Seq(Positions), NEW f \in Positions
  PROVE  Bar(Append(fs, f)) = Append(Bar(fs), Seen(f))
<1> DEFINE gs == Append(fs, f)
           bs == Append(Bar(fs), Seen(f))
<1>1. /\ Len(fs) \in Nat /\ gs \in Seq(Positions) /\ Len(gs) = Len(fs) + 1
      /\ gs[Len(fs) + 1] = f /\ \A i \in 1..Len(fs) : gs[i] = fs[i]
  OBVIOUS
<1>2. /\ Bar(fs) \in Seq(PlainFrames) /\ Len(Bar(fs)) = Len(fs)
      /\ Seen(f) \in PlainFrames
      /\ \A i \in 1..Len(fs) : Bar(fs)[i] = Seen(fs[i])
  BY BarLen DEF Seen, Positions, PlainFrames
<1>3. /\ bs \in Seq(PlainFrames) /\ Len(bs) = Len(fs) + 1
      /\ bs[Len(fs) + 1] = Seen(f)
      /\ \A i \in 1..Len(fs) : bs[i] = Seen(fs[i])
  BY <1>1, <1>2
<1> HIDE DEF gs, bs
<1>4. /\ Bar(gs) \in Seq(PlainFrames) /\ Len(Bar(gs)) = Len(fs) + 1
      /\ \A i \in 1..(Len(fs) + 1) : Bar(gs)[i] = Seen(gs[i])
  BY <1>1, BarLen
<1>5. \A i \in 1..(Len(fs) + 1) : Bar(gs)[i] = bs[i]
  BY <1>1, <1>3, <1>4
<1>6. Bar(gs) = bs
  BY <1>3, <1>4, <1>5, SeqEqual
<1> QED
  BY <1>6 DEF gs, bs

LEMMA BarPopped ==
  ASSUME NEW fs \in Seq(Positions), Len(fs) > 0
  PROVE  Bar(SubSeq(fs, 1, Len(fs) - 1)) = SubSeq(Bar(fs), 1, Len(fs) - 1)
<1> DEFINE gs == SubSeq(fs, 1, Len(fs) - 1)
           bs == SubSeq(Bar(fs), 1, Len(fs) - 1)
<1>1. Len(fs) \in Nat
  OBVIOUS
<1>2. /\ gs \in Seq(Positions) /\ Len(gs) = Len(fs) - 1
      /\ \A i \in 1..(Len(fs) - 1) : gs[i] = fs[i]
  BY LastDropped
<1>3. /\ Bar(fs) \in Seq(PlainFrames) /\ Len(Bar(fs)) = Len(fs)
      /\ \A i \in 1..Len(fs) : Bar(fs)[i] = Seen(fs[i])
  BY BarLen
<1>4. /\ bs \in Seq(PlainFrames) /\ Len(bs) = Len(fs) - 1
      /\ \A i \in 1..(Len(fs) - 1) : bs[i] = Seen(fs[i])
  <2> DEFINE n == Len(fs)
             s == Bar(fs)
  <2>1. /\ s \in Seq(PlainFrames) /\ n = Len(s) /\ n > 0 /\ n \in Nat
        /\ \A i \in 1..n : s[i] = Seen(fs[i])
    BY <1>1, <1>3
  <2> HIDE DEF n, s
  <2>2. /\ SubSeq(s, 1, n - 1) \in Seq(PlainFrames)
        /\ Len(SubSeq(s, 1, n - 1)) = n - 1
        /\ \A i \in 1..(n - 1) : SubSeq(s, 1, n - 1)[i] = s[i]
    BY <2>1, LastDropped
  <2> QED
    BY <2>1, <2>2 DEF n, s
<1> HIDE DEF gs, bs
<1>5. /\ Bar(gs) \in Seq(PlainFrames) /\ Len(Bar(gs)) = Len(fs) - 1
      /\ \A i \in 1..(Len(fs) - 1) : Bar(gs)[i] = Seen(gs[i])
  BY <1>2, BarLen
<1>6. Bar(gs) = bs
  BY <1>2, <1>4, <1>5, SeqEqual
<1> QED
  BY <1>6 DEF gs, bs

(* What plain interpretation knows of the running activation.              *)
LEMMA PlainTop ==
  ASSUME StackOK(frames), frames # <<>>
  PROVE  /\ PlainExecution!Running /\ Len(Bar(frames)) = Depth
         /\ PlainExecution!Last.pc = Top.pc /\ PlainExecution!Last.phase = Top.phase
         /\ PlainExecution!In = Op
<1>1. frames \in Seq(Positions) /\ Depth \in Nat /\ Depth > 0 /\ Depth = Len(frames)
  BY TopFacts DEF Depth
<1>2. Len(Bar(frames)) = Depth /\ Bar(frames) # <<>> /\ Bar(frames)[Depth] = Seen(Top)
  BY <1>1, BarLen DEF Bar, Top, Depth
<1>3. PlainExecution!Running
  BY <1>2 DEF PlainExecution!Running, Bar, Seen, Depth
<1>4. PlainExecution!Last = Seen(Top)
  BY <1>2 DEF PlainExecution!Last, Bar, Seen, Depth
<1>5. PlainExecution!In = Op
  BY <1>4 DEF PlainExecution!In, PlainExecution!At, At, Op, Seen
<1> QED
  BY <1>2, <1>3, <1>4, <1>5 DEF Seen

LEMMA PlainGoto ==
  ASSUME StackOK(frames), frames # <<>>, NEW f, FrameOK(f), Replace(f)
  PROVE  PlainExecution!Goto(f.pc, f.phase)
<1>1. frames \in Seq(Positions) /\ Len(frames) > 0 /\ f \in Positions
  BY TopFacts DEF Depth, FrameOK
<1>2. Bar(frames') = [Bar(frames) EXCEPT ![Depth] = Seen(f)]
  BY <1>1, BarReplaced DEF Replace, Depth
<1>3. Len(Bar(frames)) = Depth
  BY PlainTop
<1> QED
  BY <1>2, <1>3 DEF PlainExecution!Goto, PlainExecution!Frame, Bar, Seen, Depth

(* A change of tier is none to plain interpretation.                       *)
LEMMA PlainSame ==
  ASSUME StackOK(frames), frames # <<>>, NEW f, FrameOK(f), Seen(f) = Seen(Top),
         Replace(f), UNCHANGED <<image, err>>
  PROVE  UNCHANGED PlainExecution!pvars
<1>1. frames \in Seq(Positions) /\ Depth \in Nat /\ Depth > 0 /\ f \in Positions
  BY TopFacts DEF FrameOK
<1>2. Bar(frames') = [Bar(frames) EXCEPT ![Depth] = Seen(Top)]
  BY <1>1, BarReplaced DEF Replace, Depth
<1>3. /\ Bar(frames) \in Seq(PlainFrames) /\ Len(Bar(frames)) = Depth
      /\ Bar(frames)[Depth] = Seen(Top)
  BY <1>1, BarLen DEF Top, Depth
<1>4. Bar(frames') = Bar(frames)
  BY <1>1, <1>2, <1>3
<1> QED
  BY <1>4 DEF PlainExecution!pvars, Bar, Seen, Depth

LEMMA PlainLeave ==
  ASSUME StackOK(frames), frames # <<>>, Pop
  PROVE  PlainExecution!Leave
<1>1. frames \in Seq(Positions) /\ Len(frames) > 0
  BY TopFacts DEF Depth
<1>2. Bar(frames') = SubSeq(Bar(frames), 1, Depth - 1)
  BY <1>1, BarPopped DEF Pop, Depth
<1>3. Len(Bar(frames)) = Depth
  BY PlainTop
<1> QED
  BY <1>2, <1>3 DEF PlainExecution!Leave, Bar, Seen, Depth

LEMMA PlainPush ==
  ASSUME image \in Images, StackOK(frames), frames # <<>>, NEW f, FrameOK(f), Push(f)
  PROVE  Bar(frames') = Append([Bar(frames) EXCEPT ![Depth] = Seen(f)],
                               [pc |-> 0, phase |-> "fetch"])
<1> DEFINE gs == [frames EXCEPT ![Len(frames)] = f]
<1>1. frames \in Seq(Positions) /\ Len(frames) > 0 /\ f \in Positions
  BY TopFacts DEF Depth, FrameOK
<1>2. Bar(gs) = [Bar(frames) EXCEPT ![Depth] = Seen(f)]
  BY <1>1, BarReplaced DEF Depth
<1>3. gs \in Seq(Positions)
  BY <1>1
<1>4. Interp(0, "fetch") \in Positions
  BY ImageFacts, InterpFetches DEF FrameOK
<1>5. frames' = Append(gs, Interp(0, "fetch"))
  BY DEF Push, Depth
<1>6. Seen(Interp(0, "fetch")) = [pc |-> 0, phase |-> "fetch"]
  BY DEF Seen, Interp
<1> HIDE DEF gs
<1> QED
  BY <1>2, <1>3, <1>4, <1>5, <1>6, BarPushed

LEMMA PlainCall ==
  ASSUME IInv, frames # <<>>, Top.phase = "fetch", Top.pc \in Pcs(image),
         Op.op \in {"CallDirect", "V1Stmt"}, Depth < MaxDepth, ~err, UNCHANGED <<image, err>>,
         NEW f, FrameOK(f), f.pc = Top.pc, f.phase = "call", Push(f)
  PROVE  PlainExecution!BeginCall
<1>1. Bar(frames') = Append([Bar(frames) EXCEPT ![Depth] = Seen(f)],
                            [pc |-> 0, phase |-> "fetch"])
  BY PlainPush DEF IInv
<1>2. Seen(f) = [pc |-> Top.pc, phase |-> "call"] /\ err' = FALSE
  BY DEF Seen, IInv
<1>3. /\ PlainExecution!Executing /\ PlainExecution!Last.phase = "fetch"
      /\ PlainExecution!Calls /\ Len(Bar(frames)) = Depth
      /\ PlainExecution!Last.pc = Top.pc
  BY PlainTop DEF IInv, PlainExecution!Executing, PlainExecution!Calls,
                  PlainExecution!Pcs, Pcs
<1>4. PlainExecution!Frame(0, "fetch") = [pc |-> 0, phase |-> "fetch"]
      /\ PlainExecution!Frame(Top.pc, "call") = [pc |-> Top.pc, phase |-> "call"]
  BY DEF PlainExecution!Frame
<1> QED
  BY <1>1, <1>2, <1>3, <1>4 DEF PlainExecution!BeginCall, Bar, Seen, Depth

(* An instruction that ends with the activation at pc and in phase.        *)
LEMMA PlainStep ==
  ASSUME IInv, frames # <<>>, Top.phase \in {"fetch", "call"}, Top.pc \in Pcs(image),
         Op.op # "Return", err => Op.op = "V1Stmt", image' = image, err' = FALSE,
         NEW f, FrameOK(f), Replace(f),
         \/ f.phase = "drain" /\ f.pc = Top.pc
         \/ f.phase = "fetch" /\ f.pc \in PlainExecution!Successors(Top.pc)
  PROVE  PlainExecution!Succeed
<1>1. /\ PlainExecution!Executing /\ PlainExecution!In = Op
      /\ PlainExecution!Last.pc = Top.pc
  BY PlainTop DEF IInv, PlainExecution!Executing, PlainExecution!Pcs, Pcs
<1>2. PlainExecution!Goto(f.pc, f.phase)
  BY PlainGoto DEF IInv
<1> QED
  BY <1>1, <1>2 DEF PlainExecution!Succeed

LEMMA PlainSuccessors ==
  /\ Top.pc + 1 \in PlainExecution!Successors(Top.pc) \/ Op.op = "Jump"
  /\ Op.op = "Jump" => Op.a \in PlainExecution!Successors(Top.pc)
  /\ IsBranch(Op) => BranchTarget(Op) \in PlainExecution!Successors(Top.pc) \/ Op.op = "Jump"
  BY DEF PlainExecution!Successors, PlainExecution!At, PlainExecution!IsBranch,
         PlainExecution!BranchTarget, At, IsBranch, BranchTarget, Op

(* An activation ends with an error, or at the end of its code.            *)
LEMMA PlainFail ==
  ASSUME IInv, frames # <<>>, Top.phase \in {"fetch", "call"}, Top.pc \in Pcs(image),
         Op.op \notin {"Jump", "Return"}, Pop, image' = image, err' = TRUE
  PROVE  PlainExecution!Fail
<1>1. PlainExecution!Executing /\ PlainExecution!In = Op
  BY PlainTop DEF IInv, PlainExecution!Executing, PlainExecution!Pcs, Pcs
<1> QED
  BY <1>1, PlainLeave DEF IInv, PlainExecution!Fail, PlainExecution!Fallible

LEMMA ProgramRefines ==
  ASSUME IInv, Exec \/ Invoke
  PROVE  PlainExecution!Next
<1>1. Bar(frames) = <<>> /\ frames = <<>> /\ ~PlainExecution!Running
  BY DEF Exec, Invoke, PlainExecution!Running, Bar, Depth
<1>2. CASE Exec
  <2>1. PlainExecution!TakeError
    BY <1>1, <1>2 DEF Exec, PlainExecution!TakeError, PlainExecution!Running, Depth
  <2> QED
    BY <2>1 DEF PlainExecution!Next
<1>3. CASE Invoke
  <2>1. Bar(frames') = Append(Bar(frames), [pc |-> 0, phase |-> "fetch"])
    <3>1. frames' = <<Interp(0, "fetch")>> /\ Len(frames') = 1
          /\ frames'[1] = Interp(0, "fetch")
      BY <1>3 DEF Invoke
    <3>2. Bar(frames') = [i \in 1..1 |-> [pc |-> 0, phase |-> "fetch"]]
      BY <3>1 DEF Bar, Seen, Interp
    <3> QED
      BY <1>1, <3>2
  <2>2. PlainExecution!Frame(0, "fetch") = [pc |-> 0, phase |-> "fetch"]
    BY DEF PlainExecution!Frame
  <2>3. PlainExecution!Invoke
    BY <1>1, <1>3, <2>1, <2>2 DEF Invoke, PlainExecution!Invoke, Bar, Seen, Depth
  <2> QED
    BY <2>3 DEF PlainExecution!Next
<1> QED
  BY <1>2, <1>3

LEMMA InterpretRefines ==
  ASSUME IInv, Interpret
  PROVE  PlainExecution!Next \/ UNCHANGED PlainExecution!pvars
<1>1. image \in Images /\ StackOK(frames) /\ err \in BOOLEAN
  BY DEF IInv
<1>2. ASSUME AtFetch
      PROVE  /\ frames # <<>> /\ Top.part = "interp" /\ Top.phase = "fetch" /\ ~err
             /\ Top.pc \in Pcs(image) /\ err = FALSE
  <2>1. frames # <<>> /\ Top.part = "interp" /\ Top.phase = "fetch" /\ ~err
        /\ Top.pc < Len(image)
    BY <1>2 DEF AtFetch
  <2> QED
    BY <1>1, <2>1, InterpFacts
<1>3. ASSUME Returned, Top.part = "interp"
      PROVE  /\ frames # <<>> /\ Top.phase = "call"
             /\ Top.pc \in Pcs(image) /\ Op.op \in {"CallDirect", "V1Stmt"}
  BY <1>1, <1>3, InterpFacts DEF Returned
<1>4. ASSUME NEW pc, NEW phase
      PROVE  Interp(pc, phase).pc = pc /\ Interp(pc, phase).phase = phase
  BY DEF Interp
<1>5. CASE EnterLoop
  <2> DEFINE f == Compiled(Top.pc, "fetch", HeaderLoop(image, Top.pc))
  <2>1. AtFetch /\ Replace(f) /\ UNCHANGED <<image, err>>
    BY <1>5 DEF EnterLoop
  <2>2. FrameOK(f) /\ Seen(f) = Seen(Top)
    <3>1. LoopsOK(Arrive(Top.pc))
      BY ArriveOK
    <3>2. HeaderLoop(image, Top.pc) \in Loops(image)
          /\ Header(image, HeaderLoop(image, Top.pc)) = Top.pc
      BY <1>1, <1>5, HeaderLoopFacts DEF EnterLoop, Enterable
    <3>3. Compilable(HeaderLoop(image, Top.pc))
          /\ Top.pc \in Header(image, HeaderLoop(image, Top.pc))..HeaderLoop(image, Top.pc)
      BY <1>1, <1>5, <3>1, <3>2, LoopFacts DEF LoopsOK, EnterLoop, Enterable
    <3> QED
      BY <1>1, <1>2, <2>1, <3>2, <3>3, CodeFetches DEF Seen, Compiled
  <2>3. UNCHANGED PlainExecution!pvars
    BY <1>1, <1>2, <2>1, <2>2, PlainSame
  <2> QED
    BY <2>3
<1>6. CASE StepOver
  <2> DEFINE f == Interp(Top.pc, "drain")
  <2>1. /\ AtFetch /\ Op.op # "Jump" /\ Replace(f) /\ UNCHANGED <<image, err>>
    BY <1>6 DEF StepOver, Dispatch
  <2>2. FrameOK(f) /\ f.pc = Top.pc /\ f.phase = "drain"
    BY <1>1, <1>2, <1>4, <2>1, InterpWaits DEF Op, Waiting
  <2> HIDE DEF f
  <2>3. CASE Op.op = "Return"
    <3>1. PlainExecution!BeginReturn
      <4>1. PlainExecution!Goto(Top.pc, "drain")
        BY <1>1, <1>2, <2>1, <2>2, PlainGoto
      <4> QED
        BY <1>1, <1>2, <2>1, <2>3, <4>1, PlainTop
           DEF PlainExecution!BeginReturn, PlainExecution!Executing, PlainExecution!Pcs, Pcs
    <3> QED
      BY <3>1 DEF PlainExecution!Next
  <2>4. CASE Op.op # "Return"
    <3>1. PlainExecution!Succeed
      BY <1>1, <1>2, <2>1, <2>2, <2>4, PlainStep
    <3> QED
      BY <3>1 DEF PlainExecution!Next
  <2> QED
    BY <2>3, <2>4
<1>7. CASE TakeJump
  <2> DEFINE to == IF Op.op = "Jump" THEN Op.a ELSE BranchTarget(Op)
             f == Interp(to, "fetch")
  <2>1. /\ AtFetch /\ (Op.op = "Jump" \/ IsBranch(Op)) /\ Replace(f) /\ UNCHANGED <<image, err>>
    BY <1>7 DEF TakeJump, Dispatch
  <2>2. to \in Nat /\ to \in PlainExecution!Successors(Top.pc)
    BY <1>1, <1>2, <2>1, ImageFacts, PlainSuccessors DEF Op
  <2> HIDE DEF to
  <2>3. FrameOK(f) /\ f.pc = to /\ f.phase = "fetch"
    BY <1>1, <1>4, <2>2, InterpFetches
  <2> HIDE DEF f
  <2>4. Op.op # "Return"
    BY <2>1 DEF IsBranch
  <2>5. PlainExecution!Succeed
    BY <1>1, <1>2, <2>1, <2>2, <2>3, <2>4, PlainStep
  <2> QED
    BY <2>5 DEF PlainExecution!Next
<1>8. CASE FailInstr
  <2>1. PlainExecution!Fail
    BY <1>2, <1>8, PlainFail DEF FailInstr, Dispatch
  <2> QED
    BY <2>1 DEF PlainExecution!Next
<1>9. CASE CallAgain
  <2> DEFINE f == Interp(Top.pc, "call")
  <2>1. /\ AtFetch /\ Op.op \in {"CallDirect", "V1Stmt"} /\ Depth < MaxDepth
        /\ Push(f) /\ UNCHANGED <<image, err>>
    BY <1>9 DEF CallAgain, Dispatch
  <2>2. FrameOK(f) /\ f.pc = Top.pc /\ f.phase = "call"
    BY <1>1, <1>2, <1>4, <2>1, InterpWaits DEF Op, Waiting
  <2> HIDE DEF f
  <2>3. PlainExecution!BeginCall
    BY <1>2, <2>1, <2>2, PlainCall
  <2> QED
    BY <2>3 DEF PlainExecution!Next
<1>10. CASE ReturnInStmt
  <2>1. /\ frames # <<>> /\ Top.pc \in Pcs(image) /\ Top.phase \in {"fetch", "call"}
        /\ Op.op = "V1Stmt" /\ Pop /\ err' = FALSE /\ image' = image
    BY <1>2, <1>3, <1>10 DEF ReturnInStmt, Dispatch
  <2>2. PlainExecution!ReturnNow
    BY <1>1, <2>1, PlainTop, PlainLeave
       DEF PlainExecution!ReturnNow, PlainExecution!Executing, PlainExecution!Pcs, Pcs
  <2> QED
    BY <2>2 DEF PlainExecution!Next
<1>11. CASE CallReturns
  <2> DEFINE f == Interp(Top.pc, "drain")
  <2>1. /\ Returned /\ Top.part = "interp" /\ (err => Op.op = "V1Stmt")
        /\ Replace(f) /\ image' = image /\ err' = FALSE
    BY <1>11 DEF CallReturns
  <2>2. FrameOK(f) /\ f.pc = Top.pc /\ f.phase = "drain" /\ Op.op # "Return"
    BY <1>1, <1>3, <1>4, <2>1, InterpWaits DEF Op, Waiting
  <2> HIDE DEF f
  <2>3. PlainExecution!Succeed
    BY <1>3, <2>1, <2>2, PlainStep
  <2> QED
    BY <2>3 DEF PlainExecution!Next
<1>12. CASE CallFails
  <2>1. PlainExecution!Fail
    BY <1>3, <1>12, PlainFail DEF CallFails
  <2> QED
    BY <2>1 DEF PlainExecution!Next
<1>13. CASE FallOff
  <2>1. frames # <<>> /\ Top.phase = "fetch" /\ Top.pc >= Len(image) /\ Pop
        /\ UNCHANGED <<image, err>>
    BY <1>13 DEF FallOff, IInv, ErrOK, Waiting
  <2>2. PlainExecution!FallOff
    BY <1>1, <2>1, PlainTop, PlainLeave DEF PlainExecution!FallOff
  <2> QED
    BY <2>2 DEF PlainExecution!Next
<1> QED
  BY <1>5, <1>6, <1>7, <1>8, <1>9, <1>10, <1>11, <1>12, <1>13 DEF Interpret

LEMMA MicrotaskRefines ==
  ASSUME IInv, Microtask
  PROVE  PlainExecution!Next
<1>1. image \in Images /\ StackOK(frames) /\ err \in BOOLEAN
  BY DEF IInv
<1>2. CASE DrainTask
  <2>1. /\ frames # <<>> /\ Top.phase = "drain" /\ Depth < MaxDepth /\ Push(Top)
        /\ err' = FALSE /\ image' = image /\ FrameOK(Top)
    BY <1>1, <1>2, TopFacts DEF DrainTask
  <2>2. Bar(frames') = Append(Bar(frames), [pc |-> 0, phase |-> "fetch"])
    <3>1. Bar(frames') = Append([Bar(frames) EXCEPT ![Depth] = Seen(Top)],
                                [pc |-> 0, phase |-> "fetch"])
      BY <1>1, <2>1, PlainPush
    <3>2. /\ Bar(frames) \in Seq(PlainFrames) /\ Len(Bar(frames)) = Depth
          /\ Bar(frames)[Depth] = Seen(Top) /\ Depth \in Nat /\ Depth > 0
      BY <1>1, <2>1, TopFacts, BarLen DEF Top, Depth
    <3>3. [Bar(frames) EXCEPT ![Depth] = Seen(Top)] = Bar(frames)
      BY <3>2
    <3> QED
      BY <3>1, <3>3
  <2>3. /\ Len(Bar(frames)) = Depth /\ PlainExecution!Last.phase = "drain"
        /\ PlainExecution!Frame(0, "fetch") = [pc |-> 0, phase |-> "fetch"]
    BY <1>1, <2>1, PlainTop DEF PlainExecution!Frame
  <2>4. PlainExecution!Invoke
    BY <2>1, <2>2, <2>3 DEF PlainExecution!Invoke, Bar, Seen, Depth
  <2> QED
    BY <2>4 DEF PlainExecution!Next
<1>3. ASSUME frames # <<>>, Top.phase = "drain", image' = image, err' = FALSE,
             IF Op.op = "Return" THEN PlainExecution!Leave
             ELSE PlainExecution!Goto(IF Op.op = "Jump" THEN Op.a ELSE Top.pc + 1, "fetch")
      PROVE  PlainExecution!Next
  <2>1. PlainExecution!EndDrain
    BY <1>1, <1>3, PlainTop DEF PlainExecution!EndDrain
  <2> QED
    BY <2>1 DEF PlainExecution!Next
<1>4. CASE DrainEnd
  <2>1. frames # <<>> /\ Top.part = "interp" /\ Top.phase = "drain"
        /\ err' = FALSE /\ image' = image
    BY <1>4 DEF DrainEnd
  <2>2. CASE Op.op = "Return"
    BY <1>1, <1>3, <1>4, <2>1, <2>2, PlainLeave DEF DrainEnd
  <2>3. CASE Op.op # "Return"
    <3> DEFINE f == Interp(Top.pc + 1, "fetch")
    <3>1. Replace(f) /\ Top.pc + 1 \in Nat /\ Op.op # "Jump"
      BY <1>1, <1>4, <2>1, <2>3, InterpFacts DEF DrainEnd
    <3>2. FrameOK(f) /\ f.pc = Top.pc + 1 /\ f.phase = "fetch"
      BY <1>1, <3>1, InterpFetches DEF Interp
    <3> HIDE DEF f
    <3>3. PlainExecution!Goto(Top.pc + 1, "fetch")
      BY <1>1, <2>1, <3>1, <3>2, PlainGoto
    <3> QED
      BY <1>3, <2>1, <2>3, <3>1, <3>3
  <2> QED
    BY <2>2, <2>3
<1>5. CASE CodeDrainEnd
  <2> DEFINE f == NextOp(Header(image, Top.loop))
  <2>1. frames # <<>> /\ Top.part = "op" /\ Top.phase = "drain" /\ Replace(f)
        /\ err' = FALSE /\ image' = image
    BY <1>5 DEF CodeDrainEnd
  <2>2. Op.op = "Jump" /\ Op.a = Header(image, Top.loop)
    BY <1>1, <2>1, TopFacts DEF FrameOK, Op
  <2>3. FrameOK(f) /\ f.pc = Op.a /\ f.phase = "fetch"
    BY <1>1, <2>1, <2>2, CodeFacts, CodeFetches DEF NextOp, Compiled
  <2> HIDE DEF f
  <2>4. PlainExecution!Goto(Op.a, "fetch")
    BY <1>1, <2>1, <2>3, PlainGoto
  <2> QED
    BY <1>3, <2>1, <2>2, <2>4
<1> QED
  BY <1>2, <1>4, <1>5 DEF Microtask

LEMMA RunCodeRefines ==
  ASSUME IInv, RunCode
  PROVE  PlainExecution!Next \/ ResumesElsewhere \/ UNCHANGED PlainExecution!pvars
<1>1. image \in Images /\ StackOK(frames) /\ err \in BOOLEAN
  BY DEF IInv
<1>2. ASSUME NEW part \in {"guard", "op"}, InCode(part)
      PROVE  /\ frames # <<>> /\ Top.part = part /\ Top.part # "interp"
             /\ Top.phase = "fetch" /\ err = FALSE /\ Top.pc \in Pcs(image)
             /\ FrameOK(Top) /\ Top.pc \in Nat
  <2>1. frames # <<>> /\ Top.part = part /\ Top.part # "interp" /\ Top.phase = "fetch"
        /\ err = FALSE
    BY <1>1, <1>2 DEF InCode, IInv, ErrOK, Waiting
  <2> QED
    BY <1>1, <2>1, CodeFacts, TopFacts
<1>3. ASSUME frames # <<>>, Top.part # "interp",
             NEW pc \in Header(image, Top.loop)..Top.loop
      PROVE  FrameOK(NextOp(pc)) /\ NextOp(pc).pc = pc /\ NextOp(pc).phase = "fetch"
  BY <1>1, <1>3, CodeFacts, CodeFetches DEF NextOp, Compiled
<1>4. ASSUME NEW pc \in Nat
      PROVE  /\ FrameOK(Interp(pc, "fetch"))
             /\ Interp(pc, "fetch").pc = pc /\ Interp(pc, "fetch").phase = "fetch"
  BY <1>1, InterpFetches DEF Interp
<1>5. ASSUME NEW part \in {"guard", "op"}, InCode(part), Kill(Top.pc)
      PROVE  UNCHANGED PlainExecution!pvars
  <2> DEFINE f == Interp(Top.pc, "fetch")
  <2>1. Top.pc \in Nat
    BY <1>2, <1>5
  <2>2. FrameOK(f) /\ Seen(f) = Seen(Top)
    BY <1>2, <1>4, <1>5, <2>1 DEF Seen
  <2> HIDE DEF f
  <2>3. Replace(f) /\ UNCHANGED <<image, err>>
    BY <1>5 DEF Kill, f
  <2> QED
    BY <1>1, <1>2, <1>5, <2>2, <2>3, PlainSame
<1>6. ASSUME InCode("op"), Op.op # "Return", UNCHANGED <<image, err>>,
             NEW f, FrameOK(f), Replace(f), f.phase = "fetch",
             f.pc \in PlainExecution!Successors(Top.pc)
      PROVE  PlainExecution!Next
  <2>1. PlainExecution!Succeed
    BY <1>2, <1>6, PlainStep
  <2> QED
    BY <2>1 DEF PlainExecution!Next
<1>7. CASE GuardHolds
  <2> DEFINE f == [Top EXCEPT !.part = "op"]
  <2>1. InCode("guard") /\ Replace(f) /\ UNCHANGED <<image, err>>
    BY <1>7 DEF GuardHolds
  <2>2. Top \in Positions /\ Placed(Top) /\ Top.part = "guard" /\ Top.phase = "fetch"
    BY <1>2, <2>1 DEF FrameOK
  <2>3. f \in Positions /\ f.part = "op" /\ f.pc = Top.pc /\ f.phase = Top.phase
        /\ f.loop = Top.loop
    BY <2>2 DEF Positions, Parts
  <2> HIDE DEF f
  <2>4. FrameOK(f) /\ Seen(f) = Seen(Top)
    BY <2>2, <2>3 DEF FrameOK, Placed, Seen
  <2> QED
    BY <1>1, <1>2, <2>1, <2>4, PlainSame
<1>8. CASE GuardFails
  <2>1. CASE ResumePc(Top.pc) = Top.pc
    BY <1>5, <1>8, <2>1 DEF GuardFails
  <2>2. CASE ResumePc(Top.pc) # Top.pc
    BY <1>8, <2>2 DEF GuardFails, Kill, ResumesElsewhere
  <2> QED
    BY <2>1, <2>2
<1>9. CASE Deopt
  BY <1>5, <1>9 DEF Deopt
<1>10. CASE CodeStep
  <2>1. InCode("op") /\ Op.op # "Jump" /\ Op.op # "Return" /\ UNCHANGED <<image, err>>
        /\ Replace(NextOp(Top.pc + 1))
    BY <1>10 DEF CodeStep, Plain
  <2>2. Top.pc + 1 \in Header(image, Top.loop)..Top.loop
    BY <1>1, <1>2, <2>1, CodeFacts
  <2> QED
    BY <1>2, <1>3, <1>6, <2>1, <2>2, PlainSuccessors
<1>11. CASE CodeBranch
  <2>1. InCode("op") /\ Op.op = "CompareJumpFalse" /\ GoTo(Op.c) /\ UNCHANGED <<image, err>>
    BY <1>11 DEF CodeBranch
  <2>2. Op.c \in Nat /\ Op.c \in PlainExecution!Successors(Top.pc)
    BY <1>1, <1>2, <2>1, ImageFacts, PlainSuccessors DEF Op, IsBranch, BranchTarget
  <2>3. CASE Op.c = Header(image, Top.loop)
    <3>1. Replace(NextOp(Op.c)) /\ Op.c \in Header(image, Top.loop)..Top.loop
      BY <1>1, <1>2, <2>1, <2>3, CodeFacts DEF GoTo
    <3> QED
      BY <1>2, <1>3, <1>6, <2>1, <2>2, <3>1
  <2>4. CASE Op.c # Header(image, Top.loop)
    <3>1. Replace(Interp(Op.c, "fetch"))
      BY <2>1, <2>4 DEF GoTo
    <3> QED
      BY <1>4, <1>6, <2>1, <2>2, <3>1
  <2> QED
    BY <2>3, <2>4
<1>12. CASE CodeJump
  <2>1. InCode("op") /\ Op.op = "Jump" /\ UNCHANGED <<image, err>>
    BY <1>12 DEF CodeJump
  <2>2. CASE Op.a = Header(image, Top.loop)
    <3> DEFINE f == [Top EXCEPT !.phase = "drain"]
    <3>1. Replace(f)
      BY <1>12, <2>2 DEF CodeJump
    <3>2. Top \in Positions /\ Placed(Top) /\ Top.part = "op"
      BY <1>2, <2>1 DEF FrameOK
    <3>3. f \in Positions /\ f.part = "op" /\ f.pc = Top.pc /\ f.phase = "drain"
          /\ f.loop = Top.loop
      BY <3>2 DEF Positions, Phases
    <3> HIDE DEF f
    <3>4. FrameOK(f)
      BY <2>1, <2>2, <3>2, <3>3 DEF FrameOK, Placed, Op
    <3>5. PlainExecution!Succeed
      BY <1>1, <1>2, <2>1, <3>1, <3>3, <3>4, PlainStep
    <3> QED
      BY <3>5 DEF PlainExecution!Next
  <2>3. CASE Op.a # Header(image, Top.loop)
    <3>1. Replace(Interp(Op.a, "fetch"))
      BY <1>12, <2>3 DEF CodeJump
    <3>2. Op.a \in Nat /\ Op.a \in PlainExecution!Successors(Top.pc)
      BY <1>1, <1>2, <2>1, ImageFacts, PlainSuccessors DEF Op
    <3> QED
      BY <1>4, <1>6, <2>1, <3>1, <3>2
  <2> QED
    BY <2>2, <2>3
<1>13. CASE CodeFails
  <2>1. PlainExecution!Fail
    BY <1>2, <1>13, PlainFail DEF CodeFails
  <2> QED
    BY <2>1 DEF PlainExecution!Next
<1>14. CASE CodeCallsAgain
  <2> DEFINE f == [Top EXCEPT !.phase = "call"]
  <2>1. InCode("op") /\ Op.op = "CallDirect" /\ Depth < MaxDepth /\ Push(f)
        /\ UNCHANGED <<image, err>>
    BY <1>14 DEF CodeCallsAgain
  <2>2. Top \in Positions /\ Placed(Top) /\ Top.part = "op"
    BY <1>2, <2>1 DEF FrameOK
  <2>3. f \in Positions /\ f.part = "op" /\ f.pc = Top.pc /\ f.phase = "call"
        /\ f.loop = Top.loop
    BY <2>2 DEF Positions, Phases
  <2> HIDE DEF f
  <2>4. FrameOK(f)
    BY <2>1, <2>2, <2>3 DEF FrameOK, Placed, Op
  <2>5. PlainExecution!BeginCall
    BY <1>2, <2>1, <2>3, <2>4, PlainCall
  <2> QED
    BY <2>5 DEF PlainExecution!Next
<1>15. CASE CodeCallReturns
  <2>1. frames # <<>> /\ Top.part = "op" /\ Top.phase = "call" /\ UNCHANGED <<image, err>>
    BY <1>15 DEF CodeCallReturns, Returned
  <2>2. Op.op = "CallDirect" /\ Top.pc \in Pcs(image)
    BY <1>1, <2>1, TopFacts, CodeFacts DEF FrameOK, Op
  <2>3. CASE err
    <3>1. err' = TRUE /\ Pop
      BY <1>1, <1>15, <2>1, <2>3 DEF CodeCallReturns
    <3>2. PlainExecution!Fail
      BY <2>1, <2>2, <3>1, PlainFail
    <3> QED
      BY <3>2 DEF PlainExecution!Next
  <2>4. CASE ~err
    <3> DEFINE f == NextOp(Top.pc + 1)
    <3>1. Replace(f) /\ err' = FALSE
      BY <1>1, <1>15, <2>1, <2>4 DEF CodeCallReturns
    <3>2. Top.pc + 1 \in Header(image, Top.loop)..Top.loop
      BY <1>1, <2>1, <2>2, CodeFacts
    <3>3. FrameOK(f) /\ f.pc = Top.pc + 1 /\ f.phase = "fetch"
      BY <1>3, <2>1, <3>2
    <3> HIDE DEF f
    <3>4. PlainExecution!Succeed
      BY <2>1, <2>2, <2>4, <3>1, <3>3, PlainSuccessors, PlainStep
    <3> QED
      BY <3>4 DEF PlainExecution!Next
  <2> QED
    BY <2>3, <2>4
<1> QED
  BY <1>7, <1>8, <1>9, <1>10, <1>11, <1>12, <1>13, <1>14, <1>15 DEF RunCode

(* Compiling, entering, leaving and deoptimizing loops never changes which *)
(* instructions the function executes, but for a guard that fails where    *)
(* the bytecode and the image number its instruction differently.          *)
THEOREM Refinement == Spec => TiersAgree
<1>1. Init => PlainExecution!Init
  BY DEF Init, PlainExecution!Init, Depth
<1>2. IInv /\ [Next]_vars =>
        [PlainExecution!Next \/ ResumesElsewhere]_(PlainExecution!pvars)
  <2> SUFFICES ASSUME IInv, [Next]_vars
               PROVE  PlainExecution!Next \/ ResumesElsewhere \/ UNCHANGED PlainExecution!pvars
    OBVIOUS
  <2>1. CASE Next
    BY <2>1, ProgramRefines, InterpretRefines, MicrotaskRefines, RunCodeRefines DEF Next
  <2>2. CASE UNCHANGED vars
    BY <2>2 DEF vars, PlainExecution!pvars, Depth
  <2> QED
    BY <2>1, <2>2
<1> QED
  BY <1>1, <1>2, Inductive, PTL DEF Spec, TiersAgree
=============================================================================
