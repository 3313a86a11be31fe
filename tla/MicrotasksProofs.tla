-------------------------- MODULE MicrotasksProofs --------------------------
(***************************************************************************)
(* Proofs about Microtasks, for any set of Tasks, of variables and any     *)
(* bounds.  What matters of the call stack is its shape:                   *)
(*   - one frame at most is inside processMicrotasks, exactly when         *)
(*     isDrainingMicrotasks is set;                                        *)
(*   - a lazy body stands right on top of that frame.                      *)
(* Hence one lazy body at most, and the queue and that body account for    *)
(* every pending Task.  The second half counts: a reference to a Task is a *)
(* place (a variable, a place in the queue, a frame that runs or awaits    *)
(* it), and every step moves, makes or gives up as many as it says.        *)
(***************************************************************************)
EXTENDS Microtasks, FiniteSetTheorems, TLAPS

(* An `await` has an operand, also while it pumps the queue. *)
FrameOK(f) ==
  /\ f.phase = "await" => f.op \in Tasks
  /\ f.phase = "drain" => f.then # "drain" /\ (f.then = "await" => f.op \in Tasks)

(* The shape of a stack fs under the flag d. *)
StackOK(fs, d) ==
  /\ fs \in Seq(Frame) /\ Len(fs) >= 1 /\ d \in BOOLEAN
  /\ \A i \in 1..Len(fs) : FrameOK(fs[i])
  /\ \A i \in 1..Len(fs) : fs[i].kind = "module" <=> i = 1
  /\ \A i \in 1..Len(fs) : fs[i].kind = "task" <=> fs[i].task # None
  /\ \A i \in 1..Len(fs) : i < Len(fs) => fs[i].phase \in {"run", "drain"}
  /\ \A i \in 2..Len(fs) : fs[i].kind = "task" <=> fs[i-1].phase = "drain"
  /\ \A i, j \in 1..Len(fs) :
       fs[i].phase = "drain" /\ fs[j].phase = "drain" => i = j
  /\ d <=> \E i \in 1..Len(fs) : fs[i].phase = "drain"

(* The tasks whose bodies are on a stack. *)
OnStack(fs) == {fs[i].task : i \in {j \in 1..Len(fs) : fs[j].kind = "task"}}

-----------------------------------------------------------------------------
(* The three ways the stack changes: its top is replaced, a frame is       *)
(* pushed, the top is popped.                                              *)
LEMMA Replaced ==
  ASSUME NEW fs \in Seq(Frame), Len(fs) >= 1, NEW f \in Frame
  PROVE  LET gs == [fs EXCEPT ![Len(fs)] = f] IN
         /\ gs \in Seq(Frame) /\ Len(gs) = Len(fs)
         /\ gs[Len(fs)] = f
         /\ \A i \in 1..Len(fs) : i # Len(fs) => gs[i] = fs[i]
  OBVIOUS

LEMMA Pushed ==
  ASSUME NEW fs \in Seq(Frame), NEW f \in Frame
  PROVE  LET gs == Append(fs, f) IN
         /\ gs \in Seq(Frame) /\ Len(gs) = Len(fs) + 1
         /\ gs[Len(fs) + 1] = f
         /\ \A i \in 1..Len(fs) : gs[i] = fs[i]
  OBVIOUS

LEMMA Popped ==
  ASSUME NEW fs \in Seq(Frame), Len(fs) >= 2
  PROVE  LET gs == SubSeq(fs, 1, Len(fs) - 1) IN
         /\ gs \in Seq(Frame) /\ Len(gs) = Len(fs) - 1
         /\ \A i \in 1..(Len(fs) - 1) : gs[i] = fs[i]
  OBVIOUS
(* A new top of the same kind: d follows the frames that drain. *)
LEMMA ReplacedOK ==
  ASSUME NEW fs, NEW d, StackOK(fs, d), NEW f \in Frame, NEW e \in BOOLEAN,
         FrameOK(f), f.kind = fs[Len(fs)].kind, f.task = fs[Len(fs)].task,
         f.phase = "drain" => e /\ (d => fs[Len(fs)].phase = "drain"),
         f.phase # "drain" => (e <=> d /\ fs[Len(fs)].phase # "drain")
  PROVE  LET gs == [fs EXCEPT ![Len(fs)] = f] IN
         StackOK(gs, e) /\ OnStack(gs) = OnStack(fs)
<1> DEFINE gs == [fs EXCEPT ![Len(fs)] = f]
<1>1. fs \in Seq(Frame) /\ Len(fs) >= 1 /\ Len(fs) \in Nat
  BY DEF StackOK
<1>2. /\ gs \in Seq(Frame) /\ Len(gs) = Len(fs) /\ gs[Len(fs)] = f
      /\ \A i \in 1..Len(fs) : i # Len(fs) => gs[i] = fs[i]
  BY <1>1, Replaced
<1> HIDE DEF gs
<1>3. \A i \in 1..Len(fs) : gs[i].kind = fs[i].kind /\ gs[i].task = fs[i].task
  BY <1>1, <1>2
<1>4. StackOK(gs, e)
  <2>1. \A i \in 1..Len(gs) : FrameOK(gs[i])
    BY <1>1, <1>2 DEF StackOK
  <2>2. \A i \in 1..Len(gs) : /\ gs[i].kind = "module" <=> i = 1
                              /\ gs[i].kind = "task" <=> gs[i].task # None
                              /\ i < Len(gs) => gs[i].phase \in {"run", "drain"}
    BY <1>1, <1>2, <1>3 DEF StackOK
  <2>3. \A i \in 2..Len(gs) : gs[i].kind = "task" <=> gs[i-1].phase = "drain"
    <3> TAKE i \in 2..Len(gs)
    <3>1. i - 1 \in 1..Len(fs) /\ i - 1 # Len(fs) /\ i \in 1..Len(fs)
      BY <1>1, <1>2
    <3> QED BY <1>2, <1>3, <3>1 DEF StackOK
  <2>4. ASSUME NEW i \in 1..Len(gs), NEW j \in 1..Len(gs),
               gs[i].phase = "drain", gs[j].phase = "drain"
        PROVE  i = j
    BY <1>1, <1>2, <2>4 DEF StackOK
  <2>5. e <=> \E i \in 1..Len(gs) : gs[i].phase = "drain"
    <3>1. CASE f.phase = "drain"
      BY <1>1, <1>2, <3>1
    <3>2. CASE f.phase # "drain" /\ fs[Len(fs)].phase = "drain"
      <4>1. \A i \in 1..Len(fs) : fs[i].phase = "drain" => i = Len(fs)
        BY <1>1, <3>2 DEF StackOK
      <4> QED BY <1>1, <1>2, <3>2, <4>1
    <3>3. CASE f.phase # "drain" /\ fs[Len(fs)].phase # "drain"
      <4>1. e <=> d
        BY <3>3
      <4>2. \A i \in 1..Len(fs) : gs[i].phase = "drain" <=> fs[i].phase = "drain"
        BY <1>1, <1>2, <3>3
      <4> QED BY <1>2, <4>1, <4>2 DEF StackOK
    <3> QED BY <3>1, <3>2, <3>3
  <2> QED BY <1>1, <1>2, <2>1, <2>2, <2>3, <2>4, <2>5 DEF StackOK
<1>5. OnStack(gs) = OnStack(fs)
  BY <1>2, <1>3 DEF OnStack
<1> QED BY <1>4, <1>5 DEF gs

(* A call goes on top of a frame that runs, a task on top of one that      *)
(* drains, when no task is on the stack.                                   *)
LEMMA PushedOK ==
  ASSUME NEW fs, NEW d, StackOK(fs, d), NEW f \in Frame,
         FrameOK(f), f.phase = "next", f.kind \in {"call", "task"},
         f.kind = "task" <=> f.task # None,
         f.kind = "task" => fs[Len(fs)].phase = "drain",
         f.kind = "call" => fs[Len(fs)].phase = "run"
  PROVE  LET gs == Append(fs, f) IN
         /\ StackOK(gs, d)
         /\ f.kind = "call" => OnStack(gs) = OnStack(fs)
         /\ f.kind = "task" => OnStack(fs) = {} /\ OnStack(gs) = {f.task}
<1> DEFINE gs == Append(fs, f)
<1>1. fs \in Seq(Frame) /\ Len(fs) >= 1 /\ Len(fs) \in Nat
  BY DEF StackOK
<1>2. /\ gs \in Seq(Frame) /\ Len(gs) = Len(fs) + 1 /\ gs[Len(fs) + 1] = f
      /\ \A i \in 1..Len(fs) : gs[i] = fs[i]
  BY <1>1, Pushed
<1> HIDE DEF gs
<1>3. StackOK(gs, d)
  <2>1. \A i \in 1..Len(gs) : /\ FrameOK(gs[i])
                              /\ gs[i].kind = "module" <=> i = 1
                              /\ gs[i].kind = "task" <=> gs[i].task # None
                              /\ i < Len(gs) => gs[i].phase \in {"run", "drain"}
    <3> TAKE i \in 1..Len(gs)
    <3>1. CASE i \in 1..Len(fs)
      BY <1>1, <1>2, <3>1 DEF StackOK
    <3>2. CASE i = Len(fs) + 1
      BY <1>1, <1>2, <3>2
    <3> QED BY <1>1, <1>2, <3>1, <3>2
  <2>2. \A i \in 2..Len(gs) : gs[i].kind = "task" <=> gs[i-1].phase = "drain"
    <3> TAKE i \in 2..Len(gs)
    <3>1. CASE i \in 2..Len(fs)
      <4>1. i - 1 \in 1..Len(fs) /\ i \in 1..Len(fs)
        BY <1>1, <3>1
      <4> QED BY <1>2, <3>1, <4>1 DEF StackOK
    <3>2. CASE i = Len(fs) + 1
      BY <1>1, <1>2, <3>2
    <3> QED BY <1>1, <1>2, <3>1, <3>2
  <2>3. ASSUME NEW i \in 1..Len(gs), NEW j \in 1..Len(gs),
               gs[i].phase = "drain", gs[j].phase = "drain"
        PROVE  i = j
    <3>1. i \in 1..Len(fs) /\ j \in 1..Len(fs)
      BY <1>1, <1>2, <2>3
    <3> QED BY <1>2, <2>3, <3>1 DEF StackOK
  <2>4. d <=> \E i \in 1..Len(gs) : gs[i].phase = "drain"
    <3>1. \A i \in 1..Len(gs) : gs[i].phase = "drain" => i \in 1..Len(fs)
      BY <1>1, <1>2
    <3>2. \A i \in 1..Len(fs) : i \in 1..Len(gs)
      BY <1>1, <1>2
    <3> QED BY <1>2, <3>1, <3>2 DEF StackOK
  <2> QED BY <1>1, <1>2, <2>1, <2>2, <2>3, <2>4 DEF StackOK
<1>4. ASSUME f.kind = "call" PROVE OnStack(gs) = OnStack(fs)
  <2>1. {j \in 1..Len(gs) : gs[j].kind = "task"} = {j \in 1..Len(fs) : fs[j].kind = "task"}
    BY <1>1, <1>2, <1>4
  <2> QED BY <1>2, <2>1 DEF OnStack
<1>5. ASSUME f.kind = "task" PROVE OnStack(fs) = {} /\ OnStack(gs) = {f.task}
  <2>1. \A j \in 1..Len(fs) : fs[j].kind # "task"
    <3> SUFFICES ASSUME NEW j \in 1..Len(fs), fs[j].kind = "task" PROVE FALSE
      OBVIOUS
    <3>1. j # 1
      BY <1>1 DEF StackOK
    <3>2. j \in 2..Len(fs) /\ j - 1 \in 1..Len(fs) /\ Len(fs) \in 1..Len(fs)
      BY <1>1, <3>1
    <3>3. fs[j - 1].phase = "drain" /\ fs[Len(fs)].phase = "drain"
      BY <1>5, <3>2 DEF StackOK
    <3>4. j - 1 = Len(fs)
      BY <3>2, <3>3 DEF StackOK
    <3> QED BY <1>1, <3>2, <3>4
  <2>2. {j \in 1..Len(gs) : gs[j].kind = "task"} = {Len(fs) + 1}
    BY <1>1, <1>2, <1>5, <2>1
  <2> QED BY <1>2, <2>1, <2>2 DEF OnStack
<1> QED BY <1>3, <1>4, <1>5 DEF gs

(* The frame that ends was not draining. *)
LEMMA PoppedOK ==
  ASSUME NEW fs, NEW d, StackOK(fs, d), fs[Len(fs)].phase # "drain",
         fs[Len(fs)].kind \in {"call", "task"}
  PROVE  LET gs == SubSeq(fs, 1, Len(fs) - 1) IN
         /\ StackOK(gs, d)
         /\ fs[Len(fs)].kind = "call" => OnStack(gs) = OnStack(fs)
         /\ fs[Len(fs)].kind = "task" =>
              OnStack(gs) = {} /\ OnStack(fs) = {fs[Len(fs)].task}
<1> DEFINE gs == SubSeq(fs, 1, Len(fs) - 1)
           n == Len(fs)
<1>1. fs \in Seq(Frame) /\ n >= 2 /\ n \in Nat
  BY DEF StackOK
<1>2. /\ gs \in Seq(Frame) /\ Len(gs) = n - 1
      /\ \A i \in 1..(n - 1) : gs[i] = fs[i]
  BY <1>1, Popped
<1> HIDE DEF gs
<1>3. StackOK(gs, d)
  <2>1. \A i \in 1..Len(gs) : i \in 1..n /\ i < n /\ gs[i] = fs[i]
    BY <1>1, <1>2
  <2>2. \A i \in 1..Len(gs) : /\ FrameOK(gs[i])
                              /\ gs[i].kind = "module" <=> i = 1
                              /\ gs[i].kind = "task" <=> gs[i].task # None
                              /\ i < Len(gs) => gs[i].phase \in {"run", "drain"}
    BY <2>1 DEF StackOK
  <2>3. \A i \in 2..Len(gs) : gs[i].kind = "task" <=> gs[i-1].phase = "drain"
    <3> TAKE i \in 2..Len(gs)
    <3>1. i - 1 \in 1..Len(gs) /\ i \in 1..Len(gs) /\ i \in 2..n
      BY <1>1, <1>2
    <3>2. fs[i].kind = "task" <=> fs[i-1].phase = "drain"
      BY <3>1 DEF StackOK
    <3> QED BY <2>1, <3>1, <3>2
  <2>4. ASSUME NEW i \in 1..Len(gs), NEW j \in 1..Len(gs),
               gs[i].phase = "drain", gs[j].phase = "drain"
        PROVE  i = j
    BY <2>1, <2>4 DEF StackOK
  <2>5. d <=> \E i \in 1..Len(gs) : gs[i].phase = "drain"
    <3>1. \A i \in 1..n : fs[i].phase = "drain" => i \in 1..Len(gs)
      BY <1>1, <1>2
    <3> QED BY <2>1, <3>1 DEF StackOK
  <2> QED BY <1>1, <1>2, <2>2, <2>3, <2>4, <2>5 DEF StackOK
<1>4. ASSUME fs[n].kind = "call" PROVE OnStack(gs) = OnStack(fs)
  <2>1. {j \in 1..Len(gs) : gs[j].kind = "task"} = {j \in 1..n : fs[j].kind = "task"}
    BY <1>1, <1>2, <1>4
  <2> QED BY <1>1, <1>2, <2>1 DEF OnStack
<1>5. ASSUME fs[n].kind = "task" PROVE OnStack(gs) = {} /\ OnStack(fs) = {fs[n].task}
  <2>1. \A j \in 1..n : fs[j].kind = "task" => j = n
    <3> SUFFICES ASSUME NEW j \in 1..n, fs[j].kind = "task" PROVE j = n
      OBVIOUS
    <3>1. j # 1
      BY <1>1 DEF StackOK
    <3>2. j \in 2..n /\ n \in 2..n /\ j - 1 \in 1..n /\ n - 1 \in 1..n
      BY <1>1, <3>1
    <3>3. fs[j - 1].phase = "drain" /\ fs[n - 1].phase = "drain"
      BY <1>5, <3>2 DEF StackOK
    <3>4. j - 1 = n - 1
      BY <3>2, <3>3 DEF StackOK
    <3> QED BY <1>1, <3>2, <3>4
  <2>2. {j \in 1..Len(gs) : gs[j].kind = "task"} = {}
    BY <1>1, <1>2, <2>1
  <2>3. {j \in 1..n : fs[j].kind = "task"} = {n}
    BY <1>1, <1>5, <2>1
  <2> QED BY <2>2, <2>3 DEF OnStack
<1> QED BY <1>3, <1>4, <1>5 DEF gs

(* The code that executes is the only task on the stack, or the module.    *)
OwnerOK ==
  /\ OnStack(frames) = {} => Owner = Module
  /\ OnStack(frames) # {} => OnStack(frames) = {Owner} /\ Owner \in Tasks
  /\ OnStack(frames) = Running
  /\ TaskFrames = {} <=> OnStack(frames) = {}

LEMMA OwnerOnStack == StackOK(frames, draining) => OwnerOK
<1> SUFFICES ASSUME StackOK(frames, draining) PROVE OwnerOK
  OBVIOUS
<1> USE DEF OwnerOK
<1>1. frames \in Seq(Frame) /\ Depth \in Nat /\ Depth >= 1
  BY DEF StackOK, Depth
<1>2. OnStack(frames) = Running /\ (OnStack(frames) = {} <=> TaskFrames = {})
  BY DEF OnStack, Running, TaskFrames, Depth
<1>3. CASE TaskFrames = {}
  BY <1>2, <1>3 DEF Owner
<1>4. CASE TaskFrames # {}
  <2>1. PICK n \in TaskFrames : TRUE
    BY <1>4
  <2>2. \A j \in TaskFrames : j = n
    <3> SUFFICES ASSUME NEW j \in TaskFrames PROVE j = n
      OBVIOUS
    <3>1. j \in 2..Depth /\ n \in 2..Depth /\ j - 1 \in 1..Depth /\ n - 1 \in 1..Depth
      BY <1>1, <2>1 DEF StackOK, TaskFrames, Depth
    <3>2. frames[j - 1].phase = "drain" /\ frames[n - 1].phase = "drain"
      BY <2>1, <3>1 DEF StackOK, TaskFrames, Depth
    <3>3. j - 1 = n - 1
      BY <3>1, <3>2 DEF StackOK, Depth
    <3> QED BY <3>1, <3>3
  <2>3. TaskFrames = {n} /\ n \in 1..Depth /\ frames[n].kind = "task"
    BY <2>1, <2>2 DEF TaskFrames
  <2>4. \A j \in TaskFrames : j <= n
    BY <1>1, <2>3
  <2>5. (CHOOSE i \in TaskFrames : \A j \in TaskFrames : j <= i) = n
    BY <1>1, <2>3, <2>4
  <2>6. Owner = frames[n].task /\ Running = {frames[n].task}
    BY <1>4, <2>3, <2>5 DEF Owner, Running
  <2>7. frames[n].task \in Tasks
    <3>1. frames[n] \in Frame /\ frames[n].task # None
      BY <1>1, <2>3 DEF StackOK, Depth
    <3> QED BY <3>1 DEF Frame
  <2> QED BY <1>2, <2>6, <2>7
<1> QED BY <1>3, <1>4

(* The top frame, and what the actions make of it. *)
LEMMA TopFrame ==
  ASSUME StackOK(frames, draining)
  PROVE  /\ Top \in Frame /\ FrameOK(Top) /\ Top = frames[Len(frames)]
         /\ Top.left > 0 => /\ Step(Top) \in Frame
                           /\ Step(Top).kind = Top.kind /\ Step(Top).task = Top.task
                           /\ Step(Top).phase = Top.phase /\ Step(Top).op = Top.op
<1>1. Top \in Frame /\ FrameOK(Top) /\ Top = frames[Len(frames)]
  BY DEF StackOK, Top, Depth
<1> QED BY <1>1, MicrotasksAssumption DEF Frame, Step

(* processMicrotasks, called from a frame that does not drain: it drains   *)
(* if nobody does, and goes on at `resume`.                                *)
LEMMA ProcessOK ==
  ASSUME StackOK(frames, draining), Top.phase # "drain",
         NEW f \in Frame, f.kind = Top.kind, f.task = Top.task,
         NEW resume \in Phases \ {"drain"}, resume = "await" => f.op \in Tasks,
         ProcessMicrotasks(f, resume)
  PROVE  StackOK(frames', draining') /\ OnStack(frames') = OnStack(frames)
<1>1. Top = frames[Len(frames)] /\ draining \in BOOLEAN
  BY TopFrame DEF StackOK
<1>2. CASE draining
  <2> DEFINE g == [f EXCEPT !.phase = resume]
  <2>1. g \in Frame /\ g.kind = f.kind /\ g.task = f.task /\ g.phase = resume /\ g.op = f.op
    BY DEF Frame
  <2>2. FrameOK(g)
    BY <2>1 DEF FrameOK
  <2>3. frames' = [frames EXCEPT ![Len(frames)] = g] /\ draining' = draining
    BY <1>2 DEF ProcessMicrotasks, WithTop, Depth
  <2> HIDE DEF g
  <2> QED BY <1>1, <1>2, <2>1, <2>2, <2>3, ReplacedOK
<1>3. CASE ~draining
  <2> DEFINE g == [f EXCEPT !.phase = "drain", !.then = resume]
  <2>1. /\ g \in Frame /\ g.kind = f.kind /\ g.task = f.task
        /\ g.phase = "drain" /\ g.then = resume /\ g.op = f.op
    <3>1. "drain" \in Phases
      BY DEF Phases
    <3> QED
      BY <3>1 DEF Frame
  <2>2. FrameOK(g)
    BY <2>1 DEF FrameOK
  <2>3. frames' = [frames EXCEPT ![Len(frames)] = g] /\ draining' = TRUE
    BY <1>3 DEF ProcessMicrotasks, WithTop, Depth
  <2> HIDE DEF g
  <2> QED BY <1>1, <1>3, <2>1, <2>2, <2>3, ReplacedOK
<1> QED BY <1>1, <1>2, <1>3

(* The top frame is replaced by one that does not drain either.            *)
LEMMA WithTopOK ==
  ASSUME StackOK(frames, draining), Top.phase # "drain",
         NEW f \in Frame, FrameOK(f), f.phase # "drain",
         f.kind = Top.kind, f.task = Top.task,
         frames' = WithTop(f), draining' = draining
  PROVE  StackOK(frames', draining') /\ OnStack(frames') = OnStack(frames)
<1>1. Top = frames[Len(frames)] /\ draining \in BOOLEAN
  BY TopFrame DEF StackOK
<1>2. frames' = [frames EXCEPT ![Len(frames)] = f]
  BY DEF WithTop, Depth
<1> QED BY <1>1, <1>2, ReplacedOK

-----------------------------------------------------------------------------
(* The Tasks that are pending are those of the queue and of the stack, and *)
(* none is there twice.                                                    *)
QueueOK ==
  /\ queue \in Seq(Tasks) /\ state \in [Tasks -> States]
  /\ \A t \in Tasks :
       state[t] = "pending" <=> t \in Elements(queue) \/ t \in OnStack(frames)
  /\ \A i, j \in 1..Len(queue) : queue[i] = queue[j] => i = j
  /\ \A i \in 1..Len(queue) : queue[i] \notin OnStack(frames)

Busy == IF OnStack(frames) = {} THEN 0 ELSE 1

(* What was queued is what has settled, then what runs, then what waits.   *)
OrderOK ==
  /\ order \in Seq(Tasks) /\ settled \in Seq(Tasks)
  /\ Len(order) = Len(settled) + Busy + Len(queue)
  /\ \A i \in 1..Len(settled) : settled[i] = order[i]
  /\ OnStack(frames) # {} => OnStack(frames) = {order[Len(settled) + 1]}
  /\ \A i \in 1..Len(queue) : queue[i] = order[Len(settled) + Busy + i]

(* A rejected Task says why. *)
ReasonOK ==
  /\ reason \in [Tasks -> Origins \cup {None}]
  /\ \A t \in Tasks : state[t] = "rejected" => reason[t] \in Origins

DataOK ==
  /\ err \in Origins \cup {None} /\ delivered \in SUBSET Origins
  /\ refs \in [Tasks -> Int] /\ globals \in [Vars -> Tasks \cup {None}]
  /\ ErrorCrossesOnlyByAwait

IInv == StackOK(frames, draining) /\ QueueOK /\ OrderOK /\ ReasonOK /\ DataOK

LEMMA OwnerIsOrigin ==
  ASSUME StackOK(frames, draining)
  PROVE  Owner \in Origins /\ Origins \cap {None} = {}
BY OwnerOnStack, MicrotasksAssumption DEF Origins, OwnerOK

-----------------------------------------------------------------------------
LEMMA InitOK == Init => IInv
<1> SUFFICES ASSUME Init PROVE IInv
  OBVIOUS
<1> DEFINE m == NewFrame("module", "V1", None)
<1>1. /\ m \in Frame /\ m.kind = "module" /\ m.task = None
      /\ m.phase = "next" /\ m.op = None
  BY MicrotasksAssumption DEF NewFrame, Frame, Phases, Bodies
<1>2. frames = <<m>> /\ ~draining /\ draining \in BOOLEAN
  BY DEF Init
<1> HIDE DEF m
<1>3. frames \in Seq(Frame) /\ Len(frames) = 1 /\ frames[1] = m
  BY <1>1, <1>2
<1>4. StackOK(frames, draining)
  BY <1>1, <1>2, <1>3 DEF StackOK, FrameOK
<1>5. OnStack(frames) = {}
  BY <1>1, <1>3 DEF OnStack
<1>6. QueueOK
  BY <1>5 DEF Init, QueueOK, States, Elements
<1>7. OrderOK
  BY <1>5 DEF Init, OrderOK, Busy
<1>8. ReasonOK /\ DataOK
  BY MicrotasksAssumption DEF Init, ReasonOK, DataOK, Origins, ErrorCrossesOnlyByAwait
<1> QED BY <1>4, <1>6, <1>7, <1>8 DEF IInv

(* Every action but TakeMicrotask and FinishMicrotask leaves the tasks on  *)
(* the stack alone.                                                        *)
StackStep == StackOK(frames', draining') /\ OnStack(frames') = OnStack(frames)

LEMMA StatementStack ==
  ASSUME StackOK(frames, draining), Statement
  PROVE  StackStep
<1>1. /\ Top \in Frame /\ FrameOK(Top) /\ Top = frames[Len(frames)]
      /\ Top.left > 0 => /\ Step(Top) \in Frame
                        /\ Step(Top).kind = Top.kind /\ Step(Top).task = Top.task
                        /\ Step(Top).phase = Top.phase /\ Step(Top).op = Top.op
  BY TopFrame
<1>2. ASSUME MayStep, frames' = WithTop(Step(Top)), draining' = draining
      PROVE  StackStep
  <2>1. FrameOK(Step(Top)) /\ Step(Top).phase = "run" /\ Top.phase = "run"
    BY <1>1, <1>2 DEF MayStep, FrameOK
  <2> QED BY <1>1, <1>2, <2>1, WithTopOK DEF MayStep, StackStep
<1>3. CASE NextStmt
  <2> DEFINE f == [Step(Top) EXCEPT !.phase = "run"]
  <2>1. f \in Frame /\ f.kind = Top.kind /\ f.task = Top.task /\ f.phase = "run"
    BY <1>1, <1>3 DEF NextStmt, Frame, Phases
  <2>2. FrameOK(f) /\ frames' = WithTop(f) /\ draining' = draining /\ Top.phase = "next"
    BY <1>3, <2>1 DEF NextStmt, FrameOK
  <2> HIDE DEF f
  <2> QED BY <2>1, <2>2, WithTopOK DEF StackStep
<1>4. CASE RaiseError
  BY <1>2, <1>4 DEF RaiseError
<1>5. CASE SecureClears
  BY <1>2, <1>5 DEF SecureClears
<1>6. CASE BlockStmtEnd
  <2>1. Top.phase = "run" /\ Top.left > 0 /\ ProcessMicrotasks(Step(Top), "run")
    BY <1>6 DEF BlockStmtEnd, MayStep
  <2> QED BY <1>1, <2>1, ProcessOK DEF Phases, StackStep
<1>7. CASE StmtEnd
  <2>1. Top.phase = "run" /\ ProcessMicrotasks(Top, "next")
    BY <1>7 DEF StmtEnd
  <2> QED BY <1>1, <2>1, ProcessOK DEF Phases, StackStep
<1>8. CASE V2Fail
  <2> DEFINE f == [Top EXCEPT !.phase = "next", !.left = 0]
  <2>0. 0 \in 0..MaxOps
    BY MicrotasksAssumption
  <2>1. f \in Frame /\ f.kind = Top.kind /\ f.task = Top.task /\ f.phase = "next"
    <3>1. "next" \in Phases
      BY DEF Phases
    <3> QED
      BY <1>1, <2>0, <3>1 DEF Frame
  <2>2. FrameOK(f) /\ frames' = WithTop(f) /\ draining' = draining /\ Top.phase = "run"
    BY <1>8, <2>1 DEF V2Fail, FrameOK
  <2> HIDE DEF f
  <2> QED BY <2>1, <2>2, WithTopOK DEF StackStep
<1>9. CASE ReturnFromCall
  <2>1. /\ Top.phase = "next" /\ Top.kind = "call" /\ draining' = draining
        /\ frames' = SubSeq(frames, 1, Len(frames) - 1)
    BY <1>9 DEF ReturnFromCall, Below, Depth
  <2> QED BY <1>1, <2>1, PoppedOK DEF StackStep
<1>10. ASSUME NEW t \in Tasks, NEW v \in Vars \cup {None},
              ScheduleLazy(t, v) \/ ScheduleLazyFails(t, v)
       PROVE  StackStep
  BY <1>2, <1>10 DEF ScheduleLazy, ScheduleLazyFails
<1>11. ASSUME NEW body \in Bodies, CallFunction(body) PROVE StackStep
  <2> DEFINE gs == WithTop(Step(Top))
             h == NewFrame("call", body, None)
  <2>1. Top.phase = "run" /\ Top.left > 0
    BY <1>11 DEF CallFunction, MayStep
  <2>2. /\ h \in Frame /\ h.kind = "call" /\ h.task = None
        /\ h.phase = "next" /\ h.op = None
    BY MicrotasksAssumption DEF NewFrame, Frame, Phases
  <2>3. gs = [frames EXCEPT ![Len(frames)] = Step(Top)]
    BY DEF WithTop, Depth
  <2>4. FrameOK(Step(Top)) /\ draining \in BOOLEAN
    BY <1>1, <2>1 DEF FrameOK, StackOK
  <2>5. StackOK(gs, draining) /\ OnStack(gs) = OnStack(frames)
    BY <1>1, <2>1, <2>3, <2>4, ReplacedOK
  <2>6. Len(gs) = Len(frames) /\ gs[Len(frames)] = Step(Top)
    BY <1>1, <2>1, <2>3, Replaced DEF StackOK
  <2>7. frames' = Append(gs, h) /\ draining' = draining
    BY <1>11 DEF CallFunction
  <2>8. FrameOK(h)
    BY <2>2 DEF FrameOK
  <2> HIDE DEF gs, h
  <2> QED BY <1>1, <2>1, <2>2, <2>5, <2>6, <2>7, <2>8, PushedOK DEF StackStep
<1>12. ASSUME NEW r \in {"null", "value"}, ReturnStmt(r) PROVE StackStep
  <2> DEFINE f == [Top EXCEPT !.ret = r]
  <2>1. f \in Frame /\ f.kind = Top.kind /\ f.task = Top.task
    BY <1>1 DEF Frame
  <2>2. Top.phase = "run" /\ ProcessMicrotasks(f, "next")
    BY <1>12 DEF ReturnStmt
  <2> HIDE DEF f
  <2> QED BY <2>1, <2>2, ProcessOK DEF Phases, StackStep
<1> QED BY <1>3, <1>4, <1>5, <1>6, <1>7, <1>8, <1>9, <1>10, <1>11, <1>12 DEF Statement

LEMMA AwaitStack ==
  ASSUME StackOK(frames, draining), globals \in [Vars -> Tasks \cup {None}], Await
  PROVE  StackStep
<1>1. Top \in Frame /\ FrameOK(Top) /\ Top = frames[Len(frames)]
  BY TopFrame
<1>2. ASSUME NEW v \in Vars, BeginAwait(v) PROVE StackStep
  <2> DEFINE f == [Step(Top) EXCEPT !.phase = "await", !.op = globals[v]]
  <2>1. Step(Top) \in Frame /\ Step(Top).kind = Top.kind /\ Step(Top).task = Top.task
    BY <1>2, TopFrame DEF BeginAwait, MayStep
  <2>2. globals[v] \in Tasks
    BY <1>2 DEF BeginAwait
  <2>3. /\ f \in Frame /\ f.kind = Top.kind /\ f.task = Top.task
        /\ f.phase = "await" /\ f.op \in Tasks
    BY <2>1, <2>2 DEF Frame, Phases
  <2>4. FrameOK(f) /\ frames' = WithTop(f) /\ draining' = draining /\ Top.phase = "run"
    BY <1>2, <2>3 DEF BeginAwait, MayStep, FrameOK
  <2> HIDE DEF f
  <2> QED BY <2>3, <2>4, WithTopOK DEF StackStep
<1>3. CASE AwaitPump
  <2>1. Top.phase = "await" /\ Top.op \in Tasks /\ ProcessMicrotasks(Top, "await")
    BY <1>1, <1>3 DEF AwaitPump, FrameOK
  <2> QED BY <1>1, <2>1, ProcessOK DEF Phases, StackStep
<1>4. ASSUME Top.phase = "await", EndAwait PROVE StackStep
  <2> DEFINE f == [Top EXCEPT !.phase = "run", !.op = None]
  <2>1. f \in Frame /\ f.kind = Top.kind /\ f.task = Top.task /\ f.phase = "run"
    BY <1>1 DEF Frame, Phases
  <2>2. FrameOK(f) /\ frames' = WithTop(f) /\ draining' = draining
    BY <1>4, <2>1 DEF EndAwait, FrameOK
  <2> HIDE DEF f
  <2> QED BY <1>4, <2>1, <2>2, WithTopOK DEF StackStep
<1> QED BY <1>2, <1>3, <1>4 DEF Await, AwaitStalls, AwaitResolved, AwaitRejected

LEMMA DrainEndStack ==
  ASSUME StackOK(frames, draining), DrainEnd
  PROVE  StackStep
<1> DEFINE f == [Top EXCEPT !.phase = Top.then]
<1>1. Top \in Frame /\ FrameOK(Top) /\ Top = frames[Len(frames)] /\ Top.phase = "drain"
  BY TopFrame DEF DrainEnd
<1>2. /\ f \in Frame /\ f.kind = Top.kind /\ f.task = Top.task
      /\ f.phase = Top.then /\ f.op = Top.op
  BY <1>1 DEF Frame
<1>3. FrameOK(f) /\ f.phase # "drain"
  BY <1>1, <1>2 DEF FrameOK
<1>4. frames' = [frames EXCEPT ![Len(frames)] = f] /\ draining' = FALSE
  BY DEF DrainEnd, WithTop, Depth
<1> HIDE DEF f
<1> QED BY <1>1, <1>2, <1>3, <1>4, ReplacedOK DEF StackStep

LEMMA EpilogueStack ==
  ASSUME StackOK(frames, draining), ModuleEnd \/ ClearScope
  PROVE  StackStep
<1>1. Top \in Frame
  BY TopFrame
<1>2. CASE ModuleEnd
  <2>1. Top.phase = "next" /\ ProcessMicrotasks(Top, "cleanup")
    BY <1>2 DEF ModuleEnd
  <2> QED BY <1>1, <2>1, ProcessOK DEF Phases, StackStep
<1>3. CASE ClearScope
  <2> DEFINE f == [Top EXCEPT !.phase = "done"]
  <2>1. f \in Frame /\ f.kind = Top.kind /\ f.task = Top.task /\ f.phase = "done"
    BY <1>1 DEF Frame, Phases
  <2>2. FrameOK(f) /\ frames' = WithTop(f) /\ draining' = draining /\ Top.phase = "cleanup"
    BY <1>3, <2>1 DEF ClearScope, FrameOK
  <2> HIDE DEF f
  <2> QED BY <2>1, <2>2, WithTopOK DEF StackStep
<1> QED BY <1>2, <1>3

-----------------------------------------------------------------------------
(* A step that leaves the tasks on the stack alone has the same owner.     *)
LEMMA SameOwner ==
  ASSUME StackOK(frames, draining), StackStep
  PROVE  Owner' = Owner
<1>1. OwnerOK /\ (StackOK(frames, draining) => OwnerOK)'
  BY OwnerOnStack, PTL
<1>2. OwnerOK'
  BY <1>1 DEF StackStep
<1> QED BY <1>1, <1>2 DEF OwnerOK, StackStep

(* A step that leaves the queue, the states and the histories alone too.   *)
LEMMA Quiet ==
  ASSUME IInv, StackStep, UNCHANGED <<queue, state, order, settled>>
  PROVE  QueueOK' /\ OrderOK'
<1>1. OnStack(frames') = OnStack(frames)
  BY DEF StackStep
<1>2. QueueOK'
  BY <1>1 DEF IInv, QueueOK, Elements
<1>3. OrderOK'
  BY <1>1 DEF IInv, OrderOK, Busy
<1> QED BY <1>2, <1>3

(* A Task that has never been used joins the queue. *)
LEMMA QueueGrows ==
  ASSUME IInv, StackStep, NEW t \in Tasks, state[t] = "unused",
         state' = [state EXCEPT ![t] = "pending"],
         queue' = Append(queue, t), order' = Append(order, t), settled' = settled
  PROVE  QueueOK' /\ OrderOK'
<1>1. OnStack(frames') = OnStack(frames) /\ Busy' = Busy /\ Busy \in {0, 1}
  BY DEF StackStep, Busy
<1>2. /\ queue \in Seq(Tasks) /\ order \in Seq(Tasks) /\ settled \in Seq(Tasks)
      /\ state \in [Tasks -> States]
  BY DEF IInv, QueueOK, OrderOK
<1>3. /\ queue' \in Seq(Tasks) /\ Len(queue') = Len(queue) + 1 /\ queue'[Len(queue) + 1] = t
      /\ \A i \in 1..Len(queue) : queue'[i] = queue[i]
  BY <1>2
<1>4. /\ order' \in Seq(Tasks) /\ Len(order') = Len(order) + 1 /\ order'[Len(order) + 1] = t
      /\ \A i \in 1..Len(order) : order'[i] = order[i]
  BY <1>2
<1>5. t \notin Elements(queue) /\ t \notin OnStack(frames)
  BY DEF IInv, QueueOK
<1>6. Elements(queue') = Elements(queue) \cup {t}
  <2>1. \A i \in 1..Len(queue') : queue'[i] \in Elements(queue) \cup {t}
    BY <1>2, <1>3 DEF Elements
  <2>2. \A i \in 1..Len(queue) : i \in 1..Len(queue')
    BY <1>2, <1>3
  <2>3. Len(queue) + 1 \in 1..Len(queue')
    BY <1>2, <1>3
  <2>4. Elements(queue) \cup {t} \subseteq Elements(queue')
    BY <1>3, <2>2, <2>3 DEF Elements
  <2> QED BY <2>1, <2>4 DEF Elements
<1>7. QueueOK'
  <2>1. state' \in [Tasks -> States]
    BY <1>2 DEF States
  <2>2. \A u \in Tasks :
          state'[u] = "pending" <=> u \in Elements(queue') \/ u \in OnStack(frames')
    BY <1>1, <1>2, <1>6 DEF IInv, QueueOK
  <2>3. ASSUME NEW i \in 1..Len(queue'), NEW j \in 1..Len(queue'), queue'[i] = queue'[j]
        PROVE  i = j
    <3>1. \A k \in 1..Len(queue) : queue[k] # t
      BY <1>5 DEF Elements
    <3>2. CASE i \in 1..Len(queue) /\ j \in 1..Len(queue)
      BY <1>3, <2>3, <3>2 DEF IInv, QueueOK
    <3>3. CASE i = Len(queue) + 1 \/ j = Len(queue) + 1
      BY <1>2, <1>3, <2>3, <3>1, <3>3
    <3> QED BY <1>2, <1>3, <3>2, <3>3
  <2>4. \A i \in 1..Len(queue') : queue'[i] \notin OnStack(frames')
    BY <1>1, <1>2, <1>3, <1>5 DEF IInv, QueueOK
  <2> QED BY <1>3, <2>1, <2>2, <2>3, <2>4 DEF QueueOK
<1>8. OrderOK'
  <2>1. Len(order) = Len(settled) + Busy + Len(queue)
    BY DEF IInv, OrderOK
  <2>2. \A i \in 1..Len(settled) : settled[i] = order[i] /\ i \in 1..Len(order)
    BY <1>1, <1>2, <2>1 DEF IInv, OrderOK
  <2>3. OnStack(frames') # {} => OnStack(frames') = {order'[Len(settled') + 1]}
    <3>1. SUFFICES ASSUME OnStack(frames) # {}
                   PROVE  OnStack(frames) = {order'[Len(settled) + 1]}
      BY <1>1
    <3>2. Busy = 1 /\ OnStack(frames) = {order[Len(settled) + 1]}
      BY <3>1 DEF Busy, IInv, OrderOK
    <3>3. Len(settled) + 1 \in 1..Len(order)
      BY <1>2, <2>1, <3>2
    <3> QED BY <1>4, <3>2, <3>3
  <2>4. ASSUME NEW i \in 1..Len(queue') PROVE queue'[i] = order'[Len(settled') + Busy' + i]
    <3>1. CASE i \in 1..Len(queue)
      <4>1. Len(settled) + Busy + i \in 1..Len(order)
        BY <1>1, <1>2, <2>1, <3>1
      <4>2. queue[i] = order[Len(settled) + Busy + i]
        BY <3>1 DEF IInv, OrderOK
      <4> QED BY <1>1, <1>3, <1>4, <3>1, <4>1, <4>2
    <3>2. CASE i = Len(queue) + 1
      <4>1. Len(settled) + Busy + i = Len(order) + 1
        BY <1>1, <1>2, <2>1, <3>2
      <4> QED BY <1>1, <1>3, <1>4, <3>2, <4>1
    <3>3. i \in 1..Len(queue) \/ i = Len(queue) + 1
      BY <1>2, <1>3
    <3> QED BY <3>1, <3>2, <3>3
  <2>5. Len(order') = Len(settled') + Busy' + Len(queue')
    BY <1>1, <1>2, <1>3, <1>4, <2>1
  <2> QED BY <1>2, <1>4, <2>2, <2>3, <2>4, <2>5 DEF OrderOK
<1> QED BY <1>7, <1>8

(* A Task whose call is refused never joins. *)
LEMMA QueueRefuses ==
  ASSUME IInv, StackStep, NEW t \in Tasks, state[t] = "unused",
         state' = [state EXCEPT ![t] = "rejected"], UNCHANGED <<queue, order, settled>>
  PROVE  QueueOK' /\ OrderOK'
<1>1. OnStack(frames') = OnStack(frames)
  BY DEF StackStep
<1>2. QueueOK'
  BY <1>1 DEF IInv, QueueOK, States, Elements
<1>3. OrderOK'
  BY <1>1 DEF IInv, OrderOK, Busy
<1> QED BY <1>2, <1>3

(* The head of a queue and its tail. *)
LEMMA HeadTail ==
  ASSUME NEW q \in Seq(Tasks), q # <<>>
  PROVE  /\ Head(q) = q[1] /\ Head(q) \in Tasks /\ Len(q) \in Nat /\ Len(q) >= 1
         /\ Tail(q) \in Seq(Tasks) /\ Len(Tail(q)) = Len(q) - 1
         /\ \A i \in 1..(Len(q) - 1) : Tail(q)[i] = q[i + 1]
OBVIOUS

(* processOneMicrotask takes the oldest call: nothing ran before. *)
LEMMA TakeOK ==
  ASSUME IInv, NEW body \in Bodies, TakeMicrotask(body)
  PROVE  /\ StackOK(frames', draining') /\ QueueOK' /\ OrderOK'
         /\ OnStack(frames) = {} /\ OnStack(frames') = {Head(queue)}
<1> DEFINE t == Head(queue)
           f == NewFrame("task", body, t)
<1>1. queue # <<>> /\ queue \in Seq(Tasks) /\ order \in Seq(Tasks) /\ settled \in Seq(Tasks)
  BY DEF TakeMicrotask, IInv, QueueOK, OrderOK
<1>2. /\ t = queue[1] /\ t \in Tasks /\ Len(queue) \in Nat /\ Len(queue) >= 1
      /\ queue' = Tail(queue) /\ queue' \in Seq(Tasks) /\ Len(queue') = Len(queue) - 1
      /\ \A i \in 1..(Len(queue) - 1) : queue'[i] = queue[i + 1]
  BY <1>1, HeadTail DEF TakeMicrotask
<1>3. /\ f \in Frame /\ f.kind = "task" /\ f.task = t /\ f.task # None
      /\ f.phase = "next" /\ f.op = None
  BY <1>2, MicrotasksAssumption DEF NewFrame, Frame, Phases
<1>4. /\ Top = frames[Len(frames)] /\ Top.phase = "drain"
      /\ frames' = Append(frames, f) /\ draining' = draining
      /\ UNCHANGED <<state, order, settled>>
  BY TopFrame DEF TakeMicrotask, IInv, taskVars, history
<1> HIDE DEF f
<1>5. FrameOK(f)
  BY <1>3 DEF FrameOK
<1>6. StackOK(frames', draining') /\ OnStack(frames) = {} /\ OnStack(frames') = {t}
  BY <1>3, <1>4, <1>5, PushedOK DEF IInv
<1> HIDE DEF t
<1>7. \A i \in 1..Len(queue') : i + 1 \in 2..Len(queue) /\ i + 1 \in 1..Len(queue)
  BY <1>2
<1>8. \A i \in 1..Len(queue') : queue'[i] = queue[i + 1] /\ queue'[i] # t
  <2> TAKE i \in 1..Len(queue')
  <2>1. queue'[i] = queue[i + 1]
    BY <1>2
  <2>2. i + 1 \in 1..Len(queue) /\ 1 \in 1..Len(queue) /\ i + 1 # 1
    BY <1>2
  <2> QED BY <1>2, <2>1, <2>2 DEF IInv, QueueOK
<1>9. Elements(queue) = Elements(queue') \cup {t}
  <2>1. \A i \in 1..Len(queue) : queue[i] \in Elements(queue') \cup {t}
    <3> TAKE i \in 1..Len(queue)
    <3>1. CASE i = 1
      BY <1>2, <3>1
    <3>2. CASE i # 1
      <4>1. i - 1 \in 1..Len(queue') /\ (i - 1) + 1 = i
        BY <1>2, <3>2
      <4> QED BY <1>8, <4>1 DEF Elements
    <3> QED BY <3>1, <3>2
  <2>2. \A i \in 1..Len(queue') : queue'[i] \in Elements(queue)
    BY <1>7, <1>8 DEF Elements
  <2>3. t \in Elements(queue)
    BY <1>2 DEF Elements
  <2> QED BY <2>1, <2>2, <2>3 DEF Elements
<1>10. QueueOK'
  <2>1. \A u \in Tasks :
          state'[u] = "pending" <=> u \in Elements(queue') \/ u \in OnStack(frames')
    BY <1>4, <1>6, <1>9 DEF IInv, QueueOK
  <2>2. ASSUME NEW i \in 1..Len(queue'), NEW j \in 1..Len(queue'), queue'[i] = queue'[j]
        PROVE  i = j
    <3>1. i + 1 = j + 1
      BY <1>7, <1>8, <2>2 DEF IInv, QueueOK
    <3> QED BY <1>2, <3>1
  <2>3. \A i \in 1..Len(queue') : queue'[i] \notin OnStack(frames')
    BY <1>6, <1>8
  <2>4. state' \in [Tasks -> States]
    BY <1>4 DEF IInv, QueueOK
  <2> QED BY <1>2, <2>1, <2>2, <2>3, <2>4 DEF QueueOK
<1>11. OrderOK'
  <2>1. Busy = 0 /\ Busy' = 1 /\ Len(settled) \in Nat
    BY <1>1, <1>6 DEF Busy
  <2>2. Len(order) = Len(settled) + Len(queue)
    BY <1>2, <2>1 DEF IInv, OrderOK
  <2>3. t = order[Len(settled) + 1]
    <3>1. 1 \in 1..Len(queue)
      BY <1>2
    <3>2. queue[1] = order[Len(settled) + Busy + 1]
      BY <3>1 DEF IInv, OrderOK
    <3> QED BY <1>2, <2>1, <3>2
  <2>4. ASSUME NEW i \in 1..Len(queue') PROVE queue'[i] = order'[Len(settled') + Busy' + i]
    <3>1. queue[i + 1] = order[Len(settled) + Busy + (i + 1)]
      BY <1>7 DEF IInv, OrderOK
    <3>2. Len(settled) + Busy + (i + 1) = Len(settled) + Busy' + i
      BY <2>1, <1>2
    <3> QED BY <1>4, <1>8, <3>1, <3>2
  <2>5. Len(order') = Len(settled') + Busy' + Len(queue')
    BY <1>2, <1>4, <2>1, <2>2
  <2>6. \A i \in 1..Len(settled') : settled'[i] = order'[i]
    BY <1>4 DEF IInv, OrderOK
  <2>7. order' \in Seq(Tasks) /\ settled' \in Seq(Tasks)
    BY <1>1, <1>4
  <2> QED BY <1>4, <1>6, <2>3, <2>4, <2>5, <2>6, <2>7 DEF OrderOK
<1> QED BY <1>6, <1>10, <1>11 DEF t

(* processOneMicrotask settles the Task whose body has returned. *)
LEMMA FinishOK ==
  ASSUME IInv, FinishMicrotask
  PROVE  /\ StackOK(frames', draining') /\ QueueOK' /\ OrderOK' /\ ReasonOK'
         /\ OnStack(frames) = {Top.task} /\ Top.task \in Tasks /\ OnStack(frames') = {}
         /\ \E s \in {"resolved", "rejected"} : state' = [state EXCEPT ![Top.task] = s]
<1> DEFINE t == Top.task
<1>1. /\ Top \in Frame /\ Top = frames[Len(frames)]
      /\ Top.phase = "next" /\ Top.kind = "task"
      /\ frames' = SubSeq(frames, 1, Len(frames) - 1) /\ draining' = draining
      /\ settled' = Append(settled, t) /\ UNCHANGED <<queue, order>>
  BY TopFrame DEF IInv, FinishMicrotask, Below, Depth
<1>2. StackOK(frames', draining') /\ OnStack(frames') = {} /\ OnStack(frames) = {t}
  BY <1>1, PoppedOK DEF IInv
<1>3. t \in Tasks
  <2>1. t # None
    BY <1>1 DEF IInv, StackOK
  <2> QED BY <1>1, <2>1 DEF Frame
<1>4. state[t] = "pending" /\ t \notin Elements(queue)
  BY <1>2, <1>3 DEF IInv, QueueOK, Elements
<1>5. \E s \in {"resolved", "rejected"} :
         /\ state' = [state EXCEPT ![t] = s]
         /\ \E why \in Origins \cup {None} :
              /\ reason' = [reason EXCEPT ![t] = why]
              /\ s = "rejected" => why \in Origins
  <2>1. (IF err = None THEN t ELSE err) \in Origins
    BY <1>3 DEF IInv, DataOK, Origins
  <2>2. CASE Top.ret = "value"
    <3>1. state' = [state EXCEPT ![t] = "resolved"] /\ reason' = [reason EXCEPT ![t] = None]
      BY <1>4, <2>2 DEF FinishMicrotask, Settle
    <3> QED BY <3>1
  <2>3. CASE Top.ret # "value"
    <3>1. /\ state' = [state EXCEPT ![t] = "rejected"]
          /\ reason' = [reason EXCEPT ![t] = IF err = None THEN t ELSE err]
      BY <1>4, <2>3 DEF FinishMicrotask, Settle
    <3> QED BY <2>1, <3>1
  <2> QED BY <2>2, <2>3
<1> HIDE DEF t
<1>6. PICK s \in {"resolved", "rejected"} :
         /\ state' = [state EXCEPT ![t] = s]
         /\ \E why \in Origins \cup {None} :
              /\ reason' = [reason EXCEPT ![t] = why]
              /\ s = "rejected" => why \in Origins
  BY <1>5
<1>7. QueueOK'
  <2>1. state' \in [Tasks -> States]
    BY <1>6 DEF IInv, QueueOK, States
  <2>2. \A u \in Tasks :
          state'[u] = "pending" <=> u \in Elements(queue') \/ u \in OnStack(frames')
    BY <1>1, <1>2, <1>3, <1>4, <1>6 DEF IInv, QueueOK
  <2> QED BY <1>1, <1>2, <2>1, <2>2 DEF IInv, QueueOK
<1>8. ReasonOK'
  <2>1. state \in [Tasks -> States] /\ reason \in [Tasks -> Origins \cup {None}]
    BY DEF IInv, QueueOK, ReasonOK
  <2>2. PICK why \in Origins \cup {None} :
           /\ reason' = [reason EXCEPT ![t] = why]
           /\ s = "rejected" => why \in Origins
    BY <1>6
  <2>3. ASSUME NEW u \in Tasks, state'[u] = "rejected" PROVE reason'[u] \in Origins
    <3>1. CASE u = t
      BY <1>6, <2>1, <2>2, <2>3, <3>1
    <3>2. CASE u # t
      <4>1. state[u] = "rejected" /\ reason'[u] = reason[u]
        BY <1>6, <2>1, <2>2, <2>3, <3>2
      <4> QED BY <4>1 DEF IInv, ReasonOK
    <3> QED BY <3>1, <3>2
  <2>4. reason' \in [Tasks -> Origins \cup {None}]
    BY <2>1, <2>2
  <2> QED BY <2>3, <2>4 DEF ReasonOK
<1>9. OrderOK'
  <2>1. order \in Seq(Tasks) /\ settled \in Seq(Tasks) /\ queue \in Seq(Tasks)
    BY DEF IInv, QueueOK, OrderOK
  <2>2. Busy = 1 /\ Busy' = 0
    BY <1>2 DEF Busy
  <2>3. /\ settled' \in Seq(Tasks) /\ Len(settled') = Len(settled) + 1
        /\ settled'[Len(settled) + 1] = t
        /\ \A i \in 1..Len(settled) : settled'[i] = settled[i]
    BY <1>1, <1>3, <2>1
  <2>4. t = order[Len(settled) + 1]
    BY <1>2 DEF IInv, OrderOK
  <2>5. ASSUME NEW i \in 1..Len(settled') PROVE settled'[i] = order'[i]
    <3>1. CASE i \in 1..Len(settled)
      BY <1>1, <2>3, <3>1 DEF IInv, OrderOK
    <3>2. CASE i = Len(settled) + 1
      BY <1>1, <2>3, <2>4, <3>2
    <3>3. i \in 1..Len(settled) \/ i = Len(settled) + 1
      BY <2>1, <2>3
    <3> QED BY <3>1, <3>2, <3>3
  <2>6. Len(order') = Len(settled') + Busy' + Len(queue')
    BY <1>1, <2>1, <2>2, <2>3 DEF IInv, OrderOK
  <2>7. ASSUME NEW i \in 1..Len(queue') PROVE queue'[i] = order'[Len(settled') + Busy' + i]
    <3>1. queue[i] = order[Len(settled) + Busy + i]
      BY <1>1 DEF IInv, OrderOK
    <3>2. Len(settled) + Busy + i = Len(settled') + Busy' + i
      BY <2>1, <2>2, <2>3
    <3> QED BY <1>1, <3>1, <3>2
  <2> QED BY <1>1, <1>2, <2>1, <2>3, <2>5, <2>6, <2>7 DEF OrderOK
<1> QED BY <1>2, <1>3, <1>6, <1>7, <1>8, <1>9 DEF t

-----------------------------------------------------------------------------
(* lastRuntimeError stays, is cleared, is set by the code that executes or *)
(* is delivered by an `await`.                                             *)
ErrStep ==
  /\ err' \in Origins \cup {None} /\ delivered' \in SUBSET Origins
  /\ delivered \subseteq delivered'
  /\ err' \in {err, None, Owner} \cup delivered'

LEMMA DataStep ==
  ASSUME IInv, StackStep, ErrStep,
         refs' \in [Tasks -> Int], globals' \in [Vars -> Tasks \cup {None}]
  PROVE  DataOK'
<1>1. Owner' = Owner
  BY SameOwner DEF IInv
<1>2. ErrorCrossesOnlyByAwait'
  BY <1>1, MicrotasksAssumption
     DEF IInv, DataOK, ErrStep, ErrorCrossesOnlyByAwait, Origins
<1> QED BY <1>2 DEF ErrStep, DataOK

LEMMA SameErr ==
  ASSUME IInv, UNCHANGED <<err, delivered>>
  PROVE  ErrStep
BY DEF IInv, DataOK, ErrStep

(* A step of the stack and of the error slot only. *)
LEMMA Calm ==
  ASSUME IInv, StackStep, ErrStep,
         UNCHANGED <<queue, state, reason, refs, globals, order, settled>>
  PROVE  IInv'
<1>1. QueueOK' /\ OrderOK'
  BY Quiet
<1>2. ReasonOK'
  BY DEF IInv, ReasonOK
<1>3. DataOK'
  BY DataStep DEF IInv, DataOK
<1> QED BY <1>1, <1>2, <1>3 DEF IInv, StackStep

LEMMA BindType ==
  ASSUME NEW counts \in [Tasks -> Int], globals \in [Vars -> Tasks \cup {None}],
         NEW v \in Vars \cup {None}, NEW t \in Tasks
  PROVE  /\ Handover(counts, t, v) \in [Tasks -> Int]
         /\ Bind(v, t) \in [Vars -> Tasks \cup {None}]
<1>1. Bind(v, t) \in [Vars -> Tasks \cup {None}]
  BY DEF Bind
<1>2. Handover(counts, t, v) \in [Tasks -> Int]
  BY DEF Handover
<1> QED BY <1>1, <1>2

LEMMA ScheduleStep ==
  ASSUME IInv, NEW t \in Tasks, NEW v \in Vars \cup {None}, ScheduleLazy(t, v)
  PROVE  IInv'
<1>1. StackStep
  BY StatementStack DEF Statement, IInv
<1>2. QueueOK' /\ OrderOK'
  <2>1. /\ state[t] = "unused" /\ state' = [state EXCEPT ![t] = "pending"]
        /\ queue' = Append(queue, t) /\ order' = Append(order, t) /\ settled' = settled
    BY DEF ScheduleLazy
  <2> QED BY <1>1, <2>1, QueueGrows
<1>3. ReasonOK'
  BY DEF ScheduleLazy, IInv, QueueOK, ReasonOK, States
<1>4. DataOK'
  <2>1. [refs EXCEPT ![t] = 2] \in [Tasks -> Int]
    BY DEF IInv, DataOK
  <2>2. refs' \in [Tasks -> Int] /\ globals' \in [Vars -> Tasks \cup {None}]
    BY <2>1, BindType DEF ScheduleLazy, IInv, DataOK
  <2>3. ErrStep
    BY SameErr DEF ScheduleLazy
  <2> QED BY <1>1, <2>2, <2>3, DataStep
<1> QED BY <1>1, <1>2, <1>3, <1>4 DEF IInv, StackStep

LEMMA ScheduleFailsStep ==
  ASSUME IInv, NEW t \in Tasks, NEW v \in Vars \cup {None}, ScheduleLazyFails(t, v)
  PROVE  IInv'
<1>1. StackStep
  BY StatementStack DEF Statement, IInv
<1>2. QueueOK' /\ OrderOK'
  <2>1. /\ state[t] = "unused" /\ state' = [state EXCEPT ![t] = "rejected"]
        /\ UNCHANGED <<queue, order, settled>>
    BY DEF ScheduleLazyFails, history
  <2> QED BY <1>1, <2>1, QueueRefuses
<1>3. ReasonOK'
  <2>1. Owner \in Origins /\ err \in Origins \cup {None}
    BY OwnerIsOrigin DEF IInv, DataOK
  <2>2. PICK why \in Origins : reason' = [reason EXCEPT ![t] = why]
    BY <2>1 DEF ScheduleLazyFails
  <2>3. state' = [state EXCEPT ![t] = "rejected"]
    BY DEF ScheduleLazyFails
  <2> QED BY <2>2, <2>3 DEF IInv, QueueOK, ReasonOK
<1>4. DataOK'
  <2>1. [refs EXCEPT ![t] = 1] \in [Tasks -> Int]
    BY DEF IInv, DataOK
  <2>2. refs' \in [Tasks -> Int] /\ globals' \in [Vars -> Tasks \cup {None}]
    BY <2>1, BindType DEF ScheduleLazyFails, IInv, DataOK
  <2>3. ErrStep
    BY DEF ScheduleLazyFails, ErrStep, IInv, DataOK, history
  <2> QED BY <1>1, <2>2, <2>3, DataStep
<1> QED BY <1>1, <1>2, <1>3, <1>4 DEF IInv, StackStep

LEMMA StatementStep == IInv /\ Statement => IInv'
<1> SUFFICES ASSUME IInv, Statement PROVE IInv'
  OBVIOUS
<1>1. StackStep /\ Owner \in Origins /\ err \in Origins \cup {None} /\ delivered \in SUBSET Origins
  BY StatementStack, OwnerIsOrigin DEF IInv, DataOK
<1>2. CASE NextStmt \/ BlockStmtEnd \/ StmtEnd \/ ReturnFromCall
  BY <1>1, <1>2, SameErr, Calm
     DEF NextStmt, BlockStmtEnd, StmtEnd, ReturnFromCall, taskVars, history
<1>3. CASE RaiseError \/ SecureClears \/ V2Fail
  <2>1. ErrStep
    BY <1>1, <1>3 DEF RaiseError, SecureClears, V2Fail, ErrStep, history
  <2> QED BY <1>1, <1>3, <2>1, Calm DEF RaiseError, SecureClears, V2Fail, taskVars, history
<1>4. ASSUME NEW body \in Bodies, CallFunction(body) PROVE IInv'
  BY <1>1, <1>4, SameErr, Calm DEF CallFunction, taskVars, history
<1>5. ASSUME NEW r \in {"null", "value"}, ReturnStmt(r) PROVE IInv'
  BY <1>1, <1>5, SameErr, Calm DEF ReturnStmt, taskVars, history
<1> QED BY <1>2, <1>3, <1>4, <1>5, ScheduleStep, ScheduleFailsStep DEF Statement

LEMMA AwaitStep == IInv /\ Await => IInv'
<1> SUFFICES ASSUME IInv, Await PROVE IInv'
  OBVIOUS
<1>1. /\ StackStep /\ Owner \in Origins /\ refs \in [Tasks -> Int]
      /\ globals \in [Vars -> Tasks \cup {None}]
  BY AwaitStack, OwnerIsOrigin DEF IInv, DataOK
<1>2. Top.phase = "await" => Top.op \in Tasks
  BY TopFrame DEF IInv, FrameOK
<1>3. ASSUME ErrStep, refs' \in [Tasks -> Int],
             UNCHANGED <<queue, state, reason, globals, order, settled>>
      PROVE  IInv'
  <2>1. QueueOK' /\ OrderOK'
    BY <1>1, <1>3, Quiet
  <2>2. ReasonOK'
    BY <1>3 DEF IInv, ReasonOK
  <2>3. DataOK'
    BY <1>1, <1>3, DataStep
  <2> QED BY <1>1, <2>1, <2>2, <2>3 DEF IInv, StackStep
<1>9. ASSUME Top.phase = "await", EndAwait PROVE refs' \in [Tasks -> Int]
  <2>1. Top.op \in Tasks /\ refs' = [refs EXCEPT ![Top.op] = @ - 1]
    BY <1>2, <1>9 DEF EndAwait
  <2>2. refs[Top.op] - 1 \in Int
    BY <1>1, <2>1
  <2> QED BY <1>1, <2>1, <2>2
<1>4. ASSUME NEW v \in Vars, BeginAwait(v) PROVE IInv'
  <2>1. refs' \in [Tasks -> Int]
    BY <1>1, <1>4 DEF BeginAwait
  <2> QED BY <1>3, <1>4, <2>1, SameErr DEF BeginAwait, history
<1>5. CASE AwaitPump
  BY <1>1, <1>5, SameErr, Calm DEF AwaitPump, taskVars, history
<1>6. CASE AwaitStalls
  <2>1. ErrStep
    BY <1>1, <1>6 DEF AwaitStalls, ErrStep, IInv, DataOK
  <2>2. refs' \in [Tasks -> Int]
    BY <1>6, <1>9 DEF AwaitStalls
  <2> QED BY <1>3, <1>6, <2>1, <2>2 DEF AwaitStalls, EndAwait
<1>7. CASE AwaitResolved
  <2>1. refs' \in [Tasks -> Int]
    BY <1>7, <1>9 DEF AwaitResolved
  <2> QED BY <1>3, <1>7, <2>1, SameErr DEF AwaitResolved, EndAwait
<1>8. CASE AwaitRejected
  <2>1. reason[Top.op] \in Origins
    BY <1>2, <1>8 DEF AwaitRejected, IInv, ReasonOK
  <2>2. ErrStep
    BY <1>8, <2>1 DEF AwaitRejected, ErrStep, IInv, DataOK
  <2>3. refs' \in [Tasks -> Int]
    BY <1>8, <1>9 DEF AwaitRejected
  <2> QED BY <1>3, <1>8, <2>2, <2>3 DEF AwaitRejected, EndAwait
<1> QED BY <1>4, <1>5, <1>6, <1>7, <1>8 DEF Await

LEMMA DrainStep == IInv /\ Drain => IInv'
<1> SUFFICES ASSUME IInv, Drain PROVE IInv'
  OBVIOUS
<1>1. CASE DrainEnd
  <2>1. StackStep
    BY <1>1, DrainEndStack DEF IInv
  <2> QED BY <1>1, <2>1, SameErr, Calm DEF DrainEnd, taskVars, history
<1>2. ASSUME NEW body \in Bodies, TakeMicrotask(body) PROVE IInv'
  <2>1. /\ StackOK(frames', draining') /\ QueueOK' /\ OrderOK'
        /\ OnStack(frames) = {} /\ OnStack(frames') = {Head(queue)}
    BY <1>2, TakeOK
  <2>2. Owner = Module
    BY <2>1, OwnerOnStack DEF IInv, OwnerOK
  <2>3. ReasonOK'
    BY <1>2 DEF TakeMicrotask, taskVars, IInv, ReasonOK
  <2>4. ErrorCrossesOnlyByAwait'
    BY <1>2, <2>2, MicrotasksAssumption
       DEF TakeMicrotask, history, IInv, DataOK, ErrorCrossesOnlyByAwait
  <2>5. DataOK'
    BY <1>2, <2>4 DEF TakeMicrotask, taskVars, history, IInv, DataOK
  <2> QED BY <2>1, <2>3, <2>5 DEF IInv
<1>3. CASE FinishMicrotask
  <2>1. /\ StackOK(frames', draining') /\ QueueOK' /\ OrderOK' /\ ReasonOK'
        /\ Top.task \in Tasks
    BY <1>3, FinishOK
  <2>2. ErrorCrossesOnlyByAwait'
    BY <1>3, MicrotasksAssumption DEF FinishMicrotask, ErrorCrossesOnlyByAwait
  <2>3. refs' \in [Tasks -> Int] /\ globals' \in [Vars -> Tasks \cup {None}]
    BY <1>3, <2>1 DEF FinishMicrotask, IInv, DataOK
  <2>4. DataOK'
    BY <1>3, <2>2, <2>3 DEF FinishMicrotask, IInv, DataOK
  <2> QED BY <2>1, <2>4 DEF IInv
<1> QED BY <1>1, <1>2, <1>3 DEF Drain

LEMMA EpilogueStep == IInv /\ (ModuleEnd \/ ClearScope) => IInv'
<1> SUFFICES ASSUME IInv, ModuleEnd \/ ClearScope PROVE IInv'
  OBVIOUS
<1>1. StackStep
  BY EpilogueStack DEF IInv
<1>2. CASE ModuleEnd
  BY <1>1, <1>2, SameErr, Calm DEF ModuleEnd, taskVars, history
<1>3. CASE ClearScope
  <2>1. ASSUME NEW t \in Tasks PROVE Cardinality({v \in Vars : globals[v] = t}) \in Nat
    <3>1. IsFiniteSet({v \in Vars : globals[v] = t})
      BY MicrotasksAssumption, FS_Subset DEF MicrotasksAssumption
    <3> QED BY <3>1, FS_CardinalityType
  <2>2. refs' \in [Tasks -> Int] /\ globals' \in [Vars -> Tasks \cup {None}]
    BY <1>3, <2>1 DEF ClearScope, IInv, DataOK
  <2>3. QueueOK' /\ OrderOK'
    BY <1>1, <1>3, Quiet DEF ClearScope, history
  <2>4. ReasonOK'
    BY <1>3 DEF ClearScope, IInv, ReasonOK
  <2>5. DataOK'
    BY <1>1, <1>3, <2>2, SameErr, DataStep DEF ClearScope, history
  <2> QED BY <1>1, <2>3, <2>4, <2>5 DEF IInv, StackStep
<1> QED BY <1>2, <1>3

(* Every step of the interpreter keeps the inductive invariant. *)
LEMMA StepOK == IInv /\ [Next]_vars => IInv'
<1> SUFFICES ASSUME IInv, [Next]_vars PROVE IInv'
  OBVIOUS
<1>1. CASE UNCHANGED vars
  <2>1. UNCHANGED <<frames, queue, draining, err, state, reason, refs, globals,
                    order, settled, delivered>>
    BY <1>1 DEF vars
  <2>2. StackStep /\ ErrStep
    BY <2>1, SameErr DEF StackStep, IInv
  <2> QED BY <2>1, <2>2, Calm
<1>2. CASE Terminated
  BY <1>1, <1>2 DEF Terminated
<1> QED BY <1>1, <1>2, StatementStep, AwaitStep, DrainStep, EpilogueStep DEF Next

LEMMA Inductive == Spec => []IInv
BY InitOK, StepOK, PTL DEF Spec

-----------------------------------------------------------------------------
(* Every variable keeps its type: no step takes Head of an empty queue,    *)
(* awaits something that is not a Task or delivers an error nobody raised. *)
THEOREM TypeCorrect == Spec => []TypeOK
<1>1. IInv => TypeOK
  <2> SUFFICES ASSUME IInv PROVE TypeOK
    OBVIOUS
  <2>1. frames \in Seq(Frame) /\ frames # <<>> /\ draining \in BOOLEAN
    BY DEF IInv, StackOK
  <2> QED BY <2>1 DEF IInv, QueueOK, OrderOK, ReasonOK, DataOK, TypeOK
<1> QED BY <1>1, Inductive, PTL

(* isDrainingMicrotasks keeps two lazy bodies from being on the C++ stack  *)
(* together, however deep calls, blocks and awaits nest.                   *)
THEOREM OneTask == Spec => []OneTaskAtATime
<1>1. IInv => OneTaskAtATime
  <2> SUFFICES ASSUME IInv, NEW i \in 1..Depth, NEW j \in 1..Depth,
                      frames[i].kind = "task", frames[j].kind = "task"
               PROVE  i = j
    BY DEF OneTaskAtATime
  <2>1. StackOK(frames, draining) /\ Depth = Len(frames) /\ Depth \in Nat
    BY DEF IInv, StackOK, Depth
  <2>2. i \in 2..Depth /\ j \in 2..Depth /\ i - 1 \in 1..Depth /\ j - 1 \in 1..Depth
    BY <2>1 DEF StackOK
  <2>3. frames[i - 1].phase = "drain" /\ frames[j - 1].phase = "drain"
    BY <2>1, <2>2 DEF StackOK
  <2>4. i - 1 = j - 1
    BY <2>1, <2>2, <2>3 DEF StackOK
  <2> QED BY <2>2, <2>4
<1> QED BY <1>1, Inductive, PTL

(* processOneMicrotask and scheduleLazyCall lose no call and run none      *)
(* twice: the pending Tasks are those the queue or the stack will settle.  *)
THEOREM PendingOwned == Spec => []PendingIsOwned
<1>1. IInv => PendingIsOwned
  <2> SUFFICES ASSUME IInv PROVE PendingIsOwned
    OBVIOUS
  <2>1. OnStack(frames) = Running /\ OnStack(frames) \subseteq Tasks
    BY OwnerOnStack DEF IInv, OwnerOK
  <2>2. Elements(queue) \subseteq Tasks
    BY DEF IInv, QueueOK, Elements
  <2> QED BY <2>1, <2>2 DEF IInv, QueueOK, PendingIsOwned
<1> QED BY <1>1, Inductive, PTL

(* The microtask queue is first in, first out, end to end: Tasks settle in *)
(* the order their calls were queued.                                      *)
THEOREM InOrder == Spec => []SettledInOrder
<1>1. IInv => SettledInOrder
  <2> SUFFICES ASSUME IInv, NEW i \in 1..Len(settled)
               PROVE  i <= Len(order) /\ settled[i] = order[i]
    BY DEF SettledInOrder
  <2>1. /\ Len(order) = Len(settled) + Busy + Len(queue) /\ Busy \in {0, 1}
        /\ Len(settled) \in Nat /\ Len(queue) \in Nat /\ settled[i] = order[i]
    BY DEF IInv, QueueOK, OrderOK, Busy
  <2> QED BY <2>1
<1> QED BY <1>1, Inductive, PTL

(* "await stalled" is never reported to code that runs outside a drain:    *)
(* what it awaits is queued as long as it is pending.                      *)
THEOREM StallUnderDrain == Spec => []StallOnlyUnderDrain
<1>1. IInv => StallOnlyUnderDrain
  <2> SUFFICES ASSUME IInv, Top.phase = "await", state[Top.op] = "pending",
                      queue = <<>>, ~draining
               PROVE  FALSE
    BY DEF StallOnlyUnderDrain, IInv, StackOK
  <2>1. Top.op \in Tasks
    BY TopFrame DEF IInv, FrameOK
  <2>2. Elements(queue) = {}
    BY DEF Elements
  <2>3. Top.op \in OnStack(frames)
    BY <2>1, <2>2 DEF IInv, QueueOK
  <2>4. PICK i \in 1..Len(frames) : frames[i].kind = "task"
    BY <2>3 DEF OnStack
  <2>5. i \in 2..Len(frames) /\ i - 1 \in 1..Len(frames)
    BY <2>4 DEF IInv, StackOK
  <2>6. frames[i - 1].phase = "drain"
    BY <2>4, <2>5 DEF IInv, StackOK
  <2> QED BY <2>5, <2>6 DEF IInv, StackOK
<1> QED BY <1>1, Inductive, PTL

(* The shared lastRuntimeError carries an error of a lazy body to other    *)
(* code only by way of an `await` of that Task.                            *)
THEOREM ErrorsStayWithTheirTask == Spec => []ErrorCrossesOnlyByAwait
<1>1. IInv => ErrorCrossesOnlyByAwait
  BY DEF IInv, DataOK
<1> QED BY <1>1, Inductive, PTL

-----------------------------------------------------------------------------
(* The call whose body is being run, as the abstract executor sees it. *)
Active == IF TaskFrames = {} THEN None ELSE Owner

LEMMA ActiveOnStack ==
  StackOK(frames, draining) =>
    /\ OnStack(frames) = {} => Active = None
    /\ \A t : OnStack(frames) = {t} => Active = t
BY OwnerOnStack DEF OwnerOK, Active

LEMMA SameActive ==
  ASSUME StackOK(frames, draining), StackStep
  PROVE  Active' = Active
<1>1. OwnerOK /\ (StackOK(frames, draining) => OwnerOK)'
  BY OwnerOnStack, PTL
<1>2. OwnerOK'
  BY <1>1 DEF StackStep
<1>3. Owner' = Owner
  BY SameOwner
<1>4. TaskFrames' = {} <=> TaskFrames = {}
  BY <1>1, <1>2 DEF OwnerOK, StackStep
<1> QED BY <1>3, <1>4 DEF Active

(* Every step of the interpreter is a step of the executor or none. *)
LEMMA ExecutorStep == IInv /\ [Next]_vars => [Executor!Next]_(Executor!avars)
<1> SUFFICES ASSUME IInv, [Next]_vars
             PROVE  [Executor!Next]_(Executor!avars)
  OBVIOUS
<1> DEFINE Goal == Executor!Next \/ UNCHANGED <<queue, Active, state>>
<1>1. SUFFICES Goal
  BY DEF Executor!avars, Active
<1>2. StackOK(frames, draining) /\ globals \in [Vars -> Tasks \cup {None}]
  BY DEF IInv, DataOK
<1>3. ASSUME StackStep, UNCHANGED <<queue, state>> PROVE Goal
  BY <1>2, <1>3, SameActive
<1>4. CASE UNCHANGED vars \/ Terminated
  <2>1. UNCHANGED <<frames, draining, queue, state>>
    BY <1>4 DEF vars, Terminated
  <2> QED BY <1>2, <1>3, <2>1 DEF StackStep
<1>5. CASE Statement
  <2>1. StackStep /\ Active' = Active
    BY <1>2, <1>5, StatementStack, SameActive
  <2>2. CASE \E t \in Tasks, v \in Vars \cup {None} : ScheduleLazy(t, v)
    <3>1. PICK t \in Tasks, v \in Vars \cup {None} : ScheduleLazy(t, v)
      BY <2>2
    <3>2. Executor!Submit(t)
      BY <2>1, <3>1 DEF ScheduleLazy, Executor!Submit, Active
    <3> QED BY <3>2 DEF Executor!Next
  <2>3. CASE \E t \in Tasks, v \in Vars \cup {None} : ScheduleLazyFails(t, v)
    <3>1. PICK t \in Tasks, v \in Vars \cup {None} : ScheduleLazyFails(t, v)
      BY <2>3
    <3>2. Executor!Refuse(t)
      BY <2>1, <3>1 DEF ScheduleLazyFails, Executor!Refuse, Active
    <3> QED BY <3>2 DEF Executor!Next
  <2> QED BY <1>3, <1>5, <2>1, <2>2, <2>3
          DEF Statement, NextStmt, RaiseError, SecureClears, BlockStmtEnd, StmtEnd,
              V2Fail, ReturnFromCall, CallFunction, ReturnStmt, taskVars
<1>6. CASE Await
  <2>1. StackStep
    BY <1>2, <1>6, AwaitStack
  <2> QED BY <1>3, <1>6, <2>1 DEF Await, BeginAwait, AwaitPump, AwaitStalls,
             AwaitResolved, AwaitRejected, EndAwait, taskVars
<1>7. CASE DrainEnd \/ ModuleEnd \/ ClearScope
  <2>1. StackStep
    BY <1>2, <1>7, DrainEndStack, EpilogueStack
  <2> QED BY <1>3, <1>7, <2>1 DEF DrainEnd, ModuleEnd, ClearScope, taskVars
<1>8. ASSUME NEW body \in Bodies, TakeMicrotask(body) PROVE Goal
  <2>1. /\ StackOK(frames', draining')
        /\ OnStack(frames) = {} /\ OnStack(frames') = {Head(queue)}
    BY <1>8, TakeOK
  <2>2. (StackOK(frames, draining) =>
           \A t : OnStack(frames) = {t} => Active = t)'
    BY ActiveOnStack, PTL
  <2>3. Active = None /\ Active' = Head(queue)
    BY <1>2, <2>1, <2>2, ActiveOnStack
  <2>4. Executor!Start
    BY <1>8, <2>3 DEF TakeMicrotask, taskVars, Executor!Start, Active
  <2> QED BY <2>4 DEF Executor!Next
<1>9. CASE FinishMicrotask
  <2>1. /\ StackOK(frames', draining')
        /\ OnStack(frames) = {Top.task} /\ Top.task \in Tasks /\ OnStack(frames') = {}
        /\ \E s \in {"resolved", "rejected"} : state' = [state EXCEPT ![Top.task] = s]
    BY <1>9, FinishOK
  <2>2. (StackOK(frames, draining) => (OnStack(frames) = {} => Active = None))'
    BY ActiveOnStack, PTL
  <2>3. Active = Top.task /\ Active' = None /\ Top.task # None
    BY <1>2, <2>1, <2>2, ActiveOnStack, MicrotasksAssumption
  <2>4. Executor!Complete
    BY <1>9, <2>1, <2>3 DEF FinishMicrotask, Executor!Complete, Active
  <2> QED BY <2>4 DEF Executor!Next
<1> QED BY <1>4, <1>5, <1>6, <1>7, <1>8, <1>9 DEF Next, Drain

(* The interpreter keeps the promise of LazyExecutor: one call at a time,  *)
(* each to its end, oldest first, every outcome final.                     *)
THEOREM Refinement == Spec => ImplementsExecutor
<1>1. Init => Executor!Init
  <2> SUFFICES ASSUME Init PROVE Executor!Init
    OBVIOUS
  <2>1. OnStack(frames) = {} /\ StackOK(frames, draining)
    <3>1. /\ frames = <<NewFrame("module", "V1", None)>>
          /\ NewFrame("module", "V1", None).kind = "module"
      BY DEF Init, NewFrame
    <3>2. OnStack(frames) = {}
      BY <3>1 DEF OnStack
    <3> QED BY <3>2, InitOK DEF IInv
  <2>2. Active = None
    BY <2>1, ActiveOnStack
  <2> QED BY <2>2 DEF Init, Executor!Init, Active
<1> QED BY <1>1, Inductive, ExecutorStep, PTL DEF Spec, ImplementsExecutor, Executor!Spec
-----------------------------------------------------------------------------
(* Reference counts.  Every holder of a reference is a place: a variable,  *)
(* a place in the queue, a frame that runs the task, a frame that awaits   *)
(* it.  A step that touches one place moves one reference.                 *)
One(x, t) == IF x = t THEN 1 ELSE 0

InVars(g, t)  == Cardinality({v \in Vars : g[v] = t})
InQueue(q, t) == Cardinality({i \in 1..Len(q) : q[i] = t})
AsTask(fs, t) == Cardinality({i \in 1..Len(fs) : fs[i].task = t})
AsOp(fs, t)   == Cardinality({i \in 1..Len(fs) : fs[i].op = t})

(* An operand is held from the start of an `await` to its end; only the    *)
(* module's frame is on its way out of exec.                               *)
Ends == {"cleanup", "done"}
HolderOK(f) ==
  /\ f.op # None => f.phase = "await" \/ (f.phase = "drain" /\ f.then = "await")
  /\ (f.phase \in Ends \/ (f.phase = "drain" /\ f.then \in Ends)) => f.kind = "module"
  /\ f.phase = "drain" => f.then # "done"

(* No unused Task is held, exec ends with an empty queue, and it has       *)
(* cleared the variables when it returns.                                  *)
RInv ==
  /\ RefsBalanced
  /\ \A i \in 1..Len(frames) :
       HolderOK(frames[i]) /\ (frames[i].op # None => state[frames[i].op] # "unused")
  /\ \A v \in Vars : globals[v] # None => state[globals[v]] # "unused"
  /\ frames[Len(frames)].phase \in Ends => queue = <<>>
  /\ frames[Len(frames)].phase = "done" => \A v \in Vars : globals[v] = None

LEMMA Balance ==
  /\ RefsBalanced <=>
       \A t \in Tasks :
         refs[t] = InVars(globals, t) + InQueue(queue, t) + AsTask(frames, t) + AsOp(frames, t)
  /\ RefsBalanced' <=>
       \A t \in Tasks :
         refs'[t] = InVars(globals', t) + InQueue(queue', t) + AsTask(frames', t) + AsOp(frames', t)
BY DEF RefsBalanced, InVars, InQueue, AsTask, AsOp, Depth
-----------------------------------------------------------------------------
(* Counting places.                                                        *)
Joins(T, S, n, x, t) == T = IF x = t THEN S \cup {n} ELSE S

LEMMA OneMore ==
  ASSUME NEW S, IsFiniteSet(S), NEW n, n \notin S, NEW x, NEW t, NEW T,
         Joins(T, S, n, x, t)
  PROVE  /\ IsFiniteSet(T) /\ Cardinality(S) \in Nat
         /\ Cardinality(T) = Cardinality(S) + One(x, t)
<1>1. Cardinality(S) \in Nat
  BY FS_CardinalityType
<1>2. CASE x = t
  BY <1>1, <1>2, FS_AddElement DEF One, Joins
<1>3. CASE x # t
  BY <1>1, <1>3 DEF One, Joins
<1> QED
  BY <1>2, <1>3, <1>1

LEMMA FewPlaces ==
  ASSUME NEW n \in Nat, NEW S, S \subseteq 1..n
  PROVE  IsFiniteSet(S) /\ Cardinality(S) \in Nat
<1>1. IsFiniteSet(1..n)
  BY FS_Interval
<1>2. IsFiniteSet(S)
  BY <1>1, FS_Subset
<1> QED
  BY <1>2, FS_CardinalityType

LEMMA LastPlace ==
  ASSUME NEW n \in Nat \ {0}, NEW S, NEW T, NEW x, NEW t,
         S \subseteq 1..(n - 1), Joins(T, S, n, x, t)
  PROVE  Cardinality(T) = Cardinality(S) + One(x, t) /\ Cardinality(S) \in Nat
<1>1. n - 1 \in Nat /\ n \notin S
  OBVIOUS
<1>2. IsFiniteSet(S) /\ Cardinality(S) \in Nat
  BY <1>1, FewPlaces
<1> QED
  BY <1>1, <1>2, OneMore

(* The frames below the top, and the top.                                  *)
TasksBelow(fs, n, t) == Cardinality({i \in 1..(n - 1) : fs[i].task = t})
OpsBelow(fs, n, t)   == Cardinality({i \in 1..(n - 1) : fs[i].op = t})

LEMMA CountTop ==
  ASSUME NEW fs, Len(fs) \in Nat \ {0}, NEW t
  PROVE  /\ AsTask(fs, t) = TasksBelow(fs, Len(fs), t) + One(fs[Len(fs)].task, t)
         /\ AsOp(fs, t) = OpsBelow(fs, Len(fs), t) + One(fs[Len(fs)].op, t)
         /\ TasksBelow(fs, Len(fs), t) \in Nat /\ OpsBelow(fs, Len(fs), t) \in Nat
<1> DEFINE n == Len(fs)
           S == {i \in 1..(n - 1) : fs[i].task = t}
           T == {i \in 1..n : fs[i].task = t}
           U == {i \in 1..(n - 1) : fs[i].op = t}
           V == {i \in 1..n : fs[i].op = t}
<1>1. /\ n \in Nat \ {0} /\ S \subseteq 1..(n - 1) /\ U \subseteq 1..(n - 1)
      /\ Joins(T, S, n, fs[n].task, t) /\ Joins(V, U, n, fs[n].op, t)
  BY DEF Joins
<1>2. /\ AsTask(fs, t) = Cardinality(T) /\ TasksBelow(fs, Len(fs), t) = Cardinality(S)
      /\ AsOp(fs, t) = Cardinality(V) /\ OpsBelow(fs, Len(fs), t) = Cardinality(U)
  BY DEF AsTask, AsOp, TasksBelow, OpsBelow
<1> HIDE DEF n, S, T, U, V
<1>3. Cardinality(T) = Cardinality(S) + One(fs[n].task, t) /\ Cardinality(S) \in Nat
  BY <1>1, LastPlace
<1>4. Cardinality(V) = Cardinality(U) + One(fs[n].op, t) /\ Cardinality(U) \in Nat
  BY <1>1, LastPlace
<1> QED
  BY <1>2, <1>3, <1>4 DEF n

LEMMA CountBelow ==
  ASSUME NEW fs, NEW gs, NEW n, NEW t, \A i \in 1..(n - 1) : gs[i] = fs[i]
  PROVE  TasksBelow(gs, n, t) = TasksBelow(fs, n, t) /\ OpsBelow(gs, n, t) = OpsBelow(fs, n, t)
<1>1. /\ {i \in 1..(n - 1) : gs[i].task = t} = {i \in 1..(n - 1) : fs[i].task = t}
      /\ {i \in 1..(n - 1) : gs[i].op = t} = {i \in 1..(n - 1) : fs[i].op = t}
  OBVIOUS
<1> QED
  BY <1>1 DEF TasksBelow, OpsBelow

(* The frames below a pushed one are the frames there were.                *)
LEMMA CountAll ==
  ASSUME NEW fs, Len(fs) \in Nat, NEW t
  PROVE  /\ TasksBelow(fs, Len(fs) + 1, t) = AsTask(fs, t)
         /\ OpsBelow(fs, Len(fs) + 1, t) = AsOp(fs, t)
         /\ AsTask(fs, t) \in Nat /\ AsOp(fs, t) \in Nat
<1>1. (Len(fs) + 1) - 1 = Len(fs)
  OBVIOUS
<1>2. /\ TasksBelow(fs, Len(fs) + 1, t) = AsTask(fs, t)
      /\ OpsBelow(fs, Len(fs) + 1, t) = AsOp(fs, t)
  BY <1>1 DEF TasksBelow, OpsBelow, AsTask, AsOp
<1>3. /\ {i \in 1..Len(fs) : fs[i].task = t} \subseteq 1..Len(fs)
      /\ {i \in 1..Len(fs) : fs[i].op = t} \subseteq 1..Len(fs)
  OBVIOUS
<1>4. AsTask(fs, t) \in Nat /\ AsOp(fs, t) \in Nat
  BY <1>3, FewPlaces DEF AsTask, AsOp
<1> QED
  BY <1>2, <1>4

(* A frame replaced, pushed or popped.                                     *)
LEMMA CountReplaced ==
  ASSUME NEW fs, Len(fs) \in Nat \ {0}, NEW gs, Len(gs) = Len(fs),
         \A i \in 1..Len(fs) : i # Len(fs) => gs[i] = fs[i], NEW t
  PROVE  /\ AsTask(gs, t) + One(fs[Len(fs)].task, t) = AsTask(fs, t) + One(gs[Len(fs)].task, t)
         /\ AsOp(gs, t) + One(fs[Len(fs)].op, t) = AsOp(fs, t) + One(gs[Len(fs)].op, t)
         /\ AsTask(gs, t) \in Nat /\ AsOp(gs, t) \in Nat
<1>1. \A i \in 1..(Len(fs) - 1) : gs[i] = fs[i]
  OBVIOUS
<1>2. TasksBelow(gs, Len(fs), t) = TasksBelow(fs, Len(fs), t)
      /\ OpsBelow(gs, Len(fs), t) = OpsBelow(fs, Len(fs), t)
  BY <1>1, CountBelow
<1>3. \A x, y : One(x, y) \in Nat
  BY DEF One
<1>4. /\ AsTask(fs, t) = TasksBelow(fs, Len(fs), t) + One(fs[Len(fs)].task, t)
      /\ AsOp(fs, t) = OpsBelow(fs, Len(fs), t) + One(fs[Len(fs)].op, t)
      /\ TasksBelow(fs, Len(fs), t) \in Nat /\ OpsBelow(fs, Len(fs), t) \in Nat
  BY CountTop
<1>5. /\ AsTask(gs, t) = TasksBelow(gs, Len(fs), t) + One(gs[Len(fs)].task, t)
      /\ AsOp(gs, t) = OpsBelow(gs, Len(fs), t) + One(gs[Len(fs)].op, t)
  BY CountTop
<1> QED
  BY <1>2, <1>3, <1>4, <1>5

LEMMA CountPushed ==
  ASSUME NEW fs, Len(fs) \in Nat, NEW gs, Len(gs) = Len(fs) + 1,
         \A i \in 1..Len(fs) : gs[i] = fs[i], NEW t
  PROVE  /\ AsTask(gs, t) = AsTask(fs, t) + One(gs[Len(gs)].task, t)
         /\ AsOp(gs, t) = AsOp(fs, t) + One(gs[Len(gs)].op, t)
         /\ AsTask(fs, t) \in Nat /\ AsOp(fs, t) \in Nat
<1>1. Len(gs) \in Nat \ {0} /\ \A i \in 1..(Len(gs) - 1) : gs[i] = fs[i]
  OBVIOUS
<1>2. TasksBelow(gs, Len(gs), t) = TasksBelow(fs, Len(gs), t)
      /\ OpsBelow(gs, Len(gs), t) = OpsBelow(fs, Len(gs), t)
  BY <1>1, CountBelow
<1>3. /\ AsTask(gs, t) = TasksBelow(gs, Len(gs), t) + One(gs[Len(gs)].task, t)
      /\ AsOp(gs, t) = OpsBelow(gs, Len(gs), t) + One(gs[Len(gs)].op, t)
  BY <1>1, CountTop
<1>4. /\ TasksBelow(fs, Len(fs) + 1, t) = AsTask(fs, t)
      /\ OpsBelow(fs, Len(fs) + 1, t) = AsOp(fs, t)
      /\ AsTask(fs, t) \in Nat /\ AsOp(fs, t) \in Nat
  BY CountAll
<1> QED
  BY <1>2, <1>3, <1>4

(* The queue.                                                              *)
LEMMA CountQueued ==
  ASSUME NEW q, Len(q) \in Nat, NEW p, Len(p) = Len(q) + 1,
         \A i \in 1..Len(q) : p[i] = q[i], NEW t
  PROVE  InQueue(p, t) = InQueue(q, t) + One(p[Len(p)], t) /\ InQueue(q, t) \in Nat
<1> DEFINE n == Len(p)
           S == {i \in 1..Len(q) : q[i] = t}
           T == {i \in 1..n : p[i] = t}
<1>1. /\ n \in Nat \ {0} /\ S \subseteq 1..(n - 1)
      /\ Joins(T, S, n, p[n], t)
  BY DEF Joins
<1>2. InQueue(p, t) = Cardinality(T) /\ InQueue(q, t) = Cardinality(S)
  BY DEF InQueue
<1> HIDE DEF n, S, T
<1>3. Cardinality(T) = Cardinality(S) + One(p[n], t) /\ Cardinality(S) \in Nat
  BY <1>1, LastPlace
<1> QED
  BY <1>2, <1>3 DEF n

LEMMA CountTaken ==
  ASSUME NEW q, Len(q) \in Nat \ {0}, NEW p, Len(p) = Len(q) - 1,
         \A i \in 1..(Len(q) - 1) : p[i] = q[i + 1], NEW t
  PROVE  InQueue(q, t) = InQueue(p, t) + One(q[1], t) /\ InQueue(p, t) \in Nat
<1> DEFINE n == Len(q)
           S == {i \in 1..(n - 1) : p[i] = t}
           U == {i \in 2..n : q[i] = t}
           T == {i \in 1..n : q[i] = t}
           f == [i \in S |-> i + 1]
<1>1. /\ n \in Nat \ {0} /\ n - 1 \in Nat /\ S \subseteq 1..(n - 1) /\ U \subseteq 1..n
      /\ 1 \notin U
      /\ Joins(T, U, 1, q[1], t)
  BY DEF Joins
<1>2. InQueue(q, t) = Cardinality(T) /\ InQueue(p, t) = Cardinality(S)
  BY DEF InQueue
<1>3. f \in Bijection(S, U)
  <2>1. \A i \in S : i \in Nat /\ i + 1 \in 2..n /\ q[i + 1] = t
    OBVIOUS
  <2>2. \A j \in U : j - 1 \in S /\ (j - 1) + 1 = j
    OBVIOUS
  <2>3. f \in [S -> U] /\ \A i \in S : f[i] = i + 1
    BY <2>1
  <2> HIDE DEF f, S, U
  <2>4. \A i, j \in S : f[i] = f[j] => i = j
    BY <2>1, <2>3
  <2>5. \A j \in U : \E i \in S : f[i] = j
    BY <2>2, <2>3
  <2> QED
    BY <2>3, <2>4, <2>5 DEF Bijection, Injection, Surjection, IsInjective
<1> HIDE DEF n, S, T, U, f
<1>4. IsFiniteSet(S) /\ Cardinality(S) \in Nat /\ IsFiniteSet(U)
  BY <1>1, FewPlaces
<1>5. Cardinality(U) = Cardinality(S)
  BY <1>3, <1>4, FS_Bijection DEF ExistsBijection
<1>6. Cardinality(T) = Cardinality(U) + One(q[1], t)
  BY <1>1, <1>4, OneMore
<1> QED
  BY <1>2, <1>4, <1>5, <1>6
-----------------------------------------------------------------------------
(* A step that only turns the top frame into f.                            *)
Turned(f) ==
  /\ Len(frames') = Len(frames) /\ frames'[Len(frames)] = f
  /\ \A i \in 1..Len(frames) : i # Len(frames) => frames'[i] = frames[i]

(* A Task in use stays in use.                                             *)
InUse == \A t \in Tasks : state[t] # "unused" => state'[t] # "unused"

LEMMA TopFacts ==
  ASSUME IInv
  PROVE  /\ Len(frames) \in Nat \ {0} /\ Depth = Len(frames)
         /\ Top = frames[Len(frames)] /\ Top \in Frame /\ FrameOK(Top)
         /\ Len(frames) \in 1..Len(frames)
         /\ \A i \in 1..Len(frames) : frames[i] \in Frame
BY TopFrame DEF IInv, StackOK, Depth

LEMMA TurnedTop ==
  ASSUME IInv, NEW f \in Frame, frames' = WithTop(f)
  PROVE  Turned(f)
BY TopFacts, Replaced DEF IInv, StackOK, WithTop, Turned

(* What ProcessMicrotasks makes of the top frame.                          *)
Processed(g, f, resume) ==
  /\ g \in Frame /\ g.op = f.op /\ g.task = f.task /\ g.kind = f.kind
  /\ (draining /\ g.phase = resume) \/ (~draining /\ g.phase = "drain" /\ g.then = resume)

LEMMA TurnedProcess ==
  ASSUME IInv, NEW f \in Frame, NEW resume \in Phases, ProcessMicrotasks(f, resume)
  PROVE  \E g : Turned(g) /\ Processed(g, f, resume)
<1>1. CASE draining
  <2> DEFINE g == [f EXCEPT !.phase = resume]
  <2>1. /\ g \in Frame /\ g.kind = f.kind /\ g.task = f.task /\ g.phase = resume /\ g.op = f.op
        /\ frames' = WithTop(g)
    BY <1>1 DEF Frame, ProcessMicrotasks
  <2> HIDE DEF g
  <2> QED
    BY <1>1, <2>1, TurnedTop DEF Processed
<1>2. CASE ~draining
  <2> DEFINE g == [f EXCEPT !.phase = "drain", !.then = resume]
  <2>1. /\ g \in Frame /\ g.kind = f.kind /\ g.task = f.task /\ g.op = f.op
        /\ g.phase = "drain" /\ g.then = resume /\ frames' = WithTop(g)
    BY <1>2 DEF Frame, Phases, ProcessMicrotasks
  <2> HIDE DEF g
  <2> QED
    BY <1>2, <2>1, TurnedTop DEF Processed
<1> QED
  BY <1>1, <1>2

LEMMA TurnedCounts ==
  ASSUME IInv, NEW f, Turned(f), f.task = Top.task, NEW t
  PROVE  /\ AsTask(frames', t) = AsTask(frames, t) /\ AsTask(frames, t) \in Nat
         /\ AsOp(frames', t) + One(Top.op, t) = AsOp(frames, t) + One(f.op, t)
         /\ AsOp(frames', t) \in Nat /\ AsOp(frames, t) \in Nat
<1>1. /\ AsTask(frames', t) + One(frames[Len(frames)].task, t)
           = AsTask(frames, t) + One(frames'[Len(frames)].task, t)
      /\ AsOp(frames', t) + One(frames[Len(frames)].op, t)
           = AsOp(frames, t) + One(frames'[Len(frames)].op, t)
      /\ AsTask(frames', t) \in Nat /\ AsOp(frames', t) \in Nat
  BY TopFacts, CountReplaced DEF Turned
<1>2. AsTask(frames, t) \in Nat /\ AsOp(frames, t) \in Nat
  BY TopFacts, CountAll
<1>3. frames[Len(frames)] = Top /\ frames'[Len(frames)] = f /\ \A x, y : One(x, y) \in Nat
  BY TopFacts DEF Turned, One
<1> QED
  BY <1>1, <1>2, <1>3

(* What variables and the queue hold is a number.                          *)
LEMMA CountVars ==
  ASSUME NEW g, NEW t
  PROVE  InVars(g, t) \in Nat
<1>1. IsFiniteSet({v \in Vars : g[v] = t})
  BY MicrotasksAssumption, FS_Subset DEF MicrotasksAssumption
<1> QED
  BY <1>1, FS_CardinalityType DEF InVars

LEMMA CountQueue ==
  ASSUME IInv, NEW t
  PROVE  InQueue(queue, t) \in Nat
<1>1. {i \in 1..Len(queue) : queue[i] = t} \subseteq 1..Len(queue) /\ Len(queue) \in Nat
  BY DEF IInv, QueueOK
<1> QED
  BY <1>1, FewPlaces DEF InQueue

LEMMA TurnedHolders ==
  ASSUME IInv, RInv, NEW f, Turned(f), HolderOK(f), InUse,
         f.op # None => state'[f.op] # "unused"
  PROVE  \A i \in 1..Len(frames') :
           HolderOK(frames'[i]) /\ (frames'[i].op # None => state'[frames'[i].op] # "unused")
<1> SUFFICES ASSUME NEW i \in 1..Len(frames)
             PROVE  /\ HolderOK(frames'[i])
                    /\ frames'[i].op # None => state'[frames'[i].op] # "unused"
  BY DEF Turned
<1>1. CASE i = Len(frames)
  BY <1>1 DEF Turned
<1>2. CASE i # Len(frames)
  <2>1. frames'[i] = frames[i] /\ frames[i].op \in Tasks \cup {None}
    BY <1>2, TopFacts DEF Turned, Frame
  <2> QED
    BY <2>1 DEF RInv, InUse
<1> QED
  BY <1>1, <1>2

(* The end of a step: what the new top asks of the queue and of variables. *)
TopOK(f) ==
  /\ f.phase \in Ends => queue' = <<>>
  /\ f.phase = "done" => \A v \in Vars : globals'[v] = None
VarsOK == \A v \in Vars : globals'[v] # None => state'[globals'[v]] # "unused"

LEMMA SameVars ==
  ASSUME IInv, RInv, InUse, globals' = globals
  PROVE  VarsOK
<1> SUFFICES ASSUME NEW v \in Vars, globals[v] # None PROVE state'[globals[v]] # "unused"
  BY DEF VarsOK
<1>1. globals[v] \in Tasks
  BY DEF IInv, DataOK
<1> QED
  BY <1>1 DEF RInv, InUse

(* A step of the top frame that takes up or drops an operand at most.      *)
LEMMA OperandRefs ==
  ASSUME IInv, RInv, NEW f, Turned(f), f.task = Top.task, HolderOK(f), TopOK(f),
         f.op # None => state[f.op] # "unused", UNCHANGED <<globals, queue, state>>,
         \A u \in Tasks : refs'[u] + One(Top.op, u) = refs[u] + One(f.op, u) /\ refs'[u] \in Int
  PROVE  RInv'
<1>1. InUse /\ VarsOK
  BY SameVars DEF InUse
<1>2. f.op # None => state'[f.op] # "unused"
  OBVIOUS
<1>3. \A i \in 1..Len(frames') :
        HolderOK(frames'[i]) /\ (frames'[i].op # None => state'[frames'[i].op] # "unused")
  BY <1>1, <1>2, TurnedHolders
<1>4. RefsBalanced'
  <2> SUFFICES ASSUME NEW t \in Tasks
               PROVE  refs'[t] = InVars(globals', t) + InQueue(queue', t)
                                 + AsTask(frames', t) + AsOp(frames', t)
    BY Balance
  <2>1. refs[t] = InVars(globals, t) + InQueue(queue, t) + AsTask(frames, t) + AsOp(frames, t)
    BY Balance DEF RInv
  <2>2. /\ AsTask(frames', t) = AsTask(frames, t) /\ AsTask(frames, t) \in Nat
        /\ AsOp(frames', t) + One(Top.op, t) = AsOp(frames, t) + One(f.op, t)
        /\ AsOp(frames', t) \in Nat /\ AsOp(frames, t) \in Nat
    BY TurnedCounts
  <2>3. One(Top.op, t) \in Nat /\ One(f.op, t) \in Nat /\ refs[t] \in Int
    BY DEF One, IInv, DataOK
  <2>4. InVars(globals', t) = InVars(globals, t) /\ InQueue(queue', t) = InQueue(queue, t)
    OBVIOUS
  <2>5. InVars(globals, t) + InQueue(queue, t) \in Nat
    BY CountVars, CountQueue
  <2> QED
    BY <2>1, <2>2, <2>3, <2>4, <2>5, CountVars, CountQueue
<1>5. frames'[Len(frames')] = f
  BY DEF Turned
<1> QED
  BY <1>1, <1>3, <1>4, <1>5 DEF RInv, TopOK, VarsOK

(* A step that moves no reference.                                         *)
LEMMA QuietRefs ==
  ASSUME IInv, RInv, NEW f, Turned(f), f.task = Top.task, f.op = Top.op, HolderOK(f),
         TopOK(f), UNCHANGED <<refs, globals, queue, state>>
  PROVE  RInv'
<1>1. \A u \in Tasks : refs'[u] + One(Top.op, u) = refs[u] + One(f.op, u) /\ refs'[u] \in Int
  BY DEF IInv, DataOK
<1>2. Top.op # None => state[Top.op] # "unused"
  BY TopFacts DEF RInv
<1> QED
  BY <1>1, <1>2, OperandRefs
-----------------------------------------------------------------------------
(* The top frame holds an operand only while it awaits.                    *)
LEMMA TopHeld ==
  ASSUME IInv, RInv
  PROVE  /\ HolderOK(Top) /\ Top.op \in Tasks \cup {None} /\ Top.task \in Tasks \cup {None}
         /\ Top.op # None => state[Top.op] # "unused"
         /\ Top.phase \in {"next", "run", "cleanup", "done"} => Top.op = None
<1>1. HolderOK(Top) /\ (Top.op # None => state[Top.op] # "unused")
  BY TopFacts DEF RInv
<1>2. Top.phase \in {"next", "run", "cleanup", "done"} => Top.op = None
  BY <1>1 DEF HolderOK
<1> QED
  BY <1>1, <1>2, TopFacts DEF Frame

(* A call of processMicrotasks moves no reference.                         *)
LEMMA ProcessRefs ==
  ASSUME IInv, RInv, NEW f \in Frame, f.task = Top.task, f.op = Top.op,
         NEW resume \in {"run", "next", "await"}, resume # "await" => f.op = None,
         ProcessMicrotasks(f, resume), UNCHANGED <<refs, globals, queue, state>>
  PROVE  RInv'
<1>1. resume \in Phases
  BY DEF Phases
<1>2. PICK g : Turned(g) /\ Processed(g, f, resume)
  BY <1>1, TurnedProcess
<1>3. g.task = Top.task /\ g.op = Top.op
  BY <1>2 DEF Processed
<1>4. HolderOK(g)
  BY <1>2, <1>3 DEF Processed, HolderOK, Ends
<1>5. TopOK(g)
  BY <1>2 DEF Processed, TopOK, Ends
<1> QED
  BY <1>2, <1>3, <1>4, <1>5, QuietRefs

(* A new top that runs or looks for its next statement.                    *)
LEMMA TurnRefs ==
  ASSUME IInv, RInv, NEW f \in Frame, f.task = Top.task, f.op = Top.op, f.op = None,
         f.phase \in {"run", "next"},
         frames' = WithTop(f), UNCHANGED <<refs, globals, queue, state>>
  PROVE  RInv'
<1>1. Turned(f)
  BY TurnedTop
<1>2. HolderOK(f) /\ TopOK(f)
  BY DEF HolderOK, TopOK, Ends
<1> QED
  BY <1>1, <1>2, QuietRefs

LEMMA QuietStep ==
  ASSUME IInv, RInv,
         \/ NextStmt \/ RaiseError \/ SecureClears \/ BlockStmtEnd \/ StmtEnd \/ V2Fail
         \/ AwaitPump \/ \E r \in {"null", "value"} : ReturnStmt(r)
  PROVE  RInv'
<1>1. /\ Top \in Frame
      /\ Top.left > 0 => /\ Step(Top) \in Frame
                        /\ Step(Top).task = Top.task
                        /\ Step(Top).phase = Top.phase /\ Step(Top).op = Top.op
  BY TopFrame DEF IInv
<1>2. Top.phase \in {"next", "run"} => Top.op = None
  BY TopHeld
<1>3. CASE NextStmt
  <2> DEFINE f == [Step(Top) EXCEPT !.phase = "run"]
  <2>1. f \in Frame /\ f.task = Top.task /\ f.op = Top.op /\ f.phase = "run"
    BY <1>1, <1>3 DEF NextStmt, Frame, Phases
  <2>2. /\ frames' = WithTop(f) /\ Top.op = None
        /\ UNCHANGED <<refs, globals, queue, state>>
    BY <1>2, <1>3 DEF NextStmt, taskVars
  <2> HIDE DEF f
  <2> QED
    BY <2>1, <2>2, TurnRefs
<1>4. CASE RaiseError \/ SecureClears
  <2>1. /\ frames' = WithTop(Step(Top)) /\ Top.phase = "run" /\ Top.left > 0
        /\ UNCHANGED <<refs, globals, queue, state>>
    BY <1>4 DEF RaiseError, SecureClears, MayStep, taskVars
  <2> QED
    BY <1>1, <1>2, <2>1, TurnRefs
<1>5. CASE BlockStmtEnd
  <2>1. /\ ProcessMicrotasks(Step(Top), "run") /\ Top.phase = "run" /\ Top.left > 0
        /\ UNCHANGED <<refs, globals, queue, state>>
    BY <1>5 DEF BlockStmtEnd, MayStep, taskVars
  <2> QED
    BY <1>1, <1>2, <2>1, ProcessRefs
<1>6. CASE StmtEnd
  <2>1. /\ ProcessMicrotasks(Top, "next") /\ Top.phase = "run"
        /\ UNCHANGED <<refs, globals, queue, state>>
    BY <1>6 DEF StmtEnd, taskVars
  <2> QED
    BY <1>1, <1>2, <2>1, ProcessRefs
<1>7. CASE V2Fail
  <2> DEFINE f == [Top EXCEPT !.phase = "next", !.left = 0]
  <2>0. 0 \in 0..MaxOps
    BY MicrotasksAssumption
  <2>1. f \in Frame /\ f.task = Top.task /\ f.op = Top.op /\ f.phase = "next"
    BY <1>1, <2>0 DEF Frame, Phases
  <2>2. /\ frames' = WithTop(f) /\ Top.op = None
        /\ UNCHANGED <<refs, globals, queue, state>>
    BY <1>2, <1>7 DEF V2Fail, taskVars
  <2> HIDE DEF f
  <2> QED
    BY <2>1, <2>2, TurnRefs
<1>8. CASE AwaitPump
  <2>1. ProcessMicrotasks(Top, "await") /\ UNCHANGED <<refs, globals, queue, state>>
    BY <1>8 DEF AwaitPump, taskVars
  <2> QED
    BY <1>1, <2>1, ProcessRefs
<1>9. ASSUME NEW r \in {"null", "value"}, ReturnStmt(r) PROVE RInv'
  <2> DEFINE f == [Top EXCEPT !.ret = r]
  <2>1. f \in Frame /\ f.task = Top.task /\ f.op = Top.op
    BY <1>1 DEF Frame
  <2>2. /\ ProcessMicrotasks(f, "next") /\ Top.op = None
        /\ UNCHANGED <<refs, globals, queue, state>>
    BY <1>2, <1>9 DEF ReturnStmt, taskVars
  <2> HIDE DEF f
  <2> QED
    BY <2>1, <2>2, ProcessRefs
<1> QED
  BY <1>3, <1>4, <1>5, <1>6, <1>7, <1>8, <1>9

(* exec drains the queue before it clears its variables: nothing is queued *)
(* when the last drain is over.                                            *)
LEMMA LastDrain ==
  ASSUME IInv, RInv, DrainEnd \/ ModuleEnd
  PROVE  RInv'
<1>1. Top \in Frame /\ FrameOK(Top) /\ HolderOK(Top)
  BY TopFacts, TopHeld
<1>2. CASE DrainEnd
  <2> DEFINE f == [Top EXCEPT !.phase = Top.then]
  <2>1. /\ f \in Frame /\ f.task = Top.task /\ f.op = Top.op /\ f.kind = Top.kind
        /\ f.phase = Top.then
    BY <1>1, <1>2 DEF DrainEnd, Frame
  <2>2. /\ frames' = WithTop(f) /\ Top.phase = "drain" /\ queue = <<>>
        /\ UNCHANGED <<refs, globals, queue, state>>
    BY <1>2 DEF DrainEnd, taskVars
  <2> HIDE DEF f
  <2>3. Turned(f)
    BY <2>1, <2>2, TurnedTop
  <2>4. HolderOK(f) /\ TopOK(f)
    BY <1>1, <2>1, <2>2 DEF HolderOK, TopOK, FrameOK, Ends
  <2> QED
    BY <2>1, <2>2, <2>3, <2>4, QuietRefs
<1>3. CASE ModuleEnd
  <2>1. /\ Top.phase = "next" /\ Top.kind = "module" /\ ProcessMicrotasks(Top, "cleanup")
        /\ UNCHANGED <<refs, globals, queue, state>>
    BY <1>3 DEF ModuleEnd, taskVars
  <2>2. ~draining
    <3> SUFFICES ASSUME draining PROVE FALSE
      OBVIOUS
    <3>1. PICK i \in 1..Len(frames) : frames[i].phase = "drain"
      BY DEF IInv, StackOK
    <3>2. Len(frames) = 1
      BY <2>1, TopFacts DEF IInv, StackOK
    <3> QED
      BY <2>1, <3>1, <3>2, TopFacts
  <2>3. "cleanup" \in Phases
    BY DEF Phases
  <2>4. PICK g : Turned(g) /\ Processed(g, Top, "cleanup")
    BY <1>1, <2>1, <2>3, TurnedProcess
  <2>5. /\ g.task = Top.task /\ g.op = Top.op /\ g.kind = "module" /\ Top.op = None
        /\ g.phase = "drain" /\ g.then = "cleanup"
    BY <2>1, <2>2, <2>4, TopHeld DEF Processed
  <2>6. HolderOK(g) /\ TopOK(g)
    BY <2>5 DEF HolderOK, TopOK, Ends
  <2> QED
    BY <2>1, <2>4, <2>5, <2>6, QuietRefs
<1> QED
  BY <1>2, <1>3
-----------------------------------------------------------------------------
(* `await` takes up a reference to its operand and drops it at its end.    *)
LEMMA AwaitRefs ==
  ASSUME IInv, RInv, Await
  PROVE  RInv'
<1>1. Top \in Frame /\ refs \in [Tasks -> Int] /\ globals \in [Vars -> Tasks \cup {None}]
  BY TopFacts DEF IInv, DataOK
<1>2. \A u \in Tasks : One(None, u) = 0
  BY MicrotasksAssumption DEF MicrotasksAssumption, One
<1>3. ASSUME NEW v \in Vars, BeginAwait(v) PROVE RInv'
  <2> DEFINE f == [Step(Top) EXCEPT !.phase = "await", !.op = globals[v]]
  <2>1. Step(Top) \in Frame /\ Step(Top).task = Top.task /\ Top.op = None
    BY <1>3, TopFrame, TopHeld DEF IInv, BeginAwait, MayStep
  <2>2. globals[v] \in Tasks /\ state[globals[v]] # "unused"
    BY <1>1, <1>3 DEF BeginAwait, RInv
  <2>3. /\ f \in Frame /\ f.task = Top.task /\ f.phase = "await" /\ f.op = globals[v]
    BY <2>1, <2>2 DEF Frame, Phases
  <2>4. /\ frames' = WithTop(f) /\ UNCHANGED <<globals, queue, state>>
        /\ refs' = [refs EXCEPT ![globals[v]] = @ + 1]
    BY <1>3 DEF BeginAwait
  <2> HIDE DEF f
  <2>5. Turned(f) /\ HolderOK(f) /\ TopOK(f)
    BY <2>3, <2>4, TurnedTop DEF HolderOK, TopOK, Ends
  <2>6. \A u \in Tasks : refs'[u] + One(Top.op, u) = refs[u] + One(f.op, u) /\ refs'[u] \in Int
    BY <1>1, <1>2, <2>1, <2>2, <2>3, <2>4 DEF One
  <2>7. f.op # None => state[f.op] # "unused"
    BY <2>2, <2>3
  <2> QED
    BY <2>3, <2>4, <2>5, <2>6, <2>7, OperandRefs
<1>4. ASSUME Top.phase = "await", EndAwait PROVE RInv'
  <2> DEFINE f == [Top EXCEPT !.phase = "run", !.op = None]
  <2>1. f \in Frame /\ f.task = Top.task /\ f.phase = "run" /\ f.op = None
    BY <1>1 DEF Frame, Phases
  <2>2. /\ frames' = WithTop(f) /\ UNCHANGED <<globals, queue, state>>
        /\ refs' = [refs EXCEPT ![Top.op] = @ - 1] /\ Top.op \in Tasks
    BY <1>4, TopFacts DEF EndAwait, FrameOK
  <2> HIDE DEF f
  <2>3. Turned(f) /\ HolderOK(f) /\ TopOK(f)
    BY <2>1, <2>2, TurnedTop DEF HolderOK, TopOK, Ends
  <2>4. \A u \in Tasks : refs'[u] + One(Top.op, u) = refs[u] + One(f.op, u) /\ refs'[u] \in Int
    BY <1>1, <1>2, <2>1, <2>2 DEF One
  <2> QED
    BY <2>1, <2>2, <2>3, <2>4, OperandRefs
<1>5. CASE AwaitPump
  BY <1>5, QuietStep
<1> QED
  BY <1>3, <1>4, <1>5 DEF Await, AwaitStalls, AwaitResolved, AwaitRejected

-----------------------------------------------------------------------------
(* A variable that takes over a reference releases what it held.           *)
Differs(g, h, v) == \A w \in Vars : w # v => g[w] = h[w]

LEMMA CountBound ==
  ASSUME NEW v \in Vars, NEW g, NEW h, Differs(g, h, v), NEW u
  PROVE  InVars(g, u) + One(h[v], u) = InVars(h, u) + One(g[v], u)
<1> DEFINE S == {w \in Vars : w # v /\ h[w] = u}
           T == {w \in Vars : g[w] = u}
           U == {w \in Vars : h[w] = u}
<1>1. IsFiniteSet(S) /\ v \notin S /\ Joins(T, S, v, g[v], u) /\ Joins(U, S, v, h[v], u)
  BY MicrotasksAssumption, FS_Subset DEF MicrotasksAssumption, Joins, Differs
<1>2. InVars(g, u) = Cardinality(T) /\ InVars(h, u) = Cardinality(U)
  BY DEF InVars
<1> HIDE DEF S, T, U
<1>3. Cardinality(T) = Cardinality(S) + One(g[v], u) /\ Cardinality(S) \in Nat
  BY <1>1, OneMore
<1>4. Cardinality(U) = Cardinality(S) + One(h[v], u)
  BY <1>1, OneMore
<1>5. One(g[v], u) \in Nat /\ One(h[v], u) \in Nat
  BY DEF One
<1> QED
  BY <1>2, <1>3, <1>4, <1>5

LEMMA CountHandover ==
  ASSUME IInv, NEW counts \in [Tasks -> Int], NEW t \in Tasks, NEW v \in Vars \cup {None},
         refs' = Handover(counts, t, v), globals' = Bind(v, t), NEW u \in Tasks
  PROVE  refs'[u] + InVars(globals, u) + One(t, u) = counts[u] + InVars(globals', u)
<1>1. globals \in [Vars -> Tasks \cup {None}] /\ One(None, u) = 0 /\ None \notin Tasks
  BY MicrotasksAssumption DEF MicrotasksAssumption, One, IInv, DataOK
<1>2. InVars(globals, u) \in Nat /\ InVars(globals', u) \in Nat
  BY CountVars
<1>3. CASE v = None
  <2>1. refs' = [counts EXCEPT ![t] = @ - 1] /\ globals' = globals
    BY <1>3 DEF Handover, Bind
  <2>2. refs'[u] + One(t, u) = counts[u] /\ refs'[u] \in Int /\ One(t, u) \in Nat
    BY <2>1 DEF One
  <2> QED
    BY <1>2, <2>1, <2>2
<1>4. CASE v # None
  <2>1. /\ v \in Vars /\ globals' = [globals EXCEPT ![v] = t]
        /\ globals[v] = None => refs' = counts
        /\ globals[v] # None => refs' = [counts EXCEPT ![globals[v]] = @ - 1]
    BY <1>4 DEF Handover, Bind
  <2>2. refs'[u] + One(globals[v], u) = counts[u] /\ refs'[u] \in Int
    <3>1. CASE globals[v] = None
      BY <1>1, <2>1, <3>1
    <3>2. CASE globals[v] # None
      <4>1. globals[v] \in Tasks /\ refs' = [counts EXCEPT ![globals[v]] = @ - 1]
        BY <1>1, <2>1, <3>2
      <4> QED
        BY <4>1 DEF One
    <3> QED
      BY <3>1, <3>2
  <2>3. globals'[v] = t /\ Differs(globals', globals, v)
    BY <1>1, <2>1 DEF Differs
  <2>6. InVars(globals', u) + One(globals[v], u) = InVars(globals, u) + One(globals'[v], u)
    <3>1. v \in Vars
      BY <2>1
    <3>2. \A g, h : Differs(g, h, v) =>
                      InVars(g, u) + One(h[v], u) = InVars(h, u) + One(g[v], u)
      BY <3>1, CountBound
    <3> QED
      BY <2>3, <3>2
  <2>4. InVars(globals', u) + One(globals[v], u) = InVars(globals, u) + One(t, u)
    BY <2>3, <2>6
  <2>5. One(t, u) \in Nat /\ One(globals[v], u) \in Nat
    BY DEF One
  <2> QED
    BY <1>2, <2>2, <2>4, <2>5
<1> QED
  BY <1>3, <1>4

(* Nobody holds a Task that was never created.                             *)
LEMMA UnusedUnheld ==
  ASSUME IInv, RInv, NEW t \in Tasks, state[t] = "unused"
  PROVE  refs[t] = 0
<1>1. None \notin Tasks /\ Cardinality({}) = 0
  BY MicrotasksAssumption, FS_EmptySet DEF MicrotasksAssumption
<1>2. \A v \in Vars : globals[v] # t
  BY <1>1 DEF RInv
<1>3. \A i \in 1..Len(queue) : queue[i] # t
  BY DEF IInv, QueueOK, Elements
<1>4. \A i \in 1..Len(frames) : frames[i].task # t
  <2> SUFFICES ASSUME NEW i \in 1..Len(frames), frames[i].task = t PROVE FALSE
    OBVIOUS
  <2>1. frames[i].kind = "task"
    BY <1>1 DEF IInv, StackOK
  <2>2. t \in OnStack(frames)
    BY <2>1 DEF OnStack
  <2> QED
    BY <2>2 DEF IInv, QueueOK
<1>5. \A i \in 1..Len(frames) : frames[i].op # t
  BY <1>1 DEF RInv
<1>6. InVars(globals, t) = 0
  <2>1. {v \in Vars : globals[v] = t} = {}
    BY <1>2
  <2> QED
    BY <1>1, <2>1 DEF InVars
<1>7. InQueue(queue, t) = 0
  <2>1. {i \in 1..Len(queue) : queue[i] = t} = {}
    BY <1>3
  <2> QED
    BY <1>1, <2>1 DEF InQueue
<1>8. AsTask(frames, t) = 0 /\ AsOp(frames, t) = 0
  <2>1. {i \in 1..Len(frames) : frames[i].task = t} = {}
        /\ {i \in 1..Len(frames) : frames[i].op = t} = {}
    BY <1>4, <1>5
  <2> QED
    BY <1>1, <2>1 DEF AsTask, AsOp
<1> QED
  BY <1>6, <1>7, <1>8, Balance DEF RInv

(* A new Task is created with `counts`, and its call's value goes to v.    *)
Created(counts, t) ==
  \A u \in Tasks :
    /\ counts[u] + InQueue(queue, u) = refs[u] + One(t, u) + InQueue(queue', u)
    /\ InQueue(queue, u) \in Nat /\ InQueue(queue', u) \in Nat

LEMMA CreatedRefs ==
  ASSUME IInv, RInv, NEW t \in Tasks, NEW v \in Vars \cup {None}, MayStep,
         frames' = WithTop(Step(Top)), InUse, state'[t] # "unused",
         NEW counts \in [Tasks -> Int], refs' = Handover(counts, t, v), globals' = Bind(v, t),
         Created(counts, t)
  PROVE  RInv'
<1> DEFINE f == Step(Top)
<1>1. /\ f \in Frame /\ f.task = Top.task /\ f.op = Top.op /\ f.phase = "run" /\ Top.op = None
  BY TopFrame, TopHeld DEF IInv, MayStep
<1>2. frames' = WithTop(f)
  OBVIOUS
<1> HIDE DEF f
<1>3. Turned(f) /\ HolderOK(f) /\ TopOK(f)
  BY <1>1, <1>2, TurnedTop DEF HolderOK, TopOK, Ends
<1>4. \A i \in 1..Len(frames') :
        HolderOK(frames'[i]) /\ (frames'[i].op # None => state'[frames'[i].op] # "unused")
  BY <1>1, <1>3, TurnedHolders
<1>5. VarsOK
  <2> SUFFICES ASSUME NEW w \in Vars, globals'[w] # None PROVE state'[globals'[w]] # "unused"
    BY DEF VarsOK
  <2>1. globals \in [Vars -> Tasks \cup {None}]
    BY DEF IInv, DataOK
  <2>2. globals'[w] = t \/ globals'[w] = globals[w]
    BY <2>1 DEF Bind
  <2> QED
    BY <2>1, <2>2 DEF RInv, InUse
<1>6. RefsBalanced'
  <2> SUFFICES ASSUME NEW u \in Tasks
               PROVE  refs'[u] = InVars(globals', u) + InQueue(queue', u)
                                 + AsTask(frames', u) + AsOp(frames', u)
    BY Balance
  <2>1. refs[u] = InVars(globals, u) + InQueue(queue, u) + AsTask(frames, u) + AsOp(frames, u)
    BY Balance DEF RInv
  <2>2. /\ AsTask(frames', u) = AsTask(frames, u) /\ AsTask(frames, u) \in Nat
        /\ AsOp(frames', u) + One(Top.op, u) = AsOp(frames, u) + One(f.op, u)
        /\ AsOp(frames', u) \in Nat /\ AsOp(frames, u) \in Nat
    BY <1>1, <1>3, TurnedCounts
  <2>3. One(Top.op, u) \in Nat /\ One(t, u) \in Nat /\ refs[u] \in Int /\ counts[u] \in Int
    BY DEF One, IInv, DataOK
  <2>4. refs'[u] + InVars(globals, u) + One(t, u) = counts[u] + InVars(globals', u)
    BY CountHandover
  <2>5. InVars(globals, u) \in Nat /\ InVars(globals', u) \in Nat
    BY CountVars
  <2>9. One(f.op, u) = One(Top.op, u)
    BY <1>1
  <2>6. AsOp(frames', u) = AsOp(frames, u)
    BY <2>2, <2>3, <2>9
  <2>7. refs'[u] \in Int
    <3>1. Handover(counts, t, v) \in [Tasks -> Int]
      BY BindType DEF IInv, DataOK
    <3> QED
      BY <3>1
  <2>8. /\ counts[u] + InQueue(queue, u) = refs[u] + One(t, u) + InQueue(queue', u)
        /\ InQueue(queue, u) \in Nat /\ InQueue(queue', u) \in Nat
    BY DEF Created
  <2> QED
    BY <2>1, <2>2, <2>3, <2>4, <2>5, <2>6, <2>7, <2>8
<1>7. frames'[Len(frames')] = f
  BY <1>3 DEF Turned
<1> QED
  BY <1>3, <1>4, <1>5, <1>6, <1>7 DEF RInv, TopOK, VarsOK

LEMMA ScheduleRefs ==
  ASSUME IInv, RInv, NEW t \in Tasks, NEW v \in Vars \cup {None},
         ScheduleLazy(t, v) \/ ScheduleLazyFails(t, v)
  PROVE  RInv'
<1>1. /\ MayStep /\ state[t] = "unused" /\ frames' = WithTop(Step(Top)) /\ globals' = Bind(v, t)
  BY DEF ScheduleLazy, ScheduleLazyFails
<1>2. refs[t] = 0 /\ refs \in [Tasks -> Int] /\ state \in [Tasks -> States] /\ queue \in Seq(Tasks)
  BY <1>1, UnusedUnheld DEF IInv, DataOK, QueueOK
<1>3. InUse /\ state'[t] # "unused"
  BY <1>1, <1>2 DEF ScheduleLazy, ScheduleLazyFails, InUse
<1>4. CASE ScheduleLazy(t, v)
  <2> DEFINE counts == [refs EXCEPT ![t] = 2]
  <2>1. counts \in [Tasks -> Int] /\ \A u \in Tasks : counts[u] = refs[u] + One(t, u) + One(t, u)
    BY <1>2 DEF One
  <2>2. refs' = Handover(counts, t, v) /\ queue' = Append(queue, t)
    BY <1>4 DEF ScheduleLazy
  <2> HIDE DEF counts
  <2>3. /\ Len(queue) \in Nat /\ Len(queue') = Len(queue) + 1 /\ queue'[Len(queue')] = t
        /\ \A i \in 1..Len(queue) : queue'[i] = queue[i]
    BY <1>2, <2>2
  <2>4. ASSUME NEW u \in Tasks
        PROVE  /\ counts[u] + InQueue(queue, u) = refs[u] + One(t, u) + InQueue(queue', u)
               /\ InQueue(queue, u) \in Nat /\ InQueue(queue', u) \in Nat
    <3>1. InQueue(queue', u) = InQueue(queue, u) + One(t, u) /\ InQueue(queue, u) \in Nat
      BY <2>3, CountQueued
    <3>2. One(t, u) \in Nat /\ refs[u] \in Int
      BY <1>2 DEF One
    <3>3. counts[u] = refs[u] + One(t, u) + One(t, u)
      BY <2>1
    <3> QED
      BY <3>1, <3>2, <3>3
  <2>5. Created(counts, t)
    BY <2>4 DEF Created
  <2> QED
    BY <1>1, <1>3, <2>1, <2>2, <2>5, CreatedRefs
<1>5. CASE ScheduleLazyFails(t, v)
  <2> DEFINE counts == [refs EXCEPT ![t] = 1]
  <2>1. counts \in [Tasks -> Int] /\ \A u \in Tasks : counts[u] = refs[u] + One(t, u)
    BY <1>2 DEF One
  <2>2. refs' = Handover(counts, t, v) /\ queue' = queue
    BY <1>5 DEF ScheduleLazyFails
  <2> HIDE DEF counts
  <2>4. ASSUME NEW u \in Tasks
        PROVE  /\ counts[u] + InQueue(queue, u) = refs[u] + One(t, u) + InQueue(queue', u)
               /\ InQueue(queue, u) \in Nat /\ InQueue(queue', u) \in Nat
    <3>1. InQueue(queue, u) \in Nat
      BY CountQueue
    <3>2. InQueue(queue', u) = InQueue(queue, u) /\ One(t, u) \in Nat /\ refs[u] \in Int
      BY <1>2, <2>2 DEF One
    <3> QED
      BY <2>1, <3>1, <3>2
  <2>5. Created(counts, t)
    BY <2>4 DEF Created
  <2> QED
    BY <1>1, <1>3, <2>1, <2>2, <2>5, CreatedRefs
<1> QED
  BY <1>4, <1>5
-----------------------------------------------------------------------------
(* A frame that holds no operand is pushed, on a top that has become f,    *)
(* and takes over the place in the queue of the Task it runs.              *)
PushedOn(f, gs, h) ==
  /\ Len(gs) = Len(frames) /\ gs[Len(frames)] = f
  /\ \A i \in 1..Len(frames) : i # Len(frames) => gs[i] = frames[i]
  /\ Len(frames') = Len(frames) + 1 /\ frames'[Len(frames')] = h
  /\ \A i \in 1..Len(frames) : frames'[i] = gs[i]

LEMMA PushedRefs ==
  ASSUME IInv, RInv, NEW f, NEW gs, NEW h, PushedOn(f, gs, h),
         f.task = Top.task, f.op = Top.op, HolderOK(f), HolderOK(h), h.op = None,
         h.phase = "next", UNCHANGED <<refs, globals, state>>,
         \A u \in Tasks : InQueue(queue, u) = InQueue(queue', u) + One(h.task, u)
                          /\ InQueue(queue', u) \in Nat
  PROVE  RInv'
<1>1. InUse /\ VarsOK
  BY SameVars DEF InUse
<1>2. /\ Len(frames) \in Nat \ {0} /\ Top = frames[Len(frames)]
      /\ \A i \in 1..Len(frames) : frames[i] \in Frame
  BY TopFacts
<1>3. ASSUME NEW i \in 1..Len(frames')
      PROVE  HolderOK(frames'[i]) /\ (frames'[i].op # None => state'[frames'[i].op] # "unused")
  <2>1. CASE i = Len(frames')
    BY <2>1 DEF PushedOn
  <2>2. CASE i = Len(frames)
    <3>1. frames'[i] = f
      BY <1>2, <2>2 DEF PushedOn
    <3>2. Top.op # None => state'[Top.op] # "unused"
      BY TopHeld
    <3> QED
      BY <3>1, <3>2
  <2>3. CASE i # Len(frames') /\ i # Len(frames)
    <3>1. frames'[i] = frames[i] /\ i \in 1..Len(frames)
      BY <1>2, <2>3 DEF PushedOn
    <3> QED
      BY <3>1 DEF RInv
  <2> QED
    BY <2>1, <2>2, <2>3
<1>4. RefsBalanced'
  <2> SUFFICES ASSUME NEW u \in Tasks
               PROVE  refs'[u] = InVars(globals', u) + InQueue(queue', u)
                                 + AsTask(frames', u) + AsOp(frames', u)
    BY Balance
  <2>1. refs[u] = InVars(globals, u) + InQueue(queue, u) + AsTask(frames, u) + AsOp(frames, u)
    BY Balance DEF RInv
  <2>2. /\ Len(gs) = Len(frames) /\ \A i \in 1..Len(frames) : i # Len(frames) => gs[i] = frames[i]
        /\ gs[Len(frames)] = f
    BY DEF PushedOn
  <2>3. /\ AsTask(gs, u) + One(frames[Len(frames)].task, u)
             = AsTask(frames, u) + One(gs[Len(frames)].task, u)
        /\ AsOp(gs, u) + One(frames[Len(frames)].op, u)
             = AsOp(frames, u) + One(gs[Len(frames)].op, u)
        /\ AsTask(gs, u) \in Nat /\ AsOp(gs, u) \in Nat
    BY <1>2, <2>2, CountReplaced
  <2>4. /\ Len(gs) \in Nat /\ Len(frames') = Len(gs) + 1
        /\ \A i \in 1..Len(gs) : frames'[i] = gs[i]
    BY <1>2 DEF PushedOn
  <2>5. /\ AsTask(frames', u) = AsTask(gs, u) + One(frames'[Len(frames')].task, u)
        /\ AsOp(frames', u) = AsOp(gs, u) + One(frames'[Len(frames')].op, u)
    BY <2>4, CountPushed
  <2>6. AsTask(frames, u) \in Nat /\ AsOp(frames, u) \in Nat /\ InVars(globals, u) \in Nat
    BY <1>2, CountAll, CountVars
  <2>7. /\ One(frames[Len(frames)].task, u) = One(gs[Len(frames)].task, u)
        /\ One(frames[Len(frames)].op, u) = One(gs[Len(frames)].op, u)
        /\ One(frames'[Len(frames')].task, u) = One(h.task, u)
        /\ One(frames'[Len(frames')].op, u) = 0
    <3>1. /\ frames[Len(frames)].task = gs[Len(frames)].task
          /\ frames[Len(frames)].op = gs[Len(frames)].op
          /\ frames'[Len(frames')] = h
      BY <1>2, <2>2 DEF PushedOn
    <3>2. One(h.op, u) = 0
      BY MicrotasksAssumption DEF One
    <3> QED
      BY <3>1, <3>2
  <2>8. \A x : One(x, u) \in Nat
    BY DEF One
  <2>9. AsTask(gs, u) = AsTask(frames, u) /\ AsOp(gs, u) = AsOp(frames, u)
    <3>1. /\ One(gs[Len(frames)].task, u) \in Nat
          /\ One(gs[Len(frames)].op, u) \in Nat
      BY <2>8
    <3>2. AsTask(gs, u) = AsTask(frames, u)
      BY <2>3, <2>6, <2>7, <3>1
    <3>3. AsOp(gs, u) = AsOp(frames, u)
      BY <2>3, <2>6, <2>7, <3>1
    <3> QED
      BY <3>2, <3>3
  <2>10. AsTask(frames', u) = AsTask(frames, u) + One(h.task, u)
         /\ AsOp(frames', u) = AsOp(frames, u)
    BY <2>5, <2>6, <2>7, <2>9
  <2>11. InQueue(queue, u) = InQueue(queue', u) + One(h.task, u) /\ InQueue(queue', u) \in Nat
    OBVIOUS
  <2>12. refs'[u] = refs[u] /\ InVars(globals', u) = InVars(globals, u)
    OBVIOUS
  <2> QED
    BY <2>1, <2>6, <2>8, <2>10, <2>11, <2>12
<1>5. frames'[Len(frames')].phase \notin Ends
  BY DEF PushedOn, Ends
<1> QED
  BY <1>1, <1>3, <1>4, <1>5 DEF RInv, VarsOK, Ends

LEMMA CallRefs ==
  ASSUME IInv, RInv, NEW body \in Bodies, CallFunction(body)
  PROVE  RInv'
<1> DEFINE f == Step(Top)
           gs == WithTop(f)
           h == NewFrame("call", body, None)
<1>1. /\ f \in Frame /\ f.task = Top.task /\ f.op = Top.op /\ f.phase = "run" /\ Top.op = None
  BY TopFrame, TopHeld DEF IInv, CallFunction, MayStep
<1>2. h \in Frame /\ h.task = None /\ h.op = None /\ h.phase = "next" /\ h.kind = "call"
  BY MicrotasksAssumption DEF NewFrame, Frame, Phases
<1>3. gs = [frames EXCEPT ![Len(frames)] = f]
  BY DEF WithTop, Depth
<1>4. frames' = Append(gs, h) /\ UNCHANGED <<refs, globals, state, queue>>
  BY DEF CallFunction, taskVars
<1> HIDE DEF f, gs, h
<1>5. /\ gs \in Seq(Frame) /\ Len(gs) = Len(frames) /\ gs[Len(frames)] = f
      /\ \A i \in 1..Len(frames) : i # Len(frames) => gs[i] = frames[i]
  BY <1>1, <1>3, Replaced DEF IInv, StackOK
<1>6. PushedOn(f, gs, h)
  BY <1>2, <1>4, <1>5 DEF PushedOn
<1>7. HolderOK(f) /\ HolderOK(h)
  BY <1>1, <1>2 DEF HolderOK, Ends
<1>8. ASSUME NEW u \in Tasks
      PROVE  InQueue(queue, u) = InQueue(queue', u) + One(h.task, u) /\ InQueue(queue', u) \in Nat
  <2>1. InQueue(queue, u) \in Nat
    BY CountQueue
  <2>2. InQueue(queue', u) = InQueue(queue, u) /\ One(h.task, u) = 0
    BY <1>2, <1>4, MicrotasksAssumption DEF MicrotasksAssumption, One
  <2> QED
    BY <2>1, <2>2
<1> QED
  BY <1>1, <1>2, <1>4, <1>6, <1>7, <1>8, PushedRefs

(* The queue's reference goes to the frame that runs the Task.             *)
LEMMA TakeRefs ==
  ASSUME IInv, RInv, NEW body \in Bodies, TakeMicrotask(body)
  PROVE  RInv'
<1> DEFINE h == NewFrame("task", body, Head(queue))
<1>1. /\ queue # <<>> /\ queue \in Seq(Tasks) /\ frames \in Seq(Frame)
      /\ queue' = Tail(queue) /\ UNCHANGED <<refs, globals, state>>
  BY DEF TakeMicrotask, IInv, QueueOK, StackOK, taskVars
<1>2. /\ Head(queue) = queue[1] /\ Len(queue) \in Nat \ {0} /\ Len(queue') = Len(queue) - 1
      /\ \A i \in 1..(Len(queue) - 1) : queue'[i] = queue[i + 1]
  BY <1>1, HeadTail
<1>3. h.task = Head(queue) /\ h.op = None /\ h.phase = "next" /\ h.kind = "task"
  BY DEF NewFrame
<1>4. frames' = Append(frames, h)
  BY DEF TakeMicrotask
<1> HIDE DEF h
<1>5. PushedOn(Top, frames, h)
  BY <1>1, <1>4, TopFacts DEF PushedOn
<1>6. HolderOK(Top) /\ HolderOK(h)
  BY <1>3, TopHeld DEF HolderOK, Ends
<1>7. ASSUME NEW u \in Tasks
      PROVE  InQueue(queue, u) = InQueue(queue', u) + One(h.task, u) /\ InQueue(queue', u) \in Nat
  <2>1. InQueue(queue, u) = InQueue(queue', u) + One(queue[1], u) /\ InQueue(queue', u) \in Nat
    BY <1>2, CountTaken
  <2> QED
    BY <1>2, <1>3, <2>1
<1> QED
  BY <1>1, <1>3, <1>5, <1>6, <1>7, PushedRefs

(* A body ends, and the reference of its frame with it.                    *)
Released(t) == \A u \in Tasks : refs'[u] + One(t, u) = refs[u] /\ refs'[u] \in Int

LEMMA PoppedRefs ==
  ASSUME IInv, RInv, Top.kind # "module", Top.phase = "next", frames' = Below, InUse,
         UNCHANGED <<globals, queue>>,
         Released(Top.task)
  PROVE  RInv'
<1>1. /\ Len(frames) \in Nat \ {0} /\ Top = frames[Len(frames)] /\ frames \in Seq(Frame)
      /\ \A i \in 1..Len(frames) : frames[i] \in Frame
  BY TopFacts DEF IInv, StackOK
<1>2. Len(frames) # 1
  BY <1>1 DEF IInv, StackOK
<1>9. frames' = SubSeq(frames, 1, Len(frames) - 1)
  BY DEF Below, Depth
<1>11. \A n \in Nat \ {0} : n # 1 => n >= 2
  OBVIOUS
<1>10. Len(frames) >= 2
  BY <1>1, <1>2, <1>11
<1>3. frames' = SubSeq(frames, 1, Len(frames) - 1) /\ Len(frames) >= 2
  BY <1>9, <1>10
<1>4. /\ Len(frames') = Len(frames) - 1 /\ \A i \in 1..(Len(frames) - 1) : frames'[i] = frames[i]
  BY <1>1, <1>3, Popped
<1>5. VarsOK
  BY SameVars
<1>6. ASSUME NEW i \in 1..Len(frames')
      PROVE  HolderOK(frames'[i]) /\ (frames'[i].op # None => state'[frames'[i].op] # "unused")
  <2>1. i \in 1..Len(frames) /\ frames'[i] = frames[i] /\ frames[i].op \in Tasks \cup {None}
    BY <1>1, <1>4 DEF Frame
  <2> QED
    BY <2>1 DEF RInv, InUse
<1>7. RefsBalanced'
  <2> SUFFICES ASSUME NEW u \in Tasks
               PROVE  refs'[u] = InVars(globals', u) + InQueue(queue', u)
                                 + AsTask(frames', u) + AsOp(frames', u)
    BY Balance
  <2>1. refs[u] = InVars(globals, u) + InQueue(queue, u) + AsTask(frames, u) + AsOp(frames, u)
    BY Balance DEF RInv
  <2>2. /\ Len(frames') \in Nat /\ Len(frames) = Len(frames') + 1
        /\ \A i \in 1..Len(frames') : frames[i] = frames'[i]
    BY <1>1, <1>4
  <2>3. /\ AsTask(frames, u) = AsTask(frames', u) + One(frames[Len(frames)].task, u)
        /\ AsOp(frames, u) = AsOp(frames', u) + One(frames[Len(frames)].op, u)
        /\ AsTask(frames', u) \in Nat /\ AsOp(frames', u) \in Nat
    BY <2>2, CountPushed
  <2>4. One(frames[Len(frames)].op, u) = 0
    BY <1>1, TopHeld, MicrotasksAssumption DEF MicrotasksAssumption, One
  <2>5. refs'[u] + One(Top.task, u) = refs[u] /\ refs'[u] \in Int
    BY DEF Released
  <2>6. InVars(globals, u) \in Nat /\ InQueue(queue, u) \in Nat /\ One(Top.task, u) \in Nat
    BY CountVars, CountQueue DEF One
  <2>7. InVars(globals', u) = InVars(globals, u) /\ InQueue(queue', u) = InQueue(queue, u)
    OBVIOUS
  <2>8. AsTask(frames, u) = AsTask(frames', u) + One(Top.task, u)
        /\ AsOp(frames, u) = AsOp(frames', u)
    BY <1>1, <2>3, <2>4
  <2> QED
    BY <2>1, <2>3, <2>5, <2>6, <2>7, <2>8
<1>8. frames'[Len(frames')].phase \notin Ends
  <2>1. Len(frames) - 1 \in 1..Len(frames) /\ Len(frames) - 1 < Len(frames)
    BY <1>1, <1>3
  <2>2. frames[Len(frames) - 1].phase \in {"run", "drain"}
    BY <2>1 DEF IInv, StackOK
  <2>3. frames'[Len(frames')] = frames[Len(frames) - 1]
    BY <1>1, <1>3, <1>4
  <2> QED
    BY <2>2, <2>3 DEF Ends
<1> QED
  BY <1>5, <1>6, <1>7, <1>8 DEF RInv, VarsOK, Ends

LEMMA BodyEndRefs ==
  ASSUME IInv, RInv, ReturnFromCall \/ FinishMicrotask
  PROVE  RInv'
<1>1. None \notin Tasks /\ refs \in [Tasks -> Int] /\ state \in [Tasks -> States]
  BY MicrotasksAssumption DEF MicrotasksAssumption, IInv, DataOK, QueueOK
<1>2. CASE ReturnFromCall
  <2>1. /\ Top.kind # "module" /\ Top.phase = "next" /\ frames' = Below /\ Top.kind # "task"
        /\ UNCHANGED <<globals, queue, state, refs>>
    BY <1>2 DEF ReturnFromCall, taskVars
  <2>2. Top.task = None
    BY <2>1, TopFacts DEF IInv, StackOK
  <2>3. Released(Top.task)
    BY <1>1, <2>1, <2>2 DEF One, Released
  <2> QED
    BY <2>1, <2>3, PoppedRefs DEF InUse
<1>3. CASE FinishMicrotask
  <2>1. /\ Top.kind # "module" /\ Top.phase = "next" /\ frames' = Below
        /\ UNCHANGED <<globals, queue>> /\ refs' = [refs EXCEPT ![Top.task] = @ - 1]
    BY <1>3 DEF FinishMicrotask
  <2>2. /\ Top.task \in Tasks
        /\ \E s \in {"resolved", "rejected"} : state' = [state EXCEPT ![Top.task] = s]
    BY <1>3, FinishOK
  <2>3. InUse
    BY <1>1, <2>2 DEF InUse
  <2>4. Released(Top.task)
    BY <1>1, <2>1, <2>2 DEF One, Released
  <2> QED
    BY <2>1, <2>3, <2>4, PoppedRefs
<1> QED
  BY <1>2, <1>3

-----------------------------------------------------------------------------
(* clearScope gives up the references of the variables.                    *)
LEMMA ClearRefs ==
  ASSUME IInv, RInv, ClearScope
  PROVE  RInv'
<1> DEFINE f == [Top EXCEPT !.phase = "done"]
<1>1. /\ Top \in Frame /\ Top = frames[Len(frames)] /\ Top.op = None /\ Top.phase = "cleanup"
      /\ Top.kind = "module"
  BY TopFacts, TopHeld DEF ClearScope, HolderOK, Ends
<1>2. /\ f \in Frame /\ f.task = Top.task /\ f.op = None /\ f.phase = "done" /\ f.kind = "module"
  BY <1>1 DEF Frame, Phases
<1>3. /\ frames' = WithTop(f) /\ UNCHANGED <<queue, state>>
      /\ \A v \in Vars : globals'[v] = None
      /\ \A u \in Tasks : refs'[u] = refs[u] - InVars(globals, u)
  BY DEF ClearScope, InVars
<1> HIDE DEF f
<1>4. queue = <<>>
  BY <1>1 DEF RInv, Ends
<1>5. Turned(f) /\ HolderOK(f) /\ InUse
  BY <1>2, <1>3, TurnedTop DEF HolderOK, Ends, InUse
<1>6. \A i \in 1..Len(frames') :
        HolderOK(frames'[i]) /\ (frames'[i].op # None => state'[frames'[i].op] # "unused")
  BY <1>2, <1>5, TurnedHolders
<1>7. RefsBalanced'
  <2> SUFFICES ASSUME NEW u \in Tasks
               PROVE  refs'[u] = InVars(globals', u) + InQueue(queue', u)
                                 + AsTask(frames', u) + AsOp(frames', u)
    BY Balance
  <2>1. refs[u] = InVars(globals, u) + InQueue(queue, u) + AsTask(frames, u) + AsOp(frames, u)
    BY Balance DEF RInv
  <2>2. /\ AsTask(frames', u) = AsTask(frames, u) /\ AsTask(frames, u) \in Nat
        /\ AsOp(frames', u) + One(Top.op, u) = AsOp(frames, u) + One(f.op, u)
        /\ AsOp(frames', u) \in Nat /\ AsOp(frames, u) \in Nat
    BY <1>2, <1>5, TurnedCounts
  <2>3. One(Top.op, u) = 0 /\ One(f.op, u) = 0 /\ None # u
    BY <1>1, <1>2, MicrotasksAssumption DEF MicrotasksAssumption, One
  <2>4. InVars(globals', u) = 0
    <3>1. {v \in Vars : globals'[v] = u} = {}
      BY <1>3, <2>3
    <3> QED
      BY <3>1, FS_EmptySet DEF InVars
  <2>5. InVars(globals, u) \in Nat /\ InQueue(queue, u) \in Nat
    BY CountVars, CountQueue
  <2>6. InQueue(queue', u) = InQueue(queue, u) /\ refs'[u] = refs[u] - InVars(globals, u)
    BY <1>3
  <2>7. AsOp(frames', u) = AsOp(frames, u)
    BY <2>2, <2>3
  <2> QED
    BY <2>1, <2>2, <2>4, <2>5, <2>6, <2>7
<1>8. frames'[Len(frames')] = f
  BY <1>5 DEF Turned
<1> QED
  BY <1>2, <1>3, <1>4, <1>6, <1>7, <1>8 DEF RInv

LEMMA RefsStep == IInv /\ RInv /\ [Next]_vars => RInv'
<1> SUFFICES ASSUME IInv, RInv, [Next]_vars PROVE RInv'
  OBVIOUS
<1>1. CASE UNCHANGED vars \/ Terminated
  <2>1. UNCHANGED <<frames, queue, refs, globals, state>>
    BY <1>1 DEF Terminated, vars
  <2>2. RefsBalanced'
    BY <2>1, Balance DEF RInv
  <2> QED
    BY <2>1, <2>2 DEF RInv
<1>2. CASE Statement
  BY <1>2, QuietStep, BodyEndRefs, ScheduleRefs, CallRefs DEF Statement
<1>3. CASE Drain
  BY <1>3, LastDrain, BodyEndRefs, TakeRefs DEF Drain
<1> QED
  BY <1>1, <1>2, <1>3, AwaitRefs, LastDrain, ClearRefs DEF Next

LEMMA RefsInit == Init => RInv
<1> SUFFICES ASSUME Init PROVE RInv
  OBVIOUS
<1> DEFINE m == NewFrame("module", "V1", None)
<1>1. m.kind = "module" /\ m.task = None /\ m.phase = "next" /\ m.op = None
  BY DEF NewFrame
<1>2. frames = <<m>> /\ queue = <<>> /\ \A v \in Vars : globals[v] = None
  BY DEF Init
<1>3. \A t \in Tasks : refs[t] = 0 /\ None # t
  BY MicrotasksAssumption DEF MicrotasksAssumption, Init
<1> HIDE DEF m
<1>4. Len(frames) = 1 /\ frames[1] = m /\ Len(queue) = 0
  BY <1>2
<1>5. RefsBalanced
  <2> SUFFICES ASSUME NEW t \in Tasks
               PROVE  refs[t] = InVars(globals, t) + InQueue(queue, t)
                                + AsTask(frames, t) + AsOp(frames, t)
    BY Balance
  <2>1. /\ {v \in Vars : globals[v] = t} = {} /\ {i \in 1..Len(queue) : queue[i] = t} = {}
        /\ {i \in 1..Len(frames) : frames[i].task = t} = {}
        /\ {i \in 1..Len(frames) : frames[i].op = t} = {}
    BY <1>1, <1>2, <1>3, <1>4
  <2>2. InVars(globals, t) = 0 /\ InQueue(queue, t) = 0 /\ AsTask(frames, t) = 0
        /\ AsOp(frames, t) = 0
    BY <2>1, FS_EmptySet DEF InVars, InQueue, AsTask, AsOp
  <2> QED
    BY <1>3, <2>2
<1>6. HolderOK(m)
  BY <1>1 DEF HolderOK, Ends
<1> QED
  BY <1>1, <1>2, <1>4, <1>5, <1>6 DEF RInv, Ends

LEMMA RefsInductive == Spec => [](IInv /\ RInv)
BY InitOK, StepOK, RefsInit, RefsStep, PTL DEF Spec

(* The releases of scheduleLazyCall, await, processOneMicrotask and        *)
(* clearScope match what is held, on the failing paths too: the count of   *)
(* a Task is the number of variables, queue places, running frames and     *)
(* awaits that refer to it.                                                *)
THEOREM ReferencesBalanced == Spec => []RefsBalanced
<1>1. RInv => RefsBalanced
  BY DEF RInv
<1> QED
  BY <1>1, RefsInductive, PTL

(* When exec returns no call waits and no Task is alive: the last drain    *)
(* ran every call, clearScope released every variable.                     *)
THEOREM NothingIsLeftBehind == Spec => []NothingLeftBehind
<1>1. IInv /\ RInv => NothingLeftBehind
  <2> SUFFICES ASSUME IInv, RInv, Top.phase = "done"
               PROVE  queue = <<>> /\ \A t \in Tasks : state[t] # "pending" /\ refs[t] = 0
    BY DEF NothingLeftBehind
  <2>1. /\ Top = frames[Len(frames)] /\ Len(frames) \in 1..Len(frames) /\ Top.op = None
        /\ Top.kind = "module" /\ StackOK(frames, draining)
    BY TopFacts, TopHeld DEF HolderOK, Ends, IInv
  <2>2. Len(frames) = 1 /\ frames[1] = Top
    BY <2>1 DEF StackOK
  <2>3. Top.task = None
    BY <2>1, <2>2 DEF StackOK
  <2>4. queue = <<>> /\ Len(queue) = 0 /\ \A v \in Vars : globals[v] = None
    BY <2>1 DEF RInv, Ends
  <2>10. /\ \A i \in 1..Len(frames) : frames[i] = Top
         /\ \A i \in 1..Len(queue) : FALSE
    BY <2>2, <2>4
  <2> SUFFICES ASSUME NEW t \in Tasks
               PROVE  state[t] # "pending" /\ refs[t] = 0
    BY <2>4
  <2>5. state[t] # "pending"
    <3>2. t \notin OnStack(frames) /\ t \notin Elements(queue)
      BY <2>1, <2>10 DEF OnStack, Elements
    <3> QED
      BY <3>2 DEF IInv, QueueOK
  <2>6. None # t
    BY MicrotasksAssumption DEF MicrotasksAssumption
  <2>7. /\ {v \in Vars : globals[v] = t} = {} /\ {i \in 1..Len(queue) : queue[i] = t} = {}
        /\ {i \in 1..Len(frames) : frames[i].task = t} = {}
        /\ {i \in 1..Len(frames) : frames[i].op = t} = {}
    BY <2>1, <2>3, <2>4, <2>6, <2>10
  <2>8. InVars(globals, t) = 0 /\ InQueue(queue, t) = 0 /\ AsTask(frames, t) = 0
        /\ AsOp(frames, t) = 0
    BY <2>7, FS_EmptySet DEF InVars, InQueue, AsTask, AsOp
  <2>9. refs[t] = 0
    BY <2>8, Balance DEF RInv
  <2> QED
    BY <2>5, <2>9
<1> QED
  BY <1>1, RefsInductive, PTL
=============================================================================
