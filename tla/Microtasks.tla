----------------------------- MODULE Microtasks -----------------------------
(***************************************************************************)
(* Lazy calls, the microtask queue, `await` and the runtime error slot of  *)
(* the interpreter (src/runtime/RTEngine.cpp, src/runtime/RTObject.c).     *)
(*                                                                         *)
(* There is one thread.  Its C++ call stack is `frames`: the module at the *)
(* bottom, above it the function bodies that are being interpreted.  After *)
(* every statement the interpreter calls processMicrotasks, which runs the *)
(* queued lazy calls to completion ON TOP of whatever is being evaluated;  *)
(* what a task leaves in lastRuntimeError is therefore seen by the code it *)
(* interrupted, and the other way round.                                   *)
(*                                                                         *)
(* A program is abstracted to what the queue can tell apart: a body is a   *)
(* finite run of statements, a statement a finite run of operations        *)
(* (schedule a lazy call, await a task held by a variable, fail, recover   *)
(* in a `secure`, call a function, end a statement of a nested block).     *)
(***************************************************************************)
EXTENDS Integers, Sequences, FiniteSets

CONSTANTS
  Tasks,           (* the Task objects a run may create                    *)
  Vars,            (* global variables that may hold a Task                *)
  Module,          (* the origin of errors raised by module-level code     *)
  None,            (* no task, no error                                    *)
  MaxOps,          (* bound: operations one body performs                  *)
  MaxDepth,        (* bound: frames on the stack when a call is made       *)
  LazyBodiesAwait  (* whether lazy functions themselves use `await`        *)

ASSUME MicrotasksAssumption ==
  /\ Module \notin Tasks /\ None \notin Tasks /\ Module # None
  /\ IsFiniteSet(Vars) /\ MaxOps \in Nat /\ MaxDepth \in Nat
  /\ LazyBodiesAwait \in BOOLEAN

VARIABLES
  frames,     (* the interpreter's call stack, top last                    *)
  queue,      (* microtaskQueue                                            *)
  draining,   (* isDrainingMicrotasks                                      *)
  err,        (* lastRuntimeError: who raised it, or None                  *)
  state,      (* StarbytesTaskPriv.state, "unused" before StarbytesTaskNew *)
  reason,     (* StarbytesTaskPriv.error: who raised it, or None           *)
  refs,       (* reference count of each Task object                       *)
  globals,    (* the Task held by each variable, or None                   *)
  order,      (* history: tasks in the order they were queued              *)
  settled,    (* history: queued tasks in the order they settled           *)
  delivered   (* history: errors handed to an awaiting frame               *)

vars == <<frames, queue, draining, err, state, reason, refs, globals,
          order, settled, delivered>>

taskVars == <<state, reason, refs>>
history  == <<order, settled, delivered>>

Origins == Tasks \cup {Module}
Bodies  == {"V1", "V2"}
States  == {"unused", "pending", "resolved", "rejected"}

(* Where a frame is: choosing its next statement, evaluating one, in the   *)
(* loop of `await`, inside its own processMicrotasks, in exec's epilogue.  *)
Phases  == {"next", "run", "await", "drain", "cleanup", "done"}

Frame == [kind : {"module", "call", "task"}, body : Bodies,
          task : Tasks \cup {None}, phase : Phases, then : Phases,
          left : 0..MaxOps, ret : {"none", "null", "value"},
          op : Tasks \cup {None}]

NewFrame(kind, body, t) ==
  [kind |-> kind, body |-> body, task |-> t, phase |-> "next",
   then |-> "next", left |-> MaxOps, ret |-> "none", op |-> None]

Depth      == Len(frames)
Top        == frames[Depth]
WithTop(f) == [frames EXCEPT ![Depth] = f]
Below      == SubSeq(frames, 1, Depth - 1)

TaskFrames == {i \in 1..Depth : frames[i].kind = "task"}
Running    == {frames[i].task : i \in TaskFrames}

(* The code that is executing: the innermost task's body, else the module. *)
Owner ==
  IF TaskFrames = {} THEN Module
  ELSE frames[CHOOSE i \in TaskFrames : \A j \in TaskFrames : j <= i].task

-----------------------------------------------------------------------------
(* StarbytesTaskResolve and StarbytesTaskReject: only a pending Task moves. *)
Settle(t, s, why) ==
  IF state[t] = "pending"
  THEN /\ state'  = [state EXCEPT ![t] = s]
       /\ reason' = [reason EXCEPT ![t] = why]
  ELSE UNCHANGED <<state, reason>>

(* Reference counts once variable v (a member of Vars, or None for a value *)
(* that is dropped) takes over one reference to t: what v held is released. *)
Handover(counts, t, v) ==
  IF v = None THEN [counts EXCEPT ![t] = @ - 1]
  ELSE IF globals[v] = None THEN counts
  ELSE [counts EXCEPT ![globals[v]] = @ - 1]

Bind(v, t) == IF v = None THEN globals ELSE [globals EXCEPT ![v] = t]

(* The top frame performs one more of its operations. *)
Step(f) == [f EXCEPT !.left = @ - 1]
MayStep == Top.phase = "run" /\ Top.left > 0

(* Faulty: processMicrotasks without the isDrainingMicrotasks guard.       *)
NestedDrain(f, resume) ==
  /\ frames' = WithTop([f EXCEPT !.phase = "drain", !.then = resume])
  /\ draining' = TRUE

(* processMicrotasks returns at once under a drain; otherwise the frame    *)
(* stays in it until the queue is empty and then goes on at `resume`.      *)
ProcessMicrotasks(f, resume) ==
  IF draining
  THEN /\ frames' = WithTop([f EXCEPT !.phase = resume])
       /\ UNCHANGED draining
  ELSE /\ frames' = WithTop([f EXCEPT !.phase = "drain", !.then = resume])
       /\ draining' = TRUE

-----------------------------------------------------------------------------
Init ==
  /\ frames = <<NewFrame("module", "V1", None)>>
  /\ queue = <<>> /\ draining = FALSE /\ err = None
  /\ state  = [t \in Tasks |-> "unused"]
  /\ reason = [t \in Tasks |-> None]
  /\ refs   = [t \in Tasks |-> 0]
  /\ globals = [v \in Vars |-> None]
  /\ order = <<>> /\ settled = <<>> /\ delivered = {}

(* The loop of exec, invokeFuncWithValues or invokeV2FuncWithValues takes  *)
(* another statement.  A V1 body goes on after an error; the module and a  *)
(* V2 body do not.                                                         *)
NextStmt ==
  /\ Top.phase = "next" /\ Top.ret = "none" /\ Top.left > 0
  /\ Top.kind = "module" \/ Top.body = "V2" => err = None
  /\ frames' = WithTop([Step(Top) EXCEPT !.phase = "run"])
  /\ UNCHANGED <<queue, draining, err, taskVars, globals, history>>

(* scheduleLazyCall: the queue owns one reference to the new Task, the     *)
(* value of the call expression the other.                                 *)
ScheduleLazy(t, v) ==
  /\ MayStep /\ state[t] = "unused"
  /\ state' = [state EXCEPT ![t] = "pending"]
  /\ queue' = Append(queue, t)
  /\ order' = Append(order, t)
  /\ refs'  = Handover([refs EXCEPT ![t] = 2], t, v)
  /\ globals' = Bind(v, t)
  /\ frames' = WithTop(Step(Top))
  /\ UNCHANGED <<draining, err, reason, settled, delivered>>

(* Faulty: the failing path forgets StarbytesTaskReject.                   *)
FailsUnrejected(t, v) ==
  /\ MayStep /\ state[t] = "unused" /\ err' = None
  /\ state' = [state EXCEPT ![t] = "pending"]
  /\ refs' = Handover([refs EXCEPT ![t] = 1], t, v)
  /\ globals' = Bind(v, t)
  /\ frames' = WithTop(Step(Top))
  /\ UNCHANGED <<queue, draining, reason, history>>

(* Faulty: the failing path forgets to release call.task.                  *)
FailsUnreleased(t, v) ==
  /\ MayStep /\ state[t] = "unused" /\ err' = None
  /\ reason' = [reason EXCEPT ![t] = Owner]
  /\ state' = [state EXCEPT ![t] = "rejected"]
  /\ refs' = Handover([refs EXCEPT ![t] = 2], t, v)
  /\ globals' = Bind(v, t)
  /\ frames' = WithTop(Step(Top))
  /\ UNCHANGED <<queue, draining, history>>

(* scheduleLazyCall, an argument evaluates to nothing: the Task is         *)
(* rejected with the pending error, which is cleared, and never queued.    *)
ScheduleLazyFails(t, v) ==
  /\ MayStep /\ state[t] = "unused"
  /\ \E why \in {Owner, err} \ {None} : reason' = [reason EXCEPT ![t] = why]
  /\ state' = [state EXCEPT ![t] = "rejected"]
  /\ err' = None
  /\ refs' = Handover([refs EXCEPT ![t] = 1], t, v)
  /\ globals' = Bind(v, t)
  /\ frames' = WithTop(Step(Top))
  /\ UNCHANGED <<queue, draining, history>>

(* An operation of the statement fails and sets lastRuntimeError; what     *)
(* encloses it may still be evaluated (invokeFunc passes a null argument). *)
RaiseError ==
  /\ MayStep
  /\ err' = Owner
  /\ frames' = WithTop(Step(Top))
  /\ UNCHANGED <<queue, draining, taskVars, globals, history>>

(* A `secure` declaration leaves no error behind, whichever way it went.   *)
SecureClears ==
  /\ MayStep
  /\ err' = None
  /\ frames' = WithTop(Step(Top))
  /\ UNCHANGED <<queue, draining, taskVars, globals, history>>

(* invokeFunc and the call opcodes: a plain call, which runs at once.      *)
CallFunction(body) ==
  /\ MayStep /\ Depth < MaxDepth
  /\ frames' = Append(WithTop(Step(Top)), NewFrame("call", body, None))
  /\ UNCHANGED <<queue, draining, err, taskVars, globals, history>>

(* `await` evaluates its operand, which holds one reference from here on.  *)
BeginAwait(v) ==
  /\ MayStep /\ globals[v] # None
  /\ Owner # Module => LazyBodiesAwait
  /\ refs' = [refs EXCEPT ![globals[v]] = @ + 1]
  /\ frames' = WithTop([Step(Top) EXCEPT !.phase = "await", !.op = globals[v]])
  /\ UNCHANGED <<queue, draining, err, state, reason, globals, history>>

(* The loop of `await`: pending, something queued.  Under a drain          *)
(* processMicrotasks does nothing and the loop tries again.                *)
AwaitPump ==
  /\ Top.phase = "await" /\ state[Top.op] = "pending" /\ queue # <<>>
  /\ ProcessMicrotasks(Top, "await")
  /\ UNCHANGED <<queue, err, taskVars, globals, history>>

(* The end of `await`: the operand is released, the statement goes on.     *)
EndAwait ==
  /\ frames' = WithTop([Top EXCEPT !.phase = "run", !.op = None])
  /\ refs' = [refs EXCEPT ![Top.op] = @ - 1]
  /\ UNCHANGED <<queue, draining, state, reason, globals, order, settled>>

AwaitStalls ==
  /\ Top.phase = "await" /\ state[Top.op] = "pending" /\ queue = <<>>
  /\ err' = Owner
  /\ EndAwait /\ UNCHANGED delivered

AwaitResolved ==
  /\ Top.phase = "await" /\ state[Top.op] = "resolved"
  /\ EndAwait /\ UNCHANGED <<err, delivered>>

AwaitRejected ==
  /\ Top.phase = "await" /\ state[Top.op] = "rejected"
  /\ err' = reason[Top.op]
  /\ delivered' = delivered \cup {reason[Top.op]}
  /\ EndAwait

(* executeRuntimeBlock: a statement of a nested block ends.                *)
BlockStmtEnd ==
  /\ MayStep
  /\ ProcessMicrotasks(Step(Top), "run")
  /\ UNCHANGED <<queue, err, taskVars, globals, history>>

(* A statement of the body itself ends.                                    *)
StmtEnd ==
  /\ Top.phase = "run"
  /\ ProcessMicrotasks(Top, "next")
  /\ UNCHANGED <<queue, err, taskVars, globals, history>>

(* `return`, with or without a value.                                      *)
ReturnStmt(r) ==
  /\ Top.phase = "run" /\ Top.kind # "module"
  /\ ProcessMicrotasks([Top EXCEPT !.ret = r], "next")
  /\ UNCHANGED <<queue, err, taskVars, globals, history>>

(* An instruction of a V2 body fails: the body is left with no drain.      *)
V2Fail ==
  /\ Top.phase = "run" /\ Top.kind # "module" /\ Top.body = "V2"
  /\ err' = IF err = None THEN Owner ELSE err
  /\ frames' = WithTop([Top EXCEPT !.phase = "next", !.left = 0])
  /\ UNCHANGED <<queue, draining, taskVars, globals, history>>

(* A called body ends; the statement that called it goes on.               *)
ReturnFromCall ==
  /\ Top.phase = "next" /\ Top.kind = "call"
  /\ frames' = Below
  /\ UNCHANGED <<queue, draining, err, taskVars, globals, history>>

(* processOneMicrotask, up to the call of the task's body.                 *)
TakeMicrotask(body) ==
  /\ Top.phase = "drain" /\ queue # <<>>
  /\ queue' = Tail(queue)
  /\ frames' = Append(frames, NewFrame("task", body, Head(queue)))
  /\ UNCHANGED <<draining, err, taskVars, globals, history>>

(* Faulty: the error of a rejected task stays in lastRuntimeError.         *)
FinishKeepsError ==
  LET t == Top.task IN
  /\ Top.phase = "next" /\ Top.kind = "task"
  /\ IF Top.ret = "value" THEN Settle(t, "resolved", None) /\ err' = None
     ELSE Settle(t, "rejected", IF err = None THEN t ELSE err) /\ UNCHANGED err
  /\ refs' = [refs EXCEPT ![t] = @ - 1]
  /\ settled' = Append(settled, t)
  /\ frames' = Below
  /\ UNCHANGED <<queue, draining, globals, order, delivered>>

(* Faulty: the queue's reference to the Task is never released.            *)
FinishKeepsReference ==
  LET t == Top.task IN
  /\ Top.phase = "next" /\ Top.kind = "task"
  /\ IF Top.ret = "value" THEN Settle(t, "resolved", None)
     ELSE Settle(t, "rejected", IF err = None THEN t ELSE err)
  /\ err' = None
  /\ settled' = Append(settled, t)
  /\ frames' = Below
  /\ UNCHANGED <<queue, draining, refs, globals, order, delivered>>

(* processOneMicrotask, once the body has returned: the Task settles, the  *)
(* error slot is cleared, the queue's reference is released.               *)
FinishMicrotask ==
  LET t == Top.task IN
  /\ Top.phase = "next" /\ Top.kind = "task"
  /\ IF Top.ret = "value" THEN Settle(t, "resolved", None)
     ELSE Settle(t, "rejected", IF err = None THEN t ELSE err)
  /\ err' = None
  /\ refs' = [refs EXCEPT ![t] = @ - 1]
  /\ settled' = Append(settled, t)
  /\ frames' = Below
  /\ UNCHANGED <<queue, draining, globals, order, delivered>>

(* Faulty: isDrainingMicrotasks is never reset.                            *)
DrainEndStuck ==
  /\ Top.phase = "drain" /\ queue = <<>>
  /\ frames' = WithTop([Top EXCEPT !.phase = Top.then])
  /\ UNCHANGED <<queue, draining, err, taskVars, globals, history>>

(* processMicrotasks returns.                                              *)
DrainEnd ==
  /\ Top.phase = "drain" /\ queue = <<>>
  /\ draining' = FALSE
  /\ frames' = WithTop([Top EXCEPT !.phase = Top.then])
  /\ UNCHANGED <<queue, err, taskVars, globals, history>>

(* exec leaves its loop, at the end of the module or on an error, and      *)
(* drains the queue a last time.                                           *)
ModuleEnd ==
  /\ Top.phase = "next" /\ Top.kind = "module"
  /\ ProcessMicrotasks(Top, "cleanup")
  /\ UNCHANGED <<queue, err, taskVars, globals, history>>

(* clearScope releases what the global variables hold; exec returns.       *)
ClearScope ==
  /\ Top.phase = "cleanup"
  /\ refs' = [t \in Tasks |->
                refs[t] - Cardinality({v \in Vars : globals[v] = t})]
  /\ globals' = [v \in Vars |-> None]
  /\ frames' = WithTop([Top EXCEPT !.phase = "done"])
  /\ UNCHANGED <<queue, draining, err, state, reason, history>>

Terminated == Top.phase = "done" /\ UNCHANGED vars

Statement ==
  \/ NextStmt \/ RaiseError \/ SecureClears \/ BlockStmtEnd \/ StmtEnd
  \/ V2Fail \/ ReturnFromCall
  \/ \E t \in Tasks, v \in Vars \cup {None} :
       ScheduleLazy(t, v) \/ ScheduleLazyFails(t, v)
  \/ \E body \in Bodies : CallFunction(body)
  \/ \E r \in {"null", "value"} : ReturnStmt(r)

Await ==
  \/ \E v \in Vars : BeginAwait(v)
  \/ AwaitPump \/ AwaitStalls \/ AwaitResolved \/ AwaitRejected

Drain == DrainEnd \/ FinishMicrotask \/ \E body \in Bodies : TakeMicrotask(body)

Next == Statement \/ Await \/ Drain \/ ModuleEnd \/ ClearScope \/ Terminated

Spec == Init /\ [][Next]_vars

(* The interpreter is one thread that keeps executing.                     *)
FairSpec == Spec /\ WF_vars(Next)
-----------------------------------------------------------------------------
TypeOK ==
  /\ frames \in Seq(Frame) /\ frames # <<>>
  /\ queue \in Seq(Tasks) /\ draining \in BOOLEAN
  /\ err \in Origins \cup {None}
  /\ state \in [Tasks -> States] /\ reason \in [Tasks -> Origins \cup {None}]
  /\ refs \in [Tasks -> Int] /\ globals \in [Vars -> Tasks \cup {None}]
  /\ order \in Seq(Tasks) /\ settled \in Seq(Tasks)
  /\ delivered \in SUBSET Origins

Elements(s) == {s[i] : i \in 1..Len(s)}

(* At most one lazy body is on the stack, so no two of them interleave:    *)
(* the isDrainingMicrotasks guard of processMicrotasks.                    *)
OneTaskAtATime ==
  \A i, j \in 1..Depth :
    frames[i].kind = "task" /\ frames[j].kind = "task" => i = j

(* A Task is pending exactly while the queue or the stack still has the    *)
(* call that will settle it: no call is lost, none is run twice.           *)
PendingIsOwned ==
  {t \in Tasks : state[t] = "pending"} = Elements(queue) \cup Running

(* Calls settle in the order they were queued, also when some of them are  *)
(* queued by the bodies of others.                                         *)
SettledInOrder ==
  \A i \in 1..Len(settled) : i <= Len(order) /\ settled[i] = order[i]

(* Module-level code never gets "await stalled": outside a drain a pending *)
(* Task always has its call in the queue.                                  *)
StallOnlyUnderDrain ==
  Top.phase = "await" /\ state[Top.op] = "pending" /\ queue = <<>> => draining

(* Every reference to a Task is held by a variable, the queue, the task    *)
(* frame or an `await`: the releases of scheduleLazyCall, await and        *)
(* processOneMicrotask add up, on the failing paths too.                   *)
RefsBalanced ==
  \A t \in Tasks :
    refs[t] = Cardinality({v \in Vars : globals[v] = t})
            + Cardinality({i \in 1..Len(queue) : queue[i] = t})
            + Cardinality({i \in 1..Depth : frames[i].task = t})
            + Cardinality({i \in 1..Depth : frames[i].op = t})

(* The failure of a task nobody awaits stays in the Task: an error raised  *)
(* by a lazy body is seen by other code only if an `await` delivered it.   *)
ErrorCrossesOnlyByAwait == err \in Tasks => err = Owner \/ err \in delivered

(* When exec returns every queued call has run and every Task is freed.    *)
NothingLeftBehind ==
  Top.phase = "done" =>
    queue = <<>> /\ \A t \in Tasks : state[t] # "pending" /\ refs[t] = 0

(* The interpreter implements the abstract executor of lazy calls.         *)
Executor ==
  INSTANCE LazyExecutor WITH
    waiting <- queue, outcome <- state,
    active  <- IF TaskFrames = {} THEN None ELSE Owner

ImplementsExecutor == Executor!Spec

Awaiting(t) == \E i \in 1..Depth : frames[i].op = t

(* An `await` that has begun ends, with a value or with an error.          *)
AwaitCompletes == \A t \in Tasks : Awaiting(t) ~> ~Awaiting(t)

(* Every queued call settles and exec returns.                             *)
RunsToCompletion ==
  /\ \A t \in Tasks : state[t] = "pending" ~> state[t] # "pending"
  /\ <>(Top.phase = "done")
=============================================================================
