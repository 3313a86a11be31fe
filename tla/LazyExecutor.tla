---------------------------- MODULE LazyExecutor ----------------------------
(***************************************************************************)
(* What lazy calls promise a program, whatever the interpreter's stack     *)
(* looks like: queued calls run one at a time, each to its end, in the     *)
(* order they were made, and a Task that has settled keeps its outcome.    *)
(***************************************************************************)
EXTENDS Sequences

CONSTANTS Tasks, None

VARIABLES
  waiting,  (* the calls not yet started, oldest first *)
  active,   (* the call whose body is being run, or None *)
  outcome   (* "unused", "pending", "resolved" or "rejected" *)

avars == <<waiting, active, outcome>>

Init ==
  /\ waiting = <<>> /\ active = None
  /\ outcome = [t \in Tasks |-> "unused"]

(* A call is queued. *)
Submit(t) ==
  /\ outcome[t] = "unused"
  /\ outcome' = [outcome EXCEPT ![t] = "pending"]
  /\ waiting' = Append(waiting, t)
  /\ UNCHANGED active

(* The arguments of a call fail: its Task never waits. *)
Refuse(t) ==
  /\ outcome[t] = "unused"
  /\ outcome' = [outcome EXCEPT ![t] = "rejected"]
  /\ UNCHANGED <<waiting, active>>

Start ==
  /\ active = None /\ waiting # <<>>
  /\ active' = Head(waiting)
  /\ waiting' = Tail(waiting)
  /\ UNCHANGED outcome

Complete ==
  /\ active # None
  /\ \E s \in {"resolved", "rejected"} :
       outcome' = [outcome EXCEPT ![active] = s]
  /\ active' = None
  /\ UNCHANGED waiting

Next == (\E t \in Tasks : Submit(t) \/ Refuse(t)) \/ Start \/ Complete

Spec == Init /\ [][Next]_avars
=============================================================================
