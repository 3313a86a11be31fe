--------------------------- MODULE ConstructorFlow ---------------------------
(* What the analyzer says about one constructor (SemanticA.cpp, the field    *)
(* initialization policy): which required fields it may leave without a      *)
(* value, which it stores to twice, and where a field is read or the object  *)
(* handed out too early.  Like SemanticFlow the body arrives statement by    *)
(* statement; the walk's path states stand beside those of the executions.   *)
EXTENDS Naturals, Sequences, FiniteSets

CONSTANTS Required,    \* fields without an initializer and not optional
          Preset,      \* fields with an initializer, run before the body
          MaxEvents,   \* bound: statements and seams of a body
          MaxBlocks    \* bound: blocks open at once

VARIABLES verdict,     \* "open", "accepted" or "rejected"
          blocks,      \* the open blocks, outermost first
          states,      \* the walk's path states at this place
          exits,       \* and those at the returns so far
          runs,        \* the executions at this place
          ends,        \* and those that have returned
          warned,      \* what the walk has warned about, and what deserved it
          duplicated,  \* fields it reports as stored to twice
          skipped,     \* fields stored to inside an arm an execution may skip
          repeated,    \* fields stored to inside a loop
          length

vars == <<verdict, blocks, states, exits, runs, ends, warned, duplicated, skipped, repeated, length>>

trackedFields == Required \cup Preset
Start == [initialized |-> {}, duplicate |-> {}]

Depth == Len(blocks)
Top == blocks[Depth]
Takes == verdict = "open" /\ length < MaxEvents /\ length' = length + 1
Seam == verdict = "open" /\ UNCHANGED length
InLoop == \E d \in 1..Depth : blocks[d].kind = "loop"

Block(kind) == [kind |-> kind, states |-> states, runs |-> runs, outs |-> {}, left |-> {}]

-----------------------------------------------------------------------------
(* Faulty: a second store is not told from the first.                        *)
StoreOnce(s, f) == [s EXCEPT !.initialized = @ \cup {f}]

(* self.f = e                                                                *)
StoreTo(s, f) ==
  [initialized |-> s.initialized \cup {f},
   duplicate |-> IF f \in s.initialized THEN s.duplicate \cup {f} ELSE s.duplicate]

missingRequiredFieldsFromState(s) == Required \ s.initialized
missingRequiredFieldsFromStates(S) == UNION {missingRequiredFieldsFromState(s) : s \in S}
duplicateFieldsFromStates(S) == UNION {s.duplicate : s \in S}

Place == Top.kind \notin {"between", "after"}

Store(f) ==
  /\ Takes /\ Place
  /\ states' = {StoreTo(s, f) : s \in states}
  /\ runs' = {[initialized |-> r.initialized \cup {f},
               duplicate |-> r.duplicate \cup ({f} \cap r.initialized)] : r \in runs}
  /\ repeated' = IF InLoop THEN repeated \cup {f} ELSE repeated
  /\ UNCHANGED <<verdict, blocks, exits, ends, warned, duplicated, skipped>>

(* The same inside an arm of a conditional expression or behind && or ||.    *)
StoreInArm(f) ==
  /\ Takes /\ Place
  /\ states' = {StoreTo(s, f) : s \in states}
  /\ runs' = runs \cup {[initialized |-> r.initialized \cup {f},
                         duplicate |-> r.duplicate \cup ({f} \cap r.initialized)] : r \in runs}
  /\ skipped' = skipped \cup {f}
  /\ repeated' = IF InLoop THEN repeated \cup {f} ELSE repeated
  /\ UNCHANGED <<verdict, blocks, exits, ends, warned, duplicated>>

(* Some path meets an uninitialized field of these.                          *)
TooEarly(fields, S) == \E s \in S : ~(fields \subseteq s.initialized)

(* self.f is read: with a warning when a path has not initialized f.  What   *)
(* deserves it is an execution whose f has no value: the store of an         *)
(* initializer is one.                                                       *)
ReadField(f) ==
  /\ Takes /\ Place
  /\ warned' = [what |-> {f} \ Preset, told |-> TooEarly({f}, states),
                due |-> f \in Required /\ \E r \in runs : f \notin r.initialized]
  /\ UNCHANGED <<verdict, blocks, states, exits, runs, ends, duplicated, skipped, repeated>>

(* self by itself, or a call of one of its methods: anything may be read.    *)
UseSelf ==
  /\ Takes /\ Place
  /\ warned' = [what |-> Required, told |-> TooEarly(Required, states),
                due |-> \E r \in runs : ~(Required \subseteq r.initialized)]
  /\ UNCHANGED <<verdict, blocks, states, exits, runs, ends, duplicated, skipped, repeated>>

Return ==
  /\ Takes /\ Place
  /\ exits' = exits \cup states /\ states' = {}
  /\ ends' = ends \cup runs /\ runs' = {}
  /\ UNCHANGED <<verdict, blocks, warned, duplicated, skipped, repeated>>

-----------------------------------------------------------------------------
Open(kind) ==
  /\ Takes /\ Place /\ Depth < MaxBlocks
  /\ blocks' = Append(blocks, Block(kind))
  /\ UNCHANGED <<verdict, states, exits, runs, ends, warned, duplicated, skipped, repeated>>

EndBranch ==
  /\ Seam /\ Top.kind \in {"if", "else"}
  /\ blocks' = [blocks EXCEPT ![Depth].kind = IF @ = "else" THEN "after" ELSE "between",
                              ![Depth].outs = @ \cup states, ![Depth].left = @ \cup runs]
  /\ states' = Top.states /\ runs' = Top.runs
  /\ UNCHANGED <<verdict, exits, ends, warned, duplicated, skipped, repeated>>

NextBranch(kind) ==
  /\ Takes /\ Top.kind = "between"
  /\ blocks' = [blocks EXCEPT ![Depth].kind = kind]
  /\ UNCHANGED <<verdict, states, exits, runs, ends, warned, duplicated, skipped, repeated>>

(* Without an else the incoming state goes on as well.                       *)
EndIf ==
  /\ Seam /\ Top.kind \in {"between", "after"}
  /\ blocks' = SubSeq(blocks, 1, Depth - 1)
  /\ states' = Top.outs \cup (IF Top.kind = "between" THEN Top.states ELSE {})
  /\ runs' = Top.left \cup (IF Top.kind = "between" THEN Top.runs ELSE {})
  /\ UNCHANGED <<verdict, exits, ends, warned, duplicated, skipped, repeated>>

(* Faulty: what the body of a loop initializes counts behind it.             *)
OnlyThroughTheLoop(before, after) == after

(* The walk goes on with the state before the loop; the body's returns have  *)
(* been kept.                                                                *)
BehindLoop(before, after) == before

EndLoop ==
  /\ Seam /\ Top.kind = "loop"
  /\ blocks' = SubSeq(blocks, 1, Depth - 1)
  /\ states' = BehindLoop(Top.states, states)
  /\ runs' = Top.runs \cup runs
  /\ UNCHANGED <<verdict, exits, ends, warned, duplicated, skipped, repeated>>

(* The end of a catch block: the guarded expression has succeeded, or failed *)
(* and the catch block has run.                                              *)
EndSecure ==
  /\ Seam /\ Top.kind = "catch"
  /\ blocks' = SubSeq(blocks, 1, Depth - 1)
  /\ states' = Top.states \cup states
  /\ runs' = Top.runs \cup runs
  /\ UNCHANGED <<verdict, exits, ends, warned, duplicated, skipped, repeated>>

(* The end of the body: rejected when a path leaves a required field out,    *)
(* otherwise accepted with the fields some path stores to twice.             *)
validateClassFieldInitializationPolicy ==
  /\ Seam /\ Top.kind = "body"
  /\ exits' = exits \cup states /\ ends' = ends \cup runs
  /\ verdict' = IF missingRequiredFieldsFromStates(exits \cup states) = {}
                THEN "accepted" ELSE "rejected"
  /\ duplicated' = IF verdict' = "accepted"
                   THEN duplicateFieldsFromStates(exits \cup states) ELSE {}
  /\ UNCHANGED <<blocks, states, runs, warned, skipped, repeated>>

Init ==
  /\ verdict = "open" /\ length = 0
  /\ states = {Start} /\ runs = {Start} /\ exits = {} /\ ends = {}
  /\ blocks = <<Block("body")>>
  /\ warned = [what |-> {}, told |-> FALSE, due |-> FALSE]
  /\ duplicated = {} /\ skipped = {} /\ repeated = {}

Next ==
  \/ \E f \in trackedFields : Store(f) \/ StoreInArm(f) \/ ReadField(f)
  \/ UseSelf \/ Return
  \/ \E kind \in {"if", "loop", "catch"} : Open(kind)
  \/ \E kind \in {"if", "else"} : NextBranch(kind)
  \/ EndBranch \/ EndIf \/ EndLoop \/ EndSecure
  \/ validateClassFieldInitializationPolicy

Spec == Init /\ [][Next]_vars

-----------------------------------------------------------------------------
(* An accepted constructor gives every required field a value on every       *)
(* execution, fields stored to inside a skippable arm aside; it reports a    *)
(* field as stored to twice exactly when some execution does so, fields      *)
(* stored to inside a loop or an arm aside.                                  *)
ConstructorsInitialize ==
  verdict = "accepted" =>
    /\ \A r \in ends : Required \subseteq r.initialized \cup skipped
    /\ \A f \in trackedFields \ (repeated \cup skipped) :
         f \in duplicated <=> \E r \in ends : f \in r.duplicate

(* A required field is reported as read too early, and self as escaping too  *)
(* early, exactly when some execution does that (arms aside).                *)
ConstructionWarningsExact ==
  (warned.what # {} /\ skipped = {}) => (warned.told <=> warned.due)
=============================================================================
