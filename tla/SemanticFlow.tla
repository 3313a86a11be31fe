---------------------------- MODULE SemanticFlow ----------------------------
(* What the analyzer says about the local variables of one callable          *)
(* (SemanticA.cpp): which reads it refuses because the variable may not have *)
(* a value yet, whether the callable may fall through, which bindings it     *)
(* calls unused and which stores it calls dead.                              *)
(*                                                                           *)
(* The body is not stored.  Each action delivers its next statement (or the  *)
(* start, a seam or the end of a nested one), the four walks of the analyzer *)
(* take it in, and beside them stands what the executions that reach this    *)
(* place can hold: for every binding the set of stores its value may come    *)
(* from.  Every condition may go either way and every loop may run any       *)
(* number of times, so these sets are exact.                                 *)
EXTENDS Naturals, Sequences, FiniteSets

CONSTANTS Names,       \* the names a body can use
          Params,      \* those of them that are its parameters
          NonVoid,     \* its declared return type is not Void
          MaxEvents,   \* bound: statements and seams of a body
          MaxScopes    \* bound: scopes open at once

VARIABLES verdict,     \* "open", "accepted" or "rejected"
          scopes,      \* the open scopes, outermost first
          here,        \* what holds at this place of the body
          used,        \* bindings the usage walk has seen read
          unused,      \* bindings it has reported
          dead,        \* stores reported as overwritten or left unread
          reads,       \* stores whose value some execution has read
          loose,       \* bindings the initialization walk marks on trust
          blurred,     \* bindings the dead-store walk cannot follow
          length

vars == <<verdict, scopes, here, used, unused, dead, reads, loose, blurred, length>>

Nobody == "nobody"

(* Where a value can come from: no store yet, an optional's absence, the     *)
(* caller, a store of the body (named by its place), or whatever an earlier  *)
(* round of the loop opened at depth d left behind.                          *)
Unset      == <<"unset">>
Absent     == <<"absent">>
Given      == <<"given">>
Stored(n)  == <<"stored", n>>
Carried(d) == <<"carried", d>>

Depth == Len(scopes)

(* The first place that no value, pending write, report or read names.       *)
ValuesNow(h) == UNION {h.may[b] : b \in DOMAIN h.may}
NamedValues == {p[2] : p \in here.pending \cup here.waiting \cup dead \cup reads} \cup ValuesNow(here)
  \cup UNION {ValuesNow(scopes[d]) \cup ValuesNow(scopes[d].entry)
              \cup {p[2] : p \in scopes[d].entry.waiting} : d \in 1..Depth}
NewStore ==
  Stored(CHOOSE n \in 1..(MaxEvents + 1) :
           /\ Stored(n) \notin NamedValues
           /\ \A m \in 1..(n - 1) : Stored(m) \in NamedValues)

-----------------------------------------------------------------------------
(* Scopes.  A binding is <<depth, name>>.  The dead-store walk hoists the    *)
(* declarations of a block to its start; it and the usage walk know nothing  *)
(* of a catch variable.                                                      *)

Nearest(v, at) ==
  LET holding == {d \in 1..Depth : v \in at[d]}
  IN IF holding = {} THEN 0 ELSE CHOOSE d \in holding : \A e \in holding : e <= d

findNearestSemanticBinding(v) ==
  Nearest(v, [d \in 1..Depth |-> scopes[d].declared])

findNearestSemanticUsageBinding(v) ==
  Nearest(v, [d \in 1..Depth |-> IF scopes[d].kind = "caught" THEN {}
                                 ELSE scopes[d].declared])

findNearestSemanticDeadStoreBinding(v) ==
  Nearest(v, [d \in 1..Depth |-> IF scopes[d].kind = "caught" THEN {}
                                 ELSE scopes[d].hoisted])

(* Bindings that a mention of v touches in the dead-store walk although the  *)
(* declaration is still ahead, together with the one it really names.        *)
Early(v) ==
  LET told == findNearestSemanticDeadStoreBinding(v)
  IN IF told # 0 /\ v \notin scopes[told].declared
     THEN {<<told, v>>, <<findNearestSemanticBinding(v), v>>}
     ELSE {}

WithinScope(S, d) == {p \in S : p[1] <= d}
Outer(f, d) == [b \in WithinScope(DOMAIN f, d) |-> f[b]]

Scope(kind, hoisted, declared, entry) ==
  [kind |-> kind, hoisted |-> hoisted, declared |-> declared,
   entry |-> entry, outs |-> {}, may |-> <<>>, reached |-> FALSE]

-----------------------------------------------------------------------------
(* What a read and a store do to the place, and what the walks remember.     *)
(* The dead-store walk has one set of pending writes.  It keeps it over the  *)
(* branches of a conditional statement, for the conditions behind them: the  *)
(* writes that such a condition finds in it are told apart as `waiting'.     *)

MayOf(h, d, v) == IF d # 0 /\ h.reached THEN h.may[<<d, v>>] ELSE {}

(* Faulty: a branch or a loop leaves the pending writes alone.               *)
KeepPendingWrites(h) == h

clearSemanticDeadStorePendingWrites(h) == [h EXCEPT !.pending = {}, !.waiting = {}]

(* A read in evaluation order: the dead-store walk forgets the pending write *)
(* of the binding it resolves to.                                            *)
markSemanticDeadStoreRead(h, v) ==
  LET t == <<findNearestSemanticDeadStoreBinding(v), v>>
  IN [h EXCEPT !.pending = {p \in @ : p[1] # t}, !.waiting = {p \in @ : p[1] # t}]

ReadsOf(h, v) ==
  LET d == findNearestSemanticBinding(v)
  IN {<<<<d, v>>, s>> : s \in MayOf(h, d, v)}

(* The place where the initialization walk refuses a read of v.              *)
Refused(h, v) ==
  LET d == findNearestSemanticBinding(v)
  IN h.continues /\ d # 0 /\ <<d, v>> \notin h.inits

(* Faulty: the usage walk resolves names as the dead-store walk does.        *)
UseOfHoisted(v) ==
  LET d == findNearestSemanticDeadStoreBinding(v) IN IF d = 0 THEN {} ELSE {<<d, v>>}

UseOf(v) ==
  LET d == findNearestSemanticUsageBinding(v) IN IF d = 0 THEN {} ELSE {<<d, v>>}

(* A store to v: the initialization walk marks the binding, the dead-store   *)
(* walk reports a pending write of the one it finds and remembers this one.  *)
StoreAt(h, v, values) ==
  LET d == findNearestSemanticBinding(v)
      t == <<findNearestSemanticDeadStoreBinding(v), v>>
  IN [h EXCEPT !.inits   = IF d # 0 /\ h.continues THEN @ \cup {<<d, v>>} ELSE @,
               !.may     = IF d # 0 /\ h.reached THEN [@ EXCEPT ![<<d, v>>] = values] ELSE @,
               !.pending = IF t[1] = 0 THEN @
                           ELSE {p \in @ : p[1] # t} \cup {<<t, NewStore>>},
               !.waiting = {p \in @ : p[1] # t}]

markSemanticDeadStoreWrite(h, v) ==
  {p \in h.pending \cup h.waiting : p[1] = <<findNearestSemanticDeadStoreBinding(v), v>>}

(* The binding of v, if the write this store overwrites is one from before   *)
(* an earlier branch, which may have read it.                                *)
Overtaken(h, v) ==
  {p[1] : p \in {p \in h.waiting : p[1] = <<findNearestSemanticDeadStoreBinding(v), v>>}}

-----------------------------------------------------------------------------
(* Statements.                                                               *)

Takes == verdict = "open" /\ length < MaxEvents /\ length' = length + 1
Seam == verdict = "open" /\ UNCHANGED length
Top == scopes[Depth]
Place(kinds) == Top.kind \in kinds
Blocks == {"body", "if", "else", "loop", "catch"}
Conditions == {"if?", "loop?"}
Evaluating == Blocks \cup Conditions   \* where expressions are evaluated
Same(S) == UNCHANGED S

(* The reads worth remembering: the walks do not account for them yet.       *)
Untold(rs) ==
  {r \in rs : \/ r[1] \notin used'
              \/ r \in here'.pending \cup here'.waiting \cup dead' \cup UNION {scopes[d].entry.waiting : d \in 1..Depth}
              \/ r[2][1] = "carried"}

(* An expression reads v.                                                    *)
Read(v) ==
  /\ Takes /\ Place(Evaluating)
  /\ findNearestSemanticBinding(v) # 0
  /\ verdict' = IF Refused(here, v) THEN "rejected" ELSE verdict
  /\ used' = used \cup UseOf(v)
  /\ blurred' = blurred \cup Early(v)
  /\ here' = markSemanticDeadStoreRead(here, v)
  /\ Same(<<scopes, unused, dead, loose>>)
  /\ reads' = reads \cup Untold(ReadsOf(here, v))

(* v = e, as a statement or inside an operand that is always evaluated.      *)
Assign(v) ==
  /\ Takes /\ Place(Evaluating)
  /\ findNearestSemanticBinding(v) # 0
  /\ dead' = dead \cup markSemanticDeadStoreWrite(here, v)
  /\ here' = StoreAt(here, v, {NewStore})
  /\ blurred' = blurred \cup Early(v) \cup Overtaken(here, v)
  /\ Same(<<verdict, scopes, used, unused, reads, loose>>)

(* v = e inside an arm of a conditional expression or behind && or ||: every *)
(* walk takes it like any other assignment, an execution may skip it.        *)
AssignInArm(v) ==
  LET d == findNearestSemanticBinding(v)
      t == findNearestSemanticDeadStoreBinding(v)
  IN /\ Takes /\ Place(Evaluating) /\ d # 0
     /\ dead' = dead \cup markSemanticDeadStoreWrite(here, v)
     /\ here' = StoreAt(here, v, MayOf(here, d, v) \cup {NewStore})
     /\ loose' = loose \cup {<<d, v>>}
     /\ blurred' = blurred \cup {<<d, v>>, <<t, v>>} \cup Early(v)
     /\ Same(<<verdict, scopes, used, unused, reads>>)

(* An inline function mentions v.  Its body is checked with no binding of    *)
(* the enclosing callable in sight, so neither the initialization walk nor   *)
(* the dead-store walk sees the mention; the usage walk does.  It runs when  *)
(* the function is called, now or later.                                     *)
Capture(v) ==
  LET d == findNearestSemanticBinding(v)
  IN /\ Takes /\ Place(Evaluating) /\ d # 0
     /\ used' = used \cup UseOf(v)
     /\ blurred' = blurred \cup {<<d, v>>}
     /\ Same(<<verdict, scopes, here, unused, dead, loose>>)
     /\ reads' = reads \cup Untold(ReadsOf(here, v))

(* decl v = e, decl v:T, decl v:T?                                           *)
Declare(v, how) ==
  LET b == <<Depth, v>>
      value == CASE how = "initialized" -> NewStore
                 [] how = "optional" -> Absent
                 [] how = "bare" -> Unset
      declared == [here EXCEPT
        !.inits = IF how # "bare" /\ here.continues THEN @ \cup {b} ELSE @,
        !.may = IF here.reached
                THEN [x \in DOMAIN @ \cup {b} |-> IF x = b THEN {value} ELSE @[x]] ELSE @]
  IN /\ Takes /\ Place(Blocks)
     /\ v \in Top.hoisted \ Top.declared
     /\ scopes' = [scopes EXCEPT ![Depth].declared = @ \cup {v}]
     /\ dead' = IF how = "initialized" THEN dead \cup {p \in here.pending : p[1] = b} ELSE dead
     /\ here' = IF how = "initialized"
                THEN [declared EXCEPT !.pending = {p \in @ : p[1] # b} \cup {<<b, NewStore>>}]
                ELSE declared
     /\ Same(<<verdict, used, unused, reads, loose, blurred>>)

(* return: the initialization walk skips the rest of the block, the usage    *)
(* and dead-store walks go on, no execution does.                            *)
Return ==
  /\ Takes /\ Place(Blocks)
  /\ here' = [here EXCEPT !.continues = FALSE, !.reached = FALSE, !.may = <<>>]
  /\ Same(<<verdict, scopes, used, unused, dead, reads, loose, blurred>>)

-----------------------------------------------------------------------------
(* Blocks.  Leaving one, the usage walk reports its unread bindings and the  *)
(* dead-store walk its pending writes.                                       *)

Push(kind, hoisted, entry) == Append(scopes, Scope(kind, hoisted, {}, entry))
Room(n) == Depth + n <= MaxScopes

LeftUnread(d) ==
  {p \in here.pending : p[1][1] = d /\ p[1][2] \in scopes[d].hoisted}

LeftUnused(d) ==
  {b \in ({d} \X scopes[d].declared) : scopes[d].kind # "caught" /\ b \notin used}

CloseTop ==
  /\ Top.declared = Top.hoisted
  /\ unused' = unused \cup LeftUnused(Depth)
  /\ dead' = dead \cup LeftUnread(Depth)

(* A block opens at depth d: remember what the walks do on the way in, and   *)
(* forget what was said of an earlier block's bindings.                      *)
Entering(d, stored, trusted) ==
  /\ dead' = {p \in dead \cup stored : p[1][1] < d}
  /\ used' = WithinScope(used, d - 1)
  /\ reads' = {r \in reads : r[1][1] < d}
  /\ unused' = WithinScope(unused, d - 1)
  /\ loose' = WithinScope(loose \cup trusted, d - 1)
  /\ blurred' = WithinScope(blurred, d - 1)

(* What leaves a block: the state of the walk and the executions, without    *)
(* the bindings of the block.                                                *)
Leaving(d) ==
  [here EXCEPT !.inits = WithinScope(@, d), !.may = Outer(@, d)]

JoinMay(f, g) == [b \in DOMAIN f \cup DOMAIN g |->
  (IF b \in DOMAIN f THEN f[b] ELSE {}) \cup (IF b \in DOMAIN g THEN g[b] ELSE {})]

(* A statement with a condition: what the condition does comes first, in a   *)
(* scope that is no block yet.  Nothing has left the condition so far.       *)
Asking(kind) ==
  /\ Seam /\ length < MaxEvents /\ Place(Blocks) /\ Room(1)
  /\ scopes' = Push(kind, {}, [clearSemanticDeadStorePendingWrites(here) EXCEPT
                                 !.may = <<>>, !.reached = FALSE])
  /\ Same(<<verdict, used, unused, dead, reads, loose, blurred>>)

OpenIf == Asking("if?") /\ UNCHANGED here

(* The block behind a condition, and the state in which the condition was    *)
(* left, for whoever does not enter the block.                               *)
Behind(kind, hoisted, entry) ==
  /\ Takes
  /\ scopes' = [scopes EXCEPT ![Depth] = [@ EXCEPT !.kind = kind, !.hoisted = hoisted, !.entry = entry]]
  /\ here' = clearSemanticDeadStorePendingWrites(here)
  /\ Entering(Depth, {}, {})
  /\ Same(verdict)

(* if (...), else if (...): the initialization walk takes every condition    *)
(* and its branch from the state before the statement; the dead-store walk   *)
(* and the executions come to it through the conditions before.              *)
OpenBranch(hoisted) ==
  /\ Place({"if?"})
  /\ Behind("if", hoisted, [here EXCEPT !.inits = Top.entry.inits, !.pending = {},
                                        !.waiting = here.pending \cup here.waiting])

(* The end of a branch: if it continues, its state is one to be merged.      *)
EndBranch ==
  LET left == Leaving(Depth - 1)
      closed == [Top EXCEPT !.kind = IF @ = "else" THEN "after" ELSE "between",
                   !.hoisted = {}, !.declared = {},
                   !.outs = IF left.continues THEN @ \cup {left.inits} ELSE @,
                   !.may = JoinMay(@, left.may), !.reached = @ \/ left.reached]
  IN /\ Seam /\ Place({"if", "else"}) /\ CloseTop
     /\ scopes' = [scopes EXCEPT ![Depth] = closed]
     /\ here' = Top.entry
     /\ Same(<<verdict, used, reads, loose, blurred>>)

(* else if and else: again from the state before the statement.              *)
NextCondition ==
  /\ Seam /\ length < MaxEvents /\ Place({"between"})
  /\ scopes' = [scopes EXCEPT ![Depth].kind = "if?"]
  /\ Same(<<verdict, here, used, unused, dead, reads, loose, blurred>>)

OpenElse(hoisted) == Place({"between"}) /\ Behind("else", hoisted, Top.entry)

(* The branches that continue are merged: initialized is what all of them    *)
(* initialize.  Without an else the incoming state is one of them.           *)
(* Faulty: what any of them initializes.                                     *)
AnyOfThem(outs) == UNION outs

mergeContinuingSemanticFlowStates(outs) ==
  {b \in UNION outs : \A o \in outs : b \in o}

(* Faulty: the branches only, with or without an else.                       *)
BranchesOnly(cond) == cond.outs

ContinuingStates(cond) ==
  cond.outs \cup (IF cond.kind = "between" THEN {cond.entry.inits} ELSE {})

EndIf ==
  LET entry == Top.entry
      skips == Top.kind = "between"
      outs == ContinuingStates(Top)
  IN /\ Seam /\ Place({"between", "after"})
     /\ scopes' = SubSeq(scopes, 1, Depth - 1)
     /\ here' = [continues |-> entry.continues /\ outs # {},
                 inits |-> IF entry.continues /\ outs # {}
                           THEN mergeContinuingSemanticFlowStates(outs) ELSE entry.inits,
                 pending |-> {}, waiting |-> {},
                 may |-> IF skips THEN JoinMay(Top.may, entry.may) ELSE Top.may,
                 reached |-> Top.reached \/ (skips /\ entry.reached)]
     /\ Same(<<verdict, used, unused, dead, reads, loose, blurred>>)

(* while (...) and for (...): the condition of the first round starts from   *)
(* the state before, that of a later one also from what an earlier round     *)
(* left.                                                                     *)
OpenLoop ==
  /\ Asking("loop?")
  /\ here' = [here EXCEPT !.may = [b \in DOMAIN @ |-> @[b] \cup {Carried(Depth + 1)}]]

OpenRound(hoisted) ==
  Place({"loop?"}) /\ Behind("loop", hoisted, clearSemanticDeadStorePendingWrites(here))

(* The walk drops the state of the loop's body and goes on with the one      *)
(* behind the condition, where executions come from the first round and from *)
(* later ones.  What a round read of an earlier round's stores is read now.  *)
EndLoop ==
  LET left == Leaving(Depth - 1)
      entry == Top.entry
      mark == Carried(Depth)
  IN /\ Seam /\ Place({"loop"}) /\ CloseTop
     /\ scopes' = SubSeq(scopes, 1, Depth - 1)
     /\ here' = [entry EXCEPT
                   !.may = [b \in DOMAIN entry.may |->
                              IF mark \in entry.may[b]
                              THEN (JoinMay(entry.may, left.may)[b]) \ {mark} ELSE entry.may[b]]]
     /\ Same(<<verdict, used, loose, blurred>>)
     /\ reads' = {r \in reads : r[2] # mark} \cup
          Untold(UNION {{b} \X (left.may[b] \ {mark}) :
                          b \in {x \in DOMAIN left.may : <<x, mark>> \in reads}})

(* secure (decl v = e) catch (c): the walk declares v initialized, checks    *)
(* the catch block, and goes on with the state before it.  The execution     *)
(* that enters the catch block has not stored v.                             *)
OpenSecure(v, c, hoisted) ==
  LET b == <<Depth, v>>
      bound == [here EXCEPT !.pending = {}, !.waiting = {},
                            !.inits = IF here.continues THEN @ \cup {b} ELSE @,
                            !.may = IF here.reached
                                    THEN [x \in DOMAIN @ \cup {b} |-> IF x = b THEN {NewStore} ELSE @[x]]
                                    ELSE @]
      caught == IF c = Nobody THEN {} ELSE {c}
      at == IF c = Nobody THEN Depth ELSE Depth + 1
      failed == [x \in DOMAIN bound.may \cup ({Depth + 1} \X caught) |->
                   IF x = b THEN {Unset} ELSE IF x \in DOMAIN bound.may THEN bound.may[x] ELSE {Given}]
      catching == [bound EXCEPT
                     !.inits = IF here.continues THEN @ \cup ({Depth + 1} \X caught) ELSE @,
                     !.may = IF here.reached THEN failed ELSE @]
      declared == [scopes EXCEPT ![Depth].declared = @ \cup {v}]
  IN /\ Takes /\ Place(Blocks) /\ v \in Top.hoisted \ Top.declared
     /\ Room(IF c = Nobody THEN 1 ELSE 2)
     /\ scopes' = (IF c = Nobody THEN declared
                   ELSE Append(declared, Scope("caught", caught, caught, bound)))
                  \o <<Scope("catch", hoisted, {}, bound)>>
     /\ here' = catching
     /\ Entering(Depth + 1, {p \in here.pending : p[1] = b}, {b})
     /\ Same(verdict)

EndSecure ==
  LET named == scopes[Depth - 1].kind = "caught"
      outer == IF named THEN Depth - 2 ELSE Depth - 1
      left == Leaving(outer)
      entry == Top.entry
  IN /\ Seam /\ Place({"catch"}) /\ CloseTop
     /\ scopes' = SubSeq(scopes, 1, outer)
     /\ here' = [entry EXCEPT !.may = JoinMay(entry.may, left.may)]
     /\ Same(<<verdict, used, reads, loose, blurred>>)

(* The end of the body: a callable that must return may not continue here;   *)
(* then the scopes of the body and of the parameters close.                  *)
validateCallableSemanticFlow ==
  /\ verdict = "open" /\ Place({"body"}) /\ Top.declared = Top.hoisted
  /\ verdict' = IF NonVoid /\ here.continues THEN "rejected" ELSE "accepted"
  /\ unused' = unused \cup LeftUnused(Depth) \cup LeftUnused(1)
  /\ dead' = dead \cup LeftUnread(Depth) \cup LeftUnread(1)
  /\ Same(<<scopes, here, used, reads, loose, blurred, length>>)

Init ==
  \E hoisted \in SUBSET Names :
    LET params == {1} \X Params
        start == [continues |-> TRUE, inits |-> params, reached |-> TRUE,
                  pending |-> {<<b, Given>> : b \in params}, waiting |-> {},
                  may |-> [b \in params |-> {Given}]]
    IN /\ scopes = <<Scope("params", Params, Params, start), Scope("body", hoisted, {}, start)>>
       /\ here = start
       /\ verdict = "open" /\ length = 0
       /\ used = {} /\ unused = {} /\ dead = {} /\ reads = {} /\ loose = {} /\ blurred = {}

Next ==
  \/ \E v \in Names : Read(v) \/ Assign(v) \/ AssignInArm(v) \/ Capture(v)
  \/ \E v \in Names, how \in {"initialized", "bare", "optional"} : Declare(v, how)
  \/ Return
  \/ OpenIf \/ NextCondition \/ OpenLoop
  \/ \E hoisted \in SUBSET Names : OpenBranch(hoisted) \/ OpenElse(hoisted) \/ OpenRound(hoisted)
  \/ EndBranch \/ EndIf \/ EndLoop \/ EndSecure
  \/ \E v \in Names, c \in Names \cup {Nobody}, hoisted \in SUBSET Names : OpenSecure(v, c, hoisted)
  \/ validateCallableSemanticFlow

Spec == Init /\ [][Next]_vars

-----------------------------------------------------------------------------
(* At the end of any statement, on every execution: what the initialization  *)
(* walk calls initialized has a value (bindings it marks on trust aside: the *)
(* guarded variable behind a catch block, a store inside a conditional arm), *)
(* and where the walk says the body does not continue, no execution does.    *)
InitializedHasValue ==
  (verdict # "rejected" /\ here.reached) =>
    /\ here.continues
    /\ \A b \in here.inits \ loose : Unset \notin here.may[b]

(* A callable whose return type is not Void and that the analyzer accepts    *)
(* never runs off the end of its body.                                       *)
NeverFallsThrough == (verdict = "accepted" /\ NonVoid) => ~here.reached

(* A binding reported as unused is read by no execution.                     *)
UnusedIsUnread == \A b \in unused : \A r \in reads : r[1] # b

(* A store reported as dead is read by no execution, later rounds of a loop  *)
(* included, as long as the walk can follow the variable: no inline function *)
(* mentions it, no conditional arm stores to it, no inner declaration of its *)
(* name is still ahead where it is mentioned, and no condition of a later    *)
(* branch overwrites what an earlier branch may have read.                   *)
DeadStoresAreDead == \A p \in dead : p \in reads => p[1] \in blurred

(* docs/SemanticAndLintingCompletionMatrix.md:167 lists dead-store warnings  *)
(* for writes that are overwritten or left unread: then no execution would   *)
(* read what a warning names.                                                *)
ReportedStoresAreUnread == dead \cap reads = {}

(* docs/SemanticAndLintingCompletionMatrix.md:89 lists definite assignment   *)
(* of secure catch bindings as implemented: then a variable counted as       *)
(* initialized would have a value on every execution.                        *)
InitializedAlwaysHasValue ==
  (verdict # "rejected" /\ here.reached) => \A b \in here.inits : Unset \notin here.may[b]
=============================================================================
