------------------------------ MODULE Bytecode ------------------------------
(***************************************************************************)
(* The V1 interpreter as a reader of the stream that Emission describes:   *)
(* evalExpr and execNorm read what they execute, skipExpr, skipRuntimeStmt *)
(* and skipRuntimeBlock read what must not be executed.  Nothing in the    *)
(* stream says where a construct ends, so whoever leaves one early leaves  *)
(* the position in the middle of it.                                       *)
(*                                                                         *)
(* Values are abstracted to what the readers tell apart: no object (null), *)
(* the two Bools, any other object.  A call is abstracted to reading its   *)
(* arguments: the body of a function is another stream.  Bytes that are    *)
(* read as something else than what was written, and bytes behind the end, *)
(* may stand for anything; the model stops there (status "garbled").       *)
(***************************************************************************)
EXTENDS Emission, FiniteSets, TLC

CONSTANT Programs   \* the function bodies to run, as emitted

VARIABLES
  code,        \* decodedBody, the bytes of the function, as tokens
  pos,         \* in.tellg()
  stack,       \* what is being read, outermost first
  willReturn,  \* willReturn of the function
  val,         \* what the finished parts of the open constructs gave, by position
  derailed,    \* a reader went on where its construct does not say so
  astray,      \* a reader ended somewhere else than at the end of its construct
  missed,      \* a secure declaration was left without binding and without its block
  status       \* "run", "done", "garbled" or "assert"

vars == <<code, pos, stack, willReturn, val, derailed, astray, missed, status>>

Bools == {"true", "false"}
NonNull == Bools \cup {"other"}
AnyValue == NonNull \cup {"null"}

Repeat(item, n) == [i \in 1..n |-> item]
TokenAt(c, p) == IF p \in DOMAIN c THEN c[p] ELSE [t |-> "eof"]

\* The opcodes; reading one byte yields one of them or a byte of an operand.
IsCode(tok) == tok.t \in {"op", "end", "conditional_end"}
OpcodeOf(tok) == IF tok.t = "op" THEN tok.op ELSE tok.t
OpensBlock(tok) == tok.t = "op" /\ tok.op = "BLOCK_BEGIN"

\* Behind the construct that begins at p.
EndAt(c, p) == IF TokenAt(c, p).t = "op" THEN p + c[p].size ELSE 0

\* What @@ of TLC is, of which the provers know nothing.
Joined(f, g) == [x \in DOMAIN f \cup DOMAIN g |-> IF x \in DOMAIN f THEN f[x] ELSE g[x]]

-----------------------------------------------------------------------------
(* What is read.  Items of a layout: an operand by its kind; e, an         *)
(* expression; args, pairs: a count, then as many; init, varinit, optid,   *)
(* optslot: a flag, then what it announces; block, a block in braces.      *)

SkipReferences ==
  [INTOBJCREATE |-> <<"object">>, VAR_REF |-> <<"id">>, FUNC_REF |-> <<"id">>,
   LOCAL_REF |-> <<"slot">>, TYPED_LOCAL_REF |-> <<"kind", "slot">>]

SkipCalls ==
  [IVKFUNC |-> <<"e", "args">>, CALL_DIRECT |-> <<"id", "args">>,
   CALL_BUILTIN_MEMBER |-> <<"e", "member", "args">>]

SkipOperators ==
  [UNARY_OPERATOR |-> <<"oprtr", "e">>, BINARY_OPERATOR |-> <<"oprtr", "e", "e">>,
   TYPED_BINARY |-> <<"kind", "oprtr", "e", "e">>, TYPED_NEGATE |-> <<"kind", "e">>,
   TYPED_COMPARE |-> <<"kind", "oprtr", "e", "e">>]

\* Faulty: the value that is assigned is not skipped.
SkipNoFieldValue ==
  [NEWOBJ |-> <<"id", "args">>,
   MEMBER_GET |-> <<"e", "id">>, MEMBER_GET_FIELD_SLOT |-> <<"e", "slot">>,
   MEMBER_SET |-> <<"e", "id", "e">>, MEMBER_SET_FIELD_SLOT |-> <<"e", "slot">>,
   MEMBER_IVK |-> <<"e", "id", "args">>, REGEX_LITERAL |-> <<"id", "id">>,
   VAR_SET |-> <<"id", "e">>, LOCAL_SET |-> <<"slot", "e">>]

SkipMembers ==
  [NEWOBJ |-> <<"id", "args">>,
   MEMBER_GET |-> <<"e", "id">>, MEMBER_GET_FIELD_SLOT |-> <<"e", "slot">>,
   MEMBER_SET |-> <<"e", "id", "e">>, MEMBER_SET_FIELD_SLOT |-> <<"e", "slot", "e">>,
   MEMBER_IVK |-> <<"e", "id", "args">>, REGEX_LITERAL |-> <<"id", "id">>,
   VAR_SET |-> <<"id", "e">>, LOCAL_SET |-> <<"slot", "e">>]

SkipIndexing ==
  [INDEX_GET |-> <<"e", "e">>, TYPED_INDEX_GET |-> <<"kind", "e", "e">>,
   INDEX_SET |-> <<"e", "e", "e">>, TYPED_INDEX_SET |-> <<"kind", "e", "e", "e">>,
   ARRAY_LITERAL |-> <<"args">>, DICT_LITERAL |-> <<"pairs">>,
   TYPECHECK |-> <<"e", "id">>, TERNARY |-> <<"e", "e", "e">>, CAST |-> <<"e", "id">>,
   TYPED_INTRINSIC |-> <<"kind", "oprtr", "e">>]

SkipExprLayouts ==
  Joined(SkipReferences, Joined(SkipCalls, Joined(SkipOperators,
    Joined(SkipMembers, SkipIndexing))))

SkipStmtLayouts ==
  [VAR |-> <<"id", "varinit">>, RETURN |-> <<"init">>,
   SECURE_DECL |-> <<"id", "optid", "optid", "e", "block">>, LOCAL_DECL |-> <<"slot", "init">>,
   SECURE_LOCAL_DECL |-> <<"slot", "optslot", "optid", "e", "block">>,
   CONDITIONAL |-> <<"specs", "conditional_end">>,
   FUNC |-> <<"function">>, CLASS_DEF |-> <<"class">>]

\* The opcodes without a case are taken for complete.
LayoutIn(layouts, op) == IF op \in DOMAIN layouts THEN layouts[op] ELSE <<>>

\* A statement of a skipped block: an expression where no declaration is.
SkippedStmt(op) ==
  IF op \in DOMAIN SkipStmtLayouts THEN SkipStmtLayouts[op] ELSE LayoutIn(SkipExprLayouts, op)

\* What is skipped after the condition type of a spec.
SkipSpec(type) == IF type = "ELSE" THEN <<"block">> ELSE <<"e", "block">>

Announced(item, v) ==
  (IF item = "varinit" THEN <<"attributes">> ELSE <<>>)
  \o (IF ~v THEN <<>>
      ELSE IF item = "optid" THEN <<"id">> ELSE IF item = "optslot" THEN <<"slot">> ELSE <<"e">>)

FlagItems == {"init", "varinit", "optid", "optslot"}
CountItems == {"args", "pairs", "specs"}
ExprItems == {"e", "arg", "discarded", "cond"}
BlockItems == {"branch", "else", "loop", "catch"}

\* The kind of token that an item reads first.
Wanted(item) ==
  CASE item \in FlagItems -> "flag"
    [] item \in CountItems -> "count"
    [] item = "spec" -> "condtype"
    [] item \in ExprItems -> "op"
    [] OTHER -> item

\* What the item stands for besides that token.
Skipped(item, tok) ==
  CASE item = "e" -> LayoutIn(SkipExprLayouts, tok.op)
    [] item \in FlagItems -> Announced(item, tok.v)
    [] item = "args" -> Repeat("e", tok.n)
    [] item = "pairs" -> Repeat("e", 2 * tok.n)
    [] item = "specs" -> Repeat("spec", tok.n)
    [] item = "spec" -> SkipSpec(tok.v)
    [] OTHER -> <<>>

\* What is skipped is made of these.
SkipItems ==
  {"object", "id", "slot", "kind", "oprtr", "member", "attributes", "function", "class",
   "conditional_end", "init", "varinit", "optid", "optslot", "args", "pairs", "specs", "spec",
   "e", "block", "stmts"}

\* Where skipping ends, or 0 when it reads an operand as something else.
SkipTo(c, items, from) ==
  LET to[x \in Seq(SkipItems) \X Nat] ==
        LET todo == x[1]  p == x[2]  tok == TokenAt(c, p)
        IN IF todo = <<>> THEN p
           ELSE CASE Head(todo) = "stmts" /\ tok.t = "end" -> to[<<Tail(todo), p + 1>>]
                  [] Head(todo) = "stmts" /\ tok.t # "end" /\ IsCode(tok)
                       -> to[<<SkippedStmt(OpcodeOf(tok)) \o todo, p + 1>>]
                  [] Head(todo) = "block" /\ OpensBlock(tok)
                       -> to[<<<<"stmts">> \o Tail(todo), p + 1>>]
                  [] Head(todo) = "block" /\ ~OpensBlock(tok) /\ IsCode(tok)
                       -> to[<<Tail(todo), p + 1>>]
                  [] tok.t = Wanted(Head(todo))
                       -> to[<<Skipped(Head(todo), tok) \o Tail(todo), p + 1>>]
                  [] OTHER -> 0
  IN to[<<items, from>>]

-----------------------------------------------------------------------------
(* What is evaluated.                                                      *)

EvalReferences ==
  [INTOBJCREATE |-> <<"object">>, VAR_REF |-> <<"id">>, LOCAL_REF |-> <<"slot">>,
   TYPED_LOCAL_REF |-> <<"kind", "slot">>, FUNC_REF |-> <<"id">>]

EvalCalls ==
  [IVKFUNC |-> <<"e", "args">>, CALL_DIRECT |-> <<"id", "args">>,
   CALL_BUILTIN_MEMBER |-> <<"e", "member", "args">>]

EvalOperators ==
  [UNARY_OPERATOR |-> <<"oprtr", "e">>, TYPED_NEGATE |-> <<"kind", "e">>,
   BINARY_OPERATOR |-> <<"oprtr", "e", "e">>, TYPED_BINARY |-> <<"kind", "oprtr", "e", "e">>,
   TYPED_COMPARE |-> <<"kind", "oprtr", "e", "e">>]

EvalAssignments == [VAR_SET |-> <<"id", "e">>, LOCAL_SET |-> <<"slot", "e">>]

EvalLiterals == [ARRAY_LITERAL |-> <<"args">>, DICT_LITERAL |-> <<"pairs">>]

\* Faulty: a cast reads its operand and not the type behind it.
EvalUntypedCast ==
  [TYPED_INTRINSIC |-> <<"kind", "oprtr", "e">>, TYPECHECK |-> <<"e", "id">>,
   CAST |-> <<"e">>, TERNARY |-> <<"e", "e", "e">>]

EvalTypes ==
  [TYPED_INTRINSIC |-> <<"kind", "oprtr", "e">>, TYPECHECK |-> <<"e", "id">>,
   CAST |-> <<"e", "id">>, TERNARY |-> <<"e", "e", "e">>]

EvalIndexing ==
  [INDEX_GET |-> <<"e", "e">>, TYPED_INDEX_GET |-> <<"kind", "e", "e">>,
   INDEX_SET |-> <<"e", "e", "e">>, TYPED_INDEX_SET |-> <<"kind", "e", "e", "e">>]

EvalMembers ==
  [NEWOBJ |-> <<"id", "args">>,
   MEMBER_GET |-> <<"e", "id">>, MEMBER_GET_FIELD_SLOT |-> <<"e", "slot">>,
   MEMBER_SET |-> <<"e", "id", "e">>, MEMBER_SET_FIELD_SLOT |-> <<"e", "slot", "e">>,
   MEMBER_IVK |-> <<"e", "id", "args">>, REGEX_LITERAL |-> <<"id", "id">>]

EvalLayouts ==
  Joined(EvalReferences, Joined(EvalCalls, Joined(EvalOperators, Joined(EvalAssignments,
    Joined(EvalLiterals, Joined(EvalTypes, Joined(EvalIndexing, EvalMembers)))))))

ExecLayouts ==
  [VAR |-> <<"id", "varinit">>, LOCAL_DECL |-> <<"slot", "init">>,
   SECURE_DECL |-> <<"id", "optid", "optid", "e", "catch">>,
   SECURE_LOCAL_DECL |-> <<"slot", "optslot", "optid", "e", "catch">>,
   CONDITIONAL |-> <<"specs", "conditional_end">>, RETURN |-> <<"init">>,
   FUNC |-> <<"function">>, CLASS_DEF |-> <<"class">>]

\* The expressions that execNorm takes for statements.
ExpressionStatements ==
  DOMAIN EvalLayouts \ {"INTOBJCREATE", "VAR_REF", "FUNC_REF"}

SpecItems(type) ==
  CASE type = "IF" -> <<"cond", "branch">>
    [] type = "ELSE" -> <<"else">>
    [] type = "LOOPIF" -> <<"cond", "loop">>

\* What an item that is not evaluated stands for, besides the token it reads.
Executed(item, tok) ==
  CASE item \in FlagItems -> Announced(item, tok.v)
    [] item = "args" -> Repeat("arg", tok.n)
    [] item = "pairs" -> Repeat("e", 2 * tok.n)
    [] item = "specs" -> Repeat("spec", tok.n)
    [] item = "spec" -> SpecItems(tok.v)
    [] OTHER -> <<>>

-----------------------------------------------------------------------------
(* A construct that is being read: its opcode and position, what is still  *)
(* to be read, what its expressions gave, and how it goes on: a call with  *)
(* its arguments ("plain", "lazy", "collect"), a conditional that has      *)
(* taken a branch ("taken").                                               *)

Frame(op, at, todo) ==
  [op |-> op, at |-> at, todo |-> todo, res |-> <<>>, mode |-> "plain"]

Top == Last(stack)
Item == Head(Top.todo)
Reading(items) == status = "run" /\ Top.todo # <<>> /\ Item \in items
Tok == TokenAt(code, pos)

\* A condition that gave no Bool fails an assertion before its block is read.
ConditionMissing ==
  Reading({"branch", "loop"}) /\ Last(Top.res) \notin Bools \cup {"skipped"}

AtBlock == Reading(BlockItems) /\ ~ConditionMissing

ReplaceTop(f) == stack' = Append(Front(stack), f)

\* How a call treats its arguments: a rejected receiver has them all evaluated
\* and dropped; a lazy function and a built-in member stop at a missing one.
Modes(f, item) ==
  IF item # "args" \/ f.op \in {"NEWOBJ", "ARRAY_LITERAL"} THEN {f.mode}
  ELSE IF f.op = "CALL_DIRECT" THEN {"plain", "lazy"}
  ELSE IF f.res[1] # "other" THEN {"plain"}
  ELSE {"plain", "lazy"} \cup (IF f.op = "CALL_BUILTIN_MEMBER" THEN {"collect"} ELSE {})

\* Faulty: `||` goes on when its left side is true.
PassesOrLikeAnd(f) ==
  CASE f.op = "BINARY_OPERATOR" /\ f.res # <<>> ->
         IF code[f.at + 1].v \in {"&&", "||"} THEN f.res[1] # "true" ELSE f.res[1] = "null"
    [] f.op \in {"TYPED_BINARY", "TYPED_COMPARE"} /\ f.res # <<>> -> f.res[1] = "null"
    [] f.op = "TERNARY" /\ Len(f.res) = 1 -> f.res[1] # "true"
    [] f.op = "TERNARY" /\ Len(f.res) = 2 -> f.res[1] # "false"
    [] f.op = "CONDITIONAL" -> f.mode = "taken" \/ willReturn
    [] OTHER -> FALSE

\* Whether the next expression of f is skipped.
Passes(f) ==
  CASE f.op = "BINARY_OPERATOR" /\ f.res # <<>> ->
         CASE code[f.at + 1].v = "&&" -> f.res[1] # "true"
           [] code[f.at + 1].v = "||" -> f.res[1] # "false"
           [] OTHER -> f.res[1] = "null"
    [] f.op \in {"TYPED_BINARY", "TYPED_COMPARE"} /\ f.res # <<>> -> f.res[1] = "null"
    [] f.op = "TERNARY" /\ Len(f.res) = 1 -> f.res[1] # "true"
    [] f.op = "TERNARY" /\ Len(f.res) = 2 -> f.res[1] # "false"
    [] f.op = "CONDITIONAL" -> f.mode = "taken" \/ willReturn
    [] OTHER -> FALSE

\* Whether the block of the item is executed.
Enters(f, item) ==
  CASE item = "branch" -> Last(f.res) = "true" /\ f.mode # "taken" /\ ~willReturn
    [] item = "else" -> f.mode # "taken" /\ ~willReturn
    [] item = "loop" -> Last(f.res) = "true" /\ ~willReturn
    [] item = "catch" -> Last(f.res) = "null"

\* f after its next part has given v.
Received(f, v) ==
  LET g == [f EXCEPT !.todo = Tail(@), !.res = Append(@, v)]
  IN CASE Head(f.todo) = "stmts" -> f
       [] Head(f.todo) = "again" -> f
       [] Head(f.todo) \in {"branch", "else", "catch"} -> [f EXCEPT !.todo = Tail(@)]
       [] Head(f.todo) = "arg" /\ v = "null" /\ (f.op = "ARRAY_LITERAL" \/ f.mode = "lazy")
            -> [g EXCEPT !.todo = <<>>]
       [] Head(f.todo) = "arg" /\ v = "null" /\ f.mode = "collect"
            -> [g EXCEPT !.todo = Repeat("discarded", Len(f.res) - 1 + Len(f.todo))]
       [] OTHER -> g

\* An element or argument that gives nothing, and the readers that do not read
\* the others, or read as many as there are from here.
Derails(f, v) ==
  /\ v = "null" /\ Head(f.todo) = "arg"
  /\ \/ (f.op = "ARRAY_LITERAL" \/ f.mode = "lazy") /\ Len(f.todo) > 1
     \/ f.mode = "collect"

Stored(v) == IF v = "null" THEN "false" ELSE v

CallOutcomes(f) ==
  CASE f.mode = "lazy" -> {"other"}
    [] f.mode = "collect" /\ \E i \in DOMAIN f.res : f.res[i] = "null" -> {"null"}
    [] f.op # "CALL_DIRECT" /\ f.res[1] # "other" -> {"null"}
    [] OTHER -> AnyValue

LogicOutcome(decided, r) ==
  IF r[1] \notin Bools THEN "null"
  ELSE IF r[1] = decided THEN decided
  ELSE IF r[2] \in Bools THEN r[2] ELSE "null"

\* What f may give now that all of it has been read.
Outcomes(f) ==
  LET r == f.res
      unless(missing, values) == IF missing THEN {"null"} ELSE values
      nothing == \E i \in DOMAIN r : r[i] = "null"
  IN CASE f.op \in {"INTOBJCREATE", "MEMBER_GET", "MEMBER_GET_FIELD_SLOT"} -> NonNull
       [] f.op \in {"VAR_REF", "LOCAL_REF"} -> AnyValue
       [] f.op \in {"FUNC_REF", "TYPED_LOCAL_REF", "REGEX_LITERAL"} -> {"null", "other"}
       [] f.op \in {"IVKFUNC", "CALL_DIRECT", "CALL_BUILTIN_MEMBER", "MEMBER_IVK"}
            -> CallOutcomes(f)
       [] f.op \in {"NEWOBJ", "DICT_LITERAL"} -> {"other"}
       [] f.op = "ARRAY_LITERAL" -> unless(nothing, {"other"})
       [] f.op = "BINARY_OPERATOR" ->
            CASE code[f.at + 1].v = "&&" -> {LogicOutcome("false", r)}
              [] code[f.at + 1].v = "||" -> {LogicOutcome("true", r)}
              [] OTHER -> unless(nothing, AnyValue)
       [] f.op \in {"UNARY_OPERATOR", "CAST", "INDEX_GET"} -> unless(nothing, AnyValue)
       [] f.op \in {"TYPED_BINARY", "TYPED_NEGATE", "TYPED_INTRINSIC", "TYPED_INDEX_GET"}
            -> unless(nothing, {"null", "other"})
       [] f.op = "TYPED_COMPARE" -> unless(nothing, {"null"} \cup Bools)
       [] f.op = "TYPECHECK" -> IF nothing THEN {"false"} ELSE Bools
       [] f.op = "TERNARY" ->
            {IF r[1] = "true" THEN r[2] ELSE IF r[1] = "false" THEN r[3] ELSE "null"}
       [] f.op \in {"VAR_SET", "LOCAL_SET"} -> {Stored(r[1])}
       [] f.op \in {"MEMBER_SET", "MEMBER_SET_FIELD_SLOT"} ->
            unless(r[1] = "null", {Stored(r[2]), "null"})
       [] f.op \in {"INDEX_SET", "TYPED_INDEX_SET"} ->
            unless(r[1] = "null" \/ r[2] = "null", {Stored(r[3]), "null"})
       [] OTHER -> {"null"}

-----------------------------------------------------------------------------
Init ==
  /\ code \in Programs
  /\ pos = 1
  /\ stack = <<Frame("BODY", 0, <<"stmts">>)>>
  /\ willReturn = FALSE
  /\ val = <<>>
  /\ derailed = FALSE /\ astray = FALSE /\ missed = FALSE
  /\ status = "run"

Before(p) == [q \in {q \in DOMAIN val : q < p} |-> val[q]]

\* The construct on top ends before position end and gave v.
Leave(v, end) ==
  LET f == stack[Len(stack) - 1]
  IN /\ stack' = Append(Front(Front(stack)), Received(f, v))
     /\ val' = IF f.op = "BODY" THEN <<>> ELSE Before(Top.at) @@ (Top.at :> v)
     /\ pos' = end
     /\ astray' = (astray \/ end # EndAt(code, Top.at))
     /\ derailed' = (derailed \/ Derails(f, v))
     /\ UNCHANGED <<code, missed, status>>

Enter(f) ==
  /\ stack' = Append(stack, f)
  /\ pos' = pos + 1
  /\ UNCHANGED <<code, willReturn, val, astray, missed, status>>

Stop(s) ==
  /\ status' = s
  /\ UNCHANGED <<code, pos, stack, willReturn, val, derailed, astray, missed>>

\* Skip what begins at start; the items that are left of it are read from here.
Skip(items, start, from, f) ==
  LET to == SkipTo(code, items, from)
  IN IF to = 0 THEN Stop("garbled")
     ELSE /\ ReplaceTop(f)
          /\ pos' = to
          /\ astray' = (astray \/ to # EndAt(code, start))
          /\ UNCHANGED <<code, willReturn, val, derailed, missed, status>>

Operands == FlagItems \cup CountItems
            \cup {"spec", "id", "slot", "kind", "object", "member", "oprtr", "attributes",
                  "function", "class", "conditional_end"}

ReadOperand ==
  /\ Reading(Operands) /\ Tok.t = Wanted(Item)
  /\ \E m \in Modes(Top, Item) :
       ReplaceTop([Top EXCEPT !.todo = Executed(Item, Tok) \o Tail(@), !.mode = m])
  /\ pos' = pos + 1
  /\ UNCHANGED <<code, willReturn, val, derailed, astray, missed, status>>

\* evalExpr
EvalExpr ==
  /\ Reading(ExprItems) /\ ~Passes(Top) /\ IsCode(Tok)
  /\ Enter(Frame(OpcodeOf(Tok), pos, LayoutIn(EvalLayouts, OpcodeOf(Tok))))
  /\ UNCHANGED derailed

PassExpr ==
  /\ Reading(ExprItems) /\ Passes(Top) /\ IsCode(Tok)
  /\ Skip(<<"e">>, pos, pos, [Top EXCEPT !.todo = Tail(@), !.res = Append(@, "skipped")])

\* An operand is read as an opcode, or as another operand.
Misread ==
  /\ \/ Reading(Operands) /\ Tok.t # Wanted(Item)
     \/ Reading(ExprItems \cup {"stmts"}) /\ ~IsCode(Tok)
     \/ AtBlock /\ ~IsCode(Tok)
  /\ ~(Top.op = "BODY" /\ Tok.t = "eof")
  /\ Stop("garbled")

ExprDone ==
  /\ status = "run" /\ Top.todo = <<>> /\ Top.op \notin DOMAIN ExecLayouts
  /\ \E v \in Outcomes(Top) : Leave(v, pos)
  /\ UNCHANGED willReturn

-----------------------------------------------------------------------------
(* Statements.                                                             *)

Ran == IF willReturn THEN "returned" ELSE "done"

\* execNorm.  A literal or a reference has no case: its operand is left.
NextStmt ==
  /\ Reading({"stmts"}) /\ ~willReturn /\ IsCode(Tok)
  /\ ~(Top.op = "BLOCK_BEGIN" /\ Tok.t = "end")
  /\ LET op == OpcodeOf(Tok)
     IN \/ /\ op \in DOMAIN ExecLayouts
           /\ Enter(Frame(op, pos, ExecLayouts[op])) /\ UNCHANGED derailed
        \/ /\ op \in ExpressionStatements
           /\ Enter(Frame(op, pos, EvalLayouts[op])) /\ UNCHANGED derailed
        \/ /\ op \notin DOMAIN ExecLayouts \cup ExpressionStatements
           /\ pos' = pos + 1
           /\ derailed' = TRUE
           /\ UNCHANGED <<code, stack, willReturn, val, astray, missed, status>>

StmtDone ==
  /\ status = "run" /\ Top.todo = <<>> /\ Top.op \in DOMAIN ExecLayouts \ {"RETURN"}
  /\ Leave(Ran, pos)
  /\ UNCHANGED willReturn

SetReturn ==
  /\ status = "run" /\ Top.todo = <<>> /\ Top.op = "RETURN"
  /\ willReturn' = TRUE
  /\ Leave("returned", pos)

\* executeRuntimeBlock, once the function returns.
PassStmt ==
  /\ Reading({"stmts"}) /\ willReturn /\ Top.op = "BLOCK_BEGIN"
  /\ IsCode(Tok) /\ Tok.t # "end"
  /\ Skip(SkippedStmt(OpcodeOf(Tok)), pos, pos + 1, Top)

EndBlock ==
  /\ Reading({"stmts"}) /\ Top.op = "BLOCK_BEGIN" /\ Tok.t = "end"
  /\ Leave(Ran, pos + 1)
  /\ UNCHANGED willReturn

\* The loop of invokeFuncWithValues ends.
EndBody ==
  /\ Reading({"stmts"}) /\ Top.op = "BODY" /\ (willReturn \/ Tok.t = "eof")
  /\ Stop("done")

-----------------------------------------------------------------------------
(* Blocks of conditionals, loops and secure declarations.                  *)

\* assert(StarbytesObjectTypecheck(condObject,StarbytesBoolType()))
AssertFails == ConditionMissing /\ Stop("assert")

EnterBlock ==
  /\ AtBlock /\ OpensBlock(Tok) /\ Enters(Top, Item)
  /\ LET f == CASE Item \in {"branch", "else"} -> [Top EXCEPT !.mode = "taken"]
                [] Item = "loop" -> [Top EXCEPT !.todo = <<"again">> \o Tail(@)]
                [] Item = "catch" -> Top
     IN stack' = Front(stack) \o <<f, Frame("BLOCK_BEGIN", pos, <<"stmts">>)>>
  /\ pos' = pos + 1
  /\ UNCHANGED <<code, willReturn, val, derailed, astray, missed, status>>

PassBlock ==
  /\ AtBlock /\ OpensBlock(Tok) /\ ~Enters(Top, Item)
  /\ Skip(<<"block">>, pos, pos, [Top EXCEPT !.todo = Tail(@)])

\* if(blockBegin != CODE_RTBLOCK_BEGIN): go on, or leave the secure declaration
NoBlock ==
  /\ AtBlock /\ ~OpensBlock(Tok) /\ IsCode(Tok)
  /\ ReplaceTop([Top EXCEPT !.todo = IF Item = "catch" THEN <<>> ELSE Tail(@)])
  /\ pos' = pos + 1
  /\ missed' = (missed \/ Item = "catch")
  /\ UNCHANGED <<code, willReturn, val, derailed, astray, status>>

\* The condition of a loop follows the opcode, a count and the condition type.
ConditionPos(f) == f.at + 3

EndIteration ==
  /\ Reading({"again"})
  /\ IF willReturn
     THEN /\ ReplaceTop([Top EXCEPT !.todo = Tail(@)])
          /\ UNCHANGED <<pos, val>>
     ELSE /\ ReplaceTop([Top EXCEPT !.todo = <<"cond", "loop">> \o Tail(@), !.res = <<>>])
          /\ pos' = ConditionPos(Top)
          /\ val' = Before(ConditionPos(Top))
  /\ UNCHANGED <<code, willReturn, derailed, astray, missed, status>>

Terminated == status # "run" /\ UNCHANGED vars

Next ==
  \/ ReadOperand \/ EvalExpr \/ PassExpr \/ Misread \/ ExprDone
  \/ NextStmt \/ StmtDone \/ SetReturn \/ PassStmt \/ EndBlock \/ EndBody
  \/ AssertFails \/ EnterBlock \/ PassBlock \/ NoBlock \/ EndIteration
  \/ Terminated

Spec == Init /\ [][Next]_vars
-----------------------------------------------------------------------------
(* Properties.                                                             *)

\* Types; every construct that is open lies in the one below it.
TypeOK ==
  /\ code \in Programs
  /\ pos \in 1..(Len(code) + 1)
  /\ stack # <<>> /\ stack[1].op = "BODY"
  /\ \A i \in DOMAIN stack :
       /\ stack[i].at < pos
       /\ i > 1 => stack[i - 1].at < stack[i].at
       /\ stack[i].mode \in {"plain", "lazy", "collect", "taken"}
       /\ \A k \in DOMAIN stack[i].res : stack[i].res[k] \in AnyValue \cup {"skipped"}
  /\ \A p \in DOMAIN val : val[p] \in AnyValue \cup {"done", "returned"}
  /\ willReturn \in BOOLEAN /\ derailed \in BOOLEAN /\ astray \in BOOLEAN
  /\ missed \in BOOLEAN /\ status \in {"run", "done", "garbled", "assert"}

\* skipExpr and skipRuntimeStmt agree with CodeGen: from wherever a construct
\* begins, what skips it ends where it ends.  The code does not change while it
\* is executed, so this is looked at once.
SkippingFollowsEmission ==
  pos = 1 => \A p \in DOMAIN code :
    code[p].t = "op" =>
      SkipTo(code, IF OpensBlock(code[p]) THEN <<"stmts">> ELSE SkippedStmt(code[p].op), p + 1)
        = EndAt(code, p)

\* evalExpr and execNorm agree with CodeGen, whatever is evaluated, skipped or
\* fails: an operand is taken for something else, or a construct left somewhere
\* else than at its end, only behind an element or argument that gave nothing,
\* or a statement that is a literal or a reference.
OnlyDerailedGoAstray == astray \/ missed \/ status = "garbled" => derailed

\* The catch block of a secure declaration is executed when its guarded
\* expression gave nothing (docs/StarbytesSemantics.md:303), whatever was
\* evaluated within that expression.
CatchBlockExecuted == ~missed

\* The parts of a construct that are due, by what the others gave
\* (docs/StarbytesSemantics.md:216, "short-circuit"; :267, "first true branch
\* executes"; section 7.2).
PartAt(at, k) == at + code[at].kids[k]
IsEvaluated(at, k) == PartAt(at, k) \in DOMAIN val
Gave(at, k, v) == IsEvaluated(at, k) /\ val[PartAt(at, k)] = v

\* Conditions stand at odd places, their blocks behind them, a last block alone.
ConditionalDue(at, k) ==
  IF k % 2 = 0 THEN Gave(at, k - 1, "true")
  ELSE \A j \in 1..(k - 1) : j % 2 = 1 => ~Gave(at, j, "true")

IsDue(at, op, k) ==
  CASE op = "BINARY_OPERATOR" /\ k = 2 ->
         CASE code[at + 1].v = "&&" -> Gave(at, 1, "true")
           [] code[at + 1].v = "||" -> Gave(at, 1, "false")
           [] OTHER -> ~Gave(at, 1, "null")
    [] op \in {"TYPED_BINARY", "TYPED_COMPARE"} /\ k = 2 -> ~Gave(at, 1, "null")
    [] op = "TERNARY" /\ k > 1 -> Gave(at, 1, IF k = 2 THEN "true" ELSE "false")
    [] op = "CONDITIONAL" -> ConditionalDue(at, k)
    [] op \in {"SECURE_DECL", "SECURE_LOCAL_DECL"} /\ k = 2 -> Gave(at, 1, "null")
    [] op = "BLOCK_BEGIN" -> \A j \in 1..(k - 1) : ~Gave(at, j, "returned")
    [] OTHER -> TRUE

\* What is evaluated of a construct is what is due, no more and no less: the
\* operands of a short-circuit or ternary expression, the first true branch,
\* the last iteration of a loop, the catch block, nothing behind a return.
EvaluatesWhatIsDue ==
  [][ Len(stack') < Len(stack) /\ ~derailed' =>
      \A k \in DOMAIN code[Top.at].kids :
        IsEvaluated(Top.at, k) <=> IsDue(Top.at, Top.op, k) ]_vars
=============================================================================
