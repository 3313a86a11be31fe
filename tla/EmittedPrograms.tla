-------------------------- MODULE EmittedPrograms --------------------------
(* Function bodies for Bytecode: every construct evaluated, skipped by an  *)
(* expression, skipped with a block, and skipped after a return.           *)
EXTENDS Emission

V == VarRef
Call == CallDirect(<<>>)

Unaries ==
  {Cast(V), TypeCheck(V), MemberGet(V), MemberGetFieldSlot(V), Unary(V), TypedNegate(V),
   TypedIntrinsic(V), VarSet(V), LocalSet(V)}
Binaries ==
  {IndexGet(V, V), TypedIndexGet(V, V), Binary("&&", V, V), Binary("||", V, V),
   Binary("+", V, V), TypedBinary(V, V), TypedCompare(V, V), MemberSet(V, V),
   MemberSetFieldSlot(V, V), DictLiteral(<<V, V>>), VarSet(Binary("+", V, Literal))}
Ternaries == {Ternary(V, V, V), IndexSet(V, V, V), TypedIndexSet(V, V, V)}
Invocations ==
  {ArrayLiteral(<<V, V>>), NewObj(<<V, V>>), CallBuiltinMember(V, <<V, V>>),
   MemberIvk(V, <<V, V>>), IvkFunc(FuncRef, <<V, V>>), CallDirect(<<V, V>>)}
Leaves == {Literal, RegexLiteral, VarRef, LocalRef, TypedLocalRef, FuncRef}

AnyExpr == Unaries \cup Binaries \cup Ternaries \cup Invocations \cup Leaves

If(s) == Conditional(<<[cond |-> V, block |-> s]>>, <<>>)
Stmts ==
  {VarDecl(<<>>), VarDecl(V), LocalDecl(<<>>), LocalDecl(V),
   SecureDecl(TRUE, TRUE, V, <<Call>>), SecureDecl(FALSE, FALSE, V, <<>>),
   SecureLocalDecl(TRUE, FALSE, V, <<Return(<<>>)>>), FuncDecl, ClassDecl,
   Conditional(<<[cond |-> V, block |-> <<Call>>], [cond |-> V, block |-> <<Return(V)>>]>>,
               <<Call>>),
   Loop(V, <<Call>>), Loop(V, <<Return(V)>>), Return(<<>>), Return(V)}

Body(stmts) == FlattenSeq(stmts)

\* Constructs within constructs.
Nested ==
  {Ternary(Binary("&&", V, V), Binary("||", V, V), ArrayLiteral(<<V, V>>)),
   CallDirect(<<ArrayLiteral(<<V, Literal>>), V>>),
   CallBuiltinMember(IvkFunc(FuncRef, <<V>>), <<MemberIvk(V, <<V>>), V>>),
   IndexSet(CallDirect(<<V>>), Unary(V), Binary("+", V, V))}
NestedStmts ==
  {Loop(Binary("||", V, V), <<If(<<Return(V)>>), SecureDecl(TRUE, FALSE, V, <<Call>>)>>),
   If(<<If(<<Return(<<>>), Call>>), Loop(V, <<Call>>), Literal>>),
   SecureDecl(FALSE, TRUE, V, <<If(<<Return(<<>>)>>), Call>>)}

MCPrograms ==
  {Body(<<e, Call>>) : e \in AnyExpr \cup Nested}
  \cup {Body(<<Ternary(V, e, V), Call>>) : e \in AnyExpr \cup Nested}
  \cup {Body(<<LocalDecl(Binary("&&", V, e)), Call>>) : e \in AnyExpr \cup Nested}
  \cup {SecureDecl(TRUE, TRUE, e, <<Call>>) : e \in AnyExpr \cup Nested}
  \cup {Body(<<If(<<Return(<<>>), s>>), Call>>) : s \in Stmts \cup NestedStmts \cup AnyExpr}
  \cup {Body(<<If(<<s>>), Call>>) : s \in Stmts}
  \cup {Body(<<s, Call>>) : s \in NestedStmts}
=============================================================================
