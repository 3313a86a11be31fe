------------------------------ MODULE Emission ------------------------------
(***************************************************************************)
(* The V1 bytecode that CodeGen::consumeStmt and CodeGen::consumeDecl      *)
(* write.  A stream is a sequence of tokens: opcodes, and the operands     *)
(* between them (an id, a slot, a kind, a serialized object or function,   *)
(* a count, a flag).  A token stands for all the bytes of its operand.     *)
(*                                                                         *)
(* A statement or an expression is written from the streams of its parts,  *)
(* so an operator below takes what its parts were emitted to.  The token   *)
(* of an opcode also carries what the stream does not: the size of what it *)
(* begins and where its parts begin.  Only properties look at those two.   *)
(***************************************************************************)
EXTENDS Naturals, Sequences, SequencesExt

\* A part that is written in place, and one that is a child of its node.
Raw(tokens) == [child |-> FALSE, tokens |-> tokens]
Child(tokens) == [child |-> TRUE, tokens |-> tokens]

Operand(kind) == Raw(<<[t |-> kind]>>)
Oprtr(v) == Raw(<<[t |-> "oprtr", v |-> v]>>)
Flag(v) == Raw(<<[t |-> "flag", v |-> v]>>)
CondType(v) == Raw(<<[t |-> "condtype", v |-> v]>>)
Count(n) == Raw(<<[t |-> "count", n |-> n]>>)
Children(streams) == [i \in DOMAIN streams |-> Child(streams[i])]

TokensOf(parts) == FlattenSeq([i \in DOMAIN parts |-> parts[i].tokens])

\* Where part i begins, counted from the opcode of its node.
OffsetOf(parts, i) == 1 + Len(TokensOf(SubSeq(parts, 1, i - 1)))

\* Where the children among the parts begin.
KidsOf(parts) ==
  LET kids[i \in 0..Len(parts)] ==
        IF i = 0 THEN <<>>
        ELSE IF parts[i].child THEN Append(kids[i - 1], OffsetOf(parts, i)) ELSE kids[i - 1]
  IN kids[Len(parts)]

Node(op, parts) ==
  <<[t |-> "op", op |-> op, size |-> 1 + Len(TokensOf(parts)), kids |-> KidsOf(parts)]>>
  \o TokensOf(parts)

-----------------------------------------------------------------------------
(* Expressions: consumeStmt.                                               *)

Literal == Node("INTOBJCREATE", <<Operand("object")>>)
RegexLiteral == Node("REGEX_LITERAL", <<Operand("id"), Operand("id")>>)
VarRef == Node("VAR_REF", <<Operand("id")>>)
LocalRef == Node("LOCAL_REF", <<Operand("slot")>>)
TypedLocalRef == Node("TYPED_LOCAL_REF", <<Operand("kind"), Operand("slot")>>)
FuncRef == Node("FUNC_REF", <<Operand("id")>>)

ArrayLiteral(elements) ==
  Node("ARRAY_LITERAL", <<Count(Len(elements))>> \o Children(elements))

\* entries: a key and its value for every pair, in order.
DictLiteral(entries) ==
  Node("DICT_LITERAL", <<Count(Len(entries) \div 2)>> \o Children(entries))

Cast(e) == Node("CAST", <<Child(e), Operand("id")>>)
TypeCheck(e) == Node("TYPECHECK", <<Child(e), Operand("id")>>)

MemberGet(e) == Node("MEMBER_GET", <<Child(e), Operand("id")>>)
MemberGetFieldSlot(e) == Node("MEMBER_GET_FIELD_SLOT", <<Child(e), Operand("slot")>>)

IndexGet(e, i) == Node("INDEX_GET", <<Child(e), Child(i)>>)
TypedIndexGet(e, i) == Node("TYPED_INDEX_GET", <<Operand("kind"), Child(e), Child(i)>>)

Unary(e) == Node("UNARY_OPERATOR", <<Oprtr("!"), Child(e)>>)
TypedNegate(e) == Node("TYPED_NEGATE", <<Operand("kind"), Child(e)>>)

Binary(o, l, r) == Node("BINARY_OPERATOR", <<Oprtr(o), Child(l), Child(r)>>)
TypedBinary(l, r) ==
  Node("TYPED_BINARY", <<Operand("kind"), Oprtr("+"), Child(l), Child(r)>>)
TypedCompare(l, r) ==
  Node("TYPED_COMPARE", <<Operand("kind"), Oprtr("<"), Child(l), Child(r)>>)

Ternary(c, l, r) == Node("TERNARY", <<Child(c), Child(l), Child(r)>>)
TypedIntrinsic(e) == Node("TYPED_INTRINSIC", <<Operand("kind"), Oprtr("sqrt"), Child(e)>>)

\* Assignments.  A compound one passes Binary(_, <the target read>, e) as e.
VarSet(e) == Node("VAR_SET", <<Operand("id"), Child(e)>>)
LocalSet(e) == Node("LOCAL_SET", <<Operand("slot"), Child(e)>>)
MemberSet(target, e) == Node("MEMBER_SET", <<Child(target), Operand("id"), Child(e)>>)
MemberSetFieldSlot(target, e) ==
  Node("MEMBER_SET_FIELD_SLOT", <<Child(target), Operand("slot"), Child(e)>>)
IndexSet(target, i, e) == Node("INDEX_SET", <<Child(target), Child(i), Child(e)>>)
TypedIndexSet(target, i, e) ==
  Node("TYPED_INDEX_SET", <<Operand("kind"), Child(target), Child(i), Child(e)>>)

\* Invocations: the number of the arguments, then the arguments.
Arguments(args) == <<Count(Len(args))>> \o Children(args)

NewObj(args) == Node("NEWOBJ", <<Operand("id")>> \o Arguments(args))
CallBuiltinMember(e, args) ==
  Node("CALL_BUILTIN_MEMBER", <<Child(e), Operand("member")>> \o Arguments(args))
MemberIvk(e, args) == Node("MEMBER_IVK", <<Child(e), Operand("id")>> \o Arguments(args))
IvkFunc(callee, args) == Node("IVKFUNC", <<Child(callee)>> \o Arguments(args))
CallDirect(args) == Node("CALL_DIRECT", <<Operand("id")>> \o Arguments(args))

-----------------------------------------------------------------------------
(* Declarations: consumeDecl.  <<>> stands for an absent part.             *)

Block(stmts) == Node("BLOCK_BEGIN", Children(stmts) \o <<Raw(<<[t |-> "end"]>>)>>)

Initializer(e) == <<Flag(e # <<>>)>> \o (IF e = <<>> THEN <<>> ELSE <<Child(e)>>)
Optional(has, kind) == <<Flag(has)>> \o (IF has THEN <<Operand(kind)>> ELSE <<>>)

\* << of RTVar: the id, whether there is a value, the attributes.
VarDecl(e) ==
  Node("VAR", <<Operand("id"), Flag(e # <<>>), Operand("attributes")>>
              \o (IF e = <<>> THEN <<>> ELSE <<Child(e)>>))
LocalDecl(e) == Node("LOCAL_DECL", <<Operand("slot")>> \o Initializer(e))

SecureDecl(binding, type, guard, catch) ==
  Node("SECURE_DECL",
       <<Operand("id")>> \o Optional(binding, "id") \o Optional(type, "id")
       \o <<Child(guard), Child(Block(catch))>>)
SecureLocalDecl(binding, type, guard, catch) ==
  Node("SECURE_LOCAL_DECL",
       <<Operand("slot")>> \o Optional(binding, "slot") \o Optional(type, "id")
       \o <<Child(guard), Child(Block(catch))>>)

\* << of RTFuncTemplate with its body, which is read by its size.
FuncDecl == Node("FUNC", <<Operand("function")>>)
ClassDecl == Node("CLASS_DEF", <<Operand("class")>>)

\* specs: the conditions with their blocks; other: the block of `else`, or <<>>.
Conditional(specs, other) ==
  LET branch(s) == <<CondType("IF"), Child(s.cond), Child(Block(s.block))>>
      branches == FlattenSeq([i \in DOMAIN specs |-> branch(specs[i])])
      last == IF other = <<>> THEN <<>> ELSE <<CondType("ELSE"), Child(Block(other))>>
  IN Node("CONDITIONAL", <<Count(Len(specs) + (IF other = <<>> THEN 0 ELSE 1))>>
                         \o branches \o last \o <<Operand("conditional_end")>>)

Loop(cond, body) ==
  Node("CONDITIONAL", <<Count(1), CondType("LOOPIF"), Child(cond), Child(Block(body)),
                        Operand("conditional_end")>>)

Return(e) == Node("RETURN", Initializer(e))
=============================================================================
