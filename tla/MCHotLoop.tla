----------------------------- MODULE MCHotLoop -----------------------------
(* Model-checking instances of HotLoop: bytecode of the form the lowerer    *)
(* emits, built into execution images.                                     *)
EXTENDS HotLoop

In(op, a, b, c) == [op |-> op, kind |-> 0, aux |-> 0, a |-> a, b |-> b, c |-> c]

(* Statements: a constant, a fused update, a call, an array read, a fused   *)
(* array update, a square root, a statement left to the V1 interpreter.    *)
Load   == <<In("LoadConst", 9, 0, 0), In("Move", 1, 9, 0)>>
Fuse   == <<In("Binary", 9, 0, 0), In("Move", 1, 9, 0)>>
Call   == <<In("CallDirect", 9, 0, 0), In("Move", 1, 9, 0)>>
Get    == <<In("ArrayGet", 9, 2, 3), In("Move", 1, 9, 0)>>
Update == <<In("ArrayGet", 8, 2, 3), In("Binary", 9, 8, 1), In("ArraySet", 2, 3, 9)>>
Root   == <<In("IntrinsicSqrt", 9, 1, 0), In("Move", 1, 9, 0)>>
Stmt   == <<In("V1Stmt", 0, 0, 0)>>
Return == <<In("Return", 1, 0, 0)>>

(* while(x < y){ body } placed at pc `at`.                                 *)
While(at, body) ==
  <<In("Compare", 7, 0, 1), In("JumpIfFalse", 7, at + Len(body) + 3, 0)>>
  \o body \o <<In("Jump", at, 0, 0)>>

(* while(flag){ body }: a branch that is not fused.                        *)
WhileFlag(at, body) ==
  <<In("JumpIfFalse", 7, at + Len(body) + 2, 0)>>
  \o body \o <<In("Jump", at, 0, 0)>>

Codes ==
  {While(0, body) \o end : body \in {Load, Fuse, Call, Get, Update, Root, Stmt},
                           end \in {Return, Stmt}}
  \cup {Fuse \o While(2, body) \o Return : body \in {Fuse, Get, Call \o Update}}
  \cup {WhileFlag(0, Fuse) \o Return, Call \o Stmt}
  \cup {While(0, While(2, Load) \o Call) \o Return,
        Load \o While(2, While(4, Fuse)) \o Stmt,
        While(0, While(2, Get) \o While(7, Root)) \o Return}

(* while(a[i] < y){ body }: the array is read before anything is fused.    *)
WhileGet(at, body) ==
  <<In("ArrayGet", 8, 2, 3), In("Compare", 7, 8, 1),
    In("JumpIfFalse", 7, at + Len(body) + 4, 0)>>
  \o body \o <<In("Jump", at, 0, 0)>>

GuardFirst == {WhileGet(0, Call) \o Return, Load \o WhileGet(2, Fuse) \o Stmt}

MCImages == {BuildImage(code) : code \in Codes \cup GuardFirst}

(* A loop over an array after one fused statement.                         *)
MCGuardedImages == {BuildImage(Fuse \o While(2, Get) \o Return)}

ASSUME CodesBuild == \A code \in Codes \cup GuardFirst : Builds(code)
=============================================================================
