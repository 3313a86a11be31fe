--------------------------- MODULE ClassContracts ---------------------------
(* How the analyzer admits class declarations (SemanticA.cpp): the one       *)
(* superclass, what an inherited member obliges a redeclaration to, and what *)
(* an implemented interface asks of the class and of what it inherits.       *)
(*                                                                           *)
(* The classes arrive in order; a declaration that is rejected leaves        *)
(* nothing behind.  Unrelated classes do not meet, so every class but the    *)
(* first extends one, and one class at most implements the interface.  A     *)
(* class has at most one type parameter and at most one member of the name   *)
(* the contracts are about.  A method's type stands for its return type and  *)
(* the types of its parameters in order, which the code compares in the same *)
(* way.                                                                      *)
EXTENDS Naturals, Sequences, FiniteSetsExt

CONSTANTS Grounds,      \* types without parameters
          Parameters,   \* names of type parameters
          MaxClasses    \* bound: classes of a program

VARIABLES classes,      \* the admitted classes, by number of declaration
          contract      \* what the interface declares

vars == <<classes, contract>>

None == "none"
Types == Grounds \cup Parameters

(* kind is "method", "field" or None; hidden is the attribute protected.     *)
NoMember == [kind |-> None, type |-> None, hidden |-> FALSE]
MembersOver(types) ==
  {NoMember} \cup [kind : {"method", "field"}, type : types, hidden : BOOLEAN]

(* The interface has the one parameter IfaceParam.                           *)
IfaceParam == CHOOSE p \in Parameters : TRUE

-----------------------------------------------------------------------------
(* The analyzer's view.                                                      *)

(* substituteTypeParams, with a binding for the parameter named p.           *)
substituteTypeParams(type, p, arg) == IF type = p THEN arg ELSE type

(* The class itself and its ancestors; the nearest of them that declares the *)
(* member as a method or as a field.                                         *)
Above(c) == classes[c].above

FindRecursive(c, kind) ==
  LET holders == {d \in Above(c) : classes[d].member.kind = kind}
  IN IF holders = {} THEN 0 ELSE Max(holders)

(* Faulty: what the superclass declares is taken as it is written.           *)
RequiredAsWritten(super, arg, type) == type

(* The type an inherited member has for a subclass that extends super<arg>:  *)
(* the parameters of super are replaced, wherever the member was found.      *)
RequiredType(super, arg, type) == substituteTypeParams(type, classes[super].param, arg)

(* Faulty: a public member may become protected.                             *)
AnyVisibility(required, actual) == TRUE

protectedVisibilityCompatible(required, actual) == required \/ ~actual

(* The checks on a class that extends super<arg> and declares member.        *)
validateClassOverrideContracts(super, arg, member) ==
  /\ member.kind = "field" => FindRecursive(super, "method") = 0
  /\ member.kind = "method" => FindRecursive(super, "field") = 0
  /\ (member.kind = "method" /\ FindRecursive(super, "method") # 0) =>
       LET inherited == classes[FindRecursive(super, "method")].member
       IN /\ protectedVisibilityCompatible(inherited.hidden, member.hidden)
          /\ RequiredType(super, arg, inherited.type) = member.type

ContractType(ifaceArg) == substituteTypeParams(contract.type, IfaceParam, ifaceArg)

(* The interface's member must be there, in the class or inherited; its type *)
(* is compared as the declaring class wrote it.                              *)
Conforms(super, member, ifaceArg) ==
  LET holder == IF super = 0 THEN 0 ELSE FindRecursive(super, contract.kind)
      found == IF member.kind = contract.kind THEN member
               ELSE IF holder = 0 THEN NoMember ELSE classes[holder].member
  IN /\ found # NoMember
     /\ protectedVisibilityCompatible(contract.hidden, found.hidden)
     /\ ContractType(ifaceArg) = found.type

(* class c<param> : base<arg>, Interface<ifaceArg> { member }                *)
DeclareClass(param, base, arg, member, ifaceArg) ==
  LET c == Len(classes) + 1
      own == Grounds \cup ({param} \ {None})
  IN /\ member.type \in own \cup {None}
     /\ ifaceArg \in own \cup {None}
     /\ c > 1 => base # 0
     /\ ifaceArg # None => \A d \in DOMAIN classes : classes[d].ifaceArg = None
     /\ base # c                                \* circular inheritance
     /\ base = 0 \/ base \in DOMAIN classes     \* unknown type
     /\ IF base = 0 \/ classes[base].param = None THEN arg = None ELSE arg \in own
     /\ base # 0 => validateClassOverrideContracts(base, arg, member)
     /\ ifaceArg # None => Conforms(base, member, ifaceArg)
     /\ classes' = Append(classes,
          [param |-> param, base |-> base, arg |-> arg, member |-> member, ifaceArg |-> ifaceArg,
           above |-> {c} \cup IF base = 0 THEN {} ELSE Above(base)])
     /\ UNCHANGED contract

Init ==
  /\ classes = <<>>
  /\ contract \in [kind : {"method", "field"}, type : Grounds \cup {IfaceParam}, hidden : {FALSE}]

Next ==
  /\ Len(classes) < MaxClasses
  /\ \E param \in Parameters \cup {None}, base \in 0..MaxClasses, arg \in Types \cup {None},
        member \in MembersOver(Types), ifaceArg \in Types \cup {None} :
          DeclareClass(param, base, arg, member, ifaceArg)

Spec == Init /\ [][Next]_vars

-----------------------------------------------------------------------------
(* What a type that class d wrote really is for a class c below it: the      *)
(* arguments along the chain replace the parameters one class after the      *)
(* other.                                                                    *)
SeenFrom(c, d, type) ==
  LET seen[e \in DOMAIN classes] ==
        IF e = d \/ d \notin Above(e) THEN type
        ELSE substituteTypeParams(seen[classes[e].base], classes[classes[e].base].param,
                                  classes[e].arg)
  IN seen[c]

(* The types the analyzer compares are right for a method that does not      *)
(* mention a parameter and for one the direct superclass declares.           *)
Plain(c, d) ==
  classes[d].member.kind = "method" =>
    classes[d].member.type \in Grounds \/ classes[c].base = d

(* An admitted class keeps what every ancestor promises of the member: its   *)
(* kind, and for methods their visibility and the type seen through the      *)
(* chain of type arguments.                                                  *)
SubclassesKeepContracts ==
  \A c \in DOMAIN classes : \A d \in Above(c) \ {c} :
    LET mine == classes[c].member
        theirs == classes[d].member
    IN (mine.kind # None /\ theirs.kind # None) =>
         /\ mine.kind = theirs.kind
         /\ mine.kind = "method" =>
              /\ mine.hidden => theirs.hidden
              /\ (\A e \in Above(c) \ {c} : Plain(c, e)) => mine.type = SeenFrom(c, d, theirs.type)

(* An admitted class that implements the interface has its member, public    *)
(* and of the interface's type, whether it declares or inherits it.          *)
ClassesConform ==
  \A c \in DOMAIN classes : classes[c].ifaceArg # None =>
    \E d \in Above(c) :
      /\ d = FindRecursive(c, contract.kind)
      /\ classes[d].member.hidden => contract.hidden
      /\ (d = c \/ classes[d].member.type \in Grounds) =>
           SeenFrom(c, d, classes[d].member.type) =
             substituteTypeParams(contract.type, IfaceParam, classes[c].ifaceArg)

(* docs/SemanticAndLintingCompletionMatrix.md:88 lists class and interface   *)
(* conformance as implemented: then overrides would keep the types of        *)
(* inherited methods along every chain.                                      *)
OverridesKeepTypes ==
  \A c \in DOMAIN classes : \A d \in Above(c) \ {c} :
    (classes[c].member.kind = "method" /\ classes[d].member.kind = "method") =>
      classes[c].member.type = SeenFrom(c, d, classes[d].member.type)
=============================================================================
