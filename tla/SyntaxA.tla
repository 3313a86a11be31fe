------------------------------ MODULE SyntaxA ------------------------------
(***************************************************************************)
(* The parser: Syntax::SyntaxA (SyntaxA.cpp, SyntaxAExpr.cpp,              *)
(* SyntaxADecl.cpp) and the loop of Parser::parseFromStream that asks it   *)
(* for one statement after the other.  It is a recursive descent parser    *)
(* over the tokens of one file; there is no token for the end of a line.   *)
(*                                                                         *)
(* A call of the parser is a frame of `stack`, `ctl` is what the innermost *)
(* call is doing ("fail" is a returned null pointer), `at` is privTokIndex *)
(* and `generics` is genericTypeParamStack.  The syntax tree is kept as    *)
(* the tokens it stands for, with a mark around every operation and after  *)
(* every statement, and with the uses of a type parameter marked, so that  *)
(* two sources have the same text only if they have the same tree.  What   *)
(* only reads ahead (types, parameter lists, attributes, enum members) is  *)
(* an operator that returns [ok, at, text].                                *)
(***************************************************************************)
EXTENDS Integers, Sequences, FiniteSets, Functions, SequencesExt

CONSTANT Sources   \* the token sequences that are parsed, [tokens, meaning]

VARIABLES
    source,     \* the source being parsed
    at,         \* privTokIndex, counted from 1
    stack,      \* the calls that wait for the current one
    ctl,        \* what the current call does
    program,    \* the statements handed to the semantic analysis
    errors,     \* the positions reported as "Unexpected token"
    generics    \* genericTypeParamStack

vars == <<source, at, stack, ctl, program, errors, generics>>

----------------------------------------------------------------------------
(* The tokens. *)

Names    == {"a", "b", "c", "f", "C", "T", "U", "Int"}
Literals == {"num", "str", "bool", "regex"}
Keywords == {"decl", "imut", "import", "func", "if", "elif", "else", "return", "class",
             "struct", "interface", "enum", "lazy", "await", "is", "for", "while",
             "secure", "catch", "new", "scope", "def"}

input == source.tokens

\* The token at a position; what lies behind the last token is never looked at without
\* being noticed, see PastTheEnd.
Tok(i) == IF i \in 1..Len(input) THEN input[i] ELSE "eof"

Text(i, j) == SubSeq(input, i, j)

\* The tree of an operation.
Group(text) == <<"{|">> \o text \o <<"|}">>

\* What names a type parameter, and how its use is marked.
Parameters == [T |-> "T'", U |-> "U'"]

Known == UNION Range(generics)

Ok(i, text) == [ok |-> TRUE, at |-> i, text |-> text]
Not(i)      == [ok |-> FALSE, at |-> i, text |-> <<>>]

\* What is read after something that was read, and behind its text.  (The sets of one
\* element are there for the model checker, which reads r once for all its uses.)
Then(r, Reads(_)) == CHOOSE y \in {IF x.ok THEN Reads(x) ELSE x : x \in {r}} : TRUE
Behind(text, r)   == Then(r, LAMBDA x : [x EXCEPT !.text = text \o @])

\* What follows at a token of one kind, at a name, or not at all.
At(i, tokens, r) == IF Tok(i) \in tokens THEN r ELSE Not(i)

Positions == 1..(Len(input) + 6)

----------------------------------------------------------------------------
(* buildTypeFromTokenStream. *)

\* A part of a type, from its first token to its last one.
TypePart ==
  LET scan[what \in {"type", "params", "next", "args", "arrays",
                     "qualifiers"}, i \in Positions] ==
    CASE what = "type" /\ Tok(i) = "(" ->
           Then(IF Tok(i + 1) = ")" THEN Ok(i + 1, <<>>) ELSE scan["params", i + 1],
                LAMBDA p : Then(scan["type", p.at + 1], LAMBDA r : scan["arrays", r.at]))
      [] what = "type" /\ Tok(i) # "(" ->
           At(i, Names, IF Tok(i + 1) = "<" THEN Then(scan["args", i + 2], LAMBDA a : scan["arrays", a.at])
                        ELSE scan["arrays", i])
      [] what = "params" ->
           At(i, Names,
              Then(IF Tok(i + 1) = ":" THEN scan["type", i + 2] ELSE scan["type", i], LAMBDA t :
                   scan["next", IF Tok(i + 1) # ":" /\ Tok(t.at + 1) \in Names
                                   /\ Tok(t.at + 2) \in {",", ")"} THEN t.at + 1 ELSE t.at]))
      [] what = "next" ->
           CASE Tok(i + 1) = "," -> scan["params", i + 2]
             [] Tok(i + 1) = ")" -> Ok(i + 1, <<>>)
             [] OTHER -> Not(i)
      [] what = "args" ->
           Then(scan["type", i], LAMBDA t :
                CASE Tok(t.at + 1) = "," -> scan["args", t.at + 2]
                  [] Tok(t.at + 1) = ">" -> Ok(t.at + 1, <<>>)
                  [] OTHER -> Not(t.at))
      [] what = "arrays" /\ Tok(i + 1) = "[" -> At(i + 2, {"]"}, scan["arrays", i + 2])
      [] what = "qualifiers" /\ Tok(i + 1) \in {"?", "!"} -> scan["qualifiers", i + 1]
      [] OTHER -> IF what = "arrays" THEN scan["qualifiers", i] ELSE Ok(i, <<>>)
  IN  scan

\* A type, or a list of types up to ">"; names in scope as type parameters are marked.
Marked(i, j, names) ==
    [k \in 1..(j - i + 1) |->
        LET t == Tok(i + k - 1) IN IF t \in names \cap DOMAIN Parameters THEN Parameters[t] ELSE t]

TypeAt(i, names)     == Then(TypePart["type", i], LAMBDA t : Ok(t.at, Marked(i, t.at, names)))
TypeArgsAt(i, names) == Then(TypePart["args", i], LAMBDA t : Ok(t.at, Marked(i, t.at, names)))

\* parseGenericTypeParamDecls, up to the token after the list; a default type may use the
\* parameters before it.
GenericsAt(i, outer) ==
    LET list[k \in Positions, names \in SUBSET Names] ==
          IF Tok(k) = ">" THEN [ok |-> TRUE, at |-> k + 1, text |-> <<">">>, names |-> names]
          ELSE At(k, Names, Then(
                 IF Tok(k + 1) = "=" THEN Behind(<<"=">>, TypeAt(k + 2, outer \union names))
                 ELSE Ok(k, <<>>),
                 LAMBDA d : Behind(<<Tok(k)>> \o d.text,
                   IF Tok(d.at + 1) = "," THEN Behind(<<",">>, list[d.at + 2, names \union {Tok(k)}])
                   ELSE At(d.at + 1, {">"}, list[d.at + 1, names \union {Tok(k)}]))))
    IN  IF Tok(i) = "<" THEN Behind(<<"<">>, list[i + 1, {}])
        ELSE [ok |-> TRUE, at |-> i, text |-> <<>>, names |-> {}]

\* The parameters of a function or constructor, from the token after "(" to ")".
ParamsAt(i, names) ==
    LET list[k \in Positions] ==
          IF Tok(k) = ")" THEN Ok(k, <<")">>)
          ELSE At(k, Names, At(k + 1, {":"}, Then(TypeAt(k + 2, names), LAMBDA t :
                 Behind(<<Tok(k), ":">> \o t.text,
                        IF Tok(t.at + 1) = "," THEN Behind(<<",">>, list[t.at + 2])
                        ELSE At(t.at + 1, {")"}, list[t.at + 1])))))
    IN  list[i]

\* Attributes before a declaration: the token after them.
AttributesAt(i) ==
    LET args[k \in Positions] ==    \* up to ")"
          IF Tok(k) = ")" THEN Ok(k, <<>>)
          ELSE LET v == IF Tok(k) \in Names /\ Tok(k + 1) = "=" THEN k + 2 ELSE k
               IN  At(v, (Names \union Literals) \ {"regex"},
                      IF Tok(v + 1) = "," THEN args[v + 2] ELSE At(v + 1, {")"}, Ok(v + 1, <<>>)))
        list[k \in Positions] ==
          IF Tok(k) # "@" THEN Ok(k, Text(i, k - 1))
          ELSE At(k + 1, Names, IF Tok(k + 2) # "(" THEN list[k + 2]
                                ELSE Then(args[k + 3], LAMBDA a : list[a.at + 1]))
    IN  list[i]

\* The members of an enum, from the token after "{" to "}": a comma is optional.
EnumAt(i) ==
    LET list[k \in Positions] ==
          CASE Tok(k) = "}" -> Ok(k, Text(i, k))
            [] Tok(k) = "," -> list[k + 1]
            [] Tok(k) \in Names /\ Tok(k + 1) # "=" -> list[k + 1]
            [] Tok(k) \in Names /\ Tok(k + 1) = "=" ->
                 IF Tok(k + 2) = "-" THEN At(k + 3, {"num"}, list[k + 4])
                 ELSE At(k + 2, {"num"}, list[k + 3])
            [] OTHER -> Not(k)
    IN  list[i]

\* tryParseInlineFunctionExpr, called with a first token, up to the "{" of its body: every
\* parameter is name : type or type name.
InlineAt(i, first) ==
    LET open == IF first = "func" THEN i + 1 ELSE i
        list[k \in Positions] ==
          IF Tok(k) = ")" THEN Ok(k, <<")">>)
          ELSE At(k, Names, Then(
                 IF Tok(k + 1) = ":" THEN TypeAt(k + 2, Known)
                 ELSE Then(TypeAt(k, Known), LAMBDA t : At(t.at + 1, Names, Ok(t.at + 1, t.text))),
                 LAMBDA t : Behind(
                   IF Tok(k + 1) = ":" THEN <<Tok(k), ":">> \o t.text ELSE <<Tok(t.at), ":">> \o t.text,
                   IF Tok(t.at + 1) = "," THEN Behind(<<",">>, list[t.at + 2])
                   ELSE At(t.at + 1, {")"}, list[t.at + 1]))))
    IN  At(open, {"("}, Then(list[open + 1], LAMBDA params :
          Then(TypeAt(params.at + 1, Known), LAMBDA result :
            At(result.at + 1, {"{"},
               Ok(result.at + 1, <<"func", "(">> \o params.text \o result.text)))))

\* "new" up to the token after "(": the class may be a path; the type arguments are read
\* without the type parameters in scope.
NewAt(i) ==
    LET path[k \in Positions] ==
          At(k, Names, IF Tok(k + 1) = "." THEN path[k + 2] ELSE Ok(k, Text(i, k)))
    IN  Then(path[i + 1], LAMBDA p :
          Then(IF Tok(p.at + 1) # "<" THEN p
               ELSE Behind(p.text \o <<"<">>, TypeArgsAt(p.at + 2, {})),
               LAMBDA class : At(class.at + 1, {"("}, Ok(class.at + 2, class.text))))

\* "catch" [ "(" name ":" type ")" ] up to the "{" of its block.
CatchAt(i) ==
    IF Tok(i + 1) = "{" THEN Ok(i + 1, <<"catch">>)
    ELSE At(i + 1, {"("}, At(i + 2, Names, At(i + 3, {":"}, Then(TypeAt(i + 4, Known), LAMBDA t :
           At(t.at + 1, {")"}, At(t.at + 2, {"{"},
              Ok(t.at + 2, <<"catch", "(", Tok(i + 2), ":">> \o t.text \o <<")">>)))))))

\* The types a class extends, up to the token after them.
BasesAt(i, names) ==
    LET list[k \in Positions] ==
          Then(TypeAt(k, names), LAMBDA t :
               IF Tok(t.at + 1) = "," THEN Behind(t.text \o <<",">>, list[t.at + 2])
               ELSE Ok(t.at + 1, t.text))
    IN  list[i]

----------------------------------------------------------------------------
(* Calls and returns. *)

Doing(what) == ctl.do = what /\ at <= Len(input)

\* The innermost call goes on at a position.
GoOn(c, i, calls) ==
    /\ ctl' = c
    /\ at' = i
    /\ stack' = calls
    /\ UNCHANGED <<source, program, errors>>

Go(c, i, calls) == GoOn(c, i, calls) /\ UNCHANGED generics

Fail == [do |-> "fail"]

\* What was read ahead and goes on, or the null pointer.
Read(r, GoesOn(_)) == \E x \in {r} : IF x.ok THEN GoesOn(x) ELSE Go(Fail, x.at, stack)

Top  == Head(stack)
Rest == Tail(stack)

Waits(f) == stack # <<>> /\ Top.f = f

\* evalExpr: the frame "top" is the end of parseAssignment; ctl.tok is first_token.
Unary(i)          == [do |-> "unary", tok |-> Tok(i)]
CallExpr(i, calls) == Go(Unary(i), i, <<[f |-> "top"]>> \o calls)

Postfix(text, kind) == [do |-> "postfix", text |-> text, kind |-> kind]
Climb(text, kind, level) == [do |-> "climb", text |-> text, kind |-> kind, level |-> level]
EndOf(text, kind, chosen) == [do |-> "end", text |-> text, kind |-> kind, chosen |-> chosen]
Args(text)        == [do |-> "args", text |-> text]
Value(text, kind) == [do |-> "value", text |-> text, kind |-> kind]

\* evalDecl, with the text of the attributes before it.
Decl(class, text)  == [do |-> "decl", class |-> class, text |-> text]
Made(text, kind)   == [do |-> "made", text |-> text, kind |-> kind]

\* evalBlockStmt at a position: it needs "{".
Block(text) == [do |-> "block", text |-> text]
CallBlock(i, calls) ==
    IF Tok(i) = "{" THEN Go(Block(<<"{">>), i + 1, calls)
    ELSE Go(Fail, i, Tail(calls))

----------------------------------------------------------------------------
(* evalDataExpr: literals, names, containers, parentheses, functions, new. *)

UnaryOperator ==
    /\ Doing("unary") /\ ctl.tok \in {"+", "-", "!", "~", "await"}
    /\ Go(Unary(at + 1), at + 1, <<[f |-> "unary", op |-> ctl.tok]>> \o stack)

Literal ==
    /\ Doing("unary") /\ ctl.tok \in Literals
    /\ Go(Postfix(<<ctl.tok>>, "other"), at + 1, stack)

Identifier ==
    /\ Doing("unary") /\ ctl.tok \in Names
    /\ Go(Postfix(<<ctl.tok>>, "id"), at + 1, stack)

ArrayLiteral ==
    /\ Doing("unary") /\ ctl.tok = "["
    /\ IF Tok(at + 1) = "]" THEN Go(Postfix(<<"[", "]">>, "other"), at + 2, stack)
       ELSE CallExpr(at + 1, <<[f |-> "array", text |-> <<"[">>]>> \o stack)

DictLiteral ==
    /\ Doing("unary") /\ ctl.tok = "{"
    /\ IF Tok(at + 1) = "}" THEN Go(Postfix(<<"{", "}">>, "other"), at + 2, stack)
       ELSE CallExpr(at + 1, <<[f |-> "key", text |-> <<"{">>]>> \o stack)

\* An inline function is tried first, also at a parenthesis.
InlineFunction ==
    /\ Doing("unary") /\ ctl.tok \in {"func", "("}
    /\ \E head \in {InlineAt(at, ctl.tok)} :
          /\ head.ok
          /\ CallBlock(head.at, <<[f |-> "inline", start |-> at, tok |-> ctl.tok,
                                   text |-> head.text]>> \o stack)

Parenthesis(i, calls) == CallExpr(i + 1, <<[f |-> "paren"]>> \o calls)

Parenthesised ==
    /\ Doing("unary") /\ ctl.tok = "(" /\ ~InlineAt(at, ctl.tok).ok
    /\ Parenthesis(at, stack)

NewObject ==
    /\ Doing("unary") /\ ctl.tok = "new"
    /\ Read(NewAt(at), LAMBDA head : Go(Args(head.text \o <<"(">>), head.at, stack))

\* Nothing an expression starts with.
NoOperand ==
    /\ Doing("unary")
    /\ \/ ctl.tok \notin Names \union Literals
                         \union {"+", "-", "!", "~", "await", "[", "{", "(", "func", "new"}
       \/ ctl.tok = "func" /\ ~InlineAt(at, ctl.tok).ok
    /\ Go(Fail, at, stack)

ArrayElement ==
    /\ Doing("value") /\ Waits("array")
    /\ LET text == Top.text \o ctl.text
       IN  CASE Tok(at) = "," -> CallExpr(at + 1, <<[Top EXCEPT !.text = text \o <<",">>]>> \o Rest)
             [] Tok(at) = "]" -> Go(Postfix(text \o <<"]">>, "other"), at + 1, Rest)
             [] OTHER -> Go(Fail, at, Rest)

DictKey ==
    /\ Doing("value") /\ Waits("key")
    /\ IF Tok(at) = ":"
       THEN CallExpr(at + 1, <<[f |-> "entry", text |-> Top.text \o ctl.text \o <<":">>]>> \o Rest)
       ELSE Go(Fail, at, Rest)

DictEntry ==
    /\ Doing("value") /\ Waits("entry")
    /\ LET text == Top.text \o ctl.text
       IN  CASE Tok(at) = "," -> CallExpr(at + 1, <<[f |-> "key", text |-> text \o <<",">>]>> \o Rest)
             [] Tok(at) = "}" -> Go(Postfix(text \o <<"}">>, "other"), at + 1, Rest)
             [] OTHER -> Go(Fail, at, Rest)

\* The token after the expression is taken for ")" whatever it is.
ClosingParen ==
    /\ Doing("value") /\ Waits("paren")
    /\ Go(Postfix(<<"(">> \o ctl.text \o <<")">>, ctl.kind), at + 1, Rest)

----------------------------------------------------------------------------
(* The loop of evalArgExpr: members, calls and elements. *)

Member ==
    /\ Doing("postfix") /\ Tok(at) = "."
    /\ IF Tok(at + 1) \in Names
       THEN Go(Postfix(ctl.text \o <<".", Tok(at + 1)>>, "member"), at + 2, stack)
       ELSE Go(Fail, at + 1, stack)

\* tryParseExplicitGenericCallArgs: the type arguments in "<" ">" and the "(" after them.
GenericArgs ==
    IF ctl.kind \in {"id", "member"}
    THEN At(at, {"<"}, Then(TypeArgsAt(at + 1, Known), LAMBDA args :
           At(args.at + 1, {"("}, Ok(args.at + 2, <<"<">> \o args.text \o <<"(">>))))
    ELSE Not(at)

GenericCall ==
    /\ Doing("postfix")
    /\ \E args \in {GenericArgs} : args.ok /\ Go(Args(ctl.text \o args.text), args.at, stack)

Call ==
    /\ Doing("postfix") /\ Tok(at) = "("
    /\ Go(Args(ctl.text \o <<"(">>), at + 1, stack)

Element ==
    /\ Doing("postfix") /\ Tok(at) = "["
    /\ CallExpr(at + 1, <<[f |-> "index", text |-> ctl.text \o <<"[">>]>> \o stack)

EndPostfix ==
    /\ Doing("postfix") /\ Tok(at) \notin {".", "(", "["} /\ ~GenericArgs.ok
    /\ Go([ctl EXCEPT !.do = "operand"], at, stack)

Argument ==
    /\ Doing("args")
    /\ IF Tok(at) = ")" THEN Go(Postfix(ctl.text \o <<")">>, "other"), at + 1, stack)
       ELSE CallExpr(at, <<[f |-> "args", text |-> ctl.text]>> \o stack)

\* The comma between two arguments may be missing.
ArgumentRead ==
    /\ Doing("value") /\ Waits("args")
    /\ IF Tok(at) = "," THEN Go(Args(Top.text \o ctl.text \o <<",">>), at + 1, Rest)
       ELSE Go(Args(Top.text \o ctl.text), at, Rest)

ElementRead ==
    /\ Doing("value") /\ Waits("index")
    /\ IF Tok(at) = "]" THEN Go(Postfix(Top.text \o ctl.text \o <<"]">>, "other"), at + 1, Rest)
       ELSE Go(Fail, at, Rest)

----------------------------------------------------------------------------
(* evalExpr: the operators by level, from multiplication (1) to || (10). *)

IsOperator(level) ==
    LET t == Tok(at)
        n == Tok(at + 1)
    IN  CASE level = 1  -> t \in {"*", "/", "%"}
          [] level = 2  -> t \in {"+", "-"}
          [] level = 3  -> t \in {"<", ">"} /\ n = t /\ Tok(at + 2) # "="
          [] level = 4  -> t \in {"<=", ">=", "is"} \/ (t \in {"<", ">"} /\ n # t)
          [] level = 5  -> t \in {"==", "!="}
          [] level = 6  -> t = "&" /\ n # "="
          [] level = 7  -> t = "^" /\ n # "="
          [] level = 8  -> t = "|" /\ n # "="
          [] level = 9  -> t = "&&"
          [] level = 10 -> t = "||"

\* The level whose function reads the right operand: that of && reads an equality.
RightLevel(level) == IF level = 9 THEN 5 ELSE level - 1

\* The level up to which the current expression may still grow.
Limit == IF Top.f = "binary" THEN RightLevel(Top.level) ELSE 10

\* The loops that look at the current token, innermost first.
Levels == {level \in ctl.level..Limit : IsOperator(level)}

UnaryRead ==
    /\ Doing("operand") /\ Waits("unary")
    /\ Go([ctl EXCEPT !.text = Group(<<Top.op>> \o ctl.text), !.kind = "other"], at, Rest)

Operand ==
    /\ Doing("operand") /\ ~Waits("unary")
    /\ Go(Climb(ctl.text, ctl.kind, 1), at, stack)

Operator ==
    /\ Doing("climb")
    /\ \E level \in Levels :
          LET op == IF level = 3 THEN <<Tok(at), Tok(at)>> ELSE <<Tok(at)>>
          IN  Go(Unary(at + Len(op)), at + Len(op),
                 <<[f |-> "binary", level |-> level, text |-> ctl.text \o op]>> \o stack)

Combine ==
    /\ Doing("climb") /\ Waits("binary") /\ Levels = {}
    /\ Go(Climb(Group(Top.text \o ctl.text), "other", Top.level), at, Rest)

Climbed ==
    /\ Doing("climb") /\ Waits("top") /\ Levels = {}
    /\ Go(EndOf(ctl.text, ctl.kind, FALSE), at, stack)

Ternary ==
    /\ Doing("end") /\ ~ctl.chosen /\ Tok(at) = "?"
    /\ CallExpr(at + 1, <<[f |-> "then", text |-> ctl.text \o <<"?">>]>> \o stack)

TernaryThen ==
    /\ Doing("value") /\ Waits("then")
    /\ IF Tok(at) = ":"
       THEN CallExpr(at + 1, <<[f |-> "otherwise", text |-> Top.text \o ctl.text \o <<":">>]>> \o Rest)
       ELSE Go(Fail, at, Rest)

TernaryElse ==
    /\ Doing("value") /\ Waits("otherwise")
    /\ Go(EndOf(Group(Top.text \o ctl.text), "other", TRUE), at, Rest)

\* The tokens of an assignment operator.
AssignmentTokens ==
    LET t == Tok(at)
        n == Tok(at + 1)
    IN  CASE t \in {"=", "+=", "-=", "*=", "/=", "%="} -> 1
          [] t \in {"&", "|", "^"} /\ n = "=" -> 2
          [] t \in {"<", ">"} /\ n = t /\ Tok(at + 2) = "=" -> 3
          [] t \in {"<", ">"} /\ n = t \o "=" -> 2
          [] OTHER -> 0

Assignment ==
    /\ Doing("end") /\ AssignmentTokens > 0
    /\ LET after == at + AssignmentTokens
       IN  CallExpr(after, <<[f |-> "store", text |-> ctl.text \o Text(at, after - 1)]>> \o stack)

Assigned ==
    /\ Doing("value") /\ Waits("store")
    /\ Go(Value(Group(Top.text \o ctl.text), "other"), at, Tail(Rest))

EndExpr ==
    /\ Doing("end") /\ AssignmentTokens = 0 /\ (ctl.chosen \/ Tok(at) # "?")
    /\ Go(Value(ctl.text, ctl.kind), at, Rest)

----------------------------------------------------------------------------
(* evalDecl: one action per declaration. *)

\* Which declaration the current token starts; attributes come first.
Declares(keyword) == Doing("decl") /\ Tok(at) = keyword

Attributes ==
    /\ Declares("@")
    /\ Read(AttributesAt(at), LAMBDA list :
            IF Tok(list.at) \in Keywords THEN Go([ctl EXCEPT !.text = list.text], list.at, stack)
            ELSE Go(Fail, list.at, stack))

NoDeclaration ==
    /\ Doing("decl") /\ Tok(at) \notin (Keywords \ {"imut", "else", "catch"}) \union {"@"}
    /\ Go(Fail, at, stack)

\* Keywords for which no branch sets the declaration: what follows uses an uninitialised
\* pointer.
Uninitialised ==
    /\ Doing("decl")
    /\ \/ Tok(at) \in {"await", "is", "elif"}
       \/ Tok(at) = "new" /\ ~ctl.class
    /\ Go([do |-> "undefined"], at, stack)

\* What follows the keyword is not looked at.
Import ==
    /\ Declares("import")
    /\ Go(Made(ctl.text \o Text(at, at + 1), "other"), at + 2, stack)

Scope ==
    /\ Declares("scope")
    /\ CASE Tok(at + 1) \notin Names -> Go(Fail, at + 1, stack)
         [] Tok(at + 1) \in Names /\ Tok(at + 2) # "{" /\ generics = <<>> ->
              Go([do |-> "undefined"], at + 2, stack)
         [] Tok(at + 1) \in Names /\ Tok(at + 2) # "{" /\ generics # <<>> ->
              GoOn(Fail, at + 2, stack) /\ generics' = Tail(generics)
         [] OTHER ->
              CallBlock(at + 2, <<[f |-> "body", text |-> ctl.text \o Text(at, at + 1)]>> \o stack)

Enum ==
    /\ Declares("enum")
    /\ Read(At(at + 1, Names, At(at + 2, {"{"}, EnumAt(at + 3))), LAMBDA members :
            Go(Made(ctl.text \o Text(at, members.at), "other"), members.at + 1, stack))

\* A type alias: only its own parameters are type parameters in it.
TypeAlias ==
    /\ Declares("def")
    /\ Read(At(at + 1, Names, GenericsAt(at + 2, Known)), LAMBDA params :
         Read(At(params.at, {"="}, TypeAt(params.at + 1, params.names)), LAMBDA type :
           Go(Made(ctl.text \o Text(at, at + 1) \o params.text \o <<"=">> \o type.text, "other"),
              type.at + 1, stack)))

\* if: the tokens where "(" and, of the first condition, ")" belong are not looked at.
If ==
    /\ Declares("if")
    /\ CallExpr(at + 2, <<[f |-> "if", text |-> ctl.text \o <<"if", "(">>]>> \o stack)

Condition ==
    /\ Doing("value") /\ (Waits("if") \/ Waits("elif"))
    /\ IF Waits("elif") /\ Tok(at) # ")" THEN Go(Fail, at, Rest)
       ELSE CallBlock(at + 1, <<[f |-> "branch", text |-> Top.text \o ctl.text \o <<")">>]>> \o Rest)

Branch ==
    /\ Doing("block end") /\ Waits("branch")
    /\ LET text == Top.text \o ctl.text
       IN  CASE Tok(at + 1) = "elif" ->
                  CallExpr(at + 3, <<[f |-> "elif", text |-> text \o <<"elif", "(">>]>> \o Rest)
             [] Tok(at + 1) = "else" ->
                  CallBlock(at + 2, <<[f |-> "body", text |-> text \o <<"else">>]>> \o Rest)
             [] OTHER -> Go(Made(text, "other"), at + 1, Rest)

Loop ==
    /\ Doing("decl") /\ Tok(at) \in {"while", "for"}
    /\ IF Tok(at + 1) = "("
       THEN CallExpr(at + 2, <<[f |-> "loop", text |-> ctl.text \o Text(at, at + 1)]>> \o stack)
       ELSE Go(Fail, at + 1, stack)

LoopBody ==
    /\ Doing("value") /\ Waits("loop")
    /\ IF Tok(at) = ")"
       THEN CallBlock(at + 1, <<[f |-> "body", text |-> Top.text \o ctl.text \o <<")">>]>> \o Rest)
       ELSE Go(Fail, at, Rest)

\* The end of the last block of a declaration.
Body ==
    /\ Doing("block end") /\ Waits("body")
    /\ Go(Made(Top.text \o ctl.text, "other"), at + 1, Rest)

Secure ==
    /\ Declares("secure")
    /\ IF Tok(at + 1) = "("
       THEN Go(Decl(ctl.class, <<>>), at + 2,
               <<[f |-> "secure", text |-> ctl.text \o <<"secure", "(">>]>> \o stack)
       ELSE Go(Fail, at + 1, stack)

Guarded ==
    /\ Doing("made") /\ Waits("secure")
    /\ CASE ctl.kind # "init" \/ Tok(at) # ")" -> Go(Fail, at, Rest)
         [] ctl.kind = "init" /\ Tok(at) = ")" /\ Tok(at + 1) # "catch" -> Go(Fail, at + 1, Rest)
         [] OTHER ->
              \E head \in {CatchAt(at + 1)} :
                 IF head.ok
                 THEN CallBlock(head.at, <<[f |-> "body", text |-> Top.text \o ctl.text \o <<")">>
                                                                   \o head.text]>> \o Rest)
                 ELSE Go(Fail, head.at, Rest)

\* A value follows if there is one.
Return ==
    /\ Declares("return")
    /\ CallExpr(at + 1, <<[f |-> "return", text |-> ctl.text \o <<"return">>]>> \o stack)

Returned ==
    /\ Doing("value") /\ Waits("return")
    /\ Go(Made(Top.text \o ctl.text, "other"), at, Rest)

\* decl name [] : type = value, or decl func name : type = function.  The value is not
\* looked for without a "=".
NameAt == IF Tok(at + 1) = "imut" THEN at + 2 ELSE at + 1

Valued(k, text) ==
    IF Tok(k) = "=" THEN CallExpr(k + 1, <<[f |-> "init", text |-> text \o <<"=">>]>> \o stack)
    ELSE Go(Made(text, "var"), k, stack)

Variable ==
    /\ Declares("decl") /\ Tok(NameAt) # "func"
    /\ CASE Tok(NameAt) \notin Names -> Go(Made(ctl.text \o Text(at, NameAt - 1), "var"), NameAt, stack)
         [] Tok(NameAt) \in Names /\ Tok(NameAt + 1) = "[" ->
              IF Tok(NameAt + 2) # "]" THEN Go(Fail, NameAt + 2, stack)
              ELSE IF Tok(NameAt + 3) = ":" THEN Go(Fail, NameAt + 3, stack)
              ELSE Valued(NameAt + 3, ctl.text \o Text(at, NameAt + 2))
         [] Tok(NameAt) \in Names /\ Tok(NameAt + 1) = ":" ->
              \E type \in {TypeAt(NameAt + 2, Known)} :
                 Valued(type.at + 1, ctl.text \o Text(at, NameAt + 1) \o type.text)
         [] OTHER -> Valued(NameAt + 1, ctl.text \o Text(at, NameAt))

\* After "=", what is no inline function leaves the parser where it was to start.
FunctionVariable ==
    /\ Declares("decl") /\ Tok(NameAt) = "func"
    /\ Read(At(NameAt + 1, Names, At(NameAt + 2, {":"}, TypeAt(NameAt + 3, Known))), LAMBDA type :
         Read(At(type.at + 1, {"="}, Ok(type.at + 2, <<"=">>)), LAMBDA value :
           \E head \in {InlineAt(value.at, Tok(value.at))} :
             IF head.ok
             THEN CallBlock(head.at,
                    <<[f |-> "value", start |-> value.at,
                       text |-> ctl.text \o Text(at, NameAt + 2) \o type.text \o value.text
                                         \o head.text]>> \o stack)
             ELSE Go(Fail, value.at, stack)))

FunctionValue ==
    /\ Doing("block end") /\ Waits("value")
    /\ Go(Made(Top.text \o ctl.text, "init"), at + 1, Rest)

\* The value of a variable, which "catch" turns into a guarded one.
Initialised ==
    /\ Doing("value") /\ Waits("init")
    /\ LET text == Top.text \o ctl.text
       IN  IF Tok(at) # "catch"
           THEN Go(Made(text, IF ctl.text = <<>> THEN "var" ELSE "init"), at, Rest)
           ELSE \E head \in {CatchAt(at)} :
                   IF head.ok
                   THEN CallBlock(head.at, <<[f |-> "body", text |-> text \o head.text]>> \o Rest)
                   ELSE Go(Fail, head.at, Rest)

\* Entering a block with the type parameters of its function.
CallFunction(i, names, text, kind) ==
    /\ GoOn(Block(<<"{">>), i + 1, <<[f |-> "function", pushed |-> names # {}, text |-> text,
                                      kind |-> kind]>> \o stack)
    /\ generics' = IF names = {} THEN generics ELSE <<names>> \o generics

\* func and lazy.  A result type starts with a name; without a block it is a declaration.
FuncAt == IF Tok(at) = "lazy" /\ Tok(at + 1) = "func" THEN at + 2 ELSE at + 1

Function ==
    /\ Doing("decl") /\ Tok(at) \in {"func", "lazy"}
    /\ IF Tok(FuncAt) \notin Names THEN Go([do |-> "undefined"], FuncAt, stack)
       ELSE Read(GenericsAt(FuncAt + 1, Known), LAMBDA types :
              Read(At(types.at, {"("}, ParamsAt(types.at + 1, Known \union types.names)), LAMBDA params :
                Read(IF Tok(params.at + 1) \in Names
                     THEN TypeAt(params.at + 1, Known \union types.names) ELSE Ok(params.at, <<>>),
                     LAMBDA result :
                       LET text == ctl.text \o Text(at, FuncAt) \o types.text \o <<"(">>
                                            \o params.text \o result.text
                       IN  IF Tok(result.at + 1) = "{"
                           THEN CallFunction(result.at + 1, types.names, text, "func")
                           ELSE Go(Made(text, "func"), result.at + 1, stack))))

Constructor ==
    /\ Declares("new") /\ ctl.class
    /\ Read(GenericsAt(at + 1, Known), LAMBDA types :
         Read(At(types.at, {"("}, ParamsAt(types.at + 1, Known \union types.names)), LAMBDA params :
           Read(At(params.at + 1, {"{"}, Ok(params.at + 1, <<>>)), LAMBDA block :
             CallFunction(block.at, types.names,
                          ctl.text \o <<"new">> \o types.text \o <<"(">> \o params.text, "ctor"))))

\* Faulty: the type parameters stay in scope after the function.
FaultyFunctionBody ==
    /\ Doing("block end") /\ Waits("function")
    /\ Go(Made(Top.text \o ctl.text, Top.kind), at + 1, Rest)

FunctionBody ==
    /\ Doing("block end") /\ Waits("function")
    /\ GoOn(Made(Top.text \o ctl.text, Top.kind), at + 1, Rest)
    /\ generics' = IF Top.pushed THEN Tail(generics) ELSE generics

\* class, struct and interface.  A class enters its type parameters before its bases, and
\* leaves them there when its "{" is missing.
Class ==
    /\ Doing("decl") /\ Tok(at) \in {"class", "struct", "interface"}
    /\ Read(At(at + 1, Names, GenericsAt(at + 2, Known)), LAMBDA types :
         Read(IF Tok(at) = "class" /\ Tok(types.at) = ":"
              THEN Behind(<<":">>, BasesAt(types.at + 1, Known \union types.names))
              ELSE Ok(types.at, <<>>),
              LAMBDA head :
                IF Tok(head.at) = "{"
                THEN /\ GoOn([do |-> "members", owner |-> Tok(at),
                              text |-> ctl.text \o Text(at, at + 1) \o types.text \o head.text \o <<"{">>],
                             head.at + 1, stack)
                     /\ generics' = <<types.names>> \o generics
                ELSE /\ GoOn(Fail, head.at, stack)
                     /\ generics' = IF Tok(at) = "class" THEN <<types.names>> \o generics ELSE generics))

NextMember ==
    /\ Doing("members")
    /\ IF Tok(at) = "}"
       THEN /\ GoOn(Made(ctl.text \o <<"}">>, "other"), at + 1, stack)
            /\ generics' = Tail(generics)
       ELSE Go(Decl(TRUE, <<>>), at,
               <<[f |-> "member", owner |-> ctl.owner, text |-> ctl.text]>> \o stack)

\* What may be declared in a class, a struct and an interface.
Allowed == [class |-> {"var", "init", "func", "ctor"}, struct |-> {"var", "init"},
            interface |-> {"var", "init", "func"}]

MemberRead ==
    /\ Doing("made") /\ Waits("member")
    /\ IF ctl.kind \in Allowed[Top.owner]
       THEN Go([do |-> "members", owner |-> Top.owner, text |-> Top.text \o ctl.text \o <<";">>],
               at, Rest)
       ELSE GoOn(Fail, at, Rest) /\ generics' = Tail(generics)

\* A member that cannot be read: an interface leaves its type parameters where they are.
MemberFailed ==
    /\ Doing("fail") /\ Waits("member")
    /\ GoOn(Fail, at, Rest)
    /\ generics' = IF Top.owner = "interface" THEN generics ELSE Tail(generics)

----------------------------------------------------------------------------
(* evalBlockStmt, and what a null pointer does to its caller. *)

\* A statement is tried as a declaration first, then as an expression.
InBlock ==
    /\ Doing("block")
    /\ IF Tok(at) = "}" THEN Go([ctl EXCEPT !.do = "block end", !.text = @ \o <<"}">>], at, stack)
       ELSE Go(Decl(FALSE, <<>>), at,
               <<[f |-> "statement", outer |-> FALSE, tok |-> Tok(at), text |-> ctl.text]>> \o stack)

NotADeclaration ==
    /\ Doing("fail") /\ Waits("statement")
    /\ Go([do |-> "unary", tok |-> Top.tok], at,
          <<[f |-> "top"], [Top EXCEPT !.f = "expression"]>> \o Rest)

StatementRead ==
    /\ \/ Doing("made") /\ Waits("statement")
       \/ Doing("value") /\ Waits("expression")
    /\ ~Top.outer
    /\ Go(Block(Top.text \o ctl.text \o <<";">>), at, Rest)

\* Back to where the attempt at an inline function started.
Backtrack ==
    /\ Doing("fail") /\ Waits("inline")
    /\ IF Top.tok = "func" THEN Go(Fail, Top.start, Rest) ELSE Parenthesis(Top.start, Rest)

FunctionVariableFailed ==
    /\ Doing("fail") /\ Waits("value")
    /\ Go(Fail, Top.start, Rest)

InlineRead ==
    /\ Doing("block end") /\ Waits("inline")
    /\ Go(Postfix(Group(Top.text \o ctl.text), "other"), at + 1, Rest)

\* The token after a parenthesis is taken even when nothing was read in it.
ParenFailed ==
    /\ Doing("fail") /\ Waits("paren")
    /\ Go(Fail, at + 1, Rest)

NothingReturned ==
    /\ Doing("fail") /\ Waits("return")
    /\ Go(Made(Top.text, "other"), at, Rest)

NothingToInitialise ==
    /\ Doing("fail") /\ Waits("init")
    /\ Go(Value(<<>>, "other"), at, stack)

BodyFailed ==
    /\ Doing("fail") /\ Waits("function")
    /\ GoOn(Fail, at, Rest)
    /\ generics' = IF Top.pushed THEN Tail(generics) ELSE generics

\* Every other caller returns a null pointer, too.
Propagate ==
    /\ Doing("fail") /\ stack # <<>>
    /\ Top.f \notin {"member", "statement", "inline", "value", "paren", "return", "init", "function"}
    /\ ~(Top.f = "expression" /\ Top.outer)
    /\ Go(Fail, at, Rest)

----------------------------------------------------------------------------
(* Parser::parseFromStream: one statement after the other. *)

NextStatement ==
    /\ Doing("next")
    /\ IF Tok(at) = "eof" THEN Go([do |-> "done"], at, stack)
       ELSE Go(Decl(FALSE, <<>>), at,
               <<[f |-> "statement", outer |-> TRUE, tok |-> Tok(at), text |-> <<>>]>> \o stack)

StatementParsed ==
    /\ \/ Doing("made") /\ Waits("statement")
       \/ Doing("value") /\ Waits("expression")
    /\ Top.outer
    /\ program' = Append(program, ctl.text)
    /\ ctl' = [do |-> "next"]
    /\ stack' = Rest
    /\ UNCHANGED <<source, at, errors, generics>>

\* Faulty: the token no statement starts with is reported and stays.
FaultyUnexpected ==
    /\ Doing("fail") /\ Waits("expression") /\ Top.outer
    /\ ctl' = IF Tok(at) = "eof" THEN [do |-> "done"] ELSE [do |-> "next"]
    /\ errors' = IF Tok(at) = "eof" THEN errors ELSE errors \union {at}
    /\ stack' = Rest
    /\ UNCHANGED <<source, at, program, generics>>

\* No statement: at the end of the tokens the loop ends, otherwise the current token is
\* reported and skipped.
Unexpected ==
    /\ Doing("fail") /\ Waits("expression") /\ Top.outer
    /\ IF Tok(at) = "eof"
       THEN /\ ctl' = [do |-> "done"]
            /\ UNCHANGED <<at, errors>>
       ELSE /\ ctl' = [do |-> "next"]
            /\ errors' = errors \union {at}
            /\ at' = at + 1
    /\ stack' = Rest
    /\ UNCHANGED <<source, program, generics>>

\* Reading past the last token is undefined.
PastTheEnd ==
    /\ at > Len(input) /\ ctl.do \notin {"done", "undefined"}
    /\ ctl' = [do |-> "undefined"]
    /\ UNCHANGED <<source, at, stack, program, errors, generics>>

Ended == ctl.do \in {"done", "undefined"}

AtRest == Ended /\ UNCHANGED vars

Init ==
    /\ source \in Sources
    /\ at = 1
    /\ stack = <<>>
    /\ ctl = [do |-> "next"]
    /\ program = <<>>
    /\ errors = {}
    /\ generics = <<>>

Next ==
    \/ UnaryOperator \/ Literal \/ Identifier \/ ArrayLiteral \/ DictLiteral \/ InlineFunction
    \/ Parenthesised \/ NewObject \/ NoOperand \/ ArrayElement \/ DictKey \/ DictEntry
    \/ ClosingParen \/ Member \/ GenericCall \/ Call \/ Element \/ EndPostfix \/ Argument
    \/ ArgumentRead \/ ElementRead \/ UnaryRead \/ Operand \/ Operator \/ Combine \/ Climbed
    \/ Ternary \/ TernaryThen \/ TernaryElse \/ Assignment \/ Assigned \/ EndExpr
    \/ Attributes \/ NoDeclaration \/ Uninitialised \/ Import \/ Scope \/ Enum \/ TypeAlias
    \/ If \/ Condition \/ Branch \/ Loop \/ LoopBody \/ Body \/ Secure \/ Guarded \/ Return
    \/ Returned \/ Variable \/ FunctionVariable \/ FunctionValue \/ Initialised \/ Function
    \/ Constructor \/ FunctionBody \/ Class \/ NextMember \/ MemberRead \/ MemberFailed
    \/ InBlock \/ NotADeclaration \/ StatementRead \/ Backtrack \/ FunctionVariableFailed
    \/ InlineRead \/ ParenFailed \/ NothingReturned \/ NothingToInitialise \/ BodyFailed
    \/ Propagate \/ NextStatement \/ StatementParsed \/ Unexpected \/ PastTheEnd
    \/ AtRest

Spec == Init /\ [][Next]_vars /\ WF_vars(Next)

----------------------------------------------------------------------------
(* Properties. *)

\* What the parser reads otherwise than the grammar, three departures.

\* 1. The right operand of && ends before an operator weaker than an equality: a group after
\* && whose own operator is one.
Depth(text, i, j) ==
    Cardinality({k \in i..j : text[k] = "{|"}) - Cardinality({k \in i..j : text[k] = "|}"})

LooseRight(text) ==
    \E i \in DOMAIN text, j \in DOMAIN text :
        /\ text[i] = "&&" /\ i < j /\ text[j] \in {"&", "^", "|"}
        /\ \A k \in (i + 1)..j : Depth(text, i + 1, k) >= 1
        /\ Depth(text, i + 1, j) = 1

\* 2. A statement that starts with "await", or with "new" and is no constructor, is taken for
\* a declaration and has no defined result.
Words == FlattenSeq([k \in DOMAIN source.meaning |-> Append(source.meaning[k], ";")])

StatementAt(i) ==
    \E k \in DOMAIN Words :
        LET before == SelectSeq(SubSeq(Words, 1, k - 1), LAMBDA t : t # "{|")
        IN  /\ Words[k] = Tok(i)
            /\ Len(SelectSeq(before, LAMBDA t : t \notin {"|}", ";"})) = i - 1
            /\ before = <<>> \/ Last(before) \in {";", "{"}

TakenForDeclaration ==
    /\ ctl.do = "undefined" /\ StatementAt(at)
    /\ Tok(at) = "await" \/ (Tok(at) = "new" /\ Tok(at + 1) \in Names)

\* 3. A type parameter among the type arguments of "new" is taken for a class.
Creates(text, i) ==
    \E n \in 1..(i - 1) : /\ text[n] = "new" /\ text[n + 1] \in Names
                          /\ \A m \in n..i : text[m] # "("

AsRead(text) ==
    [i \in DOMAIN text |->
        IF Creates(text, i) /\ \E name \in DOMAIN Parameters : Parameters[name] = text[i]
        THEN CHOOSE name \in DOMAIN Parameters : Parameters[name] = text[i] ELSE text[i]]

Meaning == [k \in DOMAIN source.meaning |-> AsRead(source.meaning[k])]

Clean == ctl.do = "done" /\ errors = {}

\* A source written as the grammar says is parsed without a complaint, and every operator
\* takes the operands its precedence gives it, every statement ends where it was ended, and
\* exactly the uses of a type parameter inside its declaration are taken for one, but for
\* the departures above: the twelve levels of SyntaxA::evalExpr, the attempts at inline
\* functions and type arguments, the statement loop without line ends and
\* genericTypeParamStack.
MeaningKept ==
    source.kind = "written" /\ Ended =>
        \/ Clean /\ program = Meaning
        \/ TakenForDeclaration /\ IsPrefix(program, Meaning)
        \/ \E text \in Range(source.meaning) : LooseRight(text)

\* The same without a departure, as docs/StarbytesSyntax.md has it (6.3 and 7).
EveryMeaningKept ==
    source.kind = "written" /\ Ended => Clean /\ program = source.meaning

\* Parsing ends whatever the tokens are: Parser::parseFromStream skips the token no statement
\* starts with, and no attempt that is given up starts again.
ParsingEnds == <>Ended

=============================================================================
