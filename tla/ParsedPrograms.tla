-------------------------- MODULE ParsedPrograms --------------------------
(***************************************************************************)
(* What the language server computes from the statements of a document     *)
(* whatever the words in it are: the bindings in force at every place      *)
(* (tools/lsp/ServerMain.cpp), and the symbols (DocumentAnalysis.cpp).     *)
(***************************************************************************)
EXTENDS Naturals, FiniteSets, Sequences, SequencesExt, FiniteSetsExt, TLC

None == <<"none", 0>>

---------------------------------------------------------------------------
(* A document is the sequence of what its statements hold, in the order    *)
(* the server visits it: uses of names, declarations, and the blocks'      *)
(* beginnings and ends.                                                    *)
Lit == [k |-> "lit"]
Self(u) == [k |-> "self", of |-> u]
Id(at) == [k |-> "id", at |-> at]
Member(left, at) == [k |-> "member", left |-> left, at |-> at]
Qualified(module, at) == [k |-> "module", module |-> module, at |-> at]
Call(callee) == [k |-> "call", callee |-> callee]

Use(expr) == [k |-> "use", expr |-> expr]
Declare(at, owner) == [k |-> "declare", at |-> at, owner |-> owner]
Open(block, names) == [k |-> "open", block |-> block, names |-> names]
Else == [k |-> "else"]      \* the next block of a conditional
Close == [k |-> "close"]

---------------------------------------------------------------------------
\* A binding is the place of a declaration and what kind of statement owns it.
Binding(at, owner) == [at |-> at, owner |-> owner]

\* A place in an expression: how it is used, what it is a member of and the
\* bindings up to the enclosing function, the latest first; and the bindings
\* that completion offers there, the outermost first.
Site(at, use, left, near, offered) ==
    [at |-> at, use |-> use, left |-> left, near |-> near, offered |-> offered]

\* A symbol of a document: a declaration outside functions and conditionals.
Symbol(at, kind, container) == [at |-> at, kind |-> kind, container |-> container]

\* Where the walk is: the bindings, the class, the secured declaration last
\* passed; inside a function or a conditional; past the first block of one.
Outside ==
    [near |-> <<>>, offered |-> <<>>, class |-> None, guarded |-> <<>>,
     inside |-> FALSE, past |-> FALSE]

Start ==
    [here |-> Outside, around |-> <<>>, site |-> <<>>, symbols |-> <<>>, overlooked |-> {}]

Noted(w, at, use, left) ==
    [w EXCEPT !.site = @ @@ (at :> Site(at, use, left, w.here.near, w.here.offered))]

\* Completion never enters the later blocks of a conditional.
Offering(w, names) ==
    IF w.here.past THEN [w EXCEPT !.overlooked = @ \cup ToSet(names)]
    ELSE [w EXCEPT !.here.offered = @ \o names]

Collected(w, at, kind) ==
    IF w.here.inside THEN w
    ELSE [w EXCEPT !.symbols = Append(@, Symbol(at, kind, w.here.class))]

Bind(w, bindings) == [w EXCEPT !.here.near = bindings \o @]
Forget(w) == [w EXCEPT !.here.near = <<>>]
Inside(w) == [w EXCEPT !.here.inside = TRUE]

\* What is secured has its symbol like other variables, but is offered only in
\* the block that secures it: elsewhere it is overlooked, unless its symbol is
\* offered.
KindOf(owner, class) ==
    CASE owner \in {"var", "guarded"} -> IF class = None THEN "variable" ELSE "field"
      [] owner = "func" -> IF class = None THEN "function" ELSE "method"
      [] OTHER -> "class"

OfferDeclared(w, item) ==
    CASE item.owner = "var" -> Offering(w, <<item.at>>)
      [] item.owner = "guarded" ->
           [w EXCEPT !.here.guarded = <<item.at>>,
                     !.overlooked = @ \cup {x \in {item.at} : w.here.inside}]
      [] OTHER -> w

DeclareStep(w, item) ==
    Bind(Collected(OfferDeclared(
           Noted(w, item.at, IF item.owner \in {"var", "guarded"} THEN "var" ELSE "symbol", Lit),
           item), item.at, KindOf(item.owner, w.here.class)),
         <<Binding(item.at, IF item.owner = "guarded" THEN "var" ELSE item.owner)>>)

\* A function's body starts from its parameters alone, and self in a method.
\* The members of a class are walked with the class bound, and stay bound
\* after it.
Params(w, names) ==
    Bind(Forget(Inside([w EXCEPT !.site =
                          @ @@ [at \in ToSet(names) |-> Site(at, "param", Lit, <<>>, <<>>)]])),
         (IF w.here.class = None THEN <<>> ELSE <<Binding(w.here.class, "self")>>)
           \o Reverse([i \in DOMAIN names |-> Binding(names[i], "param")]))

\* Faulty: parameters are not offered.
OpenWithoutParams(w, item) ==
    CASE item.block = "func" -> Params(w, item.names)
      [] item.block = "class" -> [w EXCEPT !.here.class = item.names[1]]
      [] item.block = "catch" ->
           Bind(Offering(Collected(Noted(w, item.names[1], "catch", Lit),
                                   item.names[1], "variable"),
                         w.here.guarded \o item.names),
                <<Binding(item.names[1], "catch")>>)
      [] OTHER -> Inside(w)

OpenBlock(w, item) ==
    CASE item.block = "func" -> Offering(Params(w, item.names), item.names)
      [] item.block = "class" -> [w EXCEPT !.here.class = item.names[1]]
      [] item.block = "catch" ->
           Bind(Offering(Collected(Noted(w, item.names[1], "catch", Lit),
                                   item.names[1], "variable"),
                         w.here.guarded \o item.names),
                <<Binding(item.names[1], "catch")>>)
      [] OTHER -> Inside(w)

CloseBlock(w) ==
    [w EXCEPT !.around = Tail(@),
              !.here = IF w.here.class # Head(w.around).class
                       THEN [Head(w.around) EXCEPT !.near = w.here.near]
                       ELSE Head(w.around)]

Step(w, item) ==
    CASE item.k = "use" ->
           Noted(w, item.expr.at, item.expr.k,
                 IF item.expr.k = "member" THEN item.expr.left ELSE item.expr)
      [] item.k = "declare" -> DeclareStep(w, item)
      [] item.k = "open" -> OpenBlock([w EXCEPT !.around = <<w.here>> \o @], item)
      [] item.k = "else" -> [w EXCEPT !.here.near = Head(w.around).near, !.here.past = TRUE]
      [] OTHER -> CloseBlock(w)

\* The sites, symbols and overlooked declarations of a document.
Walk(text) == FoldLeft(Step, Start, text)
=============================================================================
