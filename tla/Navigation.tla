---------------------------- MODULE Navigation ----------------------------
(***************************************************************************)
(* Requests about a name under the cursor (tools/lsp/ServerMain.cpp):      *)
(* hover, definition, declaration, type definition, implementation,        *)
(* references, highlights, symbols, completion, and rename.                *)
(*                                                                         *)
(* A program is a shape and a word for every place in it where a name is   *)
(* written.  The shape is a constant: the statements of each document with *)
(* places for names, and for every place the declaration it is meant to    *)
(* refer to.  The words vary: the same shape under other words shadows,    *)
(* or repeats in another scope, or does not compile.  The server looks at  *)
(* the words; the properties compare its answers with the meanings.        *)
(*                                                                         *)
(* A place is <<document, position in the text>>.  Positions in types,     *)
(* superclass lists, imports and comments are places as well, which no     *)
(* statement's expressions reach.  Namespaces, enumerations, interfaces,   *)
(* aliases, generics and the builtin library's index are left out, and a   *)
(* word is never a keyword.                                                *)
(***************************************************************************)
EXTENDS ParsedPrograms

CONSTANTS
    Shapes,     \* the shapes of programs, a sequence
    NewWords    \* the new names a rename is asked for, and queries

\* What the server computes from each document of a shape.
Walked == [p \in DOMAIN Shapes |-> [u \in DOMAIN Shapes[p].docs |-> Walk(Shapes[p].docs[u])]]

\* Every block that a document opens it also closes.
ASSUME ShapesAssumption ==
    \A p \in DOMAIN Shapes : \A u \in DOMAIN Walked[p] : Walked[p][u].around = <<>>

NoReply == [request |-> "none", at |-> None, answer |-> {}]

VARIABLES
    shape,      \* the shape of the program the editor has open
    word,       \* the word at every place
    reply       \* the last answer: places, or labels with places

vars == <<shape, word, reply>>

---------------------------------------------------------------------------
(* What the compiler binds a place to.                                     *)

\* A shape also gives the meaning of each place, the class of the values of
\* each declaration and of each class what it extends, and the declarations
\* of each scope.
AllSymbolsOf ==
    [p \in DOMAIN Shapes |-> UNION {ToSet(Walked[p][u].symbols) : u \in DOMAIN Walked[p]}]
AllSymbols(p) == AllSymbolsOf[p]
SymbolsIn(p, u) == Walked[p][u].symbols
ResolvableIn ==
    [p \in DOMAIN Shapes |-> UNION {DOMAIN Walked[p][u].site : u \in DOMAIN Walked[p]}]
Resolvable(p) == ResolvableIn[p]
SiteAt(p, at) == Walked[p][at[1]].site[at]
Places(p) == DOMAIN Shapes[p].meaning
Meaning(p, at) == Shapes[p].meaning[at]
ClassOf(p, at) == IF at \in DOMAIN Shapes[p].class THEN Shapes[p].class[at] ELSE None
SuperOf(p, c) == IF c \in DOMAIN Shapes[p].super THEN Shapes[p].super[c] ELSE None

OneOf(set) == IF set = {} THEN None ELSE CHOOSE d \in set : TRUE
LatestOf(seq) == IF seq = <<>> THEN Binding(None, "none") ELSE Head(seq)

\* The symbol table has entries for statements at the top level and for what
\* secure guards there.
TableEntry(p, w, u, name) == OneOf({d \in Shapes[p].table : d[1] = u /\ w[d] = name})

\* The latest binding of the name that is not a class member, or else the
\* table's.
BoundOr(b, entry) == IF b.at # None THEN b.at ELSE entry
Bound(p, w, near, u, name) ==
    BoundOr(LatestOf(SelectSeq(near, LAMBDA b :
                       /\ b.owner # "self" /\ w[b.at] = name
                       /\ \A s \in AllSymbols(p) : s.at = b.at => s.container = None)),
            TableEntry(p, w, u, name))

\* The words make the shape's program: no scope declares a word twice, every
\* use is bound to what it is meant to refer to, and every other place that
\* refers to a declaration has its word.
Compiles(p, w) ==
    /\ \A sc \in Shapes[p].scopes : \A a, b \in sc : a # b => w[a] # w[b]
    /\ \A at \in Places(p) : Meaning(p, at) # None => w[at] = w[Meaning(p, at)]
    /\ \A at \in Resolvable(p) :
         SiteAt(p, at).use = "id"
         => Bound(p, w, SiteAt(p, at).near, at[1], w[at]) = Meaning(p, at)

---------------------------------------------------------------------------
(* What the server resolves a place to: a symbol with its kind, the        *)
(* declaration it is found at, or nothing.                                 *)

Found(at, kind) == [at |-> at, kind |-> kind]
Nothing == Found(None, "none")
FirstOf(seq) == IF seq = <<>> THEN Nothing ELSE Found(Head(seq).at, Head(seq).kind)

findSymbolByName(p, w, u, name, container) ==
    FirstOf(SelectSeq(SymbolsIn(p, u),
                LAMBDA s : /\ w[s.at] = name
                           /\ \/ container = None /\ s.container = None
                              \/ /\ container # None /\ s.container # None
                                 /\ w[s.container] = w[container]))

findSymbolAt(p, at) ==
    IF at = None THEN Nothing
    ELSE FirstOf(SelectSeq(SymbolsIn(p, at[1]), LAMBDA s : s.at = at))

\* Faulty: the frames are searched from the outermost.
OutermostBinding(w, near, name, cursor) ==
    LatestOf(SelectSeq(Reverse(near), LAMBDA b :
               (IF b.owner = "self" THEN "self" ELSE w[b.at]) \in {name, cursor}))

\* The innermost binding that has the name looked up, or the word under the
\* cursor, which is another one while the type of a receiver is inferred.
findLocalBinding(w, near, name, cursor) ==
    LatestOf(SelectSeq(near, LAMBDA b :
               (IF b.owner = "self" THEN "self" ELSE w[b.at]) \in {name, cursor}))

\* A symbol made for a binding: where the document has a symbol for it, that
\* one, as a variable unless it is a class.
synthesizeSymbol(b) == Found(b.at, IF b.owner = "class" THEN "class" ELSE "variable")

\* The symbol of a table entry is found by its name.
AsEntry(found, kind) ==
    IF found # Nothing /\ kind = "variable" THEN Found(found.at, kind) ELSE found
makeSymbolFromEntry(p, w, u, entry) ==
    IF entry = None THEN Nothing
    ELSE AsEntry(findSymbolByName(p, w, u, w[entry], None), findSymbolAt(p, entry).kind)

\* The member of a class or of what it extends.
RECURSIVE findClassMember(_, _, _, _)
findClassMember(p, w, c, name) ==
    IF c = None THEN None
    ELSE IF \E s \in AllSymbols(p) : s.container = c /\ w[s.at] = name
         THEN OneOf({s.at : s \in {t \in AllSymbols(p) : t.container = c /\ w[t.at] = name}})
         ELSE findClassMember(p, w, SuperOf(p, c), name)

\* The class of the values of an expression, as far as it is known.
ClassAt(p, owner, decl) ==
    IF owner = "self" \/ findSymbolAt(p, decl).kind = "class" THEN decl ELSE ClassOf(p, decl)
TypeOf(p, b, entry) == ClassAt(p, b.owner, BoundOr(b, entry))
TypeOfName(p, w, near, u, name, cursor) ==
    TypeOf(p, findLocalBinding(w, near, name, cursor), TableEntry(p, w, u, name))

RECURSIVE inferExprType(_, _, _, _, _)
inferExprType(p, w, e, near, cursor) ==
    CASE e.k = "id" -> TypeOfName(p, w, near, e.at[1], w[e.at], cursor)
      [] e.k = "self" -> TypeOfName(p, w, near, e.of, "self", cursor)
      [] e.k = "member" ->
           ClassOf(p, findClassMember(p, w, inferExprType(p, w, e.left, near, cursor), w[e.at]))
      [] e.k = "module" -> ClassOf(p, TableEntry(p, w, e.module, w[e.at]))
      [] e.k = "call" -> inferExprType(p, w, e.callee, near, cursor)
      [] OTHER -> None

OfBinding(b, symbol) == IF b.at # None THEN synthesizeSymbol(b) ELSE symbol
OfClass(p, w, c, at) ==
    IF findClassMember(p, w, c, w[at]) = None THEN Nothing
    ELSE findSymbolByName(p, w, at[1], w[at], c)

resolveExprHover(p, w, s) ==
    CASE s.use = "id" ->
           OfBinding(findLocalBinding(w, s.near, w[s.at], w[s.at]),
                     makeSymbolFromEntry(p, w, s.at[1], TableEntry(p, w, s.at[1], w[s.at])))
      [] s.use = "module" ->
           makeSymbolFromEntry(p, w, s.left.module, TableEntry(p, w, s.left.module, w[s.at]))
      [] s.use = "member" ->
           OfClass(p, w, inferExprType(p, w, s.left, s.near, w[s.at]), s.at)
      [] s.use = "symbol" -> findSymbolAt(p, s.at)
      [] OTHER -> synthesizeSymbol(Binding(s.at, s.use))

\* The walk stops at the one site that holds the cursor.
resolveHoverSymbol(p, w, at) ==
    IF at \in Resolvable(p) THEN resolveExprHover(p, w, SiteAt(p, at)) ELSE Nothing

\* Where the place is a symbol's own, the symbol as declared.
Declared(p, at) == \E s \in AllSymbols(p) : s.at = at
resolveSemanticSymbolTarget(p, w, at) ==
    IF Declared(p, at) THEN findSymbolAt(p, at) ELSE resolveHoverSymbol(p, w, at)

symbolIsRenameOwned(p, w, symbol) ==
    /\ symbol # Nothing
    /\ resolveSemanticSymbolTarget(p, w, symbol.at) = symbol

appendOccurrences(p, w, name) == {at \in Places(p) : w[at] = name}
SymbolsNamed(p, w, name) == {s.at : s \in {t \in AllSymbols(p) : w[t.at] = name}}

---------------------------------------------------------------------------
(* The requests.  The editor asks them of a program that compiles; it may  *)
(* apply the edits of a rename.                                            *)

\* The places whose words are chosen, from the shape's choices: declarations
\* and what refers to none.
Free(p) == {at \in Places(p) : Meaning(p, at) \in {None, at}}
Chosen(p) ==
    FoldSet(LAMBDA at, acc : {(at :> c) @@ f : c \in Shapes[p].choices[at], f \in acc},
            {<<>>}, Free(p))

Init ==
    /\ shape \in DOMAIN Shapes
    /\ \E f \in Chosen(shape) :
         word = [at \in Places(shape) |->
                   IF at \in Free(shape) THEN f[at] ELSE f[Meaning(shape, at)]]
    /\ Compiles(shape, word)
    /\ reply = NoReply

Answer(request, at, answer) ==
    /\ reply' = [request |-> request, at |-> at, answer |-> answer]
    /\ UNCHANGED shape

Asked == reply = NoReply /\ Compiles(shape, word)

Locations(r, at) == IF r # Nothing THEN {r.at} ELSE SymbolsNamed(shape, word, word[at])

\* Hovering over a name that does not resolve describes the last symbol of that
\* name in the document, or else any of the others'.
SymbolsNamedIn(u, name) == SelectSeq(SymbolsIn(shape, u), LAMBDA s : word[s.at] = name)
Described(r, at) ==
    IF r # Nothing THEN {r.at}
    ELSE IF SymbolsNamedIn(at[1], word[at]) # <<>>
         THEN {Last(SymbolsNamedIn(at[1], word[at])).at}
         ELSE SymbolsNamed(shape, word, word[at])

handleHover(at) ==
    /\ \E S \in {Described(resolveHoverSymbol(shape, word, at), at)} :
         \/ S = {} /\ Answer("hover", at, {})
         \/ \E d \in S : Answer("hover", at, {d})
    /\ UNCHANGED word

\* The outline of a document, and the symbols whose name holds a query.
handleDocumentSymbol(u) ==
    /\ Answer("documentSymbol", <<u, 0>>, {s.at : s \in ToSet(SymbolsIn(shape, u))})
    /\ UNCHANGED word

handleWorkspaceSymbol(query) ==
    /\ Answer("workspaceSymbol", None, SymbolsNamed(shape, word, query))
    /\ UNCHANGED word

handleDefinition(at) ==
    /\ Answer("definition", at, Locations(resolveHoverSymbol(shape, word, at), at))
    /\ UNCHANGED word

handleDeclaration(at) ==
    /\ Answer("declaration", at, Locations(resolveSemanticSymbolTarget(shape, word, at), at))
    /\ UNCHANGED word

\* The class named in the signature of the symbol found.  A symbol as it was
\* declared names one only where its type is written.
TypeShown(at, r) ==
    CASE r.kind = "class" -> r.at
      [] \/ r.kind # "class" /\ Declared(shape, at)
         \/ r.kind \in {"field", "method", "function"} ->
           IF r.at \in Shapes[shape].annotated THEN ClassOf(shape, r.at) ELSE None
      [] OTHER -> ClassOf(shape, r.at)

ClassesNamed(c, u) ==
    {s.at : s \in {t \in AllSymbols(shape) : /\ t.kind = "class" /\ t.at[1] = u
                                             /\ c # None /\ word[t.at] = word[c]}}

handleTypeDefinition(at) ==
    /\ Answer("typeDefinition", at,
              ClassesNamed(TypeShown(at, resolveSemanticSymbolTarget(shape, word, at)), at[1]))
    /\ UNCHANGED word

\* Classes whose first base has the word of the class asked about; nothing
\* implements a method, for which no base is ever compared.
Implementers(r) ==
    IF r.kind # "class" THEN {}
    ELSE {c \in DOMAIN Shapes[shape].superAt : word[Shapes[shape].superAt[c]] = word[r.at]}

OrItself(set, r, at) == IF set = {} THEN Locations(r, at) ELSE set
ImplementationOf(r, at) == OrItself(Implementers(r), r, at)

handleImplementation(at) ==
    /\ Answer("implementation", at, ImplementationOf(resolveHoverSymbol(shape, word, at), at))
    /\ UNCHANGED word

\* Faulty: the places are not resolved.
SameWord(r, at) == appendOccurrences(shape, word, word[at])

\* Every place with the same word that resolves to the same symbol, or every
\* place with the word when the cursor's place does not resolve.
ReferencesTo(r, at) ==
    {q \in appendOccurrences(shape, word, word[at]) :
       r = Nothing \/ resolveHoverSymbol(shape, word, q).at = r.at}

handleReferences(at) ==
    /\ Answer("references", at, ReferencesTo(resolveHoverSymbol(shape, word, at), at))
    /\ UNCHANGED word

handleDocumentHighlight(at) ==
    /\ Answer("highlight", at,
              {q \in appendOccurrences(shape, word, word[at]) : q[1] = at[1]})
    /\ UNCHANGED word

\* Entries are labels with places: local bindings, what the word under the
\* cursor resolves to, and then the symbols outside classes of all documents.
\* The first entry with a label stays.
FirstEntries(seq) ==
    {<<word[seq[i]], seq[i]>> :
       i \in {k \in DOMAIN seq : \A j \in 1..(k - 1) : word[seq[j]] # word[seq[k]]}}
Labels(seq) == {word[d] : d \in ToSet(seq)}
WithSymbols(seq) ==
    FirstEntries(seq)
      \cup {<<word[s.at], s.at>> :
              s \in {t \in AllSymbols(shape) : t.container = None /\ word[t.at] \notin Labels(seq)}}
PlaceOf(r) == IF r = Nothing THEN <<>> ELSE <<r.at>>
Entries(at) ==
    WithSymbols(SiteAt(shape, at).offered \o PlaceOf(resolveHoverSymbol(shape, word, at)))

\* After a dot: the members, in any document, of a class named as the
\* receiver's, or what is at the top level of the module.
MembersOf(c) == {t \in AllSymbols(shape) : /\ c # None /\ t.container # None
                                           /\ word[t.container] = word[c]}
MemberEntries(s) ==
    {<<word[t.at], t.at>> :
       t \in IF s.use = "module"
             THEN {t \in ToSet(SymbolsIn(shape, s.left.module)) : t.container = None}
             ELSE MembersOf(TypeShown(s.left.at, resolveHoverSymbol(shape, word, s.left.at)))}

handleCompletion(s) ==
    /\ \/ s.use = "id" /\ Answer("completion", s.at, Entries(s.at))
       \/ /\ s.use = "module" \/ (s.use = "member" /\ s.left.k = "id")
          /\ Answer("completion", s.at, MemberEntries(s))
    /\ UNCHANGED word

handlePrepareRename(at) ==
    /\ Answer("prepareRename", at,
              {q \in {at} : symbolIsRenameOwned(shape, word,
                              resolveSemanticSymbolTarget(shape, word, at))})
    /\ UNCHANGED word

\* Faulty: the places are not resolved.
EditsOfWord(r, at) ==
    {q \in appendOccurrences(shape, word, word[at]) : symbolIsRenameOwned(shape, word, r)}

\* The edits of a rename, none unless the symbol resolves to itself at its
\* own place.
Edits(r, at) ==
    {q \in appendOccurrences(shape, word, word[at]) :
       /\ symbolIsRenameOwned(shape, word, r)
       /\ resolveSemanticSymbolTarget(shape, word, q) = r}

handleRename(at, new) ==
    /\ Answer("rename", at, Edits(resolveSemanticSymbolTarget(shape, word, at), at))
    /\ word' = [q \in Places(shape) |-> IF q \in reply'.answer THEN new ELSE word[q]]

Dismiss ==
    /\ reply # NoReply
    /\ reply' = NoReply
    /\ UNCHANGED <<shape, word>>

Request ==
    \/ \E at \in Places(shape) :
         \/ handleHover(at)
         \/ handleDefinition(at)
         \/ handleDeclaration(at)
         \/ handleTypeDefinition(at)
         \/ handleImplementation(at)
         \/ handleReferences(at)
         \/ handleDocumentHighlight(at)
         \/ handlePrepareRename(at)
         \/ \E new \in NewWords : handleRename(at, new)
    \/ \E at \in Resolvable(shape) : handleCompletion(SiteAt(shape, at))
    \/ \E u \in DOMAIN Shapes[shape].docs : handleDocumentSymbol(u)
    \/ \E query \in NewWords : handleWorkspaceSymbol(query)

\* The editor asks of a program that compiles.
Next ==
    \/ Asked /\ Request
    \/ Dismiss

Spec == Init /\ [][Next]_vars

---------------------------------------------------------------------------
Fresh(w) == \A at \in Places(shape) : word[at] # w

\* Local declarations have no symbol: those of functions and their blocks.
Local(d) == ~Declared(shape, d)

\* No two declarations outside classes and functions of one document have the
\* name; no member of a class has it.
Single(name) ==
    \A s, t \in AllSymbols(shape) :
        (/\ s.container = None /\ t.container = None /\ s.at[1] = t.at[1]
         /\ word[s.at] = name /\ word[t.at] = name) => s = t
NoMember(name) ==
    \A s \in AllSymbols(shape) : s.container # None => word[s.at] # name

Renaming == reply'.request = "rename" /\ Asked

\* A rename edits only places that refer to what the place under the cursor
\* refers to, provided that name lookup in the document has one answer.
RenameEditsOneSymbol ==
    [][(Renaming /\ Single(word[reply'.at]))
         => \A e \in reply'.answer :
              Meaning(shape, e) = Meaning(shape, reply'.at)]_vars

\* The same of every rename, as docs/LSPComplianceMatrix.md says of it
\* ("exact declaration identity matching").  It does not hold: a use inside a
\* function is looked up by name among the document's symbols, and the first
\* may be a variable of a catch block.
RenameByIdentity ==
    [][Renaming => \A e \in reply'.answer :
                     Meaning(shape, e) = Meaning(shape, reply'.at)]_vars

\* Renaming a variable, a parameter or a caught error to a new name leaves a
\* program with the same meanings.  A variable outside functions must be the
\* only one of that name, which no member may have either: members of a class
\* are bindings of the statements after it.  Functions and classes are renamed
\* in part: the kind found at a call differs from the function's, and types
\* are never resolved.
RenameKeepsProgram ==
    [][(/\ Renaming
        /\ \E e \in reply'.answer : Fresh(word'[e])
        /\ \/ Local(Meaning(shape, reply'.at))
           \/ /\ findSymbolAt(shape, Meaning(shape, reply'.at)).kind = "variable"
              /\ Single(word[reply'.at]) /\ NoMember(word[reply'.at]))
       => Compiles(shape, word')]_vars

\* The references listed for a place in an expression or a declaration are
\* all the places there with its meaning and no other, functions, classes and
\* imported declarations included, where names decide.
ReferencesAreMeanings ==
    (/\ reply.request = "references" /\ reply.at \in Resolvable(shape)
     /\ Compiles(shape, word)
     /\ \/ Local(Meaning(shape, reply.at))
        \/ Single(word[reply.at]) /\ NoMember(word[reply.at]))
    => reply.answer = {q \in Resolvable(shape) : Meaning(shape, q) = Meaning(shape, reply.at)}

\* Completion in an expression offers the name of every declaration that the
\* compiler would bind there, but for what it overlooks.
VisibleAt(s) ==
    {d \in {s.near[i].at : i \in DOMAIN s.near} \cup {t \in Shapes[shape].table : t[1] = s.at[1]} :
       Bound(shape, word, s.near, s.at[1], word[d]) = d}
CompletionOffersVisible ==
    (/\ reply.request = "completion" /\ SiteAt(shape, reply.at).use = "id"
     /\ Compiles(shape, word))
    => \A d \in VisibleAt(SiteAt(shape, reply.at)) \ Walked[shape][reply.at[1]].overlooked :
         \E e \in reply.answer : e[1] = word[d]
=============================================================================
