# Starbytes: a verification project

TLA+ modules for parts of the Starbytes compiler, runtime and tools, the TLC
configurations that check them on small instances, and proofs that TLAPS checks
for every value of the constants. `PROJECT.json` says which definition
translates which lines of the repository; every path below is relative to the
repository.

To check a run: `tlc -config <cfg> <MC module>`. To check the proofs:
`tlapm <module>Proofs.tla`.

## 1. The system

A program is compiled to a stream of bytecode (`src/compiler`), which one
interpreter executes (`src/runtime`); native modules (`stdlib`) are called from
it. The driver (`tools/driver`) resolves modules, compiles and caches them; the
language server (`tools/lsp`) and the linguistics tools work on documents.

| component | state | operations | hard behaviour |
|---|---|---|---|
| **Lazy calls, microtasks, `await`** (`RTEngine.cpp`, `RTObject.c`) | `microtaskQueue`, `isDrainingMicrotasks`, `lastRuntimeError`, the Task objects and their reference counts | schedule a lazy call, drain the queue, await, raise and clear errors, leave a body | tasks run on top of whatever is being evaluated; errors cross between tasks and code they interrupt; references on failing paths; waiting for a task under a drain |
| **V2 execution image, hot loops, compiled code** (`RTEngine.cpp`, `RTJit.cpp`) | images by function, `V2LoopRuntimeState` of every loop, compiled loops | fuse, fix jumps, interpret, count, compile, enter, leave, deoptimize | two numberings of the same code; loop records shared by nested activations |
| **V2 lowering and its values** (`CodeGen.cpp`, `RTEngine.cpp`, `RTNumeric.cpp`) | slots of a function, kinds of slots | lower a function to registers, execute an instruction | the same program has two meanings, in the V1 evaluator and in V2 |
| **Quickening and feedback** (`RTEngine.cpp`) | quickened sites by offset, feedback vectors by function | observe, specialise, dispatch | specialised once, for what was seen first |
| **Bytecode** (`CodeGen.cpp`, `RTCode.cpp`, `RTStream.cpp`) | a stream with a position | emit, evaluate, skip | what one side writes three readers must agree on |
| **Code cache** (`RTCodeCache.cpp`) | artifacts, budgets, tiers | install, evict, demote | entries of functions that no longer exist |
| **Object model** (`RTObject.c`, `RTValue.cpp`) | objects with reference counts | retain, release, containers | balance on failing paths |
| **Variables, scopes, inline caches** (`RTEngine.cpp`) | scopes by name, caches keyed by generation | push, pop, look up | stale iterators, scope names that collide |
| **Built-in members, interop** (`RTStdlib.cpp`, `RTInterop.cpp`) | argument buffers | dispatch, call native code | who owns an argument |
| **Lexer and parser** | token window | tokenize, parse, recover | recovery after a syntax error |
| **Symbol tables, types, semantic analysis** (`SymTable.cpp`, `Type.cpp`, `*Sema.cpp`) | nested scopes, types | declare, look up, match, check | which names are visible; matching that is not symmetric |
| **Language server** (`ServerMain.cpp`, `SymbolCache.cpp`, `DocumentAnalysis.cpp`) | documents with analyses, token snapshots, cancelled ids, cache file | open, change, save, close, reload, answer | what is remembered goes stale; positions in other units than the editor's; containers that change while they are walked |
| **Driver** (`tools/driver/main.cpp`) | import graph, artifacts and their keys | resolve, compile, reuse | an artifact older than what it was built from |
| **Linguistics** (`src/linguistics`, `tools/ling`) | findings and edits of one text | lint, format, suggest, apply | edits that overlap |
| **Package manager** (`tools/starbpkg`) | lock file, module directories | init, sync, status | interrupted synchronisation |
| **Threading** (`stdlib/Threading`) | registries of mutexes, channels ... by address | lock, wait, signal, close | the only host threads; entries outlive their object |
| **Other native modules** (`stdlib`) | handles | open, read, write, close | use after close, failing system calls |

`PROJECT.json` lists these with their status, and under `hazards` what is hard
to test in each, at its line.

Components interact by calls in one thread: the evaluator calls the queue after
every statement, the queue calls the evaluator; the interpreter of V2 enters
compiled loops, which run microtasks at their back edges and call functions
again; the language server calls the parser and the semantic analysis and keeps
their results. Only `stdlib/Threading` creates host threads' primitives.

## 2. What is modelled

Where the code is known not to keep what a property says, the property names the
case, as a step or a premise of its own (a *named departure*), and says that
there is no other. It then holds on every behaviour of the model. Beside it
stands the strict property without departures; TLC finds it violated, as section
4 tells with what the documents of the repository say.

### 2.1 Microtasks: lazy calls, `await`, the error slot

`Microtasks.tla` models `scheduleLazyCall`, `processOneMicrotask`,
`processMicrotasks`, the `await` opcode, `executeSecureDecl`,
`raiseRuntimeError`, the statement loops of `exec`, `invokeFuncWithValues`,
`executeRuntimeBlock` and `invokeV2FuncWithValues`, and the Task object.

* State. `frames` is the interpreter's C++ call stack: the module at the
  bottom, function bodies above it, each with the place it is at (taking a
  statement, evaluating one, in the loop of `await`, in its own
  `processMicrotasks`, in `exec`'s epilogue). `queue`, `draining`, `err`,
  `state`, `reason`, `refs` and `globals` are `microtaskQueue`,
  `isDrainingMicrotasks`, `lastRuntimeError`, the fields of
  `StarbytesTaskPriv`, the objects' counts and the variables that hold Tasks.
  `order`, `settled` and `delivered` are history.
* Actions. One per operation. A statement is a finite run of operations:
  schedule a lazy call, begin an `await`, fail, recover in a `secure`, call a
  function, end a statement of a nested block. The arguments of a lazy call are
  such operations before one atomic `ScheduleLazy`. Whatever ends a statement
  enters `processMicrotasks`; `TakeMicrotask` puts the body of the oldest task
  on top of the frame that drains.
* V1 bodies go on after a failed statement, V2 bodies and the module do not;
  both are modelled (`body`).

`LazyExecutor.tla` is what the queue promises: calls wait in order, one is
executed at a time, it settles once, a settled call does not change.
`Microtasks` is shown to implement it (`ImplementsExecutor`).

| run | shows | result |
|---|---|---|
| `tasks_safety` (`MCMicrotasks.cfg`) | one lazy body at a time, no call lost or run twice, settled in order, references balanced on every path, an error leaves a task only by `await`, nothing left when `exec` returns, the executor is implemented | holds, 403,734 states |
| `tasks_liveness` (`MCMicrotasksLive.cfg`) | programs whose lazy bodies do not await: every `await` ends, every queued call settles, `exec` returns | holds, 114,622 states |
| `tasks_nested_await` (`MCMicrotasksNested.cfg`) | a lazy body that awaits a queued task never goes on: under a drain `processMicrotasks` returns at once | `AwaitCompletes` is violated |

Bounds: `MaxOps` operations per body, `MaxDepth` frames when a call is made,
three Tasks, one variable. Three tasks are the fewest with which one can be
queued while a second runs and a third waits; a body of three operations can
schedule, await and fail; depth 2 puts a call between the module and the drain.
Symmetry is used in the safety run only.

Fairness is `WF(Next)`: the interpreter is one thread that keeps executing. It
says nothing of which operation comes next; bodies are finite, so an infinite
behaviour can only be the loop of `await`.

### 2.2 HotLoop: the execution image and compiled loops

`V2Image.tla` is `buildV2ExecImage` as operators: which groups of instructions
are fused, what is installed for them, how jump targets move (`ExecIndex`), and
which loops the image has. `HotLoop.tla` executes an image: the interpreter
(`invokeV2FuncWithValues`), the counters of a loop record, compilation when a
loop is hot, entry at the header, the compiled code's operations with their
guards, deoptimization, exits, failures, microtasks at back edges, and
activations that nest through recursive calls and microtasks. A position in
compiled code is the pc of its instruction and the part of it that comes next.
Values are abstracted: an instruction that may fail does so or not, a branch
goes either way; so two tiers are compared by the instructions they execute,
not by what these compute. `Deopt` re-executes the guarded instruction in the
interpreter, as the code does. The opcode `Nop` is never emitted and is left out.

`PlainV2.tla` is the image executed by the interpreter alone; `TiersAgree` says
that execution with compiled loops implements it, guards failing anywhere. The
one departure is `ResumesElsewhere`: the resume point of a guard is a pc of the
bytecode and is used as a pc of the image, so a guard that fails behind a fused
instruction makes the interpreter go on at another instruction. `NoSemanticDrift`
is the refinement without it. `TierChangesEnd` is about the changes of tier
themselves (entering a loop, a guard, `Deopt`), which execute nothing: they do not
go on for ever without an instruction in between, as they would if a loop were
entered again at the header a guard resumes at.

| run | shows | result |
|---|---|---|
| `hotloop` (`MCHotLoop.cfg`) | about twenty function bodies of the form the lowerer emits (loops, nested loops, fused updates, array accesses behind and before fused statements, calls, statements left to V1), guards holding and failing: the tiers agree but for the departure; changes of tier come to an end | holds, 71,495 states |

Bounds: the threshold is 2 instead of `kV2HotLoopThreshold`, which only sets
when a loop turns hot; two nested activations are enough for one to be inside
compiled code while another compiles, deoptimizes or fails. `TierChangesEnd`
needs no fairness: it says of behaviours that change the tier infinitely often
that they also execute something infinitely often.

### 2.3 Editor: the language server's documents

`Editor.tla` joins two modules that share the process and no state; `subject`
says which of them is at work.

`TextSync.tla` models `offsetFromPosition`, `positionFromOffset`,
`maybeApplyIncrementalChange`, the loop of `handleDidChange` and the edit of
`handleFormatting`. A text of the editor is a sequence of characters, each with
its length in UTF-16 units and in UTF-8 bytes; the server's text is its bytes.
The editor (external) sends positions in UTF-16 units, as an editor does that
negotiated nothing; it may type ahead, and batch changes into a notification.

`LanguageServer.tla` models `setDocumentTextByUri`, `removeOpenDocumentByUri`,
`loadWorkspaceDocuments`, `getDocumentTextByUri` and
`findModuleDocumentByName` (an import is looked up among the loaded documents,
else on disk, and then loaded), `buildSemanticResolvedDocumentForUri`,
`getCompilerDiagnosticsForDocument`, the semantic tokens with their snapshots
and deltas, and the handlers for open, change, save, close, changed files,
diagnostics of a document and of the workspace. `documents` is the server's map:
its domain are the loaded modules. Handling a message is one action, because
the server is one loop. The result of analysing a text is the text together
with the results for its imports, so a result that is out of date is a
different value. Imports are acyclic (the driver refuses cycles).
`refreshAnalysisState` is left out: every assignment of a text replaces the
record, so the key it compares never differs. Lint findings, suggestions,
formatted text, the index of built-ins and the symbol cache depend on one text
only or are kept elsewhere, and are left out.

`workspace/diagnostic` walks over `documents` while analyses may insert into it.
After a rehash the iterator continues in another order; the model lets the walk
miss any document, or meet a new one, as soon as something was inserted. That
the answer reports every loaded document, as docs/LSPComplianceMatrix.md:64 has
it, is therefore not stated; what the walk remembers must not harm the rest.

| run | shows | result |
|---|---|---|
| `editor` (`MCEditor.cfg`) | two modules edited in the editor and on disk in any order of messages: open documents are the editor's, a result id both sides know stands for the same tokens but for what a delta without its base leaves behind, diagnostics published after an edit are of the new text and of the imports as they read; and a document of one-byte characters and line ends: once all changes have been read the server has the editor's text, positions and offsets are inverse | holds, 541,494 states |

Bounds: two modules, the second may import the first, two bodies (one import is
enough for a result to go stale); two answered token requests, the fewest with
which a delta follows an edit (longer sequences: `TokensAnswered`, section 3); texts of up to
three characters and two changes ahead, since a line end, a character before
and one behind it are the cases `offsetFromPosition` distinguishes, and a second
change is placed in the text the first one left.

The editor (external) asks for tokens in full or for a delta from any result it
holds, also when its text has changed since. The server forgets a document's
snapshot with every edit, and answers a delta to a result it does not know with
one from the empty list; the editor applies that to the tokens it has. So the
tokens of the editor are a sequence: what the server meant, and behind it one
older result for each such delta (`stale`). `TokensAsAnswered` says that nothing
else comes about; `DeltasYieldAnswer` is the case without any.

`EditedDiagnosticsFresh` is about the document that was edited. What is published
earlier for documents that import it, and what is answered when diagnostics are
asked for, may be out of date (`PulledDiagnosticsCurrent`, section 4); nothing in
docs/LSPComplianceMatrix.md says otherwise, whose list of gaps names both that
(:115) and the position encoding (:125). `InSync` is checked with characters of
one unit and one byte for that reason; `WideUnits` and `WideWidth` of `MCEditor`
are others.

### 2.4 Evaluator: the V1 evaluator

`Evaluator.tla` joins two views of `evalExpr` that share no state; `side` says
which.

**As something that remembers.** `PlainExpr.tla` is the evaluation of the
expressions `inspectQuickeningCandidate` accepts (arithmetic and comparison of
local slots, `sqrt` of one, typed array accesses) and of a plain slot.
`Quickening.tla` adds the invocation counter of the function and its
`quickenedExprs`, with one action for each way `evalExpr` can go: plain, by the
site, or by the site and back. A call and an assignment put other values into
the slots (`Frames`), a call counts. Recursion needs no stack: what another
activation changes is the slots and the shared sites. Numbers are left open
(`Conv`, `Arith`, `Holds`, `Root`); the runs count halves. Signed overflow,
undefined in the code on both sides, is left out, and so are numbers that a
widening conversion rounds.

Quickening implements plain evaluation (`AsPlain`), but for two departures
(`Departs`). Statements of a V2 function that are left to V1 have a stream each,
and a site is found by the offset in the stream alone: an expression may be taken
for another one that has the same offset. And a site keeps the numeric kind of
the first operands it met, so later operands of another kind are converted to it.
Such an evaluation has the outcome of the expression and kind the site is of
(`TakenFor`), and its operands pass the test of that site (`Runs`); the departure
says exactly that, and `SitesDescribe` that no site is anything else.
`SameAsPlain` is the refinement without departures.

**As a reader of bytes.** `Emission.tla` is what `consumeStmt` and `consumeDecl`
write, as operators that build a sequence of tokens from the sequences of the
parts. A token is an opcode or a whole operand; the token of an opcode also
carries the size of its construct and the places of its parts, which only
properties look at. `EmittedPrograms.tla` are the bodies. `Bytecode.tla` reads
them. `stack` holds the C++ activations of `evalExpr`, `execNorm` and
`executeRuntimeBlock`, each with what it has still to read, and what its
expressions gave. Reading an operand, beginning and ending a construct, skipping
one, entering and leaving blocks, iterations and returns are actions; `SkipTo`
is `skipExpr`, `skipRuntimeStmt` and `skipRuntimeBlock`. Values are null, the two
Bools and any other object; what an expression may give is over-approximated
(`Outcomes`). A call reads its arguments and gives anything: the body is another
sequence. Where an operand is read as something else the model stops
(`garbled`), since its bytes may stand for anything. A condition that gives no
Bool ends in the assertion of the code.

`derailed` is set where the code leaves a construct early: an array literal
with an element that gives nothing (`RTEngine.cpp` 4904), a lazy call with such
an argument (4146), a built-in member, whose arguments are then read once more
from behind the failing one (939), and a statement that is a literal or a name
(7236: no case, so its operand is read as opcodes). `OnlyDerailedGoAstray` says
that these are the only ways to lose the place. They are ways:
`CatchBlockExecuted` says that a secure declaration never passes over its catch
block because something else stands where the block should begin.

| run | shows | result |
|---|---|---|
| `evaluator` (`MCEvaluator.cfg`) | one V1 body with division of `Any` values, a typed comparison, `sqrt`, typed array reads and writes, and three statements of a V2 function that share offsets, in any order, across the threshold, with operands that change their kinds, strings, zero divisors, negative roots, boxed and short arrays: quickening changes nothing but by the two departures; and, whatever is evaluated, skipped or fails: skipping ends where the construct ends, from every construct; so does execution unless it derails; the parts that are evaluated are the ones that are due (short circuits, ternaries, the first true branch, catch blocks, nothing behind a return) | holds, 57,964 states |

Bounds: the threshold is the code's; calls beyond it are not counted, since only
the comparison with it is ever made. Every family of sites is present once.
Every construct is present once as a statement, as an operand that may be
skipped, in a guard, in a block and behind a `return`, and some nested three
deep; two arguments or elements each, so that one may fail before another. Both
readers go by opcode and have no memory beyond the stack, so a construct behaves
in a deeper nesting as in these. The sum of a compound assignment is emitted as
in the code, the target's expression twice.

### 2.5 Objects: arrays, dictionaries, members, reference counts

`ArrayStorage.tla` is `StarbytesArrayPriv` as operators: boxed or typed storage,
the boxes a typed array keeps for numbers that were read as objects, promotion
of the whole array when another kind of number is stored, boxing of the whole
array when something else is. An operator yields the array and what its owner
has to reference, release and allocate. `Objects.tla` is a heap of counted
objects, the variables of one scope and the statements that work on them:
assignment of literals, array and dictionary literals, indexing and its
assignment, fields and properties of class objects, and the built-in members of
String, Regex, Array and Dict. A statement is one action, except that a call of
a member with arguments evaluates its receiver and reads its length first
(`BeginMemberInvoke`), lets any other statements run as what its arguments
evaluate, calls of members with arguments among them, and then does its work
(`Finish...`). `calls` holds the calls that are at this point, the inner one last. The references the
code is known to lose are counted per object (`lost`): `StarbytesArrayNew`
(RTObject.c 1326) never sets the function that releases the elements (1308), the
value of an index into a String is referenced twice (RTEngine.cpp 5331), a typed
indexed store takes one reference too many (5476), and the number that `length`
caches is allocated twice (5588, 5625).

`Collections.tla` is what a program sees: lists and maps, of which a statement
edits at most one by one edit. `ImplementsCollections` is the refinement. The
departure is a receiver that an argument has made longer (`ReceiverHasGrown`):
`insert` and `removeAt` then go by the length read before (RTEngine.cpp 1260,
6157; 1342-1378) and move too few elements (`InsertedShort`, `RemovedShort`), in
that one list. `MembersEditOnce` is the refinement without it.

| run | shows | result |
|---|---|---|
| `objects` (`MCObjects.cfg`) | every program of three statements over two variables: an object's count is the number of its owners and the known lost references; boxes agree with the numbers they stand for in every representation; a dictionary's parallel arrays have one value for every key and every key once; each statement is one edit of one list or map | holds, 476,233 states |

Bounds: arrays of up to two elements with a first capacity of 1 instead of 4, so
that the second element grows the array; three statements are the fewest that
read an element as an object, change its array's representation and look again.
Dictionaries have keys of one kind: with mixed kinds the code compares keys by
address or by number, depending on the storage. Two calls may wait for their
arguments at once (`MaxCalls`): the fewest with which an argument edits the
receiver of the call it belongs to.
An argument that removes from the receiver ends in the assertion of RTObject.c
1437 (`failed`).

### 2.6 Driver: import graph, parallel compilation, caches

`Driver.tla` models one invocation after another of `tools/driver/main.cpp`:
reading the analysis cache, the traversal with its stack (a module that is on
it is a cycle), resolving an import among its candidates, the build order, one
compile task for each module that waits for the tasks of its imports and then
for one of a limited number of slots, reuse of a segment by its fingerprint,
gathering of results in build order, writing of segments and of both caches,
linking and running. `content` is what the directories hold; edits, additions
and removals happen between and during invocations, and an invocation may be
killed at any place, within the writing of a cache too. Hashes are taken to be
collision free: a fingerprint is the set of versions it covers. Resolving and
reading one module is one step; the exit status, profiles, the search for native
modules, interface files (which are not part of a fingerprint, `main.cpp` 2247)
and `.starbmodpath` are left out.

| run | shows | result |
|---|---|---|
| `driver` (`MCDriver.cfg`) | three invocations with two edits or crashes: modules are built after what they import, with what the read content imports; the linked program is compiled from the current sources, whatever happened before; a parallel cached build reports what a check reports, in the same order; every invocation ends | holds, 312,564 states |

Bounds: four directories are the fewest with a diamond (two importers of one
library) and a directory that shadows another; versions include one that does
not compile by itself, one that clashes with another's version and one that
imports itself. Two edits revert a change; three invocations fill, use and
revisit a cache.

Fairness is weak fairness of the driver's own thread and of each compile task:
each is a host thread that the operating system keeps running. Nothing is
assumed of edits and crashes, nor of a next invocation.

`LinkedFromSources` excepts segments that were written by an invocation that
ended before it saved the build cache: an older entry may still name the
segment's earlier recipe, and after the sources are reverted that entry matches
(`LinkedAlwaysCurrent` has no such exception).

### 2.7 Navigation: names under the cursor

`ParsedPrograms.tla` is what the server computes of a document whatever the
words in it are: the bindings in force at every place
(`findLocalBinding`'s walk), the entries completion collects, the symbols of
`DocumentAnalysis.cpp`. `Navigation.tla` adds the words and one action for each
request: hover, definition, declaration, type definition, implementation,
references, highlights, document and workspace symbols, completion, prepare
rename and rename, which replaces the words. A program is a shape, that is
statements with places for names and for each place the declaration it is meant
to refer to; the words vary. `Compiles` is the reference: under the language's
scoping every place is bound to what it is meant to refer to.

| run | shows | result |
|---|---|---|
| `navigation` (`MCNavigation.cfg`) | four programs (nested blocks and an inline function; classes with members and a subclass; an imported module; secure declarations) under every assignment of words that compiles: references are the places of the same meaning where a name has one answer in its document; a rename edits only places of one meaning, and of variables and parameters leaves a program with the same meanings; completion offers what is visible | holds, 274,130 states |

Bounds: the words are two and a new one, enough to repeat, shadow and to make
fresh. The properties' premises name the gaps of the code: members of a class
stay bound in the statements after it; a name is resolved by words among the
document's symbols if no local binding is found; a function is not renamed at
its calls; types in annotations and superclass lists are never resolved; methods
have no implementations; completion enters only the first block of a conditional
and overlooks variables of secure declarations inside functions (`overlooked`).
Loops, namespaces, interfaces, aliases, generics, the index of built-ins,
completion resolve and signature help are left out.

### 2.8 Semantic analysis

`SemanticAnalysis.tla` joins three modules that share no state; `subject` says
which of them is at work.

`SemanticFlow.tla`: one callable's body is delivered statement by statement
(reads, assignments, declarations, `return`, conditionals with their branches,
loops, secure declarations, mentions inside an inline function). The conditions
of branches and loops are expressions like any other: `OpenIf`, `NextCondition`
and `OpenLoop` begin one, statements that are expressions may follow, and
`OpenBranch` or `OpenRound` enters the block behind it. The walks of
`SemanticA.cpp` take each in: definite initialization (`inits`, merged over the
branches that continue), usage (`used`, `unused`), dead stores (`pending`,
`dead`). The dead-store walk forgets what is pending inside a branch and keeps it
on the way to the next condition; `waiting` are the writes it so keeps although an
earlier branch may have read them. Beside the walks stands what the executions that reach this place can hold:
for every binding the set of stores its value may come from (`may`). Every
condition may go either way, so these sets are exact for programs whose
conditions are not constant. A value that a later round of a loop finds is
`Carried`, and what a round reads of it is resolved when the loop ends. `loose`
and `blurred` collect the bindings for which the walks' answers are known not to
be sound, each at the action where that happens.

`ConstructorFlow.tla`: the field initialization policy of a constructor, as path
states, beside the set of executions. `ClassContracts.tla`: classes are declared
one after another, each with a superclass, type arguments, one member and an
interface; what the checks of overrides and interfaces admit is compared with
substitution along the whole chain.

| run | shows | result |
|---|---|---|
| `semantics` (`MCSemanticAnalysis.cfg`) | every callable and constructor of five statements, every program of three classes: what counts as initialized has a value; bindings reported unused and stores reported dead are read by no execution; accepted constructors give every required field a value, double stores and early uses are reported exactly; admitted classes keep what their ancestors and interfaces promise | holds, 884,795 states |

Bounds: one name is enough for shadowing, since a binding is a scope and a name,
and the bindings of different names never meet in the walks; four scopes, three
blocks of a constructor; three classes are the fewest with a chain of type
arguments. Five statements are the fewest that store, open a branch, store again,
and read after it.

The named gaps: an assignment in an arm of a conditional expression or behind
`&&` and `||` counts as executed, and so does one in the condition of a later
branch (SemanticA.cpp 1889-1893), which reports a write as overwritten that an
earlier branch read (`Overtaken`); a variable of a secure declaration counts as
initialized after a catch block that falls through, where the interpreter has
not stored it (RTEngine.cpp 7041-7118); mentions in inline functions are not
seen by two of the walks; the dead-store walk knows declarations of a block
before their place; double stores in loops are missed; type arguments are
substituted for the direct superclass only; a field declared again in a subclass
is not compared.

### 2.9 Expressions: static types and the two builds of a body

`Expressions.tla` builds an expression on a stack in postfix order. Each entry has
the type `ExprSema.cpp` infers, the kind `inferFastType` claims, the value V1
computes and the value V2 computes, in a register or in a fallback statement over
the registers' slots. A statement (declaration, assignment, compound assignment,
store of an element, `return`, `if`, `while`, an expression alone) consumes it.
Lowering depends on static types only, so an unrolled body stands for loops and
branches.

A body is a function's or a module's (`where`). The statements of a module are
lowered too: `CodeGen::finish` makes a function `__module_main__` of them
(CodeGen.cpp 39-55). What differs is V1: there the variables of a module have no
slots, so nothing is converted when it is stored, and `exec` stops behind a
statement that left an error (RTEngine.cpp 7328-7347) where a V1 function goes on.
`end1` and `end2` say how each build has ended; an error inside a block is
`pending` until the outermost statement is over. In V2 that is a fallback
statement, in V1 a statement of the module; `blob` counts the blocks within a
fallback statement, `loops` the lowered loops around it.

A value is its kind and the named departures of the code it descends
from (`from`): V2 compares to Int and keeps Bool literals as Ints, a floating
literal is Float in V1 and Double in V2, a lazy callee runs at once in a direct
V2 call, an explicit cast of an `Any` slot stops in V2, a store re-kinds a
Float slot, a failing operation yields nothing in V1 and ends the function in V2,
a ternary's branches lose their implicit cast, and so does, at module scope in V1, an
initialiser that is a call. `TiersNeverDiffer` compares the builds without regard
to departures.

| run | shows | result |
|---|---|---|
| `expressions` (`MCExpressions.cfg`) | every accepted body of five steps, of a function and of a module: the inferred types and fast kinds describe what V1 computes, the builds leave every variable and return value of the same kind, V2 ends early only where V1 has no value and V1 stops a module behind an error only where V2 has met one, each time unless the value descends from a named departure | holds, 888,617 states |

Bounds: one variable of each type the kinds tell apart, one typed array, one
ordinary and one lazy function; three operands at once and five steps are the
fewest that combine two operators and store the result; the proofs (section 3)
hold for any length. Which number a value is
never matters to a kind; that a division meets zero or an index is outside is a
choice both builds share. One body runs alone: that functions cannot find the
variables of a module V2 has given slots is a hazard no property covers. Strings,
classes, inline functions, generics and
names that shadow one another are left out.

### 2.10 Parser

`SyntaxA.tla` is the recursive descent parser over tokens as a stack of calls:
`stack`, what the innermost call does (`ctl`), `privTokIndex` (`at`) and
`genericTypeParamStack` (`generics`). The statement loop of `parseFromStream`,
all twelve levels of operators, postfix chains, the attempts at inline functions
and type arguments that are given up again, every declaration and block, and the
recovery after a token no statement starts with are actions. Reading ahead over
types, parameter lists and attributes is an operator each. The tree is the
sequence of its tokens with marks around operations and after statements.
`Grammar.tla` builds meanings from docs/StarbytesSyntax.md (6.3, 7) without
reading a token.

| run | shows | result |
|---|---|---|
| `parsing` (`MCSyntaxA.cfg`) | 8,493 sources: expressions of up to two operators or postfix constructs, statements alone, side by side and in a block, and sources with a token missing, doubled or the end cut off: what the grammar writes is parsed into its meaning without a complaint, but for three departures; parsing always ends | holds, 251,424 states |

Bounds: two operators are what a relation of precedence or associativity is about;
pairs of statements show where one ends without a line end. Fairness is
`WF(Next)`: the parser is a sequential function that keeps executing. `AtRest` is
the finished parser, so that TLC's deadlock check covers every other place.

`Grammar` takes the levels, the statements and the type arguments from the
documents alone. The departures of `MeaningKept` are stated of the source or of
the place where the parser is: the right operand of `&&` is read as an equality,
so a weaker operator behind it takes more than it should (`LooseRight`); a
statement that begins with `await`, or with `new` before a name, is taken for a
declaration and ends at an uninitialized pointer (SyntaxADecl.cpp 190;
`TakenForDeclaration`, what was read until there has its meaning); and a type
parameter among the type arguments of `new` is taken for a class
(SyntaxAExpr.cpp 366; `AsRead`). `EveryMeaningKept` has none of them.

Not written are statements that begin with a token that continues the one before
(`( [ - +`; there is no token for a line end) and comparison chains that also
read as a call with type arguments (`a < b > (c)`): the documents give these no
single meaning. Damaged sources may also pop an empty stack (222) or pass the last
token; the model stops there (`undefined`).

## 3. What is proved

The theorems hold for every value of the constants; what they assume of them
are the `ASSUME`s of the modules, which TLC evaluates in the runs, and the
hypotheses named below. Each theorem rests on an invariant that TLC checked on
the run's instance before it was proved.

**MicrotasksProofs** (`TypeCorrect`, `OneTask`, `PendingOwned`, `InOrder`,
`StallUnderDrain`, `ErrorsStayWithTheirTask`, `Refinement`,
`ReferencesBalanced`, `NothingIsLeftBehind`).

* The shape of the stack: at most one frame is inside `processMicrotasks`,
  exactly when the flag is set, and a lazy body stands right on top of that
  frame and nowhere else. `OneTask` follows; with it the queue and that one body
  account for all pending Tasks, so the history of settled calls is a prefix of
  the history of queued ones. None of the properties is inductive alone: each
  step that pops or pushes a frame needs the shape, and the shape needs that a
  frame below another one is evaluating or draining.
* The reference counts (`RInv`): a count is the number of places that hold the
  Task, that is variables, places in the queue, the frame that executes it and
  the frames that await it. For a step to keep the sums, three more facts are
  needed: a Task not yet created is held nowhere, so the count of a new one
  starts at what `scheduleLazyCall` gives it; a frame has an operand only while
  it awaits; and the queue is empty once `exec` is past its last drain, so that
  clearing the scope frees what is left. `NothingLeftBehind` follows.

**HotLoopProofs** (`TypeCorrect`, `Refinement`). The invariant says where
an activation can be: at an instruction
its tier has, waiting only in a call or a drain unless it is the running one,
inside compiled code only of a loop that was compiled, which has an IR form. This
holds also behind a guard that resumed at another instruction, since a resume
point is always a pc of the image. `Refinement` shows, step by step and without a
condition on the images, that execution with compiled loops implements plain
interpretation or takes the departure.

**LanguageServerProofs** (`OpenTexts`, `EditsAreDiagnosed`, `TokensAnswered`,
`EditorServes`, `ChangesArrive`, `FormattingReplaces`).

* `OpenTexts` needs nothing of what an analysis yields: resolving, diagnosing
  and colouring keep the text and the mark of every loaded document and load
  further ones unmarked (`Keeps`), reloading keeps marked documents.
* The other two do. What resolving yields is a recursive function over imports.
  That there is a function that satisfies its equation (`ResultsExist`) is shown
  by the least number up to which there is none: a text stands only where its
  imports are smaller modules. The invariant (`AInv`) then says that whatever is
  remembered with a document was made from the document's text; so the
  diagnostics of an edit take every import as it reads, and tokens are those of
  the editor's text, by `OpenTexts`.
* `TokensAnswered` holds for an editor that asks when and for what it likes. The
  first of the editor's results is the server's, by what a delta is applied to; it
  is of the editor's text, because an edit forgets the server's snapshot; and the
  results behind it are counted by the deltas whose base was unknown.
* `EditorServes`: the specification the run checks, in which the server also
  synchronizes characters, implements `Spec`, so all of this holds there.
* `ChangesArrive`, for texts, notifications and typing ahead of any length,
  assumes `OneByte`: every character is one unit and one byte, so that columns
  are what the server takes them for (section 4). In any text the position of an
  offset finds that offset again (`RoundTrip`): the line ends before it are as
  many as its line, and the last of them is its line's start. So a change the
  server applies to the text it was made in gives the text it gave the editor
  (`ChangeApplied`). The changes of a batch each refer to the text behind the
  one before, and the editor is ahead by several; the invariant (`DocumentOK`)
  therefore names the text between any two notifications, from the server's to
  the editor's.
* `FormattingReplaces` proves `FormattingReplacesAll`, which no run lists: the
  one edit of `handleFormatting` covers the whole document, a last line without
  an end and an empty document included. It rests on `ChangesArrive`.

**EvaluatorProofs** (`SitesAreDescribed`, `Refinement`, `EvaluatorQuickens`,
`SkippingFollowsCodeGen`, `EvaluationFollowsCodeGen`).

* Quickening, for any expressions, streams and operands. The invariant
  (`SitesDescribe`) says that a site describes some expression that has its
  offset, with that expression's kind or one that was met there. Where that
  expression is the evaluated one and the kind is what its operands promote to,
  the conversion of an operand is a widening, which is exact (`WideningExact`), so
  a fast execution has the outcome of plain evaluation; in all other cases it is a
  departure, by what the site describes. `EvaluatorQuickens` carries this to the
  specification the run checks.
* Skipping, for every program CodeGen writes. `Emitted` says which these are: a
  sequence of statements in the least sets of expressions and statements that
  the operators of `Emission` lead to, of any length and depth (`LoopIsEmitted`:
  there are some). A place is what is still to be read and from where. Two
  relations lead from place to place: `Tokenwise` reads a token, as the skipping
  functions do, and `Jumps` passes a construct as a whole by the size CodeGen
  gave it. A stream is `Aligned` if from the contents of every construct its
  jumps lead to its end, which for a loop includes that its condition is where
  the code that repeats it looks for it. In an aligned stream what is skipped
  ends where the jumps end, by the smallest of the constructs where it would not
  (`NodesRead`). Every operator of `Emission` writes an aligned
  construct when its parts are (`ConstructsClosed`); what stands before and behind
  a part does not matter to it (`JumpsBefore`, `PartsJoin`). So a program is
  aligned.
* Evaluating them, whatever the expressions give. The invariant (`Readers`) is
  about every open construct at once: what the innermost has still to read leads
  from the position to its end, and what another one has still to read leads there
  from the end of the construct within it (`InStep`). A body has no end, and a
  loop goes back to its condition by a fixed distance, so it is in one of five
  places (`Looping`). In such a state an operand is always what is wanted, a
  block is always there, a construct of which nothing is left ends where it
  should (`GoingOn`, `GoingDone`), and what is skipped on the way ends where
  `SkippingFollows` says; every action leads to such a state or derails
  (`StepsKeep`). The tables of the evaluator and of the skipping functions must
  agree for this, opcode by opcode (`SameTables`).

**SemanticFlowProofs** (`InitializedVariablesHaveValues`,
`UnusedVariablesAreUnread`, `DeadStoresAreUnread`, `NothingFallsThrough`), for
bodies of any names, length and depth.

* Initialization: the walk keeps, for every open block, the state at its entry
  and what its branches agreed on so far; the executions are kept beside them as
  sets of stores. The invariant (`IInv`) says that each of these states promises
  no more than the executions that can be there have. It must speak of all open
  blocks at once, because what is promised behind a block is put together from
  states that were saved when it was opened.
* Usage: a read marks the binding found by its name, from the innermost scope
  outwards. The invariant (`UInv`) says that the binding an execution reads is
  the one the walk finds, and that bindings of closed scopes stay as they were
  judged.
* Dead stores: a write of the body's own level is pending until the variable is
  read, rewritten, or a block is entered or left behind. The invariant (`DInv`)
  says that only executions that go on hold a pending value, none that left
  through a branch or was put aside at the entry of an open block; so when the
  write is reported, nobody is left who will read it. What the walk still holds
  pending when it comes to a later condition is kept apart (`WaitOK`, `StoresInv`):
  it is held by no other execution than those that take the condition, and a
  variable whose write is overtaken there is one of the blurred ones. Values are named by the stores that
  made them, so a store must make a new one: the hypothesis `MaxEvents \in Nat`.
  A variable that two scopes name alike is left out, as in the property.
* `NothingFallsThrough` proves `NeverFallsThrough`, which no run lists: an
  accepted callable that must return a value does.

**SemanticAnalysisProofs** (`InitializedInAnyUnit`, `UnusedInAnyUnit`,
`DeadStoresInAnyUnit`, `AcceptedConstructorsInitialize`, `ContractsInAnyUnit`)
carries the first three to the specification the run checks, where a body is one
of three subjects, and proves the other two subjects.

* Constructors: every execution follows one of the path states the policy keeps,
  in each of the lists it keeps them in (going on, ended, left by a loop), block
  by block; so what every path state has, every execution has.
* Class declarations (`KInv`): the ancestors of a class form a chain, and a
  declaration is compared only with the nearest holder of the name above it. So
  that holder must pass on what the farther ones oblige to (`Keeps`): the kind,
  the visibility and, for a method, a type that reads the same from every class
  below, which it does when it has no parameters or the holder is the direct
  superclass. Working this out corrected the property's precondition, `Plain`,
  which had excluded fields where only methods need it.

**DriverProofs** (`BuildOrder`, `Linked`, `Reports`): the three safety
properties of the driver, for any directories, versions, imports, clashes,
command lines and numbers of slots, any number of invocations, and edits and
crashes at any place the model allows them.

* The graph (`IInv`). A directory on the stack is there once and is no module
  yet; of the names its version imports, those no longer to be looked up are
  served by its dependencies, and its dependencies serve nothing else; each of
  them is a module or the directory above it on the stack. That is what joins
  the order when the directory is left. The imports may come from the analysis
  cache, so the invariant also says that a cache entry, in memory or in the file
  that a crash left half written, lists what the content of its hash imports.
* The segments (`BInv`). An entry of a build cache tells how its segment was
  compiled, or the segment is missing or was written by an invocation that did
  not save its cache. What a task hands on is what the fingerprint of its module
  covers, and only sources of this invocation. So a reused segment, whose entry
  has this invocation's fingerprint, has the recipe that compiling it again
  would have. The exception in `LinkedFromSources` is part of the invariant: a
  crash between `Finish` and `SaveBuilds` makes it necessary.
* The report. A module fails in its task exactly where something it imports
  failed or it does not compile against the sources it sees, whatever the order
  of the tasks; checking one after another satisfies the same equation, and the
  equation has one solution, by the least module in the build order where two
  would differ (`OutcomeIsUnique`). That fingerprints satisfy theirs
  (`PrintsAre`) needs no order: what a module reaches through imports is a
  solution.

**ExpressionsProofs** (`KindsDescribed`, `BuildsAgree`, `StopsAreExplained`), for
any names, arrays, functions and bodies of any length, of functions and of
modules. A value of the V2 build
is related to V1's by `Follows`: unless it descends from a departure, V1's does
not either and both are of one kind, or both are missing; a value that descends
from a failed assignment in V1 is excepted. There is a lemma for each operation,
which carries this relation from the operands to the result, once for code over
slots and once for registers. The inductive invariant (`IInv`) describes each
expression on the stack by itself (`Entry`), and every slot and element. It says
more than the properties: the properties look only at finished values, and what
an operator yields depends on what was claimed of its operands, so the static
type, the fast kind, the kind of the lowering and the three values of an operand
must fit together. Once the V2 build has ended its slots are no longer compared;
what ended it is explained instead (`EndExplained`), and so is an error that stops
the V1 build of a module.

On recursion: the SMT backend simplifies `CHOOSE f : f = e` to `e` even where
`f` occurs in `e`, and so lets a proof that expands a recursive function assume
the function's equation, whether or not anything satisfies it. No proof here
does: each recursive definition is expanded in one place, for Zenon, and the
choice is justified by a function that satisfies the equation: `ResolvedIs` by
`ResultsExist`, `PrintsAre` by `PrintsExist`, `FailsIs` by the outcome of the
tasks themselves, `SeenFrom` by `Seeing`, a part of the invariant that is
extended class by class, the bytes of a text and the result of a batch by
functions that are given outright or put together change by change
(`EncodeIs`, `ChangesExist`), `SkipTo` by `SkippingExists`, which takes where the
tokens lead and 0 where they lead nowhere, flattened sequences and the children
of a node by `StepByStep`.

Some theorems prove what no run lists as a property, because it is a step
towards one: `TypeCorrect`, `OneTask`, `PendingOwned`, `InOrder`.

Only model-checked:

* liveness (`AwaitCompletes`, `RunsToCompletion`, `InvocationEnds`,
  `ParsingEnds`), which the provers cannot express;
* the parser's readings ahead, trees and heaps in Navigation and Objects, which
  use RECURSIVE operators;
* which parts of a construct the evaluator takes on its way
  (`EvaluatesWhatIsDue`): the proofs say where it reads, and nothing of what the
  parts gave, which that needs for every open construct and every earlier part.

## 4. Findings

Where the program and what its documentation say disagree. The first has a run.
Each of the others is found by one edit of a configuration: in place of the
INVARIANTS and PROPERTIES of the run's cfg, the strict property named here (and
the constants given), which TLC then finds violated.

| what the code does | where | what is said | found by |
|---|---|---|---|
| a lazy body that awaits a queued task never goes on: under a drain `processMicrotasks` returns at once, and the loop of `await` spins | RTEngine.cpp 4531 | docs/StarbytesSemantics.md:310 | run `tasks_nested_await` |
| a guard that fails behind a fused instruction resumes at another instruction: a pc of the bytecode is taken for one of the image | RTJit.cpp 65 | docs/HyperEfficientExecutionModelPlan.md:699 "without semantic drift" | `MCHotLoop.cfg`, PROPERTY `NoSemanticDrift`, `Images <- MCGuardedImages` |
| a delta to tokens from before an edit puts all tokens before the old ones | ServerMain.cpp 6879 | docs/LSPComplianceMatrix.md:41, :88 (deltas implemented and active) | `MCEditor.cfg`, INVARIANT `DeltasYieldAnswer` |
| statements of a V2 function that are left to V1 share sites by their offsets: `a - r` is evaluated as `a / b` | RTEngine.cpp 3208 | docs/NumericalExecutionImprovementPlan.md:385 "function-local bytecode offsets" | `MCEvaluator.cfg`, PROPERTY `SameAsPlain`, `Exprs <- StatementExprs`, `Code <- StatementCode` |
| what is left of an array literal is read instead of the catch block it is guarded by | RTEngine.cpp 4904 | docs/StarbytesSemantics.md:303 | `MCEvaluator.cfg`, INVARIANT `CatchBlockExecuted` |
| `insert` overwrites an element where its argument made the receiver longer | RTEngine.cpp 1342 | stdlib/builtins.starbint:96 | `MCObjects.cfg`, PROPERTY `MembersEditOnce` |
| a reverted source is linked from the segment of the discarded version, after an invocation that was killed before it saved the build cache | main.cpp 2121 | docs/archived/CompileTimeOptimizationPlan.md:88 | `MCDriver.cfg`, INVARIANT `LinkedAlwaysCurrent` |
| a rename goes by words | ServerMain.cpp 6070 | docs/LSPComplianceMatrix.md:80 "exact declaration identity matching" | `MCNavigation.cfg`, PROPERTY `RenameByIdentity` |
| a write is reported as overwritten by an assignment that need not be executed: in an arm of a conditional expression, in the condition of a later branch | SemanticA.cpp 1832, 1890 | docs/SemanticAndLintingCompletionMatrix.md:167 | `MCSemanticAnalysis.cfg`, INVARIANT `ReportedStoresAreUnread` |
| the variable of a secure declaration counts as initialized in its catch block | SemanticA.cpp 917 | docs/SemanticAndLintingCompletionMatrix.md:89 | the same, `InitializedAlwaysHasValue` |
| overrides are compared under the direct superclass's type arguments only | SemanticA.cpp 2595 | docs/SemanticAndLintingCompletionMatrix.md:88 | the same, `OverridesKeepTypes` |
| a floating literal is a Float in V1 and a Double in V2 | CodeGen.cpp 289 | docs/HyperEfficientExecutionModelPlan.md:659 "correctness parity" | `MCExpressions.cfg`, INVARIANT `TiersNeverDiffer` |
| the right operand of `&&` ends before `&`, `^` and `\|` | SyntaxAExpr.cpp 742 | docs/StarbytesSyntax.md:302, :391 | `MCSyntaxA.cfg`, INVARIANT `EveryMeaningKept`, `Sources <- AndSources` |
| a statement that begins with `await` or `new` ends at an uninitialized pointer | SyntaxADecl.cpp 190 | docs/StarbytesSyntax.md:327, :401, :411 | the same, `Sources <- StartSources` |

Two more disagree with what one would expect and with no document; they are found
by loosening a run:

* **Columns are bytes** where the editor counts UTF-16 units. `MCEditor.cfg` with
  `Chars = {"a", "n", "e"}`, `Units <- WideUnits`, `Width <- WideWidth`: `InSync`.
* **Diagnostics that are asked for may be out of date**: a remembered result is
  not dropped when an imported module changes. `MCEditor.cfg` with the invariant
  `PulledDiagnosticsCurrent` (`MaxResults = 0` keeps it small).

The strict properties and the type invariants of some modules stand in no run of
their own, for use when a model or the code is changed.

## 5. What is not modelled and why

* Functions of one text or value without state (lint rules, formatting,
  printers and dumpers, most of the standard library): they need tests, not
  states.
* Thin wrappers of operating system services and libraries: what they do is the
  library's.
* AST classes, option parsing, the disassembler, the embedding API, the editor
  extension, benchmarks and scripts: no behaviour of their own.
* Threading: its primitives have state, but every closure a program passes to
  them runs on the interpreter's thread; nothing waits for anybody until closures
  run in the background. The registries by address are listed as a hazard.
* The code cache, feedback vectors, symbol tables, the symbol cache file, message
  framing and the package manager are listed as not modelled in `PROJECT.json`.

## 6. Plan

* **Code cache and feedback**: artifacts and budgets that outlive an `exec`,
  feedback keyed by templates in a vector that grows.
* **Scopes**: `RTAllocator` scopes and their names, inline caches keyed by
  generation, class layouts.
* **Lowering with microtasks**: V2 drains between the instructions of one
  statement, V1 behind it; `Expressions` and `Microtasks` composed.
* **Symbol tables**: scoping and `ASTType::match` against reference definitions.
* **Threading**, once closures run in the background.
* **Proofs**: what the evaluator takes of a construct, reference balance of
  containers.
