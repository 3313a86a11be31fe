--------------------------- MODULE SemanticAnalysis ---------------------------
(* The analyzer's verdicts on the units of a program (SemanticA.cpp): one    *)
(* declaration at a time is under analysis, a callable's body, the body of a *)
(* constructor, or the class declarations in the order of the text.  What    *)
(* belongs to the other units stands still.                                  *)
EXTENDS Naturals

CONSTANTS Names, Params, NonVoid, MaxScopes,   \* SemanticFlow
          Required, Preset, MaxBlocks,         \* ConstructorFlow
          Grounds, Parameters, MaxClasses,     \* ClassContracts
          MaxEvents

ASSUME AnalysisAssumption ==
         /\ Params \subseteq Names /\ NonVoid \in BOOLEAN
         /\ Required \cap Preset = {} /\ Required # {}
         /\ Grounds \cap Parameters = {}
         /\ {MaxScopes, MaxBlocks, MaxClasses, MaxEvents} \subseteq Nat

VARIABLES subject,     \* the unit under analysis
          verdict, length,
          scopes, here, used, unused, dead, reads, loose, blurred,
          blocks, states, exits, runs, ends, warned, duplicated, skipped, repeated,
          classes, contract

Callable == INSTANCE SemanticFlow
Constructor == INSTANCE ConstructorFlow
Declarations == INSTANCE ClassContracts

ofCallables == <<scopes, here, used, unused, dead, reads, loose, blurred>>
ofConstructors == <<blocks, states, exits, runs, ends, warned, duplicated, skipped, repeated>>
ofClasses == <<classes, contract>>
vars == <<subject, verdict, length, ofCallables, ofConstructors, ofClasses>>

NoCallable ==
  /\ scopes = <<>>
  /\ here = [continues |-> TRUE, inits |-> {}, pending |-> {}, waiting |-> {},
            may |-> <<>>, reached |-> FALSE]
  /\ used = {} /\ unused = {} /\ dead = {} /\ reads = {} /\ loose = {} /\ blurred = {}

NoConstructor ==
  /\ blocks = <<>> /\ states = {} /\ exits = {} /\ runs = {} /\ ends = {}
  /\ warned = [what |-> {}, told |-> FALSE, due |-> FALSE]
  /\ duplicated = {} /\ skipped = {} /\ repeated = {}

NoClasses == classes = <<>> /\ contract = [kind |-> "none"]

Init ==
  \/ subject = "callable" /\ Callable!Init /\ NoConstructor /\ NoClasses
  \/ subject = "constructor" /\ Constructor!Init /\ NoCallable /\ NoClasses
  \/ /\ subject = "classes" /\ Declarations!Init /\ NoCallable /\ NoConstructor
     /\ verdict = "open" /\ length = 0

AnalyzeCallable ==
  subject = "callable" /\ Callable!Next /\ UNCHANGED <<subject, ofConstructors, ofClasses>>
AnalyzeConstructor ==
  subject = "constructor" /\ Constructor!Next /\ UNCHANGED <<subject, ofCallables, ofClasses>>
AnalyzeClass ==
  /\ subject = "classes" /\ Declarations!Next
  /\ UNCHANGED <<subject, verdict, length, ofCallables, ofConstructors>>

Next == AnalyzeCallable \/ AnalyzeConstructor \/ AnalyzeClass

Spec == Init /\ [][Next]_vars

-----------------------------------------------------------------------------
(* What the definite initialization walk calls initialized has a value, and  *)
(* where it says that a body does not continue no execution does.            *)
InitializedHasValue == Callable!InitializedHasValue

(* A binding reported as unused is read by no execution.                     *)
UnusedIsUnread == Callable!UnusedIsUnread

(* A store reported as dead is read by no execution.                         *)
DeadStoresAreDead == Callable!DeadStoresAreDead

(* An accepted constructor gives every required field a value on every       *)
(* execution and is told of the fields it stores to twice; fields read and   *)
(* objects handed out too early are reported, and only they.                 *)
ConstructorsInitialize ==
  Constructor!ConstructorsInitialize /\ Constructor!ConstructionWarningsExact

(* An admitted class keeps what its ancestors promise of a member, and one   *)
(* that implements an interface has its members.                             *)
ContractsKept ==
  Declarations!SubclassesKeepContracts /\ Declarations!ClassesConform

(* docs/SemanticAndLintingCompletionMatrix.md:167 lists dead-store warnings  *)
(* for writes that are overwritten or left unread: then no execution would   *)
(* read what a warning names.                                                *)
ReportedStoresAreUnread == Callable!ReportedStoresAreUnread

(* docs/SemanticAndLintingCompletionMatrix.md:89 lists definite assignment   *)
(* of secure catch bindings as implemented: then a variable counted as       *)
(* initialized would have a value on every execution.                        *)
InitializedAlwaysHasValue == Callable!InitializedAlwaysHasValue

(* docs/SemanticAndLintingCompletionMatrix.md:88 lists class and interface   *)
(* conformance as implemented: then overrides would keep the types of        *)
(* inherited methods along every chain.                                      *)
OverridesKeepTypes == Declarations!OverridesKeepTypes
=============================================================================
