--------------------------- MODULE LanguageServer ---------------------------
(***************************************************************************)
(* The documents of the language server and what it remembers about them   *)
(* (src/tools/lsp/ServerMain.cpp).  The server is one loop that reads a    *)
(* message and handles it; an action here is the handling of one message,  *)
(* together with what the editor did to send it, or a change on disk.      *)
(*                                                                         *)
(* Modules are numbers, and a module imports smaller ones only: cyclic     *)
(* imports are refused when a program is built.  The result of analysing a *)
(* text is the text together with the results for the modules it imports.  *)
(*                                                                         *)
(* An analysis is kept in the record of its document, and every assignment *)
(* of a text replaces the record; the key (version, textHash) that         *)
(* refreshAnalysisState compares can therefore not differ, and is left     *)
(* out.  Lint results, suggestions and formatted text depend on the text   *)
(* of one document only and are left out with it.                          *)
(***************************************************************************)
EXTENDS Integers, Sequences, FiniteSets

CONSTANTS
  Last,           (* the modules are 1..Last, one document each            *)
  Texts,          (* what a document may contain: [imports, body]          *)
  Editable,       (* modules that are changed, in an editor or on disk     *)
  Roots,          (* modules in the workspace folders                      *)
  None,
  MaxResults      (* bound: answered semantic token requests               *)

Modules == 1..Last

ASSUME LanguageServerAssumption ==
  /\ Last \in Nat /\ MaxResults \in Nat
  /\ \A t \in Texts : t.imports \in SUBSET Modules
  /\ Editable \subseteq Modules /\ Roots \subseteq Modules
  /\ None \notin Texts

TextsOf(u) == {t \in Texts : \A i \in t.imports : i < u}

VARIABLES
  disk,        (* the file of each module, or None                         *)
  editor,      (* the text of each module in the editor, None if not open  *)
  shown,       (* the diagnostics the editor shows for it                  *)
  tokens,      (* the semantic tokens the editor holds: [id, data], and,   *)
               (* for the properties, the deltas that did not fit them     *)
  initialized, (* initialize has been answered                             *)
  documents,   (* DocumentState of each module that is loaded              *)
  snapshots,   (* semanticSnapshots: [id, data], or None                   *)
  counter      (* semanticResultCounter                                    *)

client == <<editor, shown, tokens>>
server == <<initialized, documents, snapshots, counter>>
vars   == <<disk, client, server>>

Document(text, open) ==
  [text |-> text, open |-> open, resolved |-> None, diags |-> None, toks |-> None]
-----------------------------------------------------------------------------
(* findModuleDocumentByName and getDocumentTextByUri: a loaded document,   *)
(* or else the file, which is then loaded.                                 *)
Exists(docs, m) == m \in DOMAIN docs \/ disk[m] # None
Loaded(docs, m) == IF m \in DOMAIN docs THEN docs[m] ELSE Document(disk[m], FALSE)
TextOf(docs, m) == Loaded(docs, m).text

ImportsOf(docs, m) == {i \in TextOf(docs, m).imports : Exists(docs, i)}

Remembered(docs, m) == m \in DOMAIN docs /\ docs[m].resolved # None

(* The modules that are loaded or can be.                                  *)
Known(docs) == {m \in Modules : Exists(docs, m)}

(* buildSemanticResolvedDocumentForUri: what it returns for a module, from  *)
(* the results for its imports unless it is remembered, ...                *)
Result(docs, result, m) ==
  IF Remembered(docs, m) THEN docs[m].resolved
  ELSE [text |-> TextOf(docs, m), deps |-> [i \in ImportsOf(docs, m) |-> result[i]]]

Resolved(docs) ==
  LET result[m \in Known(docs)] == Result(docs, result, m) IN result

(* ... and the modules it visits, starting from ms.                        *)
Visits(docs, ms) ==
  {s \in SUBSET Known(docs) :
     ms \subseteq s /\ \A m \in s : Remembered(docs, m) \/ ImportsOf(docs, m) \subseteq s}

Visited(docs, ms) == {m \in Known(docs) : \A s \in Visits(docs, ms) : m \in s}

(* The documents once the modules ms have been resolved.                   *)
Resolve(docs, ms) ==
  LET visited == Visited(docs, ms)
      result  == Resolved(docs)
  IN  [m \in DOMAIN docs \cup visited |->
         IF m \in visited THEN [Loaded(docs, m) EXCEPT !.resolved = result[m]]
         ELSE docs[m]]

(* getCompilerDiagnosticsForDocument, for the loaded documents ms: it      *)
(* parses the document itself and resolves the modules it imports.         *)
Diagnosis(docs, m) ==
  [text |-> docs[m].text, deps |-> [i \in ImportsOf(docs, m) |-> Resolved(docs)[i]]]

Diagnose(docs, ms) ==
  LET todo == {m \in ms : docs[m].diags = None}
      next == Resolve(docs, UNION {ImportsOf(docs, m) : m \in todo})
  IN  [m \in DOMAIN next |->
         IF m \in todo THEN [next[m] EXCEPT !.diags = Diagnosis(docs, m)] ELSE next[m]]

(* resolveHoverSymbol: the document and the modules it imports, each as it *)
(* is remembered or else resolved now.                                     *)
Consult(docs, m) == Resolve(docs, {m} \cup ImportsOf(docs, m))

View(docs, m) ==
  [own |-> Resolved(docs)[m], deps |-> [i \in ImportsOf(docs, m) |-> Resolved(docs)[i]]]

(* getSemanticTokensForDocument                                            *)
Colour(docs, m) ==
  IF docs[m].toks # None THEN docs
  ELSE [Consult(docs, m) EXCEPT ![m].toks = View(docs, m)]

(* Faulty: documents that are open are read from disk again.               *)
LoadEverything(docs) ==
  LET files == {m \in Roots : disk[m] # None}
      open  == {m \in DOMAIN docs : docs[m].open}
  IN  [m \in open \cup files |->
         IF m \in files THEN Document(disk[m], FALSE) ELSE docs[m]]

(* loadWorkspaceDocuments: what is not open is forgotten, the files of the *)
(* workspace are read.                                                     *)
LoadWorkspace(docs) ==
  LET files == {m \in Roots : disk[m] # None}
      open  == {m \in DOMAIN docs : docs[m].open}
  IN  [m \in open \cup files |->
         IF m \in open THEN docs[m] ELSE Document(disk[m], FALSE)]

With(u, doc) ==
  [m \in DOMAIN documents \cup {u} |-> IF m = u THEN doc ELSE documents[m]]
Without(u) == [m \in DOMAIN documents \ {u} |-> documents[m]]
-----------------------------------------------------------------------------
Init ==
  /\ disk \in {d \in [Modules -> Texts \cup {None}] :
                 \A u \in Modules : d[u] \in TextsOf(u) \cup {None}}
  /\ editor = [u \in Modules |-> None] /\ shown = [u \in Modules |-> None]
  /\ tokens = [u \in Modules |-> None]
  /\ initialized = FALSE /\ documents = [u \in {} |-> None]
  /\ snapshots = [u \in Modules |-> None] /\ counter = 1

handleInitialize ==
  /\ ~initialized /\ initialized' = TRUE
  /\ documents' = LoadWorkspace(documents)
  /\ UNCHANGED <<disk, client, snapshots, counter>>

(* Faulty: the diagnostics are published before the text is replaced.      *)
PublishFirst(u, text) ==
  LET before == IF u \in DOMAIN documents THEN documents ELSE With(u, Document(text, TRUE))
      docs   == Diagnose(before, {u})
  IN  /\ editor' = [editor EXCEPT ![u] = text]
      /\ documents' = [docs EXCEPT ![u] = Document(text, TRUE)]
      /\ snapshots' = [snapshots EXCEPT ![u] = None]
      /\ shown' = [shown EXCEPT ![u] = docs[u].diags]
      /\ UNCHANGED <<tokens, initialized, counter>>

(* Faulty: the tokens of the replaced text are still answered.             *)
KeepSnapshot(u, text) ==
  LET docs == Diagnose(With(u, Document(text, TRUE)), {u}) IN
  /\ editor' = [editor EXCEPT ![u] = text]
  /\ documents' = docs /\ UNCHANGED snapshots
  /\ shown' = [shown EXCEPT ![u] = docs[u].diags]
  /\ UNCHANGED <<tokens, initialized, counter>>

(* setDocumentTextByUri and publishDiagnostics, as didOpen, didChange and  *)
(* didSave call them.                                                      *)
SetTextAndPublish(u, text) ==
  LET docs == Diagnose(With(u, Document(text, TRUE)), {u}) IN
  /\ editor' = [editor EXCEPT ![u] = text]
  /\ documents' = docs
  /\ snapshots' = [snapshots EXCEPT ![u] = None]
  /\ shown' = [shown EXCEPT ![u] = docs[u].diags]
  /\ UNCHANGED <<tokens, initialized, counter>>

(* The editor opens a file, or restores one that was never saved.  Editors *)
(* send nothing before initialize has been answered.                       *)
handleDidOpen(u) ==
  /\ initialized /\ editor[u] = None
  /\ \E text \in TextsOf(u) :
       /\ u \in Editable \/ text = disk[u]
       /\ SetTextAndPublish(u, text)
  /\ UNCHANGED disk

handleDidChange(u) ==
  /\ editor[u] # None /\ u \in Editable
  /\ \E text \in TextsOf(u) : SetTextAndPublish(u, text)
  /\ UNCHANGED disk

handleDidSave(u) ==
  /\ editor[u] # None
  /\ disk' = [disk EXCEPT ![u] = editor[u]]
  /\ SetTextAndPublish(u, editor[u])

(* removeOpenDocumentByUri                                                 *)
handleDidClose(u) ==
  /\ editor[u] # None
  /\ editor' = [editor EXCEPT ![u] = None]
  /\ shown'  = [shown EXCEPT ![u] = None]
  /\ tokens' = [tokens EXCEPT ![u] = None]
  /\ documents' = IF disk[u] = None THEN Without(u) ELSE With(u, Document(disk[u], FALSE))
  /\ snapshots' = [snapshots EXCEPT ![u] = None]
  /\ UNCHANGED <<disk, initialized, counter>>

(* Somebody else writes or deletes a file ...                              *)
DiskChanges(u) ==
  /\ u \in Editable
  /\ \E text \in TextsOf(u) \cup {None} : disk' = [disk EXCEPT ![u] = text]
  /\ UNCHANGED <<client, server>>

(* ... and the editor says so: workspace/didChangeWatchedFiles.            *)
WatchedFilesChanged ==
  /\ initialized
  /\ documents' = LoadWorkspace(documents)
  /\ UNCHANGED <<disk, client, initialized, snapshots, counter>>

(* textDocument/diagnostic                                                 *)
PullDiagnostics(u) ==
  /\ initialized /\ editor[u] # None
  /\ documents' = Diagnose(documents, {u})
  /\ shown' = [shown EXCEPT ![u] = documents'[u].diags]
  /\ UNCHANGED <<disk, editor, tokens, initialized, snapshots, counter>>

(* Completion, hover, definition and the like read the resolved document.  *)
handleHover(u) ==
  /\ initialized /\ Exists(documents, u)
  /\ documents' = Consult(documents, u)
  /\ UNCHANGED <<disk, client, initialized, snapshots, counter>>

(* workspace/diagnostic walks over the loaded documents.  A document that  *)
(* is loaded meanwhile goes into the container that is being walked over,  *)
(* after which the walk may miss documents or meet the new one.            *)
WorkspaceDiagnostic ==
  LET loaded == DOMAIN documents
      Added(docs) == DOMAIN docs \ loaded
  IN  /\ initialized
      /\ \E reported \in SUBSET loaded :
           LET docs == Diagnose(documents, reported) IN
           /\ reported # loaded => Added(docs) # {}
           /\ \E more \in SUBSET Added(docs) : documents' = Diagnose(docs, more)
      /\ UNCHANGED <<disk, client, initialized, snapshots, counter>>

Answered(u, data) ==
  /\ snapshots' = [snapshots EXCEPT ![u] = [id |-> counter, data |-> data]]
  /\ counter' = counter + 1

handleSemanticTokens(u) ==
  /\ initialized /\ editor[u] # None /\ counter <= MaxResults
  /\ documents' = Colour(documents, u)
  /\ LET data == documents'[u].toks IN
     /\ Answered(u, data)
     /\ tokens' = [tokens EXCEPT ![u] = [id |-> counter, data |-> <<data>>, stale |-> 0]]
  /\ UNCHANGED <<disk, editor, shown, initialized>>

(* The delta to a snapshot the server has: nothing, or as many tokens as   *)
(* the snapshot has, replaced at the beginning.  To one it does not have:  *)
(* the new tokens inserted there.                                          *)
handleSemanticTokensDelta(u) ==
  LET known == snapshots[u] # None /\ snapshots[u].id = tokens[u].id
      edited(data) ==
        IF known /\ snapshots[u].data = data THEN tokens[u].data
        ELSE <<data>> \o (IF known THEN Tail(tokens[u].data) ELSE tokens[u].data)
  IN  /\ initialized /\ editor[u] # None /\ counter <= MaxResults
      /\ tokens[u] # None
      /\ documents' = Colour(documents, u)
      /\ LET data == documents'[u].toks IN
         /\ Answered(u, data)
         /\ tokens' = [tokens EXCEPT ![u] =
              [id |-> counter, data |-> edited(data),
               stale |-> IF known THEN @.stale ELSE @.stale + 1]]
      /\ UNCHANGED <<disk, editor, shown, initialized>>

Next ==
  \/ handleInitialize \/ WatchedFilesChanged \/ WorkspaceDiagnostic
  \/ \E u \in Modules :
       \/ handleDidOpen(u) \/ handleDidChange(u) \/ handleDidSave(u)
       \/ handleDidClose(u) \/ DiskChanges(u) \/ PullDiagnostics(u)
       \/ handleHover(u) \/ handleSemanticTokens(u) \/ handleSemanticTokensDelta(u)

Spec == Init /\ [][Next]_vars
-----------------------------------------------------------------------------
TypeOK ==
  /\ \A u \in Modules :
       /\ disk[u] \in TextsOf(u) \cup {None} /\ editor[u] \in TextsOf(u) \cup {None}
       /\ snapshots[u] # None => snapshots[u].id < counter
       /\ tokens[u] # None => tokens[u].id < counter
  /\ DOMAIN documents \subseteq Modules
  /\ \A u \in DOMAIN documents :
       documents[u].text \in TextsOf(u) /\ documents[u].open \in BOOLEAN
  /\ initialized \in BOOLEAN /\ counter \in 1..(MaxResults + 1)

(* While a document is open the server works on the editor's text, and it  *)
(* is marked open only then: whatever is read from disk in between, for    *)
(* the workspace or to resolve an import, does not replace it.             *)
OpenTextIsEditors ==
  \A u \in Modules :
    IF editor[u] # None
    THEN u \in DOMAIN documents /\ documents[u].open /\ documents[u].text = editor[u]
    ELSE u \in DOMAIN documents => ~documents[u].open

(* An editor and a server that agree on a result id.                       *)
Agree(u) ==
  tokens[u] # None /\ snapshots[u] # None /\ tokens[u].id = snapshots[u].id

(* They agree on the tokens behind it, and these are the tokens of the     *)
(* text in the editor.  Behind them is left, since the last full answer,   *)
(* one result for every delta to a result the server had forgotten: what   *)
(* such a delta should have replaced stays.                                *)
TokensAsAnswered ==
  \A u \in Modules :
    Agree(u) =>
      /\ Head(tokens[u].data) = snapshots[u].data
      /\ snapshots[u].data.own.text = editor[u]
      /\ Len(tokens[u].data) = 1 + tokens[u].stale

(* Deltas implemented: what the editor holds under a result id is what the *)
(* server answered with it, and nothing else.                              *)
DeltasYieldAnswer ==
  \A u \in Modules : Agree(u) => tokens[u].data = <<snapshots[u].data>>

(* The diagnostics published for an edit are those of the new text, and    *)
(* take every imported module as it reads at that moment.                  *)
EditedDiagnosticsFresh ==
  [][\A u \in Modules :
       editor'[u] # None /\ editor'[u] # editor[u] =>
         /\ shown'[u].text = editor'[u]
         /\ DOMAIN shown'[u].deps = ImportsOf(documents, u)'
         /\ \A i \in DOMAIN shown'[u].deps : shown'[u].deps[i].text = TextOf(documents, i)']_vars

(* What analysing everything anew would show for a document.               *)
FreshDiagnosis(u) ==
  LET forgetful == [m \in DOMAIN documents |-> [documents[m] EXCEPT !.resolved = None]]
  IN  Diagnosis(forgetful, u)

(* Diagnostics that are asked for are those of the program as it stands.   *)
PulledDiagnosticsCurrent ==
  \A u \in Modules :
    initialized /\ editor[u] # None =>
      Diagnose(documents, {u})[u].diags = FreshDiagnosis(u)
=============================================================================
