------------------------ MODULE LanguageServerProofs ------------------------
(***************************************************************************)
(* The language server for any modules, texts and workspace: it works on   *)
(* the editor's text of every open document, it publishes diagnostics of   *)
(* the text an edit makes, and a result id stands for the tokens that were *)
(* answered with it.                                                       *)
(*                                                                         *)
(* The first needs nothing of what resolving a module yields: whatever is  *)
(* resolved, loaded or diagnosed on the way, a document keeps its text and *)
(* its mark, and documents that are loaded meanwhile are not marked open.  *)
(* The others do.  The results are defined by recursion over the imports,  *)
(* which ends because a text stands only where its imports are smaller     *)
(* modules; that, and that whatever is remembered with a document was made *)
(* from its text, is the invariant behind them.                            *)
(*                                                                         *)
(* For the characters of one document it is shown that the changes on      *)
(* their way make the editor's text of the server's, where columns are     *)
(* bytes: the invariant names the texts between the notifications.         *)
(***************************************************************************)
EXTENDS Editor, FiniteSetTheorems, NaturalsInduction, WellFoundedInduction, TLAPS

(* The records that the documents are.                                     *)
IsDocument(d) == d \in [text : {d.text}, open : {d.open}, resolved : {d.resolved},
                        diags : {d.diags}, toks : {d.toks}]

AreDocuments(docs) == \A m \in DOMAIN docs : IsDocument(docs[m])

(* new has the documents of old, with their texts and marks, and possibly  *)
(* more, which are not open.                                               *)
Keeps(new, old) ==
  /\ AreDocuments(new)
  /\ DOMAIN old \subseteq DOMAIN new
  /\ \A m \in DOMAIN old : new[m].text = old[m].text /\ new[m].open = old[m].open
  /\ \A m \in DOMAIN new \ DOMAIN old : new[m].open = FALSE

ClientOK ==
  /\ editor \in [Modules -> Texts \cup {None}]
  /\ disk \in [Modules -> Texts \cup {None}]

IInv == ClientOK /\ AreDocuments(documents) /\ OpenTextIsEditors

LEMMA DocumentIs ==
  ASSUME NEW text, NEW open
  PROVE  /\ IsDocument(Document(text, open))
         /\ Document(text, open).text = text /\ Document(text, open).open = open
BY DEF IsDocument, Document

LEMMA DocumentUpdated ==
  ASSUME NEW d, IsDocument(d), NEW x, NEW e,
         \/ e = [d EXCEPT !.resolved = x]
         \/ e = [d EXCEPT !.diags = x]
         \/ e = [d EXCEPT !.toks = x]
  PROVE  IsDocument(e) /\ e.text = d.text /\ e.open = d.open
BY DEF IsDocument

LEMMA ResolveKeeps ==
  ASSUME NEW docs, AreDocuments(docs), NEW ms
  PROVE  Keeps(Resolve(docs, ms), docs)
<1> DEFINE visited == Visited(docs, ms)
           result  == Resolved(docs)
           new     == [m \in DOMAIN docs \cup visited |->
                         IF m \in visited THEN [Loaded(docs, m) EXCEPT !.resolved = result[m]]
                         ELSE docs[m]]
<1>1. Resolve(docs, ms) = new
  BY DEF Resolve
<1>2. ASSUME NEW m \in DOMAIN docs
      PROVE  /\ IsDocument(new[m]) /\ new[m].text = docs[m].text /\ new[m].open = docs[m].open
  <2>1. IsDocument(docs[m])
    BY DEF AreDocuments
  <2>2. Loaded(docs, m) = docs[m]
    BY DEF Loaded
  <2>3. new[m] = docs[m] \/ new[m] = [docs[m] EXCEPT !.resolved = result[m]]
    BY <2>2
  <2> HIDE DEF new, result
  <2>4. QED
    BY <2>1, <2>3, DocumentUpdated
<1>3. ASSUME NEW m \in visited, m \notin DOMAIN docs
      PROVE  IsDocument(new[m]) /\ new[m].open = FALSE
  <2>1. Loaded(docs, m) = Document(disk[m], FALSE)
    BY <1>3 DEF Loaded
  <2>2. new[m] = [Document(disk[m], FALSE) EXCEPT !.resolved = result[m]]
    BY <2>1
  <2> HIDE DEF new, result
  <2>3. QED
    BY <2>2 DEF IsDocument, Document
<1>4. DOMAIN new = DOMAIN docs \cup visited
  OBVIOUS
<1> HIDE DEF new, visited, result
<1>5. QED
  BY <1>1, <1>2, <1>3, <1>4 DEF Keeps, AreDocuments

LEMMA DiagnoseKeeps ==
  ASSUME NEW docs, AreDocuments(docs), NEW ms
  PROVE  Keeps(Diagnose(docs, ms), docs)
<1> DEFINE todo == {m \in ms : docs[m].diags = None}
           next == Resolve(docs, UNION {ImportsOf(docs, m) : m \in todo})
           new  == [m \in DOMAIN next |->
                      IF m \in todo THEN [next[m] EXCEPT !.diags = Diagnosis(docs, m)] ELSE next[m]]
<1>1. Diagnose(docs, ms) = new
  BY DEF Diagnose
<1>2. Keeps(next, docs)
  BY ResolveKeeps
<1>3. ASSUME NEW m \in DOMAIN next
      PROVE  IsDocument(new[m]) /\ new[m].text = next[m].text /\ new[m].open = next[m].open
  <2>1. IsDocument(next[m])
    BY <1>2 DEF Keeps, AreDocuments
  <2>2. new[m] = next[m] \/ new[m] = [next[m] EXCEPT !.diags = Diagnosis(docs, m)]
    OBVIOUS
  <2> HIDE DEF new, next
  <2>3. QED
    BY <2>1, <2>2, DocumentUpdated
<1>4. DOMAIN new = DOMAIN next
  OBVIOUS
<1> HIDE DEF new, next
<1>5. QED
  BY <1>1, <1>2, <1>3, <1>4 DEF Keeps, AreDocuments

LEMMA ColourKeeps ==
  ASSUME NEW docs, AreDocuments(docs), NEW u \in DOMAIN docs
  PROVE  Keeps(Colour(docs, u), docs)
<1> DEFINE next == Consult(docs, u)
           view == View(docs, u)
           new  == [next EXCEPT ![u].toks = view]
<1>1. Keeps(docs, docs)
  BY DEF Keeps
<1>2. Keeps(next, docs)
  BY ResolveKeeps DEF Consult
<1>3. Colour(docs, u) = docs \/ Colour(docs, u) = new
  BY DEF Colour
<1>4. ASSUME NEW m \in DOMAIN next
      PROVE  IsDocument(new[m]) /\ new[m].text = next[m].text /\ new[m].open = next[m].open
  <2>1. IsDocument(next[m])
    BY <1>2 DEF Keeps, AreDocuments
  <2>2. new[m] = next[m] \/ new[m] = [next[m] EXCEPT !.toks = view]
    OBVIOUS
  <2> HIDE DEF new, next, view
  <2>3. QED
    BY <2>1, <2>2, DocumentUpdated
<1>5. DOMAIN new = DOMAIN next
  OBVIOUS
<1> HIDE DEF new, next
<1>6. QED
  BY <1>1, <1>2, <1>3, <1>4, <1>5 DEF Keeps, AreDocuments

LEMMA LoadWorkspaceKeeps ==
  ASSUME NEW docs, AreDocuments(docs)
  PROVE  /\ AreDocuments(LoadWorkspace(docs))
         /\ \A m \in DOMAIN docs : docs[m].open =>
              m \in DOMAIN LoadWorkspace(docs) /\ LoadWorkspace(docs)[m] = docs[m]
         /\ \A m \in DOMAIN LoadWorkspace(docs) :
              LoadWorkspace(docs)[m].open => m \in DOMAIN docs /\ docs[m].open
<1> DEFINE files == {m \in Roots : disk[m] # None}
           open  == {m \in DOMAIN docs : docs[m].open}
           new   == [m \in open \cup files |->
                       IF m \in open THEN docs[m] ELSE Document(disk[m], FALSE)]
<1>1. LoadWorkspace(docs) = new
  BY DEF LoadWorkspace
<1>2. DOMAIN new = open \cup files /\ \A m \in open : new[m] = docs[m]
  OBVIOUS
<1>3. \A m \in DOMAIN new \ open : new[m] = Document(disk[m], FALSE)
  OBVIOUS
<1>4. \A m \in DOMAIN new \ open : IsDocument(new[m]) /\ new[m].open = FALSE
  <2>1. SUFFICES ASSUME NEW m \in DOMAIN new \ open
                 PROVE  IsDocument(new[m]) /\ new[m].open = FALSE
    OBVIOUS
  <2>2. new[m] = Document(disk[m], FALSE)
    BY <1>3
  <2>3. IsDocument(Document(disk[m], FALSE)) /\ Document(disk[m], FALSE).open = FALSE
    BY DocumentIs
  <2> HIDE DEF new
  <2>4. QED
    BY <2>2, <2>3
<1>5. open = {m \in DOMAIN docs : docs[m].open}
  OBVIOUS
<1> HIDE DEF new, open, files
<1>6. QED
  BY <1>1, <1>2, <1>4, <1>5 DEF AreDocuments

(* A handler that keeps the documents and leaves editor and disk alone     *)
(* keeps the invariant.                                                    *)
LEMMA KeepingPreserves ==
  ASSUME IInv, Keeps(documents', documents), UNCHANGED <<editor, disk>>
  PROVE  IInv'
BY DEF IInv, ClientOK, OpenTextIsEditors, Keeps

LEMMA SetTextPreserves ==
  ASSUME IInv, NEW u \in Modules, NEW text \in Texts, SetTextAndPublish(u, text)
  PROVE  /\ editor' \in [Modules -> Texts \cup {None}]
         /\ AreDocuments(documents') /\ OpenTextIsEditors'
<1> DEFINE docs == With(u, Document(text, TRUE))
<1>1. text \in Texts /\ text # None
  BY LanguageServerAssumption
<1>2. editor' = [editor EXCEPT ![u] = text] /\ documents' = Diagnose(docs, {u})
  BY DEF SetTextAndPublish
<1>3. /\ DOMAIN docs = DOMAIN documents \cup {u} /\ docs[u] = Document(text, TRUE)
      /\ \A m \in DOMAIN documents \ {u} : docs[m] = documents[m]
  BY DEF With
<1>4. IsDocument(docs[u]) /\ docs[u].text = text /\ docs[u].open = TRUE
  BY <1>3 DEF IsDocument, Document
<1>5. AreDocuments(docs)
  BY <1>3, <1>4 DEF IInv, AreDocuments
<1>6. Keeps(documents', docs)
  BY <1>2, <1>5, DiagnoseKeeps
<1> HIDE DEF docs
<1>7. editor' \in [Modules -> Texts \cup {None}]
  BY <1>1, <1>2 DEF IInv, ClientOK
<1>8. OpenTextIsEditors'
  <2> SUFFICES ASSUME NEW m \in Modules
               PROVE  IF editor'[m] # None
                      THEN m \in DOMAIN documents' /\ documents'[m].open
                           /\ documents'[m].text = editor'[m]
                      ELSE m \in DOMAIN documents' => ~documents'[m].open
    BY DEF OpenTextIsEditors
  <2>1. CASE m = u
    <3>1. editor'[m] = text
      BY <2>1, <1>2 DEF IInv, ClientOK
    <3>2. QED
      BY <2>1, <3>1, <1>1, <1>3, <1>4, <1>6 DEF Keeps
  <2>2. CASE m # u
    <3>1. editor'[m] = editor[m]
      BY <2>2, <1>2 DEF IInv, ClientOK
    <3>2. QED
      BY <2>2, <3>1, <1>3, <1>6 DEF Keeps, IInv, OpenTextIsEditors
  <2>3. QED
    BY <2>1, <2>2
<1>9. QED
  BY <1>6, <1>7, <1>8 DEF Keeps
-----------------------------------------------------------------------------
THEOREM InitOK ==
  Init => IInv
BY DEF Init, IInv, ClientOK, AreDocuments, OpenTextIsEditors, TextsOf

THEOREM StepOK ==
  IInv /\ [Next]_vars => IInv'
<1> SUFFICES ASSUME IInv, [Next]_vars PROVE IInv'
  OBVIOUS
<1>1. ASSUME documents' = LoadWorkspace(documents), UNCHANGED <<editor, disk>>
      PROVE  IInv'
  BY <1>1, LoadWorkspaceKeeps DEF IInv, ClientOK, OpenTextIsEditors
<1>2. CASE handleInitialize
  BY <1>1, <1>2 DEF handleInitialize, client
<1>3. CASE WatchedFilesChanged
  BY <1>1, <1>3 DEF WatchedFilesChanged, client
<1>4. CASE WorkspaceDiagnostic
  <2>1. PICK reported, more : documents' = Diagnose(Diagnose(documents, reported), more)
    BY <1>4 DEF WorkspaceDiagnostic
  <2>2. Keeps(Diagnose(documents, reported), documents)
    BY DiagnoseKeeps DEF IInv
  <2>3. AreDocuments(Diagnose(documents, reported))
    BY <2>2 DEF Keeps
  <2>4. Keeps(documents', Diagnose(documents, reported))
    BY <2>1, <2>3, DiagnoseKeeps
  <2>5. Keeps(documents', documents)
    BY <2>2, <2>4 DEF Keeps
  <2>6. QED
    BY <2>5, <1>4, KeepingPreserves DEF WorkspaceDiagnostic, client
<1>5. ASSUME NEW u \in Modules, handleDidOpen(u)
      PROVE  IInv'
  <2>1. PICK text \in TextsOf(u) : SetTextAndPublish(u, text)
    BY <1>5 DEF handleDidOpen
  <2>2. QED
    BY <2>1, <1>5, SetTextPreserves DEF handleDidOpen, TextsOf, IInv, ClientOK
<1>6. ASSUME NEW u \in Modules, handleDidChange(u)
      PROVE  IInv'
  <2>1. PICK text \in TextsOf(u) : SetTextAndPublish(u, text)
    BY <1>6 DEF handleDidChange
  <2>2. QED
    BY <2>1, <1>6, SetTextPreserves DEF handleDidChange, TextsOf, IInv, ClientOK
<1>7. ASSUME NEW u \in Modules, handleDidSave(u)
      PROVE  IInv'
  <2>1. editor[u] \in Texts
    BY <1>7 DEF handleDidSave, IInv, ClientOK
  <2>2. disk' \in [Modules -> Texts \cup {None}]
    BY <2>1, <1>7 DEF handleDidSave, IInv, ClientOK
  <2>3. QED
    BY <2>1, <2>2, <1>7, SetTextPreserves DEF handleDidSave, IInv, ClientOK
<1>8. ASSUME NEW u \in Modules, handleDidClose(u)
      PROVE  IInv'
  <2> DEFINE gone == Without(u)
             kept == With(u, Document(disk[u], FALSE))
  <2>1. documents' = gone \/ documents' = kept
    BY <1>8 DEF handleDidClose
  <2>2. DOMAIN gone = DOMAIN documents \ {u} /\ \A m \in DOMAIN gone : gone[m] = documents[m]
    BY DEF Without
  <2>3. /\ DOMAIN kept = DOMAIN documents \cup {u} /\ kept[u] = Document(disk[u], FALSE)
        /\ \A m \in DOMAIN documents \ {u} : kept[m] = documents[m]
    BY DEF With
  <2>4. IsDocument(kept[u]) /\ kept[u].open = FALSE
    BY <2>3 DEF IsDocument, Document
  <2> HIDE DEF gone, kept
  <2>5. AreDocuments(documents')
    BY <2>1, <2>2, <2>3, <2>4 DEF IInv, AreDocuments
  <2>6. editor' \in [Modules -> Texts \cup {None}] /\ UNCHANGED disk
    BY <1>8 DEF handleDidClose, IInv, ClientOK
  <2>7. editor'[u] = None /\ \A m \in Modules \ {u} : editor'[m] = editor[m]
    BY <1>8 DEF handleDidClose, IInv, ClientOK
  <2>8. OpenTextIsEditors'
    BY <2>1, <2>2, <2>3, <2>4, <2>7 DEF IInv, OpenTextIsEditors
  <2>9. QED
    BY <2>5, <2>6, <2>8 DEF IInv, ClientOK
<1>9. ASSUME NEW u \in Modules, DiskChanges(u)
      PROVE  IInv'
  <2>1. PICK text \in TextsOf(u) \cup {None} : disk' = [disk EXCEPT ![u] = text]
    BY <1>9 DEF DiskChanges
  <2>2. disk' \in [Modules -> Texts \cup {None}]
    BY <2>1 DEF IInv, ClientOK, TextsOf
  <2>3. QED
    BY <2>2, <1>9 DEF DiskChanges, client, server, IInv, ClientOK, AreDocuments, OpenTextIsEditors
<1>10. ASSUME NEW u \in Modules, PullDiagnostics(u)
       PROVE  IInv'
  <2>1. Keeps(documents', documents)
    BY <1>10, DiagnoseKeeps DEF PullDiagnostics, IInv
  <2>2. QED
    BY <2>1, <1>10, KeepingPreserves DEF PullDiagnostics
<1>11. ASSUME NEW u \in Modules, handleHover(u)
       PROVE  IInv'
  <2>1. Keeps(documents', documents)
    BY <1>11, ResolveKeeps DEF handleHover, Consult, IInv
  <2>2. QED
    BY <2>1, <1>11, KeepingPreserves DEF handleHover, client
<1>12. ASSUME NEW u \in Modules, handleSemanticTokens(u)
       PROVE  IInv'
  <2>1. u \in DOMAIN documents
    BY <1>12 DEF handleSemanticTokens, IInv, OpenTextIsEditors
  <2>2. Keeps(documents', documents)
    BY <2>1, <1>12, ColourKeeps DEF handleSemanticTokens, IInv
  <2>3. QED
    BY <2>2, <1>12, KeepingPreserves DEF handleSemanticTokens
<1>13. ASSUME NEW u \in Modules, handleSemanticTokensDelta(u)
       PROVE  IInv'
  <2>1. u \in DOMAIN documents
    BY <1>13 DEF handleSemanticTokensDelta, IInv, OpenTextIsEditors
  <2>2. Keeps(documents', documents)
    BY <2>1, <1>13, ColourKeeps DEF handleSemanticTokensDelta, IInv
  <2>3. QED
    BY <2>2, <1>13, KeepingPreserves DEF handleSemanticTokensDelta
<1>14. CASE UNCHANGED vars
  BY <1>14 DEF vars, client, server, IInv, ClientOK, AreDocuments, OpenTextIsEditors
<1>15. QED
  BY <1>2, <1>3, <1>4, <1>5, <1>6, <1>7, <1>8, <1>9, <1>10, <1>11, <1>12, <1>13, <1>14
     DEF Next

(* However files change on disk, are loaded for the workspace or to        *)
(* resolve an import, the server's copy of a document that is open is the  *)
(* text the editor has.                                                    *)
THEOREM OpenTexts ==
  Spec => []OpenTextIsEditors
<1>1. IInv => OpenTextIsEditors
  BY DEF IInv
<1>2. QED
  BY InitOK, StepOK, <1>1, PTL DEF Spec
-----------------------------------------------------------------------------
(* Every nonempty set of natural numbers has a least element.              *)
LEMMA LeastNumber ==
  ASSUME NEW S \in SUBSET Nat, S # {}
  PROVE  \E m \in S : \A n \in S : m <= n
<1> DEFINE R == OpToRel(<, Nat)
<1>1. IsWellFoundedOn(R, Nat)
  BY NatLessThanWellFounded, Zenon
<1>2. \A m, n \in S : n < m => <<n, m>> \in R
  BY SMT DEF OpToRel
<1> HIDE DEF R
<1>3. PICK m \in S : \A n \in S : ~ (<<n, m>> \in R)
  BY <1>1, WFMin
<1>4. \A n \in S : ~ (n < m)
  BY <1>2, <1>3
<1>5. \A n \in S : m <= n
  BY <1>4
<1>6. QED
  BY <1>5
-----------------------------------------------------------------------------
(* A text stands only where its imports are smaller modules.               *)
TextsFit ==
  /\ editor \in [Modules -> Texts \cup {None}] /\ disk \in [Modules -> Texts \cup {None}]
  /\ \A u \in Modules : editor[u] \in TextsOf(u) \cup {None} /\ disk[u] \in TextsOf(u) \cup {None}

Fits(docs) == DOMAIN docs \subseteq Modules /\ \A m \in DOMAIN docs : docs[m].text \in TextsOf(m)

(* What is remembered with a document was made from its text.              *)
Current(docs) ==
  \A m \in DOMAIN docs :
    /\ docs[m].resolved # None => docs[m].resolved.text = docs[m].text
    /\ docs[m].toks # None => docs[m].toks.own.text = docs[m].text

Sound(docs) == AreDocuments(docs) /\ Fits(docs) /\ Current(docs)

(* The results for the modules in s are f.                                 *)
Results(docs, s, f) == f = [m \in s |-> Result(docs, f, m)]

LEMMA KnownTexts ==
  ASSUME TextsFit, NEW docs, Fits(docs), NEW m \in Known(docs)
  PROVE  /\ m \in Modules /\ TextOf(docs, m) \in TextsOf(m)
         /\ m \notin DOMAIN docs => TextOf(docs, m) = disk[m]
         /\ m \in DOMAIN docs => TextOf(docs, m) = docs[m].text
<1>1. CASE m \in DOMAIN docs
  BY <1>1 DEF Known, Fits, TextOf, Loaded
<1>2. CASE m \notin DOMAIN docs
  <2>1. disk[m] \in TextsOf(m)
    BY <1>2 DEF Known, Exists, TextsFit
  <2>2. Loaded(docs, m) = Document(disk[m], FALSE)
    BY <1>2 DEF Loaded
  <2>3. TextOf(docs, m) = disk[m]
    BY <2>2 DEF TextOf, Document
  <2>4. QED
    BY <1>2, <2>1, <2>3 DEF Known
<1>3. QED
  BY <1>1, <1>2

LEMMA ImportsAreSmaller ==
  ASSUME TextsFit, NEW docs, Fits(docs), NEW m \in Known(docs), NEW i \in ImportsOf(docs, m)
  PROVE  i \in Known(docs) /\ i < m
<1>1. TextOf(docs, m) \in TextsOf(m)
  BY KnownTexts
<1>2. i \in TextOf(docs, m).imports /\ Exists(docs, i)
  BY DEF ImportsOf
<1>3. QED
  BY <1>1, <1>2, LanguageServerAssumption DEF TextsOf, Known

LEMMA SameImportsSameResult ==
  ASSUME NEW docs, NEW m, NEW f, NEW g, \A i \in ImportsOf(docs, m) : f[i] = g[i]
  PROVE  Result(docs, f, m) = Result(docs, g, m)
<1>1. [i \in ImportsOf(docs, m) |-> f[i]] = [i \in ImportsOf(docs, m) |-> g[i]]
  OBVIOUS
<1>2. QED
  BY <1>1 DEF Result

(* The recursion over imports ends: there are results for all modules.     *)
LEMMA ResultsExist ==
  ASSUME TextsFit, NEW docs, Fits(docs)
  PROVE  \E f : Results(docs, Known(docs), f)
<1> DEFINE Upto(n) == {m \in Known(docs) : m <= n}
           bad == {n \in Nat : ~ \E f : Results(docs, Upto(n), f)}
<1>1. Last \in Nat /\ Known(docs) \subseteq 1..Last
  BY LanguageServerAssumption DEF Known, Modules
<1>2. 0 \notin bad
  <2>1. Upto(0) = {}
    BY <1>1
  <2> DEFINE f == [m \in {} |-> None]
  <2>2. Results(docs, {}, f)
    BY DEF Results
  <2>3. QED
    BY <2>1, <2>2
<1>3. ASSUME NEW n \in Nat, n \notin bad
      PROVE  n + 1 \notin bad
  <2>1. PICK f : Results(docs, Upto(n), f)
    BY <1>3
  <2> DEFINE g == [m \in Upto(n + 1) |-> IF m \in Upto(n) THEN f[m] ELSE Result(docs, f, m)]
  <2>2. Upto(n) \subseteq Upto(n + 1)
    BY <1>1
  <2>3. \A m \in Upto(n) : g[m] = f[m]
    BY <2>2
  <2>4. ASSUME NEW m \in Upto(n + 1)
        PROVE  g[m] = Result(docs, g, m)
    <3>1. m \in Known(docs)
      OBVIOUS
    <3>2. \A i \in ImportsOf(docs, m) : i \in Upto(n)
      <4>1. \A i \in ImportsOf(docs, m) : i \in Known(docs) /\ i < m
        BY <3>1, ImportsAreSmaller
      <4>2. \A i \in ImportsOf(docs, m) : i <= n
        BY <1>1, <4>1
      <4>3. QED
        BY <4>1, <4>2
    <3>3. Result(docs, g, m) = Result(docs, f, m)
      <4> HIDE DEF g
      <4>1. \A i \in ImportsOf(docs, m) : g[i] = f[i]
        BY <2>3, <3>2
      <4>2. QED
        BY <4>1, SameImportsSameResult
    <3>4. CASE m \in Upto(n)
      <4>1. f[m] = Result(docs, f, m)
        BY <2>1, <3>4 DEF Results
      <4>2. g[m] = f[m]
        BY <2>3, <3>4
      <4>3. QED
        BY <3>3, <4>1, <4>2
    <3>5. CASE m \notin Upto(n)
      <4>1. g[m] = Result(docs, f, m)
        BY <3>5
      <4>2. QED
        BY <3>3, <4>1
    <3>6. QED
      BY <3>4, <3>5
  <2>5. g = [m \in Upto(n + 1) |-> g[m]]
    OBVIOUS
  <2>6. Results(docs, Upto(n + 1), g)
    <3> HIDE DEF g, Upto
    <3>1. QED
      BY <2>4, <2>5 DEF Results
  <2>7. QED
    BY <2>6
<1>4. bad = {}
  <2> SUFFICES ASSUME bad # {} PROVE FALSE
    OBVIOUS
  <2>1. bad \in SUBSET Nat
    OBVIOUS
  <2> HIDE DEF bad
  <2>2. PICK n \in bad : \A k \in bad : n <= k
    BY <2>1, LeastNumber
  <2>3. n \in Nat /\ n # 0
    BY <1>2, <2>1, <2>2
  <2>4. n - 1 \in Nat /\ n - 1 + 1 = n /\ ~ (n <= n - 1)
    BY <2>3
  <2>5. n - 1 \notin bad
    BY <2>2, <2>4
  <2>6. n - 1 + 1 \notin bad
    BY <1>3, <2>4, <2>5
  <2>7. QED
    BY <2>2, <2>4, <2>6
<1>5. Upto(Last) = Known(docs)
  BY <1>1
<1>6. QED
  BY <1>1, <1>4, <1>5

(* The equation that defines Resolved holds of it.  The definition chooses *)
(* a function with g as its name, which stays hidden while it is chosen.   *)
LEMMA ResolvedIs ==
  ASSUME TextsFit, NEW docs, Fits(docs)
  PROVE  Results(docs, Known(docs), Resolved(docs))
<1> DEFINE Good(g) == g = [m \in Known(docs) |-> Result(docs, g, m)]
<1>1. Resolved(docs) = CHOOSE g : Good(g)
  BY Zenon DEF Resolved
<1>2. \E g : Good(g)
  BY ResultsExist DEF Results
<1> HIDE DEF Good
<1>3. Good(CHOOSE g : Good(g))
  BY <1>2
<1>4. Good(Resolved(docs))
  BY <1>1, <1>3
<1>5. QED
  BY <1>4 DEF Good, Results

LEMMA ResolvedTexts ==
  ASSUME TextsFit, NEW docs, Fits(docs), Current(docs), NEW m \in Known(docs)
  PROVE  Resolved(docs)[m].text = TextOf(docs, m)
<1>1. Results(docs, Known(docs), Resolved(docs))
  BY ResolvedIs
<1>2. Resolved(docs)[m] = Result(docs, Resolved(docs), m)
  BY <1>1 DEF Results
<1>3. CASE Remembered(docs, m)
  <2>1. Resolved(docs)[m] = docs[m].resolved
    BY <1>2, <1>3 DEF Result
  <2>2. QED
    BY <1>3, <2>1, KnownTexts DEF Remembered, Current
<1>4. CASE ~Remembered(docs, m)
  BY <1>2, <1>4 DEF Result
<1>5. QED
  BY <1>3, <1>4

(* Resolving loads modules with the text they have, and remembers for each *)
(* what was made from that text.                                           *)
LEMMA ResolveSound ==
  ASSUME TextsFit, NEW docs, Sound(docs), NEW ms
  PROVE  /\ Sound(Resolve(docs, ms)) /\ Keeps(Resolve(docs, ms), docs)
         /\ \A m \in DOMAIN Resolve(docs, ms) :
              m \in Known(docs) /\ Resolve(docs, ms)[m].text = TextOf(docs, m)
<1> DEFINE visited == Visited(docs, ms)
           result  == Resolved(docs)
           new     == [m \in DOMAIN docs \cup visited |->
                         IF m \in visited THEN [Loaded(docs, m) EXCEPT !.resolved = result[m]]
                         ELSE docs[m]]
<1>1. Resolve(docs, ms) = new
  BY DEF Resolve
<1>2. Keeps(new, docs)
  BY <1>1, ResolveKeeps DEF Sound
<1>3. visited \subseteq Known(docs) /\ DOMAIN docs \subseteq Known(docs)
  BY DEF Visited, Known, Exists, Sound, Fits
<1>4. DOMAIN new = DOMAIN docs \cup visited
  OBVIOUS
<1>5. ASSUME NEW m \in DOMAIN new
      PROVE  /\ new[m].text = TextOf(docs, m) /\ m \in Known(docs)
             /\ new[m].text \in TextsOf(m)
             /\ new[m].resolved # None => new[m].resolved.text = new[m].text
             /\ new[m].toks # None => new[m].toks.own.text = new[m].text
  <2>1. m \in Known(docs)
    BY <1>3, <1>4
  <2>2. TextOf(docs, m) \in TextsOf(m)
    BY <2>1, KnownTexts DEF Sound
  <2>3. CASE m \in visited
    <3>1. result[m].text = TextOf(docs, m)
      BY <2>1, ResolvedTexts DEF Sound
    <3>2. new[m] = [Loaded(docs, m) EXCEPT !.resolved = result[m]]
      BY <2>3
    <3>3. IsDocument(Loaded(docs, m))
      BY DocumentIs DEF Loaded, Sound, AreDocuments
    <3>4. Loaded(docs, m).toks # None => Loaded(docs, m).toks.own.text = TextOf(docs, m)
      BY DEF Loaded, Document, TextOf, Sound, Current
    <3>5. /\ new[m].text = TextOf(docs, m) /\ new[m].resolved = result[m]
          /\ new[m].toks = Loaded(docs, m).toks
      <4> HIDE DEF new, result
      <4>1. QED
        BY <3>2, <3>3 DEF IsDocument, TextOf
    <3> HIDE DEF new, result
    <3>6. QED
      BY <2>1, <2>2, <3>1, <3>4, <3>5
  <2>4. CASE m \notin visited
    <3>1. m \in DOMAIN docs /\ new[m] = docs[m]
      BY <1>4, <2>4
    <3>2. TextOf(docs, m) = docs[m].text
      BY <3>1 DEF TextOf, Loaded
    <3> HIDE DEF new
    <3>3. QED
      BY <2>1, <2>2, <3>1, <3>2 DEF Sound, Current
  <2>5. QED
    BY <2>3, <2>4
<1>6. Fits(new)
  <2> HIDE DEF new
  <2>1. QED
    BY <1>5, KnownTexts DEF Fits, Known
<1> HIDE DEF new
<1>7. Current(new)
  BY <1>5 DEF Current
<1>8. QED
  BY <1>1, <1>2, <1>5, <1>6, <1>7 DEF Sound, Keeps

LEMMA DiagnoseSound ==
  ASSUME TextsFit, NEW docs, Sound(docs), NEW ms
  PROVE  /\ Sound(Diagnose(docs, ms)) /\ Keeps(Diagnose(docs, ms), docs)
         /\ \A m \in DOMAIN Diagnose(docs, ms) :
              m \in Known(docs) /\ Diagnose(docs, ms)[m].text = TextOf(docs, m)
<1> DEFINE todo == {m \in ms : docs[m].diags = None}
           next == Resolve(docs, UNION {ImportsOf(docs, m) : m \in todo})
           new  == [m \in DOMAIN next |->
                      IF m \in todo THEN [next[m] EXCEPT !.diags = Diagnosis(docs, m)] ELSE next[m]]
<1>1. Diagnose(docs, ms) = new
  BY DEF Diagnose
<1>2. /\ Sound(next)
      /\ \A m \in DOMAIN next : m \in Known(docs) /\ next[m].text = TextOf(docs, m)
  BY ResolveSound
<1>3. Keeps(new, docs)
  BY <1>1, DiagnoseKeeps DEF Sound
<1>4. ASSUME NEW m \in DOMAIN next
      PROVE  /\ new[m].text = next[m].text
             /\ new[m].resolved = next[m].resolved /\ new[m].toks = next[m].toks
  <2>1. IsDocument(next[m])
    BY <1>2 DEF Sound, AreDocuments
  <2>2. new[m] = next[m] \/ new[m] = [next[m] EXCEPT !.diags = Diagnosis(docs, m)]
    OBVIOUS
  <2> HIDE DEF new, next
  <2>3. QED
    BY <2>1, <2>2 DEF IsDocument
<1>5. DOMAIN new = DOMAIN next
  OBVIOUS
<1> HIDE DEF new, next
<1>6. Fits(new) /\ Current(new)
  BY <1>2, <1>4, <1>5 DEF Sound, Fits, Current
<1>7. QED
  BY <1>1, <1>2, <1>3, <1>4, <1>5, <1>6 DEF Sound, Keeps

(* The tokens that are answered for a document are of its text.            *)
LEMMA ColourSound ==
  ASSUME TextsFit, NEW docs, Sound(docs), NEW u \in DOMAIN docs
  PROVE  /\ Sound(Colour(docs, u)) /\ u \in DOMAIN Colour(docs, u)
         /\ Colour(docs, u)[u].toks.own.text = docs[u].text
<1> DEFINE next == Consult(docs, u)
           view == View(docs, u)
           new  == [next EXCEPT ![u].toks = view]
<1>1. Keeps(next, docs) /\ Sound(next)
  BY ResolveSound DEF Consult
<1>2. u \in DOMAIN next /\ next[u].text = docs[u].text
  BY <1>1 DEF Keeps
<1>3. view.own.text = docs[u].text
  <2>1. u \in Known(docs)
    BY DEF Known, Exists, Sound, Fits
  <2>2. Resolved(docs)[u].text = docs[u].text
    BY <2>1, ResolvedTexts, KnownTexts DEF Sound
  <2>3. view.own = Resolved(docs)[u]
    BY DEF View
  <2>4. QED
    BY <2>2, <2>3
<1>4. CASE docs[u].toks # None
  <2>1. Colour(docs, u) = docs
    BY <1>4 DEF Colour
  <2>2. QED
    BY <1>4, <2>1 DEF Sound, Current
<1>5. CASE docs[u].toks = None
  <2>1. Colour(docs, u) = new
    BY <1>5 DEF Colour
  <2>2. DOMAIN new = DOMAIN next
    OBVIOUS
  <2>3. \A m \in DOMAIN next \ {u} : new[m] = next[m]
    OBVIOUS
  <2>4. new[u] = [next[u] EXCEPT !.toks = view]
    BY <1>2
  <2>5. IsDocument(next[u])
    BY <1>1, <1>2 DEF Sound, AreDocuments
  <2> HIDE DEF new, next, view
  <2>6. /\ IsDocument(new[u]) /\ new[u].text = next[u].text
        /\ new[u].resolved = next[u].resolved /\ new[u].toks = view
    BY <2>4, <2>5 DEF IsDocument
  <2>7. AreDocuments(new) /\ Fits(new)
    BY <1>1, <1>2, <2>2, <2>3, <2>6 DEF Sound, AreDocuments, Fits
  <2>8. Current(new)
    BY <1>1, <1>2, <1>3, <2>2, <2>3, <2>6 DEF Sound, Current
  <2>9. QED
    BY <1>2, <1>3, <2>1, <2>2, <2>6, <2>7, <2>8 DEF Sound
<1>6. QED
  BY <1>4, <1>5

LEMMA LoadWorkspaceSound ==
  ASSUME TextsFit, NEW docs, Sound(docs)
  PROVE  Sound(LoadWorkspace(docs))
<1> DEFINE files == {m \in Roots : disk[m] # None}
           open  == {m \in DOMAIN docs : docs[m].open}
           new   == [m \in open \cup files |->
                       IF m \in open THEN docs[m] ELSE Document(disk[m], FALSE)]
<1>1. LoadWorkspace(docs) = new
  BY DEF LoadWorkspace
<1>2. AreDocuments(new)
  <2>1. AreDocuments(LoadWorkspace(docs))
    BY LoadWorkspaceKeeps DEF Sound
  <2> HIDE DEF new
  <2>2. QED
    BY <2>1, <1>1
<1>3. DOMAIN new = open \cup files /\ \A m \in open : new[m] = docs[m]
  OBVIOUS
<1>4. \A m \in DOMAIN new \ open : new[m] = Document(disk[m], FALSE)
  OBVIOUS
<1>5. ASSUME NEW m \in DOMAIN new \ open
      PROVE  /\ m \in Modules /\ new[m].text \in TextsOf(m)
             /\ new[m].resolved = None /\ new[m].toks = None
  <2>1. m \in Modules /\ disk[m] \in TextsOf(m)
    BY LanguageServerAssumption DEF TextsFit
  <2> HIDE DEF new
  <2>2. QED
    BY <1>4, <2>1 DEF Document
<1>6. open \subseteq DOMAIN docs
  OBVIOUS
<1> HIDE DEF new, open, files
<1>7. Fits(new)
  BY <1>3, <1>5, <1>6 DEF Sound, Fits
<1>8. Current(new)
  BY <1>3, <1>5, <1>6 DEF Sound, Current
<1>9. QED
  BY <1>1, <1>2, <1>7, <1>8 DEF Sound
-----------------------------------------------------------------------------
ClientDomains == DOMAIN shown = Modules /\ DOMAIN tokens = Modules /\ DOMAIN snapshots = Modules

AInv == IInv /\ TextsFit /\ ClientDomains /\ Sound(documents)

LEMMA WithSound ==
  ASSUME AInv, NEW u \in Modules, NEW text \in TextsOf(u), NEW open
  PROVE  /\ Sound(With(u, Document(text, open))) /\ u \in DOMAIN With(u, Document(text, open))
         /\ With(u, Document(text, open))[u] = Document(text, open)
<1> DEFINE docs == With(u, Document(text, open))
<1>1. /\ DOMAIN docs = DOMAIN documents \cup {u} /\ docs[u] = Document(text, open)
      /\ \A m \in DOMAIN documents \ {u} : docs[m] = documents[m]
  BY DEF With
<1>2. /\ IsDocument(docs[u]) /\ docs[u].text = text
      /\ docs[u].resolved = None /\ docs[u].toks = None
  BY <1>1 DEF IsDocument, Document
<1> HIDE DEF docs
<1>3. AreDocuments(docs) /\ Fits(docs)
  BY <1>1, <1>2 DEF AInv, Sound, AreDocuments, Fits
<1>4. Current(docs)
  BY <1>1, <1>2 DEF AInv, Sound, Current
<1>5. QED
  BY <1>1, <1>3, <1>4 DEF Sound, docs

LEMMA SetTextSound ==
  ASSUME AInv, NEW u \in Modules, NEW text \in TextsOf(u), SetTextAndPublish(u, text)
  PROVE  Sound(documents') /\ ClientDomains' /\ editor' = [editor EXCEPT ![u] = text]
<1>1. documents' = Diagnose(With(u, Document(text, TRUE)), {u})
  BY DEF SetTextAndPublish
<1>2. Sound(With(u, Document(text, TRUE)))
  BY WithSound
<1>3. TextsFit
  BY DEF AInv
<1>4. Sound(documents')
  BY <1>1, <1>2, <1>3, DiagnoseSound
<1>5. QED
  BY <1>4 DEF SetTextAndPublish, AInv, ClientDomains

(* What is shown once the text of u is replaced.                           *)
ShowsFresh(u, text) ==
  /\ shown'[u].text = text
  /\ DOMAIN shown'[u].deps = ImportsOf(documents, u)'
  /\ \A i \in DOMAIN shown'[u].deps : shown'[u].deps[i].text = TextOf(documents, i)'

LEMMA SetTextShowsFresh ==
  ASSUME AInv, NEW u \in Modules, NEW text \in TextsOf(u), SetTextAndPublish(u, text),
         disk' = disk
  PROVE  ShowsFresh(u, text)
<1> DEFINE base == With(u, Document(text, TRUE))
<1>1. /\ documents' = Diagnose(base, {u})
      /\ shown' = [shown EXCEPT ![u] = Diagnose(base, {u})[u].diags]
  BY DEF SetTextAndPublish
<1>2. Sound(base) /\ u \in DOMAIN base /\ base[u] = Document(text, TRUE)
  BY WithSound
<1>3. base[u].text = text /\ base[u].diags = None
  BY <1>2 DEF Document
<1>4. TextsFit
  BY DEF AInv
<1> HIDE DEF base
<1>5. /\ Keeps(documents', base)
      /\ \A m \in DOMAIN documents' : m \in Known(base) /\ documents'[m].text = TextOf(base, m)
  BY <1>1, <1>2, <1>4, DiagnoseSound
<1>6. shown'[u] = Diagnosis(base, u)
  <2> DEFINE todo == {m \in {u} : base[m].diags = None}
             next == Resolve(base, UNION {ImportsOf(base, m) : m \in todo})
             new  == [m \in DOMAIN next |->
                        IF m \in todo THEN [next[m] EXCEPT !.diags = Diagnosis(base, m)]
                        ELSE next[m]]
  <2>1. Diagnose(base, {u}) = new
    BY DEF Diagnose
  <2>2. u \in todo
    BY <1>3
  <2>3. Keeps(next, base)
    BY <1>2, ResolveKeeps DEF Sound
  <2>4. u \in DOMAIN next /\ IsDocument(next[u])
    BY <1>2, <2>3 DEF Keeps, AreDocuments
  <2>5. new[u] = [next[u] EXCEPT !.diags = Diagnosis(base, u)]
    BY <2>2, <2>4
  <2> HIDE DEF new, next, todo
  <2>6. new[u].diags = Diagnosis(base, u)
    BY <2>4, <2>5 DEF IsDocument
  <2>7. QED
    BY <1>1, <2>1, <2>6 DEF AInv, ClientDomains
<1>7. /\ shown'[u].text = text /\ DOMAIN shown'[u].deps = ImportsOf(base, u)
      /\ \A i \in ImportsOf(base, u) : shown'[u].deps[i] = Resolved(base)[i]
  BY <1>3, <1>6 DEF Diagnosis
<1>8. \A i \in Modules : (i \in DOMAIN documents' \/ disk'[i] # None) <=> Exists(base, i)
  BY <1>5 DEF Keeps, Known, Exists
<1>9. u \in DOMAIN documents' /\ documents'[u].text = text
  BY <1>2, <1>3, <1>5 DEF Keeps
<1>10. TextOf(documents, u)' = text /\ TextOf(base, u) = text
  BY <1>2, <1>3, <1>9 DEF TextOf, Loaded
<1>11. text.imports \subseteq Modules
  BY LanguageServerAssumption DEF TextsOf
<1>12. ImportsOf(documents, u)' = ImportsOf(base, u)
  <2>1. ImportsOf(documents, u)' =
          {i \in TextOf(documents, u)'.imports : i \in DOMAIN documents' \/ disk'[i] # None}
    BY DEF ImportsOf, Exists
  <2>2. ImportsOf(base, u) = {i \in TextOf(base, u).imports : Exists(base, i)}
    BY DEF ImportsOf
  <2>3. QED
    BY <1>8, <1>10, <1>11, <2>1, <2>2
<1>13. ASSUME NEW i \in ImportsOf(base, u)
       PROVE  Resolved(base)[i].text = TextOf(documents, i)'
  <2>1. u \in Known(base)
    BY <1>2 DEF Known, Exists
  <2>2. i \in Known(base)
    BY <1>2, <1>4, <2>1, ImportsAreSmaller DEF Sound
  <2>3. Resolved(base)[i].text = TextOf(base, i)
    BY <1>2, <1>4, <2>2, ResolvedTexts DEF Sound
  <2>4. CASE i \in DOMAIN documents'
    <3>1. TextOf(documents, i)' = documents'[i].text
      BY <2>4 DEF TextOf, Loaded
    <3>2. QED
      BY <1>5, <2>3, <2>4, <3>1
  <2>5. CASE i \notin DOMAIN documents'
    <3>1. i \notin DOMAIN base
      BY <1>5, <2>5 DEF Keeps
    <3>2. TextOf(base, i) = disk[i]
      BY <1>2, <1>4, <2>2, <3>1, KnownTexts DEF Sound
    <3>3. TextOf(documents, i)' = disk'[i]
      BY <2>5 DEF TextOf, Loaded, Document
    <3>4. QED
      BY <2>3, <3>2, <3>3
  <2>6. QED
    BY <2>4, <2>5
<1>14. QED
  BY <1>7, <1>12, <1>13 DEF ShowsFresh
-----------------------------------------------------------------------------
LEMMA AInit ==
  Init => AInv
<1> SUFFICES ASSUME Init PROVE AInv
  OBVIOUS
<1>1. IInv
  BY InitOK
<1>2. TextsFit
  BY DEF Init, TextsFit, TextsOf
<1>3. ClientDomains /\ Sound(documents)
  BY DEF Init, ClientDomains, Sound, AreDocuments, Fits, Current
<1>4. QED
  BY <1>1, <1>2, <1>3 DEF AInv

LEMMA ASteps ==
  AInv /\ [Next]_vars => AInv'
<1> SUFFICES ASSUME AInv, [Next]_vars PROVE AInv'
  OBVIOUS
<1> USE DEF AInv
<1>1. IInv'
  BY StepOK
<1>2. \A u \in Modules : editor[u] # None => u \in DOMAIN documents
  BY DEF IInv, OpenTextIsEditors
<1>3. ASSUME UNCHANGED <<editor, disk>>, ClientDomains', Sound(documents')
      PROVE  AInv'
  BY <1>1, <1>3 DEF TextsFit
<1>4. CASE handleInitialize
  BY <1>3, <1>4, LoadWorkspaceSound DEF handleInitialize, client, ClientDomains
<1>5. CASE WatchedFilesChanged
  BY <1>3, <1>5, LoadWorkspaceSound DEF WatchedFilesChanged, client, ClientDomains
<1>6. CASE WorkspaceDiagnostic
  <2>1. PICK reported, more : documents' = Diagnose(Diagnose(documents, reported), more)
    BY <1>6 DEF WorkspaceDiagnostic
  <2>2. Sound(Diagnose(documents, reported))
    BY DiagnoseSound
  <2>3. Sound(documents')
    BY <2>1, <2>2, DiagnoseSound
  <2>4. QED
    BY <1>3, <1>6, <2>3 DEF WorkspaceDiagnostic, client, ClientDomains
<1>7. ASSUME NEW u \in Modules, NEW text \in TextsOf(u), SetTextAndPublish(u, text),
             disk' \in [Modules -> Texts \cup {None}],
             \A m \in Modules : disk'[m] \in TextsOf(m) \cup {None}
      PROVE  AInv'
  <2>1. Sound(documents') /\ ClientDomains' /\ editor' = [editor EXCEPT ![u] = text]
    BY <1>7, SetTextSound
  <2>2. TextsFit'
    BY <1>7, <2>1 DEF TextsFit, TextsOf
  <2>3. QED
    BY <1>1, <2>1, <2>2
<1>8. ASSUME NEW u \in Modules, handleDidOpen(u)
      PROVE  AInv'
  <2>1. PICK text \in TextsOf(u) : SetTextAndPublish(u, text)
    BY <1>8 DEF handleDidOpen
  <2>2. disk' = disk
    BY <1>8 DEF handleDidOpen
  <2>3. QED
    BY <1>7, <2>1, <2>2 DEF TextsFit
<1>9. ASSUME NEW u \in Modules, handleDidChange(u)
      PROVE  AInv'
  <2>1. PICK text \in TextsOf(u) : SetTextAndPublish(u, text)
    BY <1>9 DEF handleDidChange
  <2>2. disk' = disk
    BY <1>9 DEF handleDidChange
  <2>3. QED
    BY <1>7, <2>1, <2>2 DEF TextsFit
<1>10. ASSUME NEW u \in Modules, handleDidSave(u)
       PROVE  AInv'
  <2>1. editor[u] \in TextsOf(u) /\ disk' = [disk EXCEPT ![u] = editor[u]]
    BY <1>10 DEF handleDidSave, TextsFit
  <2>2. /\ disk' \in [Modules -> Texts \cup {None}]
        /\ \A m \in Modules : disk'[m] \in TextsOf(m) \cup {None}
    BY <2>1 DEF TextsFit, TextsOf
  <2>3. QED
    BY <1>7, <1>10, <2>1, <2>2 DEF handleDidSave
<1>11. ASSUME NEW u \in Modules, handleDidClose(u)
       PROVE  AInv'
  <2>1. TextsFit'
    BY <1>11 DEF handleDidClose, TextsFit
  <2>2. ClientDomains'
    BY <1>11 DEF handleDidClose, ClientDomains
  <2>3. CASE disk[u] = None
    <3> DEFINE gone == Without(u)
    <3>1. documents' = gone
      BY <1>11, <2>3 DEF handleDidClose
    <3>2. DOMAIN gone = DOMAIN documents \ {u} /\ \A m \in DOMAIN gone : gone[m] = documents[m]
      BY DEF Without
    <3> HIDE DEF gone
    <3>3. Sound(documents')
      BY <3>1, <3>2 DEF Sound, AreDocuments, Fits, Current
    <3>4. QED
      BY <1>1, <2>1, <2>2, <3>3
  <2>4. CASE disk[u] # None
    <3>1. disk[u] \in TextsOf(u)
      BY <2>4 DEF TextsFit
    <3>2. documents' = With(u, Document(disk[u], FALSE))
      BY <1>11, <2>4 DEF handleDidClose
    <3>3. Sound(documents')
      BY <3>1, <3>2, WithSound
    <3>4. QED
      BY <1>1, <2>1, <2>2, <3>3
  <2>5. QED
    BY <2>3, <2>4
<1>12. ASSUME NEW u \in Modules, DiskChanges(u)
       PROVE  AInv'
  <2>1. PICK text \in TextsOf(u) \cup {None} : disk' = [disk EXCEPT ![u] = text]
    BY <1>12 DEF DiskChanges
  <2>2. TextsFit'
    BY <1>12, <2>1 DEF DiskChanges, client, TextsFit, TextsOf
  <2>3. ClientDomains' /\ documents' = documents
    BY <1>12 DEF DiskChanges, client, server, ClientDomains
  <2>4. QED
    BY <1>1, <2>2, <2>3
<1>13. ASSUME NEW u \in Modules, PullDiagnostics(u)
       PROVE  AInv'
  <2>1. documents' = Diagnose(documents, {u})
    BY <1>13 DEF PullDiagnostics
  <2>2. Sound(documents')
    BY <2>1, DiagnoseSound
  <2>3. QED
    BY <1>3, <1>13, <2>2 DEF PullDiagnostics, ClientDomains
<1>14. ASSUME NEW u \in Modules, handleHover(u)
       PROVE  AInv'
  <2>1. Sound(documents')
    BY <1>14, ResolveSound DEF handleHover, Consult
  <2>2. QED
    BY <1>3, <1>14, <2>1 DEF handleHover, client, ClientDomains
<1>15. ASSUME NEW u \in Modules, handleSemanticTokens(u)
       PROVE  AInv'
  <2>1. Sound(documents')
    BY <1>2, <1>15, ColourSound DEF handleSemanticTokens
  <2>2. QED
    BY <1>3, <1>15, <2>1 DEF handleSemanticTokens, Answered, ClientDomains
<1>16. ASSUME NEW u \in Modules, handleSemanticTokensDelta(u)
       PROVE  AInv'
  <2>1. Sound(documents')
    BY <1>2, <1>16, ColourSound DEF handleSemanticTokensDelta
  <2>2. UNCHANGED <<editor, disk>> /\ ClientDomains'
    BY <1>16 DEF handleSemanticTokensDelta, Answered, ClientDomains
  <2>3. QED
    BY <1>3, <2>1, <2>2
<1>17. CASE UNCHANGED vars
  BY <1>3, <1>17 DEF vars, client, server, ClientDomains
<1>18. QED
  BY <1>4, <1>5, <1>6, <1>8, <1>9, <1>10, <1>11, <1>12, <1>13, <1>14, <1>15, <1>16, <1>17
     DEF Next

(* The diagnostics published for an edit are of the new text, and take     *)
(* every imported module as it reads at that moment.                       *)
THEOREM EditsAreDiagnosed ==
  Spec => EditedDiagnosticsFresh
<1>1. ASSUME AInv, [Next]_vars, NEW u \in Modules, editor'[u] # None, editor'[u] # editor[u]
      PROVE  ShowsFresh(u, editor'[u])
  <2>1. editor \in [Modules -> Texts \cup {None}]
    BY <1>1 DEF AInv, TextsFit
  <2>2. ASSUME NEW m \in Modules, handleDidOpen(m) \/ handleDidChange(m)
        PROVE  ShowsFresh(u, editor'[u])
    <3>1. PICK text \in TextsOf(m) : SetTextAndPublish(m, text)
      BY <2>2 DEF handleDidOpen, handleDidChange
    <3>2. disk' = disk
      BY <2>2 DEF handleDidOpen, handleDidChange
    <3>3. editor' = [editor EXCEPT ![m] = text]
      BY <1>1, <3>1, SetTextSound
    <3>4. m = u /\ editor'[u] = text
      BY <1>1, <2>1, <3>3
    <3>5. QED
      BY <1>1, <3>1, <3>2, <3>4, SetTextShowsFresh
  <2>3. ASSUME NEW m \in Modules, handleDidSave(m) \/ handleDidClose(m)
        PROVE  FALSE
    <3>1. \/ editor' = [editor EXCEPT ![m] = editor[m]]
          \/ editor' = [editor EXCEPT ![m] = None]
      BY <2>3 DEF handleDidSave, handleDidClose, SetTextAndPublish
    <3>2. QED
      BY <1>1, <2>1, <3>1
  <2>4. editor' # editor
    BY <1>1
  <2>5. ~ handleInitialize /\ ~ WatchedFilesChanged /\ ~ WorkspaceDiagnostic /\ ~ UNCHANGED vars
    BY <2>4 DEF handleInitialize, WatchedFilesChanged, WorkspaceDiagnostic, vars, client
  <2>6. ASSUME NEW m \in Modules
        PROVE  /\ ~ DiskChanges(m) /\ ~ PullDiagnostics(m) /\ ~ handleHover(m)
               /\ ~ handleSemanticTokens(m) /\ ~ handleSemanticTokensDelta(m)
    BY <2>4 DEF DiskChanges, PullDiagnostics, handleHover, handleSemanticTokens,
                handleSemanticTokensDelta, client
  <2>7. QED
    BY <1>1, <2>2, <2>3, <2>5, <2>6 DEF Next
<1>2. AInv /\ [Next]_vars =>
        [\A u \in Modules :
           editor'[u] # None /\ editor'[u] # editor[u] =>
             /\ shown'[u].text = editor'[u]
             /\ DOMAIN shown'[u].deps = ImportsOf(documents, u)'
             /\ \A i \in DOMAIN shown'[u].deps :
                  shown'[u].deps[i].text = TextOf(documents, i)']_vars
  BY <1>1 DEF ShowsFresh
<1>3. QED
  BY AInit, ASteps, <1>2, PTL DEF Spec, EditedDiagnosticsFresh
-----------------------------------------------------------------------------
(* Result ids are handed out in order, and every delta that did not fit    *)
(* left one result more.                                                   *)
IsSequence(s) == \E S : s \in Seq(S)

(* What is true of the tokens of one module.                               *)
ModuleOK(u) ==
  /\ snapshots[u] # None => snapshots[u].id \in Nat /\ snapshots[u].id < counter
  /\ tokens[u] # None =>
       /\ tokens[u].id \in Nat /\ tokens[u].id < counter
       /\ IsSequence(tokens[u].data) /\ tokens[u].stale \in Nat
       /\ Len(tokens[u].data) = 1 + tokens[u].stale
  /\ Agree(u) =>
       /\ Head(tokens[u].data) = snapshots[u].data
       /\ snapshots[u].data.own.text = editor[u]

TInv == AInv /\ counter \in Nat /\ \A u \in Modules : ModuleOK(u)

(* The sequences a delta makes.                                            *)
LEMMA Inserted ==
  ASSUME NEW s, IsSequence(s), NEW d
  PROVE  /\ IsSequence(<<d>> \o s) /\ Head(<<d>> \o s) = d
         /\ Len(<<d>> \o s) = 1 + Len(s)
<1>1. PICK S : s \in Seq(S)
  BY DEF IsSequence
<1>2. s \in Seq(S \cup {d}) /\ <<d>> \in Seq(S \cup {d}) /\ Len(<<d>>) = 1
  BY <1>1
<1>3. <<d>> \o s \in Seq(S \cup {d})
  BY <1>2
<1> QED
  BY <1>2, <1>3 DEF IsSequence

LEMMA Shortened ==
  ASSUME NEW s, IsSequence(s), Len(s) # 0
  PROVE  IsSequence(Tail(s)) /\ Len(s) = 1 + Len(Tail(s))
<1>1. PICK S : s \in Seq(S)
  BY DEF IsSequence
<1>2. Tail(s) \in Seq(S) /\ Len(s) = 1 + Len(Tail(s))
  BY <1>1
<1> QED
  BY <1>2 DEF IsSequence

(* An answer with the tokens of the editor's text, under a new id.         *)
LEMMA AnswerOK ==
  ASSUME TInv, AInv', NEW u \in Modules, NEW data, Answered(u, data),
         NEW held, IsSequence(held), Head(held) = data,
         NEW n \in Nat, Len(held) = 1 + n,
         tokens' = [tokens EXCEPT ![u] = [id |-> counter, data |-> held, stale |-> n]],
         data.own.text = editor[u], editor' = editor
  PROVE  TInv'
<1>1. counter \in Nat /\ \A m \in Modules : ModuleOK(m)
  BY DEF TInv
<1>2. DOMAIN tokens = Modules /\ DOMAIN snapshots = Modules
  BY DEF TInv, AInv, ClientDomains
<1>3. counter' = counter + 1 /\ counter' \in Nat
  BY <1>1 DEF Answered
<1>4. ModuleOK(u)'
  <2>1. tokens'[u] = [id |-> counter, data |-> held, stale |-> n]
    BY <1>2
  <2>2. snapshots'[u] = [id |-> counter, data |-> data]
    BY <1>2 DEF Answered
  <2>3. QED
    BY <1>1, <1>3, <2>1, <2>2 DEF ModuleOK, Agree
<1>5. ASSUME NEW m \in Modules, m # u
      PROVE  ModuleOK(m)'
  <2>1. tokens'[m] = tokens[m] /\ snapshots'[m] = snapshots[m]
    BY <1>2, <1>5 DEF Answered
  <2>2. ModuleOK(m)
    BY <1>1
  <2>3. QED
    BY <1>1, <1>3, <2>1, <2>2 DEF ModuleOK, Agree
<1>6. QED
  <2>1. \A m \in Modules : ModuleOK(m)'
    BY <1>4, <1>5
  <2>2. QED
    BY <1>3, <2>1 DEF TInv

(* Tokens and snapshot of u are forgotten, or only its snapshot.           *)
LEMMA ForgettingOK ==
  ASSUME TInv, AInv', NEW u \in Modules, NEW text, counter' = counter,
         editor' = [editor EXCEPT ![u] = text], snapshots' = [snapshots EXCEPT ![u] = None],
         tokens' = tokens \/ tokens' = [tokens EXCEPT ![u] = None]
  PROVE  TInv'
<1>1. counter \in Nat /\ \A m \in Modules : ModuleOK(m)
  BY DEF TInv
<1>2. DOMAIN tokens = Modules /\ DOMAIN snapshots = Modules /\ DOMAIN editor = Modules
  BY DEF TInv, AInv, ClientDomains, TextsFit
<1>3. ModuleOK(u)'
  <2>1. snapshots'[u] = None /\ (tokens'[u] = tokens[u] \/ tokens'[u] = None)
    BY <1>2
  <2>2. ModuleOK(u)
    BY <1>1
  <2>3. QED
    BY <2>1, <2>2 DEF ModuleOK, Agree
<1>4. ASSUME NEW m \in Modules, m # u
      PROVE  ModuleOK(m)'
  <2>1. tokens'[m] = tokens[m] /\ snapshots'[m] = snapshots[m] /\ editor'[m] = editor[m]
    BY <1>2, <1>4
  <2>2. ModuleOK(m)
    BY <1>1
  <2>3. QED
    BY <2>1, <2>2 DEF ModuleOK, Agree
<1>5. QED
  <2>1. \A m \in Modules : ModuleOK(m)'
    BY <1>3, <1>4
  <2>2. QED
    BY <1>1, <2>1 DEF TInv

LEMMA TSteps == TInv /\ [Next]_vars => TInv'
<1> SUFFICES ASSUME TInv, [Next]_vars PROVE TInv'
  OBVIOUS
<1>1. AInv /\ AInv'
  BY ASteps DEF TInv
<1>2. \A u \in Modules :
        editor[u] # None => u \in DOMAIN documents /\ documents[u].text = editor[u]
  BY <1>1 DEF AInv, IInv, OpenTextIsEditors
<1>3. ASSUME UNCHANGED <<editor, tokens, snapshots, counter>>
      PROVE  TInv'
  BY <1>1, <1>3 DEF TInv, ModuleOK, Agree
<1>4. CASE handleInitialize
  BY <1>3, <1>4 DEF handleInitialize, client
<1>5. CASE WatchedFilesChanged
  BY <1>3, <1>5 DEF WatchedFilesChanged, client
<1>6. CASE WorkspaceDiagnostic
  BY <1>3, <1>6 DEF WorkspaceDiagnostic, client
<1>7. ASSUME NEW u \in Modules, NEW text, SetTextAndPublish(u, text)
      PROVE  TInv'
  BY <1>1, <1>7, ForgettingOK DEF SetTextAndPublish
<1>8. ASSUME NEW u \in Modules, handleDidOpen(u) \/ handleDidChange(u) \/ handleDidSave(u)
      PROVE  TInv'
  BY <1>7, <1>8 DEF handleDidOpen, handleDidChange, handleDidSave
<1>9. ASSUME NEW u \in Modules, handleDidClose(u)
      PROVE  TInv'
  BY <1>1, <1>9, ForgettingOK DEF handleDidClose
<1>10. ASSUME NEW u \in Modules, DiskChanges(u) \/ PullDiagnostics(u) \/ handleHover(u)
       PROVE  TInv'
  BY <1>3, <1>10 DEF DiskChanges, PullDiagnostics, handleHover, client, server
<1>11. ASSUME NEW u \in Modules, editor[u] # None, documents' = Colour(documents, u)
       PROVE  documents'[u].toks.own.text = editor[u]
  BY <1>1, <1>2, <1>11, ColourSound DEF AInv
<1>12. ASSUME NEW u \in Modules, handleSemanticTokens(u)
       PROVE  TInv'
  <2> DEFINE data == documents'[u].toks
  <2>1. data.own.text = editor[u]
    BY <1>11, <1>12 DEF handleSemanticTokens
  <2>2. /\ Answered(u, data) /\ editor' = editor
        /\ tokens' = [tokens EXCEPT ![u] = [id |-> counter, data |-> <<data>>, stale |-> 0]]
    BY <1>12 DEF handleSemanticTokens
  <2> HIDE DEF data
  <2>3. <<data>> \in Seq({data}) /\ Head(<<data>>) = data /\ Len(<<data>>) = 1 + 0
    OBVIOUS
  <2>4. QED
    BY <1>1, <2>1, <2>2, <2>3, AnswerOK DEF IsSequence
<1>13. ASSUME NEW u \in Modules, handleSemanticTokensDelta(u)
       PROVE  TInv'
  <2> DEFINE data == documents'[u].toks
             known == snapshots[u] # None /\ snapshots[u].id = tokens[u].id
             edited == IF known /\ snapshots[u].data = data THEN tokens[u].data
                       ELSE <<data>> \o (IF known THEN Tail(tokens[u].data)
                                         ELSE tokens[u].data)
             n == IF known THEN tokens[u].stale ELSE tokens[u].stale + 1
  <2>1. data.own.text = editor[u]
    BY <1>11, <1>13 DEF handleSemanticTokensDelta
  <2>2. /\ Answered(u, data) /\ editor' = editor /\ tokens[u] # None
        /\ tokens' = [tokens EXCEPT ![u] = [id |-> counter, data |-> edited, stale |-> n]]
    <3>1. DOMAIN tokens = Modules
      BY DEF TInv, AInv, ClientDomains
    <3>2. QED
      BY <1>13, <3>1 DEF handleSemanticTokensDelta
  <2>3. /\ IsSequence(tokens[u].data) /\ tokens[u].stale \in Nat
        /\ Len(tokens[u].data) = 1 + tokens[u].stale
        /\ known => Head(tokens[u].data) = snapshots[u].data
    BY <2>2 DEF TInv, ModuleOK, Agree
  <2>4. n \in Nat
    BY <2>3
  <2> HIDE DEF data
  <2>5. IsSequence(edited) /\ Head(edited) = data /\ Len(edited) = 1 + n
    <3>1. CASE known /\ snapshots[u].data = data
      BY <2>3, <3>1
    <3>2. CASE known /\ snapshots[u].data # data
      <4> DEFINE rest == Tail(tokens[u].data)
      <4>1. Len(tokens[u].data) # 0
        BY <2>3
      <4>2. IsSequence(rest) /\ Len(tokens[u].data) = 1 + Len(rest)
        BY <2>3, <4>1, Shortened
      <4> HIDE DEF rest
      <4>3. IsSequence(<<data>> \o rest) /\ Head(<<data>> \o rest) = data
            /\ Len(<<data>> \o rest) = 1 + Len(rest)
        BY <4>2, Inserted
      <4> QED
        BY <2>3, <3>2, <4>2, <4>3 DEF rest
    <3>3. CASE ~known
      <4>1. /\ IsSequence(<<data>> \o tokens[u].data)
            /\ Head(<<data>> \o tokens[u].data) = data
            /\ Len(<<data>> \o tokens[u].data) = 1 + Len(tokens[u].data)
        BY <2>3, Inserted
      <4> QED
        BY <2>3, <3>3, <4>1
    <3> QED
      BY <3>1, <3>2, <3>3
  <2> HIDE DEF edited, n
  <2>6. QED
    BY <1>1, <2>1, <2>2, <2>4, <2>5, AnswerOK
<1>14. CASE UNCHANGED vars
  BY <1>3, <1>14 DEF vars, client, server
<1>15. QED
  BY <1>4, <1>5, <1>6, <1>8, <1>9, <1>10, <1>12, <1>13, <1>14 DEF Next

(* An editor and a server that agree on a result id agree on the tokens    *)
(* behind it, these are the tokens of the text in the editor, and what     *)
(* else the editor holds are the results that deltas to forgotten ones     *)
(* left behind.                                                            *)
THEOREM TokensAnswered == Spec => []TokensAsAnswered
<1>1. Init => TInv
  <2> SUFFICES ASSUME Init PROVE TInv
    OBVIOUS
  <2>1. counter = 1 /\ \A u \in Modules : tokens[u] = None /\ snapshots[u] = None
    BY DEF Init
  <2>2. QED
    BY <2>1, AInit DEF TInv, ModuleOK, Agree
<1>2. TInv /\ [Next]_vars => TInv'
  BY TSteps
<1>3. TInv => TokensAsAnswered
  BY DEF TInv, ModuleOK, Agree, TokensAsAnswered
<1>4. QED
  BY <1>1, <1>2, <1>3, PTL DEF Spec
-----------------------------------------------------------------------------
(* Induction over the places of a sequence.                                *)
LEMMA Upwards ==
  ASSUME NEW N \in Nat, NEW S, 0 \in S, \A n \in 1..N : n - 1 \in S => n \in S
  PROVE  \A n \in 0..N : n \in S
<1> DEFINE bad == {n \in 0..N : n \notin S}
<1> SUFFICES ASSUME bad # {} PROVE FALSE
  OBVIOUS
<1>1. bad \in SUBSET Nat
  OBVIOUS
<1>2. PICK m \in bad : \A n \in bad : m <= n
  <2> HIDE DEF bad
  <2> QED
    BY <1>1, LeastNumber
<1>3. m \in 1..N /\ m - 1 \in 0..N /\ m - 1 \notin bad
  BY <1>2
<1> QED
  BY <1>2, <1>3

LEMMA GreatestNumber ==
  ASSUME NEW N \in Nat, NEW S \in SUBSET (0..N), S # {}
  PROVE  \E m \in S : \A n \in S : n <= m
<1> DEFINE above == {k \in Nat : \A n \in S : n <= k}
<1>1. above \in SUBSET Nat /\ N \in above
  OBVIOUS
<1>2. PICK m \in above : \A k \in above : m <= k
  <2> HIDE DEF above
  <2> QED
    BY <1>1, LeastNumber
<1>3. CASE m = 0
  <2>1. PICK n \in S : n \in 0..N
    OBVIOUS
  <2>2. \A k \in S : k <= m
    BY <1>2
  <2>3. n = m
    BY <1>3, <2>1, <2>2
  <2> QED
    BY <2>2, <2>3
<1>4. CASE m # 0 /\ m \notin S
  <2>1. m - 1 \in Nat
    BY <1>2, <1>4
  <2>2. m - 1 \in above
    BY <2>1, <1>2, <1>4
  <2> QED
    BY <2>2, <2>1, <1>2
<1> QED
  BY <1>2, <1>3, <1>4
-----------------------------------------------------------------------------
(* Columns are bytes: every character has one unit and one byte.           *)
OneByte == \A c \in Chars : Units[c] = 1 /\ Width[c] = 1

ByteOf(c) == [char |-> c, nth |-> 1]
Encoded(text) == [k \in 1..Len(text) |-> ByteOf(text[k])]

LEMMA EncodeIs ==
  ASSUME OneByte, NEW text \in Seq(Chars)
  PROVE  Text!Encode(text) = Encoded(text)
<1> DEFINE Good(f) == f = [n \in 0..Len(text) |->
                             IF n = 0 THEN <<>> ELSE f[n - 1] \o Text!BytesOf(text[n])]
           h == [n \in 0..Len(text) |-> [k \in 1..n |-> ByteOf(text[k])]]
<1>1. Text!Encode(text) = (CHOOSE f : Good(f))[Len(text)]
  BY Zenon DEF Text!Encode
<1>2. \A n \in 1..Len(text) : h[n] = h[n - 1] \o Text!BytesOf(text[n])
  <2> TAKE n \in 1..Len(text)
  <2>1. Text!BytesOf(text[n]) = <<ByteOf(text[n])>>
    <3>1. text[n] \in Chars
      OBVIOUS
    <3>2. Width[text[n]] = 1
      BY <3>1 DEF OneByte
    <3> QED
      BY <3>2 DEF Text!BytesOf, ByteOf
  <2>2. n - 1 \in 0..Len(text) /\ n \in 0..Len(text) /\ n \in Nat /\ n # 0
    OBVIOUS
  <2>3. [k \in 1..n |-> ByteOf(text[k])] = [k \in 1..(n - 1) |-> ByteOf(text[k])] \o <<ByteOf(text[n])>>
    <3> DEFINE v(k) == ByteOf(text[k])
    <3> HIDE DEF v
    <3>1. [k \in 1..n |-> v(k)] = [k \in 1..(n - 1) |-> v(k)] \o <<v(n)>>
      BY <2>2
    <3> QED
      BY <3>1 DEF v
  <2> QED
    BY <2>1, <2>2, <2>3
<1>3. h[0] = <<>>
  OBVIOUS
<1>4. Good(h)
  <2>1. h = [n \in 0..Len(text) |-> h[n]]
    OBVIOUS
  <2> HIDE DEF h
  <2>2. \A n \in 0..Len(text) : n = 0 \/ n \in 1..Len(text)
    OBVIOUS
  <2> QED
    BY <1>2, <1>3, <2>1, <2>2
<1> DEFINE g == CHOOSE f : Good(f)
<1>5. Good(g)
  <2> HIDE DEF Good, h
  <2> QED
    BY <1>4
<1> HIDE DEF g
<1>7. Len(text) \in Nat /\ Len(text) \in 0..Len(text)
  OBVIOUS
<1> DEFINE S == {i \in 0..Len(text) : g[i] = h[i]}
<1>6. \A n \in 0..Len(text) : n \in S
  <2>1. 0 \in S
    BY <1>3, <1>5
  <2>2. \A n \in 1..Len(text) : n - 1 \in S => n \in S
    <3> TAKE n \in 1..Len(text)
    <3> HAVE n - 1 \in S
    <3>1. n \in 0..Len(text) /\ n # 0 /\ g[n - 1] = h[n - 1]
      OBVIOUS
    <3> HIDE DEF h
    <3>2. g[n] = g[n - 1] \o Text!BytesOf(text[n])
      BY <1>5, <3>1
    <3> QED
      BY <1>2, <3>1, <3>2
  <2> HIDE DEF S
  <2> QED
    BY <1>7, <2>1, <2>2, Upwards
<1>8. h[Len(text)] = Encoded(text)
  BY <1>7 DEF Encoded
<1> HIDE DEF h
<1>9. g[Len(text)] = h[Len(text)]
  BY <1>6, <1>7
<1> QED
  BY <1>1, <1>8, <1>9 DEF g

LEMMA UnitsAre ==
  ASSUME OneByte, NEW text \in Seq(Chars)
  PROVE  Text!UnitsIn(text) = Len(text)
<1> DEFINE Good(f) == f = [n \in 0..Len(text) |->
                             IF n = 0 THEN 0 ELSE f[n - 1] + Units[text[n]]]
           h == [n \in 0..Len(text) |-> n]
<1>1. Text!UnitsIn(text) = (CHOOSE f : Good(f))[Len(text)]
  BY Zenon DEF Text!UnitsIn
<1>2. \A n \in 1..Len(text) : h[n] = h[n - 1] + Units[text[n]]
  <2> TAKE n \in 1..Len(text)
  <2>1. text[n] \in Chars
    OBVIOUS
  <2>2. Units[text[n]] = 1
    BY <2>1 DEF OneByte
  <2> QED
    BY <2>2
<1>4. Good(h)
  <2>1. h = [n \in 0..Len(text) |-> h[n]] /\ h[0] = 0
    OBVIOUS
  <2> HIDE DEF h
  <2>2. \A n \in 0..Len(text) : n = 0 \/ n \in 1..Len(text)
    OBVIOUS
  <2> QED
    BY <1>2, <2>1, <2>2
<1> DEFINE g == CHOOSE f : Good(f)
<1>5. Good(g)
  <2> HIDE DEF Good, h
  <2> QED
    BY <1>4
<1> HIDE DEF g
<1>7. Len(text) \in Nat /\ Len(text) \in 0..Len(text)
  OBVIOUS
<1> DEFINE S == {i \in 0..Len(text) : g[i] = h[i]}
<1>6. \A n \in 0..Len(text) : n \in S
  <2>1. 0 \in S
    BY <1>5
  <2>2. \A n \in 1..Len(text) : n - 1 \in S => n \in S
    <3> TAKE n \in 1..Len(text)
    <3> HAVE n - 1 \in S
    <3>1. n \in 0..Len(text) /\ n # 0 /\ g[n - 1] = h[n - 1]
      OBVIOUS
    <3> HIDE DEF h
    <3>2. g[n] = g[n - 1] + Units[text[n]]
      BY <1>5, <3>1
    <3>3. g[n] = h[n]
      BY <1>2, <3>1, <3>2
    <3> QED
      BY <3>1, <3>3
  <2> HIDE DEF S
  <2> QED
    BY <1>7, <2>1, <2>2, Upwards
<1>8. h[Len(text)] = Len(text)
  BY <1>7
<1> HIDE DEF h
<1>9. g[Len(text)] = h[Len(text)]
  BY <1>6, <1>7
<1> QED
  BY <1>1, <1>8, <1>9 DEF g
-----------------------------------------------------------------------------
(* Lines end at the places E of a text of N; a place o is on the line that *)
(* begins behind the last end that is not behind o.                        *)
Ends(E, o) == {i \in E : i <= o}
LineStart(E, o) ==
  IF Ends(E, o) = {} THEN 0 ELSE CHOOSE i \in Ends(E, o) : \A j \in Ends(E, o) : j <= i
Lines(E, n) == IF n = 0 THEN {0} ELSE {i \in E : Cardinality(Ends(E, i)) = n}

(* A set is counted in TextSync as it is here.                             *)
LEMMA CountIs == \A S : Text!Cardinality(S) = Cardinality(S)
BY Zenon DEF Text!Cardinality, Cardinality

LEMMA EndsAre ==
  ASSUME NEW N \in Nat, NEW E \in SUBSET (1..N), NEW o \in 0..N
  PROVE  /\ \A i : i \in Ends(E, o) <=> i \in E /\ i <= o
         /\ \A i \in E : i \in 1..N /\ i \in Nat
         /\ Ends(E, o) \in SUBSET (0..o) /\ Ends(E, o) \in SUBSET (1..N)
<1>1. \A i : i \in Ends(E, o) <=> i \in E /\ i <= o
  BY DEF Ends
<1>2. \A i \in E : i \in 1..N /\ i \in Nat
  OBVIOUS
<1>3. ASSUME NEW i \in Ends(E, o) PROVE i \in 0..o /\ i \in 1..N
  <2>2. i \in E /\ i <= o
    BY <1>1, <1>3
  <2>1. i \in Nat /\ i <= o /\ i \in 1..N /\ o \in Nat
    BY <1>2, <2>2
  <2> QED
    BY <2>1
<1> QED
  BY <1>1, <1>2, <1>3

LEMMA LineStartIs ==
  ASSUME NEW N \in Nat, NEW E \in SUBSET (1..N), NEW o \in 0..N
  PROVE  /\ LineStart(E, o) \in 0..o
         /\ Ends(E, o) = {} => LineStart(E, o) = 0
         /\ Ends(E, o) # {} => LineStart(E, o) \in Ends(E, o)
         /\ \A j \in Ends(E, o) : j <= LineStart(E, o)
<1>1. CASE Ends(E, o) = {}
  BY <1>1 DEF LineStart
<1>2. CASE Ends(E, o) # {}
  <2>1. Ends(E, o) \in SUBSET (0..o) /\ o \in Nat
    BY EndsAre
  <2>2. \E m \in Ends(E, o) : \A n \in Ends(E, o) : n <= m
    BY <1>2, <2>1, GreatestNumber
  <2>3. LineStart(E, o) = CHOOSE i \in Ends(E, o) : \A j \in Ends(E, o) : j <= i
    BY <1>2 DEF LineStart
  <2>4. /\ LineStart(E, o) \in Ends(E, o)
        /\ \A j \in Ends(E, o) : j <= LineStart(E, o)
    BY <2>2, <2>3
  <2> QED
    BY <1>2, <2>1, <2>4
<1> QED
  BY <1>1, <1>2

LEMMA EndsCount ==
  ASSUME NEW N \in Nat, NEW E \in SUBSET (1..N), NEW o \in 0..N
  PROVE  /\ IsFiniteSet(Ends(E, o)) /\ Cardinality(Ends(E, o)) \in Nat
         /\ Cardinality(Ends(E, o)) = 0 <=> Ends(E, o) = {}
         /\ \A T \in SUBSET Ends(E, o) :
              Cardinality(T) = Cardinality(Ends(E, o)) => T = Ends(E, o)
<1>1. Ends(E, o) \in SUBSET (1..N)
  BY EndsAre
<1> HIDE DEF Ends
<1>6. 1 \in Int /\ N \in Int
  OBVIOUS
<1>7. IsFiniteSet(1..N)
  BY <1>6, FS_Interval
<1>2. IsFiniteSet(Ends(E, o))
  BY <1>1, <1>7, FS_Subset
<1>3. Cardinality(Ends(E, o)) \in Nat
  BY <1>2, FS_CardinalityType
<1>4. Cardinality(Ends(E, o)) = 0 <=> Ends(E, o) = {}
  BY <1>2, FS_EmptySet
<1>5. ASSUME NEW T \in SUBSET Ends(E, o), Cardinality(T) = Cardinality(Ends(E, o))
      PROVE  T = Ends(E, o)
  BY <1>2, <1>5, FS_Subset
<1> QED
  BY <1>2, <1>3, <1>4, <1>5

LEMMA LineFound ==
  ASSUME NEW N \in Nat, NEW E \in SUBSET (1..N), NEW o \in 0..N
  PROVE  Lines(E, Cardinality(Ends(E, o))) = {LineStart(E, o)}
<1> DEFINE s == LineStart(E, o)
           n == Cardinality(Ends(E, o))
<1>1. CASE Ends(E, o) = {}
  BY <1>1, LineStartIs, EndsCount DEF Lines
<1>2. CASE Ends(E, o) # {}
  <2>1. s \in Ends(E, o) /\ (\A j \in Ends(E, o) : j <= s) /\ n # 0
    BY <1>2, LineStartIs, EndsCount
  <2>2. s \in E /\ s <= o /\ s \in 0..N
    <3>1. s \in E /\ s <= o
      BY <2>1, EndsAre
    <3>2. \A i \in E : i \in 0..N
      OBVIOUS
    <3> QED
      BY <3>1, <3>2
  <2>3. Ends(E, s) = Ends(E, o)
    <3>1. \A i \in E : i <= s <=> i <= o
      BY <2>1, <2>2, EndsAre
    <3> QED
      BY <3>1 DEF Ends
  <2>4. ASSUME NEW i \in E, Cardinality(Ends(E, i)) = n
        PROVE  i = s
    <3>1. i \in 0..N /\ i \in Ends(E, i) /\ \A j \in E : j \in Nat
      BY EndsAre DEF Ends
    <3>2. CASE i <= o
      <4>1. Ends(E, i) \in SUBSET Ends(E, o)
        <5>1. \A j \in E : j <= i => j <= o
          BY <3>1, <3>2
        <5> QED
          BY <5>1 DEF Ends
      <4>2. Ends(E, i) = Ends(E, o)
        BY <2>4, <4>1, EndsCount
      <4>3. s <= i /\ i <= s
        BY <2>1, <3>1, <4>2 DEF Ends
      <4> QED
        BY <2>2, <3>1, <4>3
    <3>3. CASE ~ (i <= o)
      <4>1. Ends(E, o) \in SUBSET Ends(E, i)
        <5>1. \A j \in E : j <= o => j <= i
          BY <3>1, <3>3
        <5> QED
          BY <5>1 DEF Ends
      <4>2. Ends(E, i) = Ends(E, o)
        BY <2>4, <3>1, <4>1, EndsCount
      <4>3. i \in Ends(E, o)
        BY <3>1, <4>2
      <4> QED
        BY <3>3, <4>3 DEF Ends
    <3> QED
      BY <3>2, <3>3
  <2>5. {i \in E : Cardinality(Ends(E, i)) = n} = {s}
    BY <2>2, <2>3, <2>4
  <2> QED
    BY <2>1, <2>5 DEF Lines
<1> QED
  BY <1>1, <1>2

(* The places of a text where a line ends.                                 *)
EndsOf(t) == {i \in 1..Len(t) : Text!IsEnd(t[i])}

LEMMA PositionIs ==
  ASSUME NEW t, Len(t) \in Nat, NEW o \in 0..Len(t)
  PROVE  /\ Text!positionFromOffset(t, o).line = Cardinality(Ends(EndsOf(t), o))
         /\ Text!positionFromOffset(t, o).character = o - LineStart(EndsOf(t), o)
<1> DEFINE x == {i \in 1..o : Text!IsEnd(t[i])}
<1>1. x = Ends(EndsOf(t), o)
  BY DEF Ends, EndsOf
<1>2. Text!positionFromOffset(t, o) =
        [line |-> Cardinality(x),
         character |-> o - (IF x = {} THEN 0 ELSE CHOOSE i \in x : \A j \in x : j <= i)]
  BY CountIs DEF Text!positionFromOffset
<1> HIDE DEF x
<1> QED
  BY <1>1, <1>2 DEF LineStart

(* The place that a line and a column stand for.                           *)
LEMMA OffsetIs ==
  ASSUME NEW t, Len(t) \in Nat, NEW o \in 0..Len(t)
  PROVE  Text!offsetFromPosition(t, Cardinality(Ends(EndsOf(t), o)),
                                    o - LineStart(EndsOf(t), o)) = o
<1> DEFINE E == EndsOf(t)
           N == Len(t)
           s == LineStart(E, o)
           behind == {i - 1 : i \in {j \in E : j > s}} \cup {N}
           last == CHOOSE i \in behind : \A j \in behind : i <= j
<1>1. E \in SUBSET (1..N)
  BY DEF EndsOf
<1>2. s \in 0..o /\ \A j \in Ends(E, o) : j <= s
  BY <1>1, LineStartIs
<1>3. behind \in SUBSET Nat /\ N \in behind
  BY <1>1
<1>4. last \in behind
  <2> HIDE DEF behind
  <2>1. \E i \in behind : \A j \in behind : i <= j
    BY <1>3, LeastNumber
  <2> QED
    BY <2>1
<1>5. \A i \in behind : i >= o
  <2>1. \A j \in E : j > s => j > o
    BY <1>1, <1>2 DEF Ends
  <2> QED
    BY <1>1, <2>1
<1>6. last \in Nat /\ last >= o
  <2> HIDE DEF behind
  <2> QED
    BY <1>3, <1>4, <1>5
<1>7. \A n : Lines(E, n) = IF n = 0 THEN {0} ELSE {i \in E : Cardinality({j \in E : j <= i}) = n}
  BY DEF Lines, Ends
<1>8. Lines(E, Cardinality(Ends(E, o))) = {s}
  BY <1>1, LineFound
<1>9. (CHOOSE i \in {s} : TRUE) = s
  OBVIOUS
<1> DEFINE line == Cardinality(Ends(E, o))
           start == IF line = 0 THEN {0} ELSE {i \in E : Cardinality({j \in E : j <= i}) = line}
<1>10. start = {s}
  BY <1>7, <1>8
<1>11. \A c : Text!offsetFromPosition(t, line, c) =
                s + (IF c < last - s THEN c ELSE last - s)
  <2> HIDE DEF line
  <2> TAKE c
  <2> DEFINE counted == IF line = 0 THEN {0}
                        ELSE {i \in E : Text!Cardinality({j \in E : j <= i}) = line}
             x == CHOOSE i \in counted : TRUE
             b == {i - 1 : i \in {j \in E : j > x}} \cup {N}
             l == CHOOSE i \in b : \A j \in b : i <= j
  <2>1. Text!offsetFromPosition(t, line, c) =
          IF counted = {} THEN Len(t) ELSE x + (IF c < l - x THEN c ELSE l - x)
    BY Zenon DEF Text!offsetFromPosition, EndsOf
  <2>4. counted = start
    BY CountIs
  <2> HIDE DEF counted, start
  <2>2. x = s /\ counted # {}
    BY <1>9, <1>10, <2>4
  <2> HIDE DEF x
  <2>3. l = last
    BY <2>2
  <2> HIDE DEF l, last
  <2> QED
    BY <2>1, <2>2, <2>3
<1> HIDE DEF last, line, s
<1>12. Text!offsetFromPosition(t, line, o - s) = s + (IF o - s < last - s THEN o - s ELSE last - s)
  BY <1>11
<1>13. s \in Int /\ o \in Int /\ last \in Int /\ last >= o
  BY <1>2, <1>6
<1>14. s + (IF o - s < last - s THEN o - s ELSE last - s) = o
  BY <1>13
<1> QED
  BY <1>12, <1>14 DEF line, s

(* A position computed from an offset leads back to it, in any text.       *)
LEMMA RoundTrip ==
  ASSUME NEW t, Len(t) \in Nat, NEW o \in 0..Len(t)
  PROVE  Text!offsetFromPosition(t, Text!positionFromOffset(t, o).line,
                                    Text!positionFromOffset(t, o).character) = o
BY PositionIs, OffsetIs
-----------------------------------------------------------------------------
(* The editor's positions, where columns are bytes.                        *)
LEMMA EncodedIs ==
  ASSUME NEW text \in Seq(Chars)
  PROVE  /\ Len(Encoded(text)) = Len(text) /\ Len(text) \in Nat
         /\ \A i \in 1..Len(text) : text[i] \in Chars /\ Encoded(text)[i] = ByteOf(text[i])
         /\ Encoded(text) \in Seq({ByteOf(c) : c \in Chars})
<1>1. Len(text) \in Nat /\ \A i \in 1..Len(text) : text[i] \in Chars
  OBVIOUS
<1>2. Len(Encoded(text)) = Len(text) /\ \A i \in 1..Len(text) : Encoded(text)[i] = ByteOf(text[i])
  BY <1>1 DEF Encoded
<1>3. Encoded(text) \in [1..Len(text) -> {ByteOf(c) : c \in Chars}]
  BY <1>1 DEF Encoded
<1> QED
  BY <1>1, <1>2, <1>3

LEMMA EndsEncoded ==
  ASSUME NEW text \in Seq(Chars), NEW o \in 0..Len(text)
  PROVE  {i \in 1..o : text[i] = Newline} = Ends(EndsOf(Encoded(text)), o)
<1>1. \A c : Text!IsEnd(ByteOf(c)) <=> c = Newline
  BY DEF Text!IsEnd, Text!LineEnd, ByteOf
<1>2. EndsOf(Encoded(text)) = {i \in 1..Len(text) : text[i] = Newline}
  BY <1>1, EncodedIs DEF EndsOf
<1>3. \A i : i \in 1..o <=> i \in 1..Len(text) /\ i <= o
  BY EncodedIs
<1> QED
  BY <1>2, <1>3 DEF Ends

LEMMA EditorPosition ==
  ASSUME OneByte, NEW text \in Seq(Chars), NEW o \in 0..Len(text)
  PROVE  /\ Text!Position(text, o).line = Cardinality(Ends(EndsOf(Encoded(text)), o))
         /\ Text!Position(text, o).character = o - LineStart(EndsOf(Encoded(text)), o)
<1> DEFINE x == {i \in 1..o : text[i] = Newline}
           E == EndsOf(Encoded(text))
           s == LineStart(E, o)
<1>1. x = Ends(E, o)
  BY EndsEncoded
<1>2. Text!LineStartOf(text, o) = IF x = {} THEN 0 ELSE CHOOSE i \in x : \A j \in x : j <= i
  BY DEF Text!LineStartOf
<1>3. Text!Position(text, o) =
        [line |-> Text!Cardinality(x),
         character |-> Text!UnitsIn(SubSeq(text, Text!LineStartOf(text, o) + 1, o))]
  BY DEF Text!Position
<1> HIDE DEF x
<1>4. Text!LineStartOf(text, o) = s
  BY <1>1, <1>2 DEF LineStart
<1>5. s \in 0..o
  <2>1. Len(text) \in Nat /\ E \in SUBSET (1..Len(text))
    BY EncodedIs DEF EndsOf
  <2> HIDE DEF E
  <2> QED
    BY <2>1, LineStartIs
<1> HIDE DEF s
<1>6. SubSeq(text, s + 1, o) \in Seq(Chars) /\ Len(SubSeq(text, s + 1, o)) = o - s
  BY <1>5, EncodedIs
<1>7. Text!UnitsIn(SubSeq(text, s + 1, o)) = o - s
  BY <1>6, UnitsAre
<1> QED
  BY <1>1, <1>3, <1>4, <1>7, CountIs DEF s

(* What r has where b replaces the places of a behind i up to j.           *)
Splices(r, S, a, b, i, j) ==
  /\ r \in Seq(S) /\ Len(r) = i + Len(b) + (Len(a) - j)
  /\ \A k \in 1..(i + Len(b) + (Len(a) - j)) :
       r[k] = IF k <= i THEN a[k]
              ELSE IF k <= i + Len(b) THEN b[k - i] ELSE a[k - i - Len(b) + j]

LEMMA ReplacedPlaces ==
  ASSUME NEW S, NEW a \in Seq(S), NEW b \in Seq(S), NEW i \in Nat, NEW j \in Nat,
         i <= j, j <= Len(a)
  PROVE  Splices(Text!Replaced(a, i, j, b), S, a, b, i, j)
<1> DEFINE x == SubSeq(a, 1, i)
           y == SubSeq(a, j + 1, Len(a))
<1>1. x \in Seq(S) /\ Len(x) = i /\ \A k \in 1..i : x[k] = a[k]
  OBVIOUS
<1>2. y \in Seq(S) /\ Len(y) = Len(a) - j /\ \A k \in 1..(Len(a) - j) : y[k] = a[k + j]
  OBVIOUS
<1>3. Text!Replaced(a, i, j, b) = (x \o b) \o y
  BY DEF Text!Replaced
<1> HIDE DEF x, y
<1>4. /\ x \o b \in Seq(S) /\ Len(x \o b) = i + Len(b)
      /\ \A k \in 1..(i + Len(b)) : (x \o b)[k] = IF k <= i THEN a[k] ELSE b[k - i]
  BY <1>1
<1> DEFINE z == x \o b
<1> HIDE DEF z
<1>5. /\ z \o y \in Seq(S) /\ Len(z \o y) = i + Len(b) + (Len(a) - j)
      /\ \A k \in 1..(i + Len(b) + (Len(a) - j)) :
           (z \o y)[k] = IF k <= i + Len(b) THEN z[k] ELSE a[k - i - Len(b) + j]
  <2>1. z \in Seq(S) /\ Len(z) = i + Len(b) /\ Len(b) \in Nat /\ Len(a) - j \in Nat
    BY <1>4 DEF z
  <2>2. z \o y \in Seq(S) /\ Len(z \o y) = i + Len(b) + (Len(a) - j)
    <3>1. z \o y \in Seq(S)
      BY <1>2, <2>1
    <3>3. z \in Seq(S) /\ y \in Seq(S)
      BY <1>2, <2>1
    <3>2. Len(z \o y) = Len(z) + Len(y)
      BY <3>3
    <3> QED
      BY <1>2, <2>1, <3>1, <3>2
  <2>3. ASSUME NEW k \in 1..(i + Len(b) + (Len(a) - j))
        PROVE  (z \o y)[k] = IF k <= i + Len(b) THEN z[k] ELSE a[k - i - Len(b) + j]
    <3>1. k <= i + Len(b) => (z \o y)[k] = z[k]
      BY <1>2, <2>1
    <3>2. ~ (k <= i + Len(b)) => (z \o y)[k] = y[k - (i + Len(b))]
                                 /\ k - (i + Len(b)) \in 1..(Len(a) - j)
      BY <1>2, <2>1
    <3>3. (k - (i + Len(b))) + j = k - i - Len(b) + j
      BY <2>1
    <3> QED
      BY <1>2, <3>1, <3>2, <3>3
  <2> QED
    BY <2>2, <2>3
<1>6. ASSUME NEW k \in 1..(i + Len(b) + (Len(a) - j))
      PROVE  (z \o y)[k] = IF k <= i THEN a[k]
                ELSE IF k <= i + Len(b) THEN b[k - i] ELSE a[k - i - Len(b) + j]
  <2>1. Len(b) \in Nat /\ k \in Nat /\ k >= 1
    OBVIOUS
  <2>2. k <= i => k <= i + Len(b)
    BY <2>1
  <2>3. k <= i + Len(b) => z[k] = IF k <= i THEN a[k] ELSE b[k - i]
    BY <1>4, <2>1 DEF z
  <2> QED
    BY <1>5, <2>2, <2>3
<1> QED
  BY <1>3, <1>5, <1>6 DEF z, Splices

LEMMA ReplacedIs ==
  ASSUME NEW text \in Seq(Chars), NEW i \in Nat, NEW j \in Nat, i <= j, j <= Len(text),
         NEW new \in Seq(Chars)
  PROVE  /\ Text!Replaced(text, i, j, new) \in Seq(Chars)
         /\ Text!Replaced(Encoded(text), i, j, Encoded(new)) =
              Encoded(Text!Replaced(text, i, j, new))
<1> DEFINE n == Len(text)
           m == Len(new)
           S == {ByteOf(c) : c \in Chars}
           R == Text!Replaced(text, i, j, new)
           B == Text!Replaced(Encoded(text), i, j, Encoded(new))
           N == i + m + (n - j)
<1> HIDE DEF n, m, S, R, B
<1>1. n \in Nat /\ m \in Nat /\ i <= j /\ j <= n
  BY EncodedIs DEF n, m
<1>2. /\ R \in Seq(Chars) /\ Len(R) = N
      /\ \A k \in 1..N : R[k] = IF k <= i THEN text[k]
                                 ELSE IF k <= i + m THEN new[k - i] ELSE text[k - i - m + j]
  <2>1. Splices(R, Chars, text, new, i, j)
    BY ReplacedPlaces DEF R
  <2> QED
    BY <2>1 DEF Splices, n, m, N
<1>3. /\ Encoded(text) \in Seq(S) /\ Len(Encoded(text)) = n
      /\ Encoded(new) \in Seq(S) /\ Len(Encoded(new)) = m
  BY EncodedIs DEF n, m, S
<1>4. /\ B \in Seq(S) /\ Len(B) = N
      /\ \A k \in 1..N : B[k] = IF k <= i THEN Encoded(text)[k]
                                 ELSE IF k <= i + m THEN Encoded(new)[k - i]
                                 ELSE Encoded(text)[k - i - m + j]
  <2>1. j <= Len(Encoded(text))
    BY <1>1, <1>3
  <2> DEFINE a == Encoded(text)
             b == Encoded(new)
  <2> HIDE DEF a, b
  <2>3. a \in Seq(S) /\ b \in Seq(S) /\ j <= Len(a)
    BY <1>3, <2>1 DEF a, b
  <2>2. Splices(B, S, a, b, i, j)
    BY <2>3, ReplacedPlaces DEF B, a, b
  <2> QED
    BY <1>3, <2>2 DEF Splices, N, a, b
<1>5. /\ \A k \in 1..n : Encoded(text)[k] = ByteOf(text[k])
      /\ \A k \in 1..m : Encoded(new)[k] = ByteOf(new[k])
      /\ \A k \in 1..N : Encoded(R)[k] = ByteOf(R[k])
      /\ Encoded(R) \in Seq(S) /\ Len(Encoded(R)) = N
  BY <1>2, EncodedIs DEF n, m, S
<1>6. ASSUME NEW k \in 1..N PROVE B[k] = Encoded(R)[k]
  <2>1. CASE k <= i
    <3>1. k \in 1..n
      BY <1>1, <2>1
    <3> QED
      BY <1>2, <1>4, <1>5, <2>1, <3>1
  <2>2. CASE ~ (k <= i) /\ k <= i + m
    <3>1. k - i \in 1..m
      BY <1>1, <2>2
    <3> QED
      BY <1>2, <1>4, <1>5, <2>2, <3>1
  <2>3. CASE ~ (k <= i) /\ ~ (k <= i + m)
    <3>1. k - i - m + j \in 1..n
      BY <1>1, <2>3
    <3> QED
      BY <1>2, <1>4, <1>5, <2>3, <3>1
  <2> QED
    BY <2>1, <2>2, <2>3
<1>7. N \in Nat
  BY <1>1
<1> HIDE DEF N
<1>8. B = Encoded(R)
  BY <1>4, <1>5, <1>6, <1>7
<1> QED
  BY <1>2, <1>8 DEF R, B

(* A change the server applies to the editor's old text makes the new one. *)
LEMMA ChangeApplied ==
  ASSUME OneByte, NEW text \in Seq(Chars), NEW i \in Nat, NEW j \in Nat, i <= j,
         j <= Len(text), NEW new \in Seq(Chars)
  PROVE  Text!ApplyChange(Encoded(text), Text!Change(text, i, j, new)) =
           Encoded(Text!Replaced(text, i, j, new))
<1> DEFINE t == Encoded(text)
           c == Text!Change(text, i, j, new)
<1>1. Len(t) = Len(text) /\ Len(text) \in Nat
  BY EncodedIs
<1>7. i \in 0..Len(text) /\ j \in 0..Len(text)
  BY <1>1
<1>2. c.start = Text!Position(text, i) /\ c.end = Text!Position(text, j) /\ c.new = new
  BY DEF Text!Change
<1> HIDE DEF c
<1>3. Text!offsetFromPosition(t, c.start.line, c.start.character) = i
  BY <1>1, <1>2, <1>7, EditorPosition, OffsetIs
<1>4. Text!offsetFromPosition(t, c.end.line, c.end.character) = j
  BY <1>1, <1>2, <1>7, EditorPosition, OffsetIs
<1> HIDE DEF t
<1>5. Text!ApplyChange(t, c) = Text!Replaced(t, i, j, Text!Encode(new))
  BY <1>1, <1>2, <1>3, <1>4 DEF Text!ApplyChange
<1>6. Text!Encode(new) = Encoded(new)
  BY EncodeIs
<1> QED
  BY <1>5, <1>6, ReplacedIs DEF c, t
-----------------------------------------------------------------------------
(* What the changes of a notification make of a text, one by one.          *)
Makes(h, t, cs) ==
  h[0] = t /\ \A n \in 1..Len(cs) : h[n] = Text!ApplyChange(h[n - 1], cs[n])

LEMMA ChangesExist ==
  ASSUME NEW t, NEW cs, Len(cs) \in Nat
  PROVE  \E f : f = [n \in 0..Len(cs) |->
                      IF n = 0 THEN t ELSE Text!ApplyChange(f[n - 1], cs[n])]
<1> DEFINE v(f, n) == IF n = 0 THEN t ELSE Text!ApplyChange(f[n - 1], cs[n])
           S == {m \in 0..Len(cs) : \E f : f = [n \in 0..m |-> v(f, n)]}
<1>1. 0 \in S
  <2> DEFINE f == [n \in 0..0 |-> t]
  <2>1. f = [n \in 0..0 |-> v(f, n)]
    OBVIOUS
  <2>2. 0 \in 0..Len(cs)
    OBVIOUS
  <2> HIDE DEF f, v
  <2> QED
    BY <2>1, <2>2
<1>2. \A m \in 1..Len(cs) : m - 1 \in S => m \in S
  <2> TAKE m \in 1..Len(cs)
  <2> HAVE m - 1 \in S
  <2>1. PICK f : f = [n \in 0..(m - 1) |-> v(f, n)]
    OBVIOUS
  <2> DEFINE g == [n \in 0..m |-> IF n \in 0..(m - 1) THEN f[n] ELSE v(f, n)]
  <2>2. \A n \in 0..(m - 1) : g[n] = f[n] /\ f[n] = v(f, n)
    <3>1. \A n \in 0..(m - 1) : n \in 0..m
      OBVIOUS
    <3>2. \A n \in 0..(m - 1) : g[n] = f[n]
      BY <3>1
    <3> HIDE DEF v, g
    <3>3. \A n \in 0..(m - 1) : f[n] = v(f, n)
      BY <2>1
    <3> QED
      BY <3>2, <3>3
  <2>3. \A n \in 0..m : n \notin 0..(m - 1) => g[n] = v(f, n)
    BY DEF v
  <2>4. \A n \in 0..m : n # 0 => n - 1 \in 0..(m - 1)
    OBVIOUS
  <2>5. g = [n \in 0..m |-> g[n]]
    OBVIOUS
  <2> HIDE DEF g
  <2>6. \A n \in 0..m : v(g, n) = v(f, n)
    BY <2>2, <2>4
  <2> HIDE DEF v
  <2>7. \A n \in 0..m : g[n] = v(g, n)
    BY <2>2, <2>3, <2>6
  <2>8. g = [n \in 0..m |-> v(g, n)]
    BY <2>5, <2>7
  <2> QED
    BY <2>8
<1>3. Len(cs) \in 0..Len(cs)
  OBVIOUS
<1>4. Len(cs) \in S
  <2> HIDE DEF S
  <2> QED
    BY <1>1, <1>2, <1>3, Upwards
<1> QED
  BY <1>4

LEMMA ChangesMake ==
  ASSUME NEW t, NEW cs, Len(cs) \in Nat
  PROVE  \E g : Makes(g, t, cs) /\ Text!ApplyChanges(t, cs) = g[Len(cs)]
<1> DEFINE Good(f) == f = [n \in 0..Len(cs) |->
                            IF n = 0 THEN t ELSE Text!ApplyChange(f[n - 1], cs[n])]
           g == CHOOSE f : Good(f)
<1>1. Text!ApplyChanges(t, cs) = g[Len(cs)]
  BY Zenon DEF Text!ApplyChanges
<1>2. \E f : Good(f)
  BY ChangesExist
<1>3. Good(g)
  <2> HIDE DEF Good
  <2> QED
    BY <1>2
<1> HIDE DEF g
<1>4. g[0] = t
  BY <1>3
<1>5. ASSUME NEW n \in 1..Len(cs) PROVE g[n] = Text!ApplyChange(g[n - 1], cs[n])
  <2>1. n \in 0..Len(cs) /\ n # 0
    OBVIOUS
  <2> QED
    BY <1>3, <2>1
<1> QED
  BY <1>1, <1>4, <1>5 DEF Makes

LEMMA ChangesEnd ==
  ASSUME NEW t, NEW cs, Len(cs) \in Nat, NEW h, Makes(h, t, cs)
  PROVE  Text!ApplyChanges(t, cs) = h[Len(cs)]
<1>1. PICK g : Makes(g, t, cs) /\ Text!ApplyChanges(t, cs) = g[Len(cs)]
  BY ChangesMake
<1> DEFINE S == {n \in 0..Len(cs) : g[n] = h[n]}
<1>2. 0 \in S
  BY <1>1 DEF Makes
<1>3. \A n \in 1..Len(cs) : n - 1 \in S => n \in S
  BY <1>1 DEF Makes
<1>4. Len(cs) \in 0..Len(cs)
  OBVIOUS
<1>5. Len(cs) \in S
  <2> HIDE DEF S
  <2> QED
    BY <1>2, <1>3, <1>4, Upwards
<1> QED
  BY <1>1, <1>5

LEMMA OneChange ==
  ASSUME NEW t, NEW c
  PROVE  Text!ApplyChanges(t, <<c>>) = Text!ApplyChange(t, c)
<1> DEFINE h == [n \in 0..1 |-> IF n = 0 THEN t ELSE Text!ApplyChange(t, c)]
<1>1. h[0] = t /\ h[1] = Text!ApplyChange(t, c)
  OBVIOUS
<1>2. Len(<<c>>) = 1 /\ <<c>>[1] = c
  OBVIOUS
<1> HIDE DEF h
<1>3. \A n \in 1..1 : n = 1 /\ n - 1 = 0
  OBVIOUS
<1>4. Makes(h, t, <<c>>)
  BY <1>1, <1>2, <1>3 DEF Makes
<1> QED
  BY <1>1, <1>2, <1>4, ChangesEnd

LEMMA OneMoreChange ==
  ASSUME NEW t, NEW C, NEW cs \in Seq(C), NEW c \in C
  PROVE  Text!ApplyChanges(t, Append(cs, c)) = Text!ApplyChange(Text!ApplyChanges(t, cs), c)
<1> DEFINE n == Len(cs)
           ds == Append(cs, c)
<1>1. n \in Nat /\ Len(ds) = n + 1 /\ ds[n + 1] = c /\ \A k \in 1..n : ds[k] = cs[k]
  OBVIOUS
<1> HIDE DEF n, ds
<1>2. PICK g : Makes(g, t, cs) /\ Text!ApplyChanges(t, cs) = g[n]
  BY <1>1, ChangesMake DEF n
<1> DEFINE h == [k \in 0..(n + 1) |-> IF k <= n THEN g[k] ELSE Text!ApplyChange(g[n], c)]
<1>3. (\A k \in 0..n : h[k] = g[k]) /\ h[n + 1] = Text!ApplyChange(g[n], c)
  BY <1>1
<1> HIDE DEF h
<1>4. h[0] = t
  BY <1>1, <1>2, <1>3 DEF Makes
<1>5. ASSUME NEW k \in 1..(n + 1) PROVE h[k] = Text!ApplyChange(h[k - 1], ds[k])
  <2>1. CASE k \in 1..n
    <3>1. k \in 0..n /\ k - 1 \in 0..n
      BY <1>1, <2>1
    <3>2. g[k] = Text!ApplyChange(g[k - 1], cs[k])
      BY <1>2, <2>1 DEF Makes, n
    <3> QED
      BY <1>1, <1>3, <2>1, <3>1, <3>2
  <2>2. CASE k = n + 1
    <3>1. k - 1 = n /\ n \in 0..n
      BY <1>1, <2>2
    <3> QED
      BY <1>1, <1>3, <2>2, <3>1
  <2> QED
    BY <1>1, <2>1, <2>2
<1>6. Makes(h, t, ds) /\ Len(ds) \in Nat
  BY <1>1, <1>4, <1>5 DEF Makes
<1>7. Text!ApplyChanges(t, ds) = h[n + 1]
  BY <1>1, <1>6, ChangesEnd
<1> QED
  BY <1>2, <1>3, <1>7 DEF ds

(* What the notifications on their way make of a text; what the server has *)
(* between them is a text.                                                 *)
Encodings == {Encoded(text) : text \in Seq(Chars)}

Brings(h, t, ns) ==
  /\ h[0] = t
  /\ \A n \in 1..Len(ns) : h[n] = Text!ApplyChanges(h[n - 1], ns[n])
  /\ \A n \in 0..Len(ns) : h[n] \in Encodings

LEMMA ReadEnd ==
  ASSUME NEW t, NEW ns, Len(ns) \in Nat, NEW h, Brings(h, t, ns)
  PROVE  Text!Read(t, ns) = h[Len(ns)]
<1> DEFINE Good(f) == f = [n \in 0..Len(ns) |->
                            IF n = 0 THEN t ELSE Text!ApplyChanges(f[n - 1], ns[n])]
           g == CHOOSE f : Good(f)
           r == [n \in 0..Len(ns) |-> h[n]]
<1>1. Text!Read(t, ns) = g[Len(ns)]
  BY Zenon DEF Text!Read
<1>2. Good(r)
  <2>1. \A n \in 0..Len(ns) : r[n] = h[n] /\ (n # 0 => n \in 1..Len(ns) /\ n - 1 \in 0..Len(ns))
    OBVIOUS
  <2>2. r = [n \in 0..Len(ns) |-> r[n]]
    OBVIOUS
  <2> HIDE DEF r
  <2>3. \A n \in 0..Len(ns) : r[n] = IF n = 0 THEN t ELSE Text!ApplyChanges(r[n - 1], ns[n])
    BY <2>1 DEF Brings
  <2> QED
    BY <2>2, <2>3
<1>3. Good(g)
  <2> HIDE DEF Good, r
  <2> QED
    BY <1>2
<1> HIDE DEF g
<1> DEFINE S == {n \in 0..Len(ns) : g[n] = h[n]}
<1>4. 0 \in S
  BY <1>3 DEF Brings
<1>5. \A n \in 1..Len(ns) : n - 1 \in S => n \in S
  <2> TAKE n \in 1..Len(ns)
  <2> HAVE n - 1 \in S
  <2>1. n \in 0..Len(ns) /\ n # 0 /\ g[n - 1] = h[n - 1]
    OBVIOUS
  <2>2. g[n] = Text!ApplyChanges(g[n - 1], ns[n])
    BY <1>3, <2>1
  <2> QED
    BY <2>1, <2>2 DEF Brings
<1>6. Len(ns) \in 0..Len(ns)
  OBVIOUS
<1>7. Len(ns) \in S
  <2> HIDE DEF S
  <2> QED
    BY <1>4, <1>5, <1>6, Upwards
<1> QED
  BY <1>1, <1>7 DEF g
-----------------------------------------------------------------------------
(* One document: from what the server has, what is on its way makes the    *)
(* editor's text.                                                          *)
Positions == [line : Nat, character : Nat]
Sent == [start : Positions, end : Positions, new : Seq(Chars)]

DocumentOK ==
  /\ typed \in Seq(Chars) /\ changes \in Seq(Seq(Sent))
  /\ \E h : Brings(h, copy, changes) /\ h[Len(changes)] = Encoded(typed)

LEMMA TextsAre ==
  ASSUME NEW n \in Nat, NEW t \in Text!TextsUpTo(n)
  PROVE  t \in Seq(Chars)
<1>1. PICK k \in 0..n : t \in [1..k -> Chars]
  BY DEF Text!TextsUpTo
<1> QED
  BY <1>1

LEMMA ChangeIsSent ==
  ASSUME OneByte, NEW text \in Seq(Chars), NEW i \in 0..Len(text), NEW j \in 0..Len(text),
         NEW new \in Seq(Chars)
  PROVE  Text!Change(text, i, j, new) \in Sent
<1>1. ASSUME NEW o \in 0..Len(text) PROVE Text!Position(text, o) \in Positions
  <2> DEFINE E == EndsOf(Encoded(text))
  <2>1. Len(text) \in Nat /\ E \in SUBSET (1..Len(text))
    BY EncodedIs DEF EndsOf
  <2> HIDE DEF E
  <2>2. Cardinality(Ends(E, o)) \in Nat /\ LineStart(E, o) \in 0..o
    BY <2>1, EndsCount, LineStartIs
  <2>3. Text!Position(text, o).line \in Nat /\ Text!Position(text, o).character \in Nat
    BY <2>1, <2>2, EditorPosition DEF E
  <2> QED
    BY <2>3 DEF Text!Position, Positions
<1> QED
  BY <1>1 DEF Text!Change, Sent

(* The witnesses of DocumentOK go on.                                      *)
LEMMA NotificationAdded ==
  ASSUME NEW ns \in Seq(Seq(Sent)), NEW c \in Sent, NEW h, NEW t, Brings(h, t, ns),
         Text!ApplyChange(h[Len(ns)], c) \in Encodings
  PROVE  \E g : /\ Brings(g, t, Append(ns, <<c>>))
                /\ g[Len(ns) + 1] = Text!ApplyChange(h[Len(ns)], c)
<1> DEFINE L == Len(ns)
           ms == Append(ns, <<c>>)
           last == Text!ApplyChange(h[L], c)
           g == [n \in 0..(L + 1) |-> IF n = L + 1 THEN last ELSE h[n]]
<1>1. L \in Nat /\ Len(ms) = L + 1 /\ ms[L + 1] = <<c>> /\ \A n \in 1..L : ms[n] = ns[n]
  OBVIOUS
<1> HIDE DEF L, ms
<1>2. g[L + 1] = last /\ \A n \in 0..L : g[n] = h[n]
  BY <1>1
<1> HIDE DEF g
<1>3. Text!ApplyChanges(h[L], <<c>>) = last
  BY OneChange
<1>4. ASSUME NEW n \in 1..(L + 1) PROVE g[n] = Text!ApplyChanges(g[n - 1], ms[n])
  <2>1. CASE n \in 1..L
    <3>1. n \in 0..L /\ n - 1 \in 0..L
      BY <1>1, <2>1
    <3> QED
      BY <1>1, <1>2, <2>1, <3>1 DEF Brings, L
  <2>2. CASE n = L + 1
    <3>1. n - 1 = L /\ L \in 0..L
      BY <1>1, <2>2
    <3> QED
      BY <1>1, <1>2, <1>3, <2>2, <3>1
  <2> QED
    BY <1>1, <2>1, <2>2
<1>5. g[0] = t
  BY <1>1, <1>2 DEF Brings
<1>7. ASSUME NEW n \in 0..(L + 1) PROVE g[n] \in Encodings
  <2>1. n = L + 1 \/ n \in 0..L
    BY <1>1
  <2> QED
    BY <1>2, <2>1 DEF Brings, L
<1>6. Brings(g, t, ms)
  BY <1>1, <1>4, <1>5, <1>7 DEF Brings
<1> QED
  BY <1>2, <1>6 DEF L, ms

LEMMA NotificationExtended ==
  ASSUME NEW ns \in Seq(Seq(Sent)), ns # <<>>, NEW c \in Sent, NEW h, NEW t, Brings(h, t, ns),
         Text!ApplyChange(h[Len(ns)], c) \in Encodings
  PROVE  \E g : /\ Brings(g, t, [ns EXCEPT ![Len(ns)] = Append(@, c)])
                /\ g[Len(ns)] = Text!ApplyChange(h[Len(ns)], c)
<1> DEFINE L == Len(ns)
           ms == [ns EXCEPT ![L] = Append(@, c)]
           last == Text!ApplyChange(h[L], c)
           g == [n \in 0..L |-> IF n = L THEN last ELSE h[n]]
<1>1. /\ L \in Nat \ {0} /\ Len(ms) = L /\ ms[L] = Append(ns[L], c)
      /\ ns[L] \in Seq(Sent) /\ \A n \in 1..(L - 1) : ms[n] = ns[n]
  OBVIOUS
<1> HIDE DEF L, ms
<1>2. g[L] = last /\ \A n \in 0..(L - 1) : g[n] = h[n]
  BY <1>1
<1> HIDE DEF g
<1>3. h[L] = Text!ApplyChanges(h[L - 1], ns[L])
  BY <1>1 DEF Brings, L
<1>4. Text!ApplyChanges(h[L - 1], ms[L]) = last
  BY <1>1, <1>3, OneMoreChange
<1>5. ASSUME NEW n \in 1..L PROVE g[n] = Text!ApplyChanges(g[n - 1], ms[n])
  <2>1. CASE n # L
    <3>1. n \in 0..(L - 1) /\ n - 1 \in 0..(L - 1) /\ n \in 1..(L - 1)
      BY <1>1, <2>1
    <3> QED
      BY <1>1, <1>2, <3>1 DEF Brings, L
  <2>2. CASE n = L
    <3>1. n - 1 \in 0..(L - 1)
      BY <1>1, <2>2
    <3> QED
      BY <1>2, <1>4, <2>2, <3>1
  <2> QED
    BY <2>1, <2>2
<1>6. g[0] = t
  <2>1. 0 \in 0..(L - 1)
    BY <1>1
  <2> QED
    BY <1>2, <2>1 DEF Brings
<1>7. ASSUME NEW n \in 0..L PROVE g[n] \in Encodings
  <2>1. n = L \/ (n \in 0..(L - 1) /\ n \in 0..L)
    BY <1>1
  <2> QED
    BY <1>2, <2>1 DEF Brings, L
<1>8. Brings(g, t, ms)
  BY <1>1, <1>5, <1>6, <1>7 DEF Brings
<1> QED
  BY <1>2, <1>8 DEF L, ms

LEMMA NotificationRead ==
  ASSUME NEW ns \in Seq(Seq(Sent)), ns # <<>>, NEW h, NEW t, Brings(h, t, ns)
  PROVE  \E g : /\ Brings(g, Text!ApplyChanges(t, Head(ns)), Tail(ns))
                /\ g[Len(Tail(ns))] = h[Len(ns)]
<1> DEFINE L == Len(ns)
           ms == Tail(ns)
           g == [n \in 0..(L - 1) |-> h[n + 1]]
<1>1. L \in Nat \ {0} /\ Len(ms) = L - 1 /\ Head(ns) = ns[1] /\ \A n \in 1..(L - 1) : ms[n] = ns[n + 1]
  OBVIOUS
<1> HIDE DEF L, ms
<1>2. \A n \in 0..(L - 1) : g[n] = h[n + 1]
  OBVIOUS
<1> HIDE DEF g
<1>3. \A n \in 1..L : h[n] = Text!ApplyChanges(h[n - 1], ns[n])
  BY DEF Brings, L
<1>4. ASSUME NEW n \in 1..(L - 1) PROVE g[n] = Text!ApplyChanges(g[n - 1], ms[n])
  <2>1. n \in 0..(L - 1) /\ n - 1 \in 0..(L - 1) /\ n + 1 \in 1..L /\ (n + 1) - 1 = n /\ (n - 1) + 1 = n
    BY <1>1
  <2>2. g[n] = h[n + 1] /\ g[n - 1] = h[n] /\ h[n + 1] = Text!ApplyChanges(h[n], ns[n + 1])
    BY <1>2, <1>3, <2>1
  <2> QED
    BY <1>1, <2>2
<1>5. g[0] = Text!ApplyChanges(t, Head(ns))
  <2>1. 0 \in 0..(L - 1) /\ 1 \in 1..L /\ 1 - 1 = 0 /\ 0 + 1 = 1
    BY <1>1
  <2>2. h[0] = t
    BY DEF Brings
  <2> QED
    BY <1>1, <1>2, <1>3, <2>1, <2>2
<1>6. g[L - 1] = h[L]
  <2>1. L - 1 \in 0..(L - 1) /\ (L - 1) + 1 = L
    BY <1>1
  <2> QED
    BY <1>2, <2>1
<1>7. ASSUME NEW n \in 0..(L - 1) PROVE g[n] \in Encodings
  <2>1. n + 1 \in 0..L
    BY <1>1
  <2> QED
    BY <1>2, <2>1 DEF Brings, L
<1> QED
  BY <1>1, <1>4, <1>5, <1>6, <1>7 DEF Brings, L, ms
-----------------------------------------------------------------------------
LEMMA DocumentInit ==
  ASSUME OneByte, Text!Init
  PROVE  DocumentOK
<1>1. typed \in Seq(Chars) /\ copy = Encoded(typed) /\ changes = <<>>
  BY CharactersAssumption, TextsAre, EncodeIs DEF Text!Init
<1> DEFINE h == [n \in 0..0 |-> copy]
<1>2. h[0] = copy
  OBVIOUS
<1> HIDE DEF h
<1>3. Len(changes) = 0 /\ changes \in Seq(Seq(Sent)) /\ 1..0 = {}
  BY <1>1
<1>5. \A n \in 0..0 : h[n] \in Encodings
  BY <1>1, <1>2 DEF Encodings
<1>4. Brings(h, copy, changes)
  BY <1>2, <1>3, <1>5 DEF Brings
<1> QED
  BY <1>1, <1>2, <1>3, <1>4 DEF DocumentOK

LEMMA DocumentEdited ==
  ASSUME OneByte, DocumentOK, NEW i \in 0..Len(typed), NEW j \in i..Len(typed),
         NEW new \in Seq(Chars),
         typed' = Text!Replaced(typed, i, j, new), copy' = copy,
         \/ changes' = Append(changes, <<Text!Change(typed, i, j, new)>>)
         \/ /\ changes # <<>>
            /\ changes' = [changes EXCEPT ![Len(changes)] =
                             Append(@, Text!Change(typed, i, j, new))]
  PROVE  DocumentOK'
<1> DEFINE c == Text!Change(typed, i, j, new)
<1>1. PICK h : Brings(h, copy, changes) /\ h[Len(changes)] = Encoded(typed)
  BY DEF DocumentOK
<1>2. typed \in Seq(Chars) /\ changes \in Seq(Seq(Sent)) /\ Len(typed) \in Nat /\ Len(changes) \in Nat
  BY EncodedIs DEF DocumentOK
<1>3. i \in Nat /\ j \in Nat /\ i <= j /\ j <= Len(typed) /\ j \in 0..Len(typed)
  BY <1>2
<1>4. c \in Sent
  BY <1>2, <1>3, ChangeIsSent
<1>5. typed' \in Seq(Chars)
  BY <1>2, <1>3, ReplacedIs
<1>6. Text!ApplyChange(Encoded(typed), c) = Encoded(typed')
  BY <1>2, <1>3, ChangeApplied
<1>7. Encoded(typed)' = Encoded(typed')
  BY DEF Encoded, ByteOf
<1>10. Text!ApplyChange(h[Len(changes)], c) \in Encodings
  BY <1>1, <1>5, <1>6 DEF Encodings
<1> HIDE DEF c
<1>8. CASE changes' = Append(changes, <<c>>)
  <2>1. changes' \in Seq(Seq(Sent)) /\ Len(changes') = Len(changes) + 1
    BY <1>2, <1>4, <1>8
  <2>2. PICK g : /\ Brings(g, copy, changes')
                 /\ g[Len(changes) + 1] = Text!ApplyChange(h[Len(changes)], c)
    BY <1>1, <1>2, <1>4, <1>8, <1>10, NotificationAdded
  <2>3. g[Len(changes')] = Encoded(typed')
    BY <1>1, <1>6, <2>1, <2>2
  <2> QED
    BY <1>5, <1>7, <2>1, <2>2, <2>3 DEF DocumentOK, Brings, Encodings, Encoded, ByteOf
<1>9. CASE changes # <<>> /\ changes' = [changes EXCEPT ![Len(changes)] = Append(@, c)]
  <2>1. changes' \in Seq(Seq(Sent)) /\ Len(changes') = Len(changes)
    BY <1>2, <1>4, <1>9
  <2>2. PICK g : /\ Brings(g, copy, changes')
                 /\ g[Len(changes)] = Text!ApplyChange(h[Len(changes)], c)
    BY <1>1, <1>2, <1>4, <1>9, <1>10, NotificationExtended
  <2>3. g[Len(changes')] = Encoded(typed')
    BY <1>1, <1>6, <2>1, <2>2
  <2> QED
    BY <1>5, <1>7, <2>1, <2>2, <2>3 DEF DocumentOK, Brings, Encodings, Encoded, ByteOf
<1> QED
  BY <1>8, <1>9 DEF c

LEMMA DocumentRead ==
  ASSUME DocumentOK, Text!handleDidChange
  PROVE  DocumentOK'
<1>1. PICK h : Brings(h, copy, changes) /\ h[Len(changes)] = Encoded(typed)
  BY DEF DocumentOK
<1>2. changes \in Seq(Seq(Sent)) /\ typed \in Seq(Chars)
  BY DEF DocumentOK
<1>3. /\ changes # <<>> /\ copy' = Text!ApplyChanges(copy, Head(changes))
      /\ changes' = Tail(changes) /\ typed' = typed
  BY DEF Text!handleDidChange
<1>4. PICK g : /\ Brings(g, copy', changes')
               /\ g[Len(changes')] = Encoded(typed)
  BY <1>1, <1>2, <1>3, NotificationRead
<1>5. changes' \in Seq(Seq(Sent))
  BY <1>2, <1>3
<1>6. Encoded(typed)' = Encoded(typed)
  BY <1>3 DEF Encoded, ByteOf
<1> QED
  BY <1>2, <1>3, <1>4, <1>5, <1>6 DEF DocumentOK, Brings, Encodings, Encoded, ByteOf
(* The edit of a formatting request spans the whole document.              *)
LEMMA WholePlace ==
  ASSUME OneByte, NEW text \in Seq(Chars), NEW p
  PROVE  /\ p.line = 0 /\ p.character = 0 => Text!Place(text, p) = 0
         /\ p = Text!positionFromOffset(Encoded(text), Len(text)) => Text!Place(text, p) = Len(text)
<1> DEFINE N == Len(text)
           E == EndsOf(Encoded(text))
           before(o) == LET q == Text!Position(text, o)
                        IN  q.line < p.line \/ (q.line = p.line /\ q.character <= p.character)
           reached == {o \in 0..N : before(o)}
<1>1. Text!Place(text, p) = CHOOSE o \in reached : \A q \in reached : q <= o
  BY DEF Text!Place
<1>2. N \in Nat /\ E \in SUBSET (1..N) /\ Len(Encoded(text)) = N
  BY EncodedIs DEF EndsOf
<1>3. \A o \in 0..N : /\ Text!Position(text, o).line = Cardinality(Ends(E, o))
                      /\ Text!Position(text, o).character = o - LineStart(E, o)
  BY EditorPosition
<1> HIDE DEF E
<1>4. \A o \in 0..N : /\ Cardinality(Ends(E, o)) \in Nat
                      /\ Cardinality(Ends(E, o)) = 0 => Ends(E, o) = {}
                      /\ LineStart(E, o) \in 0..o
                      /\ Ends(E, o) = {} => LineStart(E, o) = 0
  BY <1>2, EndsCount, LineStartIs
<1>5. ASSUME p.line = 0, p.character = 0 PROVE Text!Place(text, p) = 0
  <2>1. 0 \in 0..N /\ Ends(E, 0) = {}
    <3>1. \A i \in E : ~ (i <= 0)
      BY <1>2
    <3>2. Ends(E, 0) = {}
      BY <3>1 DEF Ends
    <3> QED
      BY <1>2, <3>2
  <2>2. Text!Position(text, 0).line = 0 /\ Text!Position(text, 0).character = 0
    <3>1. Cardinality(Ends(E, 0)) = 0
      BY <2>1, FS_EmptySet
    <3> QED
      BY <1>3, <1>4, <2>1, <3>1
  <2>3. before(0)
    BY <1>5, <2>2
  <2>4. ASSUME NEW o \in 0..N, before(o) PROVE o = 0
    <3>1. Text!Position(text, o).line = 0 /\ Text!Position(text, o).character <= 0
      BY <1>3, <1>4, <1>5, <2>4
    <3> QED
      BY <1>2, <1>3, <1>4, <3>1
  <2> HIDE DEF before
  <2>5. reached = {0}
    BY <2>1, <2>3, <2>4
  <2> HIDE DEF reached
  <2> QED
    BY <1>1, <2>5
<1>6. ASSUME p = Text!positionFromOffset(Encoded(text), Len(text))
      PROVE  Text!Place(text, p) = N
  <2>1. N \in 0..N
    BY <1>2
  <2>2. /\ p.line = Cardinality(Ends(E, N)) /\ p.character = N - LineStart(E, N)
        /\ p.character \in Int
    BY <1>2, <1>4, <1>6, <2>1, PositionIs DEF E
  <2>3. before(N)
    BY <1>3, <2>1, <2>2
  <2> HIDE DEF before
  <2>4. N \in reached /\ \A q \in reached : q <= N /\ q \in Nat
    BY <1>2, <2>1, <2>3
  <2>5. \A o \in reached : (\A q \in reached : q <= o) => o = N
    BY <1>2, <2>4
  <2> HIDE DEF reached
  <2> QED
    BY <1>1, <2>4, <2>5
<1> QED
  BY <1>5, <1>6

LEMMA Formatted ==
  ASSUME OneByte, DocumentOK, NEW new \in Seq(Chars), Text!handleFormatting(new)
  PROVE  /\ typed' = new /\ changes = <<>> /\ copy' = copy
         /\ typed' = Text!Replaced(typed, 0, Len(typed), new)
         /\ changes' = Append(changes, <<Text!Change(typed, 0, Len(typed), new)>>)
<1> DEFINE edit == Text!FormatEdit(new)
<1>1. changes = <<>> /\ typed \in Seq(Chars)
  BY DEF Text!handleFormatting, DocumentOK
<1>2. copy = Encoded(typed)
  <2>1. PICK h : Brings(h, copy, changes) /\ h[Len(changes)] = Encoded(typed)
    BY DEF DocumentOK
  <2> QED
    BY <1>1, <2>1 DEF Brings
<1>3. /\ edit.start.line = 0 /\ edit.start.character = 0
      /\ edit.end = Text!positionFromOffset(Encoded(typed), Len(typed))
  BY <1>1, <1>2, EncodedIs DEF Text!FormatEdit
<1> HIDE DEF edit
<1>4. Text!Place(typed, edit.start) = 0 /\ Text!Place(typed, edit.end) = Len(typed)
  BY <1>1, <1>3, WholePlace
<1>5. /\ typed' = Text!Replaced(typed, 0, Len(typed), new)
      /\ changes' = <<<<Text!Change(typed, 0, Len(typed), new)>>>>
      /\ copy' = copy
  BY <1>4 DEF Text!handleFormatting, edit
<1>6. \A c : <<c>> = Append(<<>>, c)
  OBVIOUS
<1>7. Text!Replaced(typed, 0, Len(typed), new) = new
  <2>1. Len(typed) \in Nat
    BY <1>1, EncodedIs
  <2>2. SubSeq(typed, 1, 0) = <<>> /\ SubSeq(typed, Len(typed) + 1, Len(typed)) = <<>>
    BY <1>1, <2>1
  <2> QED
    BY <2>2 DEF Text!Replaced
<1> QED
  BY <1>1, <1>5, <1>6, <1>7

LEMMA DocumentStep ==
  ASSUME OneByte, DocumentOK, Text!Next
  PROVE  DocumentOK'
<1>1. typed \in Seq(Chars) /\ Len(typed) \in Nat /\ 0 \in 0..Len(typed) /\ Len(typed) \in 0..Len(typed)
  BY EncodedIs DEF DocumentOK
<1>2. ASSUME NEW i \in 0..Len(typed), NEW j \in i..Len(typed), NEW new \in Text!TextsUpTo(1),
             Text!Edit(i, j, new)
      PROVE  DocumentOK'
  <2>1. new \in Seq(Chars)
    BY TextsAre
  <2>2. /\ typed' = Text!Replaced(typed, i, j, new) /\ copy' = copy
        /\ \/ changes' = Append(changes, <<Text!Change(typed, i, j, new)>>)
           \/ /\ changes # <<>>
              /\ changes' = [changes EXCEPT ![Len(changes)] =
                               Append(@, Text!Change(typed, i, j, new))]
    BY <1>2 DEF Text!Edit
  <2> QED
    BY <2>1, <2>2, DocumentEdited
<1>3. ASSUME NEW new \in Text!TextsUpTo(MaxLen), Text!handleFormatting(new)
      PROVE  DocumentOK'
  <2>1. new \in Seq(Chars)
    BY TextsAre, CharactersAssumption
  <2>2. /\ typed' = Text!Replaced(typed, 0, Len(typed), new) /\ copy' = copy
        /\ changes' = Append(changes, <<Text!Change(typed, 0, Len(typed), new)>>)
    BY <1>3, <2>1, Formatted
  <2>3. Len(typed) \in 0..Len(typed)
    BY <1>1
  <2> QED
    BY <1>1, <2>1, <2>2, DocumentEdited
<1> QED
  BY <1>2, <1>3, DocumentRead DEF Text!Next

DInv == subject = "document" => DocumentOK

LEMMA DInvAlways ==
  ASSUME OneByte
  PROVE  EditorSpec => []DInv
<1>1. EditorInit => DInv
  BY DocumentInit DEF EditorInit, DInv
<1>2. DInv /\ [EditorNext]_<<subject, ofSession, ofDocument>> => DInv'
  <2> SUFFICES ASSUME DInv, [EditorNext]_<<subject, ofSession, ofDocument>>, subject' = "document"
               PROVE  DocumentOK'
    BY DEF DInv
  <2>1. CASE SyncDocument
    BY <2>1, DocumentStep DEF SyncDocument, DInv
  <2>2. CASE UNCHANGED <<subject, ofDocument>>
    BY <2>2 DEF ofDocument, DInv, DocumentOK, Brings, Encodings, Encoded, ByteOf
  <2>3. CASE ServeSession
    BY <2>2, <2>3 DEF ServeSession
  <2> QED
    BY <2>1, <2>2, <2>3 DEF EditorNext
<1> QED
  BY <1>1, <1>2, PTL DEF EditorSpec

(* The document in sync: where columns are bytes, however the user types   *)
(* ahead and however changes are batched into notifications                *)
(* (maybeApplyIncrementalChange, handleDidChange), once the server has     *)
(* read everything it analyses the text the editor shows.  Positions and   *)
(* offsets are inverse in any text.                                        *)
THEOREM ChangesArrive ==
  ASSUME OneByte
  PROVE  EditorSpec => []InSync
<1>1. ASSUME DInv, subject = "document" PROVE Text!InSync /\ Text!PositionsRoundTrip
  <2>1. PICK h : Brings(h, copy, changes) /\ h[Len(changes)] = Encoded(typed)
    BY <1>1 DEF DInv, DocumentOK
  <2>2. typed \in Seq(Chars) /\ Len(changes) \in Nat
    BY <1>1 DEF DInv, DocumentOK
  <2>3. Text!Read(copy, changes) = Encoded(typed)
    BY <2>1, <2>2, ReadEnd
  <2>4. Text!InSync
    BY <2>2, <2>3, EncodeIs DEF Text!InSync
  <2>5. Len(copy) \in Nat
    <3>1. 0 \in 0..Len(changes)
      BY <2>2
    <3>2. copy \in Encodings
      BY <2>1, <3>1 DEF Brings
    <3> QED
      BY <3>2, EncodedIs DEF Encodings
  <2>6. Text!PositionsRoundTrip
    BY <2>5, RoundTrip DEF Text!PositionsRoundTrip
  <2> QED
    BY <2>4, <2>6
<1> QED
  BY <1>1, DInvAlways, PTL DEF InSync

(* A formatting edit replaces the whole document (handleFormatting): none  *)
(* of the old text stays in front of it or behind it.                      *)
THEOREM FormattingReplaces ==
  ASSUME OneByte
  PROVE  EditorSpec => Text!FormattingReplacesAll
<1>1. DInv /\ [EditorNext]_<<subject, ofSession, ofDocument>> =>
        [\A new \in Text!TextsUpTo(MaxLen) : Text!handleFormatting(new) => typed' = new]_(Text!vars)
  <2> SUFFICES ASSUME DInv, [EditorNext]_<<subject, ofSession, ofDocument>>,
                      Text!vars' # Text!vars, NEW new \in Text!TextsUpTo(MaxLen),
                      Text!handleFormatting(new)
               PROVE  typed' = new
    OBVIOUS
  <2>1. subject = "document"
    BY DEF EditorNext, ServeSession, SyncDocument, Text!vars, ofDocument
  <2>2. new \in Seq(Chars)
    BY TextsAre, CharactersAssumption
  <2> QED
    BY <2>1, <2>2, Formatted DEF DInv
<1> QED
  BY <1>1, DInvAlways, PTL DEF EditorSpec, Text!FormattingReplacesAll
-----------------------------------------------------------------------------
(* Nothing above is lost where the server also synchronizes the characters *)
(* of a document: what it does for the modules is what Spec allows.        *)
THEOREM EditorServes ==
  EditorSpec => Spec
<1>1. EditorInit => Init
  BY DEF EditorInit, NoSession, Init
<1>2. [EditorNext]_<<subject, ofSession, ofDocument>> => [Next]_vars
  BY DEF EditorNext, ServeSession, SyncDocument, ofSession
<1>3. QED
  BY <1>1, <1>2, PTL DEF EditorSpec, Spec
=============================================================================
