------------------------------- MODULE Editor -------------------------------
(***************************************************************************)
(* The language server at work for an editor: the documents of the modules *)
(* and what is remembered of them (LanguageServer), where a text is one    *)
(* value, and the characters of one document with the changes that are on  *)
(* their way (TextSync), where there are no other modules.  The two share  *)
(* nothing but the process; `subject` is the one at work, and what belongs *)
(* to the other stands still.                                              *)
(***************************************************************************)
EXTENDS LanguageServer

CONSTANTS Chars, Newline, Units, Width, MaxLen, MaxAhead   \* of TextSync

VARIABLES
  subject,               \* "session" or "document"
  typed, changes, copy   \* editor, pending and server of TextSync

Text == INSTANCE TextSync WITH editor <- typed, pending <- changes, server <- copy

ASSUME CharactersAssumption ==
  /\ Newline \in Chars
  /\ Units \in [Chars -> 1..2] /\ Width \in [Chars -> 1..4]
  /\ Units[Newline] = 1 /\ Width[Newline] = 1
  /\ MaxLen \in Nat /\ MaxAhead \in Nat

ofSession  == vars
ofDocument == <<typed, changes, copy>>

NoSession ==
  /\ disk = [u \in Modules |-> None]
  /\ editor = [u \in Modules |-> None] /\ shown = [u \in Modules |-> None]
  /\ tokens = [u \in Modules |-> None]
  /\ initialized = FALSE /\ documents = [u \in {} |-> None]
  /\ snapshots = [u \in Modules |-> None] /\ counter = 1

NoDocument == typed = <<>> /\ changes = <<>> /\ copy = <<>>

EditorInit ==
  \/ subject = "session" /\ Init /\ NoDocument
  \/ subject = "document" /\ Text!Init /\ NoSession

ServeSession == subject = "session" /\ Next /\ UNCHANGED <<subject, ofDocument>>
SyncDocument == subject = "document" /\ Text!Next /\ UNCHANGED <<subject, ofSession>>

EditorNext == ServeSession \/ SyncDocument

EditorSpec == EditorInit /\ [][EditorNext]_<<subject, ofSession, ofDocument>>
-----------------------------------------------------------------------------
(* What is on its way brings the server to the editor's text: however the  *)
(* user types ahead and however changes are batched into didChange         *)
(* notifications, the server analyses the text the editor shows once it    *)
(* has read everything.  And a position computed from an offset leads back *)
(* to it: edits and ranges the server sends denote the place they were     *)
(* computed for.                                                           *)
InSync == subject = "document" => Text!InSync /\ Text!PositionsRoundTrip
=============================================================================
