------------------------------ MODULE TextSync ------------------------------
(***************************************************************************)
(* Incremental synchronisation of one document between an editor and the   *)
(* language server (src/tools/lsp/ServerMain.cpp: maybeApplyIncremental-   *)
(* Change, offsetFromPosition, positionFromOffset, handleDidChange and the *)
(* formatting edits).                                                      *)
(*                                                                         *)
(* The editor holds characters and speaks in positions that count UTF-16   *)
(* units; the server holds bytes and reads the positions as bytes.  The    *)
(* notifications travel in order, and the editor does not wait for them.   *)
(***************************************************************************)
EXTENDS Integers, Sequences, SequencesExt

CONSTANTS
  Chars,       (* the characters a document is made of                     *)
  Newline,     (* the one that ends a line                                 *)
  Units,       (* UTF-16 units of each character                           *)
  Width,       (* bytes of each character in UTF-8                         *)
  MaxLen,      (* bound: characters in the editor                          *)
  MaxAhead     (* bound: changes the server has not applied                *)

(* What Units and Width may be is assumed where the module is used: Editor *)

VARIABLES
  editor,   (* the document in the editor, a sequence of characters        *)
  pending,  (* didChange notifications the server has not read             *)
  server    (* DocumentState.text, a sequence of bytes                     *)

vars == <<editor, pending, server>>

Byte == [char : Chars, nth : 1..4]

BytesOf(c) == [k \in 1..Width[c] |-> [char |-> c, nth |-> k]]

(* The sums and results over a sequence are kept per prefix.               *)
Encode(text) ==
  LET bytes[n \in 0..Len(text)] ==
        IF n = 0 THEN <<>> ELSE bytes[n - 1] \o BytesOf(text[n])
  IN  bytes[Len(text)]

LineEnd == [char |-> Newline, nth |-> 1]
IsEnd(b) == b = LineEnd
-----------------------------------------------------------------------------
(* The editor: offsets count characters.                                   *)
TextsUpTo(n) == UNION {[1..k -> Chars] : k \in 0..n}

UnitsIn(text) ==
  LET units[n \in 0..Len(text)] == IF n = 0 THEN 0 ELSE units[n - 1] + Units[text[n]]
  IN  units[Len(text)]

LineStartOf(text, o) ==
  LET ends == {i \in 1..o : text[i] = Newline} IN
  IF ends = {} THEN 0 ELSE CHOOSE i \in ends : \A j \in ends : j <= i

Position(text, o) ==
  [line |-> Cardinality({i \in 1..o : text[i] = Newline}),
   character |-> UnitsIn(SubSeq(text, LineStartOf(text, o) + 1, o))]

(* Where an editor puts a position it receives: the last place of the line *)
(* that is not behind it.                                                  *)
Place(text, p) ==
  LET reached == {o \in 0..Len(text) :
        LET q == Position(text, o) IN
        q.line < p.line \/ (q.line = p.line /\ q.character <= p.character)}
  IN  CHOOSE o \in reached : \A q \in reached : q <= o

Change(text, i, j, new) ==
  [start |-> Position(text, i), end |-> Position(text, j), new |-> new]

Replaced(text, i, j, new) ==
  SubSeq(text, 1, i) \o new \o SubSeq(text, j + 1, Len(text))
-----------------------------------------------------------------------------
(* The server: offsets count bytes.                                        *)
(* Faulty: a line begins with the newline that ends the one before.        *)
OffsetFromNewline(text, line, character) ==
  LET ends  == {i \in 1..Len(text) : IsEnd(text[i])}
      start == IF line = 0 THEN {0}
               ELSE {i - 1 : i \in {j \in ends : Cardinality({k \in ends : k <= j}) = line}}
      room(s) == Len(text) - s
  IN  IF start = {} THEN Len(text)
      ELSE LET s == CHOOSE i \in start : TRUE
           IN  s + (IF character < room(s) THEN character ELSE room(s))

(* offsetFromPosition: the whole text if there is no such line, the end of *)
(* the line if it is shorter.                                              *)
offsetFromPosition(text, line, character) ==
  LET ends  == {i \in 1..Len(text) : IsEnd(text[i])}
      start == IF line = 0 THEN {0}
               ELSE {i \in ends : Cardinality({j \in ends : j <= i}) = line}
  IN  IF start = {} THEN Len(text)
      ELSE LET s == CHOOSE i \in start : TRUE
               behind == {i - 1 : i \in {j \in ends : j > s}} \cup {Len(text)}
               last == CHOOSE i \in behind : \A j \in behind : i <= j
               room == last - s
           IN  s + (IF character < room THEN character ELSE room)

(* Faulty: the newline before the offset is counted as a character.        *)
PositionFromLineEnd(text, offset) ==
  LET ends == {i \in 1..offset : IsEnd(text[i])}
      start == IF ends = {} THEN 0 ELSE CHOOSE i \in ends : \A j \in ends : j <= i
  IN  [line |-> Cardinality(ends),
       character |-> IF ends = {} THEN offset ELSE offset - start + 1]

positionFromOffset(text, offset) ==
  LET ends == {i \in 1..offset : IsEnd(text[i])}
      start == IF ends = {} THEN 0 ELSE CHOOSE i \in ends : \A j \in ends : j <= i
  IN  [line |-> Cardinality(ends), character |-> offset - start]

(* maybeApplyIncrementalChange, for a change with a well-formed range.     *)
ApplyChange(text, change) ==
  LET a == offsetFromPosition(text, change.start.line, change.start.character)
      b == offsetFromPosition(text, change.end.line, change.end.character)
      from == IF a <= b THEN a ELSE b
      to   == IF a <= b THEN b ELSE a
  IN  Replaced(text, from, to, Encode(change.new))

(* handleDidChange: the changes of one notification, one after the other.  *)
ApplyChanges(text, changes) ==
  LET after[n \in 0..Len(changes)] ==
        IF n = 0 THEN text ELSE ApplyChange(after[n - 1], changes[n])
  IN  after[Len(changes)]
-----------------------------------------------------------------------------
(* didOpen carries the whole text.                                         *)
Init ==
  /\ editor \in TextsUpTo(MaxLen)
  /\ server = Encode(editor) /\ pending = <<>>

(* The user types: a change, in a notification of its own or together with *)
(* the changes of the last one, if that one has not been sent.             *)
Edit(i, j, new) ==
  LET change == Change(editor, i, j, new) IN
  /\ Len(FlattenSeq(pending)) < MaxAhead
  /\ editor' = Replaced(editor, i, j, new)
  /\ \/ pending' = Append(pending, <<change>>)
     \/ /\ pending # <<>>
        /\ pending' = [pending EXCEPT ![Len(pending)] = Append(@, change)]
  /\ UNCHANGED server

handleDidChange ==
  /\ pending # <<>>
  /\ server' = ApplyChanges(server, Head(pending))
  /\ pending' = Tail(pending)
  /\ UNCHANGED editor

(* handleFormatting: one edit over the whole document.  The editor applies *)
(* it if nothing was typed since the request, and reports the change.      *)
FormatEdit(new) ==
  [start |-> [line |-> 0, character |-> 0],
   end |-> positionFromOffset(server, Len(server)), new |-> new]

handleFormatting(new) ==
  LET edit == FormatEdit(new)
      from == Place(editor, edit.start)
      to   == Place(editor, edit.end)
  IN  /\ pending = <<>> /\ MaxAhead > 0
      /\ editor' = Replaced(editor, from, to, new)
      /\ pending' = <<<<Change(editor, from, to, new)>>>>
      /\ UNCHANGED server

Next ==
  \/ \E i \in 0..Len(editor) : \E j \in i..Len(editor) :
       \E new \in TextsUpTo(1) : Len(editor) - (j - i) + Len(new) <= MaxLen /\ Edit(i, j, new)
  \/ handleDidChange
  \/ \E new \in TextsUpTo(MaxLen) : handleFormatting(new)

Spec == Init /\ [][Next]_vars
-----------------------------------------------------------------------------
Offsets   == [line : 0..MaxLen, character : 0..(4 * MaxLen)]
ChangeSet == [start : Offsets, end : Offsets, new : TextsUpTo(MaxLen)]

TypeOK ==
  /\ editor \in TextsUpTo(MaxLen)
  /\ \A i \in 1..Len(server) : server[i] \in Byte
  /\ Len(FlattenSeq(pending)) <= MaxAhead
  /\ \A n \in 1..Len(pending) : \A c \in 1..Len(pending[n]) : pending[n][c] \in ChangeSet

(* What is on its way brings the server to the editor's text: however the  *)
(* user types ahead and however changes are batched, the server analyses   *)
(* the text the editor shows once it has read everything.                  *)
Read(text, notifications) ==
  LET read[n \in 0..Len(notifications)] ==
        IF n = 0 THEN text ELSE ApplyChanges(read[n - 1], notifications[n])
  IN  read[Len(notifications)]

InSync == Read(server, pending) = Encode(editor)

(* A position computed from an offset leads back to it: edits and ranges   *)
(* the server sends denote the place they were computed for.               *)
PositionsRoundTrip ==
  \A o \in 0..Len(server) :
    LET p == positionFromOffset(server, o) IN
    offsetFromPosition(server, p.line, p.character) = o

(* A formatting edit replaces the whole document, none of the old text     *)
(* stays in front of it or behind it.                                      *)
FormattingReplacesAll ==
  [][\A new \in TextsUpTo(MaxLen) : handleFormatting(new) => editor' = new]_vars
=============================================================================
