----------------------------- MODULE MCSyntaxA -----------------------------
(***************************************************************************)
(* The sources that are parsed: expressions as the value of a variable,    *)
(* statements alone, side by side and in a block, and sources damaged at   *)
(* one token.                                                              *)
(***************************************************************************)
EXTENDS SyntaxA

G == INSTANCE Grammar

WrittenAs(meaning) ==
    [kind |-> "written", meaning |-> meaning,
     tokens |-> G!Written(FlattenSeq(meaning)) \o <<"eof">>]

Values == {WrittenAs(<<<<"decl", "a", "=">> \o p.text>>) : p \in G!Expressions}

Programs ==
    {WrittenAs(<<s.text>>) : s \in G!Statements}
      \union {WrittenAs(<<st[1].text, st[2].text>>) : st \in G!Together}
      \union {WrittenAs(<<G!Nested(st[1], st[2])>>) :
                st \in {u \in G!Together : u[1] \in G!Values \union G!Plain /\ u[2] \in G!Plain
                                             /\ Head(u[2].text) # "@"}}

\* A source that ends early, lacks a token or has one token twice.
DamagedFrom == G!Closed \union G!Plain
Damaged ==
    {[kind |-> "damaged", meaning |-> <<>>, tokens |-> tokens \o <<"eof">>] :
        tokens \in UNION {LET all == G!Written(s.text)
                          IN  {SubSeq(all, 1, i) : i \in 1..Len(all)}
                                \union {SubSeq(all, 1, i - 1) \o SubSeq(all, i + 1, Len(all)) :
                                          i \in 1..Len(all)}
                                \union {SubSeq(all, 1, i) \o SubSeq(all, i, Len(all)) :
                                          i \in 1..Len(all)} : s \in DamagedFrom}}

\* Sources where the grammar and the parser part: operators weaker than an equality behind
\* &&, statements that start with "await" or "new".
AndSources   == {s \in Values : \E text \in Range(s.meaning) : LooseRight(text)}
StartSources == {WrittenAs(<<s.text>>) :
                   s \in {t \in G!Statements : Head(G!Written(t.text)) \in {"await", "new"}}}

MCSources == Values \union Programs \union Damaged

=============================================================================
