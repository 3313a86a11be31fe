------------------------------ MODULE Grammar ------------------------------
(***************************************************************************)
(* What a source means, by the documentation: the operators with their     *)
(* precedence and associativity (docs/StarbytesSyntax.md, 6.3) and the     *)
(* grammar (7).  A meaning is the tokens of a source with a mark around    *)
(* every operation, after every statement and on every use of a type       *)
(* parameter; the source is the meaning without the marks, with            *)
(* parentheses only where the precedence asks for them.  Nothing here      *)
(* reads tokens: what the parser makes of a source is compared with it.    *)
(***************************************************************************)
EXTENDS Integers, Sequences, FiniteSets, SequencesExt

Unmark(t) == IF t = "T'" THEN "T" ELSE IF t = "U'" THEN "U" ELSE t
Written(meaning) ==
    LET kept == SelectSeq(meaning, LAMBDA t : t \notin {"{|", "|}", ";"})
    IN  <<>> \o [i \in DOMAIN kept |-> Unmark(kept[i])]

----------------------------------------------------------------------------
(* Expressions. *)

\* A phrase with the precedence of its outermost operator, from 1 (primary and postfix) to
\* 14 (assignment).
Phrase(text, prec) == [text |-> text, prec |-> prec]
Operation(text, prec) == Phrase(<<"{|">> \o text \o <<"|}">>, prec)
Primary(text) == Phrase(text, 1)

\* A phrase where only operators up to a precedence stand without parentheses.
Fit(p, prec) == IF p.prec <= prec THEN p.text ELSE <<"(">> \o p.text \o <<")">>

\* All binary operators are left associative, assignment is right associative.
Binary(op, prec, p, q) ==
    Operation(Fit(p, prec) \o op \o Fit(q, prec - 1), prec)
Prefix(op, p)    == Operation(<<op>> \o Fit(p, 2), 2)
Choice(p, q, r)  == Operation(Fit(p, 12) \o <<"?">> \o q.text \o <<":">> \o r.text, 13)
Store(op, p, q)  == Operation(Fit(p, 1) \o op \o q.text, 14)
In(left, p, right) == Primary(left \o p.text \o right)
After(p, text)   == Primary(Fit(p, 1) \o text)

\* A comparison chain whose last operand is parenthesised reads as a call with type
\* arguments, a < b > (c): the grammar has both readings.
CallsIn(text) == {i \in 1..(Len(text) - 4) :
                     text[i + 1] = "<" /\ text[i + 3] = ">" /\ text[i + 4] = "("}
ReadsAsCall(p) == Cardinality(CallsIn(Written(p.text))) # Cardinality(CallsIn(p.text))

\* Every binary operator with its precedence; << and >> are two tokens.
Operators == {<<<<"*">>, 3>>, <<<<"/">>, 3>>, <<<<"+">>, 4>>, <<<<"-">>, 4>>,
              <<<<"<", "<">>, 5>>, <<<<">", ">">>, 5>>, <<<<"<">>, 6>>, <<<<">">>, 6>>,
              <<<<"<=">>, 6>>, <<<<"is">>, 6>>, <<<<"==">>, 7>>, <<<<"&">>, 8>>,
              <<<<"^">>, 9>>, <<<<"|">>, 10>>, <<<<"&&">>, 11>>, <<<<"||">>, 12>>}
Stores == {<<"=">>, <<"+=">>, <<"&", "=">>, <<"<", "<", "=">>, <<">", ">", "=">>}

Binaries(P, Q) == {Binary(o[1], o[2], p, q) : o \in Operators, p \in P, q \in Q}

a == Primary(<<"a">>)
b == Primary(<<"b">>)
c == Primary(<<"c">>)

\* One construct around names.
Binary1 == Binaries({a}, {b})
Others1 ==
    {Prefix("-", a), Prefix("await", a), Choice(a, b, c), Store(<<"=">>, a, b)}
      \union {Primary(text) : text \in
                {<<"num">>, <<"regex">>, <<"a", ".", "b">>, <<"a", "(", "b", ")">>,
                 <<"a", "[", "b", "]">>, <<"f", "<", "T", ">", "(", "b", ")">>, <<"[", "]">>,
                 <<"[", "b", "]">>, <<"{", "}">>, <<"{", "str", ":", "a", "}">>,
                 <<"new", "C", "(", "b", ")">>, <<"new", "a", ".", "C", "<", "T", ">", "(", ")">>}}
Once == Binary1 \union Others1

\* Two constructs, one inside the other, in every place.
Twice ==
    Binaries(Once, {c}) \union Binaries({c}, Once)
      \union {Prefix(o, p) : o \in {"!", "-", "await"}, p \in Once}
      \union {After(p, text) : p \in Once, text \in
                {<<".", "c">>, <<"(", "c", ")">>, <<"[", "c", "]">>, <<"(", ")", ".", "c">>}}
      \union {In(<<"f", "(">>, p, <<")">>) : p \in Once}
      \union {In(<<"f", "<", "Int", ">", "(", "c", ",">>, p, <<")">>) : p \in Once}
      \union {In(<<"c", "[">>, p, <<"]">>) : p \in Once}
      \union {Choice(p, c, a) : p \in Once} \union {Choice(c, p, a) : p \in Once}
      \union {Choice(c, a, p) : p \in Once}
      \union {Store(o, c, p) : o \in Stores, p \in Once} \union {Store(<<"=">>, p, c) : p \in Once}
      \union {In(<<"[", "c", ",">>, p, <<"]">>) : p \in Once}
      \union {In(<<"{", "str", ":">>, p, <<",", "num", ":", "a", "}">>) : p \in Once}
      \union {In(<<"new", "C", "(">>, p, <<")">>) : p \in Once}

\* A binary operator between two binary operations.
Pairs == Binaries(Binary1, Binary1)

Expressions == {p \in Once \union Twice \union Pairs : ~ReadsAsCall(p)}

----------------------------------------------------------------------------
(* Statements. *)

\* A statement and the tokens that, coming next, would belong to it.
Statement(text, takes) == [text |-> text, takes |-> takes]

AfterValue == {"(", "[", "-", "+"}
AfterType  == {"[", "!"}
Operands   == {"a", "f", "num", "str", "(", "[", "{", "-", "!", "func", "await", "new"}

Values ==
    {Statement(text, AfterValue) : text \in
       {<<"a">>, <<"f", "(", "b", ")">>, <<"{|", "a", "=", "b", "|}">>, <<"{|", "-", "a", "|}">>,
        <<"{|", "await", "a", "|}">>, <<"new", "C", "(", "b", ")">>,
        <<"(", "a", ")">>, <<"[", "a", "]">>, <<"{", "str", ":", "a", "}">>, <<"return", "a">>,
        <<"decl", "imut", "b", "=", "a">>, <<"decl", "a", ":", "T", "=", "num">>,
        <<"decl", "a", "[", "]", "=", "[", "]">>,
        <<"decl", "f", ":", "(", "Int", ",", "b", ":", "Int", ")", "Int", "[", "]", "?", "=", "a">>,
        <<"decl", "a", "=", "{|", "func", "(", "a", ":", "Int", ",", "b", ":", "C", "<", "Int", ">",
          ")", "Int", "{", "return", "a", ";", "}", "|}">>}}

Plain ==
    {Statement(<<"return">>, Operands), Statement(<<"decl", "a">>, {"["}),
     Statement(<<"decl", "a", ":", "T">>, AfterType),
     Statement(<<"decl", "a", ":", "C", "<", "T", ">", "!">>, {"!"}),
     Statement(<<"def", "C", "=", "T">>, AfterType),
     Statement(<<"def", "C", "<", "T", ",", "U", "=", "T'", ">", "=", "a", "<", "U'", ">">>, AfterType),
     Statement(<<"func", "f", "(", ")">>, {"a", "f", "{"}),
     Statement(<<"@", "a", "(", "b", "=", "num", ",", "str", ")", "func", "f", "(", "a", ":", "Int",
                 ",", "b", ":", "T", ")", "Int">>, AfterType \union {"{"})}

Closed ==
    {Statement(text, {}) : text \in
       {<<"import", "a">>, <<"scope", "a", "{", "decl", "a", ":", "T", ";", "}">>,
        <<"enum", "a", "{", "a", ",", "b", "=", "-", "num", "c", "}">>,
        <<"if", "(", "a", ")", "{", "}">>,
        <<"if", "(", "a", ")", "{", "a", ";", "}", "elif", "(", "b", ")", "{", "return", ";", "}",
          "elif", "(", "c", ")", "{", "}", "else", "{", "{|", "a", "=", "b", "|}", ";", "}">>,
        <<"while", "(", "{|", "a", "<", "b", "|}", ")", "{", "a", ";", "b", ";", "}">>,
        <<"for", "(", "a", ")", "{", "}">>,
        <<"secure", "(", "decl", "a", "=", "f", "(", ")", ")", "catch", "(", "b", ":", "Int", ")", "{",
          "return", "b", ";", "}">>,
        <<"decl", "a", ":", "Int", "=", "f", "(", ")", "catch", "{", "}">>,
        <<"decl", "func", "f", ":", "(", "Int", ")", "Int", "=", "func", "(", "a", ":", "Int", ")",
          "Int", "{", "return", "a", ";", "}">>,
        <<"func", "f", "(", "a", ":", "Int", ")", "Int", "{", "return", "{|", "a", "+", "b", "|}", ";",
          "}">>,
        <<"lazy", "f", "(", ")", "{", "{|", "a", "=", "{|", "await", "b", "|}", "|}", ";", "}">>,
        <<"lazy", "func", "f", "<", "T", ">", "(", "a", ":", "T'", ")", "T'", "{", "decl", "b", ":",
          "T'", "[", "]", ";", "return", "f", "<", "T'", ">", "(", "a", ")", ";", "}">>,
        <<"class", "C", "<", "T", ">", ":", "a", "<", "T'", ">", ",", "b", "{", "decl", "a", ":", "T'",
          ";", "func", "f", "<", "U", ">", "(", "b", ":", "U'", ")", "T'", "{", "return", "new", "C",
          "<", "T'", ">", "(", "b", ")", ";", "}", ";", "new", "(", "a", ":", "T'", ")", "{", "}", ";",
          "decl", "c", ":", "U", ";", "}">>,
        <<"class", "C", "{", "}">>,
        <<"interface", "C", "<", "T", ">", "{", "decl", "a", ":", "T'", ";", "func", "f", "(", ")",
          "T'", ";", "func", "f", "(", ")", "T'", "{", "return", "a", ";", "}", ";", "}">>,
        <<"struct", "C", "<", "T", ">", "{", "decl", "a", ":", "T'", ";", "decl", "b", "=", "num", ";",
          "}">>}}

Statements == Values \union Plain \union Closed

\* Statements that may stand side by side, and blocks of them.
MayFollow(s, t) == Head(Written(t.text)) \notin s.takes
Together == {st \in Statements \X Statements : MayFollow(st[1], st[2])}
Nested(s, t) ==
    <<"func", "f", "(", ")", "{", "while", "(", "a", ")", "{">> \o s.text \o <<";">> \o t.text
       \o <<";", "}", ";", "}">>

=============================================================================
