------------------------------ MODULE MCEditor ------------------------------
(* Texts for two modules, of which the second may import the first, and    *)
(* small documents: "n" is a newline, "a" an ASCII letter, "e" a letter of *)
(* two bytes and one unit, "m" a character of four bytes and two units.    *)
EXTENDS Editor

TwoBodies == [imports : {{}}, body : {"a", "b"}] \cup [imports : {{1}}, body : {"a"}]

AsciiUnits == [c \in Chars |-> 1]
AsciiWidth == [c \in Chars |-> 1]

\* Characters for which a column is not a number of bytes: no run uses them,
\* the README's section on the language server says why.
WideUnits == [c \in Chars |-> IF c = "m" THEN 2 ELSE 1]
WideWidth == [c \in Chars |-> CASE c = "e" -> 2 [] c = "m" -> 4 [] OTHER -> 1]
=============================================================================
