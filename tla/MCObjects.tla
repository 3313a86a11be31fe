----------------------------- MODULE MCObjects -----------------------------
EXTENDS Objects

MCIds == 1..16
MCNames == {"a", "b"}
MCFieldsOf == [Point |-> <<"f">>]

Three == [kind |-> "Int", n |-> 6]
Half == [kind |-> "Float", n |-> 1]
Text == [kind |-> "Str", n |-> 0]
MCLiterals == {Three, Half, Text}
MCDeclared == {[a |-> Three, b |-> Half], [a |-> Half, b |-> Text]}
=============================================================================
