--------------------------- MODULE MCExpressions ---------------------------
(* Expressions over one name of each type the kinds tell apart, a Float    *)
(* array, an ordinary function and a lazy one.                             *)
EXTENDS Expressions

MCTypeOf == [l |-> "Long", f |-> "Float", b |-> "Bool", o |-> "Any"]
MCElementOf == [a |-> "Float"]
MCReturns == [g |-> "Float", z |-> "Int"]
MCLazy == {"z"}

=============================================================================
