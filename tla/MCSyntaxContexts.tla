-------------------------- MODULE MCSyntaxContexts --------------------------
(* Instance of SyntaxContexts for TLC: two labels, so that one can stand   *)
(* in the other, and one kind of function for each way a context is made;  *)
(* the bound on the depth is in the configuration.                         *)
EXTENDS SyntaxContexts, TLC

CONSTANTS a, b

MCLabels == {a, b}
LabelSymmetry == Permutations(MCLabels)

Kind(form, async, generator) ==
    [form |-> form, async |-> async, generator |-> generator]

MCKinds ==
    {Kind("declaration", FALSE, FALSE), Kind("declaration", TRUE, FALSE),
     Kind("arrow", FALSE, FALSE), Kind("arrow", TRUE, FALSE),
     Kind("method", TRUE, TRUE), Kind("constructor", FALSE, FALSE)}
=============================================================================
