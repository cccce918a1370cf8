---------------------------- MODULE MCControlFlow ---------------------------
(***************************************************************************)
(* A small instance of ControlFlow for TLC: a for loop stands for do loops *)
(* too, a while loop for for-in loops.                                     *)
(***************************************************************************)
EXTENDS ControlFlow

OneOfEachKind == {"for", "while", "forof"}

=============================================================================
