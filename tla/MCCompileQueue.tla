--------------------------- MODULE MCCompileQueue ---------------------------
(***************************************************************************)
(* Small instances of CompileQueue for TLC.                                *)
(***************************************************************************)
EXTENDS CompileQueue

=============================================================================
