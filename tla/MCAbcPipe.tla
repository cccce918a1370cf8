----------------------------- MODULE MCAbcPipe ------------------------------
(***************************************************************************)
(* Small instances of AbcPipe for TLC.                                     *)
(***************************************************************************)
EXTENDS AbcPipe

(* A "#$" that only looks escaped, and a "#" that stands before the        *)
(* closing brace.                                                          *)
HardTexts == {<<"#", "$", "#">>}

=============================================================================
