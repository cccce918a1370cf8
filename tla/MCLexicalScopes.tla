--------------------------- MODULE MCLexicalScopes ---------------------------
(***************************************************************************)
(* Small instances of LexicalScopes for TLC.                               *)
(***************************************************************************)
EXTENDS LexicalScopes

=============================================================================
