--------------------------- MODULE MCRegAllocator ---------------------------
(***************************************************************************)
(* Small instances of RegAllocator for TLC.  In MCRegAllocator 8 bits name *)
(* four registers and 16 bits twelve, so that functions of a few           *)
(* instructions have to be adjusted.  In MCRegAllocatorRest all registers  *)
(* fit their instructions: only the orders in which they are taken and     *)
(* given back matter.                                                      *)
(***************************************************************************)
EXTENDS RegAllocator

=============================================================================
