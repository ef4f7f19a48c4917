----------------------------- MODULE MCConsole -----------------------------
(* A small console for TLC.                                                 *)
EXTENDS Console

=============================================================================
