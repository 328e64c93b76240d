------------------------------ MODULE MCShell ------------------------------
(* An instance of Shell. *)
EXTENDS Shell
=============================================================================
