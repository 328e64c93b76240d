---------------------------- MODULE MCLoginServer ----------------------------
(* Instances of LoginServer. *)
EXTENDS LoginServer
=============================================================================
