----------------------------- MODULE MCLogWatch -----------------------------
(* An instance of LogWatch: answers of two lines, of a log of three. *)
EXTENDS LogWatch
=============================================================================
