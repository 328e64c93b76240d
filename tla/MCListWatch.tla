----------------------------- MODULE MCListWatch -----------------------------
(* An instance of ListWatch. *)
EXTENDS ListWatch
=============================================================================
