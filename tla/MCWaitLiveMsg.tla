---------------------------- MODULE MCWaitLiveMsg ----------------------------
(* Instances of WaitLiveMsg: two messages, two texts, two spinner symbols. *)
EXTENDS WaitLiveMsg
=============================================================================
