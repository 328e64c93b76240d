---------------------------- MODULE DeployOutcome ----------------------------
(***************************************************************************)
(* What `lcp deploy` promises about its verdict, abstracted from how the   *)
(* deployment is watched.  Every service of a deployment settles once, as  *)
(* succeeded or failed.  The command may say "succeeded" only when every   *)
(* service succeeded, and "failed" only when every service settled and one *)
(* of them failed; otherwise it gives up without a verdict (a signal, a    *)
(* deployment the server no longer knows).                                 *)
(***************************************************************************)
CONSTANT Services

VARIABLES truth,    \* truth[s]: what became of service s on the server
          outcome   \* what the command told its user

vars == <<truth, outcome>>

Truths   == {"running", "succeeded", "failed"}
Outcomes == {"none", "succeeded", "failed", "gaveup"}

TypeOK == /\ truth \in [Services -> Truths]
          /\ outcome \in Outcomes

Init == /\ truth = [s \in Services |-> "running"]
        /\ outcome = "none"

Settle(s) ==
    /\ truth[s] = "running"
    /\ \E t \in {"succeeded", "failed"} : truth' = [truth EXCEPT ![s] = t]
    /\ UNCHANGED outcome

Judge ==
    /\ outcome = "none"
    /\ \A s \in Services : truth[s] # "running"
    /\ outcome' = IF \A s \in Services : truth[s] = "succeeded"
                    THEN "succeeded" ELSE "failed"
    /\ UNCHANGED truth

GiveUp ==
    /\ outcome = "none"
    /\ outcome' = "gaveup"
    /\ UNCHANGED truth

Next == (\E s \in Services : Settle(s)) \/ Judge \/ GiveUp

Spec == Init /\ [][Next]_vars
=============================================================================
