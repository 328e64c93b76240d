-------------------------- MODULE MCDeployFeedback --------------------------
(***************************************************************************)
(* Instances of DeployFeedback.  ShortCycle has every activity type, on    *)
(* courses shorter than those of the server: what the watch does depends   *)
(* on which types it saw, not on how many came before.                     *)
(***************************************************************************)
EXTENDS DeployFeedback

ShortCycle ==
    [b \in BOOLEAN |-> [t \in ActivityTypes \cup {""} |->
        CASE t = ""               -> {"BuildStarted", "ServiceCreated"}
          [] t = "ServiceCreated" -> {"BuildPushed"}
          [] t = "BuildPushed"    -> {"BuildFailed"}
          [] t = "BuildStarted"   -> {"BuildSucceeded"}
          [] t = "BuildSucceeded" -> IF b THEN {}
                                     ELSE {"DeployCreated", "DeployPending",
                                           "DeployStarted"}
          [] t = "DeployCreated"  -> {"DeployCanceled"}
          [] t = "DeployPending"  -> {"DeployTimeout"}
          [] t = "DeployStarted"  -> {"DeploySucceeded", "DeployFailed"}
          [] t = "DeployFailed"   -> {"DeployRollback"}
          [] OTHER                -> {}]]
=============================================================================
