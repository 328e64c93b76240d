------------------------------ MODULE MCDeploy ------------------------------
(***************************************************************************)
(* Instances of Deploy: the life cycle keeps one activity type of each     *)
(* kind the watch tells apart.                                             *)
(***************************************************************************)
EXTENDS Deploy

BriefCycle ==
    [b \in BOOLEAN |-> [t \in ActivityTypes \cup {""} |->
        CASE t = ""               -> {"BuildStarted"}
          [] t = "BuildStarted"   -> {"BuildSucceeded", "BuildFailed"}
          [] t = "BuildSucceeded" -> IF b THEN {}
                                     ELSE {"DeploySucceeded", "DeployCanceled"}
          [] OTHER                -> {}]]
=============================================================================
