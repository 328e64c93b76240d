------------------------------- MODULE Deploy -------------------------------
(***************************************************************************)
(* One run of `lcp deploy`: deployment.Deploy.Do packs the services in a   *)
(* temporary git repository, pushes it and watches the deployment;         *)
(* DeployFromGitRepository asks the server to build a repository on the    *)
(* web and watches that.  The watch is the one of DeployFeedback, and the  *)
(* server goes on with a deployment once it accepted it.                   *)
(*                                                                         *)
(* Steps run git (or cp) with exec.CommandContext: they fail at once when  *)
(* the context is canceled before they start, and may fail anyway.         *)
(***************************************************************************)
EXTENDS DeployFeedback

VARIABLES
    entry,          \* "local": Do; "repo": DeployFromGitRepository
    paramOnlyBuild, \* Params.OnlyBuild
    skipProgress,   \* Params.SkipProgress
    copyPackage,    \* whether Params.CopyPackage is set
    step,           \* the step to run
    workDir,        \* the temporary directory
    accepted,       \* server: it has the deployment
    groupUID,       \* Watch.GroupUID is known
    ticker,         \* the goroutine of wlm.Wait
    err,            \* error to return, "" if none
    ret             \* what the command returned

flags   == <<entry, paramOnlyBuild, skipProgress, copyPackage>>
results == <<step, workDir, accepted, groupUID, ticker, err, ret>>
deployVars == <<flags, results, vars>>

-----------------------------------------------------------------------------
DeployInit ==
    /\ Init
    /\ entry \in {"local", "repo"}
    /\ paramOnlyBuild \in BOOLEAN
    /\ paramOnlyBuild => skips = Services
    /\ onlyBuild = (entry = "local" /\ paramOnlyBuild)
    /\ skipProgress \in BOOLEAN
    /\ skipProgress => quiet
    /\ copyPackage \in BOOLEAN
    /\ copyPackage => entry = "local"
    /\ step = IF entry = "local" THEN "TempDir" ELSE "Build"
    /\ workDir = "none"
    /\ accepted = FALSE
    /\ groupUID = FALSE
    /\ ticker = "off"
    /\ err = ""
    /\ ret = "none"

\* ioutil.TempDir; Do returns right away when it fails.
TempDir ==
    /\ step = "TempDir"
    /\ \/ /\ workDir' = "present"
          /\ step' = "Setup"
          /\ UNCHANGED ret
       \/ /\ step' = "Returned"
          /\ ret' = "error"
          /\ UNCHANGED workDir
    /\ UNCHANGED <<flags, vars, accepted, groupUID, ticker, err>>

\* Mutant: a failed Setup returns past the deferred cleanup.
SetupLeaks ==
    /\ step = "Setup"
    /\ \/ /\ ~signaled
          /\ step' = "Init"
          /\ ticker' = IF skipProgress \/ quiet THEN "off" ELSE "on"
          /\ UNCHANGED ret
       \/ /\ step' = "Returned"
          /\ ret' = "error"
          /\ UNCHANGED ticker
    /\ UNCHANGED <<flags, vars, workDir, accepted, groupUID, err>>

\* Transport.Setup, then Watch.Start, which starts the live messages.
Setup ==
    /\ step = "Setup"
    /\ \/ /\ ~signaled
          /\ step' = "Init"
          /\ ticker' = IF skipProgress \/ quiet THEN "off" ELSE "on"
          /\ UNCHANGED err
       \/ /\ step' = "Cleanup"
          /\ err' = "error"
          /\ UNCHANGED ticker
    /\ UNCHANGED <<flags, vars, workDir, accepted, groupUID, ret>>

\* wlm.Stop: the ticker goroutine is over once it returns.
StopTicker == ticker' = IF ticker = "on" THEN "stopped" ELSE ticker

\* What a failed upload leaves alone of the watch.
watchRest == <<builds, current, visited, prints, retries, pc, verdict, openLogs>>

\* Mutant: the error is lost on the way, as with a shadowed variable.
FailDoNil ==
    /\ err' = ""
    /\ step' = "Cleanup"
    /\ StopTicker
    /\ playing' = [s \in Services |-> FALSE]
    /\ UNCHANGED watchRest

\* Mutant: every error after a signal is "too late to cancel".
FailDoTooLate ==
    /\ err' = IF signaled THEN "toolate" ELSE "error"
    /\ step' = "Cleanup"
    /\ StopTicker
    /\ playing' = [s \in Services |-> FALSE]
    /\ UNCHANGED watchRest

\* Do after an error of do: with SkipProgress it just returns, otherwise
\* StopFailedUpload ends the live messages.
FailDo ==
    /\ err' = "error"
    /\ step' = "Cleanup"
    /\ IF skipProgress THEN UNCHANGED <<playing, ticker>>
       ELSE /\ StopTicker
            /\ playing' = [s \in Services |-> FALSE]
    /\ UNCHANGED watchRest

\* preparePackage, one step per call that may fail, then AddRemote.
StepAfter ==
    CASE step = "Init"           -> "ProcessIgnored"
      [] step = "ProcessIgnored" -> "copyServices"
      [] step = "copyServices"   -> "Stage"
      [] step = "Stage"          -> "Commit"
      [] step = "Commit"         -> IF copyPackage THEN "copyGitPackage" ELSE "AddRemote"
      [] step = "copyGitPackage" -> "AddRemote"
      [] step = "AddRemote"      -> "Push"

PrepareSteps == {"Init", "ProcessIgnored", "copyServices", "Stage", "Commit",
                 "copyGitPackage", "AddRemote"}

\* copyGitPackage too runs a command, and changes nothing but its target.
Prepare ==
    /\ step \in PrepareSteps
    /\ ~signaled \/ step = "copyServices"
    /\ step' = StepAfter
    /\ UNCHANGED <<flags, vars, workDir, accepted, groupUID, ticker, err, ret>>

PrepareFails ==
    /\ step \in PrepareSteps
    /\ FailDo
    /\ UNCHANGED <<flags, server, params, signaled, workDir, accepted, groupUID, ret>>

\* git push is started.
SendPush ==
    /\ step = "Push"
    /\ ~signaled
    /\ step' = "Pushing"
    /\ UNCHANGED <<flags, vars, workDir, accepted, groupUID, ticker, err, ret>>

\* The server accepts the push; git push still runs.
AcceptPush ==
    /\ step = "Pushing"
    /\ ~accepted
    /\ accepted' = TRUE
    /\ UNCHANGED <<flags, vars, step, workDir, groupUID, ticker, err, ret>>

\* git push ends well and names the group: the watch takes over, unless the
\* progress is not wanted.
PushSucceeds ==
    /\ step = "Pushing"
    /\ accepted
    /\ groupUID' = TRUE
    /\ step' = IF skipProgress THEN "Cleanup" ELSE "Watch"
    /\ UNCHANGED <<flags, vars, workDir, accepted, ticker, err, ret>>

\* Mutant: a push that was not started by the time of the signal never fails.
PushFailsStarted ==
    /\ step = "Pushing"
    /\ FailDo
    /\ UNCHANGED <<flags, server, params, signaled, workDir, accepted, groupUID, ret>>

\* git push fails, is killed by a signal, or its answer names no group.
PushFails ==
    /\ step \in {"Push", "Pushing"}
    /\ FailDo
    /\ UNCHANGED <<flags, server, params, signaled, workDir, accepted, groupUID, ret>>

\* DeployFromGitRepository: projects.Build, then Watch.Start.
Build ==
    /\ step = "Build"
    /\ \/ /\ accepted' = TRUE
          /\ groupUID' = TRUE
          /\ ticker' = IF skipProgress \/ quiet THEN "off" ELSE "on"
          /\ step' = IF skipProgress THEN "Returned" ELSE "Watch"
          /\ ret' = IF skipProgress THEN "background" ELSE "none"
       \/ /\ accepted' \in BOOLEAN
          /\ ret' = "error"
          /\ step' = "Returned"
          /\ UNCHANGED <<groupUID, ticker>>
    /\ UNCHANGED <<flags, vars, workDir, err>>

\* Steps of Watch.Wait.
WatchStep ==
    /\ step = "Watch"
    /\ WatchNext
    /\ UNCHANGED <<flags, results>>

\* What Wait returns: exit code 64 for "too late to cancel".
WatchError == CASE verdict = "succeeded"   -> ""
                [] verdict = "failed"      -> "failed"
                [] verdict = "notfound"    -> "error"
                [] verdict = "interrupted" -> "toolate"

WatchReturns ==
    /\ step = "Watch"
    /\ pc = "done"
    /\ err' = WatchError
    /\ StopTicker
    /\ IF entry = "local"
         THEN step' = "Cleanup" /\ UNCHANGED ret
         ELSE step' = "Returned" /\ ret' = IF WatchError = "" THEN "ok" ELSE WatchError
    /\ UNCHANGED <<flags, vars, workDir, accepted, groupUID>>

\* Mutant: the error of the cleanup replaces the one of the deployment.
CleanupOverwrites ==
    /\ step = "Cleanup"
    /\ step' = "Returned"
    /\ \/ /\ workDir' = "removed"
          /\ ret' = IF skipProgress THEN "background" ELSE "ok"
       \/ /\ workDir' = "stuck"
          /\ ret' = "cleanup"
    /\ UNCHANGED <<flags, vars, accepted, groupUID, ticker, err>>

\* The deferred CleanupPackage: its own error is returned only if there is no
\* other.
Cleanup ==
    /\ step = "Cleanup"
    /\ step' = "Returned"
    /\ \/ /\ workDir' = "removed"
          /\ ret' = IF err # "" THEN err
                    ELSE IF skipProgress THEN "background" ELSE "ok"
       \/ /\ workDir' = "stuck"
          /\ ret' = IF err # "" THEN err ELSE "cleanup"
    /\ UNCHANGED <<flags, vars, accepted, groupUID, ticker, err>>

\* The server goes on with what it accepted.
ServerStep ==
    /\ accepted
    /\ \E s \in Services : Emit(s)
    /\ UNCHANGED <<flags, results>>

\* A termination signal while ctxsignal listens.
SignalStep ==
    /\ step \notin {"Build", "Returned"}
    /\ Signal
    /\ UNCHANGED <<flags, results>>

CommandNext == TempDir \/ Setup \/ Prepare \/ PrepareFails \/ SendPush
               \/ PushSucceeds \/ PushFails \/ Build \/ WatchStep
               \/ WatchReturns \/ Cleanup

DeployNext == CommandNext \/ AcceptPush \/ ServerStep \/ SignalStep

DeploySpec == DeployInit /\ [][DeployNext]_deployVars

\* The command runs, the server answers a push and settles every service.
DeployFairSpec ==
    /\ DeploySpec
    /\ WF_deployVars(CommandNext)
    /\ WF_deployVars(AcceptPush)
    /\ \A s \in Services :
          WF_deployVars(accepted /\ Emit(s) /\ UNCHANGED <<flags, results>>)

-----------------------------------------------------------------------------
DeployTypeOK ==
    /\ TypeOK
    /\ entry \in {"local", "repo"}
    /\ paramOnlyBuild \in BOOLEAN
    /\ skipProgress \in BOOLEAN
    /\ copyPackage \in BOOLEAN
    /\ step \in PrepareSteps \cup {"TempDir", "Setup", "Push", "Pushing", "Build",
                                   "Watch", "Cleanup", "Returned"}
    /\ workDir \in {"none", "present", "removed", "stuck"}
    /\ accepted \in BOOLEAN
    /\ groupUID \in BOOLEAN
    /\ ticker \in {"off", "on", "stopped"}
    /\ err \in {"", "error", "failed", "toolate"}
    /\ ret \in {"none", "ok", "background", "error", "failed", "toolate", "cleanup"}

\* A nil error means what the user takes it for: the server has the deployment
\* and, when the progress was watched, every service succeeded.
NilMeansDeployed ==
    /\ ret \in {"ok", "background"} => accepted
    /\ ret = "ok" => \A s \in Services : Truth(s) = "succeeded"

\* "Too late to cancel" is only said of a deployment the server has.
TooLateIsTrue == ret = "toolate" => accepted /\ signaled

\* The temporary directory, with its copy of the code and its credentials, is
\* gone when the command returns; if it could not be removed, the command does
\* not claim success.
NothingLeftBehind ==
    ret # "none" =>
        /\ workDir # "present"
        /\ workDir = "stuck" => ret \notin {"ok", "background"}

\* On every path the live messages are stopped before the command returns.
TickerStopped == ret # "none" => ticker # "on"

\* The whole command implements the promise made of its verdict.
DeployOutcomeOf ==
    INSTANCE DeployOutcome WITH
        truth   <- [s \in Services |-> Truth(s)],
        outcome <- CASE ret = "none"   -> "none"
                     [] ret = "ok"     -> "succeeded"
                     [] ret = "failed" -> "failed"
                     [] OTHER          -> "gaveup"
DeployImplementsOutcome == DeployOutcomeOf!Spec

\* The command returns, unless its request for the builds failed: then it may
\* wait for deployments that are never made (WaitEnds of DeployFeedback).
DeployReturns == <>(ret # "none" \/ WaitsForBuilt)
=============================================================================
