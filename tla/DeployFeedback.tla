--------------------------- MODULE DeployFeedback ---------------------------
(***************************************************************************)
(* feedback.Watch: the CLI polls the activities of a deployment group and  *)
(* decides, service by service, whether the deployment is over and how it  *)
(* went (deployment/internal/feedback).                                    *)
(*                                                                         *)
(* The server is external.  It appends activities to the feed of each      *)
(* service, in the order of their createdAt.  The watch keeps, for each    *)
(* service, the last activity it processed and the set of activity types   *)
(* it ever processed, asks for the feed once per tick, and stops on the    *)
(* first of: all services final, a 404, a termination signal.              *)
(*                                                                         *)
(* A poll reads the feed in one step: its handling touches only state of   *)
(* the watch, and the feed only grows.                                     *)
(***************************************************************************)
EXTENDS Integers, Sequences

CONSTANTS Services,       \* services of the deployment
          MaxRetries,     \* bound: consecutive polls that fail with no signal
          Follows         \* server: Follows[b][t] are the activities that may
                          \* come after t ("" before the first), for a service
                          \* that is only built (b) or deployed too (~b)

VARIABLES
    feed,       \* server: activities of each service, oldest first
    skips,      \* server: the services that are built and not deployed
    onlyBuild,          \* Watch.OnlyBuild
    quiet,              \* Watch.Quiet
    onlyBuildServices,  \* Watch.onlyBuildServices
    buildsErr,          \* "can't get builds" was printed
    current,            \* swatch.current, "" before the first activity
    visited,            \* swatch.visited
    playing,            \* whether the spinner of the service's line runs
    prints,             \* lines printed in quiet mode, by service and type
    retries,            \* N of "(retrying to get status #N)", 0 without it
    signaled,           \* Watch.ctx was canceled by a termination signal
    pc,                 \* where Wait is
    verdict,            \* how Wait returned
    openLogs            \* errorhandler.SetAfterError was given maybeOpenLogs

server == <<feed, skips>>
params == <<onlyBuild, quiet>>
builds == <<onlyBuildServices, buildsErr>>
lines  == <<current, visited, playing, prints>>
vars   == <<feed, skips, onlyBuild, quiet, onlyBuildServices, buildsErr, current,
            visited, playing, prints, retries, signaled, pc, verdict, openLogs>>

-----------------------------------------------------------------------------
BuildTypes  == {"BuildStarted", "BuildPushed", "BuildSucceeded", "BuildFailed"}
DeployTypes == {"DeployCreated", "DeployPending", "DeployStarted",
                "DeployFailed", "DeployCanceled", "DeployTimeout",
                "DeployRollback", "DeploySucceeded"}
ActivityTypes == BuildTypes \cup DeployTypes \cup {"ServiceCreated"}
FailureTypes  == {"BuildFailed", "DeployFailed", "DeployCanceled",
                  "DeployTimeout", "DeployRollback"}

ASSUME MaxRetriesAssumption == MaxRetries \in Nat

\* The life cycle of a service on the server: it ends with its success, and
\* after a failure comes nothing but another failure (a rollback).
ASSUME FollowsAssumption ==
    /\ Follows \in [BOOLEAN -> [ActivityTypes \cup {""} -> SUBSET ActivityTypes]]
    /\ \A b \in BOOLEAN : Follows[b]["DeploySucceeded"] = {}
    /\ Follows[TRUE]["BuildSucceeded"] = {}
    /\ \A b \in BOOLEAN, t \in FailureTypes : Follows[b][t] \subseteq FailureTypes

LastOf(q) == IF q = <<>> THEN "" ELSE q[Len(q)]

-----------------------------------------------------------------------------
skippedDeploy(s) == onlyBuild \/ s \in onlyBuildServices

isValidState(s, t) ==
    t \in (IF skippedDeploy(s) THEN BuildTypes ELSE BuildTypes \cup DeployTypes)

\* Mutant: a service that is built counts as deployed.
isFinalStateBuilt(s, t) ==
    t \in {"BuildFailed", "BuildSucceeded"} \cup FailureTypes \cup {"DeploySucceeded"}

\* Mutant: a rollback is missing from the final states.
isFinalStateNoRollback(s, t) ==
    t \in (IF skippedDeploy(s) THEN {"BuildFailed", "BuildSucceeded"}
           ELSE (FailureTypes \ {"DeployRollback"}) \cup {"DeploySucceeded"})

\* isFinalState for a service whose last processed activity is t
isFinalState(s, t) ==
    t \in (IF skippedDeploy(s) THEN {"BuildFailed", "BuildSucceeded"}
                               ELSE FailureTypes \cup {"DeploySucceeded"})

\* Mutant: a build that succeeded falls in the default case of the switch.
PlayedTypesNoBuilt(s) ==
    {"BuildStarted", "BuildPushed", "DeployCreated", "DeployPending", "DeployStarted"}

\* Activity types whose message is played and not stopped, by the switches of
\* updateBuildActivitiesStateMessage and updateDeployActivitiesStateMessage.
PlayedTypes(s) ==
    IF skippedDeploy(s) THEN {"BuildStarted", "BuildPushed"}
    ELSE {"BuildStarted", "BuildPushed", "BuildSucceeded", "DeployCreated",
          "DeployPending", "DeployStarted"}

\* Mutant: activities already visited are processed again.
FreshRevisited(s) == {i \in DOMAIN feed[s] : isValidState(s, feed[s][i])}

\* Positions of the feed that sync processes: valid, of a type never seen.
Fresh(s) ==
    {i \in DOMAIN feed[s] :
        /\ isValidState(s, feed[s][i])
        /\ feed[s][i] \notin visited[s]
        /\ \A j \in 1 .. (i - 1) : feed[s][j] # feed[s][i]}

\* sync applies its list in order, so the last fresh activity stays current.
Synced(s) ==
    LET fresh == Fresh(s)
    IN  IF fresh = {} THEN current[s]
        ELSE feed[s][CHOOSE i \in fresh : \A j \in fresh : j =< i]

sync ==
    /\ current' = [s \in Services |-> Synced(s)]
    /\ visited' = [s \in Services |-> visited[s] \cup {feed[s][i] : i \in Fresh(s)}]
    /\ prints' =
         [s \in Services |->
            LET fresh == Fresh(s)
            IN  [t \in ActivityTypes |->
                   IF quiet /\ \E i \in fresh : feed[s][i] = t
                     THEN prints[s][t] + 1 ELSE prints[s][t]]]

-----------------------------------------------------------------------------
Init ==
    /\ feed = [s \in Services |-> <<>>]
    /\ skips \in SUBSET Services
    /\ onlyBuild \in BOOLEAN
    /\ onlyBuild => skips = Services
    /\ quiet \in BOOLEAN
    /\ onlyBuildServices = {}
    /\ buildsErr = FALSE
    /\ current = [s \in Services |-> ""]
    /\ visited = [s \in Services |-> {}]
    /\ playing = [s \in Services |-> TRUE]
    /\ prints = [s \in Services |-> [t \in ActivityTypes |-> 0]]
    /\ retries = 0
    /\ signaled = FALSE
    /\ pc = "mark"
    /\ verdict = "none"
    /\ openLogs = FALSE

\* The server goes on with service s.
Emit(s) ==
    /\ \E t \in Follows[(s \in skips)][LastOf(feed[s])] :
          feed' = [feed EXCEPT ![s] = Append(@, t)]
    /\ UNCHANGED <<skips, params, builds, lines, retries, signaled,
                   pc, verdict, openLogs>>

\* SIGINT or SIGTERM reaches the process: ctxsignal cancels Watch.ctx.
Signal ==
    /\ pc # "done"
    /\ ~signaled
    /\ signaled' = TRUE
    /\ UNCHANGED <<server, params, builds, lines, retries, pc,
                   verdict, openLogs>>

\* Mutant: the services whose deployment is skipped are not marked.
MarkNoSkipped ==
    /\ pc = "mark"
    /\ \/ /\ onlyBuildServices' = IF onlyBuild THEN Services ELSE {}
          /\ UNCHANGED buildsErr
       \/ /\ buildsErr' = TRUE
          /\ UNCHANGED onlyBuildServices
    /\ pc' = "tick"
    /\ UNCHANGED <<server, params, lines, retries, signaled, verdict, openLogs>>

\* markBuildOnlyServices: the services that are built and not deployed, or an
\* error that is printed and otherwise ignored.
markBuildOnlyServices ==
    /\ pc = "mark"
    /\ \/ /\ onlyBuildServices' = IF onlyBuild THEN Services ELSE skips
          /\ UNCHANGED buildsErr
       \/ /\ buildsErr' = TRUE
          /\ UNCHANGED onlyBuildServices
    /\ pc' = "tick"
    /\ UNCHANGED <<server, params, lines, retries, signaled, verdict, openLogs>>

\* The head of the loop of wait, with a live context: the next poll is sent.
SendPoll ==
    /\ pc = "tick"
    /\ ~signaled
    /\ pc' = "poll"
    /\ UNCHANGED <<server, params, builds, lines, retries, signaled,
                   verdict, openLogs>>

\* Wait returns: the header is rewritten and wlm.Stop ends every line.
Return(v, hook) ==
    /\ pc' = "done"
    /\ verdict' = v
    /\ openLogs' = hook
    /\ retries' = 0
    /\ playing' = [s \in Services |-> FALSE]

\* Mutant: the context is only looked at after a poll that went well.
InterruptedIfNoError ==
    /\ pc = "tick"
    /\ signaled
    /\ retries = 0
    /\ Return("interrupted", FALSE)
    /\ UNCHANGED <<server, params, builds, current, visited, prints,
                   signaled>>

\* The head of the loop of wait, with a canceled context: handleWaitError.
Interrupted ==
    /\ pc = "tick"
    /\ signaled
    /\ Return("interrupted", FALSE)
    /\ UNCHANGED <<server, params, builds, current, visited, prints,
                   signaled>>

\* A poll is answered and some service is not final yet.
PollPending ==
    /\ pc = "poll"
    /\ sync
    /\ \E s \in Services : ~isFinalState(s, Synced(s))
    /\ playing' = [s \in Services |-> IF Fresh(s) = {} THEN playing[s]
                                      ELSE Synced(s) \in PlayedTypes(s)]
    /\ retries' = 0
    /\ pc' = "tick"
    /\ UNCHANGED <<server, params, builds, signaled, verdict, openLogs>>

\* Mutant: the watch ends as soon as one service is final.
PollFinalFirst ==
    /\ pc = "poll"
    /\ sync
    /\ \E s \in Services : isFinalState(s, Synced(s))
    /\ Return(IF \E s \in Services : Synced(s) \in FailureTypes
                THEN "failed" ELSE "succeeded", FALSE)
    /\ UNCHANGED <<server, params, builds, signaled>>

\* Mutant: setFinalStates forgets the services that were rolled back.
PollFinalNoRollback ==
    /\ pc = "poll"
    /\ sync
    /\ \A s \in Services : isFinalState(s, Synced(s))
    /\ Return(IF \E s \in Services : Synced(s) \in FailureTypes \ {"DeployRollback"}
                THEN "failed" ELSE "succeeded", FALSE)
    /\ UNCHANGED <<server, params, builds, signaled>>

\* A poll is answered and every service is final: setFinalStates judges, and
\* maybeSetOpenLogsFunc registers the offer to open the logs.
PollFinal ==
    /\ pc = "poll"
    /\ sync
    /\ \A s \in Services : isFinalState(s, Synced(s))
    /\ Return(IF \E s \in Services : Synced(s) \in FailureTypes
                THEN "failed" ELSE "succeeded",
              \E s \in Services : Synced(s) \in {"BuildFailed", "DeployFailed"})
    /\ UNCHANGED <<server, params, builds, signaled>>

\* A poll fails: timeout, network, a canceled context, any status but 404.
PollError ==
    /\ pc = "poll"
    /\ retries < MaxRetries \/ signaled
    /\ retries' = retries + 1
    /\ pc' = "tick"
    /\ UNCHANGED <<server, params, builds, lines, signaled, verdict,
                   openLogs>>

\* A poll is answered with a 404: the error ends the watch.
PollNotFound ==
    /\ pc = "poll"
    /\ Return("notfound", FALSE)
    /\ UNCHANGED <<server, params, builds, current, visited, prints,
                   signaled>>

WatchNext == \/ markBuildOnlyServices
             \/ SendPoll
             \/ Interrupted
             \/ PollPending
             \/ PollFinal
             \/ PollError
             \/ PollNotFound

Next == \/ \E s \in Services : Emit(s)
        \/ Signal
        \/ WatchNext

Spec == Init /\ [][Next]_vars

\* The watch runs; nothing is assumed of the server or of signals.
FairSpec == Spec /\ WF_vars(WatchNext)

-----------------------------------------------------------------------------
TypeOK ==
    /\ feed \in [Services -> Seq(ActivityTypes)]
    /\ skips \subseteq Services
    /\ onlyBuild \in BOOLEAN
    /\ quiet \in BOOLEAN
    /\ onlyBuildServices \subseteq Services
    /\ buildsErr \in BOOLEAN
    /\ current \in [Services -> ActivityTypes \cup {""}]
    /\ visited \in [Services -> SUBSET ActivityTypes]
    /\ playing \in [Services -> BOOLEAN]
    /\ prints \in [Services -> [ActivityTypes -> Nat]]
    /\ retries \in 0 .. (MaxRetries + 1)
    /\ signaled \in BOOLEAN
    /\ pc \in {"mark", "tick", "poll", "done"}
    /\ verdict \in {"none", "succeeded", "failed", "notfound", "interrupted"}
    /\ openLogs \in BOOLEAN

Emitted(s) == {feed[s][i] : i \in DOMAIN feed[s]}

\* What became of service s on the server.
Truth(s) ==
    IF Emitted(s) \cap FailureTypes # {} THEN "failed"
    ELSE IF LastOf(feed[s]) = "DeploySucceeded"
            \/ (s \in skips /\ LastOf(feed[s]) = "BuildSucceeded")
      THEN "succeeded" ELSE "running"

\* Wait tells the user that the deployment succeeded only if every service
\* did: no failed, unfinished or unwatched service hides behind the message,
\* whatever was skipped, retried or learned in one poll.
SuccessIsTrue ==
    verdict = "succeeded" => \A s \in Services : Truth(s) = "succeeded"

\* Wait reports a failure, or offers to open the logs, only when the server
\* recorded a failure of that kind and no service is still running.
FailureIsTrue ==
    /\ verdict = "failed" =>
         /\ \E s \in Services : Truth(s) = "failed"
         /\ \A s \in Services : Truth(s) # "running"
    /\ openLogs =>
         \E s \in Services : Emitted(s) \cap {"BuildFailed", "DeployFailed"} # {}

\* A spinner runs exactly for the services Wait still waits for: the switches
\* that pick PlayText or StopText agree with those of isFinalState.
SpinnersMatchStates ==
    \A s \in Services :
        playing[s] <=> (pc # "done" /\ ~isFinalState(s, current[s]))

\* In quiet mode each transition of a service is printed once, however often
\* the polls return it, and nothing else is printed.
PrintedOnce ==
    \A s \in Services, t \in ActivityTypes :
        prints[s][t] = IF quiet /\ t \in visited[s] THEN 1 ELSE 0

\* Abstract outcome of the deployment, and the command as its implementation.
Outcome ==
    INSTANCE DeployOutcome WITH
        truth   <- [s \in Services |-> Truth(s)],
        outcome <- IF verdict \in {"notfound", "interrupted"} THEN "gaveup"
                   ELSE verdict

\* The watch implements the promise made of the verdict: a service settles
\* once, and the verdict is given once, from what all services settled to.
ImplementsOutcome == Outcome!Spec

\* What markBuildOnlyServices costs when its request failed: a service the
\* server is done with, because it only builds it, is taken for one that is
\* still to be deployed.
WaitsForBuilt ==
    /\ buildsErr
    /\ ~onlyBuild
    /\ \E s \in skips : LastOf(feed[s]) = "BuildSucceeded"

\* Wait returns once the server settled every service ("Wait for deployment to
\* finish"), unless the request for the builds failed and a service is only
\* built: the error is printed, and Wait waits on for a deployment that is never
\* made (markBuildOnlyServices).  After a termination signal it returns in any
\* case, whatever the server does and whether the builds are known.
WaitEnds ==
    /\ (\A s \in Services : <>(Truth(s) # "running")) => <>(pc = "done" \/ WaitsForBuilt)
    /\ signaled ~> (pc = "done")
=============================================================================
