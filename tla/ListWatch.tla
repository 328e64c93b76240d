------------------------------ MODULE ListWatch ------------------------------
(***************************************************************************)
(* `lcp list`, and its commands projects, services and instances, once or  *)
(* with --watch (packages list and listinstances, the same code twice).    *)
(* A goroutine fetches the list and stores it, with the lock held until    *)
(* the channel `updated` (capacity 1) took its signal; the main one        *)
(* receives the signal, and reads what is stored under the read lock.      *)
(*                                                                         *)
(* A list is the number of its version on the server.                      *)
(***************************************************************************)
EXTENDS Naturals

CONSTANTS MaxVersions,  \* bound: versions of the list
          MaxRetry      \* bound: fetches that fail in a row

ASSUME VersionsAssumption == MaxVersions \in Nat \ {0} /\ MaxRetry \in Nat

Versions == 1 .. MaxVersions
Failed   == 0                   \* in the place of a version
Blank    == [retry |-> 0, header |-> 0, rows |-> 0]

VARIABLES
    now,        \* server: the version of the list
    cmd,        \* the command
    watch,      \* --watch
    ctx,        \* l.ctx: live, canceled
    pc,         \* where the two goroutines are
    fetched,    \* what each of them fetched
    lastError, retry, Projects,  \* fields of List, guarded by watchMutex
    updated,    \* whether the channel holds a signal
    screen,     \* the frame on the terminal
    ret         \* how the command ended

input  == <<cmd, watch>>
fields == <<lastError, retry, Projects>>
vars   == <<now, cmd, watch, ctx, pc, fetched, lastError, retry, Projects, updated,
            screen, ret>>

Threads == {"main", "update"}

Init ==
    /\ now = 1
    /\ cmd \in {"list", "projects", "services", "instances"}
    /\ watch \in BOOLEAN
    /\ ctx = "live"
    /\ pc = [main |-> "preRun", update |-> "off"]
    /\ fetched = [t \in Threads |-> Failed]
    /\ lastError = FALSE
    /\ retry = 0
    /\ Projects = 0
    /\ updated = FALSE
    /\ screen = Blank
    /\ ret = "none"

Goto(t, from, to) == pc[t] = from /\ pc' = [pc EXCEPT ![t] = to]

\* The services change on the server.
Change ==
    /\ now < MaxVersions
    /\ now' = now + 1
    /\ UNCHANGED <<input, ctx, pc, fetched, fields, updated, screen, ret>>

-----------------------------------------------------------------------------
(* The command. *)

End(from, r) ==
    /\ Goto("main", from, "done")
    /\ ret' = r
    /\ UNCHANGED <<now, input, ctx, fetched, fields, updated, screen>>

\* preRun: the flags are wrong, checkProjectOrServiceExists fails, or it goes on.
Enter(c, next) ==
    /\ cmd = c
    /\ \/ End("preRun", "error")
       \/ /\ Goto("main", "preRun", next)
          /\ UNCHANGED <<now, input, ctx, fetched, fields, updated, screen, ret>>

preRun == Enter("list", "listRun")
ListServicesCmd == Enter("services", "listRun")
ListProjectsCmd == Enter("projects", "listRun")
ListInstancesCmd == Enter("instances", "check")

\* instances asks once before it lists.
checkInstances ==
    \/ End("check", "error")
    \/ /\ Goto("main", "check", "listRun")
       /\ UNCHANGED <<now, input, ctx, fetched, fields, updated, screen, ret>>

\* List.Once or List.Watch.
listRun ==
    /\ pc["main"] = "listRun"
    /\ pc' = IF watch THEN [main |-> "select", update |-> "wait"]
                      ELSE [pc EXCEPT !["main"] = "fetch"]
    /\ UNCHANGED <<now, input, ctx, fetched, fields, updated, screen, ret>>

\* Only `list` and `list instances` end a watch on a signal; it kills the others.
Terminates == watch /\ cmd \in {"list", "instances"}

Signal ==
    /\ pc["main"] # "done"
    /\ ctx = "live"
    /\ IF Terminates /\ pc["main"] \notin {"preRun", "check", "listRun"}
         THEN ctx' = "canceled" /\ UNCHANGED <<pc, ret>>
         ELSE /\ pc' = [main |-> "done", update |-> "over"]
              /\ ret' = "killed"
              /\ UNCHANGED ctx
    /\ UNCHANGED <<now, input, fetched, fields, updated, screen>>

-----------------------------------------------------------------------------
(* updateHandler, in either thread. *)

\* update: the limiter lets the next request go...
RateWait ==
    /\ ctx = "live"
    /\ Goto("update", "wait", "fetch")
    /\ UNCHANGED <<now, input, ctx, fetched, fields, updated, screen, ret>>

\* ... or fails with the context.
UpdateEnds ==
    /\ ctx = "canceled"
    /\ Goto("update", "wait", "over")
    /\ UNCHANGED <<now, input, ctx, fetched, fields, updated, screen, ret>>

\* The answer, an error, or the timeout of 30 seconds.
Answer(t) ==
    /\ Goto(t, "fetch", "lock")
    /\ \/ fetched' = [fetched EXCEPT ![t] = now]
       \/ /\ retry < MaxRetry \/ ctx = "canceled"
          /\ fetched' = [fetched EXCEPT ![t] = Failed]
    /\ UNCHANGED <<now, input, ctx, fields, updated, screen, ret>>

fetchProjects(t)  == cmd # "instances" /\ Answer(t)
fetchInstances(t) == cmd = "instances" /\ Answer(t)

\* Mutant: the list is kept once it is known.
StoreOnce(t) ==
    /\ Goto(t, "lock", "send")
    /\ lastError' = (fetched[t] = Failed)
    /\ retry' = IF fetched[t] = Failed THEN retry + 1 ELSE 0
    /\ Projects' = IF Projects = 0 THEN fetched[t] ELSE Projects
    /\ UNCHANGED <<now, input, ctx, fetched, updated, screen, ret>>

\* The lock is taken and the fields are set.
Store(t) ==
    /\ Goto(t, "lock", "send")
    /\ lastError' = (fetched[t] = Failed)
    /\ IF fetched[t] = Failed
         THEN retry' = retry + 1 /\ UNCHANGED Projects
         ELSE retry' = 0 /\ Projects' = fetched[t]
    /\ UNCHANGED <<now, input, ctx, fetched, updated, screen, ret>>

\* Mutant: an update that failed is not signaled.
SendOnSuccess(t) ==
    /\ ~updated
    /\ Goto(t, "send", IF t = "main" THEN "receive" ELSE "wait")
    /\ updated' = ~lastError
    /\ UNCHANGED <<now, input, ctx, fetched, fields, screen, ret>>

\* l.updated <- struct{}{}, and the lock is released.
Send(t) ==
    /\ ~updated
    /\ Goto(t, "send", IF t = "main" THEN "receive" ELSE "wait")
    /\ updated' = TRUE
    /\ UNCHANGED <<now, input, ctx, fetched, fields, screen, ret>>

\* The handler of both packages.
updateHandler(t) == fetchProjects(t) \/ fetchInstances(t) \/ Store(t) \/ Send(t)

\* watchMutex is held by updateHandler.
Locked == pc["update"] = "send"

-----------------------------------------------------------------------------
(* watch and watchHandler. *)

\* The next thing the main thread does after a frame.
Loop == IF watch THEN "select" ELSE "result"

Tick ==
    /\ Goto("main", "select", "receive")
    /\ UNCHANGED <<now, input, ctx, fetched, fields, updated, screen, ret>>

\* select looks at both cases, and takes any that is ready.
WatchEnds == ctx = "canceled" /\ End("select", "ok")

Receive ==
    /\ updated
    /\ updated' = FALSE
    /\ Goto("main", "receive", IF ctx = "canceled" THEN Loop ELSE "read")
    /\ UNCHANGED <<now, input, ctx, fetched, fields, screen, ret>>

\* Mutant: the handler looks at the context only after a signal.
CanceledByUpdate ==
    /\ ctx = "canceled"
    /\ updated
    /\ Goto("main", "receive", Loop)
    /\ UNCHANGED <<now, input, ctx, fetched, fields, updated, screen, ret>>

\* The context is done before a signal comes.
Canceled ==
    /\ ctx = "canceled"
    /\ Goto("main", "receive", Loop)
    /\ UNCHANGED <<now, input, ctx, fetched, fields, updated, screen, ret>>

\* The error and the number of the retry; List.Once leaves it to its caller.
ReadError ==
    /\ ~Locked
    /\ Goto("main", "read", IF lastError THEN Loop ELSE "print")
    /\ screen' = IF lastError /\ watch THEN [Blank EXCEPT !.retry = retry] ELSE screen
    /\ UNCHANGED <<now, input, ctx, fetched, fields, updated, ret>>

\* The list; the header is made from it again, without the lock.
printProjects ==
    /\ ~Locked
    /\ cmd # "instances"
    /\ Goto("main", "print", "header")
    /\ screen' = [Blank EXCEPT !.rows = Projects]
    /\ UNCHANGED <<now, input, ctx, fetched, fields, updated, ret>>

printHeaders ==
    /\ Goto("main", "header", Loop)
    /\ screen' = [screen EXCEPT !.header = Projects]
    /\ UNCHANGED <<now, input, ctx, fetched, fields, updated, ret>>

printInstances ==
    /\ ~Locked
    /\ cmd = "instances"
    /\ Goto("main", "print", Loop)
    /\ screen' = [Blank EXCEPT !.rows = Projects, !.header = Projects]
    /\ UNCHANGED <<now, input, ctx, fetched, fields, updated, ret>>

\* List.Once returns lastError.
OnceReturns == End("result", IF lastError THEN "error" ELSE "ok")

watchHandler == Receive \/ Canceled \/ ReadError \/ printProjects \/ printHeaders
                \/ printInstances

UpdateNext == RateWait \/ UpdateEnds \/ updateHandler("update")

MainNext == preRun \/ ListServicesCmd \/ ListProjectsCmd \/ ListInstancesCmd
            \/ checkInstances \/ listRun \/ updateHandler("main") \/ Tick
            \/ watchHandler \/ OnceReturns

Next == Change \/ Signal \/ UpdateNext \/ MainNext \/ WatchEnds

Spec == Init /\ [][Next]_vars

\* Both threads run.  The ticker fires again and again, but of two ready cases
\* select takes each again and again too.
FairSpec == /\ Spec
            /\ WF_vars(UpdateNext) /\ WF_vars(MainNext) /\ SF_vars(WatchEnds)

-----------------------------------------------------------------------------
TypeOK ==
    /\ now \in Versions
    /\ cmd \in {"list", "projects", "services", "instances"}
    /\ watch \in BOOLEAN
    /\ ctx \in {"live", "canceled"}
    /\ pc["main"] \in {"preRun", "check", "listRun", "fetch", "lock", "send", "select",
                       "receive", "read", "print", "header", "result", "done"}
    /\ pc["update"] \in {"off", "wait", "fetch", "lock", "send", "over"}
    /\ fetched \in [Threads -> Versions \cup {Failed}]
    /\ lastError \in BOOLEAN
    /\ retry \in Nat
    /\ Projects \in Versions \cup {0}
    /\ updated \in BOOLEAN
    /\ screen \in [retry : Nat, header : Versions \cup {0}, rows : Versions \cup {0}]
    /\ ret \in {"none", "ok", "error", "killed"}

\* What the terminal would show of the fields.
Stored == IF lastError THEN [Blank EXCEPT !.retry = retry]
          ELSE [Blank EXCEPT !.rows = Projects, !.header = Projects]

\* "List of services will be updated when a change occurs": no update is lost.
\* Whenever no signal is on its way, the frame is the last answer or its error,
\* though signals merge, fields are read in three steps and the header unlocked.
ScreenIsCurrent ==
    watch /\ ctx = "live" /\ pc["main"] \in {"select", "receive"} /\ ~updated /\ ~Locked
        => screen = IF Projects = 0 /\ ~lastError THEN Blank ELSE Stored

\* updateHandler holds the lock and waits for a receiver, who waits for the lock.
Stuck == Locked /\ updated /\ pc["main"] \in {"read", "print"}

\* A watch that a signal canceled ends, unless the threads wait for each other;
\* without --watch the command always ends.
ListEnds ==
    /\ (ctx = "canceled") ~> (pc["main"] = "done" \/ Stuck)
    /\ ~watch ~> (pc["main"] = "done")

\* A change on the server is on the terminal in the end, if answers come.
ChangeIsShown ==
    \A v \in Versions :
        (now = v) ~> (screen.rows >= v \/ pc["main"] = "done" \/ ctx = "canceled"
                      \/ Stuck \/ lastError)
=============================================================================
