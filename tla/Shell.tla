------------------------------- MODULE Shell -------------------------------
(***************************************************************************)
(* `lcp shell` and `lcp exec`: a process on an instance, over a websocket. *)
(* Run waits in a select for the goroutine run, which goes through the     *)
(* conversation with the server; the read loop of the connection calls the *)
(* handlers of the events, one at a time; another goroutine sends stdin.   *)
(* They report to p.err, a channel of capacity 1: a handler that finds it  *)
(* full blocks the read loop, and an event without a handler is lost.  The *)
(* goroutine of stdin closes it when it returns; the terminal can not be   *)
(* changed any more then.                                                  *)
(***************************************************************************)
EXTENDS ExecArgs

VARIABLES
    line, args,  \* os.Args, and the arguments of the command
    server,    \* what the server emits next
    forked,    \* server: whether it got startExec
    conn,      \* the connection: open, broken, done (its Done is closed)
    handlers,  \* the events that have a handler; chanErr is the first one of error
    loop,      \* read loop: the errors it has yet to send to p.err
    err,       \* p.err
    ctx,       \* p.ctx
    ready, readyToStartExec,  \* channels: whether a signal is in them
    auth,      \* what the handler of authentication received
    started,   \* whether execStarted was received
    chanErr,   \* whether the first handler of error got one
    run,       \* where the goroutine run is
    runErr,    \* what it returns, or is about to
    stdin,     \* where the goroutine of stdin is
    TTY,       \* whether there is a terminal
    term,      \* the terminal: cooked or raw
    first,     \* the first error that p.err ever held
    ret        \* what Run returned

signals == <<ready, readyToStartExec, auth, started, chanErr>>
input   == <<line, args, TTY>>
outside == <<server, forked>>
vars == <<outside, conn, handlers, loop, err, ctx, signals, run, runErr, stdin, input,
          term, first, ret>>

Init ==
    /\ line \in Lines
    /\ args = <<>>
    /\ server = "connect"
    /\ forked = FALSE
    /\ conn = "open"
    /\ handlers = {}
    /\ loop = <<>>
    /\ err = <<>>
    /\ ctx = "live"
    /\ ready = FALSE
    /\ readyToStartExec = FALSE
    /\ auth = "none"
    /\ started = FALSE
    /\ chanErr = FALSE
    /\ run = "prepareCommand"
    /\ runErr = "none"
    /\ stdin = "off"
    /\ TTY \in BOOLEAN
    /\ term = "cooked"
    /\ first = "none"
    /\ ret = "none"

\* Mutant: room for another error.
TwoErrors == 2

\* p.err = make(chan error, 1)
ErrCapacity == 1

\* p.err <- e
SendErr(e) ==
    /\ Len(err) < ErrCapacity
    /\ err' = Append(err, e)
    /\ first' = IF first = "none" THEN e ELSE first

Handled(e) == e \in handlers
On(es)     == handlers' = handlers \cup es

-----------------------------------------------------------------------------
(* The server and the read loop.  An event is emitted and dispatched at once: *)
(* nothing but the loop reads what is on its way.                             *)

Reads == conn = "open" /\ loop = <<>> /\ run \notin {"prepareCommand", "parsed", "Run"}

\* The server goes from one event to the next.
Emits(from, to) == server = from /\ server' = to

NamespaceReady ==
    /\ Reads
    /\ Emits("connect", "authenticate")
    /\ ready' = TRUE
    /\ UNCHANGED <<forked, conn, handlers, loop, err, ctx, readyToStartExec, auth, started,
                   chanErr, run, runErr, stdin, input, term, first, ret>>

Authentication ==
    /\ Reads
    /\ \E ok \in BOOLEAN :
        /\ Emits("authenticate", IF ok THEN "readyToStart" ELSE "over")
        /\ auth' = IF Handled("authentication") THEN IF ok THEN "ok" ELSE "failed" ELSE auth
    /\ UNCHANGED <<forked, conn, handlers, loop, err, ctx, ready, readyToStartExec, started,
                   chanErr, run, runErr, stdin, input, term, first, ret>>

ReadyToStartExec ==
    /\ Reads
    /\ Emits("readyToStart", "exec")
    /\ readyToStartExec' = Handled("readyToStartExec")
    /\ UNCHANGED <<forked, conn, handlers, loop, err, ctx, ready, auth, started, chanErr,
                   run, runErr, stdin, input, term, first, ret>>

ExecStarted ==
    /\ Reads
    /\ forked
    /\ Emits("exec", "exit")
    /\ started' = Handled("execStarted")
    /\ UNCHANGED <<forked, conn, handlers, loop, err, ctx, ready, readyToStartExec, auth,
                   chanErr, run, runErr, stdin, input, term, first, ret>>

\* execExit, or errorContainerExec: an error that ends the context.
Reports(from, event, e) ==
    /\ Reads
    /\ Emits(from, "over")
    /\ loop' = IF Handled(event) THEN <<e>> ELSE <<>>
    /\ UNCHANGED <<forked, conn, handlers, err, ctx, signals, run, runErr, stdin, input, term,
                   first, ret>>

WatchEnd == Reports("exit", "execExit", "exit")

WatchErrorContainerExec ==
    /\ server = "exec" => forked
    /\ \E from \in {"readyToStart", "exec"} : Reports(from, "errorContainerExec", "container")

\* An error of the namespace, once: the handler of Streams, which only logs it,
\* replaces the one of Run.
NamespaceError ==
    /\ Reads
    /\ ~chanErr
    /\ Handled("chanErr") /\ ~Handled("logErr")
    /\ chanErr' = TRUE
    /\ UNCHANGED <<outside, conn, handlers, loop, err, ctx, ready, readyToStartExec, auth,
                   started, run, runErr, stdin, input, term, first, ret>>

\* The connection breaks: onError and then onDisconnect, with what has a handler;
\* a close of the websocket is an error of the namespace as well.
Breaks ==
    /\ Reads
    /\ conn' = "broken"
    /\ loop' = (IF Handled("onError") THEN <<"conn">> ELSE <<>>) \o
               (IF Handled("onDisconnect") THEN <<"disconnected">> ELSE <<>>)
    /\ chanErr' \in {chanErr, chanErr \/ (Handled("chanErr") /\ ~Handled("logErr"))}
    /\ UNCHANGED <<outside, handlers, err, ctx, ready, readyToStartExec, auth, started, run,
                   runErr, stdin, input, term, first, ret>>

\* The handler sends its error and cancels the context.
HandlerSends ==
    /\ loop # <<>>
    /\ SendErr(Head(loop))
    /\ loop' = Tail(loop)
    /\ ctx' = "canceled"
    /\ UNCHANGED <<outside, conn, handlers, signals, run, runErr, stdin, input, term, ret>>

\* After the handlers, the connection is done.
ConnDone ==
    /\ conn = "broken"
    /\ loop = <<>>
    /\ conn' = "done"
    /\ UNCHANGED <<outside, handlers, loop, err, ctx, signals, run, runErr, stdin, input, term,
                   first, ret>>

-----------------------------------------------------------------------------
(* Run. *)

\* The command line; bound: of all of them, one goes on to the connection.
prepareCommand ==
    /\ run = "prepareCommand"
    /\ args' = MaybeRewrite(line)
    /\ run' = IF line = <<"exec", "ls">> THEN "Run" ELSE "parsed"
    /\ UNCHANGED <<line, TTY, outside, conn, handlers, loop, err, ctx, signals, runErr, stdin,
                   term, first, ret>>

\* The namespace, the channels, and the goroutine.
Run ==
    /\ run = "Run"
    /\ run' = "run"
    /\ On({"chanErr"})
    /\ UNCHANGED <<outside, conn, loop, err, ctx, signals, runErr, stdin, input, term, first, ret>>

Return(e) ==
    /\ ret = "none"
    /\ ret' = e
    /\ ctx' = "canceled"
    /\ UNCHANGED <<outside, conn, handlers, loop, err, signals, run, runErr, stdin, input, term,
                   first>>

\* Mutant: Run waits for the goroutine alone.
SelectRunErr == run = "returned" /\ Return(runErr)

\* select takes any case that is ready.
Select ==
    \/ chanErr /\ Return("namespace")
    \/ run = "returned" /\ Return(runErr)
    \/ conn = "done" /\ Return("conn")

-----------------------------------------------------------------------------
(* The goroutine run. *)

Step(from, to) == run = from /\ run' = to

\* return e
Returns(from, e) ==
    /\ Step(from, "returned")
    /\ runErr' = e

GoOn(from, to) ==
    /\ Step(from, to)
    /\ UNCHANGED <<outside, conn, loop, err, ctx, signals, runErr, stdin, input, term, first, ret>>

Authenticate ==
    \/ GoOn("run", "auth") /\ On({"readyToStartExec", "authentication"})
    \/ auth = "ok" /\ GoOn("auth", "waitReady") /\ UNCHANGED handlers
    \/ /\ auth = "failed"
       /\ Returns("auth", "auth")
       /\ UNCHANGED <<outside, conn, handlers, loop, err, ctx, signals, stdin, input, term,
                      first, ret>>

\* A select with p.err, p.ctx, and a signal.
Wait(from, signal, to) ==
    /\ \/ signal /\ Step(from, to) /\ UNCHANGED <<err, runErr>>
       \/ err # <<>> /\ Returns(from, Head(err)) /\ err' = Tail(err)
       \/ ctx = "canceled" /\ Returns(from, "ctx") /\ UNCHANGED err
    /\ UNCHANGED <<outside, conn, handlers, loop, ctx, signals, stdin, input, term, first, ret>>

waitReady == Wait("waitReady", ready, "onDisconnect")

handleConnections ==
    \/ GoOn("onDisconnect", "onError") /\ On({"onDisconnect"})
    \/ GoOn("onError", "Streams") /\ On({"onError"})

\* stdout and stderr are printed as they come.
Streams ==
    /\ Step("Streams", "waitStart")
    /\ On({"execExit", "logErr", "errorContainerExec"})
    /\ stdin' = "wait"
    /\ UNCHANGED <<outside, conn, loop, err, ctx, signals, runErr, input, term, first, ret>>

waitReadyToStartExec == Wait("waitStart", readyToStartExec, "Fork")

\* startExec is written, fails, or blocks for ever once the connection is done.
Fork ==
    /\ conn # "done"
    /\ \/ /\ conn = "open"
          /\ Step("Fork", "onExecStarted")
          /\ forked' = TRUE
          /\ UNCHANGED runErr
       \/ /\ conn = "broken"
          /\ Returns("Fork", "write")
          /\ UNCHANGED forked
    /\ UNCHANGED <<server, conn, handlers, loop, err, ctx, signals, stdin, input, term, first, ret>>

\* The handler is registered after the server was told to start.
waitExecStarted ==
    \/ GoOn("onExecStarted", "waitExecStarted") /\ On({"execStarted"})
    \/ started /\ GoOn("waitExecStarted", "Start") /\ UNCHANGED handlers

\* TermSession.Start: there is no terminal, it is made raw, or an error; stdin is the terminal.
Start ==
    /\ \/ ~TTY /\ Step("Start", "wait") /\ UNCHANGED <<term, runErr>>
       \/ /\ TTY /\ stdin # "closed"
          /\ Step("Start", "wait")
          /\ term' = "raw"
          /\ UNCHANGED runErr
       \/ TTY /\ Returns("Start", "terminal") /\ UNCHANGED term
    /\ UNCHANGED <<outside, conn, handlers, loop, err, ctx, signals, stdin, input, first, ret>>

\* The end of the process, or of anything else.
WaitErr ==
    /\ err # <<>>
    /\ Step("wait", "Restore")
    /\ runErr' = Head(err)
    /\ err' = Tail(err)
    /\ UNCHANGED <<outside, conn, handlers, loop, ctx, signals, stdin, input, term, first, ret>>

\* Mutant: the terminal is restored at the end of the process only.
RestoreAtExit ==
    /\ Step("Restore", "returned")
    /\ term' = IF stdin = "closed" \/ runErr # "exit" THEN term ELSE "cooked"
    /\ UNCHANGED <<outside, conn, handlers, loop, err, ctx, signals, runErr, stdin, input, first,
                   ret>>

\* The terminal is restored; of a stdin that is closed that fails, which is only logged.
Restore ==
    /\ Step("Restore", "returned")
    /\ term' = IF stdin = "closed" THEN term ELSE "cooked"
    /\ UNCHANGED <<outside, conn, handlers, loop, err, ctx, signals, runErr, stdin, input, first,
                   ret>>

-----------------------------------------------------------------------------
(* The goroutine of stdin. *)

StdinStep(from, to) == stdin = from /\ stdin' = to

\* It waits for the process, or the end of the context.
StdinWaits ==
    /\ \/ started /\ StdinStep("wait", "read")
       \/ ctx = "canceled" /\ StdinStep("wait", "return")
    /\ UNCHANGED <<outside, conn, handlers, loop, err, ctx, signals, run, runErr, input, term,
                   first, ret>>

\* End of file, or a context that was canceled while bytes were read and sent; or an error of
\* the read or of what is written.  Bytes pass.
ReadStdin ==
    /\ StdinStep("read", "return") \/ StdinStep("read", "failed")
    /\ UNCHANGED <<outside, conn, handlers, loop, err, ctx, signals, run, runErr, input, term,
                   first, ret>>

StdinFails ==
    /\ StdinStep("failed", "return")
    /\ SendErr("stdin")
    /\ ctx' = "canceled"
    /\ UNCHANGED <<outside, conn, handlers, loop, signals, run, runErr, input, term, ret>>

\* The defer of the goroutine: os.Stdin is closed, however it returns.
CloseStdin ==
    /\ StdinStep("return", "closed")
    /\ UNCHANGED <<outside, conn, handlers, loop, err, ctx, signals, run, runErr, input, term,
                   first, ret>>

-----------------------------------------------------------------------------
Events == NamespaceReady \/ Authentication \/ ReadyToStartExec \/ ExecStarted \/ WatchEnd
          \/ WatchErrorContainerExec \/ NamespaceError \/ Breaks

Goroutines == prepareCommand \/ Run \/ Authenticate \/ waitReady \/ handleConnections \/ Streams
              \/ waitReadyToStartExec \/ Fork \/ waitExecStarted \/ Start \/ WaitErr
              \/ Restore

ReadLoop == HandlerSends \/ ConnDone

pipeStdinGoroutine == StdinWaits \/ ReadStdin \/ StdinFails \/ CloseStdin

\* With Run, the program ends.
Next == /\ ret = "none"
        /\ Events \/ ReadLoop \/ Select \/ Goroutines \/ pipeStdinGoroutine

Spec == Init /\ [][Next]_vars

\* The threads run.  Nobody has to type, and the server owes nothing.
FairSpec == Spec /\ WF_vars(ret = "none" /\ ReadLoop) /\ WF_vars(ret = "none" /\ Goroutines)
                 /\ WF_vars(ret = "none" /\ Select)

-----------------------------------------------------------------------------
Errors == {"namespace", "auth", "ctx", "conn", "disconnected", "container", "write",
           "terminal", "stdin", "exit"}

TypeOK ==
    /\ line \in Lines /\ args \in Seq(Args)
    /\ server \in {"connect", "authenticate", "readyToStart", "exec", "exit", "over"}
    /\ forked \in BOOLEAN
    /\ conn \in {"open", "broken", "done"}
    /\ handlers \subseteq {"chanErr", "authentication", "readyToStartExec", "onDisconnect",
                           "onError", "execExit", "logErr", "errorContainerExec", "execStarted"}
    /\ loop \in Seq(Errors)
    /\ err \in Seq(Errors) /\ Len(err) <= ErrCapacity
    /\ ctx \in {"live", "canceled"}
    /\ ready \in BOOLEAN /\ readyToStartExec \in BOOLEAN
    /\ started \in BOOLEAN /\ chanErr \in BOOLEAN
    /\ auth \in {"none", "ok", "failed"}
    /\ run \in {"prepareCommand", "parsed", "Run", "run", "auth", "waitReady", "onDisconnect",
                "onError", "Streams", "waitStart", "Fork", "onExecStarted", "waitExecStarted",
                "Start", "wait", "Restore", "returned"}
    /\ runErr \in Errors \cup {"none"}
    /\ stdin \in {"off", "wait", "read", "failed", "return", "closed"}
    /\ TTY \in BOOLEAN
    /\ term \in {"cooked", "raw"}
    /\ first \in Errors \cup {"none"}
    /\ ret \in Errors \cup {"none"}

\* Of a line of exec without "--", everything from the first word after exec on,
\* flags included, is the command that is executed, and what is before it is lcp's.
ChildArgsAreKept ==
    run # "prepareCommand" => \A c \in DOMAIN line :
        LET of == Parse(SubSeq(line, 1, c - 1))
        IN  /\ "--" \notin ToSet(line)
            /\ of.words = <<"exec">> /\ ~of.value /\ ~IsFlag(line[c])
            => /\ Parse(args).words = <<"exec">> \o SubSeq(line, c, Len(line))
               /\ Parse(args).flags = of.flags

\* The command exits with the code of the process once its end was heard first,
\* whatever the connection does after it: the two errors of a connection that
\* breaks do not fit in p.err, so its Done, which select may prefer, stays open.
ExitIsReported ==
    first = "exit" /\ ret # "none" => ret = "exit" \/ ret = "terminal" \/ chanErr

\* The terminal is left as it was, with two exceptions: Run returned by an error of the
\* namespace or the Done of the connection before the goroutine could restore it; or the
\* goroutine of stdin, at an end of file, an error, or a key after the end of the context, had
\* closed it by then.
TerminalIsRestored ==
    ret # "none" /\ term = "raw" =>
        IF run = "returned" THEN stdin = "closed" ELSE chanErr \/ (conn = "done" /\ ret = "conn")

\* run waits for execStarted, or for the answer of the authentication, alone: an
\* error in p.err is not read, and a second one blocks the read loop.
Unheard == run = "waitExecStarted" /\ ~started /\ Len(err) = ErrCapacity

\* A connection that broke, and an error that was reported, end the command,
\* unless nobody listens.
ShellEnds ==
    /\ (conn # "open") ~> (ret # "none" \/ Unheard)
    /\ (first # "none") ~> (ret # "none" \/ Unheard)
=============================================================================
