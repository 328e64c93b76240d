---------------------------- MODULE Terminal_proofs ----------------------------
(***************************************************************************)
(* Theorems about what the CLI does with the terminal.                     *)
(*                                                                         *)
(* The first part is about Shell, a process on an instance: that it leaves *)
(* the terminal as it was, what it returns, and which arguments it gets,   *)
(* of a line of any length.  The second one is about WaitLiveMsg, for any  *)
(* messages, texts, spinners and edits: its types, that the ticker is over *)
(* when Stop returns, and that the last frame shows the last texts.        *)
(***************************************************************************)
EXTENDS Shell, WaitLiveMsg, WellFoundedInduction, SequenceTheorems, TLAPS

\* The goroutine run has told the server to start the process.
Forked == {"onExecStarted", "waitExecStarted", "Start", "wait", "Restore", "returned"}

\* It has read the error that it returns.
Heard == {"Restore", "returned"}

\* Where run is says what it has registered, and returned.
RunInv ==
    /\ runErr # "none" => run \in Heard
    /\ run \in {"Streams", "waitStart", "Fork"} \cup (Forked \ {"returned"}) =>
           {"onDisconnect", "onError"} \subseteq handlers
    /\ run = "onError" => "onDisconnect" \in handlers
    /\ term = "raw" => run \in {"wait", "Restore"} \/ (run = "returned" /\ stdin = "closed")
    /\ forked => run \in Forked /\ {"onDisconnect", "onError"} \subseteq handlers
    /\ server = "exit" => forked

\* The errors that the read loop may have to send: one of an event, or those of a connection
\* that breaks.
LoopInv ==
    /\ loop \in {<<>>, <<"exit">>, <<"container">>, <<"conn">>, <<"disconnected">>,
                 <<"conn", "disconnected">>}
    /\ loop = <<"exit">> => forked /\ conn = "open" /\ server = "over"
    /\ loop \in {<<"conn">>, <<"disconnected">>, <<"conn", "disconnected">>} => conn = "broken"
    /\ conn = "done" => loop = <<>>

\* p.err before its first error; and from then on, if that is the end of the process.
ErrInv ==
    /\ first = "none" => err = <<>>
    /\ forked /\ first = "none" => runErr \in {"none", "terminal"}
    /\ first = "exit" =>
          /\ forked /\ server = "over"
          /\ loop \notin {<<"exit">>, <<"container">>}
          /\ run \notin Heard => err = <<"exit">>
          /\ runErr \in {"none", "exit", "terminal"}
          /\ conn # "done"
          /\ conn = "broken" => \/ loop = <<"conn", "disconnected">>
                                \/ loop = <<"disconnected">> /\ err # <<>> /\ run \in Heard

\* TypeOK, but for the arguments, that only the first step sets.
ShellTypes ==
    /\ server \in {"connect", "authenticate", "readyToStart", "exec", "exit", "over"}
    /\ forked \in BOOLEAN
    /\ conn \in {"open", "broken", "done"}
    /\ handlers \subseteq {"chanErr", "authentication", "readyToStartExec", "onDisconnect",
                           "onError", "execExit", "logErr", "errorContainerExec", "execStarted"}
    /\ err \in Seq(Errors) /\ Len(err) <= ErrCapacity
    /\ ctx \in {"live", "canceled"}
    /\ ready \in BOOLEAN /\ readyToStartExec \in BOOLEAN
    /\ started \in BOOLEAN /\ chanErr \in BOOLEAN
    /\ auth \in {"none", "ok", "failed"}
    /\ run \in {"prepareCommand", "parsed", "Run", "run", "auth", "waitReady", "onDisconnect",
                "onError", "Streams", "waitStart", "Fork", "onExecStarted", "waitExecStarted",
                "Start", "wait", "Restore", "returned"}
    /\ runErr \in Errors \cup {"none"}
    /\ stdin \in {"off", "wait", "read", "failed", "return", "closed"}
    /\ TTY \in BOOLEAN
    /\ term \in {"cooked", "raw"}
    /\ first \in Errors \cup {"none"}
    /\ ret \in Errors \cup {"none"}

ShellInv == ShellTypes /\ RunInv /\ LoopInv /\ ErrInv

-----------------------------------------------------------------------------
(* Queues of errors. *)

\* p.err holds no error, or one.
LEMMA ErrHoldsOne ==
    ASSUME err \in Seq(Errors), Len(err) <= ErrCapacity
    PROVE  /\ err # <<>> => Head(err) \in Errors /\ err = <<Head(err)>> /\ Tail(err) = <<>>
           /\ Len(err) < ErrCapacity => err = <<>>
<1>1. Len(err) \in Nat /\ (Len(err) = 0 => err = <<>>)
  BY EmptySeq, LenProperties
<1>2. ASSUME NEW n \in Nat, n <= 1 PROVE n = 0 \/ (n = 1 /\ ~(n < 1))
  BY <1>2
<1>3. Len(err) = 0 \/ (Len(err) = 1 /\ ~(Len(err) < 1))
  BY <1>1, <1>2 DEF ErrCapacity
<1>4. CASE Len(err) = 1
  <2>1. err # <<>>
    BY <1>4, EmptySeq
  <2>2. /\ Head(err) \in Errors /\ Tail(err) \in Seq(Errors)
        /\ Len(Tail(err)) = Len(err) - 1
    BY <2>1, HeadTailProperties
  <2>3. Tail(err) = <<>>
    <3>1. Len(Tail(err)) = 0
      BY <1>4, <2>2
    <3> QED
      BY <2>2, <3>1, EmptySeq
  <2>4. err = <<err[1]>> /\ Head(err) = err[1]
    BY <1>4
  <2> QED
    BY <1>3, <1>4, <2>2, <2>3, <2>4 DEF ErrCapacity
<1> QED
  BY <1>1, <1>3, <1>4 DEF ErrCapacity

\* Two errors, the second after the first.
LEMMA BothErrors == <<"conn">> \o <<"disconnected">> = <<"conn", "disconnected">>
<1> DEFINE s == <<"conn">>
           t == <<"disconnected">>
           u == <<"conn", "disconnected">>
<1>1. /\ s \in Seq(Errors) /\ Len(s) = 1 /\ s[1] = "conn"
      /\ t \in Seq(Errors) /\ Len(t) = 1 /\ t[1] = "disconnected"
      /\ u \in Seq(Errors) /\ Len(u) = 2 /\ u[1] = "conn" /\ u[2] = "disconnected"
  BY DEF Errors
<1> HIDE DEF s, t, u
<1>2. /\ s \o t \in Seq(Errors) /\ Len(s \o t) = 1 + 1
      /\ \A i \in 1 .. 1 + 1 : (s \o t)[i] = IF i <= 1 THEN s[i] ELSE t[i - 1]
  BY <1>1, ConcatProperties
<1>3. \A i \in 1 .. 2 : (s \o t)[i] = u[i]
  <2>1. 1 \in 1 .. 1 + 1 /\ 2 \in 1 .. 1 + 1 /\ 1 <= 1 /\ ~(2 <= 1) /\ 2 - 1 = 1
    OBVIOUS
  <2>2. (s \o t)[1] = u[1] /\ (s \o t)[2] = u[2]
    BY <1>1, <1>2, <2>1
  <2>3. \A i \in 1 .. 2 : i = 1 \/ i = 2
    OBVIOUS
  <2> QED
    BY <2>2, <2>3
<1>4. s \o t = u
  BY <1>1, <1>2, <1>3, SeqEqual
<1> QED
  BY <1>4 DEF s, t, u

LEMMA SendErrSends ==
    ASSUME ShellTypes, NEW e \in Errors, SendErr(e)
    PROVE  /\ err = <<>> /\ err' = <<e>> /\ err' # <<>>
           /\ err' \in Seq(Errors) /\ Len(err') <= ErrCapacity
           /\ first' = IF first = "none" THEN e ELSE first
<1>1. err = <<>>
  BY ErrHoldsOne DEF ShellTypes, SendErr
<1> QED
  BY <1>1 DEF SendErr, ErrCapacity

\* What the loop sends, and what it has left.
LEMMA LoopSends ==
    ASSUME LoopInv, loop # <<>>
    PROVE  /\ Head(loop) \in {"exit", "container", "conn", "disconnected"}
           /\ Head(loop) = "exit" => loop = <<"exit">>
           /\ loop = <<"conn", "disconnected">> => Tail(loop) = <<"disconnected">>
           /\ loop # <<"conn", "disconnected">> => Tail(loop) = <<>>
<1>1. ASSUME NEW e \in {"exit", "container", "conn", "disconnected"}, loop = <<e>>
      PROVE  Head(loop) = e /\ Tail(loop) = <<>> /\ loop # <<"conn", "disconnected">>
  <2>1. Head(<<e>>) = e /\ Tail(<<e>>) = <<>>
    OBVIOUS
  <2>2. <<e>> # <<"conn", "disconnected">>
    OBVIOUS
  <2> QED
    BY <1>1, <2>1, <2>2
<1>2. CASE loop = <<"conn", "disconnected">>
  <2>1. /\ Head(<<"conn", "disconnected">>) = "conn"
        /\ Tail(<<"conn", "disconnected">>) = <<"disconnected">>
    OBVIOUS
  <2> QED
    BY <1>2, <2>1
<1> QED
  BY <1>1, <1>2 DEF LoopInv

LEMMA ShellInit == Init => ShellInv
<1> SUFFICES ASSUME Init PROVE ShellInv
  OBVIOUS
<1>1. ShellTypes
  <2>1. err = <<>> /\ <<>> \in Seq(Errors) /\ Len(<<>>) <= ErrCapacity
    BY EmptySeq DEF Init, ErrCapacity
  <2> QED
    BY <2>1 DEF Init, ShellTypes
<1>2. RunInv /\ LoopInv /\ ErrInv
  BY DEF Init, RunInv, LoopInv, ErrInv, Forked
<1> QED
  BY <1>1, <1>2 DEF ShellInv

-----------------------------------------------------------------------------
(* The steps of Shell. *)

\* An event of the server: nobody but the loop moves.
LEMMA EventKeeps == ShellInv /\ Events => ShellInv'
<1> SUFFICES ASSUME ShellInv, Events PROVE ShellInv'
  OBVIOUS
<1> USE DEF ShellInv
<1>1. UNCHANGED <<handlers, err, ctx, run, runErr, stdin, TTY, term, first, ret, forked>>
  BY DEF Events, NamespaceReady, Authentication, ReadyToStartExec, ExecStarted, WatchEnd,
     WatchErrorContainerExec, Reports, NamespaceError, Breaks, input, outside, signals
<1>2. loop = <<>> /\ conn = "open"
  BY DEF Events, NamespaceReady, Authentication, ReadyToStartExec, ExecStarted, WatchEnd,
     WatchErrorContainerExec, Reports, NamespaceError, Breaks, Reads
<1>3. ShellTypes'
  <2>1. /\ server' \in {"connect", "authenticate", "readyToStart", "exec", "exit", "over"}
        /\ conn' \in {"open", "broken", "done"}
    BY DEF Events, NamespaceReady, Authentication, ReadyToStartExec, ExecStarted, WatchEnd,
       WatchErrorContainerExec, Reports, NamespaceError, Breaks, Emits, ShellTypes, outside
  <2>2. auth' \in {"none", "ok", "failed"}
    BY DEF Events, NamespaceReady, Authentication, ReadyToStartExec, ExecStarted, WatchEnd,
       WatchErrorContainerExec, Reports, NamespaceError, Breaks, ShellTypes, signals
  <2>4. ready' \in BOOLEAN
    BY DEF Events, NamespaceReady, Authentication, ReadyToStartExec, ExecStarted, WatchEnd,
       WatchErrorContainerExec, Reports, NamespaceError, Breaks, ShellTypes, signals
  <2>5. readyToStartExec' \in BOOLEAN
    <3>1. CASE ReadyToStartExec
      <4>1. readyToStartExec' = ("readyToStartExec" \in handlers)
        BY <3>1 DEF ReadyToStartExec, Handled
      <4> QED
        BY <4>1
    <3>2. CASE ~ReadyToStartExec
      BY <3>2 DEF Events, NamespaceReady, Authentication, ExecStarted, WatchEnd,
         WatchErrorContainerExec, Reports, NamespaceError, Breaks, ShellTypes, signals
    <3> QED
      BY <3>1, <3>2
  <2>6. started' \in BOOLEAN
    <3>1. CASE ExecStarted
      <4>1. started' = ("execStarted" \in handlers)
        BY <3>1 DEF ExecStarted, Handled
      <4> QED
        BY <4>1
    <3>2. CASE ~ExecStarted
      BY <3>2 DEF Events, NamespaceReady, Authentication, ReadyToStartExec, WatchEnd,
         WatchErrorContainerExec, Reports, NamespaceError, Breaks, ShellTypes, signals
    <3> QED
      BY <3>1, <3>2
  <2>3. chanErr' \in BOOLEAN
    BY DEF Events, NamespaceReady, Authentication, ReadyToStartExec, ExecStarted, WatchEnd,
       WatchErrorContainerExec, Reports, NamespaceError, Breaks, Handled, ShellTypes, signals
  <2> QED
    BY <1>1, <2>1, <2>2, <2>3, <2>4, <2>5, <2>6 DEF ShellTypes
<1>4. server' = "exit" => forked
  BY DEF Events, NamespaceReady, Authentication, ReadyToStartExec, ExecStarted, WatchEnd,
     WatchErrorContainerExec, Reports, NamespaceError, Breaks, Emits, outside, RunInv
<1>5. RunInv'
  BY <1>1, <1>4 DEF RunInv
<1>9. first = "exit" => server = "over" /\ (Breaks \/ NamespaceError)
  BY DEF Events, NamespaceReady, Authentication, ReadyToStartExec, ExecStarted, WatchEnd,
     WatchErrorContainerExec, Reports, Emits, ErrInv
<1>6. CASE Breaks
  <2>6. server' = server
    BY <1>6 DEF Breaks, outside
  <2>1. first = "exit" => Handled("onError") /\ Handled("onDisconnect")
    BY DEF ErrInv, RunInv, Handled
  <2> DEFINE a == IF Handled("onError") THEN <<"conn">> ELSE <<>>
             b == IF Handled("onDisconnect") THEN <<"disconnected">> ELSE <<>>
  <2>0. loop' = a \o b
    BY <1>6 DEF Breaks
  <2>5. /\ <<"conn">> \o <<"disconnected">> = <<"conn", "disconnected">>
        /\ <<"conn">> \o <<>> = <<"conn">>
        /\ <<>> \o <<"disconnected">> = <<"disconnected">>
        /\ <<>> \o <<>> = <<>>
    BY BothErrors
  <2>2. loop' \in {<<>>, <<"conn">>, <<"disconnected">>, <<"conn", "disconnected">>}
    BY <2>0, <2>5
  <2>3. conn' = "broken"
    BY <1>6 DEF Breaks
  <2>4. first = "exit" => loop' = <<"conn", "disconnected">>
    BY <2>0, <2>1, <2>5
  <2>7. /\ <<"conn", "disconnected">> \notin {<<"exit">>, <<"container">>}
        /\ <<"exit">> \notin {<<>>, <<"conn">>, <<"disconnected">>, <<"conn", "disconnected">>}
    OBVIOUS
  <2>8. LoopInv'
    BY <2>2, <2>3, <2>7 DEF LoopInv
  <2>9. ErrInv'
    BY <1>1, <1>9, <2>3, <2>4, <2>6, <2>7 DEF ErrInv
  <2> QED
    BY <1>3, <1>5, <2>8, <2>9
<1>7. CASE WatchEnd \/ WatchErrorContainerExec
  <2>1. loop' \in {<<>>, <<"exit">>, <<"container">>} /\ conn' = "open"
    BY <1>2, <1>7 DEF WatchEnd, WatchErrorContainerExec, Reports
  <2>2. /\ server' = "over"
        /\ loop' = <<"exit">> => forked
    <3>1. <<"exit">> # <<>> /\ <<"exit">> # <<"container">>
      OBVIOUS
    <3> QED
      BY <1>7, <3>1 DEF WatchEnd, WatchErrorContainerExec, Reports, Emits, RunInv
  <2>3. /\ <<"conn">> \notin {<<>>, <<"exit">>, <<"container">>}
        /\ <<"disconnected">> \notin {<<>>, <<"exit">>, <<"container">>}
        /\ <<"conn", "disconnected">> \notin {<<>>, <<"exit">>, <<"container">>}
    OBVIOUS
  <2>4. LoopInv'
    BY <1>1, <2>1, <2>2, <2>3 DEF LoopInv
  <2>5. first # "exit"
    BY <1>7, <1>9 DEF Breaks, NamespaceError, WatchEnd, WatchErrorContainerExec, Reports, Emits,
       outside
  <2>6. ErrInv'
    BY <1>1, <2>5 DEF ErrInv
  <2> QED
    BY <1>3, <1>5, <2>4, <2>6
<1>8. CASE ~(Breaks \/ WatchEnd \/ WatchErrorContainerExec)
  <2>1. UNCHANGED <<loop, conn>>
    BY <1>8 DEF Events, NamespaceReady, Authentication, ReadyToStartExec, ExecStarted,
       NamespaceError
  <2>2. <<>> \notin {<<"exit">>, <<"conn">>, <<"disconnected">>, <<"conn", "disconnected">>}
    OBVIOUS
  <2>3. LoopInv'
    BY <1>2, <2>1, <2>2 DEF LoopInv
  <2>4. first = "exit" => server' = server
    BY <1>9, <1>8 DEF NamespaceError, outside
  <2>5. ErrInv'
    BY <1>1, <2>1, <2>4 DEF ErrInv
  <2> QED
    BY <1>3, <1>5, <2>3, <2>5
<1> QED
  BY <1>6, <1>7, <1>8

LEMMA LoopKeeps == ShellInv /\ ReadLoop => ShellInv'
<1> SUFFICES ASSUME ShellInv, ReadLoop PROVE ShellInv'
  OBVIOUS
<1> USE DEF ShellInv
<1>1. CASE HandlerSends
  <2>1. /\ UNCHANGED <<server, forked, conn, handlers, ready, readyToStartExec, auth, started,
                       chanErr, run, runErr, stdin, TTY, term, ret>>
        /\ loop # <<>> /\ loop' = Tail(loop) /\ ctx' = "canceled" /\ SendErr(Head(loop))
    BY <1>1 DEF HandlerSends, outside, signals, input
  <2> DEFINE e == Head(loop)
  <2>2. /\ e \in {"exit", "container", "conn", "disconnected"}
        /\ e = "exit" => loop = <<"exit">>
        /\ loop = <<"conn", "disconnected">> => loop' = <<"disconnected">>
        /\ loop # <<"conn", "disconnected">> => loop' = <<>>
    BY <2>1, LoopSends
  <2>3. e \in Errors
    BY <2>2 DEF Errors
  <2>4. /\ err = <<>> /\ err' = <<e>> /\ err' # <<>>
        /\ err' \in Seq(Errors) /\ Len(err') <= ErrCapacity
        /\ first' = IF first = "none" THEN e ELSE first
    BY <2>1, <2>3, SendErrSends
  <2> HIDE DEF e
  <2>5. ShellTypes'
    BY <2>1, <2>3, <2>4 DEF ShellTypes
  <2>6. RunInv'
    BY <2>1 DEF RunInv
  <2>7. LoopInv'
    <3>1. <<"disconnected">> # <<"exit">> /\ <<"disconnected">> # <<>> /\ <<>> # <<"exit">>
          /\ <<>> # <<"conn">> /\ <<>> # <<"disconnected">> /\ <<>> # <<"conn", "disconnected">>
      OBVIOUS
    <3> QED
      BY <2>1, <2>2, <3>1 DEF LoopInv
  <2>8. ErrInv'
    <3>1. CASE first = "none"
      <4>1. first' = e
        BY <2>4, <3>1
      <4>2. e = "exit" => /\ forked /\ conn = "open" /\ server = "over"
                          /\ loop' \notin {<<"exit">>, <<"container">>}
        <5>1. <<"exit">> # <<"conn", "disconnected">> /\ <<>> \notin {<<"exit">>, <<"container">>}
          OBVIOUS
        <5> QED
          BY <2>2, <5>1 DEF LoopInv
      <4>3. e = "exit" => err' = <<"exit">>
        BY <2>4
      <4>4. /\ e # "none" /\ (forked => runErr \in {"none", "terminal"})
            /\ forked' = forked /\ forked \in BOOLEAN /\ runErr' = runErr /\ conn' = conn
            /\ server' = server
        BY <2>1, <2>2, <3>1 DEF ErrInv, ShellTypes
      <4> QED
        BY <4>1, <4>2, <4>3, <4>4 DEF ErrInv
    <3>2. CASE first = "exit"
      <4>1. run \in Heard
        <5>1. <<>> # <<"exit">>
          OBVIOUS
        <5> QED
          BY <2>4, <3>2, <5>1 DEF ErrInv
      <4>2. conn = "broken" /\ loop = <<"conn", "disconnected">>
        BY <2>1, <2>4, <3>2 DEF ErrInv, LoopInv, ShellTypes
      <4>3. /\ <<"disconnected">> \notin {<<"exit">>, <<"container">>}
            /\ first' = first
        BY <2>4, <3>2
      <4> QED
        BY <2>1, <2>2, <2>4, <3>2, <4>1, <4>2, <4>3 DEF ErrInv
    <3>3. CASE first \notin {"none", "exit"}
      BY <2>4, <3>3 DEF ErrInv
    <3> QED
      BY <3>1, <3>2, <3>3
  <2> QED
    BY <2>5, <2>6, <2>7, <2>8
<1>2. CASE ConnDone
  <2>1. /\ UNCHANGED <<server, forked, handlers, loop, err, ctx, ready, readyToStartExec, auth,
                       started, chanErr, run, runErr, stdin, TTY, term, first, ret>>
        /\ conn = "broken" /\ loop = <<>> /\ conn' = "done"
    BY <1>2 DEF ConnDone, outside, signals, input
  <2>2. first # "exit"
    BY <2>1 DEF ErrInv
  <2> QED
    BY <2>1, <2>2 DEF ShellTypes, RunInv, LoopInv, ErrInv
<1> QED
  BY <1>1, <1>2 DEF ReadLoop

\* The goroutine of stdin.
LEMMA StdinKeeps == ShellInv /\ pipeStdinGoroutine => ShellInv'
<1> SUFFICES ASSUME ShellInv, pipeStdinGoroutine PROVE ShellInv'
  OBVIOUS
<1> USE DEF ShellInv
<1>1. UNCHANGED <<server, forked, conn, handlers, loop, ready, readyToStartExec, auth, started,
                  chanErr, run, runErr, TTY, term, ret>>
  BY DEF pipeStdinGoroutine, StdinWaits, ReadStdin, StdinFails, CloseStdin, outside, signals,
     input
<1>2. /\ stdin' \in {"off", "wait", "read", "failed", "return", "closed"}
      /\ ctx' \in {"live", "canceled"}
  BY DEF pipeStdinGoroutine, StdinWaits, ReadStdin, StdinFails, CloseStdin, StdinStep,
         ShellTypes
<1>5. stdin # "closed"
  BY DEF pipeStdinGoroutine, StdinWaits, ReadStdin, StdinFails, CloseStdin, StdinStep
<1>3. CASE StdinFails
  <2>1. "stdin" \in Errors /\ SendErr("stdin")
    BY <1>3 DEF StdinFails, Errors
  <2>2. /\ err = <<>> /\ err' = <<"stdin">> /\ err' # <<>>
        /\ err' \in Seq(Errors) /\ Len(err') <= ErrCapacity
        /\ first' = IF first = "none" THEN "stdin" ELSE first
    BY <2>1, SendErrSends
  <2>3. ShellTypes'
    BY <1>1, <1>2, <2>1, <2>2 DEF ShellTypes
  <2>4. first = "exit" => run \in Heard
    BY <2>2 DEF ErrInv
  <2> QED
    BY <1>1, <1>5, <2>2, <2>3, <2>4 DEF RunInv, LoopInv, ErrInv
<1>4. CASE StdinWaits \/ ReadStdin \/ CloseStdin
  <2>1. UNCHANGED <<err, first>>
    BY <1>4 DEF StdinWaits, ReadStdin, CloseStdin
  <2> QED
    BY <1>1, <1>2, <1>5, <2>1 DEF ShellTypes, RunInv, LoopInv, ErrInv
<1> QED
  BY <1>3, <1>4 DEF pipeStdinGoroutine

\* The goroutine run, but for the end of its wait.
LEMMA RunKeeps ==
    ASSUME ShellInv,
           prepareCommand \/ Run \/ Authenticate \/ handleConnections \/ Streams \/ Fork
           \/ waitExecStarted \/ Start
    PROVE  ShellInv'
<1> USE DEF ShellInv
<1>1. UNCHANGED <<server, conn, loop, err, ctx, ready, readyToStartExec, auth, started, chanErr,
                  TTY, first, ret>>
  BY DEF prepareCommand, Run, Authenticate, handleConnections, Streams, Fork, waitExecStarted,
     Start, GoOn, outside, signals, input
<1>2. /\ handlers \subseteq handlers'
      /\ handlers' \subseteq {"chanErr", "authentication", "readyToStartExec", "onDisconnect",
                              "onError", "execExit", "logErr", "errorContainerExec",
                              "execStarted"}
  BY DEF prepareCommand, Run, Authenticate, handleConnections, Streams, Fork, waitExecStarted,
     Start, GoOn, On, ShellTypes
<1>3. stdin' \in {"off", "wait", "read", "failed", "return", "closed"}
  BY DEF prepareCommand, Run, Authenticate, handleConnections, Streams, Fork, waitExecStarted,
     Start, GoOn, ShellTypes
<1>4. ASSUME UNCHANGED <<forked, runErr, term>>,
             run' \in {"parsed", "Run", "run", "auth", "waitReady"},
             run \in {"prepareCommand", "Run", "run", "auth"}
      PROVE  ShellInv'
  <2>1. ShellTypes'
    BY <1>1, <1>2, <1>3, <1>4 DEF ShellTypes
  <2>2. RunInv' /\ LoopInv' /\ ErrInv'
    BY <1>1, <1>2, <1>4 DEF RunInv, LoopInv, ErrInv, Forked, Heard
  <2> QED
    BY <2>1, <2>2
<1>5. CASE prepareCommand \/ Run
  BY <1>4, <1>5 DEF prepareCommand, Run, outside
<1>6. CASE Authenticate
  <2>1. CASE run' = "returned"
    <3>1. /\ run = "auth" /\ runErr' = "auth" /\ UNCHANGED <<forked, term>>
      BY <1>6, <2>1 DEF Authenticate, GoOn, Step, Returns, outside
    <3>2. ~forked /\ term # "raw"
      BY <3>1 DEF RunInv, Forked
    <3>3. ShellTypes'
      BY <1>1, <1>2, <1>3, <2>1, <3>1 DEF ShellTypes, Errors
    <3> QED
      BY <1>1, <1>2, <2>1, <3>1, <3>2, <3>3 DEF RunInv, LoopInv, ErrInv, Forked, Heard
  <2>2. CASE run' # "returned"
    BY <1>4, <1>6, <2>2 DEF Authenticate, GoOn, Step, Returns, outside
  <2> QED
    BY <2>1, <2>2
<1>7. CASE handleConnections \/ Streams
  <2>1. /\ UNCHANGED <<forked, runErr, term>>
        /\ run \in {"onDisconnect", "onError", "Streams"}
        /\ run' \in {"onError", "Streams", "waitStart"}
    BY <1>7 DEF handleConnections, Streams, GoOn, Step, outside
  <2>2. run' \in {"Streams", "waitStart"} => {"onDisconnect", "onError"} \subseteq handlers'
    <3>1. CASE handleConnections
      <4>1. ASSUME run' = "Streams"
            PROVE  run = "onError" /\ handlers' = handlers \cup {"onError"}
        BY <3>1, <4>1 DEF handleConnections, GoOn, Step, On
      <4>2. run' # "waitStart"
        BY <3>1 DEF handleConnections, GoOn, Step
      <4> QED
        BY <4>1, <4>2 DEF RunInv
    <3>2. CASE Streams
      <4>1. /\ run = "Streams"
            /\ handlers' = handlers \cup {"execExit", "logErr", "errorContainerExec"}
        BY <3>2 DEF Streams, Step, On
      <4> QED
        BY <4>1 DEF RunInv
    <3> QED
      BY <1>7, <3>1, <3>2
  <2>3. ~forked /\ term # "raw"
    BY <2>1 DEF RunInv, Forked
  <2>4. ShellTypes'
    BY <1>1, <1>2, <1>3, <2>1 DEF ShellTypes
  <2>5. run' = "onError" => "onDisconnect" \in handlers'
    BY <1>7 DEF handleConnections, Streams, GoOn, Step, On
  <2>6. RunInv'
    BY <1>1, <2>1, <2>2, <2>3, <2>5 DEF RunInv, Forked, Heard
  <2>7. LoopInv' /\ ErrInv'
    BY <1>1, <2>1, <2>3 DEF LoopInv, ErrInv
  <2> QED
    BY <2>4, <2>6, <2>7
<1>8. CASE Fork
  <2>1. /\ run = "Fork" /\ UNCHANGED <<term, handlers>>
        /\ \/ run' = "onExecStarted" /\ forked' = TRUE /\ runErr' = runErr
           \/ run' = "returned" /\ forked' = forked /\ runErr' = "write"
    BY <1>8 DEF Fork, Step, Returns
  <2>2. /\ ~forked /\ term # "raw" /\ runErr = "none"
        /\ {"onDisconnect", "onError"} \subseteq handlers
    BY <2>1 DEF RunInv, Forked, Heard
  <2>3. ShellTypes'
    <3>1. forked' \in BOOLEAN /\ run' \in {"onExecStarted", "returned"}
      BY <2>1 DEF ShellTypes
    <3>2. runErr' \in Errors \cup {"none"}
      BY <2>1 DEF ShellTypes, Errors
    <3> QED
      BY <1>1, <1>2, <1>3, <2>1, <3>1, <3>2 DEF ShellTypes
  <2>4. first # "exit"
    BY <2>2 DEF ErrInv
  <2> QED
    BY <1>1, <2>1, <2>2, <2>3, <2>4 DEF RunInv, LoopInv, ErrInv, Forked, Heard
<1>9. CASE waitExecStarted
  <2>1. /\ run \in {"onExecStarted", "waitExecStarted"} /\ run' \in {"waitExecStarted", "Start"}
        /\ UNCHANGED <<forked, runErr, term>>
    BY <1>9 DEF waitExecStarted, GoOn, Step, outside
  <2>2. ShellTypes'
    BY <1>1, <1>2, <1>3, <2>1 DEF ShellTypes
  <2> QED
    BY <1>1, <1>2, <2>1, <2>2 DEF RunInv, LoopInv, ErrInv, Forked, Heard
<1>10. CASE Start
  <2>1. /\ run = "Start" /\ UNCHANGED <<forked, handlers>>
        /\ \/ run' = "wait" /\ term' \in {term, "raw"} /\ runErr' = runErr
           \/ run' = "returned" /\ runErr' = "terminal" /\ term' = term
    BY <1>10 DEF Start, Step, Returns, outside
  <2>2. runErr = "none" /\ term # "raw"
    BY <2>1 DEF RunInv, Heard
  <2>3. ShellTypes'
    BY <1>1, <1>2, <1>3, <2>1 DEF ShellTypes, Errors
  <2> QED
    BY <1>1, <2>1, <2>2, <2>3 DEF RunInv, LoopInv, ErrInv, Forked, Heard
<1> QED
  BY <1>5, <1>6, <1>7, <1>8, <1>9, <1>10

\* The waits that read p.err.
LEMMA WaitKeeps ==
    ASSUME ShellInv, waitReady \/ waitReadyToStartExec \/ WaitErr \/ Restore
    PROVE  ShellInv'
<1> USE DEF ShellInv
<1>1. UNCHANGED <<server, forked, conn, loop, handlers, ctx, ready, readyToStartExec, auth, started,
                  chanErr, stdin, TTY, first, ret>>
  BY DEF waitReady, waitReadyToStartExec, Wait, WaitErr, Restore, outside, signals, input
<1>2. ASSUME err # <<>>, err' = Tail(err)
      PROVE  err' = <<>> /\ err = <<Head(err)>> /\ Head(err) \in Errors
  BY <1>2, ErrHoldsOne DEF ShellTypes
<1>3. <<>> \in Seq(Errors) /\ Len(<<>>) <= ErrCapacity
  BY EmptySeq DEF ErrCapacity
<1>4. CASE waitReady \/ waitReadyToStartExec
  <2>1. /\ run \in {"waitReady", "waitStart"} /\ term' = term
        /\ \/ run' \in {"onDisconnect", "Fork"} /\ runErr' = runErr /\ err' = err
           \/ run' = "returned" /\ err' = err /\ runErr' = "ctx"
           \/ run' = "returned" /\ err # <<>> /\ err' = Tail(err) /\ runErr' = Head(err)
    BY <1>4 DEF waitReady, waitReadyToStartExec, Wait, Step, Returns, input
  <2>2. run' = "Fork" => {"onDisconnect", "onError"} \subseteq handlers
    BY <1>4 DEF waitReady, waitReadyToStartExec, Wait, Step, Returns, RunInv
  <2>3. ~forked /\ term # "raw"
    BY <2>1 DEF RunInv, Forked
  <2>4. first # "exit"
    BY <2>3 DEF ErrInv
  <2>5. err' \in {err, <<>>} /\ (first = "none" => err' = <<>>)
    BY <1>2, <2>1 DEF ErrInv
  <2>6. ShellTypes'
    BY <1>1, <1>2, <1>3, <2>1, <2>5 DEF ShellTypes, Errors
  <2> QED
    BY <1>1, <2>1, <2>2, <2>3, <2>4, <2>5, <2>6 DEF RunInv, LoopInv, ErrInv, Forked, Heard
<1>5. CASE WaitErr
  <2>1. /\ run = "wait" /\ run' = "Restore" /\ term' = term /\ runErr' = Head(err)
        /\ err' = <<>> /\ err = <<Head(err)>> /\ Head(err) \in Errors /\ err # <<>>
    BY <1>2, <1>5 DEF WaitErr, Step
  <2>2. first = "exit" => Head(err) = "exit"
    <3>1. Head(<<"exit">>) = "exit"
      OBVIOUS
    <3> QED
      BY <2>1, <3>1 DEF ErrInv, Heard
  <2>3. first # "none"
    BY <2>1 DEF ErrInv
  <2>4. first = "exit" /\ conn = "broken" => loop = <<"conn", "disconnected">>
    BY <2>1 DEF ErrInv, Heard
  <2>5. ShellTypes'
    BY <1>1, <1>3, <2>1 DEF ShellTypes
  <2> QED
    BY <1>1, <2>1, <2>2, <2>3, <2>4, <2>5 DEF RunInv, LoopInv, ErrInv, Forked, Heard
<1>6. CASE Restore
  <2>1. /\ run = "Restore" /\ run' = "returned" /\ UNCHANGED <<err, runErr>>
        /\ term' = IF stdin = "closed" THEN term ELSE "cooked"
    BY <1>6 DEF Restore, Step
  <2>2. ShellTypes'
    BY <1>1, <2>1 DEF ShellTypes
  <2> QED
    BY <1>1, <2>1, <2>2 DEF RunInv, LoopInv, ErrInv, Forked, Heard
<1> QED
  BY <1>4, <1>5, <1>6

\* Run returns.
LEMMA SelectKeeps == ShellInv /\ Select => ShellInv'
<1> SUFFICES ASSUME ShellInv, Select PROVE ShellInv'
  OBVIOUS
<1>1. UNCHANGED <<server, forked, conn, loop, handlers, err, ready, readyToStartExec, auth, started,
                  chanErr, run, runErr, stdin, TTY, term, first>>
  BY DEF Select, Return, outside, signals, input
<1>2. ret' \in Errors \cup {"none"} /\ ctx' = "canceled"
  BY DEF Select, Return, ShellInv, ShellTypes, Errors
<1> QED
  BY <1>1, <1>2 DEF ShellInv, ShellTypes, RunInv, LoopInv, ErrInv

LEMMA ShellNext == ShellInv /\ [Next]_vars => ShellInv'
<1>1. ShellInv /\ UNCHANGED vars => ShellInv'
  BY DEF vars, outside, signals, input, ShellInv, ShellTypes, RunInv, LoopInv, ErrInv
<1> QED
  BY <1>1, EventKeeps, LoopKeeps, StdinKeeps, RunKeeps, WaitKeeps, SelectKeeps
     DEF Next, Goroutines

LEMMA ShellInvCorrect == Spec => []ShellInv
  BY ShellInit, ShellNext, PTL DEF Spec

-----------------------------------------------------------------------------
(* What Run returns, and the terminal. *)

\* TerminalIsRestored: the terminal is as it was when the command ends, unless Run returned
\* before the goroutine that restores it could, by an error of the namespace or the Done of the
\* connection, or stdin was closed by then.
THEOREM TerminalCorrect == Spec => []TerminalIsRestored
<1>1. Init => TerminalIsRestored
  BY DEF Init, TerminalIsRestored
<1>2. ShellInv /\ TerminalIsRestored /\ [Next]_vars => TerminalIsRestored'
  <2> SUFFICES ASSUME ShellInv, TerminalIsRestored, [Next]_vars, ret' # "none", term' = "raw"
               PROVE  IF run' = "returned" THEN stdin' = "closed"
                      ELSE chanErr' \/ (conn' = "done" /\ ret' = "conn")
    BY DEF TerminalIsRestored
  <2>1. CASE UNCHANGED vars
    BY <2>1 DEF vars, outside, signals, TerminalIsRestored
  <2>2. CASE Next /\ Select
    <3>1. /\ UNCHANGED <<term, conn, run, stdin, chanErr>>
          /\ \/ chanErr
             \/ run = "returned"
             \/ conn = "done" /\ ret' = "conn"
      BY <2>2 DEF Select, Return, outside, signals, input
    <3>2. run = "returned" => stdin = "closed"
      BY <3>1 DEF ShellInv, RunInv
    <3> QED
      BY <3>1, <3>2
  <2>3. CASE Next /\ ~Select
    BY <2>3 DEF Next, Events, NamespaceReady, Authentication, ReadyToStartExec, ExecStarted,
       WatchEnd, WatchErrorContainerExec, Reports, NamespaceError, Breaks, ReadLoop,
       HandlerSends, ConnDone, Goroutines, prepareCommand, Run, Authenticate, waitReady,
       handleConnections, Streams, waitReadyToStartExec, Wait, GoOn, Fork, waitExecStarted,
       Start, WaitErr, Restore, pipeStdinGoroutine, StdinWaits, ReadStdin, StdinFails, CloseStdin
  <2> QED
    BY <2>1, <2>2, <2>3
<1> QED
  BY <1>1, <1>2, ShellInvCorrect, PTL DEF Spec

\* ExitIsReported: the command exits with the code of the process once its end was the first
\* error, whatever the connection does after it.
THEOREM ExitCorrect == Spec => []ExitIsReported
<1>1. Init => ExitIsReported
  BY DEF Init, ExitIsReported
<1>2. ShellInv /\ ExitIsReported /\ [Next]_vars => ExitIsReported'
  <2> SUFFICES ASSUME ShellInv, ExitIsReported, [Next]_vars, first' = "exit", ret' # "none"
               PROVE  ret' = "exit" \/ ret' = "terminal" \/ chanErr'
    BY DEF ExitIsReported
  <2>1. CASE UNCHANGED vars
    BY <2>1 DEF vars, signals, ExitIsReported
  <2>2. CASE Next /\ Select
    <3>1. /\ UNCHANGED <<first, conn, runErr, chanErr>>
          /\ \/ chanErr
             \/ run = "returned" /\ ret' = runErr
             \/ conn = "done"
      BY <2>2 DEF Select, Return, outside, signals, input
    <3> QED
      BY <3>1 DEF ShellInv, ErrInv
  <2>3. CASE Next /\ ~Select
    BY <2>3 DEF Next, Events, NamespaceReady, Authentication, ReadyToStartExec, ExecStarted,
       WatchEnd, WatchErrorContainerExec, Reports, NamespaceError, Breaks, ReadLoop,
       HandlerSends, ConnDone, Goroutines, prepareCommand, Run, Authenticate, waitReady,
       handleConnections, Streams, waitReadyToStartExec, Wait, GoOn, Fork, waitExecStarted,
       Start, WaitErr, Restore, pipeStdinGoroutine, StdinWaits, ReadStdin, StdinFails,
       CloseStdin
  <2> QED
    BY <2>1, <2>2, <2>3
<1> QED
  BY <1>1, <1>2, ShellInvCorrect, PTL DEF Spec

-----------------------------------------------------------------------------
(* The command line. *)

\* A set of naturals has a least element.
LEMMA LeastNatural ==
    ASSUME NEW T \in SUBSET Nat, T # {}
    PROVE  \E m \in T : \A k \in T : ~(k < m)
<1> DEFINE R == {ss \in Nat \X Nat : ss[1] < ss[2]}
<1>1. IsWellFoundedOn(R, Nat)
  BY NatLessThanWellFounded DEF OpToRel
<1>2. PICK m \in T : \A k \in T : <<k, m>> \notin R
  <2> HIDE DEF R
  <2> QED
    BY <1>1, WFMin
<1> QED
  BY <1>2

\* What the flag library knows after the first n arguments.
NextArg(f, l, i) == Arg(f[i - 1], l[i])
IsParsing(f, l, n) == f = [i \in 0 .. n |-> IF i = 0 THEN Unread ELSE NextArg(f, l, i)]

\* There is such a function: the least number of arguments without one can be neither zero nor
\* the next of another.
LEMMA ParsingExists ==
    ASSUME NEW l, NEW n \in Nat
    PROVE  \E f : IsParsing(f, l, n)
<1> DEFINE T == {m \in Nat : ~\E f : IsParsing(f, l, m)}
<1> SUFFICES ASSUME T # {} PROVE FALSE
  OBVIOUS
<1>1. PICK m \in T : \A j \in T : ~(j < m)
  <2> HIDE DEF T
  <2>1. T \in SUBSET Nat
    BY DEF T
  <2> QED
    BY <2>1, LeastNatural
<1>2. CASE m = 0
  <2>1. IsParsing([i \in 0 .. 0 |-> Unread], l, 0)
    BY DEF IsParsing
  <2> QED
    BY <1>2, <2>1
<1>3. CASE m # 0
  <2>1. m - 1 \in Nat /\ m \in Nat /\ m - 1 < m
    BY <1>3
  <2>2. PICK f : IsParsing(f, l, m - 1)
    BY <1>1, <2>1
  <2> DEFINE h == [i \in 0 .. m |-> IF i < m THEN f[i] ELSE NextArg(f, l, m)]
  <2>3. \A i \in 0 .. m - 1 : f[i] = IF i = 0 THEN Unread ELSE NextArg(f, l, i)
    BY <2>2 DEF IsParsing
  <2>4. ASSUME NEW i \in 0 .. m
        PROVE  h[i] = IF i = 0 THEN Unread ELSE NextArg(h, l, i)
    <3>1. CASE i = 0
      BY <1>3, <2>1, <2>3, <3>1
    <3>2. CASE i # 0
      <4>1. h[i - 1] = f[i - 1]
        BY <2>1, <3>2
      <4>2. h[i] = NextArg(f, l, i)
        BY <2>1, <2>3, <3>2
      <4> HIDE DEF h
      <4> QED
        BY <3>2, <4>1, <4>2 DEF NextArg
    <3> QED
      BY <3>1, <3>2
  <2>5. IsParsing(h, l, m)
    <3>1. h = [i \in 0 .. m |-> h[i]]
      OBVIOUS
    <3> HIDE DEF h
    <3> QED
      BY <2>4, <3>1 DEF IsParsing
  <2> QED
    BY <1>1, <2>5
<1> QED
  BY <1>2, <1>3

\* So that is what Parsing is.
LEMMA ParsingDef ==
    ASSUME NEW l \in Seq(Args)
    PROVE  /\ Parsing(l)[0] = Unread
           /\ \A i \in 1 .. Len(l) : Parsing(l)[i] = Arg(Parsing(l)[i - 1], l[i])
<1>1. Len(l) \in Nat
  OBVIOUS
<1>2. \E f : IsParsing(f, l, Len(l))
  BY <1>1, ParsingExists
<1>3. Parsing(l) = CHOOSE f : IsParsing(f, l, Len(l))
  BY DEF Parsing, IsParsing, NextArg
<1>4. IsParsing(Parsing(l), l, Len(l))
  BY <1>2, <1>3
<1>5. ASSUME NEW f, IsParsing(f, l, Len(l))
      PROVE  f[0] = Unread /\ \A i \in 1 .. Len(l) : f[i] = Arg(f[i - 1], l[i])
  <2>1. \A i \in 0 .. Len(l) : f[i] = IF i = 0 THEN Unread ELSE NextArg(f, l, i)
    BY <1>5 DEF IsParsing
  <2> QED
    BY <1>1, <2>1 DEF NextArg
<1> QED
  BY <1>4, <1>5

\* What is known of a line.
Acc == [words : Seq(Args), flags : Seq(Args), value : BOOLEAN, ended : BOOLEAN]

LEMMA ArgType ==
    ASSUME NEW acc \in Acc, NEW a \in Args
    PROVE  Arg(acc, a) \in Acc
<1>1. Append(acc.words, a) \in Seq(Args) /\ Append(acc.flags, a) \in Seq(Args)
  BY DEF Acc
<1>2. (a \in getStringFlags) \in BOOLEAN
  OBVIOUS
<1> DEFINE w == Append(acc.words, a)
           f == Append(acc.flags, a)
           v == a \in getStringFlags
<1> HIDE DEF w, f, v
<1>3. /\ [acc EXCEPT !.words = w] \in Acc
      /\ [acc EXCEPT !.value = FALSE] \in Acc
      /\ [acc EXCEPT !.ended = TRUE] \in Acc
      /\ [acc EXCEPT !.flags = f, !.value = v] \in Acc
  BY <1>1, <1>2 DEF Acc, w, f, v
<1> QED
  BY <1>3 DEF Arg, w, f, v

LEMMA ParsingType ==
    ASSUME NEW l \in Seq(Args)
    PROVE  \A n \in 0 .. Len(l) : Parsing(l)[n] \in Acc
<1> DEFINE T == {n \in 0 .. Len(l) : Parsing(l)[n] \notin Acc}
<1> SUFFICES ASSUME T # {} PROVE FALSE
  OBVIOUS
<1>1. PICK m \in T : \A j \in T : ~(j < m)
  <2> HIDE DEF T
  <2>1. T \in SUBSET Nat
    BY DEF T
  <2> QED
    BY <2>1, LeastNatural
<1>2. Unread \in Acc
  BY DEF Unread, Acc
<1>3. m # 0
  BY <1>2, ParsingDef
<1>4. m \in 1 .. Len(l) /\ m - 1 \in 0 .. Len(l) /\ m - 1 < m
  BY <1>3
<1>5. Parsing(l)[m - 1] \in Acc /\ l[m] \in Args
  BY <1>1, <1>4
<1>6. Parsing(l)[m] \in Acc
  BY <1>4, <1>5, ArgType, ParsingDef
<1> QED
  BY <1>6

\* It depends on those arguments only.
LEMMA SamePrefix ==
    ASSUME NEW l \in Seq(Args), NEW other \in Seq(Args),
           NEW n \in Nat, n <= Len(l), n <= Len(other), \A i \in 1 .. n : l[i] = other[i]
    PROVE  Parsing(l)[n] = Parsing(other)[n]
<1> DEFINE T == {k \in 0 .. n : Parsing(l)[k] # Parsing(other)[k]}
<1> SUFFICES ASSUME T # {} PROVE FALSE
  OBVIOUS
<1>1. PICK m \in T : \A j \in T : ~(j < m)
  <2> HIDE DEF T
  <2>1. T \in SUBSET Nat
    BY DEF T
  <2> QED
    BY <2>1, LeastNatural
<1>2. m # 0
  BY ParsingDef
<1>3. /\ m \in 1 .. n /\ m - 1 \in 0 .. n /\ m - 1 < m
      /\ m \in 1 .. Len(l) /\ m \in 1 .. Len(other)
  BY <1>2
<1>4. Parsing(l)[m - 1] = Parsing(other)[m - 1] /\ l[m] = other[m]
  BY <1>1, <1>3
<1>5. Parsing(l)[m] = Parsing(other)[m]
  BY <1>3, <1>4, ParsingDef
<1> QED
  BY <1>5

\* A line without "--" never ends, and an argument is a word if it is no value and no flag.
Plain(l) == l \in Seq(Args) /\ \A i \in 1 .. Len(l) : l[i] # "--"
IsWord(l, i) == ~Parsing(l)[i - 1].value /\ ~IsFlag(l[i])

LEMMA OneArg ==
    ASSUME NEW acc \in Acc, NEW a \in Args, a # "--", ~acc.ended
    PROVE  LET next == Arg(acc, a) IN
           /\ ~next.ended
           /\ next.value <=> a \in getStringFlags /\ ~acc.value
           /\ next.words = IF ~acc.value /\ ~IsFlag(a) THEN Append(acc.words, a) ELSE acc.words
<1>1. CASE acc.value
  <2>1. Arg(acc, a) = [acc EXCEPT !.value = FALSE]
    BY <1>1 DEF Arg
  <2> QED
    BY <1>1, <2>1 DEF Acc
<1>2. CASE ~acc.value /\ IsFlag(a)
  <2> DEFINE f == Append(acc.flags, a)
             v == a \in getStringFlags
  <2>1. Arg(acc, a) = [acc EXCEPT !.flags = f, !.value = v]
    BY <1>2 DEF Arg
  <2>2. v \in BOOLEAN
    OBVIOUS
  <2> HIDE DEF f, v
  <2>3. /\ Arg(acc, a).ended = acc.ended /\ Arg(acc, a).words = acc.words
        /\ Arg(acc, a).value = v
    BY <2>1, <2>2 DEF Acc
  <2> QED
    BY <1>2, <2>3 DEF v
<1>3. CASE ~acc.value /\ ~IsFlag(a)
  <2> DEFINE w == Append(acc.words, a)
  <2>1. Arg(acc, a) = [acc EXCEPT !.words = w]
    BY <1>3 DEF Arg
  <2> HIDE DEF w
  <2>2. /\ Arg(acc, a).ended = acc.ended /\ Arg(acc, a).words = w
        /\ Arg(acc, a).value = acc.value
    BY <2>1 DEF Acc
  <2>3. a \notin getStringFlags
    BY <1>3 DEF IsFlag, getStringFlags
  <2> QED
    BY <1>3, <2>2, <2>3 DEF w
<1> QED
  BY <1>1, <1>2, <1>3

LEMMA NeverEnded ==
    ASSUME NEW l, Plain(l)
    PROVE  \A n \in 0 .. Len(l) : ~Parsing(l)[n].ended
<1> DEFINE T == {n \in 0 .. Len(l) : Parsing(l)[n].ended}
<1> SUFFICES ASSUME T # {} PROVE FALSE
  OBVIOUS
<1>1. PICK m \in T : \A j \in T : ~(j < m)
  <2> HIDE DEF T
  <2>1. T \in SUBSET Nat
    BY DEF T, Plain
  <2> QED
    BY <2>1, LeastNatural
<1>2. l \in Seq(Args) /\ Len(l) \in Nat
  BY DEF Plain
<1>3. m # 0
  BY <1>2, ParsingDef DEF Unread
<1>4. m \in 1 .. Len(l) /\ m - 1 \in 0 .. Len(l) /\ m - 1 < m
  BY <1>2, <1>3
<1>5. ~Parsing(l)[m - 1].ended /\ Parsing(l)[m - 1] \in Acc
  BY <1>1, <1>2, <1>4, ParsingType
<1>6. l[m] \in Args /\ l[m] # "--"
  BY <1>2, <1>4 DEF Plain
<1>7. Parsing(l)[m] = Arg(Parsing(l)[m - 1], l[m])
  BY <1>2, <1>4, ParsingDef
<1>8. ~Parsing(l)[m].ended
  BY <1>5, <1>6, <1>7, OneArg
<1> QED
  BY <1>8

LEMMA PlainStep ==
    ASSUME NEW l, Plain(l), NEW n \in 1 .. Len(l)
    PROVE  /\ Parsing(l)[n].value <=> l[n] \in getStringFlags /\ ~Parsing(l)[n - 1].value
           /\ Parsing(l)[n].words = IF IsWord(l, n) THEN Append(Parsing(l)[n - 1].words, l[n])
                                                  ELSE Parsing(l)[n - 1].words
<1>1. l \in Seq(Args) /\ Len(l) \in Nat
  BY DEF Plain
<1>2. n - 1 \in 0 .. Len(l)
  BY <1>1
<1>3. ~Parsing(l)[n - 1].ended /\ Parsing(l)[n - 1] \in Acc
  BY <1>1, <1>2, ParsingType, NeverEnded
<1>4. l[n] \in Args /\ l[n] # "--"
  BY <1>1 DEF Plain
<1>5. Parsing(l)[n] = Arg(Parsing(l)[n - 1], l[n])
  BY <1>1, ParsingDef
<1> QED
  BY <1>3, <1>4, <1>5, OneArg DEF IsWord

\* What MaybeRewrite takes for the values of flags are the values.
LEMMA SkippedIs ==
    ASSUME NEW l, Plain(l), NEW n \in 1 .. Len(l)
    PROVE  Skipped(l)[n] <=> Parsing(l)[n - 1].value
<1> DEFINE IsSkip(f) == f = [i \in 1 .. Len(l) |->
                               i > 1 /\ l[i - 1] \in getStringFlags /\ ~f[i - 1]]
           g == [i \in 1 .. Len(l) |-> Parsing(l)[i - 1].value]
<1>1. l \in Seq(Args) /\ Len(l) \in Nat
  BY DEF Plain
<1>2. ASSUME NEW i \in 1 .. Len(l)
      PROVE  g[i] = (i > 1 /\ l[i - 1] \in getStringFlags /\ ~g[i - 1])
  <2>1. i - 1 \in 0 .. Len(l)
    BY <1>1
  <2>2. g[i] = Parsing(l)[i - 1].value /\ g[i] \in BOOLEAN
    BY <1>1, <2>1, ParsingType DEF Acc
  <2>3. CASE i = 1
    <3>1. Parsing(l)[i - 1].value = FALSE
      BY <1>1, <2>3, ParsingDef DEF Unread
    <3> QED
      BY <2>2, <2>3, <3>1
  <2>4. CASE i > 1
    <3>1. i - 1 \in 1 .. Len(l)
      BY <1>1, <2>4
    <3>2. Parsing(l)[i - 1].value <=>
              l[i - 1] \in getStringFlags /\ ~Parsing(l)[(i - 1) - 1].value
      BY <3>1, PlainStep
    <3>3. g[i - 1] = Parsing(l)[(i - 1) - 1].value
      BY <3>1
    <3> HIDE DEF g
    <3> QED
      BY <2>2, <2>4, <3>2, <3>3
  <2> QED
    BY <2>3, <2>4
<1>3. IsSkip(g)
  <2>1. g = [i \in 1 .. Len(l) |-> g[i]]
    OBVIOUS
  <2> HIDE DEF g
  <2> QED
    BY <1>2, <2>1
<1>4. Skipped(l) = CHOOSE f : IsSkip(f)
  BY DEF Skipped
<1>5. IsSkip(Skipped(l))
  <2> HIDE DEF IsSkip, g
  <2>1. \E f : IsSkip(f)
    BY <1>3
  <2> QED
    BY <1>4, <2>1, Zenon
<1> HIDE DEF IsSkip
<1>6. ASSUME NEW f, IsSkip(f) PROVE f[n] <=> g[n]
  <2> DEFINE T == {i \in 1 .. Len(l) : ~(f[i] <=> g[i])}
  <2> SUFFICES ASSUME T # {} PROVE FALSE
    OBVIOUS
  <2>1. PICK m \in T : \A j \in T : ~(j < m)
    <3> HIDE DEF T
    <3>1. T \in SUBSET Nat
      BY <1>1 DEF T
    <3> QED
      BY <3>1, LeastNatural
  <2>2. f[m] = (m > 1 /\ l[m - 1] \in getStringFlags /\ ~f[m - 1])
    BY <1>6 DEF IsSkip
  <2>3. g[m] = (m > 1 /\ l[m - 1] \in getStringFlags /\ ~g[m - 1])
    BY <1>2
  <2>4. m > 1 => (f[m - 1] <=> g[m - 1])
    <3>1. m > 1 => m - 1 \in 1 .. Len(l) /\ m - 1 < m
      BY <1>1
    <3> HIDE DEF g
    <3> QED
      BY <2>1, <3>1
  <2>5. m \in T => ~(f[m] <=> g[m])
    OBVIOUS
  <2>6. m \in T
    BY <2>1
  <2> HIDE DEF g, T
  <2>7. f[m] <=> g[m]
    <3>1. CASE m > 1
      BY <2>2, <2>3, <2>4, <3>1, Zenon
    <3>2. CASE ~(m > 1)
      BY <2>2, <2>3, <3>2, Zenon
    <3> QED
      BY <3>1, <3>2
  <2> QED
    BY <2>5, <2>6, <2>7
<1>7. Skipped(l)[n] <=> g[n]
  BY <1>5, <1>6
<1> QED
  BY <1>7


\* No words so far, or one: where it is, and that there is no other.
NoStop(l, n) == \A i \in 1 .. n : ~IsWord(l, i)
OneStop(l, n, w) == \E k \in 1 .. n : /\ IsWord(l, k) /\ l[k] = w
                                      /\ \A i \in 1 .. n : IsWord(l, i) => i = k

LEMMA FirstWord ==
    ASSUME NEW l, Plain(l)
    PROVE  \A n \in 0 .. Len(l) :
              /\ Parsing(l)[n].words = <<>> => NoStop(l, n)
              /\ \A w \in Args : Parsing(l)[n].words = <<w>> => OneStop(l, n, w)
<1> DEFINE words(n) == Parsing(l)[n].words
           P(n) == /\ words(n) = <<>> => NoStop(l, n)
                   /\ \A w \in Args : words(n) = <<w>> => OneStop(l, n, w)
           T == {n \in 0 .. Len(l) : ~P(n)}
<1> SUFFICES ASSUME T # {} PROVE FALSE
  OBVIOUS
<1>1. PICK m \in T : \A j \in T : ~(j < m)
  <2> HIDE DEF T
  <2>1. T \in SUBSET Nat
    BY DEF T, Plain
  <2> QED
    BY <2>1, LeastNatural
<1>2. l \in Seq(Args) /\ Len(l) \in Nat
  BY DEF Plain
<1>3. P(0)
  <2>1. words(0) = <<>>
    BY <1>2, ParsingDef DEF Unread
  <2>2. \A w \in Args : words(0) # <<w>>
    BY <2>1
  <2> QED
    BY <2>2 DEF NoStop
<1>4. m \in 1 .. Len(l) /\ m - 1 \in 0 .. Len(l) /\ m - 1 < m
  BY <1>1, <1>2, <1>3
<1>5. P(m - 1)
  BY <1>1, <1>4
<1>6. words(m - 1) \in Seq(Args) /\ l[m] \in Args
  BY <1>2, <1>4, ParsingType DEF Acc
<1>7. words(m) = IF IsWord(l, m) THEN Append(words(m - 1), l[m]) ELSE words(m - 1)
  BY <1>4, PlainStep
<1>8. \A i \in 1 .. m : i \in 1 .. m - 1 \/ i = m
  BY <1>4
<1>9. 1 .. m - 1 \subseteq 1 .. m /\ m \in 1 .. m /\ m \notin 1 .. m - 1
  BY <1>4
<1> DEFINE before == words(m - 1)
<1> HIDE DEF words
<1>10. P(m)
  <2>1. CASE ~IsWord(l, m)
    <3>1. words(m) = <<>> => NoStop(l, m)
      BY <1>5, <1>7, <1>8, <2>1 DEF NoStop
    <3>2. ASSUME NEW w \in Args, words(m) = <<w>> PROVE OneStop(l, m, w)
      <4>1. OneStop(l, m - 1, w)
        BY <1>5, <1>7, <2>1, <3>2
      <4> QED
        BY <1>8, <1>9, <2>1, <4>1 DEF OneStop
    <3> QED
      BY <3>1, <3>2
  <2>2. CASE IsWord(l, m)
    <3>1. words(m) = Append(before, l[m]) /\ words(m) # <<>>
      BY <1>6, <1>7, <2>2, AppendProperties
    <3>2. ASSUME NEW w \in Args, words(m) = <<w>> PROVE OneStop(l, m, w)
      <4>1. <<>> \in Seq(Args) /\ <<w>> = Append(<<>>, w)
        OBVIOUS
      <4>2. before = <<>> /\ l[m] = w
        BY <1>6, <3>1, <3>2, <4>1, AppendInjective
      <4>3. NoStop(l, m - 1)
        BY <1>5, <4>2
      <4> QED
        BY <1>8, <1>9, <2>2, <4>2, <4>3 DEF OneStop, NoStop
    <3> QED
      BY <3>1, <3>2
  <2> QED
    BY <2>1, <2>2
<1> HIDE DEF P
<1> QED
  BY <1>1, <1>10

\* The first word from a place on.
LEMMA FirstIs ==
    ASSUME NEW l, Plain(l), NEW from \in Nat \ {0}, NEW k \in 1 .. Len(l), from <= k,
           IsWord(l, k), \A i \in 1 .. Len(l) : from <= i /\ i < k => ~IsWord(l, i)
    PROVE  First(l, from) = k
<1> DEFINE stops == {i \in from .. Len(l) :
                       l[i] = "--" \/ (~Skipped(l)[i] /\ ~IsFlag(l[i]))}
<1>1. Len(l) \in Nat
  BY DEF Plain
<1>2. \A i \in from .. Len(l) : i \in 1 .. Len(l)
  BY <1>1
<1>3. stops = {i \in from .. Len(l) : IsWord(l, i)}
  <2>1. ASSUME NEW i \in from .. Len(l)
        PROVE  (l[i] = "--" \/ (~Skipped(l)[i] /\ ~IsFlag(l[i]))) <=> IsWord(l, i)
    <3>1. i \in 1 .. Len(l)
      BY <1>2
    <3>2. l[i] # "--"
      BY <3>1 DEF Plain
    <3>3. Skipped(l)[i] <=> Parsing(l)[i - 1].value
      BY <3>1, SkippedIs
    <3> QED
      BY <3>2, <3>3, Zenon DEF IsWord
  <2> QED
    BY <2>1, Zenon
<1>4. k \in stops /\ stops # {}
  BY <1>1, <1>3
<1>5. \A i \in stops : k <= i
  <2> SUFFICES ASSUME NEW i \in stops PROVE k <= i
    OBVIOUS
  <2>1. i \in from .. Len(l) /\ IsWord(l, i)
    BY <1>3
  <2> QED
    BY <1>1, <2>1
<1>6. \A i \in stops : i \in Nat
  BY <1>1
<1>7. First(l, from) = Min(stops)
  BY <1>4 DEF First
<1> HIDE DEF stops
<1>8. Min(stops) = k
  <2>1. \A x \in stops : (\A y \in stops : x =< y) => x = k
    BY <1>4, <1>5, <1>6
  <2>2. \A y \in stops : k =< y
    BY <1>5
  <2> QED
    BY <1>4, <2>1, <2>2 DEF Min
<1> QED
  BY <1>7, <1>8


\* The line of lcp exec that MaybeRewrite is for: up to c, only the name of the command and
\* flags; and at c a word.
ChildAt(l, c) == /\ Plain(l) /\ c \in 1 .. Len(l)
                 /\ Parsing(l)[c - 1].words = <<"exec">>
                 /\ IsWord(l, c)

LEMMA Rewritten ==
    ASSUME NEW l, NEW c, ChildAt(l, c)
    PROVE  MaybeRewrite(l) = InsertAt(l, c, "--")
<1>1. l \in Seq(Args) /\ Len(l) \in Nat /\ c \in 1 .. Len(l) /\ c - 1 \in 0 .. Len(l)
  BY DEF ChildAt, Plain
<1>2. OneStop(l, c - 1, "exec")
  <2>1. "exec" \in Args /\ Parsing(l)[c - 1].words = <<"exec">>
    BY DEF Args, ChildAt
  <2> QED
    BY <1>1, <2>1, FirstWord DEF ChildAt
<1>3. PICK k \in 1 .. c - 1 : /\ IsWord(l, k) /\ l[k] = "exec"
                              /\ \A i \in 1 .. c - 1 : IsWord(l, i) => i = k
  BY <1>2 DEF OneStop
<1>4. k \in 1 .. Len(l) /\ k # 0 /\ k + 1 \in Nat \ {0} /\ k + 1 <= c
  BY <1>1, <1>3
<1>5. First(l, 1) = k
  <2>1. \A i \in 1 .. Len(l) : 1 <= i /\ i < k => ~IsWord(l, i)
    BY <1>1, <1>3
  <2> QED
    BY <1>3, <1>4, <2>1, FirstIs DEF ChildAt
<1>6. getPosition(l) = k + 1
  BY <1>3, <1>4, <1>5 DEF getPosition
<1>7. First(l, k + 1) = c
  <2>1. \A i \in 1 .. Len(l) : k + 1 <= i /\ i < c => ~IsWord(l, i)
    BY <1>1, <1>3
  <2> QED
    BY <1>1, <1>4, <2>1, FirstIs DEF ChildAt
<1>8. l[c] # "--" /\ c # 0 /\ k + 1 # 0
  BY <1>1, <1>4 DEF ChildAt, Plain
<1> QED
  BY <1>6, <1>7, <1>8 DEF MaybeRewrite

\* The first arguments of a line.
LEMMA FirstArgs ==
    ASSUME NEW l \in Seq(Args), NEW n \in 0 .. Len(l)
    PROVE  LET part == SubSeq(l, 1, n) IN
           part \in Seq(Args) /\ Len(part) = n /\ \A i \in 1 .. n : part[i] = l[i]
<1> DEFINE part == SubSeq(l, 1, n)
<1>1. n \in Nat /\ n - 1 + 1 = n /\ \A i \in 1 .. n : 1 + i - 1 = i
  OBVIOUS
<1>2. 1 \in Int /\ n \in Int /\ \A i \in 1 .. n : l[i] \in Args
  OBVIOUS
<1>3. /\ part \in Seq(Args) /\ Len(part) = IF 1 <= n THEN n - 1 + 1 ELSE 0
      /\ \A i \in 1 .. n - 1 + 1 : part[i] = l[1 + i - 1]
  BY <1>2, SubSeqProperties
<1> HIDE DEF part
<1>4. Len(part) = n
  BY <1>1, <1>3
<1>5. \A i \in 1 .. n : part[i] = l[i]
  BY <1>1, <1>3
<1> QED
  BY <1>3, <1>4, <1>5 DEF part

\* The line with the "--".
LEMMA InsertedIs ==
    ASSUME NEW l \in Seq(Args), NEW c \in 1 .. Len(l)
    PROVE  LET new == InsertAt(l, c, "--") IN
           /\ new \in Seq(Args) /\ Len(new) = Len(l) + 1
           /\ \A i \in 1 .. c - 1 : new[i] = l[i]
           /\ new[c] = "--"
           /\ \A i \in c .. Len(l) : new[i + 1] = l[i]
<1> DEFINE a == SubSeq(l, 1, c - 1)
           b == <<"--">>
           d == SubSeq(l, c, Len(l))
<1>1. Len(l) \in Nat /\ \A i \in 1 .. Len(l) : l[i] \in Args
  OBVIOUS
<1>2. /\ a \in Seq(Args) /\ Len(a) = c - 1
      /\ \A i \in 1 .. c - 1 : a[i] = l[i]
  <2>1. c - 1 \in 0 .. Len(l)
    BY <1>1
  <2> QED
    BY <2>1, FirstArgs
<1>3. b \in Seq(Args) /\ Len(b) = 1 /\ b[1] = "--"
  BY DEF Args
<1>4. /\ d \in Seq(Args) /\ Len(d) = Len(l) - c + 1
      /\ \A i \in 1 .. Len(l) - c + 1 : d[i] = l[c + i - 1]
  <2>1. c \in Int /\ Len(l) \in Int /\ c <= Len(l) /\ \A i \in c .. Len(l) : l[i] \in Args
    BY <1>1
  <2>2. /\ d \in Seq(Args) /\ Len(d) = IF c <= Len(l) THEN Len(l) - c + 1 ELSE 0
        /\ \A i \in 1 .. Len(l) - c + 1 : d[i] = l[c + i - 1]
    BY <2>1, SubSeqProperties
  <2> QED
    BY <2>1, <2>2
<1> HIDE DEF a, b, d
<1>5. /\ a \o b \in Seq(Args) /\ Len(a \o b) = c
      /\ \A i \in 1 .. c : (a \o b)[i] = IF i <= c - 1 THEN a[i] ELSE b[i - (c - 1)]
  <2>1. Len(a) = c - 1 /\ Len(a) + Len(b) = c
    BY <1>1, <1>2, <1>3
  <2>2. /\ a \o b \in Seq(Args) /\ Len(a \o b) = Len(a) + Len(b)
        /\ \A i \in 1 .. Len(a) + Len(b) :
               (a \o b)[i] = IF i <= Len(a) THEN a[i] ELSE b[i - Len(a)]
    BY <1>2, <1>3, ConcatProperties
  <2> QED
    BY <2>1, <2>2
<1> DEFINE ab == a \o b
<1> HIDE DEF ab
<1>6. /\ ab \in Seq(Args) /\ Len(ab) = c
      /\ \A i \in 1 .. c - 1 : ab[i] = l[i]
      /\ ab[c] = "--"
  <2>1. \A i \in 1 .. c - 1 : i \in 1 .. c /\ i <= c - 1
    BY <1>1
  <2>2. c \in 1 .. c /\ ~(c <= c - 1) /\ c - (c - 1) = 1
    BY <1>1
  <2> QED
    BY <1>2, <1>3, <1>5, <2>1, <2>2 DEF ab
<1>7. /\ ab \o d \in Seq(Args) /\ Len(ab \o d) = Len(ab) + Len(d)
      /\ \A i \in 1 .. Len(ab) + Len(d) : (ab \o d)[i] =
             IF i <= Len(ab) THEN ab[i] ELSE d[i - Len(ab)]
  BY <1>4, <1>6, ConcatProperties
<1> DEFINE new == ab \o d
<1> HIDE DEF new
<1>8. /\ new \in Seq(Args) /\ Len(new) = Len(l) + 1
      /\ \A i \in 1 .. Len(l) + 1 : new[i] = IF i <= c THEN ab[i] ELSE d[i - c]
  <2>1. Len(ab) = c /\ Len(ab) + Len(d) = Len(l) + 1
    BY <1>1, <1>4, <1>6
  <2> QED
    BY <1>7, <2>1 DEF new
<1>9. \A i \in 1 .. c - 1 : new[i] = l[i]
  BY <1>1, <1>6, <1>8
<1>10. new[c] = "--"
  BY <1>1, <1>6, <1>8
<1>11. ASSUME NEW i \in c .. Len(l) PROVE new[i + 1] = l[i]
  <2>1. i + 1 \in 1 .. Len(l) + 1 /\ ~(i + 1 <= c) /\ (i + 1) - c \in 1 .. Len(l) - c + 1
    BY <1>1
  <2>2. c + ((i + 1) - c) - 1 = i
    BY <1>1
  <2> QED
    BY <1>4, <1>8, <2>1, <2>2
<1>12. InsertAt(l, c, "--") = new
  BY DEF InsertAt, new, ab, a, b, d
<1> QED
  BY <1>8, <1>9, <1>10, <1>11, <1>12


\* After the "--", arguments are words.
LEMMA EndedArg ==
    ASSUME NEW acc \in Acc, NEW a \in Args, acc.ended
    PROVE  LET next == Arg(acc, a) IN
           next.ended /\ next.flags = acc.flags /\ next.words = Append(acc.words, a)
<1> DEFINE w == Append(acc.words, a)
<1>1. Arg(acc, a) = [acc EXCEPT !.words = w]
  BY DEF Arg
<1> HIDE DEF w
<1>2. Arg(acc, a).ended = acc.ended /\ Arg(acc, a).flags = acc.flags /\ Arg(acc, a).words = w
  BY <1>1 DEF Acc
<1> QED
  BY <1>2 DEF w

LEMMA EndingArg ==
    ASSUME NEW acc \in Acc, ~acc.ended, ~acc.value
    PROVE  LET next == Arg(acc, "--") IN
           next.ended /\ next.flags = acc.flags /\ next.words = acc.words
<1>1. Arg(acc, "--") = [acc EXCEPT !.ended = TRUE]
  BY DEF Arg
<1> QED
  BY <1>1 DEF Acc

\* A word more after those from c on.
LEMMA WordMore ==
    ASSUME NEW l \in Seq(Args), NEW c \in 1 .. Len(l), NEW n \in c .. Len(l)
    PROVE  Append(<<"exec">> \o SubSeq(l, c, n - 1), l[n]) = <<"exec">> \o SubSeq(l, c, n)
<1>1. Len(l) \in Nat /\ n \in 1 .. Len(l)
  OBVIOUS
<1> DEFINE e == <<"exec">>
           some == SubSeq(l, c, n - 1)
           last == <<l[n]>>
<1>2. e \in Seq(Args) /\ last \in Seq(Args) /\ l[n] \in Args
  BY <1>1 DEF Args
<1>3. some \in Seq(Args)
  <2>1. c \in Int /\ n - 1 \in Int /\ \A i \in c .. n - 1 : l[i] \in Args
    BY <1>1
  <2> QED
    BY <2>1, SubSeqProperties
<1>4. SubSeq(l, c, n) = some \o last
  BY <1>1, SubSeqRecursiveSecond
<1> HIDE DEF e, some
<1>5. e \o some \in Seq(Args)
  BY <1>2, <1>3, ConcatProperties
<1>6. Append(e \o some, l[n]) = (e \o some) \o last
  BY <1>2, <1>5, AppendIsConcat
<1> HIDE DEF last
<1>7. (e \o some) \o last = e \o (some \o last)
  <2>1. e \in Seq(Args) /\ some \in Seq(Args) /\ last \in Seq(Args)
    BY <1>2, <1>3
  <2> QED
    BY ONLY <2>1, SMTT(60)
<1> QED
  BY <1>4, <1>6, <1>7 DEF e, some

\* So the arguments of the command that is executed are words, and flags are those before them.
LEMMA RestIsWords ==
    ASSUME NEW l, NEW c, ChildAt(l, c)
    PROVE  LET new == InsertAt(l, c, "--") IN
           /\ Parse(new).words = <<"exec">> \o SubSeq(l, c, Len(l))
           /\ Parse(new).flags = Parsing(l)[c - 1].flags
<1> DEFINE new == InsertAt(l, c, "--")
           acc == Parsing(l)[c - 1]
           after == Parsing(new)
           Q(n) == /\ after[n].ended /\ after[n].flags = acc.flags
                   /\ after[n].words = <<"exec">> \o SubSeq(l, c, n - 1)
<1>1. l \in Seq(Args) /\ Len(l) \in Nat /\ c \in 1 .. Len(l) /\ c - 1 \in 0 .. Len(l)
  BY DEF ChildAt, Plain
<1>2. /\ new \in Seq(Args) /\ Len(new) = Len(l) + 1
      /\ \A i \in 1 .. c - 1 : new[i] = l[i]
      /\ new[c] = "--"
      /\ \A i \in c .. Len(l) : new[i + 1] = l[i]
  BY <1>1, InsertedIs
<1>3. /\ acc \in Acc /\ ~acc.ended /\ ~acc.value /\ acc.words = <<"exec">>
  BY <1>1, ParsingType, NeverEnded DEF ChildAt, IsWord
<1> HIDE DEF new
<1>4. after[c - 1] = acc
  <2>1. c - 1 \in Nat /\ c - 1 <= Len(l) /\ c - 1 <= Len(new)
    BY <1>1, <1>2
  <2>2. \A i \in 1 .. c - 1 : l[i] = new[i]
    BY <1>2
  <2> QED
    BY <1>1, <1>2, <2>1, <2>2, SamePrefix
<1> HIDE DEF acc
<1>5. \A n \in 1 .. Len(l) + 1 : after[n] = Arg(after[n - 1], new[n])
  BY <1>2, ParsingDef
<1>6. Q(c)
  <2>1. after[c] = Arg(acc, "--")
    BY <1>1, <1>2, <1>4, <1>5
  <2>2. after[c].ended /\ after[c].flags = acc.flags /\ after[c].words = acc.words
    BY <1>3, <2>1, EndingArg
  <2>3. SubSeq(l, c, c - 1) = <<>>
    BY <1>1, SubSeqEmpty
  <2>4. <<"exec">> \o <<>> = <<"exec">>
    BY ConcatEmptySeq
  <2> QED
    BY <1>3, <2>2, <2>3, <2>4
<1>7. ASSUME NEW n \in c .. Len(l), Q(n) PROVE Q(n + 1)
  <2>1. n + 1 \in 1 .. Len(l) + 1 /\ (n + 1) - 1 = n /\ n \in 0 .. Len(new) /\ n \in 1 .. Len(l)
    BY <1>1, <1>2
  <2>2. after[n + 1] = Arg(after[n], l[n])
    BY <1>2, <1>5, <2>1
  <2>3. after[n] \in Acc /\ l[n] \in Args
    BY <1>1, <1>2, <2>1, ParsingType
  <2> HIDE DEF after
  <2>4. /\ after[n + 1].ended /\ after[n + 1].flags = after[n].flags
        /\ after[n + 1].words = Append(after[n].words, l[n])
    <3>1. after[n].ended
      BY <1>7
    <3> HIDE DEF Q
    <3> QED
      BY <2>2, <2>3, <3>1, EndedArg
  <2>5. Append(<<"exec">> \o SubSeq(l, c, n - 1), l[n]) = <<"exec">> \o SubSeq(l, c, n)
    BY <1>1, WordMore
  <2> QED
    BY <1>7, <2>1, <2>4, <2>5
<1> HIDE DEF after
<1>8. Q(Len(l) + 1)
  <2> HIDE DEF Q
  <2> DEFINE T == {n \in c .. Len(l) + 1 : ~Q(n)}
  <2> SUFFICES ASSUME T # {} PROVE FALSE
    BY <1>1
  <2>1. PICK m \in T : \A j \in T : ~(j < m)
    <3> HIDE DEF T
    <3>1. T \in SUBSET Nat
      BY <1>1 DEF T
    <3> QED
      BY <3>1, LeastNatural
  <2>2. m # c
    BY <1>6
  <2>3. m - 1 \in c .. Len(l) /\ m - 1 < m /\ m - 1 \in c .. Len(l) + 1 /\ (m - 1) + 1 = m
    BY <1>1, <2>2
  <2>4. Q(m - 1)
    BY <2>1, <2>3
  <2>5. Q(m)
    BY <1>7, <2>3, <2>4
  <2> QED
    BY <2>5
<1>9. Parse(new) = after[Len(l) + 1]
  BY <1>2 DEF Parse, after
<1>10. (Len(l) + 1) - 1 = Len(l)
  BY <1>1
<1> QED
  BY <1>8, <1>9, <1>10 DEF new, acc

\* The first step rewrites the line, and nothing else touches either of them.
ArgsInv == /\ line \in Seq(Args)
           /\ run # "prepareCommand" => args = MaybeRewrite(line)

LEMMA ArgsStep ==
    ASSUME ArgsInv, [Next]_vars PROVE ArgsInv'
<1>1. CASE prepareCommand
  BY <1>1 DEF prepareCommand, ArgsInv
<1>2. ASSUME UNCHANGED input, run = "prepareCommand" => UNCHANGED run PROVE ArgsInv'
  BY <1>2 DEF ArgsInv, input
<1>3. CASE Events
  BY <1>2, <1>3 DEF Events, NamespaceReady, Authentication, ReadyToStartExec, ExecStarted,
     WatchEnd, WatchErrorContainerExec, Reports, NamespaceError, Breaks
<1>4. CASE ReadLoop \/ Select \/ pipeStdinGoroutine \/ UNCHANGED vars
  BY <1>2, <1>4 DEF ReadLoop, HandlerSends, ConnDone, Select, Return, pipeStdinGoroutine,
     StdinWaits, ReadStdin, StdinFails, CloseStdin, vars
<1>5. CASE Goroutines /\ ~prepareCommand
  <2>1. UNCHANGED input
    BY <1>5 DEF Goroutines, Run, Authenticate, waitReady, handleConnections, Streams,
       waitReadyToStartExec, Fork, waitExecStarted, Start, WaitErr, Restore, GoOn, Wait
  <2>2. run # "prepareCommand"
    BY <1>5 DEF Goroutines, Run, Authenticate, waitReady, handleConnections, Streams,
       waitReadyToStartExec, Fork, waitExecStarted, Start, WaitErr, Restore, GoOn, Wait,
       Step, Returns
  <2> QED
    BY <1>2, <2>1, <2>2
<1> QED
  BY <1>1, <1>3, <1>4, <1>5 DEF Next

LEMMA ArgsAreKept == ArgsInv => ChildArgsAreKept
<1> SUFFICES ASSUME ArgsInv, run # "prepareCommand", NEW c \in DOMAIN line,
                    "--" \notin ToSet(line),
                    Parse(SubSeq(line, 1, c - 1)).words = <<"exec">>,
                    ~Parse(SubSeq(line, 1, c - 1)).value,
                    ~IsFlag(line[c])
             PROVE  /\ Parse(args).words = <<"exec">> \o SubSeq(line, c, Len(line))
                    /\ Parse(args).flags = Parse(SubSeq(line, 1, c - 1)).flags
  BY DEF ChildArgsAreKept
<1> DEFINE part == SubSeq(line, 1, c - 1)
<1>1. line \in Seq(Args) /\ Len(line) \in Nat /\ c \in 1 .. Len(line)
  BY DEF ArgsInv
<1>2. Plain(line)
  BY <1>1 DEF Plain, ToSet
<1>3. Parse(part) = Parsing(line)[c - 1]
  <2>1. c - 1 \in 0 .. Len(line) /\ c - 1 \in Nat /\ c - 1 <= Len(line) /\ c - 1 <= c - 1
    BY <1>1
  <2>2. /\ part \in Seq(Args) /\ Len(part) = c - 1
        /\ \A i \in 1 .. c - 1 : part[i] = line[i]
    BY <1>1, <2>1, FirstArgs
  <2> HIDE DEF part
  <2>3. Parsing(line)[c - 1] = Parsing(part)[c - 1]
    BY <1>1, <2>1, <2>2, SamePrefix
  <2> QED
    BY <2>2, <2>3 DEF Parse
<1>4. ChildAt(line, c)
  BY <1>1, <1>2, <1>3 DEF ChildAt, IsWord
<1>5. args = InsertAt(line, c, "--")
  BY <1>4, Rewritten DEF ArgsInv
<1> QED
  BY <1>3, <1>4, <1>5, RestIsWords

\* However long the line, what comes after the name of the command and its flags is the command
\* that is executed, word by word, and lcp has the flags before it (ChildArgsAreKept: the
\* rewriting of the arguments of exec, and what the flag library makes of them).
THEOREM ChildArgsCorrect == Spec => []ChildArgsAreKept
<1>1. Init => ArgsInv
  <2>1. Lines \subseteq Seq(Args)
    BY MaxArgsAssumption DEF Lines
  <2> QED
    BY <2>1 DEF Init, ArgsInv
<1>2. ArgsInv /\ [Next]_vars => ArgsInv'
  BY ArgsStep
<1> QED
  BY <1>1, <1>2, ArgsAreKept, PTL DEF Spec

-----------------------------------------------------------------------------
(* The live messages. *)

(* The elements of a sequence that are in a set. *)

\* What Kept is, of a sequence of length n.
Next1(s, S, k, i) == IF s[i] \in S THEN Append(k[i - 1], s[i]) ELSE k[i - 1]
IsKept(k, s, S, n) ==
    k = [i \in 0 .. n |-> IF i = 0 THEN <<>> ELSE Next1(s, S, k, i)]

\* The function exists, for as long a part of a sequence as one wants.
LEMMA KeptExists ==
    ASSUME NEW s, NEW S, NEW n \in Nat
    PROVE  \E k : IsKept(k, s, S, n)
<1> DEFINE T == {m \in Nat : ~\E k : IsKept(k, s, S, m)}
<1> SUFFICES ASSUME T # {} PROVE FALSE
  OBVIOUS
<1>1. PICK m \in T : \A j \in T : ~(j < m)
  <2> HIDE DEF T
  <2>1. T \in SUBSET Nat
    BY DEF T
  <2> QED
    BY <2>1, LeastNatural
<1>2. CASE m = 0
  <2>1. IsKept([i \in 0 .. 0 |-> <<>>], s, S, 0)
    BY DEF IsKept
  <2> QED
    BY <1>2, <2>1
<1>3. CASE m # 0
  <2>1. m - 1 \in Nat /\ m \in Nat /\ m - 1 < m
    BY <1>3
  <2>2. PICK k : IsKept(k, s, S, m - 1)
    BY <1>1, <2>1
  <2> DEFINE h == [i \in 0 .. m |-> IF i < m THEN k[i] ELSE Next1(s, S, k, m)]
  <2>3. \A i \in 0 .. m - 1 : k[i] = IF i = 0 THEN <<>> ELSE Next1(s, S, k, i)
    BY <2>2 DEF IsKept
  <2>4. ASSUME NEW i \in 0 .. m
        PROVE  h[i] = IF i = 0 THEN <<>> ELSE Next1(s, S, h, i)
    <3>1. CASE i = 0
      BY <1>3, <2>1, <2>3, <3>1
    <3>2. CASE i # 0
      <4>1. h[i - 1] = k[i - 1]
        BY <2>1, <3>2
      <4>2. h[i] = Next1(s, S, k, i)
        BY <2>1, <2>3, <3>2
      <4> HIDE DEF h
      <4> QED
        BY <3>2, <4>1, <4>2 DEF Next1
    <3> QED
      BY <3>1, <3>2
  <2>5. IsKept(h, s, S, m)
    <3>1. h = [i \in 0 .. m |-> h[i]]
      OBVIOUS
    <3> HIDE DEF h
    <3> QED
      BY <2>4, <3>1 DEF IsKept
  <2> QED
    BY <1>1, <2>5
<1> QED
  BY <1>2, <1>3

LEMMA KeptDef ==
    ASSUME NEW T, NEW s \in Seq(T), NEW S
    PROVE  /\ Kept(s, S)[0] = <<>>
           /\ \A i \in 1 .. Len(s) :
                Kept(s, S)[i] = IF s[i] \in S THEN Append(Kept(s, S)[i - 1], s[i])
                                             ELSE Kept(s, S)[i - 1]
<1>1. Len(s) \in Nat
  OBVIOUS
<1>2. \E k : IsKept(k, s, S, Len(s))
  BY <1>1, KeptExists
<1>3. Kept(s, S) = CHOOSE k : IsKept(k, s, S, Len(s))
  BY DEF Kept, IsKept, Next1
<1>4. IsKept(Kept(s, S), s, S, Len(s))
  BY <1>2, <1>3
<1>5. ASSUME NEW k, IsKept(k, s, S, Len(s))
      PROVE  /\ k[0] = <<>>
             /\ \A i \in 1 .. Len(s) :
                  k[i] = IF s[i] \in S THEN Append(k[i - 1], s[i]) ELSE k[i - 1]
  <2>1. \A i \in 0 .. Len(s) : k[i] = IF i = 0 THEN <<>> ELSE Next1(s, S, k, i)
    BY <1>5 DEF IsKept
  <2> QED
    BY <1>1, <2>1 DEF Next1
<1> QED
  BY <1>4, <1>5

\* It is made of elements of the sequence.
LEMMA KeptType ==
    ASSUME NEW T, NEW s \in Seq(T), NEW S
    PROVE  \A i \in 0 .. Len(s) : Kept(s, S)[i] \in Seq(T)
<1> DEFINE W == {i \in 0 .. Len(s) : Kept(s, S)[i] \notin Seq(T)}
<1> SUFFICES ASSUME W # {} PROVE FALSE
  OBVIOUS
<1>1. PICK m \in W : \A j \in W : ~(j < m)
  <2>1. W \in SUBSET Nat
    OBVIOUS
  <2> HIDE DEF W
  <2> QED
    BY <2>1, LeastNatural
<1>2. m # 0
  <2>1. Kept(s, S)[0] = <<>>
    BY KeptDef
  <2>2. <<>> \in Seq(T)
    OBVIOUS
  <2> QED
    BY <2>1, <2>2
<1>3. m \in 1 .. Len(s) /\ m - 1 \in 0 .. Len(s) /\ m - 1 < m
  BY <1>2
<1>4. Kept(s, S)[m - 1] \in Seq(T)
  BY <1>1, <1>3
<1>5. s[m] \in T
  BY <1>3
<1>6. Kept(s, S)[m] = IF s[m] \in S THEN Append(Kept(s, S)[m - 1], s[m])
                                   ELSE Kept(s, S)[m - 1]
  BY <1>3, KeptDef
<1> HIDE DEF Kept
<1>7. Kept(s, S)[m] \in Seq(T)
  BY <1>4, <1>5, <1>6
<1> QED
  BY <1>7

LEMMA FilteredType ==
    ASSUME NEW T, NEW s \in Seq(T), NEW S
    PROVE  Filtered(s, S) \in Seq(T)
  BY KeptType DEF Filtered

-----------------------------------------------------------------------------
(* Types. *)

\* The head of what is left to print, while the ticker is at it.
TodoInv == tpc \in {"symbol", "advance"} => todo # <<>> /\ frame # <<>>

\* Between the two sections of getSymbol the counter that was read is a symbol.
SeenInv == tpc = "advance" => seen # -1

\* The ticker takes the read lock at each turn of its loop and keeps the last one for ever;
\* it is in the wait group from its first step to its last.
LockInv ==
    /\ rlocks = IF tpc \in {"start", "make", "loop"} THEN 0 ELSE 1
    /\ waitEnd = IF tpc \in {"start", "done"} THEN 0 ELSE 1

TypeInv == LiveTypeOK /\ TodoInv /\ SeenInv /\ LockInv

LEMMA InitType == LiveInit => TypeInv
<1> SUFFICES ASSUME LiveInit PROVE TypeInv
  OBVIOUS
<1>1. text \in [Msgs -> Texts \cup {""}]
  BY DEF LiveInit
<1>2. counter \in [Msgs -> -1 .. (NSymbols - 1)]
  <2>1. counter = [m \in Msgs |-> 0]
    BY DEF LiveInit
  <2> QED
    BY <2>1, NSymbolsAssumption
<1>3. msgs \in Seq(Msgs)
  <2>1. msgs = <<FirstMsg>>
    BY DEF LiveInit
  <2> QED
    BY <2>1, FirstAssumption
<1>4. /\ rlocks = 0 /\ waitEnd = 0 /\ tpc = "start" /\ tickerd = "nil" /\ cpc = "edit"
      /\ final = FALSE /\ missed = FALSE /\ ending = {}
  BY DEF LiveInit
<1>5. screen \in Seq(Texts \X BOOLEAN) /\ frame \in Seq(Texts \X BOOLEAN) /\ todo \in Seq(Msgs)
  <2>1. screen = <<>> /\ frame = <<>> /\ todo = <<>>
    BY DEF LiveInit
  <2> QED
    BY <2>1
<1>6. seen \in -1 .. (NSymbols - 1) /\ edits \in 0 .. MaxEdits
  <2>1. seen = -1 /\ edits = 0
    BY DEF LiveInit
  <2> QED
    BY <2>1, NSymbolsAssumption, MaxEditsAssumption
<1> QED
  BY <1>1, <1>2, <1>3, <1>4, <1>5, <1>6 DEF TypeInv, LiveTypeOK, TodoInv, SeenInv, LockInv

\* A symbol after another.
LEMMA NextSymbol ==
    ASSUME NEW c \in -1 .. (NSymbols - 1), c # -1
    PROVE  (c + 1) % NSymbols \in 0 .. (NSymbols - 1)
  BY NSymbolsAssumption

\* A spinner before the last line.
LEMMA SpinnerAdded ==
    ASSUME NEW f \in Seq(Texts \X BOOLEAN), f # <<>>
    PROVE  LET g == [f EXCEPT ![Len(f)] = <<@[1], TRUE>>]
           IN  /\ g \in Seq(Texts \X BOOLEAN)
               /\ Len(g) = Len(f)
               /\ g # <<>>
               /\ \A i \in 1 .. Len(f) : g[i][1] = f[i][1]
<1> DEFINE n == Len(f)
           v == <<f[n][1], TRUE>>
           g == [f EXCEPT ![n] = v]
<1>1. n \in 1 .. n /\ n \in Nat
  OBVIOUS
<1>2. f[n] \in Texts \X BOOLEAN
  BY <1>1
<1>3. v \in Texts \X BOOLEAN /\ v[1] = f[n][1]
  BY <1>2
<1>4. g \in Seq(Texts \X BOOLEAN) /\ Len(g) = n
  <2> HIDE DEF v
  <2> QED
    BY <1>1, <1>3
<1>5. \A i \in 1 .. n : g[i] = IF i = n THEN v ELSE f[i]
  <2> HIDE DEF v
  <2> QED
    BY <1>1
<1>6. \A i \in 1 .. n : g[i][1] = f[i][1]
  <2> HIDE DEF v, g
  <2> QED
    BY <1>3, <1>5
<1>7. g # <<>>
  <2> HIDE DEF v, g
  <2> QED
    BY <1>1, <1>4
<1> QED
  BY <1>4, <1>6, <1>7

\* The types of what no lock or program counter is: they are proved apart.
Data == /\ text \in [Msgs -> Texts \cup {""}]
        /\ counter \in [Msgs -> -1 .. (NSymbols - 1)]
        /\ msgs \in Seq(Msgs) /\ todo \in Seq(Msgs)
        /\ screen \in Seq(Texts \X BOOLEAN) /\ frame \in Seq(Texts \X BOOLEAN)
        /\ seen \in -1 .. (NSymbols - 1)
        /\ ending \subseteq Msgs
        /\ edits \in 0 .. MaxEdits
Control == /\ tickerd \in {"nil", "empty", "full"}
           /\ tpc \in {"start", "make", "loop", "select", "print", "symbol", "advance",
                       "runlock", "finish", "done"}
           /\ final \in BOOLEAN
           /\ cpc \in {"edit", "end", "lock", "wait", "stopped"}
           /\ missed \in BOOLEAN

LEMMA InParts == TypeInv => Data /\ Control /\ TodoInv /\ SeenInv /\ LockInv
  BY DEF TypeInv, LiveTypeOK, Data, Control

LEMMA Composed == Data' /\ Control' /\ TodoInv' /\ SeenInv' /\ LockInv' => TypeInv'
<1> SUFFICES ASSUME Data', Control', TodoInv', SeenInv', LockInv' PROVE TypeInv'
  OBVIOUS
<1>1. rlocks' \in {0, 1} /\ waitEnd' \in {0, 1}
  BY DEF LockInv
<1> QED
  BY <1>1 DEF TypeInv, LiveTypeOK, Data, Control

LEMMA SameData ==
    Data /\ UNCHANGED <<message, msgs, todo, screen, frame, seen, ending, edits>> => Data'
  BY DEF Data, message

LEMMA ControlType == TypeInv /\ LiveNext => Control' /\ LockInv'
<1> SUFFICES ASSUME Control, LockInv, LiveNext PROVE Control' /\ LockInv'
  BY InParts
<1> USE DEF Control, LockInv
<1>1. CASE Begin
  BY <1>1 DEF Begin, caller
<1>2. CASE MakeTickerd
  BY <1>2 DEF MakeTickerd, caller
<1>3. CASE RLock
  BY <1>3 DEF RLock, caller
<1>4. CASE Tick \/ RecvTickerd
  BY <1>4 DEF Tick, RecvTickerd, StartPrint, caller, sync
<1>5. CASE SkipEmpty \/ GetText
  BY <1>5 DEF SkipEmpty, GetText, caller, sync
<1>6. CASE ReadCounter \/ AdvanceCounter
  BY <1>6 DEF ReadCounter, AdvanceCounter, caller, sync
<1>7. CASE Flush
  BY <1>7 DEF Flush, caller, sync
<1>8. CASE RUnlock
  BY <1>8 DEF RUnlock, caller
<1>9. CASE Finish
  BY <1>9 DEF Finish, caller
<1>10. CASE Edit
  BY <1>10 DEF Edit, PlayText, StopText, AddMessage, RemoveMessage, Editing, ticker
<1>11. CASE Stop
  BY <1>11 DEF Stop, CallStop, End, AskLock, SendTickerd, StopReturns, ticker, sync
<1> QED
  BY <1>1, <1>2, <1>3, <1>4, <1>5, <1>6, <1>7, <1>8, <1>9, <1>10, <1>11 DEF LiveNext, TickerNext

LEMMA TickerType == TypeInv /\ TickerNext => Data' /\ TodoInv' /\ SeenInv'
<1> SUFFICES ASSUME TypeInv, TickerNext PROVE Data' /\ TodoInv' /\ SeenInv'
  OBVIOUS
<1>1. Data /\ TodoInv /\ SeenInv
  BY InParts
<1>2. todo # <<>> => Head(todo) \in Msgs /\ Tail(todo) \in Seq(Msgs)
  <2>1. todo \in Seq(Msgs)
    BY <1>1 DEF Data
  <2> QED
    BY <2>1
<1>3. <<>> \in Seq(Texts \X BOOLEAN)
  OBVIOUS
<1>4. CASE Begin \/ MakeTickerd \/ RLock \/ RUnlock \/ Finish
  <2>1. UNCHANGED <<message, msgs, todo, screen, frame, seen, ending, edits>>
    BY <1>4 DEF Begin, MakeTickerd, RLock, RUnlock, Finish, caller
  <2>2. tpc' \notin {"symbol", "advance"}
    BY <1>4 DEF Begin, MakeTickerd, RLock, RUnlock, Finish
  <2> QED
    BY <1>1, <2>1, <2>2, SameData DEF TodoInv, SeenInv
<1>5. CASE Tick \/ RecvTickerd
  <2>1. /\ UNCHANGED <<message, msgs, screen, seen, ending, edits>>
        /\ todo' = msgs /\ frame' = <<>> /\ tpc' = "print"
    BY <1>5 DEF Tick, RecvTickerd, StartPrint, caller
  <2> QED
    BY <1>1, <1>3, <2>1 DEF Data, message, TodoInv, SeenInv
<1>6. CASE SkipEmpty
  <2>1. /\ UNCHANGED <<message, msgs, screen, frame, seen, ending, edits>>
        /\ todo' = Tail(todo) /\ todo # <<>> /\ tpc' = "print"
    BY <1>6 DEF SkipEmpty, caller
  <2> QED
    BY <1>1, <1>2, <2>1 DEF Data, message, TodoInv, SeenInv
<1>7. CASE GetText
  <2> DEFINE row == <<text[Head(todo)], FALSE>>
  <2>1. /\ UNCHANGED <<message, msgs, screen, todo, seen, ending, edits>>
        /\ frame' = Append(frame, row) /\ todo # <<>> /\ tpc' = "symbol"
        /\ text[Head(todo)] # ""
    BY <1>7 DEF GetText, caller
  <2>2. row \in Texts \X BOOLEAN
    BY <1>1, <1>2, <2>1 DEF Data
  <2> HIDE DEF row
  <2>3. frame' \in Seq(Texts \X BOOLEAN) /\ frame' # <<>>
    <3>1. frame \in Seq(Texts \X BOOLEAN) /\ frame' = Append(frame, row)
      BY <1>1, <2>1 DEF Data
    <3> QED
      BY <2>2, <3>1
  <2> QED
    BY <1>1, <2>1, <2>3 DEF Data, message, TodoInv, SeenInv
<1>8. CASE ReadCounter
  <2>1. /\ tpc = "symbol" /\ todo # <<>> /\ frame # <<>>
        /\ UNCHANGED <<message, msgs, screen, ending, edits>>
    BY <1>1, <1>8 DEF ReadCounter, TodoInv, caller
  <2>2. CASE tpc' = "print" /\ todo' = Tail(todo) /\ UNCHANGED <<seen, frame>>
    BY <1>1, <1>2, <2>1, <2>2 DEF Data, message, TodoInv, SeenInv
  <2>3. CASE /\ counter[Head(todo)] # -1
             /\ seen' = counter[Head(todo)]
             /\ frame' = [frame EXCEPT ![Len(frame)] = <<@[1], TRUE>>]
             /\ tpc' = "advance"
             /\ UNCHANGED todo
    <3>1. frame' \in Seq(Texts \X BOOLEAN) /\ frame' # <<>>
      BY <1>1, <2>1, <2>3, SpinnerAdded DEF Data
    <3>2. seen' \in -1 .. (NSymbols - 1) /\ seen' # -1
      BY <1>1, <1>2, <2>1, <2>3 DEF Data
    <3>3. tpc' = "advance" /\ UNCHANGED todo
      BY <2>3
    <3> QED
      BY <1>1, <2>1, <3>1, <3>2, <3>3 DEF Data, message, TodoInv, SeenInv
  <2> QED
    BY <1>8, <2>2, <2>3 DEF ReadCounter
<1>9. CASE AdvanceCounter
  <2>1. /\ tpc = "advance" /\ todo # <<>> /\ seen # -1
        /\ UNCHANGED <<text, msgs, screen, frame, ending, edits>>
        /\ todo' = Tail(todo) /\ seen' = -1 /\ tpc' = "print"
    BY <1>1, <1>9 DEF AdvanceCounter, TodoInv, SeenInv, caller
  <2>2. (seen + 1) % NSymbols \in -1 .. (NSymbols - 1)
    <3>1. (seen + 1) % NSymbols \in 0 .. (NSymbols - 1)
      BY <1>1, <2>1, NextSymbol DEF Data
    <3> QED
      BY <3>1, NSymbolsAssumption
  <2>3. counter' \in [Msgs -> -1 .. (NSymbols - 1)]
    BY <1>1, <1>9, <2>2 DEF AdvanceCounter, Data
  <2>4. seen' \in -1 .. (NSymbols - 1)
    BY <2>1, NSymbolsAssumption
  <2> QED
    BY <1>1, <1>2, <2>1, <2>3, <2>4 DEF Data, TodoInv, SeenInv
<1>10. CASE Flush
  <2>1. /\ UNCHANGED <<message, msgs, todo, seen, ending, edits>>
        /\ screen' = frame /\ frame' = <<>> /\ tpc' \in {"finish", "runlock"}
    BY <1>10 DEF Flush, caller
  <2> QED
    BY <1>1, <1>3, <2>1 DEF Data, message, TodoInv, SeenInv
<1> QED
  BY <1>4, <1>5, <1>6, <1>7, <1>8, <1>9, <1>10 DEF TickerNext

LEMMA CallerType == TypeInv /\ (Edit \/ Stop) => Data' /\ TodoInv' /\ SeenInv'
<1> SUFFICES ASSUME TypeInv, Edit \/ Stop PROVE Data' /\ TodoInv' /\ SeenInv'
  OBVIOUS
<1>1. Data /\ TodoInv /\ SeenInv
  BY InParts
<1>2. -1 \in -1 .. (NSymbols - 1) /\ 0 \in -1 .. (NSymbols - 1)
  BY NSymbolsAssumption
<1>3. UNCHANGED ticker
  BY DEF Edit, PlayText, StopText, AddMessage, RemoveMessage, Editing, Stop, CallStop, End,
         AskLock, SendTickerd, StopReturns
<1>4. TodoInv' /\ SeenInv'
  BY <1>1, <1>3 DEF TodoInv, SeenInv, ticker
<1>5. ASSUME Editing PROVE edits' \in 0 .. MaxEdits /\ UNCHANGED ending
  <2>1. edits \in 0 .. MaxEdits /\ MaxEdits \in Nat
    BY <1>1, MaxEditsAssumption DEF Data
  <2> QED
    BY <1>5, <2>1 DEF Editing
<1>6. ASSUME NEW m \in Msgs, NEW t \in Texts \cup {""}, PlayText(m, t) \/ StopText(m, t)
      PROVE  Data'
  <2>1. text' \in [Msgs -> Texts \cup {""}]
    BY <1>1, <1>6 DEF PlayText, StopText, Data
  <2>2. counter' \in [Msgs -> -1 .. (NSymbols - 1)]
    BY <1>1, <1>2, <1>6 DEF PlayText, StopText, Data
  <2>3. Editing /\ UNCHANGED msgs
    BY <1>6 DEF PlayText, StopText
  <2> QED
    BY <1>1, <1>3, <1>5, <2>1, <2>2, <2>3 DEF Data, ticker
<1>7. ASSUME NEW m \in Msgs, AddMessage(m) \/ RemoveMessage(m)
      PROVE  Data'
  <2>1. CASE AddMessage(m)
    <3>1. msgs' \in Seq(Msgs)
      <4>1. msgs \in Seq(Msgs) /\ msgs' = Append(msgs, m)
        BY <1>1, <2>1 DEF AddMessage, Data
      <4> QED
        BY <4>1
    <3>2. Editing /\ UNCHANGED message
      BY <2>1 DEF AddMessage
    <3> QED
      BY <1>1, <1>3, <1>5, <3>1, <3>2 DEF Data, ticker, message
  <2>2. CASE RemoveMessage(m)
    <3>1. msgs' = Filtered(msgs, Msgs \ {m}) /\ msgs \in Seq(Msgs)
      BY <1>1, <2>2 DEF RemoveMessage, Data
    <3>2. msgs' \in Seq(Msgs)
      BY <3>1, FilteredType
    <3>3. Editing /\ UNCHANGED message
      BY <2>2 DEF RemoveMessage
    <3> QED
      BY <1>1, <1>3, <1>5, <3>2, <3>3 DEF Data, ticker, message
  <2> QED
    BY <1>7, <2>1, <2>2
<1>8. CASE CallStop
  <2>1. ending' = {msgs[i] : i \in DOMAIN msgs} /\ UNCHANGED <<message, msgs, edits>>
    BY <1>8 DEF CallStop
  <2>2. ending' \subseteq Msgs
    <3>1. msgs \in Seq(Msgs)
      BY <1>1 DEF Data
    <3> QED
      BY <2>1, <3>1
  <2>3. UNCHANGED <<text, counter, msgs, edits, todo, screen, frame, seen>>
    BY <1>3, <2>1 DEF ticker, message
  <2> QED
    BY <1>1, <1>4, <2>2, <2>3 DEF Data
<1>9. ASSUME NEW m \in Msgs, End(m)
      PROVE  Data'
  <2>1. counter' \in [Msgs -> -1 .. (NSymbols - 1)] /\ ending' \subseteq Msgs
    BY <1>1, <1>2, <1>9 DEF End, Data
  <2>2. UNCHANGED <<text, msgs, edits>>
    BY <1>9 DEF End
  <2> QED
    BY <1>1, <1>3, <2>1, <2>2 DEF Data, ticker
<1>10. CASE AskLock \/ SendTickerd \/ StopReturns
  <2>1. UNCHANGED <<message, msgs, ending, edits>>
    BY <1>10 DEF AskLock, SendTickerd, StopReturns
  <2>2. UNCHANGED <<todo, screen, frame, seen>>
    BY <1>3 DEF ticker
  <2>3. UNCHANGED <<message, msgs, todo, screen, frame, seen, ending, edits>>
    BY <2>1, <2>2
  <2> QED
    BY <1>1, <1>4, <2>3, SameData
<1> QED
  BY <1>4, <1>6, <1>7, <1>8, <1>9, <1>10 DEF Edit, Stop

LEMMA NextType == TypeInv /\ [LiveNext]_liveVars => TypeInv'
<1> SUFFICES ASSUME TypeInv, [LiveNext]_liveVars PROVE TypeInv'
  OBVIOUS
<1>1. CASE UNCHANGED liveVars
  <2>1. Data'
    BY <1>1, InParts, SameData DEF liveVars, message
  <2>2. Control' /\ TodoInv' /\ SeenInv' /\ LockInv'
    BY <1>1, InParts DEF liveVars, Control, TodoInv, SeenInv, LockInv
  <2> QED
    BY <2>1, <2>2, Composed
<1>2. CASE LiveNext
  <2>1. Data' /\ TodoInv' /\ SeenInv'
    BY <1>2, TickerType, CallerType DEF LiveNext
  <2>2. Control' /\ LockInv'
    BY <1>2, ControlType
  <2> QED
    BY <2>1, <2>2, Composed
<1> QED
  BY <1>1, <1>2

\* TypeOK, and the accounting of the read lock and of the wait group.
LEMMA TypeInvCorrect == LiveSpec => []TypeInv
<1>1. LiveInit => TypeInv
  BY InitType
<1>2. TypeInv /\ [LiveNext]_liveVars => TypeInv'
  BY NextType
<1> QED
  BY <1>1, <1>2, PTL DEF LiveSpec

\* TypeOK: messages, locks, channels and frames keep their types.
THEOREM LiveTypeCorrect == LiveSpec => []LiveTypeOK
<1>1. TypeInv => LiveTypeOK
  BY DEF TypeInv
<1> QED
  BY <1>1, TypeInvCorrect, PTL

-----------------------------------------------------------------------------
(* The ticker is over when Stop returns. *)

\* The channel exists from MakeTickerd on; only Stop fills it, and only what Stop sent takes
\* the ticker out of its loop.
StopInv ==
    /\ tickerd = "nil" <=> tpc \in {"start", "make"}
    /\ tickerd = "full" \/ final => cpc \in {"wait", "stopped"}
    /\ tpc \in {"finish", "done"} => final
    /\ final => tpc \in {"print", "symbol", "advance", "finish", "done"}
    /\ cpc \in {"wait", "stopped"} /\ ~missed => tpc \notin {"start", "make"}
    /\ TickerIsOver

LEMMA NextStop == Control /\ LockInv /\ StopInv /\ [LiveNext]_liveVars => StopInv'
<1> SUFFICES ASSUME Control, LockInv, StopInv, [LiveNext]_liveVars PROVE StopInv'
  OBVIOUS
<1> USE DEF Control, StopInv, TickerIsOver
<1>1. CASE Begin
  BY <1>1 DEF Begin, caller
<1>2. CASE MakeTickerd
  BY <1>2 DEF MakeTickerd, caller
<1>3. CASE RLock \/ Tick \/ RUnlock
  BY <1>3 DEF RLock, Tick, RUnlock, StartPrint, caller, sync
<1>4. CASE RecvTickerd
  BY <1>4 DEF RecvTickerd, StartPrint, caller
<1>5. CASE SkipEmpty \/ GetText \/ ReadCounter \/ AdvanceCounter
  <2>1. UNCHANGED <<tickerd, final, cpc, missed>>
    BY <1>5 DEF SkipEmpty, GetText, ReadCounter, AdvanceCounter, caller, sync
  <2>2. /\ tpc \in {"print", "symbol", "advance"}
        /\ tpc' \in {"print", "symbol", "advance"}
    BY <1>5 DEF SkipEmpty, GetText, ReadCounter, AdvanceCounter
  <2> QED
    BY <2>1, <2>2
<1>6. CASE Edit
  <2>1. UNCHANGED <<tickerd, final, cpc, missed, tpc>>
    BY <1>6 DEF Edit, PlayText, StopText, AddMessage, RemoveMessage, Editing, ticker
  <2> QED
    BY <2>1
<1>7. CASE Flush
  BY <1>7 DEF Flush, caller, sync
<1>8. CASE Finish
  BY <1>8 DEF Finish, caller
<1>9. CASE CallStop \/ (\E m \in Msgs : End(m)) \/ AskLock
  BY <1>9 DEF CallStop, End, AskLock, ticker, sync
<1>10. CASE SendTickerd
  BY <1>10 DEF SendTickerd, ticker
<1>11. CASE StopReturns
  BY <1>11 DEF StopReturns, LockInv, ticker, sync
<1>12. CASE UNCHANGED liveVars
  BY <1>12 DEF liveVars
<1> QED
  BY <1>1, <1>2, <1>3, <1>4, <1>5, <1>6, <1>7, <1>8, <1>9, <1>10, <1>11, <1>12
     DEF LiveNext, TickerNext, Stop

LEMMA StopInvCorrect == LiveSpec => []StopInv
<1>1. LiveInit => StopInv
  BY DEF LiveInit, StopInv, TickerIsOver
<1>2. TypeInv /\ StopInv /\ [LiveNext]_liveVars => StopInv'
  BY NextStop, InParts
<1> QED
  BY <1>1, <1>2, TypeInvCorrect, PTL DEF LiveSpec

\* TickerIsOver: when Stop returns, having found a channel, the goroutine that prints is over.
THEOREM TickerCorrect == LiveSpec => []TickerIsOver
<1>1. StopInv => TickerIsOver
  BY DEF StopInv
<1> QED
  BY <1>1, StopInvCorrect, PTL

-----------------------------------------------------------------------------
(* The last frame shows the last texts. *)

\* How many messages the frame that is made has gone over, and the ones it is to show.
Printed == Len(msgs) - Len(todo)
ToShow == Kept(msgs, Shown)

\* The last frame: what is left is the end of the list, and its lines are the texts of the
\* messages before that have one.  From the signal of Stop on nothing edits them.
FrameInv == final =>
    /\ tpc \in {"print", "symbol", "advance"} =>
          /\ Len(todo) <= Len(msgs)
          /\ \A i \in 1 .. Len(todo) : todo[i] = msgs[Printed + i]
    /\ tpc = "print" => Shows(frame, ToShow[Printed])
    /\ tpc \in {"symbol", "advance"} => Shows(frame, ToShow[Printed + 1])
    /\ tpc \in {"finish", "done"} => Shows(screen, Filtered(msgs, Shown))

\* A line more, of a message more.
LEMMA ShowsMore ==
    ASSUME NEW T, NEW lines \in Seq(T), NEW row \in T, NEW list \in Seq(Msgs), NEW m \in Msgs,
           Shows(lines, list), row[1] = text[m]
    PROVE  Shows(Append(lines, row), Append(list, m))
<1> DEFINE L == Append(lines, row)
           M == Append(list, m)
<1>1. Len(L) = Len(lines) + 1 /\ Len(M) = Len(list) + 1 /\ Len(lines) \in Nat
  OBVIOUS
<1>2. Len(lines) = Len(list) /\ \A i \in 1 .. Len(list) : lines[i][1] = text[list[i]]
  BY DEF Shows
<1>3. ASSUME NEW i \in 1 .. Len(list)
      PROVE  L[i] = lines[i] /\ M[i] = list[i]
  BY <1>2
<1>4. L[Len(list) + 1] = row /\ M[Len(list) + 1] = m
  BY <1>2
<1> HIDE DEF L, M
<1>5. \A i \in 1 .. Len(M) : L[i][1] = text[M[i]]
  BY <1>1, <1>2, <1>3, <1>4
<1> QED
  BY <1>1, <1>2, <1>5 DEF Shows, L, M

\* The head of what is left is at its place of the list.
LEMMA Going ==
    ASSUME Data, todo # <<>>, Len(todo) <= Len(msgs),
           \A i \in 1 .. Len(todo) : todo[i] = msgs[Printed + i]
    PROVE  /\ Printed \in Nat /\ Printed + 1 \in 1 .. Len(msgs)
           /\ Head(todo) = msgs[Printed + 1] /\ Head(todo) \in Msgs
           /\ Len(Tail(todo)) = Len(todo) - 1 /\ Len(Tail(todo)) <= Len(msgs)
           /\ \A i \in 1 .. Len(Tail(todo)) : Tail(todo)[i] = msgs[Printed + 1 + i]
<1>1. msgs \in Seq(Msgs) /\ todo \in Seq(Msgs) /\ Len(msgs) \in Nat /\ Len(todo) \in Nat
  <2>1. msgs \in Seq(Msgs) /\ todo \in Seq(Msgs)
    BY DEF Data
  <2> QED
    BY <2>1
<1>2. Len(todo) >= 1 /\ Head(todo) = todo[1] /\ Head(todo) \in Msgs
  BY <1>1
<1>3. Len(Tail(todo)) = Len(todo) - 1
  BY <1>1
<1>4. \A i \in 1 .. Len(Tail(todo)) : Tail(todo)[i] = todo[i + 1]
  BY <1>1
<1>5. Printed \in Nat /\ Printed + 1 \in 1 .. Len(msgs) /\ Head(todo) = msgs[Printed + 1]
  BY <1>1, <1>2 DEF Printed
<1>6. ASSUME NEW i \in 1 .. Len(Tail(todo)) PROVE Tail(todo)[i] = msgs[Printed + 1 + i]
  <2>1. i + 1 \in 1 .. Len(todo) /\ Printed + (i + 1) = Printed + 1 + i
    BY <1>1, <1>3, <1>5
  <2> QED
    BY <1>4, <2>1
<1> QED
  BY <1>1, <1>2, <1>3, <1>5, <1>6

LEMMA ToShowDef ==
    ASSUME Data
    PROVE  /\ ToShow[0] = <<>>
           /\ \A i \in 1 .. Len(msgs) :
                ToShow[i] = IF text[msgs[i]] # "" THEN Append(ToShow[i - 1], msgs[i])
                                                  ELSE ToShow[i - 1]
           /\ \A i \in 0 .. Len(msgs) : ToShow[i] \in Seq(Msgs)
           /\ ToShow[Len(msgs)] = Filtered(msgs, Shown)
<1>1. msgs \in Seq(Msgs)
  BY DEF Data
<1>2. \A i \in 1 .. Len(msgs) : msgs[i] \in Shown <=> text[msgs[i]] # ""
  <2>1. \A i \in 1 .. Len(msgs) : msgs[i] \in Msgs
    BY <1>1
  <2> QED
    BY <2>1 DEF Shown
<1>3. /\ Kept(msgs, Shown)[0] = <<>>
      /\ \A i \in 1 .. Len(msgs) :
           Kept(msgs, Shown)[i] =
               IF msgs[i] \in Shown THEN Append(Kept(msgs, Shown)[i - 1], msgs[i])
                                    ELSE Kept(msgs, Shown)[i - 1]
  BY <1>1, KeptDef
<1>4. \A i \in 0 .. Len(msgs) : Kept(msgs, Shown)[i] \in Seq(Msgs)
  BY <1>1, KeptType
<1> QED
  BY <1>2, <1>3, <1>4 DEF ToShow, Filtered

LEMMA SameToShow ==
    UNCHANGED <<msgs, text>> =>
        ToShow' = ToShow /\ Filtered(msgs, Shown)' = Filtered(msgs, Shown)
  BY DEF ToShow, Filtered, Kept, Shown

LEMMA NextFrame ==
    TypeInv /\ StopInv /\ FrameInv /\ [LiveNext]_liveVars => FrameInv'
<1> SUFFICES ASSUME TypeInv, StopInv, FrameInv, [LiveNext]_liveVars, final' PROVE FrameInv'
  BY DEF FrameInv
<1>1. Data /\ TodoInv /\ msgs \in Seq(Msgs) /\ Len(msgs) \in Nat /\ todo \in Seq(Msgs)
  <2>1. Data /\ TodoInv
    BY InParts
  <2>2. msgs \in Seq(Msgs) /\ todo \in Seq(Msgs)
    BY <2>1 DEF Data
  <2> QED
    BY <2>1, <2>2
<1>2. CASE RecvTickerd
  <2>1. /\ todo' = msgs /\ frame' = <<>> /\ tpc' = "print" /\ UNCHANGED <<msgs, text>>
    BY <1>2 DEF RecvTickerd, StartPrint, message
  <2>2. Printed' = 0
    BY <1>1, <2>1 DEF Printed
  <2>3. ToShow'[0] = <<>>
    BY <1>1, <2>1, SameToShow, ToShowDef
  <2>4. Shows(frame, ToShow[Printed])'
    BY <2>1, <2>2, <2>3 DEF Shows
  <2>5. \A i \in 1 .. Len(todo') : todo'[i] = msgs'[Printed' + i]
    BY <1>1, <2>1, <2>2
  <2> QED
    BY <1>1, <2>1, <2>4, <2>5 DEF FrameInv
<1>3. CASE final
  <2>1. UNCHANGED <<msgs, text>>
    BY <1>3 DEF StopInv, LiveNext, TickerNext, Stop, Begin, MakeTickerd, RLock, Tick,
       RecvTickerd, SkipEmpty, GetText, ReadCounter, AdvanceCounter, Flush, RUnlock, Finish,
       Edit, PlayText, StopText, AddMessage, RemoveMessage, Editing, CallStop, End, AskLock,
       SendTickerd, StopReturns, message, liveVars
  <2>2. ToShow' = ToShow /\ Filtered(msgs, Shown)' = Filtered(msgs, Shown)
    BY <2>1, SameToShow
  <2>3. CASE tpc = "print" /\ todo # <<>>
    <3>1. /\ Printed \in Nat /\ Printed + 1 \in 1 .. Len(msgs)
          /\ Head(todo) = msgs[Printed + 1] /\ Head(todo) \in Msgs
          /\ Len(Tail(todo)) = Len(todo) - 1 /\ Len(Tail(todo)) <= Len(msgs)
          /\ \A i \in 1 .. Len(Tail(todo)) : Tail(todo)[i] = msgs[Printed + 1 + i]
      BY <1>1, <1>3, <2>3, Going DEF FrameInv
    <3>2. Shows(frame, ToShow[Printed]) /\ ToShow[Printed] \in Seq(Msgs)
      <4>1. Shows(frame, ToShow[Printed])
        BY <1>3, <2>3 DEF FrameInv
      <4>2. Printed \in 0 .. Len(msgs)
        BY <1>1, <3>1
      <4> QED
        BY <1>1, <4>1, <4>2, ToShowDef
    <3>3. ToShow[Printed + 1] = IF text[Head(todo)] # "" THEN Append(ToShow[Printed], Head(todo))
                                                         ELSE ToShow[Printed]
      <4> DEFINE j == Printed + 1
      <4>1. j \in 1 .. Len(msgs) /\ j - 1 = Printed /\ msgs[j] = Head(todo)
        BY <3>1
      <4> HIDE DEF j
      <4>2. ToShow[j] = IF text[msgs[j]] # "" THEN Append(ToShow[j - 1], msgs[j])
                                             ELSE ToShow[j - 1]
        BY <1>1, <4>1, ToShowDef
      <4>3. ToShow[j] = IF text[Head(todo)] # "" THEN Append(ToShow[Printed], Head(todo))
                                                ELSE ToShow[Printed]
        BY <4>1, <4>2
      <4> QED
        BY <4>3 DEF j
    <3>4. CASE SkipEmpty
      <4>1. /\ todo' = Tail(todo) /\ tpc' = "print" /\ frame' = frame
            /\ ToShow[Printed + 1] = ToShow[Printed]
        BY <3>3, <3>4 DEF SkipEmpty
      <4>2. Printed' = Printed + 1
        <5>1. Len(todo') = Len(todo) - 1 /\ Len(todo) \in Nat
          BY <1>1, <3>1, <4>1
        <5> QED
          BY <1>1, <2>1, <5>1 DEF Printed
      <4>3. Shows(frame, ToShow[Printed])'
        BY <2>1, <2>2, <3>2, <4>1, <4>2 DEF Shows
      <4> QED
        BY <2>1, <3>1, <4>1, <4>2, <4>3 DEF FrameInv
    <3>5. CASE GetText
      <4> DEFINE row == <<text[Head(todo)], FALSE>>
      <4>1. /\ todo' = todo /\ tpc' = "symbol" /\ frame' = Append(frame, row)
            /\ ToShow[Printed + 1] = Append(ToShow[Printed], Head(todo))
            /\ text[Head(todo)] # ""
        BY <3>3, <3>5 DEF GetText
      <4>2. Printed' = Printed
        BY <2>1, <4>1 DEF Printed
      <4>3. frame \in Seq(Texts \X BOOLEAN) /\ row \in Texts \X BOOLEAN
        BY <1>1, <3>1, <4>1 DEF Data
      <4>4. Shows(frame', ToShow[Printed + 1])
        BY <3>1, <3>2, <4>1, <4>3, ShowsMore
      <4>5. Shows(frame, ToShow[Printed + 1])'
        BY <2>1, <2>2, <4>2, <4>4 DEF Shows
      <4>6. Len(todo) <= Len(msgs) /\ \A i \in 1 .. Len(todo) : todo[i] = msgs[Printed + i]
        BY <1>3, <2>3 DEF FrameInv
      <4> QED
        BY <2>1, <4>1, <4>2, <4>5, <4>6 DEF FrameInv
    <3>6. CASE UNCHANGED <<tpc, todo, frame, screen>>
      BY <1>3, <2>1, <2>2, <2>3, <3>6 DEF FrameInv, Shows, Printed
    <3> QED
      BY <2>3, <3>4, <3>5, <3>6 DEF LiveNext, TickerNext, Stop, Begin, MakeTickerd, RLock,
         Tick, RecvTickerd, ReadCounter, AdvanceCounter, Flush, RUnlock, Finish, Edit,
         PlayText, StopText, AddMessage, RemoveMessage, Editing, CallStop, End, AskLock,
         SendTickerd, StopReturns, ticker, liveVars
  <2>4. CASE tpc = "print" /\ todo = <<>>
    <3>1. Printed = Len(msgs)
      BY <1>1, <2>4 DEF Printed
    <3>2. Shows(frame, Filtered(msgs, Shown))
      BY <1>1, <1>3, <2>4, <3>1, ToShowDef DEF FrameInv
    <3>3. CASE Flush
      <4>1. tpc' = "finish" /\ screen' = frame
        BY <1>3, <3>3 DEF Flush
      <4>2. Shows(screen, Filtered(msgs, Shown))'
        BY <2>1, <2>2, <3>2, <4>1 DEF Shows
      <4> QED
        BY <4>1, <4>2 DEF FrameInv
    <3>4. CASE UNCHANGED <<tpc, todo, frame, screen>>
      BY <1>3, <2>1, <2>2, <2>4, <3>4 DEF FrameInv, Shows, Printed
    <3> QED
      BY <2>4, <3>3, <3>4 DEF LiveNext, TickerNext, Stop, Begin, MakeTickerd, RLock, Tick,
         RecvTickerd, SkipEmpty, GetText, ReadCounter, AdvanceCounter, RUnlock, Finish, Edit,
         PlayText, StopText, AddMessage, RemoveMessage, Editing, CallStop, End, AskLock,
         SendTickerd, StopReturns, ticker, liveVars
  <2>5. CASE tpc \in {"symbol", "advance"}
    <3>1. todo # <<>> /\ frame # <<>> /\ frame \in Seq(Texts \X BOOLEAN)
      BY <1>1, <2>5 DEF TodoInv, Data
    <3>2. /\ Len(todo) <= Len(msgs)
          /\ \A i \in 1 .. Len(todo) : todo[i] = msgs[Printed + i]
          /\ Shows(frame, ToShow[Printed + 1])
      BY <1>3, <2>5 DEF FrameInv
    <3>3. /\ Printed \in Nat
          /\ Len(Tail(todo)) = Len(todo) - 1 /\ Len(Tail(todo)) <= Len(msgs)
          /\ \A i \in 1 .. Len(Tail(todo)) : Tail(todo)[i] = msgs[Printed + 1 + i]
      BY <1>1, <3>1, <3>2, Going
    <3>4. CASE tpc' = "print" /\ todo' = Tail(todo) /\ frame' = frame
      <4>1. Printed' = Printed + 1
        <5>1. Len(todo') = Len(todo) - 1 /\ Len(todo) \in Nat
          BY <1>1, <3>3, <3>4
        <5> QED
          BY <1>1, <2>1, <5>1 DEF Printed
      <4>2. Shows(frame, ToShow[Printed])'
        BY <2>1, <2>2, <3>2, <3>4, <4>1 DEF Shows
      <4> QED
        BY <2>1, <3>3, <3>4, <4>1, <4>2 DEF FrameInv
    <3>5. CASE /\ tpc' = "advance" /\ todo' = todo
               /\ frame' = [frame EXCEPT ![Len(frame)] = <<@[1], TRUE>>]
      <4>1. Printed' = Printed
        BY <2>1, <3>5 DEF Printed
      <4>2. Len(frame') = Len(frame) /\ \A i \in 1 .. Len(frame) : frame'[i][1] = frame[i][1]
        BY <3>1, <3>5, SpinnerAdded
      <4>3. Shows(frame, ToShow[Printed + 1])'
        BY <2>1, <2>2, <3>2, <4>1, <4>2 DEF Shows
      <4> QED
        BY <2>1, <3>2, <3>5, <4>1, <4>3 DEF FrameInv
    <3>6. CASE UNCHANGED <<tpc, todo, frame, screen>>
      BY <1>3, <2>1, <2>2, <2>5, <3>6 DEF FrameInv, Shows, Printed
    <3> QED
      BY <2>5, <3>4, <3>5, <3>6 DEF LiveNext, TickerNext, Stop, Begin, MakeTickerd, RLock,
         Tick, RecvTickerd, SkipEmpty, GetText, ReadCounter, AdvanceCounter, Flush, RUnlock,
         Finish, Edit, PlayText, StopText, AddMessage, RemoveMessage, Editing, CallStop, End,
         AskLock, SendTickerd, StopReturns, ticker, liveVars
  <2>6. CASE tpc \in {"finish", "done"}
    <3>1. tpc' \in {"finish", "done"} /\ screen' = screen
      BY <2>6 DEF LiveNext, TickerNext, Stop, Begin, MakeTickerd, RLock, Tick, RecvTickerd,
         SkipEmpty, GetText, ReadCounter, AdvanceCounter, Flush, RUnlock, Finish, Edit,
         PlayText, StopText, AddMessage, RemoveMessage, Editing, CallStop, End, AskLock,
         SendTickerd, StopReturns, ticker, liveVars
    <3>2. Shows(screen, Filtered(msgs, Shown))'
      BY <1>3, <2>1, <2>2, <2>6, <3>1 DEF FrameInv, Shows
    <3> QED
      BY <3>1, <3>2 DEF FrameInv
  <2> QED
    BY <1>3, <2>3, <2>4, <2>5, <2>6 DEF StopInv
<1>4. final \/ RecvTickerd
  BY DEF LiveNext, TickerNext, Stop, Begin, MakeTickerd, RLock, Tick, SkipEmpty, GetText,
     ReadCounter, AdvanceCounter, Flush, RUnlock, Finish, Edit, PlayText, StopText, AddMessage,
     RemoveMessage, Editing, CallStop, End, AskLock, SendTickerd, StopReturns, ticker, liveVars
<1> QED
  BY <1>2, <1>3, <1>4

LEMMA FrameInvCorrect == LiveSpec => []FrameInv
<1>1. LiveInit => FrameInv
  BY DEF LiveInit, FrameInv
<1> QED
  BY <1>1, NextFrame, TypeInvCorrect, StopInvCorrect, PTL DEF LiveSpec

\* LastFrameIsCurrent: the screen that Stop leaves shows the last texts of the messages of the
\* list that have one, in its order.
THEOREM FrameCorrect == LiveSpec => []LastFrameIsCurrent
<1>1. StopInv /\ FrameInv => LastFrameIsCurrent
  BY DEF StopInv, TickerIsOver, FrameInv, LastFrameIsCurrent
<1> QED
  BY <1>1, StopInvCorrect, FrameInvCorrect, PTL
================================================================================
