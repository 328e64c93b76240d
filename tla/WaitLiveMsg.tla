----------------------------- MODULE WaitLiveMsg -----------------------------
(***************************************************************************)
(* waitlivemsg.WaitLiveMsg: messages with spinners on the terminal.  Two   *)
(* threads: the ticker, the goroutine of `go w.Wait()` that prints a frame *)
(* every 60ms, and the caller, which edits the messages and then stops.    *)
(*                                                                         *)
(* A message is protected by its own mutex and a step here is one critical *)
(* section (or one channel operation).  getSymbol has two: it reads the    *)
(* counter in the first and writes it back, advanced, in the second.  The  *)
(* test of m.text in between, which no lock protects, is in the first: it  *)
(* can only spare the write, as reading a counter of -1 would.             *)
(***************************************************************************)
EXTENDS Integers, Sequences

CONSTANTS Msgs,       \* messages
          FirstMsg,   \* the message added before the ticker is started
          Texts,      \* non-empty texts
          NSymbols,   \* len(spinners)
          MaxEdits    \* bound: edits the caller does before it stops

ASSUME FirstAssumption == FirstMsg \in Msgs
ASSUME NSymbolsAssumption == NSymbols \in Nat \ {0}
ASSUME MaxEditsAssumption == MaxEdits \in Nat
ASSUME TextsAssumption == "" \notin Texts

VARIABLES
    text, counter,  \* of each message; counter -1: no spinner
    msgs,           \* WaitLiveMsg.msgs
    tickerd,        \* the channel of capacity 1: "nil", "empty" or "full"
    rlocks,         \* read locks held on tickerdMutex, all by the ticker
    waitEnd,        \* the WaitGroup
    screen,         \* the last frame flushed: <<text, whether a spinner leads it>>
    tpc,            \* where the ticker is
    final,          \* whether the ticker left waitLoop
    todo, frame,    \* print: messages to go, lines so far
    seen,           \* getSymbol: the counter read
    cpc,            \* where the caller is
    ending,         \* Stop: messages still to end
    missed,         \* Stop: whether it found no channel, Wait being behind
    edits           \* edits done

message  == <<text, counter>>
ticker   == <<tpc, final, todo, frame, seen, screen>>
caller   == <<cpc, ending, missed, edits>>
sync     == <<tickerd, rlocks, waitEnd>>
liveVars == <<text, counter, msgs, tickerd, rlocks, waitEnd, screen, tpc, final,
              todo, frame, seen, cpc, ending, missed, edits>>

\* The elements of a sequence that are in a set: of its first ones, and of all.
Kept(s, S) ==
    LET kept[i \in 0 .. Len(s)] ==
            IF i = 0 THEN <<>>
            ELSE IF s[i] \in S THEN Append(kept[i - 1], s[i]) ELSE kept[i - 1]
    IN  kept
Filtered(s, S) == Kept(s, S)[Len(s)]

-----------------------------------------------------------------------------
LiveInit ==
    /\ \E t \in Texts : text = [m \in Msgs |-> IF m = FirstMsg THEN t ELSE ""]
    /\ counter = [m \in Msgs |-> 0]
    /\ msgs = <<FirstMsg>>
    /\ tickerd = "nil"
    /\ rlocks = 0
    /\ waitEnd = 0
    /\ screen = <<>>
    /\ tpc = "start"
    /\ final = FALSE
    /\ todo = <<>>
    /\ frame = <<>>
    /\ seen = -1
    /\ cpc = "edit"
    /\ ending = {}
    /\ missed = FALSE
    /\ edits = 0

-----------------------------------------------------------------------------
(* The ticker. *)

\* A writer waits for tickerdMutex: new readers wait behind it.
WriterWaits == cpc = "lock"

\* Wait: waitEnd.Add(1).
Begin ==
    /\ tpc = "start"
    /\ waitEnd' = waitEnd + 1
    /\ tpc' = "make"
    /\ UNCHANGED <<message, msgs, tickerd, rlocks, screen, final, todo, frame, seen,
                   caller>>

\* Wait: the channel is made, under the lock.
MakeTickerd ==
    /\ tpc = "make"
    /\ rlocks = 0
    /\ tickerd' = "empty"
    /\ tpc' = "loop"
    /\ UNCHANGED <<message, msgs, rlocks, waitEnd, screen, final, todo, frame, seen,
                   caller>>

\* waitLoop: RLock, then select.
RLock ==
    /\ tpc = "loop"
    /\ ~WriterWaits
    /\ rlocks' = rlocks + 1
    /\ tpc' = "select"
    /\ UNCHANGED <<message, msgs, tickerd, waitEnd, screen, final, todo, frame, seen,
                   caller>>

\* print: the slice of messages is read, then shown one by one.
StartPrint(p) == /\ todo' = msgs
                 /\ frame' = <<>>
                 /\ tpc' = p

Tick ==
    /\ tpc = "select"
    /\ StartPrint("print")
    /\ UNCHANGED <<message, msgs, sync, screen, final, seen, caller>>

\* Mutant: there is no print after waitLoop.
RecvTickerdNoPrint ==
    /\ tpc = "select"
    /\ tickerd = "full"
    /\ tickerd' = "empty"
    /\ final' = TRUE
    /\ tpc' = "finish"
    /\ UNCHANGED <<message, msgs, rlocks, waitEnd, screen, todo, frame, seen, caller>>

\* waitLoop returns from inside select: the read lock is never released.
RecvTickerd ==
    /\ tpc = "select"
    /\ tickerd = "full"
    /\ tickerd' = "empty"
    /\ final' = TRUE
    /\ StartPrint("print")
    /\ UNCHANGED <<message, msgs, rlocks, waitEnd, screen, seen, caller>>

\* print: an empty text is skipped; otherwise getSymbol reads the counter.  The
\* text of the line was read before, under a lock of its own.
SkipEmpty ==
    /\ tpc = "print"
    /\ todo # <<>>
    /\ text[Head(todo)] = ""
    /\ todo' = Tail(todo)
    /\ UNCHANGED <<message, msgs, sync, screen, tpc, final, frame, seen, caller>>

GetText ==
    /\ tpc = "print"
    /\ todo # <<>>
    /\ text[Head(todo)] # ""
    /\ frame' = Append(frame, <<text[Head(todo)], FALSE>>)
    /\ tpc' = "symbol"
    /\ UNCHANGED <<message, msgs, sync, screen, final, todo, seen, caller>>

ReadCounter ==
    /\ tpc = "symbol"
    /\ LET m == Head(todo)
       IN IF counter[m] = -1 \/ text[m] = ""
            THEN /\ tpc' = "print"
                 /\ todo' = Tail(todo)
                 /\ UNCHANGED <<seen, frame>>
            ELSE /\ seen' = counter[m]
                 /\ frame' = [frame EXCEPT ![Len(frame)] = <<@[1], TRUE>>]
                 /\ tpc' = "advance"
                 /\ UNCHANGED todo
    /\ UNCHANGED <<message, msgs, sync, screen, final, caller>>

AdvanceCounter ==
    /\ tpc = "advance"
    /\ counter' = [counter EXCEPT ![Head(todo)] = (seen + 1) % NSymbols]
    /\ todo' = Tail(todo)
    /\ seen' = -1
    /\ tpc' = "print"
    /\ UNCHANGED <<text, msgs, sync, screen, final, frame, caller>>

\* pb: the frame is printed under msgsMutex, that the caller holds while it goes
\* over the messages.
Flush ==
    /\ tpc = "print"
    /\ todo = <<>>
    /\ cpc # "end"
    /\ screen' = frame
    /\ frame' = <<>>
    /\ tpc' = IF final THEN "finish" ELSE "runlock"
    /\ UNCHANGED <<message, msgs, sync, final, todo, seen, caller>>

RUnlock ==
    /\ tpc = "runlock"
    /\ rlocks' = rlocks - 1
    /\ tpc' = "loop"
    /\ UNCHANGED <<message, msgs, tickerd, waitEnd, screen, final, todo, frame, seen,
                   caller>>

\* Mutant: Done is forgotten.
FinishNotDone ==
    /\ tpc = "finish"
    /\ tpc' = "done"
    /\ UNCHANGED <<message, msgs, sync, screen, final, todo, frame, seen, caller>>

\* Wait: waitEnd.Done() after the last print.
Finish ==
    /\ tpc = "finish"
    /\ waitEnd' = waitEnd - 1
    /\ tpc' = "done"
    /\ UNCHANGED <<message, msgs, tickerd, rlocks, screen, final, todo, frame, seen,
                   caller>>

TickerNext == \/ Begin \/ MakeTickerd \/ RLock \/ Tick \/ RecvTickerd \/ SkipEmpty
              \/ GetText \/ ReadCounter \/ AdvanceCounter \/ Flush \/ RUnlock
              \/ Finish

-----------------------------------------------------------------------------
(* The caller. *)

Editing == /\ cpc = "edit"
           /\ edits < MaxEdits
           /\ edits' = edits + 1
           /\ UNCHANGED <<tickerd, rlocks, waitEnd, ticker, cpc, ending, missed>>

PlayText(m, t) ==
    /\ Editing
    /\ text' = [text EXCEPT ![m] = t]
    /\ counter' = [counter EXCEPT ![m] = IF @ = -1 THEN 0 ELSE @]
    /\ UNCHANGED msgs

StopText(m, t) ==
    /\ Editing
    /\ text' = [text EXCEPT ![m] = t]
    /\ counter' = [counter EXCEPT ![m] = -1]
    /\ UNCHANGED msgs

AddMessage(m) ==
    /\ Editing
    /\ m \notin {msgs[i] : i \in DOMAIN msgs}
    /\ msgs' = Append(msgs, m)
    /\ UNCHANGED message

RemoveMessage(m) ==
    /\ Editing
    /\ msgs' = Filtered(msgs, Msgs \ {m})
    /\ UNCHANGED message

\* Stop: the messages are read under msgsMutex.
CallStop ==
    /\ cpc = "edit"
    /\ ending' = {msgs[i] : i \in DOMAIN msgs}
    /\ cpc' = "end"
    /\ UNCHANGED <<message, msgs, sync, ticker, missed, edits>>

\* Stop: End of a message whose counter is not -1 already.
End(m) ==
    /\ cpc = "end"
    /\ m \in ending
    /\ counter' = [counter EXCEPT ![m] = -1]
    /\ ending' = ending \ {m}
    /\ UNCHANGED <<text, msgs, sync, ticker, cpc, missed, edits>>

\* Stop asks for tickerdMutex.
AskLock ==
    /\ cpc = "end"
    /\ ending = {}
    /\ cpc' = "lock"
    /\ UNCHANGED <<message, msgs, sync, ticker, ending, missed, edits>>

\* Stop signals the ticker, if there is a channel, under tickerdMutex.
SendTickerd ==
    /\ cpc = "lock"
    /\ rlocks = 0
    /\ tickerd # "full"
    /\ tickerd' = IF tickerd = "nil" THEN "nil" ELSE "full"
    /\ missed' = (tickerd = "nil")
    /\ cpc' = "wait"
    /\ UNCHANGED <<message, msgs, rlocks, waitEnd, ticker, ending, edits>>

\* Mutant: Stop does not wait for the ticker.
StopReturnsAtOnce ==
    /\ cpc = "wait"
    /\ cpc' = "stopped"
    /\ UNCHANGED <<message, msgs, sync, ticker, ending, missed, edits>>

\* Stop: waitEnd.Wait().
StopReturns ==
    /\ cpc = "wait"
    /\ waitEnd = 0
    /\ cpc' = "stopped"
    /\ UNCHANGED <<message, msgs, sync, ticker, ending, missed, edits>>

Edit == \E m \in Msgs :
            \/ \E t \in Texts \cup {""} : PlayText(m, t) \/ StopText(m, t)
            \/ AddMessage(m)
            \/ RemoveMessage(m)

Stop == CallStop \/ (\E m \in Msgs : End(m)) \/ AskLock \/ SendTickerd \/ StopReturns

LiveNext == TickerNext \/ Edit \/ Stop

LiveSpec == LiveInit /\ [][LiveNext]_liveVars

\* Both threads run, and a select with two ready cases takes each in the end.
FairLiveSpec == /\ LiveSpec
                /\ WF_liveVars(TickerNext)
                /\ SF_liveVars(RecvTickerd)
                /\ WF_liveVars(CallStop)
                /\ WF_liveVars(\E m \in Msgs : End(m))
                /\ WF_liveVars(AskLock)
                /\ WF_liveVars(SendTickerd)
                /\ WF_liveVars(StopReturns)

-----------------------------------------------------------------------------
LiveTypeOK ==
    /\ text \in [Msgs -> Texts \cup {""}]
    /\ counter \in [Msgs -> -1 .. (NSymbols - 1)]
    /\ msgs \in Seq(Msgs)
    /\ tickerd \in {"nil", "empty", "full"}
    /\ rlocks \in {0, 1}
    /\ waitEnd \in {0, 1}
    /\ screen \in Seq(Texts \X BOOLEAN)
    /\ tpc \in {"start", "make", "loop", "select", "print", "symbol", "advance",
                "runlock", "finish", "done"}
    /\ final \in BOOLEAN
    /\ todo \in Seq(Msgs)
    /\ frame \in Seq(Texts \X BOOLEAN)
    /\ seen \in -1 .. (NSymbols - 1)
    /\ cpc \in {"edit", "end", "lock", "wait", "stopped"}
    /\ ending \subseteq Msgs
    /\ missed \in BOOLEAN
    /\ edits \in 0 .. MaxEdits

\* When Stop returns the ticker goroutine is over, if Stop found its channel:
\* nothing is printed any more over what the program prints next.
TickerIsOver == cpc = "stopped" /\ ~missed => tpc = "done"

\* The texts on the screen when Stop returns are those the messages have: the
\* verdict written just before Stop is not lost to an older frame.
Shown == {m \in Msgs : text[m] # ""}
Shows(lines, list) == /\ Len(lines) = Len(list)
                      /\ \A i \in 1 .. Len(list) : lines[i][1] = text[list[i]]
LastFrameIsCurrent ==
    cpc = "stopped" /\ ~missed => Shows(screen, Filtered(msgs, Shown))

\* Stop returns, unless it found no channel: then it may wait for a ticker that
\* nobody stops.
StopEnds == (cpc = "end") ~> (cpc = "stopped" \/ missed)
=============================================================================
