-------------------------- MODULE ListWatch_proofs --------------------------
(***************************************************************************)
(* Theorems about ListWatch, for any number of versions and of failures:   *)
(* its types, and that no update of a list that is watched is lost.        *)
(***************************************************************************)
EXTENDS ListWatch, TLAPS

-----------------------------------------------------------------------------
(* Types, and where the threads may be. *)

MainPlaces == {"preRun", "check", "listRun", "fetch", "lock", "send", "select", "receive",
               "read", "print", "header", "result", "done"}
UpdatePlaces == {"off", "wait", "fetch", "lock", "send", "over"}

PcType == /\ pc \in [Threads -> MainPlaces \cup UpdatePlaces]
          /\ pc["main"] \in MainPlaces
          /\ pc["update"] \in UpdatePlaces

Data == /\ now \in Versions
        /\ fetched \in [Threads -> Versions \cup {Failed}]
        /\ lastError \in BOOLEAN /\ retry \in Nat /\ Projects \in Versions \cup {0}
        /\ screen \in [retry : Nat, header : Versions \cup {0}, rows : Versions \cup {0}]
        /\ updated \in BOOLEAN

Flags == /\ cmd \in {"list", "projects", "services", "instances"}
         /\ watch \in BOOLEAN
         /\ ctx \in {"live", "canceled"}
         /\ ret \in {"none", "ok", "error", "killed"}

\* Each thread fetches in its own case; before either does, nothing is known nor shown.
PlacesInv ==
    /\ watch => pc["main"] \notin {"fetch", "lock", "send", "result"}
    /\ ~watch => pc["update"] \in {"off", "over"}
    /\ pc["main"] \in {"preRun", "check", "listRun"} =>
          /\ pc["update"] = "off"
          /\ ~lastError /\ retry = 0 /\ Projects = 0 /\ ~updated /\ screen = Blank

\* The frame of a watch, when no signal is on its way and no field is being set: it is what is
\* stored, or the main thread is about to make it so from fields that are still those it read.
FrameInv ==
    watch /\ ctx = "live" /\ ~updated /\ ~Locked =>
        /\ pc["main"] \in {"select", "receive"} => screen = Stored
        /\ pc["main"] = "print" => ~lastError
        /\ pc["main"] = "header" => ~lastError /\ screen = [Blank EXCEPT !.rows = Projects]

LEMMA GotoMain ==
    ASSUME PcType, NEW from, NEW to \in MainPlaces, Goto("main", from, to)
    PROVE  /\ PcType' /\ pc["main"] = from /\ pc'["main"] = to
           /\ pc'["update"] = pc["update"]
  BY DEF PcType, Goto, Threads, MainPlaces

LEMMA GotoUpdate ==
    ASSUME PcType, NEW from, NEW to \in UpdatePlaces, Goto("update", from, to)
    PROVE  /\ PcType' /\ pc["update"] = from /\ pc'["update"] = to
           /\ pc'["main"] = pc["main"]
  BY DEF PcType, Goto, Threads, UpdatePlaces

Inv == PcType /\ Data /\ Flags /\ PlacesInv /\ FrameInv

LEMMA InitInv == Init => Inv
<1> SUFFICES ASSUME Init PROVE Inv
  OBVIOUS
<1>1. PcType
  BY DEF Init, PcType, Threads, MainPlaces, UpdatePlaces
<1>2. Data
  <2>1. now = 1 /\ 1 \in Versions
    BY VersionsAssumption DEF Init, Versions
  <2>2. fetched \in [Threads -> Versions \cup {Failed}]
    BY DEF Init
  <2>3. lastError = FALSE /\ retry = 0 /\ Projects = 0 /\ updated = FALSE /\ screen = Blank
    BY DEF Init
  <2> QED
    BY <2>1, <2>2, <2>3 DEF Data, Blank
<1>3. Flags
  BY DEF Init, Flags
<1>4. PlacesInv /\ FrameInv
  BY DEF Init, PlacesInv, FrameInv
<1> QED
  BY <1>1, <1>2, <1>3, <1>4 DEF Inv

\* The server changes, or the command is at a step before it lists.
LEMMA BeforeStep ==
    Inv /\ (Change \/ preRun \/ ListServicesCmd \/ ListProjectsCmd \/ ListInstancesCmd
            \/ checkInstances \/ listRun) => Inv'
<1> SUFFICES ASSUME Inv,
                    Change \/ preRun \/ ListServicesCmd \/ ListProjectsCmd \/ ListInstancesCmd
                    \/ checkInstances \/ listRun
             PROVE  Inv'
  OBVIOUS
<1> USE DEF Inv
<1>1. CASE Change
  <2>1. now' \in Versions
    BY <1>1, VersionsAssumption DEF Change, Data, Versions
  <2> QED
    BY <1>1, <2>1 DEF Change, PcType, Data, Flags, PlacesInv, FrameInv, Locked, Stored, input, fields
<1>2. ASSUME NEW from \in {"preRun", "check"}, NEW r \in {"ok", "error"}, End(from, r)
      PROVE  Inv'
  <2>1. pc["main"] = from /\ pc'["main"] = "done" /\ pc'["update"] = pc["update"] /\ PcType'
    BY <1>2, GotoMain DEF End, MainPlaces
  <2>2. /\ UNCHANGED <<now, cmd, watch, ctx, fetched, lastError, retry, Projects, updated, screen>>
        /\ ret' = r
    BY <1>2 DEF End, input, fields
  <2> QED
    BY <2>1, <2>2 DEF Data, Flags, PlacesInv, FrameInv
<1>3. ASSUME NEW from \in {"preRun", "check"}, NEW to \in {"listRun", "check"},
             Goto("main", from, to),
             UNCHANGED <<now, input, ctx, fetched, fields, updated, screen, ret>>
      PROVE  Inv'
  <2>1. pc["main"] = from /\ pc'["main"] = to /\ pc'["update"] = pc["update"] /\ PcType'
    BY <1>3, GotoMain DEF MainPlaces
  <2> QED
    BY <1>3, <2>1 DEF Data, Flags, PlacesInv, FrameInv, input, fields
<1>4. CASE listRun
  <2>1. UNCHANGED <<now, cmd, watch, ctx, fetched, lastError, retry, Projects, updated, screen, ret>>
    BY <1>4 DEF listRun, input, fields
  <2>2. CASE watch
    <3>1. /\ pc["main"] = "listRun" /\ pc'["main"] = "select" /\ pc'["update"] = "wait" /\ PcType'
      BY <1>4, <2>2 DEF listRun, PcType, Threads, MainPlaces, UpdatePlaces
    <3>2. Stored = Blank
      BY <3>1 DEF PlacesInv, Stored, Blank
    <3> QED
      BY <2>1, <2>2, <3>1, <3>2 DEF Data, Flags, PlacesInv, FrameInv, Locked, Stored
  <2>3. CASE ~watch
    <3>1. /\ pc["main"] = "listRun" /\ pc'["main"] = "fetch" /\ pc'["update"] = pc["update"]
          /\ PcType'
      BY <1>4, <2>3 DEF listRun, PcType, Threads, MainPlaces, UpdatePlaces
    <3> QED
      BY <2>1, <2>3, <3>1 DEF Data, Flags, PlacesInv, FrameInv
  <2> QED
    BY <2>2, <2>3
<1> QED
  BY <1>1, <1>2, <1>3, <1>4
     DEF preRun, ListServicesCmd, ListProjectsCmd, ListInstancesCmd, checkInstances, Enter

\* The command is interrupted, or it ends.
LEMMA EndStep == Inv /\ (Signal \/ WatchEnds \/ OnceReturns) => Inv'
<1> SUFFICES ASSUME Inv, Signal \/ WatchEnds \/ OnceReturns PROVE Inv'
  OBVIOUS
<1> USE DEF Inv
<1>1. CASE Signal
  <2>1. UNCHANGED <<now, cmd, watch, fetched, lastError, retry, Projects, updated, screen>>
    BY <1>1 DEF Signal, input, fields
  <2>2. CASE ctx' = "canceled" /\ UNCHANGED <<pc, ret>>
    BY <2>1, <2>2 DEF PcType, Data, Flags, PlacesInv, FrameInv
  <2>3. CASE pc' = [main |-> "done", update |-> "over"] /\ ret' = "killed" /\ UNCHANGED ctx
    <3>1. pc'["main"] = "done" /\ pc'["update"] = "over" /\ PcType'
      BY <2>3 DEF PcType, Threads, MainPlaces, UpdatePlaces
    <3> QED
      BY <2>1, <2>3, <3>1 DEF Data, Flags, PlacesInv, FrameInv
  <2> QED
    BY <1>1, <2>2, <2>3 DEF Signal
<1>2. ASSUME NEW from \in {"select", "result"}, NEW r \in {"ok", "error"}, End(from, r)
      PROVE  Inv'
  <2>1. pc["main"] = from /\ pc'["main"] = "done" /\ pc'["update"] = pc["update"] /\ PcType'
    BY <1>2, GotoMain DEF End, MainPlaces
  <2>2. /\ UNCHANGED <<now, cmd, watch, ctx, fetched, lastError, retry, Projects, updated, screen>>
        /\ ret' = r
    BY <1>2 DEF End, input, fields
  <2> QED
    BY <2>1, <2>2 DEF Data, Flags, PlacesInv, FrameInv
<1> QED
  BY <1>1, <1>2 DEF WatchEnds, OnceReturns

\* A thread goes on without a look at the fields.
LEMMA WaitStep == Inv /\ (RateWait \/ UpdateEnds \/ Tick) => Inv'
<1> SUFFICES ASSUME Inv, RateWait \/ UpdateEnds \/ Tick PROVE Inv'
  OBVIOUS
<1> USE DEF Inv
<1>1. UNCHANGED <<now, cmd, watch, ctx, fetched, lastError, retry, Projects, updated, screen, ret>>
  BY DEF RateWait, UpdateEnds, Tick, input, fields
<1>2. CASE RateWait \/ UpdateEnds
  <2>1. /\ pc["update"] = "wait" /\ pc'["update"] \in {"fetch", "over"} /\ pc'["main"] = pc["main"]
        /\ PcType'
    BY <1>2, GotoUpdate DEF RateWait, UpdateEnds, UpdatePlaces
  <2> QED
    BY <1>1, <2>1 DEF Data, Flags, PlacesInv, FrameInv, Locked, Stored
<1>3. CASE Tick
  <2>1. /\ pc["main"] = "select" /\ pc'["main"] = "receive" /\ pc'["update"] = pc["update"]
        /\ PcType'
    BY <1>3, GotoMain DEF Tick, MainPlaces
  <2> QED
    BY <1>1, <2>1 DEF Data, Flags, PlacesInv, FrameInv, Locked, Stored
<1> QED
  BY <1>2, <1>3

\* An answer comes, the fields are set, the signal is sent.
LEMMA UpdateStep == Inv /\ (\E t \in Threads : updateHandler(t)) => Inv'
<1> SUFFICES ASSUME Inv, NEW t \in Threads, updateHandler(t) PROVE Inv'
  OBVIOUS
<1> USE DEF Inv
<1>1. ASSUME NEW from \in {"fetch", "lock", "send"}, NEW to \in MainPlaces \cap UpdatePlaces,
             Goto(t, from, to)
      PROVE  /\ PcType' /\ pc[t] = from /\ pc'[t] = to
             /\ t = "main" => pc'["update"] = pc["update"]
             /\ t = "update" => pc'["main"] = pc["main"]
  BY <1>1, GotoMain, GotoUpdate DEF Threads
<1>2. CASE Answer(t)
  <2>1. /\ PcType' /\ pc[t] = "fetch" /\ pc'[t] = "lock"
        /\ t = "main" => pc'["update"] = pc["update"]
        /\ t = "update" => pc'["main"] = pc["main"]
    BY <1>1, <1>2 DEF Answer, MainPlaces, UpdatePlaces
  <2>2. fetched' \in [Threads -> Versions \cup {Failed}]
    BY <1>2 DEF Answer, Data
  <2>3. UNCHANGED <<now, cmd, watch, ctx, lastError, retry, Projects, updated, screen, ret>>
    BY <1>2 DEF Answer, input, fields
  <2> QED
    BY <2>1, <2>2, <2>3 DEF Data, Flags, PlacesInv, FrameInv, Locked, Stored, Threads
<1>3. CASE Store(t)
  <2>1. /\ PcType' /\ pc[t] = "lock" /\ pc'[t] = "send"
        /\ t = "main" => pc'["update"] = pc["update"]
        /\ t = "update" => pc'["main"] = pc["main"]
    BY <1>1, <1>3 DEF Store, MainPlaces, UpdatePlaces
  <2>2. lastError' \in BOOLEAN /\ retry' \in Nat /\ Projects' \in Versions \cup {0}
    BY <1>3 DEF Store, Data, Failed
  <2>3. UNCHANGED <<now, cmd, watch, ctx, fetched, updated, screen, ret>>
    BY <1>3 DEF Store, input
  <2> QED
    BY <2>1, <2>2, <2>3 DEF Data, Flags, PlacesInv, FrameInv, Locked, Threads
<1>4. CASE Send(t)
  <2>1. updated' = TRUE /\ UNCHANGED <<now, cmd, watch, ctx, fetched, lastError, retry, Projects,
                                       screen, ret>>
    BY <1>4 DEF Send, input, fields
  <2>2. CASE t = "main"
    <3>1. /\ pc["main"] = "send" /\ pc'["main"] = "receive" /\ pc'["update"] = pc["update"]
          /\ PcType'
      BY <1>4, <2>2, GotoMain DEF Send, MainPlaces
    <3> QED
      BY <2>1, <3>1 DEF Data, Flags, PlacesInv, FrameInv
  <2>3. CASE t = "update"
    <3>1. /\ pc["update"] = "send" /\ pc'["update"] = "wait" /\ pc'["main"] = pc["main"]
          /\ PcType'
      BY <1>4, <2>3, GotoUpdate DEF Send, UpdatePlaces
    <3> QED
      BY <2>1, <3>1 DEF Data, Flags, PlacesInv, FrameInv
  <2> QED
    BY <2>2, <2>3 DEF Threads
<1> QED
  BY <1>2, <1>3, <1>4 DEF updateHandler, fetchProjects, fetchInstances

\* The main thread receives a signal and makes a frame of the fields.
LEMMA FrameStep == Inv /\ watchHandler => Inv'
<1> SUFFICES ASSUME Inv, watchHandler PROVE Inv'
  OBVIOUS
<1> USE DEF Inv
<1>0. /\ UNCHANGED <<now, cmd, watch, ctx, fetched, lastError, retry, Projects, ret>>
      /\ Loop \in MainPlaces
      /\ Loop = IF watch THEN "select" ELSE "result"
  BY DEF watchHandler, Receive, Canceled, ReadError, printProjects, printHeaders, printInstances,
         input, fields, Loop, MainPlaces
<1>1. CASE Receive \/ Canceled
  <2>1. /\ pc["main"] = "receive" /\ PcType' /\ pc'["update"] = pc["update"]
        /\ pc'["main"] = IF ctx = "canceled" THEN Loop ELSE "read"
    BY <1>0, <1>1, GotoMain DEF Receive, Canceled, MainPlaces
  <2>2. screen' = screen /\ updated' \in BOOLEAN
    BY <1>1 DEF Receive, Canceled, Data
  <2> QED
    BY <1>0, <2>1, <2>2 DEF Data, Flags, PlacesInv, FrameInv
<1>2. CASE ReadError
  <2>1. /\ pc["main"] = "read" /\ PcType' /\ pc'["update"] = pc["update"]
        /\ pc'["main"] = IF lastError THEN Loop ELSE "print"
    BY <1>0, <1>2, GotoMain DEF ReadError, MainPlaces
  <2>2. /\ screen' = IF lastError /\ watch THEN [Blank EXCEPT !.retry = retry] ELSE screen
        /\ updated' = updated
    BY <1>2 DEF ReadError
  <2>3. Data'
    BY <1>0, <2>2 DEF Data, Blank
  <2> QED
    BY <1>0, <2>1, <2>2, <2>3 DEF Flags, PlacesInv, FrameInv, Stored
<1>3. CASE printProjects
  <2>1. /\ pc["main"] = "print" /\ PcType' /\ pc'["update"] = pc["update"]
        /\ pc'["main"] = "header" /\ screen' = [Blank EXCEPT !.rows = Projects]
        /\ updated' = updated /\ ~Locked
    BY <1>3, GotoMain DEF printProjects, MainPlaces
  <2>2. Data'
    BY <1>0, <2>1 DEF Data, Blank
  <2> QED
    BY <1>0, <2>1, <2>2 DEF Flags, PlacesInv, FrameInv
<1>4. CASE printHeaders
  <2>1. /\ pc["main"] = "header" /\ PcType' /\ pc'["update"] = pc["update"]
        /\ pc'["main"] = Loop /\ screen' = [screen EXCEPT !.header = Projects]
        /\ updated' = updated
    BY <1>0, <1>4, GotoMain DEF printHeaders
  <2>2. Data'
    BY <1>0, <2>1 DEF Data
  <2>3. ~lastError /\ screen = [Blank EXCEPT !.rows = Projects] => screen' = Stored
    BY <2>1 DEF Stored, Blank
  <2>4. Locked' = Locked /\ Stored' = Stored
    BY <1>0, <2>1 DEF Locked, Stored
  <2> QED
    BY <1>0, <2>1, <2>2, <2>3, <2>4 DEF Flags, PlacesInv, FrameInv
<1>5. CASE printInstances
  <2>1. /\ pc["main"] = "print" /\ PcType' /\ pc'["update"] = pc["update"]
        /\ pc'["main"] = Loop /\ screen' = [Blank EXCEPT !.rows = Projects, !.header = Projects]
        /\ updated' = updated /\ ~Locked
    BY <1>0, <1>5, GotoMain DEF printInstances
  <2>2. Data'
    BY <1>0, <2>1 DEF Data, Blank
  <2>3. Stored' = Stored
    BY <1>0 DEF Stored
  <2> QED
    BY <1>0, <2>1, <2>2, <2>3 DEF Flags, PlacesInv, FrameInv, Stored
<1> QED
  BY <1>1, <1>2, <1>3, <1>4, <1>5 DEF watchHandler

LEMMA NextInv == Inv /\ [Next]_vars => Inv'
<1>1. Inv /\ UNCHANGED vars => Inv'
  BY DEF vars, Inv, PcType, Data, Flags, PlacesInv, FrameInv, Locked, Stored
<1> QED
  BY <1>1, BeforeStep, EndStep, WaitStep, UpdateStep, FrameStep
     DEF Next, UpdateNext, MainNext, Threads

LEMMA InvCorrect == Spec => []Inv
  BY InitInv, NextInv, PTL DEF Spec

\* TypeOK: the list on the server, the fields, the places of the threads and the frame keep
\* their types.
THEOREM TypeCorrect == Spec => []TypeOK
<1>1. Inv => TypeOK
  BY DEF Inv, PcType, Data, Flags, TypeOK, MainPlaces, UpdatePlaces
<1> QED
  BY <1>1, InvCorrect, PTL

\* ScreenIsCurrent: a list that is watched shows the last answer or its error, whenever no
\* signal is on its way and no field is being set.
THEOREM ScreenCorrect == Spec => []ScreenIsCurrent
<1>1. ASSUME Inv PROVE ScreenIsCurrent
  <2>1. Projects = 0 /\ ~lastError => Stored = Blank
    BY DEF Stored, Blank
  <2> QED
    BY <1>1, <2>1 DEF Inv, FrameInv, ScreenIsCurrent
<1> QED
  BY <1>1, InvCorrect, PTL
=============================================================================
