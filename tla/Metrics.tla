------------------------------- MODULE Metrics -------------------------------
(***************************************************************************)
(* ~/.lcp_metrics, the usage log of the CLI (metrics).  Every command      *)
(* appends one event to it when it is over.  Now and then a command starts *)
(* a child in the background, `lcp metrics usage submit`, which reads the  *)
(* file, posts it to the server and truncates it: three steps, between     *)
(* which other processes go on, and during which it may be killed.         *)
(*                                                                         *)
(* The event of a process is the process itself.                           *)
(***************************************************************************)
EXTENDS Naturals, FiniteSets

CONSTANTS Procs,   \* processes; their events
          NoFile   \* the file does not exist

ASSUME ProcsAssumption == IsFiniteSet(Procs)
ASSUME NoFileAssumption == \A S \in SUBSET Procs : S # NoFile

VARIABLES
    file,      \* the events in the file
    recorded,  \* events ever appended
    count,     \* server: how many times it received each event
    pc,        \* where a process is
    kind,      \* "command", or "submit" for `lcp metrics usage submit`
    enabled,   \* Params.EnableAnalytics, as the process loaded it
    purges,    \* Sender.Purge: not --no-purge
    content,   \* Sender.content
    raced,     \* events appended while a submission was between read and purge
    blurred    \* a submission was repeated for a reason: see ExactlyOnce

log   == <<file, recorded, count>>
notes == <<raced, blurred>>
vars  == <<file, recorded, count, pc, kind, enabled, purges, content, raced, blurred>>

-----------------------------------------------------------------------------
Running(p) == pc[p] \notin {"off", "exited"}

\* Submissions that read the file and may still send or purge it.
Submitting == {p \in Procs : pc[p] \in {"send", "sent"}}

Goto(p, where) == pc' = [pc EXCEPT ![p] = where]

\* Sender.read: no file is no line.
Lines == IF file = NoFile THEN {} ELSE file

Init ==
    /\ file = NoFile
    /\ recorded = {}
    /\ count = [e \in Procs |-> 0]
    /\ pc = [p \in Procs |-> "off"]
    /\ kind = [p \in Procs |-> "command"]
    /\ enabled = [p \in Procs |-> TRUE]
    /\ purges = [p \in Procs |-> TRUE]
    /\ content = [p \in Procs |-> {}]
    /\ raced = {}
    /\ blurred = FALSE

\* The user starts a command, maybe a submission by hand.
Start(p) ==
    /\ pc[p] = "off"
    /\ Goto(p, "run")
    /\ \E k \in {"command", "submit"} : kind' = [kind EXCEPT ![p] = k]
    /\ \E b \in BOOLEAN : enabled' = [enabled EXCEPT ![p] = b]
    /\ \E b \in BOOLEAN : /\ kind'[p] = "command" => b
                          /\ purges' = [purges EXCEPT ![p] = b]
    /\ UNCHANGED <<log, content, notes>>

\* Command p runs and fails or not; its error, if any, changes nothing but that
\* the process exits after reportCommand.
RunCommand(p) ==
    /\ pc[p] = "run"
    /\ kind[p] = "command"
    /\ \E w \in {"report", "reportFailure"} : Goto(p, w)
    /\ UNCHANGED <<log, kind, enabled, purges, content, notes>>

\* TrySubmit, trySend: the file is read; without lines nothing is sent.
Read(p) ==
    /\ pc[p] = "run"
    /\ kind[p] = "submit"
    /\ enabled[p]
    /\ content' = [content EXCEPT ![p] = Lines]
    /\ Goto(p, IF Lines = {} THEN "sent" ELSE "send")
    /\ blurred' = (blurred \/ \E q \in Submitting : content[q] \cap Lines # {})
    /\ UNCHANGED <<log, kind, enabled, purges, raced>>

\* TrySubmit with the analytics disabled is an error.
ReadDisabled(p) ==
    /\ pc[p] = "run"
    /\ kind[p] = "submit"
    /\ ~enabled[p]
    /\ Goto(p, "reportFailure")
    /\ UNCHANGED <<log, kind, enabled, purges, content, notes>>

Deliver(p) ==
    count' = [e \in Procs |-> IF e \in content[p] THEN count[e] + 1 ELSE count[e]]

\* send: the server has the events, and says so.
Send(p) ==
    /\ pc[p] = "send"
    /\ Deliver(p)
    /\ Goto(p, "sent")
    /\ blurred' = (blurred \/ ~purges[p])
    /\ UNCHANGED <<file, recorded, kind, enabled, purges, content, raced>>

\* Mutant: the file is purged after a request that failed too.
SendFailsPurged(p) ==
    /\ pc[p] = "send"
    /\ Goto(p, "sent")
    /\ UNCHANGED <<log, kind, enabled, purges, content, notes>>

\* send: the request fails; the server may have the events nonetheless.
SendFails(p) ==
    /\ pc[p] = "send"
    /\ \/ /\ Deliver(p)
          /\ blurred' = TRUE
       \/ UNCHANGED <<count, blurred>>
    /\ Goto(p, "reportFailure")
    /\ UNCHANGED <<file, recorded, kind, enabled, purges, content, raced>>

\* Mutant: what was sent is not purged.
PurgeNothing(p) ==
    /\ pc[p] = "sent"
    /\ Goto(p, "report")
    /\ UNCHANGED <<log, kind, enabled, purges, content, notes>>

\* Purge: os.Truncate, an error when there is no file.
Purge(p) ==
    /\ pc[p] = "sent"
    /\ IF purges[p] /\ file # NoFile THEN file' = {} ELSE UNCHANGED file
    /\ Goto(p, IF purges[p] /\ file = NoFile THEN "reportFailure" ELSE "report")
    /\ UNCHANGED <<recorded, count, kind, enabled, purges, content, notes>>

\* reportCommand, Rec: the event is appended, the file created if need be.
Report(p) ==
    /\ pc[p] \in {"report", "reportFailure"}
    /\ IF enabled[p]
         THEN /\ file' = Lines \cup {p}
              /\ recorded' = recorded \cup {p}
              /\ raced' = IF \E q \in Submitting : purges[q] THEN raced \cup {p} ELSE raced
         ELSE UNCHANGED <<file, recorded, raced>>
    /\ Goto(p, IF pc[p] = "report" /\ kind[p] = "command" THEN "eventually" ELSE "exited")
    /\ UNCHANGED <<count, kind, enabled, purges, content, blurred>>

\* SubmitEventuallyOnBackground: no submission, by chance or for lack of lines.
NoSubmission(p) ==
    /\ pc[p] = "eventually"
    /\ Goto(p, "exited")
    /\ UNCHANGED <<log, kind, enabled, purges, content, notes>>

\* submitOnBackground: a child is started, and left alone.
Submission(p, child) ==
    /\ pc[p] = "eventually"
    /\ enabled[p]
    /\ Lines # {}
    /\ pc[child] = "off"
    /\ pc' = [pc EXCEPT ![p] = "exited", ![child] = "run"]
    /\ kind' = [kind EXCEPT ![child] = "submit"]
    /\ UNCHANGED <<log, enabled, purges, content, notes>>

\* A signal, or the computer is turned off.
Kill(p) ==
    /\ Running(p)
    /\ Goto(p, "exited")
    /\ blurred' = (blurred \/ (pc[p] = "sent" /\ content[p] # {}))
    /\ UNCHANGED <<log, kind, enabled, purges, content, raced>>

Step(p) == \/ RunCommand(p)
           \/ Read(p)
           \/ ReadDisabled(p)
           \/ SendFails(p)
           \/ Purge(p)
           \/ Report(p)
           \/ NoSubmission(p)

Next == \E p \in Procs : \/ Start(p)
                         \/ Step(p)
                         \/ Send(p)
                         \/ \E child \in Procs : Submission(p, child)
                         \/ Kill(p)

Spec == Init /\ [][Next]_vars

-----------------------------------------------------------------------------
TypeOK ==
    /\ file = NoFile \/ file \subseteq recorded
    /\ recorded \subseteq Procs
    /\ count \in [Procs -> 0 .. Cardinality(Procs)]
    /\ pc \in [Procs -> {"off", "run", "send", "sent", "report", "reportFailure",
                         "eventually", "exited"}]
    /\ kind \in [Procs -> {"command", "submit"}]
    /\ enabled \in [Procs -> BOOLEAN]
    /\ purges \in [Procs -> BOOLEAN]
    /\ content \in [Procs -> SUBSET recorded]
    /\ raced \subseteq recorded
    /\ blurred \in BOOLEAN

Lost(e) == e \in recorded /\ e \notin Lines /\ count[e] = 0

\* The only events that are lost are those appended between the read and the
\* purge of a submission: no failed request, kill, second submission or file
\* that is not there loses one.
LossNeedsRace == \A e \in Procs : Lost(e) => e \in raced

\* The server gets an event twice only if a submission was not answered, did
\* not purge, was killed before it did, or ran at the same time as another.
ExactlyOnce == ~blurred => \A e \in Procs : count[e] =< 1
=============================================================================
