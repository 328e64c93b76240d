---------------------------- MODULE Account_proofs -----------------------------
(***************************************************************************)
(* Theorems about what the CLI tells the server of whoever uses it.        *)
(*                                                                         *)
(* The first part is about the usage log (Metrics), for any number of      *)
(* processes: its types, that only the race between a read and a purge     *)
(* loses an event, and that only the reasons kept in blurred deliver one   *)
(* twice.  The second one is about the login in the browser (LoginServer), *)
(* for any number of requests and users: its types, that only the token of *)
(* a user logs in, and that the browser and the terminal agree when one    *)
(* request came.                                                           *)
(***************************************************************************)
EXTENDS Metrics, LoginServer, FiniteSetTheorems, TLAPS

Places == {"off", "run", "send", "sent", "report", "reportFailure", "eventually",
           "exited"}

\* Processes that had their occasion to deliver: each delivers once.
Past == {p \in Procs : pc[p] \notin {"off", "run", "send"}}

\* TypeOK with the bound of the counters made inductive.
TypeInv ==
    /\ file = NoFile \/ file \subseteq recorded
    /\ recorded \subseteq Procs
    /\ count \in [Procs -> Nat]
    /\ pc \in [Procs -> Places]
    /\ kind \in [Procs -> {"command", "submit"}]
    /\ enabled \in [Procs -> BOOLEAN]
    /\ purges \in [Procs -> BOOLEAN]
    /\ content \in [Procs -> SUBSET recorded]
    /\ raced \subseteq recorded
    /\ blurred \in BOOLEAN

CountInv == \A e \in Procs : count[e] =< Cardinality(Past)

\* What a submission will purge and did not read was appended since its read.
PurgesKnown ==
    \A p \in Submitting : purges[p] => \A e \in Lines \ content[p] : e \in raced

\* What a submission is about to purge was delivered.
SentIsDelivered ==
    \A p \in Procs : pc[p] = "sent" => \A e \in content[p] : count[e] # 0

LossInv == PurgesKnown /\ SentIsDelivered /\ LossNeedsRace

\* A process records its event once, at its end.
RecordedAtEnd ==
    \A p \in Procs : p \in recorded => pc[p] \in {"eventually", "exited"}

DeliveredIsRecorded == \A e \in Procs : count[e] # 0 => e \in recorded

\* A delivered event that is still in the file is about to be purged.
DeliveredIsPurged ==
    \A e \in Lines : count[e] # 0 =>
        \E p \in Procs : pc[p] = "sent" /\ purges[p] /\ e \in content[p]

\* A submission holds events nobody delivered, and nobody else holds.
HeldIsNew ==
    \A p \in Procs : pc[p] = "send" => \A e \in content[p] : count[e] = 0
HeldAlone ==
    \A p, q \in Submitting : p # q => content[p] \cap content[q] = {}

OnceInv ==
    /\ RecordedAtEnd
    /\ DeliveredIsRecorded
    /\ ~blurred => DeliveredIsPurged /\ HeldIsNew /\ HeldAlone
    /\ ExactlyOnce

-----------------------------------------------------------------------------
(* Types. *)

\* What is in the file are recorded events, as a set of processes.
LEMMA LinesType == TypeInv => Lines \subseteq recorded /\ Lines \subseteq Procs
BY DEF TypeInv, Lines

LEMMA InitType == Init => TypeInv
<1> SUFFICES ASSUME Init PROVE TypeInv
  OBVIOUS
<1>1. /\ file = NoFile \/ file \subseteq recorded
      /\ recorded \subseteq Procs
      /\ raced \subseteq recorded
      /\ blurred \in BOOLEAN
  BY DEF Init
<1>2. pc \in [Procs -> Places] /\ kind \in [Procs -> {"command", "submit"}]
  BY DEF Init, Places
<1>3. count \in [Procs -> Nat] /\ content \in [Procs -> SUBSET recorded]
  BY DEF Init
<1>4. enabled \in [Procs -> BOOLEAN] /\ purges \in [Procs -> BOOLEAN]
  BY Zenon DEF Init
<1> QED
  BY <1>1, <1>2, <1>3, <1>4 DEF TypeInv

LEMMA NextType == TypeInv /\ [Next]_vars => TypeInv'
<1> SUFFICES ASSUME TypeInv, [Next]_vars PROVE TypeInv'
  OBVIOUS
<1> USE DEF TypeInv, Places
<1>1. ASSUME NEW p \in Procs, Start(p) PROVE TypeInv'
  BY <1>1 DEF Start, Goto, log, notes
<1>2. ASSUME NEW p \in Procs, RunCommand(p) PROVE TypeInv'
  BY <1>2 DEF RunCommand, Goto, log, notes
<1>3. ASSUME NEW p \in Procs, Read(p) PROVE TypeInv'
  BY <1>3, LinesType DEF Read, Goto, log
<1>4. ASSUME NEW p \in Procs, ReadDisabled(p) PROVE TypeInv'
  BY <1>4 DEF ReadDisabled, Goto, log, notes
<1>5. ASSUME NEW p \in Procs, Send(p) PROVE TypeInv'
  BY <1>5 DEF Send, Deliver, Goto
<1>6. ASSUME NEW p \in Procs, SendFails(p) PROVE TypeInv'
  <2>1. count' \in [Procs -> Nat] /\ blurred' \in BOOLEAN
    <3>1. CASE Deliver(p) /\ blurred' = TRUE
      BY <3>1 DEF Deliver
    <3>2. CASE UNCHANGED <<count, blurred>>
      BY <3>2
    <3> QED
      BY <1>6, <3>1, <3>2 DEF SendFails
  <2>2. pc' \in [Procs -> Places]
    BY <1>6 DEF SendFails, Goto
  <2> QED
    BY <1>6, <2>1, <2>2 DEF SendFails
<1>7. ASSUME NEW p \in Procs, Purge(p) PROVE TypeInv'
  BY <1>7 DEF Purge, Goto, notes
<1>8. ASSUME NEW p \in Procs, Report(p) PROVE TypeInv'
  BY <1>8, LinesType DEF Report, Goto
<1>9. ASSUME NEW p \in Procs, NoSubmission(p) PROVE TypeInv'
  BY <1>9 DEF NoSubmission, Goto, log, notes
<1>10. ASSUME NEW p \in Procs, NEW child \in Procs, Submission(p, child)
       PROVE  TypeInv'
  BY <1>10 DEF Submission, log, notes
<1>11. ASSUME NEW p \in Procs, Kill(p) PROVE TypeInv'
  BY <1>11 DEF Kill, Goto, log
<1>12. CASE UNCHANGED vars
  BY <1>12 DEF vars
<1> QED
  BY <1>1, <1>2, <1>3, <1>4, <1>5, <1>6, <1>7, <1>8, <1>9, <1>10, <1>11, <1>12
  DEF Next, Step

-----------------------------------------------------------------------------
(* The counters: a process delivers at most once, when it comes to Past. *)

\* What a delivery does to the counter of an event.
LEMMA DeliverStep ==
    ASSUME TypeInv, NEW p \in Procs, Deliver(p), NEW e \in Procs
    PROVE  /\ e \in content[p] => count'[e] = count[e] + 1
           /\ e \notin content[p] => count'[e] = count[e]
           /\ count[e] \in Nat /\ count'[e] \in Nat
BY DEF Deliver, TypeInv

\* No process leaves Past, and a submission comes there when it has sent.
LEMMA PastGrows ==
    ASSUME TypeInv, [Next]_vars
    PROVE  /\ Past \subseteq Past'
           /\ \A p \in Procs : pc[p] = "send" /\ pc'[p] # "send" =>
                  p \in Past' \ Past
<1> USE DEF TypeInv, Past
<1>1. ASSUME NEW p \in Procs, Start(p) \/ Step(p) \/ Send(p) \/ Kill(p)
      PROVE  \E to \in Places :
                /\ pc' = [pc EXCEPT ![p] = to]
                /\ p \in Past => to \notin {"off", "run", "send"}
                /\ pc[p] = "send" => to \notin {"off", "run", "send"}
  BY <1>1 DEF Start, Step, Send, Kill, RunCommand, Read, ReadDisabled, SendFails,
     Purge, Report, NoSubmission, Goto, Places, Running
<1>2. ASSUME NEW p \in Procs, NEW child \in Procs, Submission(p, child)
      PROVE  /\ pc[p] = "eventually" /\ pc[child] = "off"
             /\ pc' = [pc EXCEPT ![p] = "exited", ![child] = "run"]
  BY <1>2 DEF Submission
<1>3. CASE UNCHANGED vars
  BY <1>3 DEF vars
<1> QED
  BY <1>1, <1>2, <1>3 DEF Next

\* What each step does to the counters.
LEMMA CountStep ==
    ASSUME TypeInv, [Next]_vars
    PROVE  \/ UNCHANGED count
           \/ \E p \in Procs : pc[p] = "send" /\ pc'[p] # "send" /\ Deliver(p)
<1>1. ASSUME NEW p \in Procs, Send(p) \/ SendFails(p)
      PROVE  \/ UNCHANGED count
             \/ pc[p] = "send" /\ pc'[p] # "send" /\ Deliver(p)
  BY <1>1 DEF Send, SendFails, Goto, TypeInv
<1> QED
  BY <1>1 DEF Next, Step, Start, RunCommand, Read, ReadDisabled, Purge, Report,
     NoSubmission, Submission, Kill, vars, log

LEMMA CountInvariant == TypeInv /\ CountInv /\ [Next]_vars => CountInv'
<1> SUFFICES ASSUME TypeInv, CountInv, [Next]_vars, NEW e \in Procs
             PROVE  count'[e] =< Cardinality(Past')
  BY DEF CountInv
<1>1. /\ IsFiniteSet(Past) /\ IsFiniteSet(Past')
      /\ Cardinality(Past) \in Nat /\ Cardinality(Past') \in Nat
  BY ProcsAssumption, FS_Subset, FS_CardinalityType DEF Past
<1>2. Cardinality(Past) =< Cardinality(Past')
  BY <1>1, PastGrows, FS_Subset
<1>3. count[e] =< Cardinality(Past) /\ count[e] \in Nat
  BY DEF CountInv, TypeInv
<1>4. CASE UNCHANGED count
  BY <1>1, <1>2, <1>3, <1>4
<1>5. ASSUME NEW p \in Procs, pc[p] = "send", pc'[p] # "send", Deliver(p)
      PROVE  count'[e] =< Cardinality(Past')
  <2>1. p \in Past' \ Past
    BY <1>5, PastGrows
  <2>2. Cardinality(Past \cup {p}) = Cardinality(Past) + 1
    BY <1>1, <2>1, FS_AddElement
  <2>3. Cardinality(Past \cup {p}) =< Cardinality(Past')
    BY <1>1, <2>1, PastGrows, FS_Subset
  <2>4. count'[e] =< count[e] + 1 /\ count'[e] \in Nat
    BY <1>5, DeliverStep
  <2> QED
    BY <1>1, <1>3, <2>2, <2>3, <2>4
<1> QED
  BY <1>4, <1>5, CountStep

\* Every variable of the log and of its processes keeps its type; an event is
\* delivered at most once by each process.
THEOREM TypeCorrect == Spec => []TypeOK
<1>1. Init => TypeInv /\ CountInv
  <2>1. ASSUME Init PROVE CountInv
    <3>1. Cardinality(Past) \in Nat
      BY ProcsAssumption, FS_Subset, FS_CardinalityType DEF Past
    <3> QED
      BY <2>1, <3>1 DEF CountInv, Init
  <2> QED
    BY <2>1, InitType
<1>2. TypeInv /\ CountInv /\ [Next]_vars => TypeInv' /\ CountInv'
  BY NextType, CountInvariant
<1>3. TypeInv /\ CountInv => TypeOK
  <2> SUFFICES ASSUME TypeInv, CountInv PROVE TypeOK
    OBVIOUS
  <2>1. /\ Cardinality(Procs) \in Nat /\ Cardinality(Past) \in Nat
        /\ Cardinality(Past) =< Cardinality(Procs)
    BY ProcsAssumption, FS_Subset, FS_CardinalityType DEF Past
  <2>2. ASSUME NEW e \in Procs
        PROVE  count[e] \in 0 .. Cardinality(Procs)
    BY <2>1 DEF CountInv, TypeInv
  <2>3. count \in [Procs -> 0 .. Cardinality(Procs)]
    BY <2>2 DEF TypeInv
  <2> QED
    BY <2>3 DEF TypeInv, TypeOK, Places
<1> QED
  BY <1>1, <1>2, <1>3, PTL DEF Spec

-----------------------------------------------------------------------------
(* Losses. *)

LEMMA PurgesKnownInvariant ==
    ASSUME TypeInv, PurgesKnown, [Next]_vars
    PROVE  PurgesKnown'
<1> SUFFICES ASSUME NEW q \in Procs, pc'[q] \in {"send", "sent"}, purges'[q],
                    NEW e \in Lines' \ content'[q]
             PROVE  e \in raced'
  BY DEF PurgesKnown, Submitting
<1> USE DEF TypeInv, PurgesKnown, Submitting
<1>1. ASSUME NEW p \in Procs, Start(p) PROVE e \in raced'
  BY <1>1 DEF Start, Goto, log, notes, Lines
<1>2. ASSUME NEW p \in Procs, RunCommand(p) \/ ReadDisabled(p) \/ NoSubmission(p)
      PROVE  e \in raced'
  BY <1>2 DEF RunCommand, ReadDisabled, NoSubmission, Goto, log, notes, Lines
<1>3. ASSUME NEW p \in Procs, Read(p) PROVE e \in raced'
  BY <1>3 DEF Read, Goto, log, Lines
<1>4. ASSUME NEW p \in Procs, Send(p) \/ SendFails(p) PROVE e \in raced'
  BY <1>4 DEF Send, SendFails, Goto, Lines
<1>5. ASSUME NEW p \in Procs, Purge(p) PROVE e \in raced'
  BY <1>5 DEF Purge, Goto, notes, Lines
<1>6. ASSUME NEW p \in Procs, Report(p) PROVE e \in raced'
  <2>1. /\ pc[q] \in {"send", "sent"} /\ purges[q] /\ content'[q] = content[q]
        /\ raced \subseteq raced'
    BY <1>6 DEF Report, Goto
  <2>2. Lines' \subseteq Lines \cup {p}
    BY <1>6, LinesType DEF Report, Lines
  <2>3. CASE e \in Lines
    BY <2>1, <2>3
  <2>4. CASE e = p /\ e \notin Lines
    BY <1>6, <2>1, <2>4 DEF Report, Lines
  <2> QED
    BY <2>2, <2>3, <2>4
<1>7. ASSUME NEW p \in Procs, NEW child \in Procs, Submission(p, child)
      PROVE  e \in raced'
  BY <1>7 DEF Submission, log, notes, Lines
<1>8. ASSUME NEW p \in Procs, Kill(p) PROVE e \in raced'
  BY <1>8 DEF Kill, Goto, log, Lines
<1>9. CASE UNCHANGED vars
  BY <1>9 DEF vars, Lines
<1> QED
  BY <1>1, <1>2, <1>3, <1>4, <1>5, <1>6, <1>7, <1>8, <1>9 DEF Next, Step

\* A counter never goes back.
LEMMA CountGrows ==
    ASSUME TypeInv, [Next]_vars, NEW e \in Procs, count[e] # 0
    PROVE  count'[e] # 0
BY CountStep, DeliverStep

LEMMA SentIsDeliveredInvariant ==
    ASSUME TypeInv, SentIsDelivered, [Next]_vars
    PROVE  SentIsDelivered'
<1> SUFFICES ASSUME NEW q \in Procs, pc'[q] = "sent", NEW e \in content'[q]
             PROVE  count'[e] # 0
  BY DEF SentIsDelivered
<1>0. e \in Procs
  BY NextType DEF TypeInv
<1>1. CASE pc[q] = "sent" /\ content'[q] = content[q]
  BY <1>0, <1>1, CountGrows DEF SentIsDelivered
<1>2. ASSUME NEW p \in Procs, Read(p) PROVE count'[e] # 0
  <2>1. CASE p = q
    BY <1>2, <2>1 DEF Read, Goto, TypeInv
  <2>2. CASE p # q
    BY <1>1, <1>2, <2>2 DEF Read, Goto, TypeInv
  <2> QED
    BY <2>1, <2>2
<1>3. ASSUME NEW p \in Procs, Send(p) PROVE count'[e] # 0
  <2>1. CASE p = q
    BY <1>0, <1>3, <2>1, DeliverStep DEF Send
  <2>2. CASE p # q
    BY <1>1, <1>3, <2>2 DEF Send, Goto, TypeInv
  <2> QED
    BY <2>1, <2>2
<1>4. ASSUME NEW p \in Procs,
             \/ Start(p) \/ RunCommand(p) \/ ReadDisabled(p) \/ SendFails(p)
             \/ Purge(p) \/ Report(p) \/ NoSubmission(p) \/ Kill(p)
      PROVE  count'[e] # 0
  BY <1>1, <1>4 DEF Start, RunCommand, ReadDisabled, SendFails, Purge, Report,
     NoSubmission, Kill, Goto, TypeInv
<1>5. ASSUME NEW p \in Procs, NEW child \in Procs, Submission(p, child)
      PROVE  count'[e] # 0
  BY <1>1, <1>5 DEF Submission, TypeInv
<1>6. CASE UNCHANGED vars
  BY <1>1, <1>6 DEF vars
<1> QED
  BY <1>2, <1>3, <1>4, <1>5, <1>6 DEF Next, Step

LEMMA LossInvariant ==
    ASSUME TypeInv, LossInv, [Next]_vars
    PROVE  LossNeedsRace'
<1> SUFFICES ASSUME NEW e \in Procs, Lost(e)' PROVE e \in raced'
  BY DEF LossNeedsRace
<1>1. /\ e \in recorded' /\ e \notin Lines' /\ count'[e] = 0
      /\ count[e] = 0
  BY CountGrows DEF Lost
<1>2. raced \subseteq raced'
  BY DEF Next, Step, Start, RunCommand, Read, ReadDisabled, Send, SendFails, Purge,
     Report, NoSubmission, Submission, Kill, vars, notes
<1>3. CASE e \in recorded /\ e \notin Lines
  BY <1>1, <1>2, <1>3 DEF LossInv, LossNeedsRace, Lost
<1>4. CASE UNCHANGED <<file, recorded>>
  BY <1>1, <1>3, <1>4 DEF Lines
<1>5. ASSUME NEW p \in Procs, Purge(p) PROVE e \in raced'
  <2>1. CASE purges[p] /\ file # NoFile
    <3>1. e \in recorded /\ pc[p] = "sent"
      BY <1>1, <1>5 DEF Purge
    <3>2. CASE e \in Lines
      BY <1>1, <1>2, <2>1, <3>1, <3>2
      DEF LossInv, PurgesKnown, SentIsDelivered, Submitting
    <3> QED
      BY <1>3, <3>1, <3>2
  <2>2. CASE ~(purges[p] /\ file # NoFile)
    BY <1>4, <1>5, <2>2 DEF Purge
  <2> QED
    BY <2>1, <2>2
<1>6. ASSUME NEW p \in Procs, Report(p) PROVE e \in raced'
  <2>1. CASE enabled[p]
    <3>1. file' = Lines \cup {p} /\ file' \in SUBSET Procs
      BY <1>6, <2>1, LinesType DEF Report
    <3>2. Lines' = Lines \cup {p} /\ recorded' = recorded \cup {p}
      BY <1>6, <2>1, <3>1, NoFileAssumption DEF Report, Lines
    <3> QED
      BY <1>1, <1>3, <3>2
  <2>2. CASE ~enabled[p]
    BY <1>4, <1>6, <2>2 DEF Report
  <2> QED
    BY <2>1, <2>2
<1> QED
  BY <1>4, <1>5, <1>6 DEF Next, Step, Start, RunCommand, Read, ReadDisabled, Send,
     SendFails, NoSubmission, Submission, Kill, vars, log

\* Only an event appended between the read and the purge of a submission is lost,
\* whatever fails, is killed, or runs at the same time.
THEOREM LossCorrect == Spec => []LossNeedsRace
<1>1. Init => TypeInv /\ LossInv
  BY InitType DEF Init, LossInv, PurgesKnown, SentIsDelivered, LossNeedsRace, Lost,
     Submitting
<1>2. TypeInv /\ LossInv /\ [Next]_vars => TypeInv' /\ LossInv'
  BY NextType, PurgesKnownInvariant, SentIsDeliveredInvariant, LossInvariant
  DEF LossInv
<1>3. LossInv => LossNeedsRace
  BY DEF LossInv
<1> QED
  BY <1>1, <1>2, <1>3, PTL DEF Spec

-----------------------------------------------------------------------------
(* Duplicates. *)

\* A process that recorded its event does nothing more to the log.
LEMMA RecordedAtEndInvariant ==
    ASSUME TypeInv, RecordedAtEnd, [Next]_vars
    PROVE  RecordedAtEnd'
<1> SUFFICES ASSUME NEW q \in Procs, q \in recorded'
             PROVE  pc'[q] \in {"eventually", "exited"}
  BY DEF RecordedAtEnd
<1> USE DEF TypeInv, RecordedAtEnd
<1>1. ASSUME NEW p \in Procs, Report(p)
      PROVE  pc'[q] \in {"eventually", "exited"}
  BY <1>1 DEF Report, Goto
<1>2. ASSUME NEW p \in Procs,
             \/ Start(p) \/ RunCommand(p) \/ Read(p) \/ ReadDisabled(p) \/ Send(p)
             \/ SendFails(p) \/ Purge(p) \/ NoSubmission(p) \/ Kill(p)
      PROVE  pc'[q] \in {"eventually", "exited"}
  BY <1>2 DEF Start, RunCommand, Read, ReadDisabled, Send, SendFails, Purge,
     NoSubmission, Kill, Goto, log
<1>3. ASSUME NEW p \in Procs, NEW child \in Procs, Submission(p, child)
      PROVE  pc'[q] \in {"eventually", "exited"}
  BY <1>3 DEF Submission, log
<1>4. CASE UNCHANGED vars
  BY <1>4 DEF vars
<1> QED
  BY <1>1, <1>2, <1>3, <1>4 DEF Next, Step

LEMMA RecordedGrows == TypeInv /\ [Next]_vars => recorded \subseteq recorded'
BY DEF Next, Step, Start, RunCommand, Read, ReadDisabled, Send, SendFails, Purge,
   Report, NoSubmission, Submission, Kill, vars, log

LEMMA DeliveredIsRecordedInvariant ==
    ASSUME TypeInv, DeliveredIsRecorded, [Next]_vars
    PROVE  DeliveredIsRecorded'
<1> SUFFICES ASSUME NEW e \in Procs, count'[e] # 0
             PROVE  e \in recorded
  BY RecordedGrows DEF DeliveredIsRecorded
<1>1. CASE count[e] # 0
  BY <1>1 DEF DeliveredIsRecorded
<1>2. CASE count[e] = 0
  <2>1. PICK p \in Procs : Deliver(p)
    BY <1>2, CountStep
  <2>2. e \in content[p]
    BY <1>2, <2>1, DeliverStep
  <2> QED
    BY <2>2 DEF TypeInv
<1> QED
  BY <1>1, <1>2

\* A reason for a second delivery stays one.
LEMMA BlurredStays == TypeInv /\ [Next]_vars /\ ~blurred' => ~blurred
BY DEF Next, Step, Start, RunCommand, Read, ReadDisabled, Send, SendFails, Purge,
   Report, NoSubmission, Submission, Kill, vars, notes, TypeInv

\* Without such a reason, only an answered request counts.
LEMMA ClearCountStep ==
    ASSUME TypeInv, [Next]_vars, ~blurred'
    PROVE  \/ UNCHANGED count
           \/ \E p \in Procs : Send(p) /\ purges[p]
<1>1. ASSUME NEW p \in Procs, SendFails(p) PROVE UNCHANGED count
  BY <1>1 DEF SendFails
<1>2. ASSUME NEW p \in Procs, Send(p) PROVE purges[p]
  BY <1>2 DEF Send, TypeInv
<1> QED
  BY <1>1, <1>2 DEF Next, Step, Start, RunCommand, Read, ReadDisabled, Purge, Report,
     NoSubmission, Submission, Kill, vars, log

\* What each step does to the submissions under way.
LEMMA HeldStep ==
    ASSUME TypeInv, [Next]_vars, NEW q \in Procs, pc'[q] \in {"send", "sent"}
    PROVE  \/ Read(q)
           \/ /\ pc[q] \in {"send", "sent"}
              /\ pc'[q] = "send" => pc[q] = "send"
              /\ content'[q] = content[q]
<1> USE DEF TypeInv
<1>1. ASSUME NEW p \in Procs,
             \/ Start(p) \/ RunCommand(p) \/ ReadDisabled(p) \/ Send(p)
             \/ SendFails(p) \/ Purge(p) \/ Report(p) \/ NoSubmission(p) \/ Kill(p)
      PROVE  /\ pc[q] \in {"send", "sent"}
             /\ pc'[q] = "send" => pc[q] = "send"
             /\ content'[q] = content[q]
  BY <1>1 DEF Start, RunCommand, ReadDisabled, Send, SendFails, Purge, Report,
     NoSubmission, Kill, Goto, notes
<1>2. ASSUME NEW p \in Procs, Read(p), p # q
      PROVE  /\ pc'[q] = pc[q]
             /\ content'[q] = content[q]
  BY <1>2 DEF Read, Goto
<1>3. ASSUME NEW p \in Procs, NEW child \in Procs, Submission(p, child)
      PROVE  /\ pc'[q] = pc[q]
             /\ content'[q] = content[q]
  BY <1>3 DEF Submission, notes
<1>4. CASE UNCHANGED vars
  BY <1>4 DEF vars
<1> QED
  BY <1>1, <1>2, <1>3, <1>4 DEF Next, Step

\* What a submission reads without blurring is held by no other, and leaves the
\* counters alone.
LEMMA ClearRead ==
    ASSUME TypeInv, NEW p \in Procs, Read(p), ~blurred'
    PROVE  /\ content'[p] = Lines
           /\ \A q \in Submitting : content[q] \cap Lines = {}
           /\ p \notin Submitting
           /\ UNCHANGED count
BY DEF Read, TypeInv, Submitting, log

LEMMA HeldAloneInvariant ==
    ASSUME TypeInv, ~blurred', HeldAlone, [Next]_vars
    PROVE  HeldAlone'
<1> SUFFICES ASSUME NEW q \in Submitting', NEW o \in Submitting', q # o
             PROVE  content'[q] \cap content'[o] = {}
  BY DEF HeldAlone
<1>1. /\ q \in Procs /\ pc'[q] \in {"send", "sent"}
      /\ o \in Procs /\ pc'[o] \in {"send", "sent"}
  BY DEF Submitting
<1>2. ASSUME NEW x \in Procs, NEW y \in Procs, x # y, Read(x),
             pc'[y] \in {"send", "sent"}
      PROVE  content'[x] \cap content'[y] = {}
  <2>1. y \in Submitting /\ content'[y] = content[y]
    BY <1>2 DEF Read, Goto, TypeInv, Submitting
  <2> QED
    BY <1>2, <2>1, ClearRead
<1>3. CASE Read(q) \/ Read(o)
  BY <1>1, <1>2, <1>3
<1>4. CASE ~Read(q) /\ ~Read(o)
  BY <1>1, <1>4, HeldStep DEF HeldAlone, Submitting
<1> QED
  BY <1>3, <1>4

LEMMA HeldIsNewInvariant ==
    ASSUME TypeInv, ~blurred', HeldAlone, HeldIsNew, DeliveredIsPurged,
           [Next]_vars
    PROVE  HeldIsNew'
<1> SUFFICES ASSUME NEW q \in Procs, pc'[q] = "send", NEW e \in content'[q]
             PROVE  count'[e] = 0
  BY DEF HeldIsNew
<1>0. e \in Procs
  BY NextType DEF TypeInv
<1>1. CASE Read(q)
  <2>1. e \in Lines /\ UNCHANGED count
    BY <1>1, ClearRead
  <2>2. ASSUME count[e] # 0 PROVE FALSE
    <3>1. PICK p \in Procs : pc[p] = "sent" /\ e \in content[p]
      BY <2>1, <2>2 DEF DeliveredIsPurged
    <3> QED
      BY <1>1, <2>1, <3>1, ClearRead DEF Submitting
  <2> QED
    BY <2>1, <2>2
<1>2. CASE ~Read(q)
  <2>1. pc[q] = "send" /\ e \in content[q]
    BY <1>2, HeldStep
  <2>2. count[e] = 0
    BY <2>1 DEF HeldIsNew
  <2>3. ASSUME NEW p \in Procs, Send(p) PROVE count'[e] = 0
    <3>1. p # q /\ p \in Submitting /\ q \in Submitting
      BY <2>1, <2>3 DEF Send, Goto, TypeInv, Submitting
    <3>2. e \notin content[p]
      BY <2>1, <3>1 DEF HeldAlone
    <3> QED
      BY <1>0, <2>2, <2>3, <3>2, DeliverStep DEF Send
  <2> QED
    BY <2>2, <2>3, ClearCountStep
<1> QED
  BY <1>1, <1>2

\* A witness of DeliveredIsPurged stays one until it purges, or is killed.
LEMMA WitnessStep ==
    ASSUME TypeInv, ~blurred', [Next]_vars, NEW q \in Procs, pc[q] = "sent",
           purges[q], NEW e \in content[q]
    PROVE  \/ pc'[q] = "sent" /\ purges'[q] /\ e \in content'[q]
           \/ Purge(q)
<1> USE DEF TypeInv
<1>1. ASSUME NEW p \in Procs,
             \/ Start(p) \/ RunCommand(p) \/ Read(p) \/ ReadDisabled(p) \/ Send(p)
             \/ SendFails(p) \/ Report(p) \/ NoSubmission(p)
      PROVE  pc'[q] = "sent" /\ purges'[q] /\ e \in content'[q]
  BY <1>1 DEF Start, RunCommand, Read, ReadDisabled, Send, SendFails, Report,
     NoSubmission, Goto, notes
<1>2. ASSUME NEW p \in Procs, Purge(p), p # q
      PROVE  pc'[q] = "sent" /\ purges'[q] /\ e \in content'[q]
  BY <1>2 DEF Purge, Goto
<1>3. ASSUME NEW p \in Procs, Kill(p)
      PROVE  pc'[q] = "sent" /\ purges'[q] /\ e \in content'[q]
  BY <1>3 DEF Kill, Goto
<1>4. ASSUME NEW p \in Procs, NEW child \in Procs, Submission(p, child)
      PROVE  pc'[q] = "sent" /\ purges'[q] /\ e \in content'[q]
  BY <1>4 DEF Submission, notes
<1>5. CASE UNCHANGED vars
  BY <1>5 DEF vars
<1> QED
  BY <1>1, <1>2, <1>3, <1>4, <1>5 DEF Next, Step

LEMMA DeliveredIsPurgedInvariant ==
    ASSUME TypeInv, ~blurred', RecordedAtEnd, DeliveredIsRecorded,
           DeliveredIsPurged, [Next]_vars
    PROVE  DeliveredIsPurged'
<1> SUFFICES ASSUME NEW e \in Lines', count'[e] # 0
             PROVE  \E p \in Procs : pc'[p] = "sent" /\ purges'[p] /\ e \in content'[p]
  BY DEF DeliveredIsPurged
<1>0. e \in Procs
  BY NextType DEF TypeInv, Lines
<1>1. CASE count[e] = 0
  <2>1. PICK p \in Procs : Send(p) /\ purges[p]
    BY <1>1, ClearCountStep
  <2>2. e \in content[p]
    BY <1>0, <1>1, <2>1, DeliverStep DEF Send
  <2> QED
    BY <2>1, <2>2 DEF Send, Goto, TypeInv
<1>2. CASE count[e] # 0 /\ e \in Lines
  <2>1. PICK q \in Procs : pc[q] = "sent" /\ purges[q] /\ e \in content[q]
    BY <1>2 DEF DeliveredIsPurged
  <2>2. CASE Purge(q)
    <3>1. Lines' = {}
      BY <2>1, <2>2 DEF Purge, Lines
    <3> QED
      BY <3>1
  <2> QED
    BY <2>1, <2>2, WitnessStep
<1>3. CASE count[e] # 0 /\ e \notin Lines
  <2>1. e \in recorded
    BY <1>0, <1>3 DEF DeliveredIsRecorded
  <2>2. Report(e)
    BY <1>3 DEF Next, Step, Start, RunCommand, Read, ReadDisabled, Send, SendFails,
       Purge, Report, NoSubmission, Submission, Kill, vars, log, Lines
  <2> QED
    BY <1>0, <2>1, <2>2 DEF RecordedAtEnd, Report
<1> QED
  BY <1>1, <1>2, <1>3

LEMMA OnceInvariant == TypeInv /\ OnceInv /\ [Next]_vars => OnceInv'
<1> SUFFICES ASSUME TypeInv, OnceInv, [Next]_vars PROVE OnceInv'
  OBVIOUS
<1>1. RecordedAtEnd'
  BY RecordedAtEndInvariant DEF OnceInv
<1>2. DeliveredIsRecorded'
  BY DeliveredIsRecordedInvariant DEF OnceInv
<1>3. ASSUME ~blurred'
      PROVE  DeliveredIsPurged' /\ HeldIsNew' /\ HeldAlone'
  BY <1>3, BlurredStays, DeliveredIsPurgedInvariant, HeldIsNewInvariant,
     HeldAloneInvariant DEF OnceInv
<1>4. ASSUME ~blurred', NEW e \in Procs PROVE count'[e] =< 1
  <2>1. count[e] =< 1 /\ count[e] \in Nat
    BY <1>4, BlurredStays DEF OnceInv, ExactlyOnce, TypeInv
  <2>2. ASSUME NEW p \in Procs, Send(p) PROVE count'[e] =< 1
    <3>1. e \in content[p] => count[e] = 0
      BY <1>4, <2>2, BlurredStays DEF OnceInv, HeldIsNew, Send
    <3>2. /\ e \in content[p] => count'[e] = count[e] + 1
          /\ e \notin content[p] => count'[e] = count[e]
      BY <2>2, DeliverStep DEF Send
    <3> QED
      BY <2>1, <3>1, <3>2
  <2> QED
    BY <1>4, <2>1, <2>2, ClearCountStep
<1> QED
  BY <1>1, <1>2, <1>3, <1>4 DEF OnceInv, ExactlyOnce

\* The server gets an event twice only for one of the reasons kept in blurred:
\* a request that failed after it was served, a submission that did not purge or
\* was killed before it did, or two submissions at the same time.
THEOREM OnceCorrect == Spec => []ExactlyOnce
<1>1. Init => TypeInv /\ OnceInv
  <2> SUFFICES ASSUME Init PROVE OnceInv
    BY InitType
  <2>1. /\ Lines = {} /\ Submitting = {}
        /\ \A e \in Procs : count[e] = 0
        /\ \A p \in Procs : pc[p] = "off" /\ p \notin recorded
    BY DEF Init, Lines, Submitting
  <2> QED
    BY <2>1 DEF OnceInv, RecordedAtEnd, DeliveredIsRecorded, DeliveredIsPurged,
       HeldIsNew, HeldAlone, ExactlyOnce
<1>2. TypeInv /\ OnceInv /\ [Next]_vars => TypeInv' /\ OnceInv'
  BY NextType, OnceInvariant
<1>3. OnceInv => ExactlyOnce
  BY DEF OnceInv
<1> QED
  BY <1>1, <1>2, <1>3, PTL DEF Spec

-----------------------------------------------------------------------------
(* The login in the browser. *)

\* Some request brought the token of a user and was let through.
UserPosted == \E r \in Requests : sends[r] \in Users /\ req[r] \notin {"off", "post"}

\* The token in the shared field is one a request brought.
TokenIsPosted ==
    /\ temporaryToken \in Users => UserPosted
    /\ \A r \in Requests : req[r] = "post" => sends[r] \in Tokens
    /\ \A r \in Requests : req[r] = "parse" => temporaryToken \in Tokens

\* Nobody comes to a verdict without an error but for the token of a user.
VerdictNeedsUser ==
    \A r \in Requests :
        req[r] \in {"redirect", "cancel", "over"} /\ err = "none" => UserPosted

\* The context is canceled by requests, the server shut down after it, and
\* Serve returns after that.
Order ==
    /\ ctx = "canceled" => \E r \in Requests : req[r] = "over"
    /\ server # "wait" => ctx # "live"
    /\ workflow # "serve" => server = "over"

SavedNeedsUser ==
    workflow = "save" \/ result = "ok" => ctx = "expired" \/ UserPosted

UserInv == TokenIsPosted /\ VerdictNeedsUser /\ Order /\ SavedNeedsUser

\* No request but r came.
Alone(r) == \A o \in Requests \ {r} : req[o] = "off"

\* The shared fields are what r brought, and its page is the verdict.
Faithful(r) ==
    /\ req[r] = "parse" => temporaryToken = sends[r]
    /\ req[r] \in {"redirect", "cancel", "over"} /\ err = "none" =>
         sends[r] \in Users /\ jwt = sends[r] /\ temporaryToken = sends[r]
    /\ req[r] \in {"cancel", "over"} => (page[r] = "success" <=> err = "none")

\* The command read what r left in the fields.
ReadFrom(r) ==
    /\ workflow \in {"username", "token", "error", "save"} => err = "none"
    /\ workflow \in {"token", "error", "save"} => username = jwt
    /\ workflow \in {"error", "save"} => token = temporaryToken
    /\ workflow = "done" =>
         /\ result \in {"ok", "unsaved"} <=> err = "none"
         /\ result = "ok" => saved = <<sends[r], sends[r]>>

AloneInv ==
    \A r \in Requests : Alone(r) /\ ctx # "expired" => Faithful(r) /\ ReadFrom(r)

-----------------------------------------------------------------------------
(* Types. *)

LEMMA LoginInitType == LoginInit => LoginTypeOK
<1> SUFFICES ASSUME LoginInit PROVE LoginTypeOK
  OBVIOUS
<1>1. saved \in (Users \cup {NoToken}) \X (Tokens \cup {NoToken})
  <2>1. PICK u \in Users \cup {NoToken} : saved = <<u, u>>
    BY DEF LoginInit
  <2> QED
    BY <2>1 DEF Tokens
<1>2. /\ req \in [Requests -> {"off", "reject", "post", "parse", "redirect",
                               "cancel", "over"}]
      /\ sends \in [Requests -> Tokens \cup {NoToken}]
      /\ page \in [Requests -> {"none", "failure", "confirm", "success"}]
  BY DEF LoginInit
<1> QED
  BY <1>1, <1>2 DEF LoginInit, LoginTypeOK, Errors

LEMMA LoginNextType == LoginTypeOK /\ [LoginNext]_loginVars => LoginTypeOK'
<1> SUFFICES ASSUME LoginTypeOK, [LoginNext]_loginVars PROVE LoginTypeOK'
  OBVIOUS
<1> USE DEF LoginTypeOK, Errors, Tokens
<1>1. CASE Expire
  BY <1>1 DEF Expire, fields, browser, command
<1>2. ASSUME NEW r \in Requests, Accept(r) PROVE LoginTypeOK'
  BY <1>2 DEF Accept, At, fields, command
<1>3. ASSUME NEW r \in Requests, Reject(r) PROVE LoginTypeOK'
  BY <1>3 DEF Reject, At, command
<1>4. ASSUME NEW r \in Requests, Post(r) PROVE LoginTypeOK'
  <2>1. sends[r] \in Tokens \cup {NoToken}
    OBVIOUS
  <2> QED
    BY <1>4 DEF Post, At, command
<1>5. ASSUME NEW r \in Requests, Parse(r) PROVE LoginTypeOK'
  BY <1>5 DEF Parse, At, command
<1>6. ASSUME NEW r \in Requests, redirectToDashboard(r) PROVE LoginTypeOK'
  BY <1>6 DEF redirectToDashboard, At, fields, command
<1>7. ASSUME NEW r \in Requests, Cancel(r) PROVE LoginTypeOK'
  BY <1>7 DEF Cancel, At, fields, command
<1>8. CASE Service
  BY <1>8 DEF Service, CloseListener, Shutdown, fields, browser, command
<1>9. CASE Main
  BY <1>9 DEF Main, Serve, ReadUsername, ReadToken, ReadError, saveUser, GiveUp,
     fields, browser
<1>10. CASE UNCHANGED loginVars
  BY <1>10 DEF loginVars
<1> QED
  BY <1>1, <1>2, <1>3, <1>4, <1>5, <1>6, <1>7, <1>8, <1>9, <1>10
  DEF LoginNext, Handler

\* Every field, page and credential keeps its type, however requests interleave.
THEOREM LoginTypeCorrect == LoginSpec => []LoginTypeOK
<1> QED
  BY LoginInitType, LoginNextType, PTL DEF LoginSpec

-----------------------------------------------------------------------------
(* Only the token of a user logs in. *)

\* A request that was let through stays so.
LEMMA PostedStays == LoginTypeOK /\ UserPosted /\ [LoginNext]_loginVars => UserPosted'
<1> SUFFICES ASSUME LoginTypeOK, UserPosted, [LoginNext]_loginVars PROVE UserPosted'
  OBVIOUS
<1>1. PICK u \in Requests : sends[u] \in Users /\ req[u] \notin {"off", "post"}
  BY DEF UserPosted
<1>2. sends'[u] = sends[u] /\ req'[u] \notin {"off", "post"}
  BY <1>1 DEF LoginTypeOK, LoginNext, Expire, Handler, Accept, Reject, Post, Parse,
     redirectToDashboard, Cancel, At, Service, CloseListener, Shutdown, Main, Serve,
     ReadUsername, ReadToken, ReadError, saveUser, browser, loginVars
<1> QED
  BY <1>1, <1>2 DEF UserPosted

LEMMA TokenInvariant == LoginTypeOK /\ TokenIsPosted /\ [LoginNext]_loginVars => TokenIsPosted'
<1> SUFFICES ASSUME LoginTypeOK, TokenIsPosted, [LoginNext]_loginVars PROVE TokenIsPosted'
  OBVIOUS
<1> USE DEF LoginTypeOK, TokenIsPosted
<1>1. ASSUME NEW r \in Requests, Post(r) PROVE TokenIsPosted'
  <2>1. /\ temporaryToken' = sends[r] /\ sends'[r] = sends[r] /\ req'[r] = "parse"
        /\ sends[r] \in Tokens
    BY <1>1 DEF Post, At
  <2>2. temporaryToken' \in Users => UserPosted'
    BY <2>1 DEF UserPosted
  <2>3. \A q \in Requests : req'[q] = "post" => sends'[q] \in Tokens
    BY <1>1 DEF Post, At
  <2> QED
    BY <2>1, <2>2, <2>3
<1>2. ASSUME temporaryToken' = temporaryToken,
             NEW r \in Requests, Accept(r) \/ Reject(r) \/ Parse(r)
                                 \/ redirectToDashboard(r) \/ Cancel(r)
      PROVE  TokenIsPosted'
  <2>1. /\ \A q \in Requests : req'[q] = "post" => sends'[q] \in Tokens
        /\ \A q \in Requests : req'[q] = "parse" => req[q] = "parse"
    BY <1>2 DEF Accept, Reject, Parse, redirectToDashboard, Cancel, At
  <2> QED
    BY <1>2, <2>1, PostedStays
<1>3. CASE UNCHANGED <<temporaryToken, req, sends>>
  BY <1>3, PostedStays
<1> QED
  BY <1>1, <1>2, <1>3 DEF LoginNext, Expire, Handler, Accept, Reject, Parse,
     redirectToDashboard, Cancel, Service, CloseListener, Shutdown, Main, Serve,
     ReadUsername, ReadToken, ReadError, saveUser, browser, fields, loginVars

LEMMA VerdictInvariant ==
    ASSUME LoginTypeOK, TokenIsPosted, VerdictNeedsUser, [LoginNext]_loginVars
    PROVE  VerdictNeedsUser'
<1> SUFFICES ASSUME NEW q \in Requests, err' = "none",
                    req'[q] \in {"redirect", "cancel", "over"}
             PROVE  UserPosted'
  BY DEF VerdictNeedsUser
<1>1. ASSUME NEW r \in Requests, Reject(r) PROVE FALSE
  BY <1>1 DEF Reject
<1>2. ASSUME NEW r \in Requests, Parse(r) PROVE UserPosted'
  <2>1. temporaryToken \in Users
    BY <1>2 DEF Parse, At, TokenIsPosted, Tokens
  <2> QED
    BY <2>1, PostedStays DEF TokenIsPosted
<1>3. ASSUME req[q] \in {"redirect", "cancel", "over"}, err = "none"
      PROVE  UserPosted'
  BY <1>3, PostedStays DEF VerdictNeedsUser
<1>4. ASSUME NEW r \in Requests, Accept(r) \/ Post(r) \/ redirectToDashboard(r)
                                 \/ Cancel(r)
      PROVE  UserPosted'
  BY <1>3, <1>4 DEF LoginTypeOK, Accept, Post, redirectToDashboard, Cancel, At, fields
<1>5. CASE Expire \/ Service \/ Main \/ UNCHANGED loginVars
  BY <1>3, <1>5 DEF Expire, Service, CloseListener, Shutdown, Main, Serve,
     ReadUsername, ReadToken, ReadError, saveUser, browser, fields, loginVars
<1> QED
  BY <1>1, <1>2, <1>4, <1>5 DEF LoginNext, Handler

LEMMA OrderInvariant == LoginTypeOK /\ Order /\ [LoginNext]_loginVars => Order'
<1> SUFFICES ASSUME LoginTypeOK, Order, [LoginNext]_loginVars PROVE Order'
  OBVIOUS
<1> USE DEF LoginTypeOK, Order
<1>1. ASSUME NEW r \in Requests, Handler(r) PROVE Order'
  <2>1. \A q \in Requests : req[q] = "over" => req'[q] = "over"
    BY <1>1 DEF Handler, Accept, Reject, Post, Parse, redirectToDashboard, Cancel, At
  <2>2. CASE Cancel(r)
    BY <2>1, <2>2 DEF Cancel, At, command
  <2>3. CASE ~Cancel(r)
    BY <1>1, <2>1, <2>3 DEF Handler, Accept, Reject, Post, Parse,
       redirectToDashboard, command
  <2> QED
    BY <2>2, <2>3
<1>2. CASE Expire \/ Service
  BY <1>2 DEF Expire, Service, CloseListener, Shutdown, browser, command
<1>3. CASE Main \/ UNCHANGED loginVars
  BY <1>3 DEF Main, Serve, ReadUsername, ReadToken, ReadError, saveUser, browser,
     loginVars
<1> QED
  BY <1>1, <1>2, <1>3 DEF LoginNext

LEMMA SavedInvariant ==
    ASSUME LoginTypeOK, UserInv, [LoginNext]_loginVars
    PROVE  SavedNeedsUser'
<1> SUFFICES ASSUME workflow' = "save" \/ result' = "ok"
             PROVE  ctx' = "expired" \/ UserPosted'
  BY DEF SavedNeedsUser
<1>1. ASSUME workflow = "save" \/ result = "ok"
      PROVE  ctx' = "expired" \/ UserPosted'
  <2>1. ctx = "expired" => ctx' = "expired"
    BY DEF LoginNext, Expire, Handler, Accept, Reject, Post, Parse, redirectToDashboard,
       Cancel, Service, CloseListener, Shutdown, Main, Serve, ReadUsername, ReadToken,
       ReadError, saveUser, loginVars
  <2> QED
    BY <1>1, <2>1, PostedStays DEF UserInv, SavedNeedsUser
<1>2. CASE ReadError
  <2>1. ctx \in {"canceled", "expired"} /\ ctx' = ctx
    BY <1>2 DEF ReadError, UserInv, Order, LoginTypeOK
  <2>2. CASE err # "none"
    BY <1>1, <1>2, <2>2 DEF ReadError, GiveUp
  <2>3. CASE err = "none" /\ ctx = "canceled"
    BY <2>3, PostedStays DEF UserInv, Order, VerdictNeedsUser
  <2> QED
    BY <2>1, <2>2, <2>3
<1>3. CASE ~ReadError
  <2>1. workflow = "save" \/ result = "ok"
    BY <1>3 DEF LoginNext, Expire, Handler, Accept, Reject, Post, Parse,
       redirectToDashboard, Cancel, Service, CloseListener, Shutdown, Main, Serve,
       ReadUsername, ReadToken, saveUser, GiveUp, command, loginVars
  <2> QED
    BY <1>1, <2>1
<1> QED
  BY <1>2, <1>3

\* A login that was not timed out ends well only if some request brought the
\* token of a user and was let through, in every interleaving of the handlers.
THEOREM LoginCorrect == LoginSpec => []LoginNeedsUser
<1>1. LoginInit => LoginTypeOK /\ UserInv
  BY LoginInitType, TokensAssumption DEF LoginInit, UserInv, TokenIsPosted, VerdictNeedsUser,
     Order, SavedNeedsUser
<1>2. LoginTypeOK /\ UserInv /\ [LoginNext]_loginVars => LoginTypeOK' /\ UserInv'
  BY LoginNextType, TokenInvariant, VerdictInvariant, OrderInvariant, SavedInvariant
  DEF UserInv
<1>3. UserInv => LoginNeedsUser
  BY DEF UserInv, SavedNeedsUser, LoginNeedsUser, UserPosted
<1> QED
  BY <1>1, <1>2, <1>3, PTL DEF LoginSpec

-----------------------------------------------------------------------------
(* The browser and the terminal agree when one request came. *)

\* Who is alone was alone, and once the command goes on its request is over.
LEMMA AloneBefore ==
    ASSUME LoginTypeOK, Order, [LoginNext]_loginVars, NEW r \in Requests, Alone(r)',
           ctx' # "expired"
    PROVE  /\ Alone(r) /\ ctx # "expired"
           /\ workflow # "serve" => ctx = "canceled" /\ req[r] = "over"
           /\ \A o \in Requests : Handler(o) => o = r
<1>1. ctx # "expired"
  BY DEF LoginNext, Expire, Handler, Accept, Reject, Post, Parse, redirectToDashboard,
     Cancel, Service, CloseListener, Shutdown, Main, Serve, ReadUsername, ReadToken,
     ReadError, saveUser, loginVars
<1>2. \A o \in Requests : req[o] # "off" => req'[o] # "off"
  BY DEF LoginTypeOK, LoginNext, Expire, Handler, Accept, Reject, Post, Parse,
     redirectToDashboard, Cancel, At, Service, CloseListener, Shutdown, Main, Serve,
     ReadUsername, ReadToken, ReadError, saveUser, browser, loginVars
<1>3. \A o \in Requests : Handler(o) => req'[o] # "off"
  BY DEF LoginTypeOK, Handler, Accept, Reject, Post, Parse, redirectToDashboard, Cancel, At
<1>4. Alone(r)
  BY <1>2 DEF Alone
<1>5. workflow # "serve" => ctx = "canceled" /\ req[r] = "over"
  BY <1>1, <1>4 DEF LoginTypeOK, Order, Alone
<1> QED
  BY <1>1, <1>3, <1>4, <1>5 DEF Alone

LEMMA AloneInvariant ==
    ASSUME LoginTypeOK, TokenIsPosted, Order, AloneInv, [LoginNext]_loginVars
    PROVE  AloneInv'
<1> SUFFICES ASSUME NEW r \in Requests, Alone(r)', ctx' # "expired"
             PROVE  Faithful(r)' /\ ReadFrom(r)'
  BY DEF AloneInv
<1>1. /\ Faithful(r) /\ ReadFrom(r)
      /\ workflow # "serve" => ctx = "canceled" /\ req[r] = "over"
      /\ \A o \in Requests : Handler(o) => o = r
  BY AloneBefore DEF AloneInv
<1>2. CASE Handler(r)
  <2>1. workflow' = "serve"
    BY <1>1, <1>2 DEF Handler, Accept, Reject, Post, Parse, redirectToDashboard,
       Cancel, At, command
  <2>2. ReadFrom(r)'
    BY <2>1 DEF ReadFrom
  <2>3. CASE Accept(r)
    BY <2>2, <2>3 DEF LoginTypeOK, Faithful, Accept, At
  <2>4. CASE Reject(r)
    BY <2>2, <2>4 DEF LoginTypeOK, Faithful, Reject, At
  <2>5. CASE Post(r)
    BY <2>2, <2>5 DEF LoginTypeOK, Faithful, Post, At
  <2>6. CASE Parse(r)
    BY <1>1, <2>2, <2>6 DEF LoginTypeOK, TokenIsPosted, Tokens, Faithful, Parse, At
  <2>7. CASE redirectToDashboard(r)
    BY <1>1, <2>2, <2>7 DEF LoginTypeOK, Faithful, redirectToDashboard, At, fields
  <2>8. CASE Cancel(r)
    BY <1>1, <2>2, <2>8 DEF LoginTypeOK, Faithful, Cancel, At, fields
  <2> QED
    BY <1>2, <2>2, <2>3, <2>4, <2>5, <2>6, <2>7, <2>8 DEF Handler
<1>3. CASE Main
  <2>1. Faithful(r)'
    BY <1>1, <1>3 DEF Faithful, Main, Serve, ReadUsername, ReadToken, ReadError,
       saveUser, fields, browser
  <2>2. CASE Serve
    BY <1>1, <2>1, <2>2 DEF ReadFrom, Serve, GiveUp, fields
  <2>3. CASE ReadUsername \/ ReadToken
    BY <1>1, <2>1, <2>3 DEF ReadFrom, ReadUsername, ReadToken, fields
  <2>4. CASE ReadError
    BY <1>1, <2>1, <2>4 DEF ReadFrom, ReadError, GiveUp, fields
  <2>5. CASE saveUser
    <3>1. username = sends[r] /\ token = sends[r] /\ err = "none"
      BY <1>1, <2>5 DEF saveUser, Faithful, ReadFrom
    <3> QED
      BY <3>1, <2>1, <2>5 DEF ReadFrom, saveUser, GiveUp, fields, browser
  <2> QED
    BY <1>3, <2>2, <2>3, <2>4, <2>5 DEF Main
<1>4. CASE Expire
  BY <1>4 DEF Expire
<1>5. CASE Service
  <2>1. err' = err /\ jwt' = jwt /\ temporaryToken' = temporaryToken
    BY <1>5 DEF Service, CloseListener, Shutdown, fields
  <2> QED
    BY <1>1, <1>5, <2>1 DEF Faithful, ReadFrom, Service, CloseListener, Shutdown,
       browser, command
<1>6. CASE UNCHANGED loginVars
  BY <1>1, <1>6 DEF Faithful, ReadFrom, loginVars
<1> QED
  BY <1>1, <1>2, <1>3, <1>4, <1>5, <1>6 DEF LoginNext

\* With one request in time, the page of success is shown if and only if its
\* token was taken, and that token is the one that is saved.
THEOREM PageCorrect == LoginSpec => []PageIsTrue
<1>1. LoginInit => LoginTypeOK /\ UserInv /\ AloneInv
  BY LoginInitType, TokensAssumption DEF LoginInit, UserInv, TokenIsPosted, VerdictNeedsUser,
     Order, SavedNeedsUser, AloneInv, Faithful, ReadFrom
<1>2. LoginTypeOK /\ UserInv /\ AloneInv /\ [LoginNext]_loginVars
      => LoginTypeOK' /\ UserInv' /\ AloneInv'
  BY LoginNextType, TokenInvariant, VerdictInvariant, OrderInvariant, SavedInvariant,
     AloneInvariant DEF UserInv
<1>3. LoginTypeOK /\ UserInv /\ AloneInv => PageIsTrue
  <2> SUFFICES ASSUME LoginTypeOK, Order, AloneInv, NEW r \in Requests, workflow = "done",
                      ctx = "canceled", Alone(r)
               PROVE  /\ page[r] = "success" <=> result \in {"ok", "unsaved"}
                      /\ result = "ok" => saved = <<sends[r], sends[r]>>
    BY DEF PageIsTrue, UserInv, Alone
  <2>1. Faithful(r) /\ ReadFrom(r) /\ req[r] = "over"
    BY DEF AloneInv, Order, Alone
  <2> QED
    BY <2>1 DEF Faithful, ReadFrom
<1> QED
  BY <1>1, <1>2, <1>3, PTL DEF LoginSpec
================================================================================
