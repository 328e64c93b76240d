------------------------------ MODULE LogWatch ------------------------------
(***************************************************************************)
(* `lcp log`: the lines of the log of a project once, or with --watch (the *)
(* default) again every five seconds from a cursor of two fields of the    *)
(* filter: AfterInsertID, the last line printed, and Since, a nanosecond   *)
(* past its timestamp.  Some lines are filtered out by the server and some *)
(* by the client.                                                          *)
(*                                                                         *)
(* The server keeps the lines in the order of their insertion; a line is   *)
(* named by its place.  Its timestamp is of the instance that wrote it: it *)
(* may be older than the one of the line before, the same, or 0 (none).    *)
(* An answer is the set of its lines, which come in the server's order.    *)
(***************************************************************************)
EXTENDS Naturals, Sequences, FiniteSets

CONSTANTS MaxLines,  \* bound: lines of the log
          MaxTime,   \* bound: timestamps
          Limit,     \* lines of an answer, 9999 in the code
          MaxFail    \* bound: requests that fail in a row

ASSUME LogAssumption ==
    MaxLines \in Nat /\ MaxTime \in Nat \ {0} /\ Limit \in Nat \ {0} /\ MaxFail \in Nat

Bad  == MaxTime + 1     \* no time at all
Line == [ts : 0 .. MaxTime, service : BOOLEAN, container : BOOLEAN]

VARIABLES
    log,            \* server: the lines; whether each is of the services and instance asked
    services,       \* the number of services asked: none, one, many
    instance,       \* whether an instance is asked
    since,          \* --since: its time, 0 when not given, or Bad
    watch,          \* --watch
    Since, AfterInsertID,  \* the cursor, of Filter; 0 for an empty string
    ctx,            \* live, canceled
    pc,             \* where the command is
    failed,         \* requests that failed in a row
    printed,        \* the answers that were printed
    ret             \* how the command ended

flags  == <<services, instance, since, watch>>
cursor == <<Since, AfterInsertID>>
vars   == <<log, flags, cursor, ctx, pc, failed, printed, ret>>

Init ==
    /\ log = <<>>
    /\ services \in {"none", "one", "many"}
    /\ instance \in BOOLEAN
    /\ since \in 0 .. Bad
    /\ watch \in BOOLEAN
    /\ Since = 0
    /\ AfterInsertID = 0
    /\ ctx = "live"
    /\ pc = "logRun"
    /\ failed = 0
    /\ printed = <<>>
    /\ ret = "none"

\* A line is inserted; what no flag asks about does not matter.
Append1(l) ==
    /\ Len(log) < MaxLines
    /\ pc # "done"
    /\ services = "none" => l.service
    /\ ~instance => l.container
    /\ log' = Append(log, l)
    /\ UNCHANGED <<flags, cursor, ctx, pc, failed, printed, ret>>

-----------------------------------------------------------------------------
(* GetList. *)

isService(l)   == services = "none" \/ l.service
isContainer(l) == ~instance \/ l.container
Mine(l)        == isService(l) /\ isContainer(l)

\* The first lines of a set, as many as an answer has.
Take(S) == {i \in S : Cardinality({j \in S : j <= i}) <= Limit}

\* The lines that the server looks for: it gets serviceId only of a single service.
Matching ==
    {i \in 1 .. Len(log) :
        /\ i > AfterInsertID
        /\ log[i].ts >= Since
        /\ services = "one" => log[i].service}

\* What the server answers.
Found == Take(Matching)

\* The client looks at the rest, unless the server did it all.
filter(list) == IF ~instance /\ services # "many" THEN list ELSE {i \in list : Mine(log[i])}

GetList == filter(Found)

-----------------------------------------------------------------------------
(* The watcher. *)

printList(list) == printed' = Append(printed, list)

\* list[len(list)-1]
LastOf(list) == CHOOSE i \in list : \A j \in list : j <= i

\* Mutant: a line without a timestamp is an error before the cursor moves.
NextChecksFirst(list) ==
    LET last == LastOf(list)
    IN  IF log[last].ts = 0 THEN UNCHANGED cursor
                            ELSE Since' = log[last].ts + 1 /\ AfterInsertID' = last

\* The line goes first; without a timestamp, there is an error and Since stays.
prepareNext(list) ==
    LET last == LastOf(list)
    IN  /\ AfterInsertID' = last
        /\ Since' = IF log[last].ts = 0 THEN Since ELSE log[last].ts + 1

\* Mutant: a request that failed ends the loop of the watch.
PoolStops ==
    /\ pc = "pool"
    /\ \/ /\ failed' = 0
          /\ pc' = "select"
          /\ IF GetList = {} THEN UNCHANGED <<cursor, printed>>
                               ELSE printList(GetList) /\ prepareNext(GetList)
       \/ /\ failed < MaxFail \/ ctx = "canceled"
          /\ failed' = failed + 1
          /\ pc' = "stopped"
          /\ UNCHANGED <<cursor, printed>>
    /\ UNCHANGED <<log, flags, ctx, ret>>

\* An answer, or an error, which is only printed: it leaves the cursor, and so
\* does an answer of no line that passes the filter.
pool ==
    /\ pc = "pool"
    /\ pc' = "select"
    /\ \/ /\ failed' = 0
          /\ IF GetList = {} THEN UNCHANGED <<cursor, printed>>
                               ELSE printList(GetList) /\ prepareNext(GetList)
       \/ /\ failed < MaxFail \/ ctx = "canceled"
          /\ failed' = IF ctx = "live" THEN failed + 1 ELSE failed
          /\ UNCHANGED <<cursor, printed>>
    /\ UNCHANGED <<log, flags, ctx, ret>>

Tick ==
    /\ pc = "select"
    /\ pc' = "pool"
    /\ UNCHANGED <<log, flags, cursor, ctx, failed, printed, ret>>

End(from, r) ==
    /\ pc = from
    /\ pc' = "done"
    /\ ret' = r
    /\ UNCHANGED <<log, flags, ctx, failed>>

WatchEnds == ctx = "canceled" /\ End("select", "ok") /\ UNCHANGED <<cursor, printed>>

-----------------------------------------------------------------------------
(* The command. *)

getSinceFails == since = Bad /\ End("logRun", "error") /\ UNCHANGED <<cursor, printed>>

\* Mutant: the lines of the very time of --since are left out.
SinceIsExclusive ==
    /\ pc = "logRun"
    /\ since # Bad
    /\ Since' = IF since = 0 THEN 0 ELSE since + 1
    /\ pc' = IF watch THEN "pool" ELSE "List"
    /\ UNCHANGED <<log, flags, AfterInsertID, ctx, failed, printed, ret>>

logRun ==
    /\ pc = "logRun"
    /\ since # Bad
    /\ Since' = since
    /\ pc' = IF watch THEN "pool" ELSE "List"
    /\ UNCHANGED <<log, flags, AfterInsertID, ctx, failed, printed, ret>>

\* Without --watch.
List ==
    \/ End("List", "ok") /\ printList(GetList) /\ UNCHANGED cursor
    \/ End("List", "error") /\ UNCHANGED <<cursor, printed>>

\* A signal cancels the context of a watch, and kills anything else.
Signal ==
    /\ pc # "done"
    /\ ctx = "live"
    /\ IF watch /\ pc # "logRun"
         THEN ctx' = "canceled" /\ UNCHANGED <<pc, ret>>
         ELSE pc' = "done" /\ ret' = "killed" /\ UNCHANGED ctx
    /\ UNCHANGED <<log, flags, cursor, failed, printed>>

Command == getSinceFails \/ logRun \/ List \/ pool \/ Tick

Next == (\E l \in Line : Append1(l)) \/ Signal \/ Command \/ WatchEnds

Spec == Init /\ [][Next]_vars

\* The program runs; select takes a done context in the end.
FairSpec == Spec /\ WF_vars(Command) /\ SF_vars(WatchEnds)

-----------------------------------------------------------------------------
TypeOK ==
    /\ log \in Seq(Line)
    /\ services \in {"none", "one", "many"}
    /\ instance \in BOOLEAN
    /\ since \in 0 .. Bad
    /\ watch \in BOOLEAN
    /\ Since \in Nat
    /\ AfterInsertID \in Nat
    /\ ctx \in {"live", "canceled"}
    /\ pc \in {"logRun", "List", "pool", "select", "done"}
    /\ failed \in Nat
    /\ printed \in Seq(SUBSET Nat)
    /\ ret \in {"none", "ok", "error", "killed"}

Shown == UNION {printed[n] : n \in DOMAIN printed}

\* The terminal shows lines that were asked for, in their order and each once,
\* whatever their timestamps are and whoever filtered them.
LinesAreOrdered ==
    /\ \A m, n \in DOMAIN printed : m < n => \A i \in printed[m], j \in printed[n] : i < j
    /\ \A i \in Shown : Mine(log[i])

\* Older than what was asked for, or not newer than a line before it: one that
\* comes later with the timestamp of the last one printed is among them.
Late(i) == \/ log[i].ts < since
           \/ \E k \in Shown : k < i /\ log[k].ts >= log[i].ts

\* No line is skipped: one that the terminal is past is on it, or late.
NoLineIsSkipped ==
    \A i \in 1 .. AfterInsertID : Mine(log[i]) => i \in Shown \/ Late(i)

\* The answer is full of lines that the client filters out: the cursor stays, and
\* every answer after it is the same.
Starved == Cardinality(Found) = Limit /\ GetList = {}

\* "Watch / follow log output": while the watch goes on, a line that is asked for
\* is shown in the end, unless it is late or the answers are full of others; and
\* the watch ends on a signal.
LinesAreFollowed ==
    /\ \A i \in 1 .. MaxLines :
        (watch /\ Len(log) >= i) ~>
            \/ i \in DOMAIN log /\ (Mine(log[i]) => i \in Shown \/ Late(i))
            \/ Starved \/ ctx = "canceled" \/ pc = "done"
    /\ (ctx = "canceled") ~> (pc = "done")
=============================================================================
