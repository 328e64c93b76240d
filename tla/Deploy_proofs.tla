----------------------------- MODULE Deploy_proofs -----------------------------
(***************************************************************************)
(* Theorems about a deployment, for any set of services, any life cycle of *)
(* a service that FollowsAssumption allows, and any number of retries.     *)
(*                                                                         *)
(* The first part is about the watch alone (DeployFeedback).  The second   *)
(* is about the whole command (Deploy): what it returns is true of the     *)
(* server, it leaves nothing behind, and it implements DeployOutcome.      *)
(* What is shown of the watch is reused there: every step of the command   *)
(* is a step of the watch, a stutter of it, or the end of a failed upload, *)
(* which only stops the spinners.                                          *)
(***************************************************************************)
EXTENDS Deploy, WellFoundedInduction, TLAPS

-----------------------------------------------------------------------------
(* sync: the activity that stays current. *)

\* A set of positions of a finite feed has a last one.
LEMMA LastPosition ==
    ASSUME NEW n \in Nat, NEW S \in SUBSET (1 .. n), S # {}
    PROVE  \E i \in S : \A j \in S : j =< i
<1> DEFINE T == {n - i : i \in S}
           R == {ss \in Nat \X Nat : ss[1] < ss[2]}
<1>1. IsWellFoundedOn(R, Nat)
  BY NatLessThanWellFounded DEF OpToRel
<1>2. T \subseteq Nat /\ T # {}
  <2>1. \A i \in S : n - i \in Nat
    OBVIOUS
  <2>2. PICK i \in S : TRUE
    OBVIOUS
  <2>3. n - i \in T
    OBVIOUS
  <2> QED
    BY <2>1, <2>3
<1>3. PICK m \in T : \A k \in T : <<k, m>> \notin R
  <2> HIDE DEF T, R
  <2> QED
    BY <1>1, <1>2, WFMin
<1>4. PICK i \in S : m = n - i
  BY <1>3
<1>5. \A j \in S : ~(n - j < m)
  <2>1. SUFFICES ASSUME NEW j \in S
                 PROVE  ~(n - j < m)
    OBVIOUS
  <2>2. n - j \in T
    OBVIOUS
  <2>3. <<n - j, m>> \notin R
    BY <1>3, <2>2
  <2> QED
    BY <1>2, <1>3, <2>2, <2>3
<1> QED
  BY <1>4, <1>5

\* When a poll brings something new, an activity of it becomes current.
LEMMA SyncedIsFresh ==
    ASSUME TypeOK, NEW s \in Services, Fresh(s) # {}
    PROVE  \E i \in Fresh(s) : Synced(s) = feed[s][i]
<1> DEFINE Last(i) == i \in Fresh(s) /\ \A j \in Fresh(s) : j =< i
<1>1. feed[s] \in Seq(ActivityTypes)
  BY DEF TypeOK
<1>2. Fresh(s) \in SUBSET (1 .. Len(feed[s])) /\ Len(feed[s]) \in Nat
  BY <1>1 DEF Fresh
<1>3. \E i \in Fresh(s) : \A j \in Fresh(s) : j =< i
  BY <1>2, LastPosition
<1>4. PICK i : i = CHOOSE k \in Fresh(s) : \A j \in Fresh(s) : j =< k
  OBVIOUS
<1>5. i \in Fresh(s)
  BY <1>3, <1>4
<1> QED
  BY <1>4, <1>5 DEF Synced

\* A fresh activity is in the feed, valid for its service, and of a type that
\* was not visited.
LEMMA FreshIsEmitted ==
    ASSUME TypeOK, NEW s \in Services, NEW i \in Fresh(s)
    PROVE  /\ feed[s][i] \in Emitted(s)
           /\ feed[s][i] \in ActivityTypes
           /\ isValidState(s, feed[s][i])
           /\ feed[s][i] \notin visited[s]
<1>1. feed[s] \in Seq(ActivityTypes)
  BY DEF TypeOK
<1> QED
  BY <1>1 DEF Fresh, Emitted

LEMMA SyncedType ==
    ASSUME TypeOK, NEW s \in Services
    PROVE  Synced(s) \in ActivityTypes \cup {""}
<1>1. CASE Fresh(s) = {}
  BY <1>1 DEF Synced, TypeOK
<1>2. CASE Fresh(s) # {}
  BY <1>2, SyncedIsFresh, FreshIsEmitted
<1> QED
  BY <1>1, <1>2

-----------------------------------------------------------------------------
(* Type correctness. *)

LEMMA MembershipIsBoolean ==
    ASSUME NEW x, NEW S
    PROVE  (x \in S) \in BOOLEAN
<1>1. CASE x \in S
  <2>1. (x \in S) = TRUE
    BY <1>1
  <2> QED
    BY <2>1, Zenon
<1>2. CASE x \notin S
  <2>1. (x \in S) = FALSE
    BY <1>2
  <2> QED
    BY <2>1, Zenon
<1> QED
  BY <1>1, <1>2

\* Return assigns what it assigns, in the terms of the type invariant.
LEMMA ReturnType ==
    ASSUME NEW v, NEW hook \in BOOLEAN, Return(v, hook)
    PROVE  /\ pc' = "done" /\ verdict' = v /\ retries' = 0
           /\ openLogs' = hook /\ openLogs' \in BOOLEAN
           /\ playing' \in [Services -> BOOLEAN]
           /\ \A s \in Services : playing'[s] = FALSE
BY Zenon DEF Return

\* A poll is sent only when there is a retry left, or none is counted anymore.
RetriesOK == /\ ~signaled => retries =< MaxRetries
             /\ pc = "poll" => retries =< MaxRetries

TypeInv == TypeOK /\ RetriesOK

LEMMA InitType == Init => TypeInv
<1> SUFFICES ASSUME Init PROVE TypeInv
  OBVIOUS
<1>1. <<>> \in Seq(ActivityTypes)
  OBVIOUS
<1>2. playing \in [Services -> BOOLEAN]
  BY Zenon DEF Init
<1>3. signaled \in BOOLEAN /\ openLogs \in BOOLEAN
  BY Zenon DEF Init
<1>4. retries \in 0 .. (MaxRetries + 1) /\ RetriesOK
  <2>1. retries = 0
    BY DEF Init
  <2> QED
    BY <2>1, MaxRetriesAssumption DEF RetriesOK
<1>5. prints \in [Services -> [ActivityTypes -> Nat]]
  BY DEF Init
<1> QED
  BY <1>1, <1>2, <1>3, <1>4, <1>5 DEF Init, TypeInv, TypeOK

\* sync keeps the types of what it assigns.
LEMMA SyncType ==
    ASSUME TypeOK, sync
    PROVE  /\ current' \in [Services -> ActivityTypes \cup {""}]
           /\ visited' \in [Services -> SUBSET ActivityTypes]
           /\ prints' \in [Services -> [ActivityTypes -> Nat]]
<1>1. current' \in [Services -> ActivityTypes \cup {""}]
  BY SyncedType DEF sync
<1>2. visited' \in [Services -> SUBSET ActivityTypes]
  <2>1. \A s \in Services : {feed[s][i] : i \in Fresh(s)} \subseteq ActivityTypes
    BY FreshIsEmitted
  <2>2. \A s \in Services : visited[s] \subseteq ActivityTypes
    BY DEF TypeOK
  <2> QED
    BY <2>1, <2>2 DEF sync
<1>3. prints' \in [Services -> [ActivityTypes -> Nat]]
  <2>1. \A s \in Services, t \in ActivityTypes :
          prints[s][t] \in Nat /\ prints[s][t] + 1 \in Nat
    <3> SUFFICES ASSUME NEW s \in Services, NEW t \in ActivityTypes
                 PROVE  prints[s][t] \in Nat
      OBVIOUS
    <3>1. prints[s] \in [ActivityTypes -> Nat]
      BY DEF TypeOK
    <3> QED
      BY <3>1
  <2> QED
    BY <2>1 DEF sync
<1> QED
  BY <1>1, <1>2, <1>3

\* The last element of a sequence of activities, and what may follow it.
LEMMA LastType ==
    ASSUME NEW q \in Seq(ActivityTypes)
    PROVE  /\ q = <<>> => LastOf(q) = ""
           /\ q # <<>> => /\ Len(q) \in DOMAIN q
                          /\ LastOf(q) = q[Len(q)]
           /\ LastOf(q) \in ActivityTypes \cup {""}
<1>1. CASE q = <<>>
  BY <1>1 DEF LastOf
<1>2. CASE q # <<>>
  <2>1. Len(q) \in DOMAIN q
    BY <1>2
  <2>2. q[Len(q)] \in ActivityTypes
    BY <2>1
  <2> QED
    BY <1>2, <2>1, <2>2 DEF LastOf
<1> QED
  BY <1>1, <1>2

LEMMA FollowsType ==
    ASSUME NEW s, NEW x \in ActivityTypes \cup {""}
    PROVE  Follows[(s \in skips)][x] \subseteq ActivityTypes
<1>1. \A b \in BOOLEAN : Follows[b][x] \subseteq ActivityTypes
  BY FollowsAssumption
<1>2. (s \in skips) \in BOOLEAN
  BY MembershipIsBoolean
<1> QED
  BY <1>1, <1>2, Zenon

LEMMA NextType == TypeInv /\ [Next]_vars => TypeInv'
<1> SUFFICES ASSUME TypeInv, [Next]_vars PROVE TypeInv'
  OBVIOUS
<1> USE DEF TypeInv
<1>0. /\ retries \in 0 .. (MaxRetries + 1) /\ RetriesOK
      /\ 0 \in 0 .. (MaxRetries + 1) /\ 0 =< MaxRetries
  <2>1. retries \in 0 .. (MaxRetries + 1) /\ RetriesOK
    BY DEF TypeOK
  <2> QED
    BY <2>1, MaxRetriesAssumption
<1>1. ASSUME NEW s \in Services, Emit(s)
      PROVE  TypeInv'
  <2>1. PICK t \in Follows[(s \in skips)][LastOf(feed[s])] :
          feed' = [feed EXCEPT ![s] = Append(@, t)]
    BY <1>1 DEF Emit
  <2>2. feed[s] \in Seq(ActivityTypes)
    BY DEF TypeOK
  <2>3. LastOf(feed[s]) \in ActivityTypes \cup {""}
    BY <2>2, LastType
  <2>4. t \in ActivityTypes
    BY <2>3, FollowsType
  <2>5. feed' \in [Services -> Seq(ActivityTypes)]
    <3>1. Append(feed[s], t) \in Seq(ActivityTypes)
      BY <2>2, <2>4
    <3> QED
      BY <2>1, <3>1 DEF TypeOK
  <2> QED
    BY <1>1, <2>5 DEF Emit, TypeOK, RetriesOK, params, builds, lines
<1>2. CASE Signal
  BY <1>2 DEF Signal, TypeOK, RetriesOK, server, params, builds, lines
<1>3. CASE markBuildOnlyServices
  BY <1>3 DEF markBuildOnlyServices, TypeOK, RetriesOK, server, params, builds, lines
<1>4. CASE SendPoll
  BY <1>4 DEF SendPoll, TypeOK, RetriesOK, server, params, builds, lines
<1>5. CASE Interrupted
  <2>1. Return("interrupted", FALSE)
    BY <1>5 DEF Interrupted
  <2>2. UNCHANGED <<server, params, builds, current, visited, prints,
                    signaled>>
    BY <1>5 DEF Interrupted
  <2> QED
    BY <1>0, <2>1, <2>2, ReturnType DEF TypeOK, RetriesOK, server, params, builds
<1>6. CASE PollPending
  <2>1. playing' \in [Services -> BOOLEAN]
    <3>1. ASSUME NEW s \in Services
          PROVE  (IF Fresh(s) = {} THEN playing[s]
                  ELSE Synced(s) \in PlayedTypes(s)) \in BOOLEAN
      <4>1. CASE Fresh(s) = {}
        BY <4>1, Zenon DEF TypeOK
      <4>2. CASE Fresh(s) # {}
        BY <4>2, MembershipIsBoolean, Zenon
      <4> QED
        BY <4>1, <4>2
    <3> QED
      BY <1>6, <3>1, Zenon DEF PollPending
  <2>2. sync /\ TypeOK
    BY <1>6 DEF PollPending
  <2> QED
    BY <1>0, <1>6, <2>1, <2>2, SyncType
       DEF PollPending, TypeOK, RetriesOK, server, params, builds
<1>7. CASE PollFinal
  <2>1. PICK v \in {"succeeded", "failed"}, hook \in BOOLEAN : Return(v, hook)
    <3>1. (\E s \in Services : Synced(s) \in {"BuildFailed", "DeployFailed"})
            \in BOOLEAN
      BY Zenon
    <3> QED
      BY <1>7, <3>1, Zenon DEF PollFinal
  <2>2. sync /\ UNCHANGED <<server, params, builds, signaled>>
    BY <1>7 DEF PollFinal
  <2> QED
    BY <1>0, <2>1, <2>2, ReturnType, SyncType DEF TypeOK, RetriesOK, server, params, builds
<1>8. CASE PollError
  <2>1. retries' \in 0 .. (MaxRetries + 1) /\ RetriesOK'
    BY <1>0, <1>8, MaxRetriesAssumption DEF PollError, RetriesOK
  <2> QED
    BY <1>8, <2>1 DEF PollError, TypeOK, server, params, builds, lines
<1>9. CASE PollNotFound
  <2>1. Return("notfound", FALSE)
    BY <1>9 DEF PollNotFound
  <2>2. UNCHANGED <<server, params, builds, current, visited, prints,
                    signaled>>
    BY <1>9 DEF PollNotFound
  <2> QED
    BY <1>0, <2>1, <2>2, ReturnType DEF TypeOK, RetriesOK, server, params, builds
<1>10. CASE UNCHANGED vars
  BY <1>10 DEF vars, TypeOK, RetriesOK
<1> QED
  BY <1>1, <1>2, <1>3, <1>4, <1>5, <1>6, <1>7, <1>8, <1>9, <1>10
     DEF Next, WatchNext

\* In every state of the watch the variables have their types: activities are
\* those of the protocol and retries never exceed their bound by more than the
\* poll a signal interrupts.
THEOREM TypeCorrect == Spec => []TypeOK
<1>1. Init => TypeInv
  BY InitType
<1>2. TypeInv /\ [Next]_vars => TypeInv'
  BY NextType
<1>3. TypeInv => TypeOK
  BY DEF TypeInv
<1> QED
  BY <1>1, <1>2, <1>3, PTL DEF Spec

-----------------------------------------------------------------------------
(* The server: how a feed ends tells what it holds. *)

\* A failure is followed by failures only, a success by nothing.
FeedOK ==
    \A s \in Services :
        /\ Emitted(s) \cap FailureTypes # {} => LastOf(feed[s]) \in FailureTypes
        /\ "DeploySucceeded" \in Emitted(s) => LastOf(feed[s]) = "DeploySucceeded"
        /\ s \in skips /\ "BuildSucceeded" \in Emitted(s) =>
              LastOf(feed[s]) = "BuildSucceeded"

\* The watch: it processed only what was emitted, and takes for only built
\* services that are.
WatchOK ==
    /\ onlyBuild => skips = Services
    /\ onlyBuildServices \subseteq skips
    /\ \A s \in Services : current[s] \in Emitted(s) \cup {""}
    /\ pc # "done" => verdict = "none" /\ ~openLogs

\* An activity is appended to a feed.
LEMMA EmitStep ==
    ASSUME TypeOK, NEW s \in Services, Emit(s)
    PROVE  \E t \in ActivityTypes :
              /\ t \in Follows[(s \in skips)][LastOf(feed[s])]
              /\ Emitted(s)' = Emitted(s) \cup {t}
              /\ LastOf(feed[s])' = t
              /\ \A o \in Services \ {s} : feed'[o] = feed[o]
<1>1. PICK t \in Follows[(s \in skips)][LastOf(feed[s])] :
        feed' = [feed EXCEPT ![s] = Append(@, t)]
  BY DEF Emit
<1>2. feed[s] \in Seq(ActivityTypes)
  BY DEF TypeOK
<1>3. t \in ActivityTypes
  BY <1>2, LastType, FollowsType
<1>4. feed'[s] = Append(feed[s], t)
  BY <1>1 DEF TypeOK
<1>5. LastOf(feed[s])' = t
  <2>1. \A q \in Seq(ActivityTypes) :
          /\ Append(q, t) # <<>>
          /\ Append(q, t)[Len(Append(q, t))] = t
    BY <1>3
  <2> QED
    BY <1>2, <1>4, <2>1 DEF LastOf
<1>6. Emitted(s)' = Emitted(s) \cup {t}
  BY <1>2, <1>3, <1>4 DEF Emitted
<1>7. \A o \in Services \ {s} : feed'[o] = feed[o]
  BY <1>1 DEF TypeOK
<1> QED
  BY <1>3, <1>5, <1>6, <1>7

LEMMA FeedInvariant == TypeOK /\ FeedOK /\ [Next]_vars => FeedOK'
<1> SUFFICES ASSUME TypeOK, FeedOK, [Next]_vars PROVE FeedOK'
  OBVIOUS
<1>1. ASSUME NEW s \in Services, Emit(s)
      PROVE  FeedOK'
  <2>1. PICK t \in ActivityTypes :
          /\ t \in Follows[(s \in skips)][LastOf(feed[s])]
          /\ Emitted(s)' = Emitted(s) \cup {t}
          /\ LastOf(feed[s])' = t
          /\ \A o \in Services \ {s} : feed'[o] = feed[o]
    BY <1>1, EmitStep
  <2>2. skips' = skips
    BY <1>1 DEF Emit
  <2>3. ASSUME NEW o \in Services \ {s}
        PROVE  Emitted(o)' = Emitted(o) /\ LastOf(feed[o])' = LastOf(feed[o])
    BY <2>1, <2>3 DEF Emitted
  <2>4. Emitted(s) \cap FailureTypes # {} => t \in FailureTypes
    <3> SUFFICES ASSUME LastOf(feed[s]) \in FailureTypes
                 PROVE  t \in FailureTypes
      BY DEF FeedOK
    <3>1. \A b \in BOOLEAN : Follows[b][LastOf(feed[s])] \subseteq FailureTypes
      BY FollowsAssumption
    <3>2. (s \in skips) \in BOOLEAN
      BY MembershipIsBoolean
    <3> QED
      BY <2>1, <3>1, <3>2, Zenon
  <2>5. "DeploySucceeded" \notin Emitted(s)
    <3> SUFFICES ASSUME LastOf(feed[s]) = "DeploySucceeded"
                 PROVE  FALSE
      BY DEF FeedOK
    <3>1. \A b \in BOOLEAN : Follows[b][LastOf(feed[s])] = {}
      BY FollowsAssumption
    <3>2. (s \in skips) \in BOOLEAN
      BY MembershipIsBoolean
    <3> QED
      BY <2>1, <3>1, <3>2, Zenon
  <2>6. s \in skips => "BuildSucceeded" \notin Emitted(s)
    <3> SUFFICES ASSUME s \in skips, LastOf(feed[s]) = "BuildSucceeded"
                 PROVE  FALSE
      BY DEF FeedOK
    <3>1. Follows[TRUE][LastOf(feed[s])] = {}
      BY FollowsAssumption
    <3>2. (s \in skips) = TRUE
      OBVIOUS
    <3> QED
      BY <2>1, <3>1, <3>2, Zenon
  <2>7. ASSUME NEW o \in Services
        PROVE  /\ Emitted(o)' \cap FailureTypes # {} =>
                     LastOf(feed[o])' \in FailureTypes
               /\ "DeploySucceeded" \in Emitted(o)' =>
                     LastOf(feed[o])' = "DeploySucceeded"
               /\ o \in skips /\ "BuildSucceeded" \in Emitted(o)' =>
                     LastOf(feed[o])' = "BuildSucceeded"
    <3>1. CASE o = s
      BY <2>1, <2>4, <2>5, <2>6, <3>1
    <3>2. CASE o # s
      BY <2>3, <3>2 DEF FeedOK
    <3> QED
      BY <3>1, <3>2
  <2> QED
    BY <2>2, <2>7 DEF FeedOK
<1>2. CASE UNCHANGED server
  BY <1>2 DEF FeedOK, Emitted, server
<1>3. Signal \/ WatchNext \/ UNCHANGED vars => UNCHANGED server
  BY DEF Signal, WatchNext, markBuildOnlyServices, SendPoll, Interrupted,
         PollPending, PollFinal, PollError, PollNotFound, server, vars
<1> QED
  BY <1>1, <1>2, <1>3 DEF Next

-----------------------------------------------------------------------------
(* The verdict: what the watch takes for final is settled on the server. *)

LEMMA SyncedIsEmitted ==
    ASSUME TypeOK, WatchOK, NEW s \in Services
    PROVE  Synced(s) \in Emitted(s) \cup {""}
<1>1. CASE Fresh(s) = {}
  BY <1>1 DEF Synced, WatchOK
<1>2. CASE Fresh(s) # {}
  BY <1>2, SyncedIsFresh, FreshIsEmitted
<1> QED
  BY <1>1, <1>2

\* A service that is final for the watch settled on the server, and the way
\* its last activity says.
LEMMA FinalIsSettled ==
    ASSUME TypeOK, FeedOK, WatchOK, NEW s \in Services,
           isFinalState(s, Synced(s))
    PROVE  /\ Synced(s) \in FailureTypes => Truth(s) = "failed"
           /\ Synced(s) \notin FailureTypes => Truth(s) = "succeeded"
<1>1. Synced(s) # ""
  BY DEF isFinalState, FailureTypes
<1>2. Synced(s) \in Emitted(s)
  BY <1>1, SyncedIsEmitted
<1>3. CASE Synced(s) \in FailureTypes
  BY <1>2, <1>3 DEF Truth
<1>4. CASE Synced(s) \notin FailureTypes
  <2>1. \/ Synced(s) = "DeploySucceeded"
        \/ Synced(s) = "BuildSucceeded" /\ s \in skips
    BY <1>4 DEF isFinalState, FailureTypes, skippedDeploy, WatchOK
  <2>2. /\ LastOf(feed[s]) = Synced(s)
        /\ LastOf(feed[s]) \notin FailureTypes
    BY <1>2, <1>4, <2>1 DEF FeedOK
  <2> QED
    BY <1>4, <2>1, <2>2 DEF Truth, FeedOK
<1> QED
  BY <1>3, <1>4

\* What became of a service is never taken back.
LEMMA TruthStep ==
    ASSUME TypeOK, FeedOK, NEW s \in Services, Emit(s)
    PROVE  /\ Truth(s) # "succeeded"
           /\ Truth(s) = "failed" => Truth(s)' = "failed"
           /\ \A o \in Services \ {s} : Truth(o)' = Truth(o)
           /\ \A o \in Services : Emitted(o) \subseteq Emitted(o)'
<1>1. PICK t \in ActivityTypes :
        /\ t \in Follows[(s \in skips)][LastOf(feed[s])]
        /\ Emitted(s)' = Emitted(s) \cup {t}
        /\ LastOf(feed[s])' = t
        /\ \A o \in Services \ {s} : feed'[o] = feed[o]
  BY EmitStep
<1>2. skips' = skips
  BY DEF Emit
<1>3. Truth(s) # "succeeded"
  <2>1. CASE LastOf(feed[s]) = "DeploySucceeded"
    <3>1. \A b \in BOOLEAN : Follows[b][LastOf(feed[s])] = {}
      BY <2>1, FollowsAssumption
    <3>2. (s \in skips) \in BOOLEAN
      BY MembershipIsBoolean
    <3> QED
      BY <1>1, <3>1, <3>2, Zenon
  <2>2. CASE s \in skips /\ LastOf(feed[s]) = "BuildSucceeded"
    <3>1. Follows[TRUE][LastOf(feed[s])] = {}
      BY <2>2, FollowsAssumption
    <3>2. (s \in skips) = TRUE
      BY <2>2
    <3> QED
      BY <1>1, <3>1, <3>2, Zenon
  <2> QED
    BY <2>1, <2>2 DEF Truth
<1>4. Truth(s) = "failed" => Truth(s)' = "failed"
  BY <1>1 DEF Truth
<1>5. ASSUME NEW o \in Services \ {s}
      PROVE  Emitted(o)' = Emitted(o) /\ Truth(o)' = Truth(o)
  BY <1>1, <1>2, <1>5 DEF Emitted, Truth
<1>6. \A o \in Services : Emitted(o) \subseteq Emitted(o)'
  BY <1>1, <1>5
<1> QED
  BY <1>3, <1>4, <1>5, <1>6

-----------------------------------------------------------------------------
(* The inductive invariant. *)

VerdictInv == TypeInv /\ FeedOK /\ WatchOK /\ SuccessIsTrue /\ FailureIsTrue

LEMMA InitVerdict == Init => VerdictInv
<1> SUFFICES ASSUME Init PROVE VerdictInv
  OBVIOUS
<1>1. TypeInv
  BY InitType
<1>2. \A s \in Services : Emitted(s) = {}
  <2>1. \A s \in Services : feed[s] = <<>>
    BY DEF Init
  <2>2. DOMAIN <<>> = {}
    OBVIOUS
  <2> QED
    BY <2>1, <2>2 DEF Emitted
<1>3. FeedOK
  BY <1>2 DEF FeedOK
<1>4. verdict = "none" /\ ~openLogs /\ pc = "mark"
  BY Zenon DEF Init
<1>5. WatchOK
  <2>1. \A s \in Services : current[s] = ""
    BY DEF Init
  <2>2. onlyBuildServices = {} /\ (onlyBuild => skips = Services)
    BY DEF Init
  <2> QED
    BY <1>4, <2>1, <2>2 DEF WatchOK
<1>6. SuccessIsTrue /\ FailureIsTrue
  BY <1>4 DEF SuccessIsTrue, FailureIsTrue
<1> QED
  BY <1>1, <1>3, <1>5, <1>6 DEF VerdictInv

\* A step that leaves the feeds alone leaves what became of the services alone.
LEMMA TruthKept ==
    ASSUME UNCHANGED server
    PROVE  \A s \in Services : Truth(s)' = Truth(s) /\ Emitted(s)' = Emitted(s)
BY DEF server, Truth, Emitted

LEMMA WatchInvariant == TypeInv /\ FeedOK /\ WatchOK /\ [Next]_vars => WatchOK'
<1> SUFFICES ASSUME TypeInv, FeedOK, WatchOK, [Next]_vars PROVE WatchOK'
  OBVIOUS
<1> USE DEF TypeInv
<1>1. ASSUME NEW s \in Services, Emit(s)
      PROVE  WatchOK'
  <2>1. \A o \in Services : Emitted(o) \subseteq Emitted(o)'
    BY <1>1, TruthStep
  <2> QED
    BY <1>1, <2>1 DEF Emit, WatchOK, params, builds, lines
<1>2. CASE Signal
  BY <1>2, TruthKept DEF Signal, WatchOK, params, builds, lines, server
<1>3. CASE markBuildOnlyServices
  BY <1>3, TruthKept DEF markBuildOnlyServices, WatchOK, params, builds, lines, server
<1>4. CASE SendPoll
  BY <1>4, TruthKept DEF SendPoll, WatchOK, params, builds, lines, server
<1>5. CASE Interrupted
  BY <1>5, TruthKept DEF Interrupted, Return, WatchOK, params, builds, server
<1>6. CASE PollPending
  <2>1. \A s \in Services : current'[s] \in Emitted(s) \cup {""}
    BY <1>6, SyncedIsEmitted DEF PollPending, sync
  <2> QED
    BY <1>6, <2>1, TruthKept DEF PollPending, WatchOK, params, builds, server
<1>7. CASE PollFinal
  <2>1. \A s \in Services : current'[s] \in Emitted(s) \cup {""}
    BY <1>7, SyncedIsEmitted DEF PollFinal, sync
  <2> QED
    BY <1>7, <2>1, TruthKept DEF PollFinal, Return, WatchOK, params, builds, server
<1>8. CASE PollError
  BY <1>8, TruthKept DEF PollError, WatchOK, params, builds, lines, server
<1>9. CASE PollNotFound
  BY <1>9, TruthKept DEF PollNotFound, Return, WatchOK, params, builds, server
<1>10. CASE UNCHANGED vars
  BY <1>10, TruthKept DEF vars, WatchOK, server
<1> QED
  BY <1>1, <1>2, <1>3, <1>4, <1>5, <1>6, <1>7, <1>8, <1>9, <1>10
     DEF Next, WatchNext

LEMMA NextVerdict == VerdictInv /\ [Next]_vars => VerdictInv'
<1> SUFFICES ASSUME VerdictInv, [Next]_vars PROVE VerdictInv'
  OBVIOUS
<1>1. TypeInv' /\ FeedOK' /\ WatchOK'
  BY NextType, FeedInvariant, WatchInvariant DEF VerdictInv, TypeInv
<1>2. ASSUME NEW s \in Services, Emit(s)
      PROVE  SuccessIsTrue' /\ FailureIsTrue'
  <2>1. TypeOK /\ FeedOK
    BY DEF VerdictInv, TypeInv
  <2>2. /\ Truth(s) # "succeeded"
        /\ Truth(s) = "failed" => Truth(s)' = "failed"
        /\ \A o \in Services \ {s} : Truth(o)' = Truth(o)
        /\ \A o \in Services : Emitted(o) \subseteq Emitted(o)'
    BY <1>2, <2>1, TruthStep
  <2>3. verdict' = verdict /\ openLogs' = openLogs
    BY <1>2 DEF Emit
  <2>4. \A o \in Services : Truth(o) # "running" => Truth(o)' = Truth(o)
    BY <2>2 DEF Truth
  <2>5. SuccessIsTrue'
    BY <2>3, <2>4 DEF SuccessIsTrue, VerdictInv
  <2>6. FailureIsTrue'
    BY <2>2, <2>3, <2>4 DEF FailureIsTrue, VerdictInv
  <2> QED
    BY <2>5, <2>6
<1>3. ASSUME UNCHANGED <<server, verdict, openLogs>>
      PROVE  SuccessIsTrue' /\ FailureIsTrue'
  BY <1>3, TruthKept DEF SuccessIsTrue, FailureIsTrue, VerdictInv
<1>4. ASSUME NEW v \in {"interrupted", "notfound"}, Return(v, FALSE),
             UNCHANGED server
      PROVE  SuccessIsTrue' /\ FailureIsTrue'
  BY <1>4 DEF Return, SuccessIsTrue, FailureIsTrue
<1>5. ASSUME PollFinal
      PROVE  SuccessIsTrue' /\ FailureIsTrue'
  <2>1. \A s \in Services :
          /\ Synced(s) \in FailureTypes => Truth(s) = "failed"
          /\ Synced(s) \notin FailureTypes => Truth(s) = "succeeded"
    BY <1>5, FinalIsSettled DEF PollFinal, VerdictInv, TypeInv
  <2>2. \A s \in Services : Truth(s)' = Truth(s) /\ Emitted(s)' = Emitted(s)
    BY <1>5, TruthKept DEF PollFinal
  <2>3. verdict' = IF \E s \in Services : Synced(s) \in FailureTypes
                     THEN "failed" ELSE "succeeded"
    BY <1>5 DEF PollFinal, Return
  <2>4. openLogs' =>
          \E s \in Services : Synced(s) \in {"BuildFailed", "DeployFailed"}
    BY <1>5 DEF PollFinal, Return
  <2>5. \A s \in Services : Synced(s) \in Emitted(s) \cup {""}
    BY SyncedIsEmitted DEF VerdictInv, TypeInv
  <2>6. SuccessIsTrue'
    BY <2>1, <2>2, <2>3 DEF SuccessIsTrue
  <2>7. FailureIsTrue'
    BY <2>1, <2>2, <2>3, <2>4, <2>5 DEF FailureIsTrue
  <2> QED
    BY <2>6, <2>7
<1>6. SuccessIsTrue' /\ FailureIsTrue'
  <2>1. CASE Interrupted \/ PollNotFound
    BY <1>4, <2>1 DEF Interrupted, PollNotFound
  <2>2. CASE Signal \/ markBuildOnlyServices \/ SendPoll \/ PollPending
              \/ PollError \/ UNCHANGED vars
    BY <1>3, <2>2 DEF Signal, markBuildOnlyServices, SendPoll, PollPending,
                      PollError, vars, server
  <2> QED
    BY <1>2, <1>5, <2>1, <2>2 DEF Next, WatchNext
<1> QED
  BY <1>1, <1>6 DEF VerdictInv

\* Wait says that a deployment succeeded only when every service of it did, for
\* any number of services, any life cycle the server may follow, and any order
\* of activities, polls, failed requests and signals.
THEOREM SuccessCorrect == Spec => []SuccessIsTrue
<1>1. VerdictInv => SuccessIsTrue
  BY DEF VerdictInv
<1> QED
  BY <1>1, InitVerdict, NextVerdict, PTL DEF Spec

\* Wait says that a deployment failed only when every service settled and one
\* of them failed, and offers to open the logs only of a build or a deployment
\* that failed.
THEOREM FailureCorrect == Spec => []FailureIsTrue
<1>1. VerdictInv => FailureIsTrue
  BY DEF VerdictInv
<1> QED
  BY <1>1, InitVerdict, NextVerdict, PTL DEF Spec

-----------------------------------------------------------------------------
(* What the user sees while waiting. *)

\* Nothing is current but what isValidState lets through, and nothing at all
\* before it is known which services are only built.
CurrentOK ==
    /\ \A s \in Services : current[s] = "" \/ isValidState(s, current[s])
    /\ pc = "mark" => \A s \in Services : current[s] = ""

SpinnerInv == TypeInv /\ CurrentOK /\ SpinnersMatchStates

LEMMA SyncedIsValid ==
    ASSUME TypeOK, CurrentOK, NEW s \in Services
    PROVE  Synced(s) = "" \/ isValidState(s, Synced(s))
<1>1. CASE Fresh(s) = {}
  BY <1>1 DEF Synced, CurrentOK
<1>2. CASE Fresh(s) # {}
  BY <1>2, SyncedIsFresh, FreshIsEmitted
<1> QED
  BY <1>1, <1>2

\* The two switches on the type of an activity agree.
LEMMA PlayedIsNotFinal ==
    ASSUME NEW s, NEW t, isValidState(s, t)
    PROVE  t \in PlayedTypes(s) <=> ~isFinalState(s, t)
BY DEF isValidState, isFinalState, PlayedTypes, BuildTypes, DeployTypes, FailureTypes

LEMMA InitSpinner == Init => SpinnerInv
<1> SUFFICES ASSUME Init PROVE SpinnerInv
  OBVIOUS
<1>1. \A s \in Services : current[s] = "" /\ playing[s]
  BY Zenon DEF Init
<1>2. pc = "mark"
  BY DEF Init
<1>3. CurrentOK
  BY <1>1 DEF CurrentOK
<1>4. \A s \in Services : ~isFinalState(s, "")
  BY DEF isFinalState, FailureTypes
<1>5. SpinnersMatchStates
  BY <1>1, <1>2, <1>4 DEF SpinnersMatchStates
<1> QED
  BY <1>3, <1>5, InitType DEF SpinnerInv

LEMMA NextSpinner == SpinnerInv /\ [Next]_vars => SpinnerInv'
<1> SUFFICES ASSUME SpinnerInv, [Next]_vars PROVE SpinnerInv'
  OBVIOUS
<1>1. TypeInv' /\ TypeOK
  BY NextType DEF SpinnerInv, TypeInv
<1> USE DEF SpinnerInv
<1>2. ASSUME UNCHANGED <<params, builds, lines>>,
             pc' # "done" <=> pc # "done", pc' = "mark" => pc = "mark"
      PROVE  CurrentOK' /\ SpinnersMatchStates'
  BY <1>2 DEF CurrentOK, SpinnersMatchStates, isValidState, isFinalState,
              skippedDeploy, params, builds, lines
<1>3. ASSUME markBuildOnlyServices
      PROVE  CurrentOK' /\ SpinnersMatchStates'
  <2>1. \A s \in Services : current[s] = "" /\ current'[s] = ""
    BY <1>3 DEF markBuildOnlyServices, CurrentOK, lines
  <2>2. \A s \in Services : ~isFinalState(s, "") /\ ~isFinalState(s, "")'
    BY DEF isFinalState, FailureTypes
  <2>3. pc = "mark" /\ pc' = "tick" /\ playing' = playing
    BY <1>3 DEF markBuildOnlyServices, lines
  <2>4. CurrentOK'
    BY <2>1 DEF CurrentOK
  <2>5. SpinnersMatchStates'
    BY <2>1, <2>2, <2>3 DEF SpinnersMatchStates
  <2> QED
    BY <2>4, <2>5
<1>4. ASSUME NEW v, Return(v, openLogs'), UNCHANGED <<params, builds>>,
             \A s \in Services : current'[s] = "" \/ isValidState(s, current'[s])
      PROVE  CurrentOK' /\ SpinnersMatchStates'
  <2>1. pc' = "done" /\ \A s \in Services : ~playing'[s]
    BY <1>4, Zenon DEF Return
  <2> QED
    BY <1>4, <2>1 DEF CurrentOK, SpinnersMatchStates, isValidState,
       skippedDeploy, params, builds
<1>5. ASSUME PollPending
      PROVE  CurrentOK' /\ SpinnersMatchStates'
  <2>1. /\ \A s \in Services : current'[s] = Synced(s)
        /\ pc = "poll" /\ pc' = "tick"
        /\ UNCHANGED <<params, builds>>
    BY <1>5 DEF PollPending, sync
  <2>2. ASSUME NEW s \in Services
        PROVE  playing'[s] <=> ~isFinalState(s, Synced(s))
    <3>1. CASE Fresh(s) = {}
      <4>1. playing'[s] = playing[s]
        BY <1>5, <3>1, Zenon DEF PollPending
      <4>2. Synced(s) = current[s]
        BY <3>1 DEF Synced
      <4> QED
        BY <2>1, <4>1, <4>2 DEF SpinnersMatchStates
    <3>2. CASE Fresh(s) # {}
      <4>1. playing'[s] = (Synced(s) \in PlayedTypes(s))
        BY <1>5, <3>2, Zenon DEF PollPending
      <4>2. isValidState(s, Synced(s))
        BY <1>1, <3>2, SyncedIsFresh, FreshIsEmitted
      <4> QED
        BY <4>1, <4>2, PlayedIsNotFinal
    <3> QED
      BY <3>1, <3>2
  <2>3. \A s \in Services : isFinalState(s, Synced(s)) <=> isFinalState(s, current[s])'
    BY <2>1 DEF isFinalState, skippedDeploy, params, builds
  <2>4. SpinnersMatchStates'
    BY <2>1, <2>2, <2>3 DEF SpinnersMatchStates
  <2>5. CurrentOK'
    BY <1>1, <2>1, SyncedIsValid
       DEF CurrentOK, isValidState, skippedDeploy, params, builds
  <2> QED
    BY <2>4, <2>5
<1>6. ASSUME PollFinal
      PROVE  CurrentOK' /\ SpinnersMatchStates'
  <2>1. /\ \A s \in Services : current'[s] = Synced(s)
        /\ UNCHANGED <<params, builds>>
        /\ \E v : Return(v, openLogs')
    BY <1>6 DEF PollFinal, sync, Return
  <2> QED
    BY <1>1, <1>4, <2>1, SyncedIsValid
<1>7. ASSUME Interrupted \/ PollNotFound
      PROVE  CurrentOK' /\ SpinnersMatchStates'
  <2>1. /\ UNCHANGED <<current, params, builds>>
        /\ \E v : Return(v, openLogs')
    BY <1>7 DEF Interrupted, PollNotFound, Return
  <2> QED
    BY <1>4, <2>1 DEF CurrentOK
<1>8. CASE \/ \E s \in Services : Emit(s)
           \/ Signal \/ SendPoll \/ PollError \/ UNCHANGED vars
  <2>1. UNCHANGED <<params, builds, lines>>
    BY <1>8 DEF Emit, Signal, SendPoll, PollError, vars, builds, params, lines
  <2>2. (pc' # "done" <=> pc # "done") /\ (pc' = "mark" => pc = "mark")
    BY <1>8 DEF Emit, Signal, SendPoll, PollError, vars
  <2> QED
    BY <1>1, <1>2, <2>1, <2>2
<1> QED
  BY <1>1, <1>3, <1>5, <1>6, <1>7, <1>8 DEF Next, WatchNext

\* The spinner of a service runs exactly while Wait waits for the service.
THEOREM SpinnersCorrect == Spec => []SpinnersMatchStates
<1>1. SpinnerInv => SpinnersMatchStates
  BY DEF SpinnerInv
<1> QED
  BY <1>1, InitSpinner, NextSpinner, PTL DEF Spec

-----------------------------------------------------------------------------
(* The watch implements the abstract outcome. *)

LEMMA InitOutcome == Init => Outcome!Init
<1> SUFFICES ASSUME Init PROVE Outcome!Init
  OBVIOUS
<1>1. verdict = "none"
  BY DEF Init
<1>2. \A s \in Services : Emitted(s) = {} /\ LastOf(feed[s]) = ""
  <2>1. \A s \in Services : feed[s] = <<>>
    BY DEF Init
  <2>2. DOMAIN <<>> = {}
    OBVIOUS
  <2> QED
    BY <2>1, <2>2 DEF Emitted, LastOf
<1>3. \A s \in Services : Truth(s) = "running"
  BY <1>2 DEF Truth
<1> QED
  BY <1>1, <1>3 DEF Outcome!Init

LEMMA NextOutcome == VerdictInv /\ [Next]_vars => [Outcome!Next]_(Outcome!vars)
<1> SUFFICES ASSUME VerdictInv, [Next]_vars
             PROVE  Outcome!Next \/ UNCHANGED Outcome!vars
  OBVIOUS
<1>0. TypeOK /\ FeedOK /\ WatchOK
  BY DEF VerdictInv, TypeInv
<1>1. ASSUME NEW s \in Services, Emit(s)
      PROVE  Outcome!Next \/ UNCHANGED Outcome!vars
  <2>1. /\ Truth(s) # "succeeded"
        /\ Truth(s) = "failed" => Truth(s)' = "failed"
        /\ \A o \in Services \ {s} : Truth(o)' = Truth(o)
    BY <1>0, <1>1, TruthStep
  <2>2. verdict' = verdict
    BY <1>1 DEF Emit
  <2>3. CASE Truth(s)' = Truth(s)
    <3>1. \A o \in Services : Truth(o)' = Truth(o)
      BY <2>1, <2>3
    <3> QED
      BY <2>2, <3>1 DEF Outcome!vars
  <2>4. CASE Truth(s)' # Truth(s)
    <3>1. Truth(s) = "running" /\ Truth(s)' \in {"succeeded", "failed"}
      BY <2>1, <2>4 DEF Truth
    <3>2. Outcome!Settle(s)
      BY <2>1, <2>2, <3>1 DEF Outcome!Settle
    <3> QED
      BY <3>2 DEF Outcome!Next
  <2> QED
    BY <2>3, <2>4
<1>2. ASSUME UNCHANGED <<server, verdict>>
      PROVE  UNCHANGED Outcome!vars
  <2>1. \A s \in Services : Truth(s)' = Truth(s)
    BY <1>2, TruthKept
  <2> QED
    BY <1>2, <2>1 DEF Outcome!vars
<1>3. ASSUME NEW v \in {"interrupted", "notfound"}, Return(v, FALSE),
             UNCHANGED server, pc # "done"
      PROVE  Outcome!Next
  <2>1. \A s \in Services : Truth(s)' = Truth(s)
    BY <1>3, TruthKept
  <2>2. verdict = "none" /\ verdict' = v
    BY <1>0, <1>3 DEF Return, WatchOK
  <2>3. Outcome!GiveUp
    BY <2>1, <2>2 DEF Outcome!GiveUp
  <2> QED
    BY <2>3 DEF Outcome!Next
<1>4. ASSUME PollFinal
      PROVE  Outcome!Next
  <2>1. \A s \in Services :
          /\ Synced(s) \in FailureTypes => Truth(s) = "failed"
          /\ Synced(s) \notin FailureTypes => Truth(s) = "succeeded"
    BY <1>0, <1>4, FinalIsSettled DEF PollFinal
  <2>2. \A s \in Services : Truth(s)' = Truth(s)
    BY <1>4, TruthKept DEF PollFinal
  <2>3. verdict' = IF \E s \in Services : Synced(s) \in FailureTypes
                     THEN "failed" ELSE "succeeded"
    BY <1>4 DEF PollFinal, Return
  <2>4. verdict = "none"
    BY <1>0, <1>4 DEF PollFinal, WatchOK
  <2>5. Outcome!Judge
    <3>1. \A s \in Services : Truth(s) # "running"
      BY <2>1
    <3>2. verdict' = IF \A s \in Services : Truth(s) = "succeeded"
                       THEN "succeeded" ELSE "failed"
      BY <2>1, <2>3
    <3> QED
      BY <2>2, <2>4, <3>1, <3>2 DEF Outcome!Judge
  <2> QED
    BY <2>5 DEF Outcome!Next
<1>5. CASE Interrupted \/ PollNotFound
  BY <1>3, <1>5 DEF Interrupted, PollNotFound
<1>6. CASE Signal \/ markBuildOnlyServices \/ SendPoll \/ PollPending
           \/ PollError \/ UNCHANGED vars
  BY <1>2, <1>6 DEF Signal, markBuildOnlyServices, SendPoll, PollPending,
                    PollError, vars, server
<1> QED
  BY <1>1, <1>4, <1>5, <1>6 DEF Next, WatchNext

\* Each step of the watch and of the server is a step of the abstract outcome,
\* or changes nothing it sees: services settle once, and the verdict is given
\* once, from what they settled to.
THEOREM OutcomeImplemented == Spec => ImplementsOutcome
<1>1. Spec => Outcome!Init /\ [][Outcome!Next]_(Outcome!vars)
  BY InitOutcome, InitVerdict, NextVerdict, NextOutcome, PTL DEF Spec
<1> QED
  BY <1>1 DEF ImplementsOutcome, Outcome!Spec

-----------------------------------------------------------------------------
(* The log of quiet mode. *)

LEMMA SyncPrints ==
    ASSUME TypeOK, PrintedOnce, sync, UNCHANGED params
    PROVE  PrintedOnce'
<1> SUFFICES ASSUME NEW s \in Services, NEW t \in ActivityTypes
             PROVE  prints'[s][t] = IF quiet' /\ t \in visited'[s] THEN 1 ELSE 0
  BY DEF PrintedOnce
<1>1. prints[s][t] = IF quiet /\ t \in visited[s] THEN 1 ELSE 0
  BY DEF PrintedOnce
<1>2. prints'[s][t] = IF quiet /\ \E i \in Fresh(s) : feed[s][i] = t
                        THEN prints[s][t] + 1 ELSE prints[s][t]
  BY DEF sync
<1>3. t \in visited'[s] <=> t \in visited[s] \/ \E i \in Fresh(s) : feed[s][i] = t
  BY DEF sync
<1>4. \A i \in Fresh(s) : feed[s][i] \notin visited[s]
  BY FreshIsEmitted
<1>5. quiet' = quiet
  BY DEF params
<1>6. CASE \E i \in Fresh(s) : feed[s][i] = t
  BY <1>1, <1>2, <1>3, <1>4, <1>5, <1>6
<1>7. CASE ~\E i \in Fresh(s) : feed[s][i] = t
  BY <1>1, <1>2, <1>3, <1>5, <1>7
<1> QED
  BY <1>6, <1>7

LEMMA PrintsInvariant == TypeOK /\ PrintedOnce /\ [Next]_vars => PrintedOnce'
<1> SUFFICES ASSUME TypeOK, PrintedOnce, [Next]_vars PROVE PrintedOnce'
  OBVIOUS
<1>1. CASE PollPending \/ PollFinal
  BY <1>1, SyncPrints DEF PollPending, PollFinal
<1>2. CASE UNCHANGED <<quiet, visited, prints>>
  BY <1>2 DEF PrintedOnce
<1>3. ASSUME \/ \E s \in Services : Emit(s)
             \/ Signal \/ markBuildOnlyServices \/ SendPoll \/ Interrupted
             \/ PollError \/ PollNotFound \/ UNCHANGED vars
      PROVE  UNCHANGED <<quiet, visited, prints>>
  BY <1>3 DEF Emit, Signal, markBuildOnlyServices, SendPoll, Interrupted,
              PollError, PollNotFound, vars, params, lines
<1> QED
  BY <1>1, <1>2, <1>3 DEF Next, WatchNext

\* In quiet mode a transition is printed once and only once, however often the
\* polls return its activity.
THEOREM PrintsCorrect == Spec => []PrintedOnce
<1>1. Init => PrintedOnce
  <2> SUFFICES ASSUME Init, NEW s \in Services, NEW t \in ActivityTypes
               PROVE  prints[s][t] = IF quiet /\ t \in visited[s] THEN 1 ELSE 0
    BY DEF PrintedOnce
  <2>1. prints[s][t] = 0 /\ visited[s] = {}
    BY DEF Init
  <2> QED
    BY <2>1
<1>2. TypeInv => TypeOK
  BY DEF TypeInv
<1> QED
  BY <1>1, <1>2, InitType, NextType, PrintsInvariant, PTL DEF Spec

-----------------------------------------------------------------------------
(* The whole command. *)

\* The end of a failed upload, for the watch.
FailStep ==
    /\ playing' = playing \/ playing' = [s \in Services |-> FALSE]
    /\ UNCHANGED <<server, params, signaled, watchRest>>

\* Wait returned with a verdict, and says "too late" only of a signal.
DoneOK ==
    /\ pc = "done" => verdict # "none"
    /\ verdict = "interrupted" => signaled

\* Where the command is: its temporary directory and its live messages.
ControlOK ==
    /\ entry = "repo" => step \in {"Build", "Watch", "Returned"} /\ workDir = "none"
    /\ entry = "local" => step # "Build"
    /\ ret # "none" <=> step = "Returned"
    /\ step = "TempDir" => workDir = "none"
    /\ skipProgress \/ step \in {"TempDir", "Setup", "Build"} => ticker = "off"
    /\ step \in {"Cleanup", "Returned"} => ticker # "on"

\* Why it ends as it does: an error of the watch is its verdict.
ResultOK ==
    /\ step \notin {"Cleanup", "Returned"} => err = ""
    /\ step = "Watch" => accepted
    /\ step = "Cleanup" /\ err = "" => accepted /\ (skipProgress \/ verdict = "succeeded")
    /\ err = "failed" \/ ret = "failed" => verdict = "failed"
    /\ err = "toolate" \/ ret = "toolate" => accepted /\ verdict = "interrupted"
    /\ ret = "ok" => accepted /\ verdict = "succeeded"
    /\ ret = "background" => accepted

-----------------------------------------------------------------------------
(* The watch inside the command. *)

LEMMA WatchSteps == [DeployNext]_deployVars => [Next]_vars \/ FailStep
<1> SUFFICES ASSUME [DeployNext]_deployVars PROVE [Next]_vars \/ FailStep
  OBVIOUS
<1>1. CASE PrepareFails \/ PushFails
  BY <1>1 DEF PrepareFails, PushFails, FailDo, FailStep
<1>2. CASE \/ TempDir \/ Setup \/ Prepare \/ SendPush \/ AcceptPush \/ PushSucceeds
           \/ Build \/ WatchReturns \/ Cleanup \/ UNCHANGED deployVars
  <2>1. UNCHANGED vars
    BY <1>2 DEF TempDir, Setup, Prepare, SendPush, AcceptPush, PushSucceeds, Build,
       WatchReturns, Cleanup, deployVars
  <2> QED
    BY <2>1
<1>3. CASE WatchStep \/ ServerStep \/ SignalStep
  BY <1>3 DEF WatchStep, ServerStep, SignalStep, Next
<1> QED
  BY <1>1, <1>2, <1>3 DEF DeployNext, CommandNext

LEMMA WatchKept == VerdictInv /\ [DeployNext]_deployVars => VerdictInv'
<1> SUFFICES ASSUME VerdictInv, FailStep PROVE VerdictInv'
  BY WatchSteps, NextVerdict
<1>1. playing' \in [Services -> BOOLEAN]
  BY Zenon DEF FailStep, VerdictInv, TypeInv, TypeOK
<1>2. /\ UNCHANGED <<feed, skips, onlyBuild, quiet, signaled, onlyBuildServices,
                     buildsErr, current, visited, prints, retries, pc, verdict, openLogs>>
      /\ UNCHANGED server
  BY DEF FailStep, server, params, builds, watchRest
<1>3. TypeOK'
  BY <1>1, <1>2, Zenon DEF VerdictInv, TypeInv, TypeOK
<1>4. RetriesOK' /\ FeedOK' /\ WatchOK' /\ SuccessIsTrue' /\ FailureIsTrue'
  <2>1. \A s \in Services : Truth(s)' = Truth(s) /\ Emitted(s)' = Emitted(s)
    BY <1>2, TruthKept
  <2>2. RetriesOK' /\ FeedOK' /\ WatchOK'
    BY <1>2, <2>1 DEF VerdictInv, TypeInv, RetriesOK, FeedOK, WatchOK
  <2>3. SuccessIsTrue' /\ FailureIsTrue'
    BY <1>2, <2>1 DEF VerdictInv, SuccessIsTrue, FailureIsTrue
  <2> QED
    BY <2>2, <2>3
<1> QED
  BY <1>3, <1>4 DEF VerdictInv, TypeInv

LEMMA DoneInvariant == DoneOK /\ [DeployNext]_deployVars => DoneOK'
<1> SUFFICES ASSUME DoneOK, [Next]_vars \/ FailStep PROVE DoneOK'
  BY WatchSteps
<1> QED
  BY DEF DoneOK, FailStep, watchRest, builds, Next, Emit, Signal, WatchNext,
     markBuildOnlyServices, SendPoll, Interrupted, PollPending, PollFinal, PollError,
     PollNotFound, Return, vars

\* Only the watch comes to a verdict, and a signal is not taken back.
LEMMA VerdictStep ==
    ASSUME [DeployNext]_deployVars
    PROVE  step # "Watch" => verdict' = verdict
BY DEF DeployNext, CommandNext, TempDir, Setup, Prepare, PrepareFails, FailDo,
   SendPush, AcceptPush, PushSucceeds, PushFails, Build, WatchStep, WatchReturns,
   Cleanup, ServerStep, SignalStep, Emit, Signal, watchRest, builds, vars, deployVars

-----------------------------------------------------------------------------
(* The types of the command. *)

\* What the command keeps, apart from the watch.
CommandTypeOK ==
    /\ entry \in {"local", "repo"}
    /\ paramOnlyBuild \in BOOLEAN /\ skipProgress \in BOOLEAN /\ copyPackage \in BOOLEAN
    /\ step \in PrepareSteps \cup {"TempDir", "Setup", "Push", "Pushing", "Build",
                                   "Watch", "Cleanup", "Returned"}
    /\ workDir \in {"none", "present", "removed", "stuck"}
    /\ accepted \in BOOLEAN /\ groupUID \in BOOLEAN
    /\ ticker \in {"off", "on", "stopped"}
    /\ err \in {"", "error", "failed", "toolate"}
    /\ ret \in {"none", "ok", "background", "error", "failed", "toolate", "cleanup"}

\* The switch on the step names a step.
LEMMA NextStep ==
    step \in PrepareSteps => StepAfter \in (PrepareSteps \ {"Init"}) \cup {"Push"}
BY DEF PrepareSteps, StepAfter

\* The error of the watch is its verdict.
LEMMA WatchErrorCases ==
    ASSUME TypeOK, DoneOK, pc = "done"
    PROVE  /\ WatchError \in {"", "error", "failed", "toolate"}
           /\ WatchError = "" <=> verdict = "succeeded"
           /\ WatchError = "failed" <=> verdict = "failed"
           /\ WatchError = "toolate" <=> verdict = "interrupted"
<1>1. verdict \in {"succeeded", "failed", "notfound", "interrupted"}
  BY DEF TypeOK, DoneOK
<1> QED
  BY <1>1 DEF WatchError

LEMMA CommandType ==
    TypeOK /\ DoneOK /\ CommandTypeOK /\ [DeployNext]_deployVars => CommandTypeOK'
<1> SUFFICES ASSUME TypeOK, DoneOK, CommandTypeOK, [DeployNext]_deployVars
             PROVE  CommandTypeOK'
  OBVIOUS
<1> USE DEF CommandTypeOK, flags, results
<1>1. CASE TempDir \/ Setup
  <2>1. UNCHANGED <<flags, accepted, groupUID>>
    BY <1>1 DEF TempDir, Setup
  <2>2. step' \in {"Setup", "Init", "Cleanup", "Returned"}
    BY <1>1 DEF TempDir, Setup
  <2>3. /\ workDir' \in {workDir, "present"} /\ ticker' \in {ticker, "on", "off"}
        /\ err' \in {err, "error"} /\ ret' \in {ret, "error"}
    BY <1>1 DEF TempDir, Setup
  <2>4. /\ entry' \in {"local", "repo"}
        /\ paramOnlyBuild' \in BOOLEAN /\ skipProgress' \in BOOLEAN
        /\ copyPackage' \in BOOLEAN /\ accepted' \in BOOLEAN /\ groupUID' \in BOOLEAN
    BY <2>1, Zenon
  <2>5. step' \in PrepareSteps \cup {"Setup", "Cleanup", "Returned"}
    BY <2>2 DEF PrepareSteps
  <2>6. /\ workDir' \in {"none", "present", "removed", "stuck"}
        /\ ticker' \in {"off", "on", "stopped"}
    BY <2>3
  <2>7. /\ err' \in {"", "error", "failed", "toolate"}
        /\ ret' \in {"none", "ok", "background", "error", "failed", "toolate", "cleanup"}
    BY <2>3
  <2>8. step' \in PrepareSteps \cup {"TempDir", "Setup", "Push", "Pushing", "Build", "Watch",
                                   "Cleanup", "Returned"}
    BY <2>5
  <2> QED
    BY <2>4, <2>6, <2>7, <2>8, Zenon
<1>2. CASE Prepare
  <2>1. step' \in PrepareSteps \cup {"Push"}
    BY <1>2, NextStep DEF Prepare
  <2>2. UNCHANGED <<flags, workDir, accepted, groupUID, ticker, err, ret>>
    BY <1>2 DEF Prepare
  <2>3. /\ entry' \in {"local", "repo"}
        /\ paramOnlyBuild' \in BOOLEAN /\ skipProgress' \in BOOLEAN
        /\ copyPackage' \in BOOLEAN /\ accepted' \in BOOLEAN /\ groupUID' \in BOOLEAN
    BY <2>2, Zenon
  <2> QED
    BY <2>1, <2>2, <2>3
<1>3. CASE PrepareFails \/ PushFails
  BY <1>3 DEF PrepareFails, PushFails, FailDo, StopTicker
<1>4. CASE SendPush \/ AcceptPush \/ PushSucceeds
  BY <1>4, ZenonT(60) DEF SendPush, AcceptPush, PushSucceeds
<1>5. CASE Build
  BY <1>5 DEF Build
<1>6. CASE WatchReturns
  BY <1>6, WatchErrorCases, ZenonT(60) DEF WatchReturns, StopTicker
<1>7. CASE Cleanup
  BY <1>7, ZenonT(60) DEF Cleanup
<1>8. CASE WatchStep \/ ServerStep \/ SignalStep \/ UNCHANGED deployVars
  BY <1>8, ZenonT(60) DEF WatchStep, ServerStep, SignalStep, deployVars
<1> QED
  BY <1>1, <1>2, <1>3, <1>4, <1>5, <1>6, <1>7, <1>8 DEF DeployNext, CommandNext

-----------------------------------------------------------------------------
(* The command. *)

LEMMA ControlInvariant ==
    ASSUME TypeOK, DoneOK, CommandTypeOK, ControlOK, [DeployNext]_deployVars
    PROVE  ControlOK'
<1> USE DEF ControlOK, flags, results
<1>1. CASE TempDir
  BY <1>1 DEF TempDir
<1>2. CASE Setup
  BY <1>2 DEF Setup
<1>3. CASE Prepare
  BY <1>3, NextStep DEF Prepare, PrepareSteps
<1>4. CASE PrepareFails \/ PushFails
  BY <1>4 DEF PrepareFails, PushFails, PrepareSteps, FailDo, StopTicker
<1>5. CASE SendPush \/ AcceptPush \/ PushSucceeds
  BY <1>5 DEF SendPush, AcceptPush, PushSucceeds
<1>6. CASE Build
  BY <1>6 DEF Build
<1>7. CASE WatchReturns
  BY <1>7, WatchErrorCases DEF WatchReturns, StopTicker, CommandTypeOK
<1>8. CASE Cleanup
  BY <1>8 DEF Cleanup, CommandTypeOK
<1>9. CASE WatchStep \/ ServerStep \/ SignalStep \/ UNCHANGED deployVars
  BY <1>9 DEF WatchStep, ServerStep, SignalStep, deployVars
<1> QED
  BY <1>1, <1>2, <1>3, <1>4, <1>5, <1>6, <1>7, <1>8, <1>9 DEF DeployNext, CommandNext

LEMMA ResultInvariant ==
    ASSUME TypeOK, DoneOK, CommandTypeOK, ControlOK, ResultOK, [DeployNext]_deployVars
    PROVE  ResultOK'
<1>0. step # "Watch" => verdict' = verdict
  BY VerdictStep
<1> USE DEF ResultOK, flags, results
<1>1. CASE TempDir \/ Setup
  BY <1>0, <1>1 DEF TempDir, Setup
<1>2. CASE Prepare
  BY <1>0, <1>2, NextStep DEF Prepare, PrepareSteps
<1>3. CASE PrepareFails \/ PushFails
  BY <1>0, <1>3 DEF PrepareFails, PushFails, PrepareSteps, FailDo, ControlOK
<1>4. CASE SendPush \/ AcceptPush \/ PushSucceeds
  BY <1>0, <1>4 DEF SendPush, AcceptPush, PushSucceeds, ControlOK
<1>5. CASE Build
  BY <1>0, <1>5 DEF Build, ControlOK
<1>6. CASE WatchReturns
  <2>1. verdict' = verdict
    BY <1>6 DEF WatchReturns, vars
  <2> QED
    BY <1>6, <2>1, WatchErrorCases DEF WatchReturns, ControlOK
<1>7. CASE Cleanup
  BY <1>0, <1>7 DEF Cleanup, CommandTypeOK
<1>8. CASE WatchStep
  BY <1>8 DEF WatchStep, ControlOK
<1>9. CASE ServerStep \/ SignalStep \/ UNCHANGED deployVars
  <2>1. verdict' = verdict
    BY <1>9 DEF ServerStep, SignalStep, Emit, Signal, vars, deployVars
  <2> QED
    BY <1>9, <2>1 DEF ServerStep, SignalStep, deployVars
<1> QED
  BY <1>1, <1>2, <1>3, <1>4, <1>5, <1>6, <1>7, <1>8, <1>9 DEF DeployNext, CommandNext

LEMMA CleanupInvariant ==
    ASSUME CommandTypeOK, ControlOK, NothingLeftBehind, [DeployNext]_deployVars
    PROVE  NothingLeftBehind'
<1> USE DEF NothingLeftBehind, ControlOK
<1>1. CASE TempDir
  BY <1>1 DEF TempDir
<1>2. CASE Build \/ WatchReturns
  <2>1. step' = "Returned" => entry = "repo" /\ workDir' = workDir
    BY <1>2 DEF Build, WatchReturns, CommandTypeOK
  <2>2. step # "Returned"
    BY <1>2 DEF Build, WatchReturns
  <2>3. ret' # "none" => step' = "Returned"
    BY <1>2, <2>2 DEF Build, WatchReturns
  <2> QED
    BY <2>1, <2>3
<1>3. CASE Cleanup
  BY <1>3 DEF Cleanup, CommandTypeOK
<1>4. CASE \/ Setup \/ Prepare \/ PrepareFails \/ SendPush \/ AcceptPush
           \/ PushSucceeds \/ PushFails
  BY <1>4 DEF Setup, Prepare, PrepareSteps, PrepareFails, SendPush, AcceptPush,
     PushSucceeds, PushFails
<1>5. CASE WatchStep \/ ServerStep \/ SignalStep \/ UNCHANGED deployVars
  BY <1>5 DEF WatchStep, ServerStep, SignalStep, deployVars, results
<1> QED
  BY <1>1, <1>2, <1>3, <1>4, <1>5 DEF DeployNext, CommandNext

\* The inductive invariant.
DeployInv == VerdictInv /\ DoneOK /\ CommandTypeOK /\ ControlOK /\ ResultOK
             /\ NothingLeftBehind

LEMMA InitDeploy == DeployInit => DeployInv
<1> SUFFICES ASSUME DeployInit PROVE DeployInv
  OBVIOUS
<1>1. VerdictInv
  BY InitVerdict DEF DeployInit
<1>2. DoneOK
  BY DEF DeployInit, Init, DoneOK
<1>3. CommandTypeOK
  <2>1. paramOnlyBuild \in BOOLEAN /\ skipProgress \in BOOLEAN /\ copyPackage \in BOOLEAN
    BY Zenon DEF DeployInit
  <2>2. accepted \in BOOLEAN /\ groupUID \in BOOLEAN
    BY Zenon DEF DeployInit
  <2> QED
    BY <2>1, <2>2 DEF DeployInit, CommandTypeOK
<1>4. ControlOK /\ ResultOK /\ NothingLeftBehind
  BY DEF DeployInit, ControlOK, ResultOK, NothingLeftBehind
<1> QED
  BY <1>1, <1>2, <1>3, <1>4 DEF DeployInv

LEMMA NextDeploy == DeployInv /\ [DeployNext]_deployVars => DeployInv'
BY WatchKept, DoneInvariant, CommandType, ControlInvariant, ResultInvariant,
   CleanupInvariant
DEF DeployInv, VerdictInv, TypeInv

\* Every variable of the command and of its watch keeps its type.
THEOREM DeployTypeCorrect == DeploySpec => []DeployTypeOK
<1>1. DeployInv => DeployTypeOK
  BY DEF DeployInv, VerdictInv, TypeInv, CommandTypeOK, DeployTypeOK
<1> QED
  BY <1>1, InitDeploy, NextDeploy, PTL DEF DeploySpec

\* The command returns without an error only if the server has the deployment,
\* and announces success only if every service succeeded, whichever step failed,
\* whenever the signal came and whatever was skipped.
THEOREM NilCorrect == DeploySpec => []NilMeansDeployed
<1>1. DeployInv => NilMeansDeployed
  BY DEF DeployInv, VerdictInv, SuccessIsTrue, ResultOK, NilMeansDeployed
<1> QED
  BY <1>1, InitDeploy, NextDeploy, PTL DEF DeploySpec

\* "Too late to cancel" is only said after a signal, of a deployment the server
\* has.
THEOREM TooLateCorrect == DeploySpec => []TooLateIsTrue
<1>1. DeployInv => TooLateIsTrue
  BY DEF DeployInv, DoneOK, ResultOK, TooLateIsTrue
<1> QED
  BY <1>1, InitDeploy, NextDeploy, PTL DEF DeploySpec

\* On every path the temporary directory is gone when the command returns, or
\* the command does not claim success.
THEOREM CleanupCorrect == DeploySpec => []NothingLeftBehind
<1>1. DeployInv => NothingLeftBehind
  BY DEF DeployInv
<1> QED
  BY <1>1, InitDeploy, NextDeploy, PTL DEF DeploySpec

\* On every path the live messages are stopped when the command returns.
THEOREM TickerCorrect == DeploySpec => []TickerStopped
<1>1. DeployInv => TickerStopped
  BY DEF DeployInv, ControlOK, TickerStopped
<1> QED
  BY <1>1, InitDeploy, NextDeploy, PTL DEF DeploySpec

-----------------------------------------------------------------------------
(* The command implements the abstract outcome. *)

\* The command returns once, and only the server changes the feeds.
LEMMA ReturnStep ==
    ASSUME CommandTypeOK, ControlOK, [DeployNext]_deployVars, ~ServerStep
    PROVE  UNCHANGED server /\ (ret' = ret \/ ret = "none")
<1>1. UNCHANGED server
  BY DEF DeployNext, CommandNext, TempDir, Setup, Prepare, PrepareFails, SendPush,
     AcceptPush, PushSucceeds, PushFails, Build, WatchStep, WatchReturns, Cleanup,
     SignalStep, Signal, WatchNext, markBuildOnlyServices, SendPoll, Interrupted,
     PollPending, PollFinal, PollError, PollNotFound, server, vars, deployVars
<1>2. ret' = ret \/ ret = "none"
  BY DEF ControlOK, PrepareSteps, DeployNext, CommandNext, TempDir, Setup, Prepare,
     PrepareFails, SendPush, AcceptPush, PushSucceeds, PushFails, Build, WatchStep,
     WatchReturns, Cleanup, SignalStep, results, deployVars
<1> QED
  BY <1>1, <1>2

LEMMA NextDeployOutcome ==
    ASSUME DeployInv, DeployInv', [DeployNext]_deployVars
    PROVE  DeployOutcomeOf!Next \/ UNCHANGED DeployOutcomeOf!vars
<1>1. ASSUME NEW s \in Services, Emit(s), ret' = ret
      PROVE  DeployOutcomeOf!Next \/ UNCHANGED DeployOutcomeOf!vars
  <2>1. /\ Truth(s) # "succeeded"
        /\ Truth(s) = "failed" => Truth(s)' = "failed"
        /\ \A o \in Services \ {s} : Truth(o)' = Truth(o)
    BY <1>1, TruthStep DEF DeployInv, VerdictInv, TypeInv
  <2>2. CASE Truth(s)' = Truth(s)
    <3>1. \A o \in Services : Truth(o)' = Truth(o)
      BY <2>1, <2>2
    <3> QED
      BY <1>1, <3>1 DEF DeployOutcomeOf!vars
  <2>3. CASE Truth(s)' # Truth(s)
    <3>1. Truth(s) = "running" /\ Truth(s)' \in {"succeeded", "failed"}
      BY <2>1, <2>3 DEF Truth
    <3>2. DeployOutcomeOf!Settle(s)
      BY <1>1, <2>1, <3>1 DEF DeployOutcomeOf!Settle
    <3> QED
      BY <3>2 DEF DeployOutcomeOf!Next
  <2> QED
    BY <2>2, <2>3
<1>2. ASSUME UNCHANGED server
      PROVE  \A s \in Services : Truth(s)' = Truth(s)
  BY <1>2, TruthKept
<1>3. ASSUME UNCHANGED server, ret' = ret
      PROVE  UNCHANGED DeployOutcomeOf!vars
  BY <1>2, <1>3 DEF DeployOutcomeOf!vars
<1>4. ASSUME UNCHANGED server, ret = "none", ret' # "none"
      PROVE  DeployOutcomeOf!Next
  <2>1. CASE ret' = "ok"
    <3>1. \A s \in Services : Truth(s)' = "succeeded"
      BY <2>1 DEF DeployInv, VerdictInv, ResultOK, SuccessIsTrue
    <3>2. \A s \in Services : Truth(s) = "succeeded" /\ Truth(s)' = Truth(s)
      BY <1>2, <1>4, <3>1
    <3>3. DeployOutcomeOf!Judge
      BY <1>4, <2>1, <3>2 DEF DeployOutcomeOf!Judge
    <3> QED
      BY <3>3 DEF DeployOutcomeOf!Next
  <2>2. CASE ret' = "failed"
    <3>1. /\ \E s \in Services : Truth(s)' = "failed"
          /\ \A s \in Services : Truth(s)' # "running"
      BY <2>2 DEF DeployInv, VerdictInv, ResultOK, FailureIsTrue
    <3>2. /\ \E s \in Services : Truth(s) = "failed"
          /\ \A s \in Services : Truth(s) # "running" /\ Truth(s)' = Truth(s)
      BY <1>2, <1>4, <3>1
    <3>3. DeployOutcomeOf!Judge
      BY <1>4, <2>2, <3>2 DEF DeployOutcomeOf!Judge
    <3> QED
      BY <3>3 DEF DeployOutcomeOf!Next
  <2>3. CASE ret' \notin {"ok", "failed"}
    <3>1. DeployOutcomeOf!GiveUp
      BY <1>2, <1>4, <2>3 DEF DeployOutcomeOf!GiveUp
    <3> QED
      BY <3>1 DEF DeployOutcomeOf!Next
  <2> QED
    BY <2>1, <2>2, <2>3
<1>5. CASE ServerStep
  <2>1. ret' = ret
    BY <1>5 DEF ServerStep, results
  <2> QED
    BY <1>1, <1>5, <2>1 DEF ServerStep
<1>6. CASE ~ServerStep
  <2>1. UNCHANGED server /\ (ret' = ret \/ ret = "none")
    BY <1>6, ReturnStep DEF DeployInv
  <2> QED
    BY <1>3, <1>4, <2>1
<1> QED
  BY <1>5, <1>6

\* The whole command, with its upload, its signals and its cleanup, implements
\* the promise made of its verdict.
THEOREM DeployImplemented == DeploySpec => DeployImplementsOutcome
<1>1. DeployInit => DeployOutcomeOf!Init
  <2> SUFFICES ASSUME DeployInit PROVE DeployOutcomeOf!Init
    OBVIOUS
  <2>1. Outcome!Init /\ ret = "none"
    BY InitOutcome DEF DeployInit
  <2> QED
    BY <2>1 DEF Outcome!Init, DeployOutcomeOf!Init
<1>2. DeployInv /\ DeployInv' /\ [DeployNext]_deployVars
        => [DeployOutcomeOf!Next]_(DeployOutcomeOf!vars)
  BY NextDeployOutcome
<1>3. DeploySpec => DeployOutcomeOf!Init /\ [][DeployOutcomeOf!Next]_(DeployOutcomeOf!vars)
  BY <1>1, <1>2, InitDeploy, NextDeploy, PTL DEF DeploySpec
<1> QED
  BY <1>3 DEF DeployImplementsOutcome, DeployOutcomeOf!Spec
=============================================================================
