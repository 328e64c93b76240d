--------------------------- MODULE LogWatch_proofs ---------------------------
(***************************************************************************)
(* Theorems about LogWatch, for a log of any length, any timestamps and    *)
(* any limit of an answer: its types, that lines are printed in order and  *)
(* once, and that none is skipped but a late one.                          *)
(***************************************************************************)
EXTENDS LogWatch, FiniteSetTheorems, WellFoundedInduction, TLAPS

\* The cursor and what is printed are places of the log.
PlacesExist ==
    /\ AfterInsertID <= Len(log)
    /\ \A n \in DOMAIN printed : printed[n] \in SUBSET (1 .. Len(log))

\* Nothing is printed before the first request.
StartIsClear ==
    pc \in {"logRun", "List"} => printed = <<>> /\ AfterInsertID = 0

\* While the watch goes on, what it printed is not past its cursor.
ShownIsBehind ==
    pc \in {"pool", "select"} => \A n \in DOMAIN printed : \A i \in printed[n] : i <= AfterInsertID

\* The time of the cursor is the one asked for, or is past that of a line shown.
SinceIsKnown ==
    pc \in {"pool", "select"} =>
        \/ Since = since
        \/ \E k \in Shown : k <= AfterInsertID /\ Since = log[k].ts + 1

CursorInv == PlacesExist /\ StartIsClear /\ ShownIsBehind /\ SinceIsKnown

-----------------------------------------------------------------------------
(* An answer. *)

\* A set of places has a last one.
LEMMA LastPlace ==
    ASSUME NEW n \in Nat, NEW S \in SUBSET (1 .. n), S # {}
    PROVE  LastOf(S) \in S /\ \A j \in S : j <= LastOf(S)
<1> DEFINE T == {n - i : i \in S}
           R == {ss \in Nat \X Nat : ss[1] < ss[2]}
<1>1. IsWellFoundedOn(R, Nat)
  BY NatLessThanWellFounded DEF OpToRel
<1>2. T \subseteq Nat /\ T # {}
  <2>1. \A i \in S : n - i \in Nat
    OBVIOUS
  <2>2. PICK i \in S : TRUE
    OBVIOUS
  <2>3. n - i \in T
    OBVIOUS
  <2> QED
    BY <2>1, <2>3
<1>3. PICK m \in T : \A k \in T : <<k, m>> \notin R
  <2> HIDE DEF T, R
  <2> QED
    BY <1>1, <1>2, WFMin
<1>4. PICK i \in S : m = n - i
  BY <1>3
<1>5. ASSUME NEW j \in S PROVE j <= i
  <2>1. n - j \in T
    OBVIOUS
  <2>2. <<n - j, m>> \notin R
    BY <1>3, <2>1
  <2> QED
    BY <1>2, <1>3, <1>4, <2>1, <2>2
<1> QED
  BY <1>5 DEF LastOf

\* An answer has every line that matches up to its last one.
LEMMA TakeIsInitial ==
    ASSUME NEW n \in Nat, NEW S \in SUBSET (1 .. n), NEW k \in Take(S), NEW i \in S, i <= k,
           LogAssumption
    PROVE  i \in Take(S)
<1> DEFINE UpTo(m) == {j \in S : j <= m}
<1>1. IsFiniteSet(S)
  <2>1. IsFiniteSet(1 .. n)
    BY FS_Interval
  <2> QED
    BY <2>1, FS_Subset
<1>2. k \in S /\ Cardinality(UpTo(k)) <= Limit
  BY DEF Take
<1>3. UpTo(i) \subseteq UpTo(k) /\ IsFiniteSet(UpTo(k))
  <2>1. UpTo(k) \subseteq S
    OBVIOUS
  <2>2. IsFiniteSet(UpTo(k))
    BY <1>1, <2>1, FS_Subset
  <2>3. i \in Nat /\ k \in Nat
    BY <1>2
  <2>4. \A j \in S : j \in Nat /\ (j <= i => j <= k)
    BY <2>3
  <2> QED
    BY <2>2, <2>4
<1>4. /\ Cardinality(UpTo(i)) \in Nat
      /\ Cardinality(UpTo(k)) \in Nat
      /\ Cardinality(UpTo(i)) <= Cardinality(UpTo(k))
  <2> HIDE DEF UpTo
  <2> QED
    BY <1>3, FS_Subset, FS_CardinalityType
<1>5. Cardinality(UpTo(i)) <= Limit
  <2> HIDE DEF UpTo
  <2> QED
    BY <1>2, <1>4 DEF LogAssumption
<1> QED
  BY <1>5 DEF Take

\* An answer has lines of the log that were asked for, past the cursor.
LEMMA AnswerIsNew ==
    ASSUME TypeOK
    PROVE  /\ GetList \in SUBSET (1 .. Len(log))
           /\ \A i \in GetList : i > AfterInsertID /\ Mine(log[i])
  BY DEF TypeOK, GetList, filter, Found, Take, Matching, Mine, isService, isContainer

\* A line that was asked for, at the time of the cursor or after it, between the cursor and
\* the last line of an answer is in the answer.
LEMMA AnswerIsWhole ==
    ASSUME TypeOK, LogAssumption, NEW k \in GetList, NEW i \in 1 .. k,
           i > AfterInsertID, log[i].ts >= Since, Mine(log[i])
    PROVE  i \in GetList
<1>1. Matching \in SUBSET (1 .. Len(log)) /\ Len(log) \in Nat
  BY DEF TypeOK, Matching
<1>2. k \in Found /\ k \in 1 .. Len(log)
  BY <1>1 DEF GetList, filter, Found, Take
<1>3. i \in Matching
  BY <1>2 DEF TypeOK, Matching, Mine, isService
<1>4. k \in Take(Matching) /\ i <= k
  BY <1>2 DEF Found
<1>5. i \in Take(Matching)
  <2> HIDE DEF LogAssumption
  <2> QED
    BY <1>1, <1>3, <1>4, TakeIsInitial
<1> QED
  BY <1>5 DEF Found, GetList, filter

-----------------------------------------------------------------------------
(* Types. *)

LEMMA InitType == LogAssumption /\ Init => TypeOK
  BY DEF LogAssumption, Init, TypeOK, Bad

\* The line that a cursor moves to.
LEMMA NextPlace ==
    ASSUME TypeOK, GetList # {}
    PROVE  /\ LastOf(GetList) \in GetList
           /\ LastOf(GetList) \in 1 .. Len(log)
           /\ log[LastOf(GetList)] \in Line
           /\ \A j \in GetList : j <= LastOf(GetList)
<1>1. Len(log) \in Nat
  BY DEF TypeOK
<1>2. LastOf(GetList) \in GetList /\ \A j \in GetList : j <= LastOf(GetList)
  BY <1>1, AnswerIsNew, LastPlace
<1> QED
  BY <1>2, AnswerIsNew DEF TypeOK

LEMMA PoolType == LogAssumption /\ TypeOK /\ pool => TypeOK'
<1> SUFFICES ASSUME LogAssumption, TypeOK, pool PROVE TypeOK'
  OBVIOUS
<1>1. CASE GetList # {} /\ printList(GetList) /\ prepareNext(GetList) /\ failed' = 0
  <2>1. GetList \in SUBSET Nat
    BY AnswerIsNew
  <2>2. Since' \in Nat /\ AfterInsertID' \in Nat
    BY <1>1, NextPlace DEF prepareNext, Line, TypeOK, LogAssumption
  <2>3. printed' \in Seq(SUBSET Nat)
    BY <1>1, <2>1 DEF printList, TypeOK
  <2> QED
    BY <1>1, <2>2, <2>3 DEF TypeOK, pool, flags
<1>2. CASE UNCHANGED <<cursor, printed>>
  BY <1>2 DEF TypeOK, pool, flags, cursor
<1> QED
  BY <1>1, <1>2 DEF pool

LEMMA NextType == LogAssumption /\ TypeOK /\ [Next]_vars => TypeOK'
<1> SUFFICES ASSUME LogAssumption, TypeOK, [Next]_vars PROVE TypeOK'
  OBVIOUS
<1> USE DEF TypeOK, flags, cursor
<1>1. ASSUME NEW l \in Line, Append1(l) PROVE TypeOK'
  BY <1>1 DEF Append1
<1>2. CASE Signal
  BY <1>2 DEF Signal
<1>3. CASE getSinceFails \/ WatchEnds
  BY <1>3 DEF getSinceFails, WatchEnds, End
<1>4. CASE logRun
  BY <1>4 DEF logRun, Bad, LogAssumption
<1>5. CASE List
  <2>1. GetList \in SUBSET Nat
    BY AnswerIsNew
  <2> QED
    <3>1. CASE printList(GetList) /\ End("List", "ok") /\ UNCHANGED cursor
      <4>1. printed' \in Seq(SUBSET Nat)
        BY <2>1, <3>1 DEF printList
      <4> QED
        BY <3>1, <4>1 DEF End
    <3>2. CASE UNCHANGED <<cursor, printed>> /\ End("List", "error")
      BY <3>2 DEF End
    <3> QED
      BY <1>5, <3>1, <3>2 DEF List
<1>6. CASE pool
  BY <1>6, PoolType
<1>7. CASE Tick
  BY <1>7 DEF Tick
<1>8. CASE UNCHANGED vars
  BY <1>8 DEF vars
<1> QED
  BY <1>1, <1>2, <1>3, <1>4, <1>5, <1>6, <1>7, <1>8 DEF Next, Command

\* TypeOK: the log, the cursor and what is printed keep their types.
THEOREM TypeCorrect == Spec => []TypeOK
<1>1. Init => TypeOK
  BY InitType, LogAssumption
<1>2. TypeOK /\ [Next]_vars => TypeOK'
  BY NextType, LogAssumption
<1> QED
  BY <1>1, <1>2, PTL DEF Spec

-----------------------------------------------------------------------------
(* What a step does to the log and to the terminal. *)

\* A line that was inserted stays what it is.
LEMMA LogGrows ==
    ASSUME TypeOK, NEW l \in Line, Append1(l)
    PROVE  /\ Len(log') = Len(log) + 1
           /\ \A i \in 1 .. Len(log) : log'[i] = log[i]
  BY DEF TypeOK, Append1

\* One more answer on the terminal.
LEMMA AnswerIsPrinted ==
    ASSUME TypeOK, printList(GetList)
    PROVE  /\ DOMAIN printed = 1 .. Len(printed) /\ Len(printed) \in Nat
           /\ DOMAIN printed' = 1 .. Len(printed) + 1
           /\ \A n \in 1 .. Len(printed) : printed'[n] = printed[n]
           /\ printed'[Len(printed) + 1] = GetList
<1>1. GetList \in SUBSET Nat
  BY AnswerIsNew DEF TypeOK
<1> HIDE DEF GetList
<1> QED
  BY <1>1 DEF TypeOK, printList

LEMMA ShownGrows ==
    ASSUME TypeOK, printList(GetList)
    PROVE  Shown' = Shown \cup GetList
<1> DEFINE N == Len(printed)
<1>1. /\ DOMAIN printed = 1 .. N /\ N \in Nat
      /\ DOMAIN printed' = 1 .. N + 1
      /\ \A n \in 1 .. N : printed'[n] = printed[n]
      /\ printed'[N + 1] = GetList
  BY AnswerIsPrinted
<1>2. ASSUME NEW i PROVE i \in Shown' <=> i \in Shown \cup GetList
  <2>1. i \in Shown' <=> \E n \in 1 .. N + 1 : i \in printed'[n]
    BY <1>1 DEF Shown
  <2>2. i \in Shown <=> \E n \in 1 .. N : i \in printed[n]
    BY <1>1 DEF Shown
  <2>3. \A n \in 1 .. N + 1 : n \in 1 .. N \/ n = N + 1
    BY <1>1
  <2>4. N + 1 \in 1 .. N + 1 /\ \A n \in 1 .. N : n \in 1 .. N + 1
    BY <1>1
  <2> HIDE DEF N
  <2> QED
    BY <1>1, <2>1, <2>2, <2>3, <2>4
<1> QED
  BY <1>2

-----------------------------------------------------------------------------
(* The cursor. *)

LEMMA InitCursor == Init => CursorInv
  BY DEF Init, CursorInv, PlacesExist, StartIsClear, ShownIsBehind, SinceIsKnown

\* An answer that was printed moves the cursor to its last line.
LEMMA PrintedCursor ==
    ASSUME LogAssumption, TypeOK, CursorInv, pool, GetList # {},
           printList(GetList), prepareNext(GetList)
    PROVE  CursorInv'
<1> DEFINE last == LastOf(GetList)
           N    == Len(printed)
<1>1. /\ last \in GetList /\ last \in 1 .. Len(log) /\ log[last] \in Line
      /\ \A j \in GetList : j <= last
  BY NextPlace
<1>2. pc = "pool" /\ pc' = "select" /\ UNCHANGED <<log, since>>
  BY DEF pool, flags
<1>3. AfterInsertID' = last /\ last > AfterInsertID
  BY <1>1, AnswerIsNew DEF prepareNext
<1>4. /\ DOMAIN printed = 1 .. N /\ N \in Nat
      /\ DOMAIN printed' = 1 .. N + 1
      /\ \A n \in 1 .. N : printed'[n] = printed[n]
      /\ printed'[N + 1] = GetList
  BY AnswerIsPrinted
<1>5. \A n \in DOMAIN printed' : \/ n \in DOMAIN printed /\ printed'[n] = printed[n]
                                 \/ printed'[n] = GetList
  <2> HIDE DEF N
  <2> QED
    BY <1>4
<1>6. PlacesExist'
  BY <1>1, <1>2, <1>3, <1>5, AnswerIsNew DEF CursorInv, PlacesExist
<1>7. ShownIsBehind'
  <2>1. ASSUME NEW n \in DOMAIN printed', NEW i \in printed'[n]
        PROVE  i <= last
    <3>1. CASE n \in DOMAIN printed /\ i \in printed[n]
      <4>1. i <= AfterInsertID /\ i \in Nat
        BY <1>2, <3>1 DEF CursorInv, ShownIsBehind, PlacesExist
      <4> QED
        BY <1>1, <1>3, <4>1 DEF TypeOK
    <3>2. CASE i \in GetList
      BY <1>1, <3>2
    <3> QED
      BY <1>5, <2>1, <3>1, <3>2
  <2> QED
    BY <1>3, <2>1 DEF ShownIsBehind
<1>8. SinceIsKnown'
  <2>1. Shown \subseteq Shown' /\ last \in Shown'
    BY <1>1, ShownGrows
  <2>2. CASE Since' = Since
    <3>1. CASE Since = since
      BY <1>2, <2>2, <3>1 DEF SinceIsKnown
    <3>2. ASSUME NEW k \in Shown, k <= AfterInsertID, Since = log[k].ts + 1
          PROVE  SinceIsKnown'
      <4>1. k \in Nat
        BY DEF Shown, TypeOK
      <4>2. k <= last
        BY <1>1, <1>3, <3>2, <4>1 DEF TypeOK
      <4> QED
        BY <1>2, <1>3, <2>1, <2>2, <3>2, <4>2 DEF SinceIsKnown
    <3> QED
      BY <1>2, <3>1, <3>2 DEF CursorInv, SinceIsKnown
  <2>3. CASE Since' = log[last].ts + 1
    BY <1>1, <1>2, <1>3, <2>1, <2>3 DEF SinceIsKnown
  <2> QED
    BY <2>2, <2>3 DEF prepareNext
<1> QED
  BY <1>2, <1>6, <1>7, <1>8 DEF CursorInv, StartIsClear

LEMMA NextCursor == LogAssumption /\ TypeOK /\ CursorInv /\ [Next]_vars => CursorInv'
<1> SUFFICES ASSUME LogAssumption, TypeOK, CursorInv, [Next]_vars PROVE CursorInv'
  OBVIOUS
<1> USE DEF flags, cursor
<1>1. ASSUME NEW l \in Line, Append1(l) PROVE CursorInv'
  <2>1. /\ Len(log') = Len(log) + 1 /\ Len(log) \in Nat
        /\ \A i \in 1 .. Len(log) : log'[i] = log[i]
    BY <1>1, LogGrows DEF TypeOK
  <2>2. UNCHANGED <<flags, cursor, pc, printed>>
    BY <1>1 DEF Append1
  <2>3. PlacesExist'
    BY <2>1, <2>2 DEF CursorInv, PlacesExist, TypeOK
  <2>4. SinceIsKnown'
    <3>1. \A k \in Shown : k \in 1 .. Len(log)
      BY DEF Shown, CursorInv, PlacesExist
    <3>2. Shown' = Shown
      BY <2>2 DEF Shown
    <3> QED
      BY <2>1, <2>2, <3>1, <3>2 DEF CursorInv, SinceIsKnown
  <2> QED
    BY <2>2, <2>3, <2>4 DEF CursorInv, StartIsClear, ShownIsBehind
<1>2. CASE /\ UNCHANGED <<log, since, cursor, printed>>
           /\ pc' = pc \/ pc' = "done" \/ (pc \in {"pool", "select"} /\ pc' \in {"pool", "select"})
  <2>1. Shown' = Shown
    BY <1>2 DEF Shown
  <2> QED
    BY <1>2, <2>1 DEF CursorInv, PlacesExist, StartIsClear, ShownIsBehind, SinceIsKnown
<1>3. CASE Signal
  BY <1>2, <1>3 DEF Signal
<1>4. CASE getSinceFails \/ WatchEnds
  BY <1>2, <1>4 DEF getSinceFails, WatchEnds, End
<1>5. CASE logRun
  BY <1>5 DEF logRun, CursorInv, PlacesExist, StartIsClear, ShownIsBehind, SinceIsKnown
<1>6. CASE List
  <2>1. CASE End("List", "ok") /\ printList(GetList) /\ UNCHANGED cursor
    <3>1. PlacesExist'
      <4>1. UNCHANGED log
        BY <2>1 DEF End
      <4>2. \A n \in DOMAIN printed' : \/ n \in DOMAIN printed /\ printed'[n] = printed[n]
                                       \/ printed'[n] = GetList
        BY <2>1, AnswerIsPrinted
      <4> QED
        BY <2>1, <4>1, <4>2, AnswerIsNew DEF CursorInv, PlacesExist
    <3> QED
      BY <2>1, <3>1 DEF End, CursorInv, StartIsClear, ShownIsBehind, SinceIsKnown
  <2>2. CASE End("List", "error") /\ UNCHANGED <<cursor, printed>>
    BY <1>2, <2>2 DEF End
  <2> QED
    BY <1>6, <2>1, <2>2 DEF List
<1>7. CASE pool
  <2>1. CASE GetList # {} /\ printList(GetList) /\ prepareNext(GetList)
    BY <1>7, <2>1, PrintedCursor
  <2>2. CASE UNCHANGED <<cursor, printed>>
    BY <1>2, <1>7, <2>2 DEF pool
  <2> QED
    BY <1>7, <2>1, <2>2 DEF pool
<1>8. CASE Tick
  BY <1>2, <1>8 DEF Tick
<1>9. CASE UNCHANGED vars
  BY <1>2, <1>9 DEF vars
<1> QED
  BY <1>1, <1>3, <1>4, <1>5, <1>6, <1>7, <1>8, <1>9 DEF Next, Command

\* CursorInv: where the cursor stands, against the log and the terminal.
LEMMA CursorCorrect == Spec => []CursorInv
<1>1. Init => CursorInv
  BY InitCursor
<1>2. TypeOK /\ CursorInv /\ [Next]_vars => CursorInv'
  BY NextCursor, LogAssumption
<1> QED
  BY <1>1, <1>2, TypeCorrect, PTL DEF Spec

-----------------------------------------------------------------------------
(* LinesAreOrdered. *)

\* What is printed is new, and was asked for.
LEMMA PrintKeepsOrder ==
    ASSUME TypeOK, CursorInv, LinesAreOrdered, printList(GetList),
           pc \in {"List", "pool"}, UNCHANGED <<log, flags>>
    PROVE  LinesAreOrdered'
<1> DEFINE N == Len(printed)
<1>1. /\ DOMAIN printed = 1 .. N /\ N \in Nat
      /\ DOMAIN printed' = 1 .. N + 1
      /\ \A n \in 1 .. N : printed'[n] = printed[n]
      /\ printed'[N + 1] = GetList
  BY AnswerIsPrinted
<1>2. ASSUME NEW m \in DOMAIN printed', NEW n \in DOMAIN printed', m < n,
             NEW i \in printed'[m], NEW j \in printed'[n]
      PROVE  i < j
  <2>1. m \in 1 .. N /\ i \in printed[m]
    BY <1>1, <1>2
  <2>2. CASE n \in 1 .. N
    BY <1>1, <1>2, <2>1, <2>2 DEF LinesAreOrdered
  <2>3. CASE n = N + 1
    <3>1. j \in GetList /\ j > AfterInsertID /\ j \in Nat
      BY <1>1, <2>3, AnswerIsNew
    <3>2. printed # <<>> /\ pc = "pool"
      BY <1>1, <2>1 DEF CursorInv, StartIsClear
    <3>3. i <= AfterInsertID /\ i \in Nat
      BY <1>1, <2>1, <3>2 DEF CursorInv, ShownIsBehind, PlacesExist
    <3> QED
      BY <3>1, <3>3 DEF TypeOK
  <2> QED
    BY <1>1, <2>2, <2>3
<1>3. ASSUME NEW i \in Shown' PROVE Mine(log[i])'
  <2>1. i \in Shown \/ i \in GetList
    BY ShownGrows
  <2>2. Mine(log[i])
    BY <2>1, AnswerIsNew DEF LinesAreOrdered
  <2> QED
    BY <2>2 DEF Mine, isService, isContainer, flags
<1> QED
  BY <1>2, <1>3 DEF LinesAreOrdered

LEMMA NextOrder ==
    LogAssumption /\ TypeOK /\ CursorInv /\ LinesAreOrdered /\ [Next]_vars => LinesAreOrdered'
<1> SUFFICES ASSUME LogAssumption, TypeOK, CursorInv, LinesAreOrdered, [Next]_vars
             PROVE  LinesAreOrdered'
  OBVIOUS
<1> USE DEF flags, cursor
<1>1. ASSUME NEW l \in Line, Append1(l) PROVE LinesAreOrdered'
  <2>1. \A i \in 1 .. Len(log) : log'[i] = log[i]
    BY <1>1, LogGrows
  <2>2. UNCHANGED <<flags, printed>>
    BY <1>1 DEF Append1
  <2>3. \A i \in Shown : i \in 1 .. Len(log)
    BY DEF Shown, CursorInv, PlacesExist
  <2> QED
    BY <2>1, <2>2, <2>3 DEF LinesAreOrdered, Shown, Mine, isService, isContainer
<1>2. CASE UNCHANGED <<log, flags, printed>>
  BY <1>2 DEF LinesAreOrdered, Shown, Mine, isService, isContainer
<1>3. CASE printList(GetList) /\ (List \/ pool)
  <2>1. pc \in {"List", "pool"} /\ UNCHANGED <<log, flags>>
    BY <1>3 DEF List, pool, End
  <2> QED
    BY <1>3, <2>1, PrintKeepsOrder
<1>4. CASE Signal \/ getSinceFails \/ WatchEnds \/ logRun \/ Tick
  BY <1>2, <1>4 DEF Signal, getSinceFails, WatchEnds, End, logRun, Tick
<1>5. CASE List
  BY <1>2, <1>3, <1>5 DEF List, End
<1>6. CASE pool
  BY <1>2, <1>3, <1>6 DEF pool
<1>7. CASE UNCHANGED vars
  BY <1>2, <1>7 DEF vars
<1> QED
  BY <1>1, <1>4, <1>5, <1>6, <1>7 DEF Next, Command

\* LinesAreOrdered: whatever the timestamps, the limit and who filters, the terminal shows
\* the lines that were asked for in the order of the log, and none twice.
THEOREM OrderCorrect == Spec => []LinesAreOrdered
<1>1. Init => LinesAreOrdered
  BY DEF Init, LinesAreOrdered, Shown
<1>2. TypeOK /\ CursorInv /\ LinesAreOrdered /\ [Next]_vars => LinesAreOrdered'
  BY NextOrder, LogAssumption
<1> QED
  BY <1>1, <1>2, TypeCorrect, CursorCorrect, PTL DEF Spec

-----------------------------------------------------------------------------
(* NoLineIsSkipped. *)

\* What was late, or on the terminal, stays so.
LEMMA LateStays ==
    ASSUME TypeOK, CursorInv, Shown \subseteq Shown', UNCHANGED since,
           \A i \in 1 .. Len(log) : log'[i] = log[i],
           NEW i \in 1 .. Len(log), Late(i)
    PROVE  Late(i)'
<1>1. \A k \in Shown : k \in 1 .. Len(log)
  BY DEF Shown, CursorInv, PlacesExist
<1> QED
  BY <1>1 DEF Late

LEMMA NoSkipStays ==
    ASSUME TypeOK, CursorInv, NoLineIsSkipped, Shown \subseteq Shown', UNCHANGED <<flags>>,
           \A i \in 1 .. Len(log) : log'[i] = log[i], UNCHANGED AfterInsertID
    PROVE  NoLineIsSkipped'
<1> SUFFICES ASSUME NEW i \in 1 .. AfterInsertID, Mine(log[i])'
             PROVE  i \in Shown' \/ Late(i)'
  BY DEF NoLineIsSkipped
<1>1. i \in 1 .. Len(log)
  BY DEF TypeOK, CursorInv, PlacesExist
<1>2. Mine(log[i])
  BY <1>1 DEF Mine, isService, isContainer, flags
<1>3. i \in Shown \/ Late(i)
  BY <1>2 DEF NoLineIsSkipped
<1> QED
  BY <1>1, <1>3, LateStays DEF flags

\* Of the lines that the cursor jumps over, those that are not in the answer are older than
\* its time, and so than what was asked for or than a line shown before.
LEMMA PrintSkipsNone ==
    ASSUME LogAssumption, TypeOK, CursorInv, NoLineIsSkipped, pool, GetList # {},
           printList(GetList), prepareNext(GetList)
    PROVE  NoLineIsSkipped'
<1> DEFINE last == LastOf(GetList)
<1>1. last \in GetList /\ last \in 1 .. Len(log) /\ AfterInsertID' = last
  BY NextPlace DEF prepareNext
<1>2. pc = "pool" /\ UNCHANGED <<log, flags>>
  BY DEF pool
<1>3. Shown' = Shown \cup GetList
  BY ShownGrows
<1> SUFFICES ASSUME NEW i \in 1 .. last, Mine(log[i])
             PROVE  i \in Shown' \/ Late(i)'
  BY <1>1, <1>2 DEF NoLineIsSkipped, Mine, isService, isContainer, flags
<1>4. i \in 1 .. Len(log) /\ log[i] \in Line
  BY <1>1 DEF TypeOK
<1>5. CASE i <= AfterInsertID
  <2>1. i \in Shown \/ Late(i)
    BY <1>5 DEF NoLineIsSkipped, TypeOK
  <2> QED
    BY <1>2, <1>3, <1>4, <2>1, LateStays DEF flags
<1>6. CASE i > AfterInsertID /\ log[i].ts >= Since
  <2>1. i \in GetList
    BY <1>1, <1>6, AnswerIsWhole
  <2> QED
    BY <1>3, <2>1
<1>7. CASE i > AfterInsertID /\ log[i].ts < Since
  <2>1. CASE Since = since
    BY <1>2, <1>7, <2>1 DEF Late, flags
  <2>2. ASSUME NEW k \in Shown, k <= AfterInsertID, Since = log[k].ts + 1
        PROVE  Late(i)'
    <3>1. k \in 1 .. Len(log) /\ log[k] \in Line
      BY DEF Shown, CursorInv, PlacesExist, TypeOK
    <3>2. k < i
      BY <1>4, <1>7, <2>2, <3>1 DEF TypeOK
    <3>3. log[k].ts >= log[i].ts
      BY <1>4, <1>7, <2>2, <3>1 DEF Line
    <3> QED
      BY <1>2, <1>3, <3>2, <3>3 DEF Late, flags
  <2> QED
    BY <1>2, <2>1, <2>2 DEF CursorInv, SinceIsKnown
<1> QED
  BY <1>4, <1>5, <1>6, <1>7 DEF TypeOK, Line

LEMMA NextSkipsNone ==
    LogAssumption /\ TypeOK /\ CursorInv /\ NoLineIsSkipped /\ [Next]_vars => NoLineIsSkipped'
<1> SUFFICES ASSUME LogAssumption, TypeOK, CursorInv, NoLineIsSkipped, [Next]_vars
             PROVE  NoLineIsSkipped'
  OBVIOUS
<1> USE DEF cursor
<1>1. ASSUME NEW l \in Line, Append1(l) PROVE NoLineIsSkipped'
  <2>1. UNCHANGED <<flags, AfterInsertID, printed>>
    BY <1>1 DEF Append1
  <2>2. Shown' = Shown
    BY <2>1 DEF Shown
  <2> QED
    BY <1>1, <2>1, <2>2, LogGrows, NoSkipStays
<1>2. CASE UNCHANGED <<log, flags, AfterInsertID, printed>>
  <2>1. Shown' = Shown
    BY <1>2 DEF Shown
  <2> QED
    BY <1>2, <2>1, NoSkipStays
<1>3. CASE Signal \/ getSinceFails \/ WatchEnds \/ logRun \/ Tick
  BY <1>2, <1>3 DEF Signal, getSinceFails, WatchEnds, End, logRun, Tick
<1>4. CASE List
  <2>1. CASE printList(GetList)
    <3>1. UNCHANGED <<log, flags, AfterInsertID>>
      BY <1>4 DEF List, End
    <3>2. Shown \subseteq Shown'
      BY <2>1, ShownGrows
    <3> QED
      BY <3>1, <3>2, NoSkipStays
  <2> QED
    BY <1>2, <1>4, <2>1 DEF List, End
<1>5. CASE pool
  <2>1. CASE GetList # {} /\ printList(GetList) /\ prepareNext(GetList)
    BY <1>5, <2>1, PrintSkipsNone
  <2>2. CASE UNCHANGED <<cursor, printed>>
    BY <1>2, <1>5, <2>2 DEF pool
  <2> QED
    BY <1>5, <2>1, <2>2 DEF pool
<1>6. CASE UNCHANGED vars
  BY <1>2, <1>6 DEF vars
<1> QED
  BY <1>1, <1>3, <1>4, <1>5, <1>6 DEF Next, Command

\* NoLineIsSkipped: a line that the cursor is past is on the terminal, unless it is older
\* than what was asked for or not newer than a line before it that was shown.
THEOREM SkipCorrect == Spec => []NoLineIsSkipped
<1>1. Init => NoLineIsSkipped
  BY DEF Init, NoLineIsSkipped
<1>2. TypeOK /\ CursorInv /\ NoLineIsSkipped /\ [Next]_vars => NoLineIsSkipped'
  BY NextSkipsNone, LogAssumption
<1> QED
  BY <1>1, <1>2, TypeCorrect, CursorCorrect, PTL DEF Spec
=============================================================================
