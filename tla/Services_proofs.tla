--------------------------- MODULE Services_proofs ---------------------------
(***************************************************************************)
(* Theorems about Services, for any people, any commands and any number of *)
(* runs: its types, that the arguments of a command are done in order, and *)
(* when the custom domains are what was asked for.                         *)
(***************************************************************************)
EXTENDS Services, FiniteSetTheorems, WellFoundedInduction, TLAPS

-----------------------------------------------------------------------------
(* Lists. *)

\* A set of naturals has a least element.
LEMMA LeastNatural ==
    ASSUME NEW T \in SUBSET Nat, T # {}
    PROVE  \E m \in T : \A k \in T : ~(k < m)
<1> DEFINE R == {ss \in Nat \X Nat : ss[1] < ss[2]}
<1>1. IsWellFoundedOn(R, Nat)
  BY NatLessThanWellFounded DEF OpToRel
<1>2. PICK m \in T : \A k \in T : <<k, m>> \notin R
  <2> HIDE DEF R
  <2> QED
    BY <1>1, WFMin
<1> QED
  BY <1>2

Increasing(list, n) == \A i, j \in 1 .. n : i < j => list[i] < list[j]

\* A finite set of naturals can be sorted: a least one that could not would have a smallest
\* element, and without it a set that can.
LEMMA SortedExists ==
    ASSUME NEW s \in SUBSET Nat, IsFiniteSet(s)
    PROVE  \E list \in [1 .. Cardinality(s) -> s] : Increasing(list, Cardinality(s))
<1> DEFINE Bad(u, n) == /\ IsFiniteSet(u) /\ Cardinality(u) = n
                        /\ ~\E list \in [1 .. n -> u] : Increasing(list, n)
           T == {n \in Nat : \E u \in SUBSET Nat : Bad(u, n)}
<1> SUFFICES T = {}
  <2>1. Cardinality(s) \in Nat
    BY FS_CardinalityType
  <2> QED
    BY <2>1
<1> SUFFICES ASSUME T # {} PROVE FALSE
  OBVIOUS
<1>1. PICK m \in T : \A k \in T : ~(k < m)
  <2>1. T \in SUBSET Nat
    OBVIOUS
  <2> HIDE DEF T
  <2> QED
    BY <2>1, LeastNatural
<1>2. PICK u \in SUBSET Nat : Bad(u, m)
  OBVIOUS
<1>3. m # 0
  <2> SUFFICES ASSUME m = 0 PROVE FALSE
    OBVIOUS
  <2>1. [i \in 1 .. 0 |-> 0] \in [1 .. m -> u] /\ Increasing([i \in 1 .. 0 |-> 0], m)
    BY DEF Increasing
  <2> QED
    BY <1>2, <2>1
<1>4. u # {}
  BY <1>2, <1>3, FS_EmptySet
<1>5. PICK x \in u : \A y \in u : ~(y < x)
  BY <1>4, LeastNatural
<1> DEFINE v == u \ {x}
<1>6. v \in SUBSET Nat /\ IsFiniteSet(v) /\ Cardinality(v) = m - 1 /\ m - 1 \in Nat /\ m - 1 < m
  BY <1>2, <1>3, FS_RemoveElement, SMTT(30)
<1>7. ~Bad(v, m - 1)
  BY <1>1, <1>6
<1>8. PICK list \in [1 .. m - 1 -> v] : Increasing(list, m - 1)
  BY <1>6, <1>7
<1> DEFINE more == [i \in 1 .. m |-> IF i = 1 THEN x ELSE list[i - 1]]
<1>9. \A i \in 1 .. m : i # 1 => i - 1 \in 1 .. m - 1 /\ list[i - 1] \in v
  BY <1>6, <1>8
<1>10. more \in [1 .. m -> u]
  BY <1>9
<1>11. ASSUME NEW i \in 1 .. m, NEW j \in 1 .. m, i < j
       PROVE  more[i] < more[j]
  <2>1. j # 1 /\ j - 1 \in 1 .. m - 1 /\ list[j - 1] \in v
    BY <1>9, <1>11
  <2>2. CASE i = 1
    <3>1. x < list[j - 1]
      <4>1. list[j - 1] \in u /\ list[j - 1] # x /\ list[j - 1] \in Nat /\ x \in Nat
        BY <2>1
      <4> QED
        BY <1>5, <4>1
    <3> QED
      BY <2>1, <2>2, <3>1
  <2>3. CASE i # 1
    <3>1. i - 1 \in 1 .. m - 1 /\ i - 1 < j - 1
      BY <1>9, <1>11, <2>3
    <3>2. list[i - 1] < list[j - 1]
      BY <1>8, <2>1, <3>1 DEF Increasing
    <3> QED
      BY <2>1, <2>3, <3>2
  <2> QED
    BY <2>2, <2>3
<1>12. Increasing(more, m)
  BY <1>11 DEF Increasing
<1> QED
  BY <1>2, <1>10, <1>12

\* Sorted is a list of a set, in increasing order.
LEMMA SortedType ==
    ASSUME NEW s \in SUBSET Nat, IsFiniteSet(s)
    PROVE  Sorted(s) \in Seq(Nat) /\ Increasing(Sorted(s), Cardinality(s))
<1>1. Cardinality(s) \in Nat
  BY FS_CardinalityType
<1>2. \E list \in [1 .. Cardinality(s) -> s] : Increasing(list, Cardinality(s))
  BY SortedExists
<1>3. /\ Sorted(s) \in [1 .. Cardinality(s) -> s]
      /\ Increasing(Sorted(s), Cardinality(s))
  BY <1>2 DEF Sorted, Increasing
<1>4. ASSUME NEW n \in Nat, NEW q \in [1 .. n -> s] PROVE q \in Seq(Nat)
  <2>1. q \in [1 .. n -> Nat]
    OBVIOUS
  <2> QED
    BY <2>1
<1> QED
  BY <1>1, <1>3, <1>4

-----------------------------------------------------------------------------
(* The elements of a list that are not one of them. *)

IsDistinct(list) == \A i, j \in DOMAIN list : list[i] = list[j] => i = j

LEMMA AppendedSet ==
    ASSUME NEW T, NEW q \in Seq(T), NEW x \in T
    PROVE  /\ ToSet(Append(q, x)) = ToSet(q) \cup {x}
           /\ IsDistinct(q) /\ x \notin ToSet(q) => IsDistinct(Append(q, x))
<1> DEFINE n == Len(q)
           r == Append(q, x)
<1>1. /\ r \in Seq(T) /\ n \in Nat /\ Len(r) = n + 1 /\ r[n + 1] = x
      /\ DOMAIN q = 1 .. n /\ DOMAIN r = 1 .. n + 1
  OBVIOUS
<1>2. \A i \in 1 .. n : r[i] = q[i]
  OBVIOUS
<1> HIDE DEF n, r
<1>3. ToSet(r) = ToSet(q) \cup {x}
  BY <1>1, <1>2 DEF ToSet
<1>4. ASSUME IsDistinct(q), x \notin ToSet(q) PROVE IsDistinct(r)
  <2>1. \A i \in 1 .. n : q[i] # x
    BY <1>1, <1>4 DEF ToSet
  <2>2. \A i, j \in 1 .. n : q[i] = q[j] => i = j
    BY <1>1, <1>4 DEF IsDistinct
  <2>3. \A i \in 1 .. n + 1 : i \in 1 .. n \/ i = n + 1
    BY <1>1
  <2> QED
    BY <1>1, <1>2, <2>1, <2>2, <2>3 DEF IsDistinct
<1> QED
  BY <1>3, <1>4 DEF r

\* What is written of a list when the domain d is removed.
OthersTo(s, d, o, i) == IF s[i] # d THEN Append(o[i - 1], s[i]) ELSE o[i - 1]
IsOthers(o, s, d, n) ==
    o = [i \in 0 .. n |-> IF i = 0 THEN <<>> ELSE OthersTo(s, d, o, i)]

LEMMA OthersExist ==
    ASSUME NEW s, NEW d, NEW n \in Nat
    PROVE  \E o : IsOthers(o, s, d, n)
<1> DEFINE T == {m \in Nat : ~\E o : IsOthers(o, s, d, m)}
<1> SUFFICES ASSUME T # {} PROVE FALSE
  OBVIOUS
<1>1. PICK m \in T : \A j \in T : ~(j < m)
  <2> HIDE DEF T
  <2>1. T \in SUBSET Nat
    BY DEF T
  <2> QED
    BY <2>1, LeastNatural
<1>2. CASE m = 0
  <2>1. IsOthers([i \in 0 .. 0 |-> <<>>], s, d, 0)
    BY DEF IsOthers
  <2> QED
    BY <1>2, <2>1
<1>3. CASE m # 0
  <2>1. m - 1 \in Nat /\ m \in Nat /\ m - 1 < m
    BY <1>3
  <2>2. PICK o : IsOthers(o, s, d, m - 1)
    BY <1>1, <2>1
  <2> DEFINE q == [i \in 0 .. m |-> IF i = m THEN OthersTo(s, d, o, m) ELSE o[i]]
  <2>3. \A i \in 0 .. m - 1 : o[i] = IF i = 0 THEN <<>> ELSE OthersTo(s, d, o, i)
    BY <2>2 DEF IsOthers
  <2>4. \A i \in 0 .. m : i # 0 => i - 1 \in 0 .. m - 1 /\ i - 1 # m /\ q[i - 1] = o[i - 1]
    BY <2>1
  <2>5. \A i \in 0 .. m : i # 0 => OthersTo(s, d, q, i) = OthersTo(s, d, o, i)
    BY <2>4 DEF OthersTo
  <2>6. \A i \in 0 .. m : q[i] = IF i = 0 THEN <<>> ELSE OthersTo(s, d, q, i)
    BY <1>3, <2>1, <2>3, <2>5
  <2>7. IsOthers(q, s, d, m)
    BY <2>6 DEF IsOthers
  <2> QED
    BY <2>7
<1> QED
  BY <1>2, <1>3

LEMMA WithoutIs ==
    ASSUME NEW T, NEW s \in Seq(T), NEW d
    PROVE  /\ Without(s, d) \in Seq(T)
           /\ ToSet(Without(s, d)) = ToSet(s) \ {d}
           /\ IsDistinct(s) => IsDistinct(Without(s, d))
<1> DEFINE n == Len(s)
<1>1. n \in Nat /\ DOMAIN s = 1 .. n
  OBVIOUS
<1>2. PICK o : Without(s, d) = o[n] /\ IsOthers(o, s, d, n)
  <2>1. Without(s, d) = (CHOOSE o : IsOthers(o, s, d, n))[n]
    BY DEF Without, IsOthers, OthersTo
  <2> QED
    BY <1>1, <2>1, OthersExist
<1>3. /\ o[0] = <<>>
      /\ \A i \in 1 .. n : o[i] = IF s[i] # d THEN Append(o[i - 1], s[i]) ELSE o[i - 1]
  <2>1. \A i \in 0 .. n : o[i] = IF i = 0 THEN <<>> ELSE OthersTo(s, d, o, i)
    BY <1>2 DEF IsOthers
  <2> QED
    BY <1>1, <2>1 DEF OthersTo
<1> DEFINE First(i) == {s[j] : j \in 1 .. i}
           Good(i) == /\ o[i] \in Seq(T) /\ ToSet(o[i]) = First(i) \ {d}
                      /\ IsDistinct(s) => IsDistinct(o[i])
           W == {i \in 0 .. n : ~Good(i)}
<1>4. W = {}
  <2> SUFFICES ASSUME W # {} PROVE FALSE
    OBVIOUS
  <2>1. PICK m \in W : \A j \in W : ~(j < m)
    <3>1. W \in SUBSET Nat
      BY <1>1
    <3> HIDE DEF W
    <3> QED
      BY <3>1, LeastNatural
  <2>2. m # 0
    <3>1. o[0] \in Seq(T) /\ ToSet(o[0]) = {} /\ IsDistinct(o[0])
      BY <1>3 DEF ToSet, IsDistinct
    <3>2. First(0) = {}
      OBVIOUS
    <3>3. Good(0)
      BY <3>1, <3>2
    <3> QED
      BY <2>1, <3>3
  <2>3. m \in 1 .. n /\ m - 1 \in 0 .. n /\ m - 1 < m /\ m \in Nat
    BY <1>1, <2>1, <2>2
  <2>4. Good(m - 1)
    BY <2>1, <2>3
  <2>5. s[m] \in T
    BY <2>3
  <2>6. First(m) = First(m - 1) \cup {s[m]}
    <3>1. 1 .. m = (1 .. m - 1) \cup {m}
      BY <2>3
    <3> QED
      BY <3>1
  <2>7. IsDistinct(s) => s[m] \notin First(m - 1)
    BY <1>1, <2>3 DEF IsDistinct
  <2>8. CASE s[m] = d
    <3>1. o[m] = o[m - 1]
      BY <1>3, <2>3, <2>8
    <3>2. First(m) \ {d} = First(m - 1) \ {d}
      BY <2>6, <2>8
    <3>3. Good(m)
      BY <2>4, <3>1, <3>2
    <3> QED
      BY <2>1, <3>3
  <2>9. CASE s[m] # d
    <3>1. o[m] = Append(o[m - 1], s[m])
      BY <1>3, <2>3, <2>9
    <3> HIDE DEF First
    <3>2. /\ o[m] \in Seq(T)
          /\ ToSet(o[m]) = ToSet(o[m - 1]) \cup {s[m]}
          /\ IsDistinct(o[m - 1]) /\ s[m] \notin ToSet(o[m - 1]) => IsDistinct(o[m])
      BY <2>4, <2>5, <3>1, AppendedSet
    <3>3. First(m) \ {d} = (First(m - 1) \ {d}) \cup {s[m]}
      BY <2>6, <2>9
    <3>4. Good(m)
      BY <2>4, <2>7, <3>2, <3>3
    <3> QED
      BY <2>1, <3>4
  <2> QED
    BY <2>8, <2>9
<1>5. Good(n)
  <2>1. n \in 0 .. n
    BY <1>1
  <2> QED
    BY <1>4, <2>1
<1>6. First(n) = ToSet(s)
  BY <1>1 DEF ToSet
<1> QED
  BY <1>2, <1>5, <1>6

\* What is written when a domain is added or removed.
LEMMA NewDomainsIs ==
    ASSUME NEW list \in Seq(Nat), NEW d \in Nat, NEW op
    PROVE  LET new == NewDomains(list, d, op)
           IN  /\ new \in Seq(Nat)
               /\ ToSet(new) = IF op = "domain add" THEN ToSet(list) \cup {d} ELSE ToSet(list) \ {d}
               /\ IsDistinct(list) => IsDistinct(new)
<1>1. CASE op = "domain add" /\ d \in ToSet(list)
  BY <1>1 DEF NewDomains, maybeAppendDomain
<1>2. CASE op = "domain add" /\ d \notin ToSet(list)
  <2>1. NewDomains(list, d, op) = Append(list, d)
    BY <1>2 DEF NewDomains, maybeAppendDomain
  <2>2. Append(list, d) \in Seq(Nat)
    OBVIOUS
  <2>3. /\ ToSet(Append(list, d)) = ToSet(list) \cup {d}
        /\ IsDistinct(list) => IsDistinct(Append(list, d))
    BY <1>2, AppendedSet, ZenonT(60)
  <2> QED
    BY <1>2, <2>1, <2>2, <2>3
<1>3. CASE op # "domain add"
  BY <1>3, WithoutIs DEF NewDomains
<1> QED
  BY <1>1, <1>2, <1>3

-----------------------------------------------------------------------------
(* The steps of a command: each changes some fields of its state. *)

Fields == {"cmd", "runs", "pc", "shown", "todo", "args", "read", "base", "said", "applied", "ret"}

\* The places before any argument is done; at the last of these no list is handled.
Others == {"check", "confirm", "do", "run", "create"}
Early  == {"start", "show", "choose"} \cup Others

\* A command that is of no list, and scale with its argument.
MayDo(cmd) == cmd.op \notin Lists /\ (cmd.op = "scale" => cmd.args # <<>>)

Moves(c) ==
    /\ client[c].pc \in Early
    /\ \E to \in Early : /\ to \in Others => client[c].pc \in Others \/ MayDo(client[c].cmd)
                         /\ Change(c, [pc |-> to])

EndsBadly(c) == \E ret \in {"error", "canceled", "panic"} : Ends(c, ret)

EndsWell(c) == /\ \/ Op(c) \notin Lists \/ client[c].pc \in Others
                  \/ At(c, "next") /\ client[c].todo = <<>>
               /\ Ends(c, "ok")

Sees(c) == /\ At(c, "show")
           /\ \E s \in {ToSet(domains), env} : Change(c, [pc |-> "choose", shown |-> Sorted(s)])

Selects(c) == /\ At(c, "choose") /\ Op(c) # "env replace"
              /\ LET args == Chosen(client[c].cmd, client[c].shown)
                 IN  Change(c, [pc |-> "next", todo |-> args, args |-> args])

Gets(c) == /\ At(c, "next") /\ client[c].todo # <<>> /\ IsDomain(c)
           /\ Change(c, [pc |-> "put", read |-> domains, base |-> version])

Does(c) == /\ At(c, "put") \/ (At(c, "next") /\ client[c].todo # <<>> /\ ~IsDomain(c))
           /\ Change(c, Done(c)) \/ Change(c, Lost(c))

Replaces(c) ==
    /\ Op(c) = "env replace" /\ At(c, "choose")
    /\ LET all == client[c].cmd.args
       IN  \/ Change(c, [pc |-> "done", ret |-> "ok", args |-> all, said |-> all, applied |-> all])
           \/ Change(c, [pc |-> "done", ret |-> "error", args |-> all, applied |-> all])

ClientStep(c) == \/ Again(c) \/ Moves(c) \/ EndsBadly(c) \/ EndsWell(c) \/ Sees(c) \/ Selects(c)
                 \/ Gets(c) \/ Does(c) \/ Replaces(c)

LEMMA ClientSteps == ASSUME NEW c, Step(c) PROVE ClientStep(c)
<1> USE DEF At, Op, IsDomain, IsEnv, Quiet, Early, Others, Lists, MayDo
<1>1. CASE Again(c)
  BY <1>1 DEF ClientStep
<1>2. CASE \/ DomainCmdRun(c) \/ domainAddRun(c) \/ domainRemoveRun(c) \/ EnvCmdRun(c)
           \/ envSetRun(c) \/ envUnsetRun(c)
  <2>1. Moves(c) \/ EndsBadly(c)
    BY <1>2 DEF DomainCmdRun, domainAddRun, domainRemoveRun, EnvCmdRun, envSetRun, envUnsetRun,
                Goto, Fails, Moves, EndsBadly
  <2> QED
    BY <2>1 DEF ClientStep
<1>3. CASE ShowDomains(c) \/ ShowEnvs(c)
  <2>1. Sees(c) \/ EndsBadly(c)
    BY <1>3 DEF ShowDomains, ShowEnvs, ShowList, Fails, Sees, EndsBadly
  <2> QED
    BY <2>1 DEF ClientStep
<1>4. CASE getAddDomains(c) \/ getDeleteDomains(c) \/ getAddEnvs(c) \/ getDeleteEnvKeys(c)
  <2>1. Selects(c) \/ EndsBadly(c)
    BY <1>4 DEF getAddDomains, getDeleteDomains, getAddEnvs, getDeleteEnvKeys, Choose, Fails,
                Selects, EndsBadly
  <2> QED
    BY <2>1 DEF ClientStep
<1>5. CASE DomainCmdEnds(c) \/ EnvCmdEnds(c)
  <2>1. EndsWell(c) \/ EndsBadly(c)
    BY <1>5 DEF DomainCmdEnds, EnvCmdEnds, ShowAgain, Fails, EndsWell, EndsBadly
  <2> QED
    BY <2>1 DEF ClientStep
<1>6. CASE AddDomain(c) \/ RemoveDomain(c)
  <2>1. Gets(c) \/ EndsBadly(c)
    BY <1>6 DEF AddDomain, RemoveDomain, GetDomains, Fails, Gets, EndsBadly
  <2> QED
    BY <2>1 DEF ClientStep
<1>7. CASE updateDomains(c) \/ AddEnv(c) \/ DeleteEnv(c)
  <2>1. Does(c) \/ EndsBadly(c)
    BY <1>7 DEF updateDomains, AddEnv, DeleteEnv, Write, Fails, Does, EndsBadly
  <2> QED
    BY <2>1 DEF ClientStep
<1>8. CASE Replace(c)
  <2>1. Replaces(c) \/ EndsBadly(c)
    BY <1>8 DEF Replace, Write, Fails, Replaces, EndsBadly
  <2> QED
    BY <2>1 DEF ClientStep
<1>9. CASE \/ getInstancesNumber(c) \/ restartRun(c) \/ deleteRun(c) \/ checkServiceExists(c)
           \/ confirmation(c)
  <2>1. Moves(c) \/ EndsWell(c) \/ EndsBadly(c)
    BY <1>9 DEF getInstancesNumber, restartRun, deleteRun, checkServiceExists, confirmation, Goto,
                Fails, Moves, EndsWell, EndsBadly
  <2> QED
    BY <2>1 DEF ClientStep
<1>10. CASE doScale(c) \/ doRestart(c) \/ doDelete(c) \/ createService(c) \/ createProject(c)
  <2>1. EndsWell(c) \/ EndsBadly(c)
    BY <1>10 DEF doScale, doRestart, doDelete, createService, createProject, Write, Fails, Finished,
                 Unanswered, Ends, EndsWell, EndsBadly
  <2> QED
    BY <2>1 DEF ClientStep
<1>11. CASE newRun(c) \/ newServiceRun(c) \/ newProjectRun(c) \/ MaybeID(c)
  <2>1. Moves(c) \/ EndsWell(c) \/ EndsBadly(c)
    BY <1>11 DEF newRun, newServiceRun, newProjectRun, MaybeID, Goto, Fails, Moves, EndsWell,
                 EndsBadly
  <2> QED
    BY <2>1 DEF ClientStep
<1> QED
  BY <1>1, <1>2, <1>3, <1>4, <1>5, <1>6, <1>7, <1>8, <1>9, <1>10, <1>11 DEF Step

\* What Change does, field by field.
LEMMA UpdatedIs ==
    ASSUME NEW k \in ClientState, NEW fields, DOMAIN fields \subseteq Fields
    PROVE  LET n == Updated(k, fields)
           IN  /\ n = [f \in Fields |-> n[f]]
               /\ \A f \in DOMAIN fields : n[f] = fields[f]
               /\ \A f \in Fields \ DOMAIN fields : n[f] = k[f]
<1>1. DOMAIN k = Fields
  BY DEF ClientState, Fields
<1> QED
  BY <1>1 DEF Updated

LEMMA Changed ==
    ASSUME client \in [Clients -> ClientState], NEW c \in Clients, NEW fields, Change(c, fields),
           DOMAIN fields \subseteq Fields
    PROVE  /\ client'[c] = [f \in Fields |-> client'[c][f]]
           /\ \A f \in DOMAIN fields : client'[c][f] = fields[f]
           /\ \A f \in Fields \ DOMAIN fields : client'[c][f] = client[c][f]
           /\ client' = [client EXCEPT ![c] = client'[c]]
<1>1. client'[c] = Updated(client[c], fields) /\ client' = [client EXCEPT ![c] = client'[c]]
  BY DEF Change
<1>2. client[c] \in ClientState
  OBVIOUS
<1> HIDE DEF Change
<1>3. LET n == Updated(client[c], fields)
      IN  /\ n = [f \in Fields |-> n[f]]
          /\ \A f \in DOMAIN fields : n[f] = fields[f]
          /\ \A f \in Fields \ DOMAIN fields : n[f] = client[c][f]
  BY <1>2, UpdatedIs
<1> QED
  BY <1>1, <1>3

\* The same steps, as relations between the states of the command before and after.
Same(k, n, F) == \A f \in F : n[f] = k[f]

ListFields == {"shown", "todo", "args", "read", "said", "applied"}

Restarted(k, n) == /\ n.runs = k.runs + 1 /\ k.runs < MaxRuns
                   /\ n.pc = "start" /\ n.ret = "none" /\ n.base = 0
                   /\ \A f \in ListFields : n[f] = <<>>

Moved(k, n) == /\ k.pc \in Early /\ n.pc \in Early
               /\ n.pc \in Others => k.pc \in Others \/ MayDo(k.cmd)
               /\ Same(k, n, ListFields \cup {"runs", "base", "ret"})

Ended(k, n) == /\ n.pc = "done" /\ n.ret \in {"ok", "error", "canceled", "panic"}
               /\ n.ret = "ok" => \/ k.cmd.op \notin Lists \/ k.pc \in Others
                                  \/ k.pc = "next" /\ k.todo = <<>>
               /\ Same(k, n, ListFields \cup {"runs", "base"})

Saw(k, n) == /\ k.pc = "show" /\ n.pc = "choose"
             /\ n.shown \in {Sorted(ToSet(domains)), Sorted(env)}
             /\ Same(k, n, (ListFields \ {"shown"}) \cup {"runs", "base", "ret"})

Selected(k, n) == /\ k.pc = "choose" /\ n.pc = "next" /\ k.cmd.op # "env replace"
                  /\ n.args = Chosen(k.cmd, k.shown) /\ n.todo = Chosen(k.cmd, k.shown)
                  /\ Same(k, n, {"shown", "read", "said", "applied", "runs", "base", "ret"})

Got(k, n) == /\ k.pc = "next" /\ n.pc = "put" /\ k.todo # <<>>
             /\ k.cmd.op \in {"domain add", "domain rm"}
             /\ n.read = domains /\ n.base = version
             /\ Same(k, n, {"shown", "todo", "args", "said", "applied", "runs", "ret"})

Did(k, n) == /\ k.pc = "put" \/ (k.pc = "next" /\ k.todo # <<>>)
             /\ n.pc = "next" /\ n.todo = Tail(k.todo) /\ n.read = <<>> /\ n.base = 0
             /\ n.said = Append(k.said, Head(k.todo))
             /\ n.applied = Append(k.applied, Head(k.todo))
             /\ Same(k, n, {"shown", "args", "runs", "ret"})

LostIt(k, n) == /\ k.pc = "put" \/ (k.pc = "next" /\ k.todo # <<>>)
                /\ n.pc = "done" /\ n.ret = "error"
                /\ n.applied = Append(k.applied, Head(k.todo))
                /\ Same(k, n, (ListFields \ {"applied"}) \cup {"runs", "base"})

Replaced(k, n) == /\ k.cmd.op = "env replace" /\ k.pc = "choose" /\ n.pc = "done"
                  /\ n.args = k.cmd.args /\ n.applied = k.cmd.args
                  /\ \/ n.ret = "ok" /\ n.said = k.cmd.args
                     \/ n.ret = "error" /\ n.said = k.said
                  /\ Same(k, n, {"shown", "todo", "read", "runs", "base"})

Changes(k, n) == Restarted(k, n) \/ Moved(k, n) \/ Ended(k, n) \/ Saw(k, n) \/ Selected(k, n)
                 \/ Got(k, n) \/ Did(k, n) \/ LostIt(k, n) \/ Replaced(k, n)

LEMMA ClientChanges ==
    ASSUME client \in [Clients -> ClientState], NEW c \in Clients, ClientStep(c)
    PROVE  LET k == client[c]
               n == client'[c]
           IN  /\ client' = [client EXCEPT ![c] = n]
               /\ n = [f \in Fields |-> n[f]]
               /\ n.cmd = k.cmd
               /\ Changes(k, n)
<1> DEFINE k == client[c]
           n == client'[c]
           Goal == /\ client' = [client EXCEPT ![c] = n]
                   /\ n = [f \in Fields |-> n[f]]
                   /\ n.cmd = k.cmd
                   /\ Changes(k, n)
<1>1. CASE Again(c)
  <2>1. n = [Start(k.cmd) EXCEPT !.runs = k.runs + 1] /\ k.runs < MaxRuns
        /\ client' = [client EXCEPT ![c] = n]
    BY <1>1 DEF Again
  <2> DEFINE m == [Start(k.cmd) EXCEPT !.runs = k.runs + 1]
  <2>2. /\ m = [f \in Fields |-> m[f]] /\ m.cmd = k.cmd /\ m.runs = k.runs + 1 /\ m.pc = "start"
        /\ m.ret = "none" /\ m.base = 0
        /\ m.shown = <<>> /\ m.todo = <<>> /\ m.args = <<>> /\ m.read = <<>> /\ m.said = <<>>
        /\ m.applied = <<>>
    BY DEF Start, Fields
  <2> HIDE DEF m
  <2>3. n = m
    BY <2>1 DEF m
  <2> HIDE DEF k, n
  <2>4. Restarted(k, n)
    BY <2>1, <2>2, <2>3 DEF Restarted, ListFields
  <2> QED
    BY <2>1, <2>2, <2>3, <2>4 DEF Changes, k, n
<1>2. ASSUME NEW fields, Change(c, fields), DOMAIN fields \subseteq Fields, "cmd" \notin DOMAIN fields
      PROVE  /\ client' = [client EXCEPT ![c] = n]
             /\ n = [f \in Fields |-> n[f]] /\ n.cmd = k.cmd
             /\ \A f \in DOMAIN fields : n[f] = fields[f]
             /\ \A f \in Fields \ DOMAIN fields : n[f] = k[f]
  BY <1>2, Changed DEF Fields
<1> HIDE DEF k, n
<1> USE DEF Fields, ListFields, Same
<1>3. CASE Moves(c)
  <2>1. PICK to \in Early : /\ k.pc \in Early
                            /\ to \in Others => k.pc \in Others \/ MayDo(k.cmd)
                            /\ Change(c, [pc |-> to])
    BY <1>3 DEF Moves, Op, k
  <2>2. Moved(k, n) /\ n.cmd = k.cmd
    BY <1>2, <2>1 DEF Moved
  <2> QED
    BY <1>2, <2>1, <2>2 DEF Changes, k, n
<1>4. CASE EndsBadly(c) \/ EndsWell(c)
  <2>1. PICK ret \in {"ok", "error", "canceled", "panic"} :
            /\ ret = "ok" => \/ k.cmd.op \notin Lists \/ k.pc \in Others
                             \/ k.pc = "next" /\ k.todo = <<>>
            /\ Change(c, [pc |-> "done", ret |-> ret])
    BY <1>4 DEF EndsBadly, EndsWell, Ends, Op, At, k
  <2>2. Ended(k, n) /\ n.cmd = k.cmd
    BY <1>2, <2>1 DEF Ended
  <2> QED
    BY <1>2, <2>1, <2>2 DEF Changes, k, n
<1>5. CASE Sees(c)
  <2>1. PICK s \in {ToSet(domains), env} : /\ k.pc = "show"
                                           /\ Change(c, [pc |-> "choose", shown |-> Sorted(s)])
    BY <1>5 DEF Sees, At, k
  <2>2. Saw(k, n) /\ n.cmd = k.cmd
    BY <1>2, <2>1 DEF Saw
  <2> QED
    BY <1>2, <2>1, <2>2 DEF Changes, k, n
<1>6. CASE Selects(c)
  <2> DEFINE args == Chosen(k.cmd, k.shown)
  <2>1. k.pc = "choose" /\ Change(c, [pc |-> "next", todo |-> args, args |-> args])
    BY <1>6 DEF Selects, At, k
  <2> HIDE DEF args
  <2>2. n.pc = "next" /\ n.todo = args /\ n.args = args
        /\ Same(k, n, {"shown", "read", "said", "applied", "runs", "base", "ret"})
    BY <1>2, <2>1
  <2>3. k.cmd.op # "env replace"
    BY <1>6 DEF Selects, Op, k
  <2>4. Selected(k, n)
    BY <2>1, <2>2, <2>3 DEF Selected, args
  <2> QED
    BY <1>2, <2>1, <2>4 DEF Changes, k, n
<1>7. CASE Gets(c)
  <2>1. /\ k.pc = "next" /\ k.todo # <<>> /\ k.cmd.op \in {"domain add", "domain rm"}
        /\ Change(c, [pc |-> "put", read |-> domains, base |-> version])
    BY <1>7 DEF Gets, At, IsDomain, Op, k
  <2> DEFINE fields == [pc |-> "put", read |-> domains, base |-> version]
  <2>2. n.pc = "put" /\ n.read = domains /\ n.base = version
        /\ Same(k, n, {"shown", "todo", "args", "said", "applied", "runs", "ret"})
    <3>1. DOMAIN fields = {"pc", "read", "base"}
      OBVIOUS
    <3>2. fields.pc = "put" /\ fields.read = domains /\ fields.base = version
      OBVIOUS
    <3> HIDE DEF fields
    <3> QED
      BY <1>2, <2>1, <3>1, <3>2 DEF fields
  <2>3. Got(k, n)
    BY <2>1, <2>2 DEF Got
  <2> QED
    BY <1>2, <2>1, <2>3 DEF Changes, k, n
<1>8. CASE Does(c)
  <2>1. k.pc = "put" \/ (k.pc = "next" /\ k.todo # <<>>)
    BY <1>8 DEF Does, At, k
  <2>2. CASE Change(c, Done(c))
    <3> DEFINE t == Tail(k.todo)
               s == Append(k.said, Head(k.todo))
               a == Append(k.applied, Head(k.todo))
    <3>1. Change(c, [pc |-> "next", todo |-> t, read |-> <<>>, base |-> 0, said |-> s, applied |-> a])
      BY <2>2 DEF Done, This, k
    <3> HIDE DEF t, s, a
    <3>2. /\ n.pc = "next" /\ n.todo = t /\ n.read = <<>> /\ n.base = 0 /\ n.said = s
          /\ n.applied = a
          /\ Same(k, n, {"shown", "args", "runs", "ret"})
      BY <1>2, <3>1
    <3>3. Did(k, n)
      BY <2>1, <3>2 DEF Did, t, s, a
    <3> QED
      BY <1>2, <3>1, <3>3 DEF Changes, k, n
  <2>3. CASE Change(c, Lost(c))
    <3> DEFINE a == Append(k.applied, Head(k.todo))
    <3>1. Change(c, [pc |-> "done", ret |-> "error", applied |-> a])
      BY <2>3 DEF Lost, This, k
    <3> HIDE DEF a
    <3>2. /\ n.pc = "done" /\ n.ret = "error" /\ n.applied = a
          /\ Same(k, n, (ListFields \ {"applied"}) \cup {"runs", "base"})
      BY <1>2, <3>1
    <3>3. LostIt(k, n)
      BY <2>1, <3>2 DEF LostIt, a
    <3> QED
      BY <1>2, <3>1, <3>3 DEF Changes, k, n
  <2> QED
    BY <1>8, <2>2, <2>3 DEF Does
<1>9. CASE Replaces(c)
  <2> DEFINE all == k.cmd.args
  <2>1. k.cmd.op = "env replace" /\ k.pc = "choose"
    BY <1>9 DEF Replaces, Op, At, k
  <2>0. ASSUME NEW a, n.pc = "done", n.args = a, n.applied = a, a = all,
               Same(k, n, {"shown", "todo", "read", "runs", "base"}),
               (n.ret = "ok" /\ n.said = a) \/ (n.ret = "error" /\ n.said = k.said)
        PROVE  Replaced(k, n)
    BY <2>0, <2>1 DEF Replaced
  <2> HIDE DEF all
  <2>2. CASE Change(c, [pc |-> "done", ret |-> "ok", args |-> all, said |-> all, applied |-> all])
    <3>1. /\ n.pc = "done" /\ n.args = all /\ n.applied = all /\ n.ret = "ok" /\ n.said = all
          /\ Same(k, n, {"shown", "todo", "read", "runs", "base"})
      BY <1>2, <2>2
    <3> QED
      BY <1>2, <2>0, <2>2, <3>1 DEF Changes, k, n
  <2>3. CASE Change(c, [pc |-> "done", ret |-> "error", args |-> all, applied |-> all])
    <3>1. /\ n.pc = "done" /\ n.args = all /\ n.applied = all /\ n.ret = "error"
          /\ n.said = k.said
          /\ Same(k, n, {"shown", "todo", "read", "runs", "base"})
      BY <1>2, <2>3
    <3> QED
      BY <1>2, <2>0, <2>3, <3>1 DEF Changes, k, n
  <2> QED
    BY <1>9, <2>2, <2>3 DEF Replaces, k, all
<1> QED
  BY <1>1, <1>3, <1>4, <1>5, <1>6, <1>7, <1>8, <1>9 DEF ClientStep, k, n

-----------------------------------------------------------------------------
(* The steps of the server. *)

ServerStep(c) ==
    \/ UNCHANGED server
    \/ At(c, "put") /\ PutDomains(c)
    \/ /\ \/ /\ At(c, "next") /\ client[c].todo # <<>>
             /\ env' \in {env \cup {This(c)}, env \ {This(c)}}
          \/ env' = ToSet(client[c].cmd.args)
       /\ UNCHANGED <<project, service, domains, scale, version, wanted, raced>>
    \/ /\ Op(c) = "scale" /\ At(c, "do") /\ scale' = client[c].cmd.args[1]
       /\ UNCHANGED <<project, service, domains, env, version, wanted, raced>>
    \/ /\ At(c, "do") /\ Gone
       /\ project' \in {project, ""}
    \/ /\ service' \in {service, TRUE} /\ project' \in Regions \cup {client[c].cmd.region, project}
       /\ UNCHANGED <<domains, env, scale, version, wanted, raced>>

LEMMA ServerSteps == ASSUME NEW c, Step(c) PROVE ServerStep(c)
<1>1. CASE \/ Again(c) \/ DomainCmdRun(c) \/ domainAddRun(c) \/ domainRemoveRun(c)
           \/ EnvCmdRun(c) \/ envSetRun(c) \/ envUnsetRun(c)
           \/ ShowDomains(c) \/ ShowEnvs(c) \/ getAddDomains(c) \/ getDeleteDomains(c)
           \/ getAddEnvs(c) \/ getDeleteEnvKeys(c) \/ DomainCmdEnds(c) \/ EnvCmdEnds(c)
           \/ AddDomain(c) \/ RemoveDomain(c)
  BY <1>1 DEF Again, DomainCmdRun, domainAddRun, domainRemoveRun, EnvCmdRun, envSetRun, envUnsetRun,
              ShowDomains, ShowEnvs, ShowList, getAddDomains, getDeleteDomains, getAddEnvs,
              getDeleteEnvKeys, Choose, DomainCmdEnds, EnvCmdEnds, ShowAgain, AddDomain,
              RemoveDomain, GetDomains, Goto, Fails, Quiet, ServerStep
<1>2. CASE updateDomains(c)
  BY <1>2 DEF updateDomains, Write, Fails, Quiet, ServerStep
<1>3. CASE AddEnv(c) \/ DeleteEnv(c) \/ Replace(c)
  BY <1>3 DEF AddEnv, DeleteEnv, Replace, SetEnvironmentVariable, UnsetEnvironmentVariable,
              SetEnvironmentVariables, Write, Fails, Quiet, ServerStep
<1>4. CASE \/ getInstancesNumber(c) \/ restartRun(c) \/ deleteRun(c) \/ checkServiceExists(c)
           \/ confirmation(c) \/ doRestart(c) \/ newRun(c) \/ newServiceRun(c) \/ newProjectRun(c)
           \/ MaybeID(c)
  BY <1>4 DEF getInstancesNumber, restartRun, deleteRun, checkServiceExists, confirmation, doRestart,
              newRun, newServiceRun, newProjectRun, MaybeID, Goto, Fails, Quiet, Write, ServerStep
<1>5. CASE doScale(c)
  BY <1>5 DEF doScale, Write, Fails, Quiet, ServerStep
<1>6. CASE doDelete(c)
  BY <1>6 DEF doDelete, Write, Fails, Quiet, ServerStep
<1>7. CASE createService(c) \/ createProject(c)
  BY <1>7 DEF createService, createProject, Write, Fails, Quiet, ServerStep
<1> QED
  BY <1>1, <1>2, <1>3, <1>4, <1>5, <1>6, <1>7 DEF Step

-----------------------------------------------------------------------------
(* Types. *)

ServerType ==
    /\ project \in Regions \cup {""}
    /\ service \in BOOLEAN
    /\ domains \in Seq(Nat)
    /\ env \in SUBSET Nat /\ IsFiniteSet(env)
    /\ scale \in Nat /\ version \in Nat
    /\ wanted \in SUBSET Nat
    /\ raced \in BOOLEAN

\* Domains are written for an argument that is due, by a command about domains; what is done
\* after the checks is of no list.
Due(k) == /\ k.pc = "put" => k.todo # <<>> /\ k.cmd.op \in {"domain add", "domain rm"}
          /\ k.pc \in Others => MayDo(k.cmd)

TypeInv == /\ ServerType
           /\ client \in [Clients -> ClientState]
           /\ \A c \in Clients : Due(client[c])

LEMMA ToSetType ==
    ASSUME NEW q \in Seq(Nat)
    PROVE  ToSet(q) \in SUBSET Nat /\ IsFiniteSet(ToSet(q))
<1> DEFINE n == Len(q)
<1>1. n \in Nat /\ DOMAIN q = 1 .. n /\ \A i \in 1 .. n : q[i] \in Nat
  OBVIOUS
<1>2. IsFiniteSet(1 .. n)
  BY <1>1, FS_Interval
<1>3. q \in Surjection(1 .. n, ToSet(q))
  <2>1. q \in [1 .. n -> ToSet(q)]
    BY <1>1 DEF ToSet
  <2>2. \A t \in ToSet(q) : \E i \in 1 .. n : q[i] = t
    BY <1>1 DEF ToSet
  <2> QED
    BY <2>1, <2>2 DEF Surjection
<1>4. IsFiniteSet(ToSet(q))
  BY <1>2, <1>3, FS_Surjection
<1> QED
  BY <1>1, <1>4 DEF ToSet

LEMMA ChosenType ==
    ASSUME NEW cmd \in Commands, NEW shown \in Seq(Nat)
    PROVE  Chosen(cmd, shown) \in Seq(Nat) /\ cmd.args \in Seq(Nat)
<1>1. cmd.args \in Seq(Nat)
  BY ServicesAssumption DEF Command
<1>2. \A answer : getDomainOrOption(answer, shown) \in Nat
  BY DEF getDomainOrOption
<1> DEFINE picked == [i \in DOMAIN cmd.args |-> getDomainOrOption(cmd.args[i], shown)]
<1>3. picked \in Seq(Nat)
  <2>1. Len(cmd.args) \in Nat /\ DOMAIN cmd.args = 1 .. Len(cmd.args)
    BY <1>1
  <2>2. picked \in [1 .. Len(cmd.args) -> Nat]
    BY <1>2, <2>1
  <2> HIDE DEF picked
  <2> QED
    BY <2>1, <2>2
<1> QED
  BY <1>1, <1>3 DEF Chosen

LEMMA StateType ==
    ASSUME NEW n, n = [f \in Fields |-> n[f]], n.cmd \in Commands, n.runs \in 1 .. MaxRuns,
           n.pc \in Early \cup {"next", "put", "done"}, n.base \in Nat,
           n.ret \in {"none", "ok", "error", "canceled", "panic"},
           \A f \in ListFields : n[f] \in Seq(Nat)
    PROVE  n \in ClientState
  BY DEF ClientState, Fields, ListFields, Early, Others

LEMMA FieldTypes ==
    ASSUME NEW k \in ClientState
    PROVE  /\ k.cmd \in Commands /\ k.runs \in 1 .. MaxRuns /\ k.base \in Nat
           /\ k.pc \in Early \cup {"next", "put", "done"}
           /\ k.ret \in {"none", "ok", "error", "canceled", "panic"}
           /\ \A f \in ListFields : k[f] \in Seq(Nat)
           /\ k.todo \in Seq(Nat) /\ k.said \in Seq(Nat) /\ k.applied \in Seq(Nat)
           /\ k.args \in Seq(Nat) /\ k.shown \in Seq(Nat) /\ k.read \in Seq(Nat)
  BY DEF ClientState, ListFields, Early, Others

LEMMA ChangeType ==
    ASSUME ServerType, NEW k \in ClientState, Due(k), NEW n, n.cmd = k.cmd, Changes(k, n),
           n = [f \in Fields |-> n[f]]
    PROVE  n \in ClientState /\ Due(n)
<1>1. /\ n.runs \in 1 .. MaxRuns
      /\ n.pc \in Early \cup {"next", "put", "done"}
      /\ n.base \in Nat
      /\ n.ret \in {"none", "ok", "error", "canceled", "panic"}
  <2>1. k.runs \in 1 .. MaxRuns /\ k.base \in Nat /\ MaxRuns \in Nat /\ version \in Nat
        /\ k.ret \in {"none", "ok", "error", "canceled", "panic"}
    BY FieldTypes, ServicesAssumption DEF ServerType
  <2> USE DEF Same, ListFields
  <2>2. n.runs \in {k.runs, k.runs + 1} /\ (n.runs = k.runs \/ k.runs < MaxRuns)
    BY DEF Changes, Restarted, Moved, Ended, Saw, Selected, Got, Did, LostIt, Replaced
  <2>3. n.pc \in Early \cup {"next", "put", "done"}
    BY DEF Changes, Restarted, Moved, Ended, Saw, Selected, Got, Did, LostIt, Replaced, Early
  <2>4. n.base \in {k.base, version, 0}
    BY DEF Changes, Restarted, Moved, Ended, Saw, Selected, Got, Did, LostIt, Replaced
  <2>5. n.ret \in {k.ret, "none", "ok", "error", "canceled", "panic"}
    BY DEF Changes, Restarted, Moved, Ended, Saw, Selected, Got, Did, LostIt, Replaced
  <2> QED
    BY <2>1, <2>2, <2>3, <2>4, <2>5
<1>2. ASSUME NEW f \in ListFields PROVE n[f] \in Seq(Nat)
  <2>1. /\ k[f] \in Seq(Nat) /\ k.todo \in Seq(Nat) /\ k.said \in Seq(Nat)
        /\ k.applied \in Seq(Nat) /\ k.shown \in Seq(Nat) /\ domains \in Seq(Nat)
    BY FieldTypes DEF ServerType
  <2>2. k.cmd.args \in Seq(Nat) /\ Chosen(k.cmd, k.shown) \in Seq(Nat)
    BY FieldTypes, ChosenType
  <2>3. Sorted(ToSet(domains)) \in Seq(Nat) /\ Sorted(env) \in Seq(Nat)
    BY <2>1, ToSetType, SortedType DEF ServerType
  <2>4. k.todo # <<>> => /\ Tail(k.todo) \in Seq(Nat)
                         /\ Append(k.said, Head(k.todo)) \in Seq(Nat)
                         /\ Append(k.applied, Head(k.todo)) \in Seq(Nat)
    BY <2>1
  <2>5. k.pc = "put" => k.todo # <<>>
    BY DEF Due
  <2>6. <<>> \in Seq(Nat)
    OBVIOUS
  <2>7. CASE Restarted(k, n)
    BY <2>6, <2>7 DEF Restarted
  <2>8. CASE Moved(k, n) \/ Ended(k, n)
    BY <2>1, <2>8 DEF Moved, Ended, Same
  <2>9. CASE Saw(k, n)
    BY <2>1, <2>3, <2>9 DEF Saw, Same
  <2>10. CASE Selected(k, n)
    BY <2>1, <2>2, <2>10 DEF Selected, Same, ListFields
  <2>11. CASE Got(k, n)
    BY <2>1, <2>11 DEF Got, Same, ListFields
  <2>12. CASE Did(k, n) \/ LostIt(k, n)
    BY <2>1, <2>4, <2>5, <2>6, <2>12 DEF Did, LostIt, Same, ListFields
  <2>13. CASE Replaced(k, n)
    BY <2>1, <2>2, <2>13 DEF Replaced, Same, ListFields
  <2> QED
    BY <2>7, <2>8, <2>9, <2>10, <2>11, <2>12, <2>13 DEF Changes
<1>3. n \in ClientState
  BY <1>1, <1>2, FieldTypes, StateType
<1>4. Due(n)
  BY DEF Due, Changes, Restarted, Moved, Ended, Saw, Selected, Got, Did, LostIt, Replaced, Same,
         Early, Others, ListFields
<1> QED
  BY <1>3, <1>4

LEMMA ServerTypeStep ==
    ASSUME TypeInv, NEW c \in Clients, ServerStep(c)
    PROVE  ServerType'
<1> DEFINE k == client[c]
<1>1. /\ k \in ClientState /\ Due(k) /\ k.read \in Seq(Nat) /\ k.todo \in Seq(Nat)
      /\ k.cmd.args \in Seq(Nat) /\ k.cmd.region \in Regions \cup {""}
  <2>1. k \in ClientState /\ Due(k)
    BY DEF TypeInv
  <2>2. k.cmd \in Commands /\ k.cmd \in Command
    BY <2>1, FieldTypes, ServicesAssumption
  <2> QED
    BY <2>1, <2>2, FieldTypes DEF Command
<1>2. k.todo # <<>> => This(c) \in Nat
  <2>1. ASSUME NEW q \in Seq(Nat), q # <<>> PROVE Head(q) \in Nat
    BY <2>1
  <2> QED
    BY <1>1, <2>1 DEF This
<1>3. ServerType /\ version \in Nat
  BY DEF TypeInv, ServerType
<1>4. CASE UNCHANGED server
  BY <1>3, <1>4 DEF server, ServerType
<1>5. CASE At(c, "put") /\ PutDomains(c)
  <2>1. This(c) \in Nat
    BY <1>1, <1>2, <1>5 DEF At, Due
  <2>2. domains' \in Seq(Nat)
    BY <1>1, <1>5, <2>1, NewDomainsIs DEF PutDomains
  <2>3. wanted' \in {wanted \cup {This(c)}, wanted \ {This(c)}} /\ raced' \in BOOLEAN
        /\ version' = version + 1 /\ UNCHANGED <<project, service, env, scale>>
    <3> HIDE DEF k
    <3> QED
      BY <1>5 DEF PutDomains
  <2>4. wanted' \in SUBSET Nat
    BY <1>3, <2>1, <2>3 DEF ServerType
  <2>5. version' \in Nat
    BY <1>3, <2>3
  <2> QED
    BY <1>3, <2>2, <2>3, <2>4, <2>5 DEF ServerType
<1>6. CASE /\ At(c, "next") /\ client[c].todo # <<>>
           /\ env' \in {env \cup {This(c)}, env \ {This(c)}}
           /\ UNCHANGED <<project, service, domains, scale, version, wanted, raced>>
  <2>1. This(c) \in Nat
    BY <1>2, <1>6
  <2>2. env \in SUBSET Nat /\ IsFiniteSet(env)
    BY <1>3 DEF ServerType
  <2>3. IsFiniteSet(env \cup {This(c)}) /\ IsFiniteSet(env \ {This(c)})
    BY <2>2, FS_AddElement, FS_RemoveElement
  <2>4. env' \in SUBSET Nat /\ IsFiniteSet(env')
    BY <1>6, <2>1, <2>2, <2>3
  <2> QED
    BY <1>3, <1>6, <2>4 DEF ServerType
<1>7. CASE /\ env' = ToSet(client[c].cmd.args)
           /\ UNCHANGED <<project, service, domains, scale, version, wanted, raced>>
  <2>1. env' \in SUBSET Nat /\ IsFiniteSet(env')
    BY <1>1, <1>7, ToSetType
  <2> QED
    BY <1>3, <1>7, <2>1 DEF ServerType
<1>8. CASE /\ Op(c) = "scale" /\ At(c, "do") /\ scale' = client[c].cmd.args[1]
           /\ UNCHANGED <<project, service, domains, env, version, wanted, raced>>
  <2>1. k.cmd.args # <<>>
    BY <1>1, <1>8 DEF Due, MayDo, Op, At, Others
  <2>2. ASSUME NEW q \in Seq(Nat), q # <<>> PROVE q[1] \in Nat
    <3>1. Len(q) \in Nat /\ Len(q) # 0 /\ \A i \in 1 .. Len(q) : q[i] \in Nat
      BY <2>2
    <3> QED
      BY <3>1
  <2>3. scale' \in Nat
    BY <1>1, <1>8, <2>1, <2>2
  <2> QED
    BY <1>3, <1>8, <2>3 DEF ServerType
<1>9. CASE At(c, "do") /\ Gone /\ project' \in {project, ""}
  <2>1. <<>> \in Seq(Nat) /\ 1 \in Nat /\ version + 1 \in Nat
    BY <1>3
  <2>2. {} \in SUBSET Nat /\ IsFiniteSet({})
    BY FS_EmptySet
  <2>3. project' \in Regions \cup {""} /\ raced' \in BOOLEAN
    BY <1>3, <1>9 DEF Gone, ServerType
  <2>4. /\ service' \in BOOLEAN /\ domains' \in Seq(Nat) /\ scale' \in Nat /\ version' \in Nat
        /\ env' = {} /\ wanted' = {}
    BY <1>9, <2>1 DEF Gone
  <2> QED
    BY <2>2, <2>3, <2>4 DEF ServerType
<1>10. CASE /\ service' \in {service, TRUE}
            /\ project' \in Regions \cup {client[c].cmd.region, project}
            /\ UNCHANGED <<domains, env, scale, version, wanted, raced>>
  BY <1>1, <1>3, <1>10 DEF ServerType
<1> QED
  BY <1>4, <1>5, <1>6, <1>7, <1>8, <1>9, <1>10 DEF ServerStep

LEMMA StartType ==
    ASSUME NEW cmd \in Commands
    PROVE  Start(cmd) \in ClientState /\ Due(Start(cmd))
<1>1. 1 \in 1 .. MaxRuns /\ <<>> \in Seq(Nat) /\ 0 \in Nat
  BY ServicesAssumption
<1> QED
  BY <1>1 DEF Start, ClientState, Due, Others

LEMMA TypeInit == Init => TypeInv
<1> SUFFICES ASSUME Init PROVE TypeInv
  OBVIOUS
<1>1. domains \in Seq(Nat)
  <2>1. <<>> \in Seq(Nat) /\ <<1>> \in Seq(Nat)
    OBVIOUS
  <2> QED
    BY <2>1 DEF Init
<1>2. ToSet(domains) \in SUBSET Nat /\ IsFiniteSet(ToSet(domains))
  BY <1>1, ToSetType
<1>3. ServerType
  BY <1>1, <1>2 DEF Init, ServerType, Regions
<1>4. client \in [Clients -> ClientState] /\ \A c \in Clients : Due(client[c])
  BY StartType DEF Init
<1> QED
  BY <1>3, <1>4 DEF TypeInv

LEMMA TypeStep == TypeInv /\ [Next]_vars => TypeInv'
<1> SUFFICES ASSUME TypeInv, [Next]_vars PROVE TypeInv'
  OBVIOUS
<1>1. CASE UNCHANGED vars
  BY <1>1 DEF vars, server, TypeInv, ServerType
<1>2. ASSUME NEW c \in Clients, Step(c) PROVE TypeInv'
  <2> DEFINE n == client'[c]
  <2>1. client \in [Clients -> ClientState] /\ Due(client[c]) /\ ServerType
    BY DEF TypeInv
  <2>2. /\ client' = [client EXCEPT ![c] = n] /\ n = [f \in Fields |-> n[f]]
        /\ n.cmd = client[c].cmd /\ Changes(client[c], n)
    BY <1>2, <2>1, ClientSteps, ClientChanges
  <2>3. n \in ClientState /\ Due(n)
    BY <2>1, <2>2, ChangeType
  <2>4. ServerType'
    BY <1>2, ServerSteps, ServerTypeStep
  <2> HIDE DEF n
  <2>5. client' \in [Clients -> ClientState] /\ \A d \in Clients : Due(client'[d])
    BY <2>1, <2>2, <2>3 DEF TypeInv
  <2> QED
    BY <2>4, <2>5 DEF TypeInv
<1> QED
  BY <1>1, <1>2 DEF Next

LEMMA TypeAlways == Spec => []TypeInv
<1> QED
  BY TypeInit, TypeStep, PTL DEF Spec

\* Every variable has its type.
THEOREM TypeCorrect == Spec => []TypeOK
<1>1. TypeInv => TypeOK
  BY DEF TypeInv, ServerType, TypeOK
<1> QED
  BY <1>1, TypeAlways, PTL
-----------------------------------------------------------------------------
(* The arguments of a command are done in order. *)

\* While arguments are done, what was said and what is due are the arguments; before, there is
\* none; and the rest is the invariant of the runs.
Order(k) ==
    /\ k.pc \in Early => /\ k.args = <<>> /\ k.todo = <<>> /\ k.said = <<>> /\ k.applied = <<>>
    /\ k.pc \in {"next", "put"} => /\ k.applied = k.said /\ k.args = k.said \o k.todo
                                  /\ k.cmd.op # "env replace"
    /\ k.pc # "done" => k.ret = "none"
    /\ IsPrefix(k.said, k.applied)
    /\ IsPrefix(k.applied, k.args)
    /\ IF k.cmd.op = "env replace" THEN k.applied \in {k.said, k.args}
                                   ELSE Len(k.applied) <= Len(k.said) + 1
    /\ k.args # <<>> => k.args = Chosen(k.cmd, k.shown)
    /\ k.ret = "ok" /\ k.cmd.op \in Lists => k.said = k.args

OrderInv == \A c \in Clients : Order(client[c])

LEMMA NextDone ==
    ASSUME NEW a \in Seq(Nat), NEW b \in Seq(Nat), b # <<>>
    PROVE  /\ Append(a, Head(b)) \in Seq(Nat)
           /\ Append(a, Head(b)) \o Tail(b) = a \o b
           /\ IsPrefix(a, Append(a, Head(b)))
           /\ IsPrefix(Append(a, Head(b)), a \o b)
           /\ Len(Append(a, Head(b))) = Len(a) + 1
<1>1. Append(a, Head(b)) \o Tail(b) = a \o b
  OBVIOUS
<1>2. IsPrefix(a, Append(a, Head(b)))
  BY DEF IsPrefix
<1>3. IsPrefix(Append(a, Head(b)), a \o b)
  BY DEF IsPrefix
<1>4. Append(a, Head(b)) \in Seq(Nat) /\ Len(Append(a, Head(b))) = Len(a) + 1
  OBVIOUS
<1> QED
  BY <1>1, <1>2, <1>3, <1>4

LEMMA PrefixFacts ==
    ASSUME NEW a \in Seq(Nat), NEW b \in Seq(Nat)
    PROVE  /\ IsPrefix(a, a) /\ IsPrefix(a, a \o b) /\ a \o <<>> = a /\ <<>> \o a = a
           /\ Len(a) \in Nat /\ Len(a) <= Len(a) + 1
  BY DEF IsPrefix

\* A step of the command, between its state k and its state n.
LEMMA OrderChange ==
    ASSUME NEW k \in ClientState, Due(k), Order(k), NEW n, n.cmd = k.cmd, Changes(k, n)
    PROVE  Order(n)
<1>1. /\ k.todo \in Seq(Nat) /\ k.said \in Seq(Nat) /\ k.applied \in Seq(Nat)
      /\ k.args \in Seq(Nat) /\ k.cmd.args \in Seq(Nat) /\ Chosen(k.cmd, k.shown) \in Seq(Nat)
      /\ <<>> \in Seq(Nat)
  <2>1. <<>> \in Seq(Nat)
    OBVIOUS
  <2> QED
    BY <2>1, FieldTypes, ChosenType
<1>2. /\ IsPrefix(<<>>, <<>>) /\ Len(<<>>) <= Len(<<>>) + 1
  <2>1. \A a \in Seq(Nat) : IsPrefix(a, a) /\ Len(a) <= Len(a) + 1
    BY PrefixFacts
  <2> QED
    BY <1>1, <2>1
<1> USE DEF Same, ListFields
<1>3. CASE Restarted(k, n)
  BY <1>2, <1>3 DEF Restarted, Order, Early, Others
<1>4. CASE Moved(k, n)
  BY <1>4 DEF Moved, Order, Early, Others
<1>5. CASE Ended(k, n)
  <2>1. n.ret = "ok" /\ k.cmd.op \in Lists => k.said = k.args
    BY <1>1, <1>5, PrefixFacts DEF Ended, Order, Due, MayDo
  <2> QED
    BY <1>5, <2>1 DEF Ended, Order, Early, Others
<1>6. CASE Saw(k, n)
  BY <1>6 DEF Saw, Order, Early, Others
<1>7. CASE Selected(k, n)
  <2>1. /\ n.args = Chosen(k.cmd, k.shown) /\ n.todo = n.args /\ n.shown = k.shown
        /\ n.said = <<>> /\ n.applied = <<>> /\ n.ret = "none" /\ n.pc = "next"
        /\ n.cmd.op # "env replace"
    BY <1>7 DEF Selected, Order, Early
  <2>2. <<>> \o n.args = n.args /\ IsPrefix(<<>>, <<>> \o n.args)
    BY <1>1, <2>1, PrefixFacts
  <2> QED
    BY <1>2, <2>1, <2>2 DEF Order, Early, Others
<1>8. CASE Got(k, n)
  BY <1>8 DEF Got, Order, Early, Others
<1>9. CASE Did(k, n) \/ LostIt(k, n)
  <2> DEFINE more == Append(k.said, Head(k.todo))
  <2>1. k.todo # <<>> /\ k.applied = k.said /\ k.args = k.said \o k.todo /\ k.ret = "none"
        /\ n.cmd.op # "env replace"
    BY <1>9 DEF Did, LostIt, Order, Due
  <2>2. /\ more \in Seq(Nat) /\ more \o Tail(k.todo) = k.args /\ IsPrefix(k.said, more)
        /\ IsPrefix(more, k.args) /\ Len(more) = Len(k.said) + 1
    BY <1>1, <2>1, NextDone
  <2>3. n.args = k.args /\ n.applied = more /\ n.shown = k.shown
    BY <1>9, <2>1 DEF Did, LostIt
  <2>4. CASE Did(k, n)
    <3>1. n.said = more /\ n.todo = Tail(k.todo) /\ n.pc = "next" /\ n.ret = "none"
      BY <2>1, <2>4 DEF Did
    <3>2. IsPrefix(more, more) /\ Len(more) <= Len(more) + 1
      BY <1>1, <2>2, PrefixFacts
    <3> HIDE DEF more
    <3> QED
      BY <2>1, <2>2, <2>3, <3>1, <3>2 DEF Order, Early, Others
  <2>5. CASE LostIt(k, n)
    <3>1. n.said = k.said /\ n.pc = "done" /\ n.ret = "error"
      BY <2>5 DEF LostIt
    <3>2. Len(more) <= Len(k.said) + 1
      <4>1. Len(k.said) \in Nat
        BY <1>1
      <4> QED
        BY <2>2, <4>1
    <3> HIDE DEF more
    <3> QED
      BY <2>1, <2>2, <2>3, <3>1, <3>2 DEF Order, Early, Others
  <2> QED
    BY <1>9, <2>4, <2>5
<1>10. CASE Replaced(k, n)
  <2>1. Chosen(k.cmd, k.shown) = k.cmd.args /\ k.cmd.op \notin Lists /\ k.said = <<>>
    BY <1>10 DEF Replaced, Chosen, Lists, Order, Early
  <2>2. /\ n.args = k.cmd.args /\ n.applied = k.cmd.args /\ n.shown = k.shown /\ n.pc = "done"
        /\ n.said \in {<<>>, k.cmd.args} /\ n.ret \in {"ok", "error"}
    BY <1>10, <2>1 DEF Replaced
  <2>3. IsPrefix(n.said, n.applied) /\ IsPrefix(n.applied, n.args)
    <3>1. IsPrefix(<<>>, <<>> \o k.cmd.args) /\ <<>> \o k.cmd.args = k.cmd.args
          /\ IsPrefix(k.cmd.args, k.cmd.args)
      BY <1>1, PrefixFacts
    <3> QED
      BY <2>2, <3>1
  <2>4. n.cmd.op = "env replace" /\ n.args = Chosen(n.cmd, n.shown) /\ n.cmd.op \notin Lists
        /\ n.applied = n.args
    BY <1>10, <2>1, <2>2 DEF Replaced
  <2> QED
    BY <2>2, <2>3, <2>4 DEF Order, Early, Others
<1> QED
  BY <1>3, <1>4, <1>5, <1>6, <1>7, <1>8, <1>9, <1>10 DEF Changes

LEMMA OrderAlways == Spec => []OrderInv
<1>1. Init => OrderInv
  <2>1. \A cmd : Order(Start(cmd))
    <3>1. <<>> \in Seq(Nat)
      OBVIOUS
    <3>2. \A a \in Seq(Nat) : IsPrefix(a, a) /\ Len(a) <= Len(a) + 1
      BY PrefixFacts
    <3> QED
      BY <3>1, <3>2 DEF Start, Order
  <2> QED
    BY <2>1 DEF Init, OrderInv
<1>2. TypeInv /\ OrderInv /\ [Next]_vars => OrderInv'
  <2> SUFFICES ASSUME TypeInv, OrderInv, [Next]_vars PROVE OrderInv'
    OBVIOUS
  <2>1. CASE UNCHANGED vars
    BY <2>1 DEF vars, OrderInv, Order
  <2>2. ASSUME NEW c \in Clients, Step(c) PROVE OrderInv'
    <3> DEFINE n == client'[c]
    <3>1. client \in [Clients -> ClientState] /\ Due(client[c]) /\ Order(client[c])
      BY DEF TypeInv, OrderInv
    <3>2. /\ client' = [client EXCEPT ![c] = n] /\ n.cmd = client[c].cmd
          /\ Changes(client[c], n)
      BY <2>2, <3>1, ClientSteps, ClientChanges
    <3>3. Order(n)
      BY <3>1, <3>2, OrderChange
    <3> HIDE DEF n
    <3> QED
      BY <3>1, <3>2, <3>3 DEF OrderInv
  <2> QED
    BY <2>1, <2>2 DEF Next
<1> QED
  BY <1>1, <1>2, TypeAlways, PTL DEF Spec

\* Each argument of a command is done once, in their order, up to the first error.
THEOREM OrderCorrect == Spec => []ArgsAreDoneInOrder
<1>1. OrderInv => ArgsAreDoneInOrder
  BY DEF OrderInv, Order, ArgsAreDoneInOrder
<1> QED
  BY <1>1, OrderAlways, PTL

-----------------------------------------------------------------------------
(* The domains. *)

\* What a command read is each domain once; and it is the domains of now, if they were not
\* written since.
Read(k) == k.pc = "put" => /\ IsDistinct(k.read)
                           /\ k.base <= version
                           /\ k.base = version => k.read = domains

DomainInv == /\ IsDistinct(domains)
             /\ ~raced => ToSet(domains) = wanted
             /\ \A c \in Clients : Read(client[c])

LEMMA DomainInit == Init => DomainInv
<1> SUFFICES ASSUME Init PROVE DomainInv
  OBVIOUS
<1>1. domains \in {<<>>, <<1>>} /\ wanted = ToSet(domains)
  BY DEF Init
<1>2. IsDistinct(<<>>) /\ IsDistinct(<<1>>)
  BY DEF IsDistinct
<1>3. ASSUME NEW c \in Clients PROVE Read(client[c])
  <2>1. PICK cmd \in Commands : client[c] = Start(cmd)
    BY DEF Init
  <2>2. Start(cmd).pc = "start"
    BY DEF Start
  <2> QED
    BY <2>1, <2>2 DEF Read
<1> QED
  BY <1>1, <1>2, <1>3 DEF DomainInv

\* Domains are read by one step only.
LEMMA OnlyGets ==
    ASSUME NEW k, NEW n, Changes(k, n), n.pc = "put"
    PROVE  k.pc = "next" /\ n.read = domains /\ n.base = version
<1>1. ~(Restarted(k, n) \/ Moved(k, n) \/ Ended(k, n))
  BY DEF Restarted, Moved, Ended, Early, Others
<1>2. ~(Saw(k, n) \/ Selected(k, n) \/ Did(k, n) \/ LostIt(k, n) \/ Replaced(k, n))
  BY DEF Saw, Selected, Did, LostIt, Replaced
<1> QED
  BY <1>1, <1>2 DEF Changes, Got

\* The domains stay, or they are written, and then what was read before is not of now.
LEMMA DomainsStep ==
    ASSUME TypeInv, DomainInv, NEW c \in Clients, ServerStep(c)
    PROVE  \/ UNCHANGED <<domains, version, wanted, raced>>
           \/ /\ client[c].pc \in {"put", "do"} /\ version' = version + 1
              /\ IsDistinct(domains')
              /\ ~raced' => ToSet(domains') = wanted'
<1>1. CASE At(c, "put") /\ PutDomains(c)
  <2> DEFINE k == client[c]
             d == Head(k.todo)
  <2>1. k \in ClientState /\ k.pc = "put" /\ k.todo # <<>> /\ Read(k)
    BY <1>1 DEF TypeInv, Due, At, DomainInv
  <2>2. k.read \in Seq(Nat) /\ k.todo \in Seq(Nat)
    BY <2>1, FieldTypes
  <2>3. d \in Nat
    <3> HIDE DEF k
    <3> QED
      BY <2>1, <2>2
  <2>4. IsDistinct(k.read) /\ (k.base = version => k.read = domains)
    BY <2>1 DEF Read
  <2>5. /\ domains' = NewDomains(k.read, d, k.cmd.op)
        /\ wanted' = IF k.cmd.op = "domain add" THEN wanted \cup {d} ELSE wanted \ {d}
        /\ raced' = (raced \/ k.base # version)
        /\ version' = version + 1
    BY <1>1 DEF PutDomains, This, Op
  <2> HIDE DEF d, k
  <2>6. /\ ToSet(domains') = IF k.cmd.op = "domain add" THEN ToSet(k.read) \cup {d}
                                                       ELSE ToSet(k.read) \ {d}
        /\ IsDistinct(domains')
    BY <2>2, <2>3, <2>4, <2>5, NewDomainsIs
  <2>7. ASSUME ~raced' PROVE ToSet(domains') = wanted'
    <3>1. ~raced /\ k.base = version
      BY <2>5, <2>7
    <3>2. ToSet(k.read) = wanted
      BY <2>4, <3>1 DEF DomainInv
    <3> QED
      BY <2>5, <2>6, <3>2
  <2> QED
    BY <2>1, <2>5, <2>6, <2>7 DEF k
<1>2. CASE At(c, "do") /\ Gone
  BY <1>2 DEF At, Gone, IsDistinct, ToSet
<1>3. CASE UNCHANGED <<domains, version, wanted, raced>>
  BY <1>3
<1> QED
  BY <1>1, <1>2, <1>3 DEF ServerStep, server

LEMMA DomainAlways == Spec => []DomainInv
<1>1. TypeInv /\ DomainInv /\ [Next]_vars => DomainInv'
  <2> SUFFICES ASSUME TypeInv, DomainInv, [Next]_vars PROVE DomainInv'
    OBVIOUS
  <2>1. CASE UNCHANGED vars
    BY <2>1 DEF vars, server, DomainInv, Read, IsDistinct
  <2>2. ASSUME NEW c \in Clients, Step(c) PROVE DomainInv'
    <3> DEFINE n == client'[c]
    <3>1. client \in [Clients -> ClientState] /\ version \in Nat
      BY DEF TypeInv, ServerType
    <3>2. client' = [client EXCEPT ![c] = n] /\ Changes(client[c], n)
      BY <2>2, <3>1, ClientSteps, ClientChanges
    <3>3. \/ UNCHANGED <<domains, version, wanted, raced>>
          \/ /\ client[c].pc \in {"put", "do"} /\ version' = version + 1
             /\ IsDistinct(domains')
             /\ ~raced' => ToSet(domains') = wanted'
      BY <2>2, ServerSteps, DomainsStep
    <3>4. IsDistinct(domains') /\ (~raced' => ToSet(domains') = wanted')
      BY <3>3 DEF DomainInv
    <3> HIDE DEF n
    <3>5. n.pc = "put" => client[c].pc = "next" /\ n.read = domains /\ n.base = version
      BY <3>2, OnlyGets
    <3>6. Read(client[c])'
      <4> SUFFICES ASSUME n.pc = "put" PROVE Read(client[c])'
        BY DEF Read, n
      <4>1. client[c].pc = "next" /\ n.read = domains /\ n.base = version
        BY <3>5
      <4>2. UNCHANGED <<domains, version>>
        BY <3>3, <4>1
      <4> QED
        BY <3>1, <3>4, <4>1, <4>2 DEF Read, n
    <3>7. ASSUME NEW e \in Clients, e # c PROVE Read(client[e])'
      <4>1. client'[e] = client[e]
        BY <3>1, <3>2, <3>7
      <4>2. Read(client[e])
        BY DEF DomainInv
      <4>3. client[e].base \in Nat
        BY <3>1, FieldTypes
      <4> QED
        BY <3>1, <3>3, <4>1, <4>2, <4>3 DEF Read
    <3> QED
      BY <3>4, <3>6, <3>7 DEF DomainInv
  <2> QED
    BY <2>1, <2>2 DEF Next
<1> QED
  BY <1>1, DomainInit, TypeAlways, PTL DEF Spec

\* Until domains are written over a change that had not been read, they are what they would be
\* if every change was made at once.
THEOREM DomainsCorrect == Spec => []DomainsAreAtomic
<1>1. DomainInv => DomainsAreAtomic
  BY DEF DomainInv, DomainsAreAtomic, IsDistinct
<1> QED
  BY <1>1, DomainAlways, PTL
=============================================================================
