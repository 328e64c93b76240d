-------------------------- MODULE ConfigStore_proofs --------------------------
(***************************************************************************)
(* Theorems about ConfigStore, for any number of processes, one after the  *)
(* other or at the same time, any remotes and any commands: a process that *)
(* ends well does not leave the file truncated, and what it did is on the  *)
(* disk.                                                                   *)
(***************************************************************************)
EXTENDS ConfigStore, TLAPS

-----------------------------------------------------------------------------
(* The invariant. *)

\* The checker has saved nothing, and is not about to.
Quiet(p) == chk[p] \in {"none", "start", "asked", "failed"}

Overwrites(p, t) == sv[p][t] \in {"truncate", "write"}

\* The checker starts when the configuration is loaded, and overlaps when it saves.
CheckerInv == \A p \in Procs :
    /\ pc[p] \in {"off", "analytics", "past", "reload", "ready"} => chk[p] = "none"
    /\ pc[p] = "saving" /\ cont[p] # "feedback" => chk[p] = "none"
    /\ pc[p] = "saving" => cont[p] # "off"
    /\ overlap[p] => ~Quiet(p)

\* What a command left in memory stays there: the checker only changes the parameters.
WantedInv == \A p \in Procs :
    /\ pc[p] = "feedback" \/ (pc[p] = "saving" /\ cont[p] = "feedback") =>
          \/ pc[p] = "feedback" /\ wanted[p] = NoFile
          \/ /\ wanted[p] \in Configs
             /\ wanted[p].remotes = mem[p].remotes
             /\ Quiet(p) => wanted[p] = mem[p]

Gone(p) == pc[p] = "feedback" /\ wanted[p] = NoFile

\* While a process is alone the file is empty only until a thread of it writes it, or when it
\* was so before.
NotEmpty(p) ==
    disk = Empty => \/ pc[p] = "analytics" \/ (pc[p] = "saving" /\ cont[p] = "past")
                    \/ \E t \in Threads : sv[p][t] = "write"

\* Until its threads save at the same time, what is written has the remotes of the memory.
Remotely(p) ==
    ~overlap[p] =>
        /\ ~(Overwrites(p, "main") /\ Overwrites(p, "check"))
        /\ Overwrites(p, "main") => buf[p]["main"].remotes = mem[p].remotes
        /\ Overwrites(p, "check") /\ sv[p]["main"] # "compose" =>
               buf[p]["check"].remotes = mem[p].remotes
        /\ (\E t \in Threads : sv[p][t] = "write") => disk = Empty
        /\ sv[p]["main"] = "idle" /\ sv[p]["check"] # "write" /\ ~Gone(p) /\ pc[p] # "analytics" =>
              disk \in Configs /\ Loaded(disk).remotes = Loaded(mem[p]).remotes

\* Until its checker saves, the file is all of the memory.
Wholly(p) ==
    Quiet(p) =>
        /\ sv[p]["main"] # "unlinked"
        /\ Overwrites(p, "main") => buf[p]["main"] = mem[p]
        /\ Gone(p) => disk = NoFile
        /\ sv[p]["main"] = "idle" /\ ~Gone(p) => disk # Garbled /\ Loaded(disk) = Loaded(mem[p])

Solo(p) == alone[p] /\ Running(p)

SoloInv == \A p \in Procs :
    Solo(p) => /\ \A q \in Procs : Running(q) => q = p
               /\ sv[p]["main"] # "unlinked"
               /\ NotEmpty(p) /\ Remotely(p) /\ Wholly(p)

Inv == TypeOK /\ CheckerInv /\ WantedInv /\ SoloInv
-----------------------------------------------------------------------------
(* What is loaded of a file, and the edits of it. *)

LEMMA LoadedType ==
    ASSUME NEW f \in Configs \cup {NoFile, Empty}
    PROVE  Loaded(f) \in Configs
  BY CloudRemoteAssumption, MaxVersionAssumption, FilesAssumption
  DEF Loaded, Configs, WithCloud, Defaults, Params, Entries

LEMMA LoadedTwice ==
    ASSUME NEW f \in Configs \cup {NoFile, Empty}
    PROVE  Loaded(Loaded(f)) = Loaded(f)
<1>1. Loaded(f) \in Configs /\ Loaded(f) \notin {NoFile, Empty}
  BY LoadedType, FilesAssumption
<1>2. ASSUME NEW l \in [Remotes -> Entries] PROVE WithCloud(WithCloud(l)) = WithCloud(l)
  BY CloudRemoteAssumption DEF WithCloud, Entries
<1>3. PICK l \in [Remotes -> Entries] : Loaded(f).remotes = WithCloud(l)
  BY FilesAssumption DEF Loaded, Configs, Entries
<1> QED
  BY <1>1, <1>2, <1>3 DEF Loaded, Configs

LEMMA LoadedOf ==
    ASSUME NEW m \in Configs
    PROVE  /\ Loaded(m).params = m.params
           /\ Loaded(m).remotes = WithCloud(m.remotes)
  BY FilesAssumption DEF Loaded

LEMMA LoadedOfNone ==
    ASSUME NEW f \in {NoFile, Empty}
    PROVE  Loaded(f).params.aid = NoID
  BY DEF Loaded, Defaults

-----------------------------------------------------------------------------
(* The steps of a process. *)

Puts(p, m) == m \in Configs /\ mem' = [mem EXCEPT ![p] = m]

Prepares(p) ==
    /\ \/ \E m \in Configs, where \in {"past", "reload"} :
             /\ pc[p] = "analytics" => where = "past"
             /\ pc[p] \in {"analytics", "past"}
             /\ Puts(p, m) /\ SaveThen(p, where)
       \/ /\ pc[p] = "analytics" /\ mem[p].params.aid # NoID /\ Goto(p, "past")
          /\ UNCHANGED <<mem, sv, cont>>
       \/ /\ pc[p] = "past" /\ Goto(p, "ready")
          /\ UNCHANGED <<mem, sv, cont>>
    /\ UNCHANGED <<disk, world, ver, check, buf, notice, notes>>

Edits(p) ==
    /\ pc[p] = "run"
    /\ \E m \in Configs : Puts(p, m) /\ wanted' = [wanted EXCEPT ![p] = m]
    /\ SaveThen(p, "feedback")
    /\ installed' \in {installed, released}
    /\ UNCHANGED <<disk, released, ver, check, buf, notice, alone, overlap>>

Ends(p) ==
    /\ \E how \in {"ok", "error", "killed"} :
          /\ how = "ok" => pc[p] = "feedback" /\ chk[p] \in {"none", "over", "failed"}
          /\ Exit(p, how)
    /\ \E n \in 0 .. MaxVersion : notice' = [notice EXCEPT ![p] = n]
    /\ UNCHANGED <<disk, world>>

Thinks(p) ==
    /\ Running(p)
    /\ \/ chk[p] = "start" /\ chk' = [chk EXCEPT ![p] = "asked"]
       \/ \E c \in {"over", "failed"} :
             /\ chk[p] \in {"start", "asked"}
             /\ chk' = [chk EXCEPT ![p] = c]
    /\ \E s \in Params : snap' = [snap EXCEPT ![p] = s]
    /\ UNCHANGED <<disk, world, pc, cont, ver, mem, saves, told, notes>>

Answers(p) ==
    /\ Checking(p, "asked")
    /\ \E m \in Configs : Puts(p, m) /\ m.remotes = mem[p].remotes
    /\ chk' = [chk EXCEPT ![p] = "saving"]
    /\ sv' = [sv EXCEPT ![p]["check"] = "compose"]
    /\ snap' = [snap EXCEPT ![p] = Defaults]
    /\ UNCHANGED <<disk, world, pc, cont, ver, buf, told, notes>>

Steps(p) == \/ Start(p) \/ Prepares(p) \/ Reload(p) \/ Check(p) \/ Edits(p) \/ Uninstall(p)
            \/ Noop(p) \/ Ends(p) \/ Thinks(p) \/ Answers(p) \/ Save(p)

LEMMA NextSteps ==
    ASSUME TypeOK, [Next]_vars
    PROVE  UNCHANGED vars \/ Release \/ Install \/ \E p \in Procs : Steps(p)
<1> SUFFICES ASSUME NEW p \in Procs,
                    \/ LoadFails(p) \/ checkAnalytics(p) \/ checkPastVersion(p) \/ RunCommand(p)
                    \/ Feedback(p) \/ Kill(p) \/ Checker(p) \/ Answer(p) \/ CheckFails(p)
             PROVE  Steps(p)
  BY DEF Next, Main, Steps
<1>1. /\ mem \in [Procs -> Configs] /\ snap \in [Procs -> Params] /\ ver \in [Procs -> 0 .. MaxVersion]
      /\ released \in 1 .. MaxVersion /\ notice \in [Procs -> 0 .. MaxVersion]
      /\ MaxVersion \in Nat
  BY MaxVersionAssumption DEF TypeOK
<1>2. mem[p] \in Configs /\ mem[p].params \in Params /\ mem[p].remotes \in [Remotes -> Entries]
  BY <1>1 DEF Configs
<1>3. CASE checkAnalytics(p)
  <2>1. CASE mem[p].params.aid = NoID
    <3> DEFINE m == [mem[p] EXCEPT !.params.aid = p]
    <3>1. m \in Configs
      BY <1>2 DEF Configs, Params
    <3>2. mem' = [mem EXCEPT ![p] = m]
      BY <1>1, <1>3, <2>1 DEF checkAnalytics
    <3> HIDE DEF m
    <3>3. /\ pc[p] = "analytics" /\ SaveThen(p, "past")
          /\ UNCHANGED <<disk, world, ver, check, buf, notice, notes>>
      BY <1>3, <2>1 DEF checkAnalytics
    <3>4. Puts(p, m)
      BY <3>1, <3>2 DEF Puts
    <3>5. Prepares(p)
      BY <3>1, <3>3, <3>4 DEF Prepares
    <3> QED
      BY <3>5 DEF Steps
  <2>2. CASE mem[p].params.aid # NoID
    BY <1>3, <2>2 DEF checkAnalytics, Prepares, Steps
  <2> QED
    BY <2>1, <2>2
<1>4. CASE checkPastVersion(p)
  <2>1. CASE mem[p].params.past # 0
    <3> DEFINE m == [mem[p] EXCEPT !.params.past = 0]
    <3>1. m \in Configs
      BY <1>1, <1>2 DEF Configs, Params
    <3>2. mem' = [mem EXCEPT ![p] = m]
      BY <1>1, <1>4, <2>1 DEF checkPastVersion
    <3> HIDE DEF m
    <3>3. Prepares(p)
      BY <1>4, <2>1, <3>1, <3>2 DEF checkPastVersion, Prepares, Puts
    <3> QED
      BY <3>3 DEF Steps
  <2>2. CASE mem[p].params.past = 0
    BY <1>4, <2>2 DEF checkPastVersion, Prepares, Steps
  <2> QED
    BY <2>1, <2>2
<1>5. CASE RunCommand(p)
  <2>1. ASSUME NEW c, NEW m \in Configs, Command(p, c, m) PROVE Edits(p)
    BY <2>1 DEF Command, Edits, Puts, world
  <2>2. ASSUME NEW r \in Remotes, NEW e \in Entries PROVE [mem[p] EXCEPT !.remotes[r] = e] \in Configs
    BY <1>2 DEF Configs
  <2>3. {"absent", "out", "in"} \subseteq Entries
    BY DEF Entries
  <2>4. ASSUME NEW r \in Remotes, Login(p, r) \/ Logout(p, r) \/ SetRemote(p, r) PROVE Edits(p)
    BY <2>1, <2>2, <2>3, <2>4 DEF Login, Logout, SetRemote
  <2>5. ASSUME NEW r \in Remotes, RemoveRemote(p, r) PROVE Edits(p)
    <3>1. [mem[p] EXCEPT !.remotes[r] = "absent",
                         !.params.default = IF @ = r THEN CloudRemote ELSE @] \in Configs
      BY <1>2, CloudRemoteAssumption DEF Configs, Params, Entries
    <3> QED
      BY <2>1, <2>5, <3>1 DEF RemoveRemote
  <2>6. ASSUME NEW r \in Remotes, DefaultRemote(p, r) PROVE Edits(p)
    <3>1. [mem[p] EXCEPT !.params.default = r] \in Configs
      BY <1>2 DEF Configs, Params
    <3> QED
      BY <2>1, <2>6, <3>1 DEF DefaultRemote
  <2>7. ASSUME NEW r \in Remotes, NEW new \in Remotes, RenameRemote(p, r, new) PROVE Edits(p)
    <3>1. [mem[p] EXCEPT !.remotes[r] = "absent", !.remotes[new] = mem[p].remotes[r]] \in Configs
      BY <1>2 DEF Configs, Entries
    <3> QED
      BY <2>1, <2>7, <3>1 DEF RenameRemote
  <2>8. ASSUME UpdateNone(p) PROVE Edits(p)
    <3>1. [mem[p] EXCEPT !.params.next = 0] \in Configs
      BY <1>1, <1>2 DEF Configs, Params
    <3> QED
      BY <2>1, <2>8, <3>1 DEF UpdateNone
  <2>9. ASSUME UpdateApply(p) PROVE Edits(p)
    <3> DEFINE m == [mem[p] EXCEPT !.params.past = ver[p], !.params.next = 0]
    <3>a. ver[p] \in 0 .. MaxVersion /\ 0 \in 0 .. MaxVersion
      BY <1>1
    <3>1. m \in Configs
      BY <1>2, <3>a DEF Configs, Params
    <3>2. mem' = [mem EXCEPT ![p] = m] /\ mem'[p] = m
      BY <1>1, <2>9 DEF UpdateApply
    <3> HIDE DEF m
    <3>3. /\ pc[p] = "run" /\ SaveThen(p, "feedback") /\ installed' = released
          /\ wanted' = [wanted EXCEPT ![p] = m]
          /\ UNCHANGED <<disk, released, ver, check, buf, notice, alone, overlap>>
      BY <2>9, <3>2 DEF UpdateApply
    <3>4. Puts(p, m)
      BY <3>1, <3>2 DEF Puts
    <3>5. installed' \in {installed, released}
      BY <3>3
    <3> QED
      BY <3>1, <3>3, <3>4, <3>5 DEF Edits
  <2>10. ASSUME Fail(p) PROVE Ends(p)
    <3>1. notice' = [notice EXCEPT ![p] = notice[p]] /\ notice[p] \in 0 .. MaxVersion
      BY <1>1, <2>10 DEF Fail
    <3> QED
      BY <2>10, <3>1 DEF Fail, Ends
  <2> QED
    BY <1>5, <2>4, <2>5, <2>6, <2>7, <2>8, <2>9, <2>10 DEF RunCommand, Steps
<1>6. CASE LoadFails(p) \/ Kill(p)
  <2>1. notice' = [notice EXCEPT ![p] = notice[p]] /\ notice[p] \in 0 .. MaxVersion
    BY <1>1, <1>6 DEF LoadFails, Kill
  <2> QED
    BY <1>6, <2>1 DEF LoadFails, Kill, Ends, Steps
<1>7. CASE Feedback(p)
  <2>1. 0 \in 0 .. MaxVersion /\ mem[p].params.next \in 0 .. MaxVersion
    BY <1>1, <1>2 DEF Params
  <2> QED
    BY <1>7, <2>1 DEF Feedback, Ends, Steps
<1>8. CASE Checker(p) \/ CheckFails(p)
  <2>1. UNCHANGED snap => snap' = [snap EXCEPT ![p] = snap[p]] /\ snap[p] \in Params
    BY <1>1
  <2>2. Thinks(p)
    BY <1>2, <1>8, <2>1 DEF Checker, CheckFails, Skip, Ask, Canceled, Checking, Thinks
  <2> QED
    BY <2>2 DEF Steps
<1>9. CASE Answer(p)
  <2> DEFINE n == IF released > ver[p] THEN released ELSE 0
             m == [mem[p] EXCEPT !.params = [snap[p] EXCEPT !.next = n]]
  <2>1. n \in 0 .. MaxVersion /\ snap[p] \in Params
    BY <1>1
  <2>2. mem' = [mem EXCEPT ![p] = m]
    BY <1>1, <1>9 DEF Answer
  <2> HIDE DEF n
  <2>3. m \in Configs /\ m.remotes = mem[p].remotes
    BY <1>2, <2>1 DEF Configs, Params
  <2> HIDE DEF m
  <2>4. Answers(p)
    BY <1>9, <2>2, <2>3 DEF Answer, Answers, Puts
  <2> QED
    BY <2>4 DEF Steps
<1> QED
  BY <1>3, <1>4, <1>5, <1>6, <1>7, <1>8, <1>9
-----------------------------------------------------------------------------
(* Type correctness. *)

LEMMA TypeInit ==
    ASSUME Init
    PROVE  TypeOK
<1>1. /\ Loaded(NoFile) \in Configs /\ Defaults \in Params /\ 0 \in 0 .. MaxVersion
      /\ 1 \in 1 .. MaxVersion
  BY LoadedType, CloudRemoteAssumption, MaxVersionAssumption DEF Defaults, Params
<1>2. disk \in Configs \cup {NoFile, Empty, Garbled}
  <2>1. ASSUME NEW d \in Remotes
        PROVE  [params |-> [Defaults EXCEPT !.default = d],
                remotes |-> [WithCloud([r \in Remotes |-> "in"]) EXCEPT ![CloudRemote] = "out"]] \in Configs
    BY <1>1 DEF Configs, Params, Entries, WithCloud
  <2> QED
    BY <2>1 DEF Init
<1> QED
  BY <1>1, <1>2 DEF Init, TypeOK, Threads

\* The places of a Save, and the two threads that are in it.
SavesOK ==
    /\ sv \in [Procs -> [Threads -> {"idle", "compose", "truncate", "write", "unlinked"}]]
    /\ buf \in [Procs -> [Threads -> Configs]]

PlacesOK ==
    /\ pc \in [Procs -> {"off", "analytics", "past", "reload", "ready", "run",
                         "saving", "feedback", "exited"}]
    /\ cont \in [Procs -> {"off", "past", "reload", "feedback"}]
    /\ chk \in [Procs -> {"none", "start", "asked", "saving", "over", "failed"}]

SavingOK == \A p \in Procs : /\ pc[p] = "saving" <=> sv[p]["main"] # "idle"
                             /\ chk[p] = "saving" <=> sv[p]["check"] # "idle"

\* The rest of the type invariant.
MemoryOK ==
    /\ disk \in Configs \cup {NoFile, Empty, Garbled}
    /\ installed \in 1 .. MaxVersion
    /\ released \in 1 .. MaxVersion
    /\ ver \in [Procs -> 0 .. MaxVersion]
    /\ mem \in [Procs -> Configs]
    /\ snap \in [Procs -> Params]
    /\ exit \in [Procs -> {"none", "ok", "error", "killed"}]
    /\ notice \in [Procs -> 0 .. MaxVersion]
    /\ alone \in [Procs -> BOOLEAN]
    /\ overlap \in [Procs -> BOOLEAN]
    /\ wanted \in [Procs -> Configs \cup {NoFile}]

LEMMA TypeParts == TypeOK <=> SavesOK /\ PlacesOK /\ SavingOK /\ MemoryOK
  BY DEF TypeOK, SavesOK, PlacesOK, SavingOK, MemoryOK

LEMMA NoneType == Loaded(NoFile) \in Configs /\ Defaults \in Params /\ 0 \in 0 .. MaxVersion
  BY LoadedType, CloudRemoteAssumption, MaxVersionAssumption DEF Defaults, Params

LEMMA ThreadsAre == "main" \in Threads /\ "check" \in Threads /\ Other("main") = "check" /\ Other("check") = "main"
                    /\ \A t \in Threads : t = "main" \/ t = "check"
  BY DEF Threads, Other

\* One thread of one process goes on with its Save.
LEMMA SavePlaces ==
    ASSUME SavesOK, NEW p \in Procs, NEW t \in Threads,
           NEW x \in {"idle", "compose", "truncate", "write", "unlinked"},
           sv' = [sv EXCEPT ![p][t] = x]
    PROVE  sv' \in [Procs -> [Threads -> {"idle", "compose", "truncate", "write", "unlinked"}]]
<1> DEFINE S == {"idle", "compose", "truncate", "write", "unlinked"}
<1>1. sv \in [Procs -> [Threads -> S]] /\ x \in S
  BY DEF SavesOK
<1> HIDE DEF S
<1>2. sv' \in [Procs -> [Threads -> S]]
  BY <1>1
<1> QED
  BY <1>2 DEF S

LEMMA SavesStep ==
    ASSUME TypeOK, NEW p \in Procs, Steps(p)
    PROVE  SavesOK'
<1> USE DEF SavesOK
<1>1. SavesOK /\ mem \in [Procs -> Configs]
  BY TypeParts DEF MemoryOK
<1>2. CASE Start(p) \/ Reload(p) \/ Check(p) \/ Noop(p) \/ Thinks(p)
  BY <1>1, <1>2 DEF Start, Reload, Check, Noop, Thinks, saves
<1>3. CASE Prepares(p) \/ Edits(p)
  <2>1. UNCHANGED buf
    BY <1>3 DEF Prepares, Edits
  <2>2. UNCHANGED sv \/ sv' = [sv EXCEPT ![p]["main"] = "compose"]
    BY <1>3 DEF Prepares, Edits, SaveThen
  <2>3. sv' \in [Procs -> [Threads -> {"idle", "compose", "truncate", "write", "unlinked"}]]
    BY <1>1, <2>2, SavePlaces, ThreadsAre
  <2> QED
    BY <1>1, <2>1, <2>3
<1>4. CASE Uninstall(p)
  BY <1>1, <1>4 DEF Uninstall
<1>5. CASE Ends(p)
  BY <1>1, <1>5, NoneType DEF Ends, Exit
<1>6. CASE Answers(p)
  BY <1>1, <1>6, ThreadsAre DEF Answers
<1>7. CASE Save(p)
  <2>1. PICK t \in Threads : Compose(p, t) \/ Truncate(p, t) \/ Write(p, t)
    BY <1>7 DEF Save
  <2>2. \E x \in {"idle", "truncate", "write"} : sv' = [sv EXCEPT ![p][t] = x]
    BY <2>1 DEF Compose, Truncate, Write
  <2>3. UNCHANGED buf \/ \E m \in Configs : buf' = [buf EXCEPT ![p][t] = m]
    BY <1>1, <2>1, NoneType DEF Compose, Truncate, Write
  <2>4. sv' \in [Procs -> [Threads -> {"idle", "compose", "truncate", "write", "unlinked"}]]
    BY <1>1, <2>2, SavePlaces
  <2>5. buf' \in [Procs -> [Threads -> Configs]]
    <3>1. buf \in [Procs -> [Threads -> Configs]]
      BY <1>1
    <3> HIDE DEF SavesOK
    <3>2. ASSUME NEW m \in Configs, buf' = [buf EXCEPT ![p][t] = m]
          PROVE  buf' \in [Procs -> [Threads -> Configs]]
      BY <3>1, <3>2
    <3> QED
      BY <2>3, <3>1, <3>2
  <2> QED
    BY <2>4, <2>5
<1> QED
  BY <1>2, <1>3, <1>4, <1>5, <1>6, <1>7 DEF Steps

LEMMA PlacesStep ==
    ASSUME TypeOK, NEW p \in Procs, Steps(p)
    PROVE  PlacesOK'
<1> USE DEF PlacesOK
<1>1. PlacesOK /\ SavesOK /\ SavingOK
  BY TypeParts
<1>2. CASE Start(p) \/ Reload(p) \/ Check(p) \/ Noop(p) \/ Thinks(p)
  BY <1>1, <1>2, ZenonT(60) DEF Start, Reload, Check, Noop, Thinks, Load, Goto, check
<1>3. CASE Prepares(p) \/ Edits(p)
  BY <1>1, <1>3 DEF Prepares, Edits, SaveThen, Goto, check
<1>4. CASE Uninstall(p)
  BY <1>1, <1>4 DEF Uninstall, Goto, check
<1>5. CASE Ends(p)
  BY <1>1, <1>5 DEF Ends, Exit
<1>6. CASE Answers(p)
  BY <1>1, <1>6 DEF Answers
<1>7. CASE Save(p)
  BY <1>1, <1>7 DEF Save, Compose, Truncate, Write, check
<1> QED
  BY <1>2, <1>3, <1>4, <1>5, <1>6, <1>7 DEF Steps

\* A thread is saving exactly while a Save of it is under way.
LEMMA SavingStep ==
    ASSUME TypeOK, CheckerInv, NEW p \in Procs, Steps(p)
    PROVE  SavingOK'
<1>1. PlacesOK /\ SavesOK /\ SavingOK
  BY TypeParts
<1>2. CASE Start(p) \/ Reload(p) \/ Check(p) \/ Noop(p) \/ Thinks(p)
  <2>1. UNCHANGED sv
    BY <1>2 DEF Start, Reload, Check, Noop, Thinks, saves
  <2>2. \A q \in Procs : pc'[q] = "saving" <=> pc[q] = "saving"
    BY <1>1, <1>2 DEF PlacesOK, Start, Reload, Check, Noop, Thinks, Load, Goto, check
  <2>3. \A q \in Procs : chk'[q] = "saving" <=> chk[q] = "saving"
    BY <1>1, <1>2 DEF PlacesOK, CheckerInv, Start, Reload, Check, Noop, Thinks, Load, Goto, check
  <2> QED
    BY <1>1, <2>1, <2>2, <2>3 DEF SavingOK
<1>3. CASE Prepares(p) \/ Edits(p)
  BY <1>1, <1>3, ThreadsAre DEF PlacesOK, SavesOK, SavingOK, Prepares, Edits, SaveThen, Goto, check
<1>4. CASE Uninstall(p)
  BY <1>1, <1>4, ThreadsAre DEF PlacesOK, SavesOK, SavingOK, Uninstall, Goto, check
<1>5. CASE Ends(p)
  BY <1>1, <1>5, ThreadsAre DEF PlacesOK, SavesOK, SavingOK, Ends, Exit
<1>6. CASE Answers(p)
  BY <1>1, <1>6, ThreadsAre DEF PlacesOK, SavesOK, SavingOK, Answers
<1>7. CASE Save(p)
  <2>1. PICK t \in Threads : Compose(p, t) \/ Truncate(p, t) \/ Write(p, t)
    BY <1>7 DEF Save
  <2>2. cont[p] # "saving"
    BY <1>1 DEF PlacesOK
  <2>3. pc[p] = "saving" <=> sv[p]["main"] # "idle"
    BY <1>1 DEF SavingOK
  <2>4. ASSUME NEW q \in Procs, q # p PROVE pc'[q] = pc[q] /\ chk'[q] = chk[q] /\ sv'[q] = sv[q]
    BY <1>1, <2>1, <2>4 DEF PlacesOK, SavesOK, Compose, Truncate, Write, check
  <2>5. CASE Compose(p, t) \/ Truncate(p, t)
    <3>1. UNCHANGED <<pc, chk>>
      BY <2>5 DEF Compose, Truncate, check
    <3>2. sv[p][t] # "idle"
      BY <2>5 DEF Compose, Truncate, Saving
    <3>3. \E x \in {"truncate", "write"} : sv'[p] = [sv[p] EXCEPT ![t] = x]
      BY <1>1, <2>5 DEF Compose, Truncate, SavesOK
    <3> QED
      BY <1>1, <2>4, <3>1, <3>2, <3>3, ThreadsAre DEF SavesOK, SavingOK
  <2>6. CASE Write(p, t)
    <3>1. sv'[p] = [sv[p] EXCEPT ![t] = "idle"] /\ sv[p][t] # "idle"
      BY <1>1, <2>6 DEF Write, Saving, SavesOK
    <3>2. CASE t = "main"
      <4>1. pc'[p] = cont[p] /\ UNCHANGED chk
        BY <1>1, <2>6, <3>2 DEF Write, PlacesOK
      <4> QED
        BY <1>1, <2>2, <2>4, <3>1, <3>2, <4>1, ThreadsAre DEF SavesOK, SavingOK
    <3>3. CASE t = "check"
      <4>1. chk'[p] = "over" /\ UNCHANGED pc
        BY <1>1, <2>6, <3>3 DEF Write, PlacesOK
      <4> QED
        BY <1>1, <2>4, <3>1, <3>3, <4>1, ThreadsAre DEF SavesOK, SavingOK
    <3> QED
      BY <3>2, <3>3, ThreadsAre
  <2> QED
    BY <2>1, <2>5, <2>6
<1> QED
  BY <1>2, <1>3, <1>4, <1>5, <1>6, <1>7 DEF Steps

LEMMA MemoryStep ==
    ASSUME TypeOK, NEW p \in Procs, Steps(p)
    PROVE  MemoryOK'
<1>1. MemoryOK /\ SavesOK /\ PlacesOK
  BY TypeParts
<1>2. Loads(disk) => Loaded(disk) \in Configs
  BY <1>1, LoadedType DEF MemoryOK, Loads
<1>3. ver[p] \in 0 .. MaxVersion /\ installed \in 0 .. MaxVersion
  BY <1>1, MaxVersionAssumption DEF MemoryOK
<1>4. CASE Start(p)
  BY <1>1, <1>2, <1>3, <1>4 DEF MemoryOK, Start, Load, Goto, world, check, saves
<1>5. CASE Reload(p)
  BY <1>1, <1>2, <1>5 DEF MemoryOK, Reload, Load, Goto, world, check, saves, notes
<1>6. CASE Check(p) \/ Noop(p)
  BY <1>1, <1>6 DEF MemoryOK, Check, Noop, Goto, world, check, saves, notes
<1>7. CASE Thinks(p)
  BY <1>1, <1>7 DEF MemoryOK, Thinks, world, saves, told, notes
<1>8. CASE Prepares(p)
  BY <1>1, <1>8 DEF MemoryOK, Prepares, Puts, SaveThen, Goto, world, check, notes
<1>9. CASE Edits(p)
  BY <1>1, <1>9 DEF MemoryOK, Edits, Puts, SaveThen, Goto, check
<1>10. CASE Uninstall(p)
  BY <1>1, <1>10 DEF MemoryOK, Uninstall, Goto, world, check
<1>11. CASE Ends(p)
  BY <1>1, <1>11, NoneType DEF MemoryOK, Ends, Exit, world
<1>12. CASE Answers(p)
  BY <1>1, <1>12, NoneType DEF MemoryOK, Answers, Puts, world, told, notes
<1>13. CASE Save(p)
  <2>1. PICK t \in Threads : Compose(p, t) \/ Truncate(p, t) \/ Write(p, t)
    BY <1>13 DEF Save
  <2>2. buf[p][t] \in Configs
    BY <1>1 DEF SavesOK
  <2>3. CASE Compose(p, t)
    <3>1. \E b \in BOOLEAN : overlap' = [overlap EXCEPT ![p] = b]
      BY <1>1, <2>3 DEF Compose, MemoryOK
    <3> QED
      BY <1>1, <2>3, <3>1 DEF MemoryOK, Compose, world, check, told
  <2>4. CASE Truncate(p, t)
    BY <1>1, <2>4 DEF MemoryOK, Truncate, world, check, told, notes
  <2>5. CASE Write(p, t)
    <3>1. disk' \in Configs \cup {NoFile, Empty, Garbled}
      BY <1>1, <2>2, <2>5 DEF MemoryOK, Write
    <3>2. UNCHANGED <<installed, released, ver, mem, snap, exit, notice, alone, overlap, wanted>>
      BY <2>5 DEF Write, world, told, notes
    <3> QED
      BY <1>1, <3>1, <3>2 DEF MemoryOK
  <2> QED
    BY <2>1, <2>3, <2>4, <2>5
<1> QED
  BY <1>4, <1>5, <1>6, <1>7, <1>8, <1>9, <1>10, <1>11, <1>12, <1>13 DEF Steps

\* Steps that are no process's.
World == UNCHANGED vars \/ Release \/ Install

LEMMA WorldSame ==
    ASSUME World
    PROVE  UNCHANGED <<disk, pc, cont, ver, mem, chk, snap, sv, buf, exit, notice, alone, overlap,
                       wanted>>
  BY DEF World, vars, Release, Install, check, saves, told, notes

LEMMA TypeStep ==
    ASSUME TypeOK, CheckerInv, [Next]_vars
    PROVE  TypeOK'
<1>1. CASE World
  <2>1. installed' \in 1 .. MaxVersion /\ released' \in 1 .. MaxVersion
    BY <1>1, MaxVersionAssumption DEF TypeOK, World, vars, Release, Install
  <2> QED
    BY <1>1, <2>1, WorldSame DEF TypeOK
<1>2. ASSUME NEW p \in Procs, Steps(p) PROVE TypeOK'
  <2>1. SavesOK' /\ PlacesOK' /\ SavingOK' /\ MemoryOK'
    BY <1>2, SavesStep, PlacesStep, SavingStep, MemoryStep
  <2> QED
    BY <2>1 DEF TypeOK, SavesOK, PlacesOK, SavingOK, MemoryOK
<1> QED
  BY <1>1, <1>2, NextSteps DEF World

-----------------------------------------------------------------------------
(* The checker, and what a command wanted. *)

\* A process leaves the memory of the others alone.
LEMMA Others ==
    ASSUME TypeOK, NEW p \in Procs, Steps(p), NEW q \in Procs, q # p
    PROVE  /\ pc'[q] = pc[q] /\ cont'[q] = cont[q] /\ chk'[q] = chk[q]
           /\ mem'[q] = mem[q] /\ buf'[q] = buf[q] /\ overlap'[q] = overlap[q]
           /\ wanted'[q] = wanted[q]
<1>1. /\ pc \in [Procs -> {"off", "analytics", "past", "reload", "ready", "run",
                           "saving", "feedback", "exited"}]
      /\ cont \in [Procs -> {"off", "past", "reload", "feedback"}]
      /\ chk \in [Procs -> {"none", "start", "asked", "saving", "over", "failed"}]
      /\ mem \in [Procs -> Configs] /\ buf \in [Procs -> [Threads -> Configs]]
      /\ overlap \in [Procs -> BOOLEAN] /\ wanted \in [Procs -> Configs \cup {NoFile}]
  BY DEF TypeOK
<1>2. CASE Start(p) \/ Reload(p) \/ Check(p) \/ Noop(p)
  BY <1>1, <1>2 DEF Start, Reload, Check, Noop, Load, Goto, check, saves, notes
<1>3. CASE Prepares(p) \/ Edits(p)
  BY <1>1, <1>3 DEF Prepares, Edits, Puts, SaveThen, Goto, check, notes
<1>4. CASE Uninstall(p) \/ Thinks(p)
  BY <1>1, <1>4 DEF Uninstall, Thinks, Goto, check, saves, notes
<1>5. CASE Ends(p)
  BY <1>1, <1>5 DEF Ends, Exit
<1>6. CASE Answers(p)
  BY <1>1, <1>6 DEF Answers, Puts, notes
<1>7. CASE Save(p)
  BY <1>1, <1>7 DEF Save, Compose, Truncate, Write, check, notes
<1> QED
  BY <1>2, <1>3, <1>4, <1>5, <1>6, <1>7 DEF Steps

LEMMA CheckerStep ==
    ASSUME TypeOK, CheckerInv, NEW p \in Procs, Steps(p)
    PROVE  CheckerInv'
<1> USE DEF Quiet
<1>1. /\ pc \in [Procs -> {"off", "analytics", "past", "reload", "ready", "run",
                           "saving", "feedback", "exited"}]
      /\ cont \in [Procs -> {"off", "past", "reload", "feedback"}]
      /\ chk \in [Procs -> {"none", "start", "asked", "saving", "over", "failed"}]
      /\ overlap \in [Procs -> BOOLEAN]
      /\ chk[p] = "saving" <=> sv[p]["check"] # "idle"
      /\ pc[p] = "saving" <=> sv[p]["main"] # "idle"
  BY DEF TypeOK
<1> DEFINE C(q) == /\ pc[q] \in {"off", "analytics", "past", "reload", "ready"} => chk[q] = "none"
                   /\ pc[q] = "saving" /\ cont[q] # "feedback" => chk[q] = "none"
                   /\ pc[q] = "saving" => cont[q] # "off"
                   /\ overlap[q] => ~Quiet(q)
<1>2. \A q \in Procs : C(q)
  BY DEF CheckerInv
<1>3. ASSUME NEW q \in Procs, q # p PROVE C(q)'
  BY <1>2, <1>3, Others
<1>4. C(p)'
  <2>2. CASE Start(p) \/ Reload(p) \/ Check(p) \/ Noop(p)
    BY <1>1, <1>2, <2>2 DEF Start, Reload, Check, Noop, Load, Goto, check, saves, notes
  <2>3. CASE Prepares(p) \/ Edits(p)
    BY <1>1, <1>2, <2>3 DEF Prepares, Edits, SaveThen, Goto, check, notes
  <2>4. CASE Uninstall(p)
    BY <1>1, <1>2, <2>4 DEF Uninstall, Goto, check
  <2>5. CASE Ends(p)
    BY <1>1, <1>2, <2>5 DEF Ends, Exit
  <2>6. CASE Answers(p) \/ Thinks(p)
    BY <1>1, <1>2, <2>6 DEF Answers, Thinks, Checking, notes
  <2>7. CASE Save(p)
    <3>1. PICK t \in Threads : Compose(p, t) \/ Truncate(p, t) \/ Write(p, t)
      BY <2>7 DEF Save
    <3>2. CASE t = "main"
      BY <1>1, <1>2, <3>1, <3>2, ThreadsAre DEF Compose, Truncate, Write, Saving, check, notes
    <3>3. CASE t = "check"
      BY <1>1, <1>2, <3>1, <3>3, ThreadsAre DEF Compose, Truncate, Write, Saving, check, notes
    <3> QED
      BY <3>2, <3>3, ThreadsAre
  <2> QED
    BY <2>2, <2>3, <2>4, <2>5, <2>6, <2>7 DEF Steps
<1> QED
  BY <1>3, <1>4 DEF CheckerInv

LEMMA WantedStep ==
    ASSUME TypeOK, CheckerInv, WantedInv, NEW p \in Procs, Steps(p)
    PROVE  WantedInv'
<1> USE DEF Quiet
<1>1. /\ pc \in [Procs -> {"off", "analytics", "past", "reload", "ready", "run",
                           "saving", "feedback", "exited"}]
      /\ cont \in [Procs -> {"off", "past", "reload", "feedback"}]
      /\ chk \in [Procs -> {"none", "start", "asked", "saving", "over", "failed"}]
      /\ mem \in [Procs -> Configs] /\ wanted \in [Procs -> Configs \cup {NoFile}]
      /\ chk[p] = "saving" <=> sv[p]["check"] # "idle"
      /\ pc[p] = "saving" <=> sv[p]["main"] # "idle"
  BY DEF TypeOK
<1> DEFINE W(q) == pc[q] = "feedback" \/ (pc[q] = "saving" /\ cont[q] = "feedback") =>
                      \/ pc[q] = "feedback" /\ wanted[q] = NoFile
                      \/ /\ wanted[q] \in Configs
                         /\ wanted[q].remotes = mem[q].remotes
                         /\ Quiet(q) => wanted[q] = mem[q]
<1>2. \A q \in Procs : W(q)
  BY DEF WantedInv
<1>3. ASSUME NEW q \in Procs, q # p PROVE W(q)'
  BY <1>2, <1>3, Others
<1>4. W(p)'
  <2>1. CASE Start(p) \/ Reload(p) \/ Check(p)
    <3>1. pc'[p] \in {"analytics", "ready", "run"}
      BY <1>1, <2>1 DEF Start, Reload, Check, Load, Goto
    <3> QED
      BY <3>1
  <2>2. CASE Noop(p)
    BY <1>1, <1>2, <2>2 DEF Noop, Goto, check
  <2>3. CASE Prepares(p) \/ Edits(p)
    BY <1>1, <1>2, <2>3 DEF Prepares, Edits, Puts, SaveThen, Goto, check, notes
  <2>4. CASE Uninstall(p)
    BY <1>1, <1>2, <2>4 DEF Uninstall, Goto, check
  <2>5. CASE Ends(p)
    BY <1>1, <1>2, <2>5 DEF Ends, Exit
  <2>6. CASE Answers(p) \/ Thinks(p)
    BY <1>1, <1>2, <2>6 DEF Answers, Thinks, Puts, Checking, notes
  <2>7. CASE Save(p)
    <3>1. PICK t \in Threads : Compose(p, t) \/ Truncate(p, t) \/ Write(p, t)
      BY <2>7 DEF Save
    <3>2. CASE t = "main"
      BY <1>1, <1>2, <3>1, <3>2, ThreadsAre DEF Compose, Truncate, Write, Saving, check, notes
    <3>3. CASE t = "check"
      BY <1>1, <1>2, <3>1, <3>3, ThreadsAre DEF Compose, Truncate, Write, Saving, check, notes
    <3> QED
      BY <3>2, <3>3, ThreadsAre
  <2> QED
    BY <2>1, <2>2, <2>3, <2>4, <2>5, <2>6, <2>7 DEF Steps
<1> QED
  BY <1>3, <1>4 DEF WantedInv

-----------------------------------------------------------------------------
(* A process that is alone. *)

\* What SoloInv says of a process that is alone.
Sole(p) == /\ \A q \in Procs : Running(q) => q = p
           /\ sv[p]["main"] # "unlinked"
           /\ NotEmpty(p) /\ Remotely(p) /\ Wholly(p)

LEMMA SoloSole == SoloInv <=> \A p \in Procs : Solo(p) => Sole(p)
  BY DEF SoloInv, Sole

\* Only a process that is off does something without running: it starts, or does not.
LEMMA RunsToStep ==
    ASSUME NEW p \in Procs, Steps(p)
    PROVE  Running(p) \/ Start(p) \/ Ends(p)
<1>1. CASE Prepares(p) \/ Edits(p) \/ Uninstall(p) \/ Noop(p) \/ Reload(p) \/ Check(p)
  BY <1>1 DEF Prepares, Edits, Uninstall, Noop, Reload, Check, Running
<1>2. CASE Thinks(p) \/ Answers(p) \/ Save(p)
  BY <1>2 DEF Thinks, Answers, Checking, Save, Compose, Truncate, Write, Saving
<1> QED
  BY <1>1, <1>2 DEF Steps

LEMMA AloneSame ==
    ASSUME NEW p \in Procs, Steps(p)
    PROVE  UNCHANGED alone \/ Start(p) \/ Ends(p)
<1>1. CASE Prepares(p) \/ Edits(p) \/ Uninstall(p) \/ Noop(p) \/ Reload(p) \/ Check(p)
  BY <1>1 DEF Prepares, Edits, Uninstall, Noop, Reload, Check, notes
<1>2. CASE Thinks(p) \/ Answers(p) \/ Save(p)
  BY <1>2 DEF Thinks, Answers, Save, Compose, Truncate, Write, notes
<1> QED
  BY <1>1, <1>2 DEF Steps

\* Nobody else does anything while a process is alone, but end.
LEMMA OtherSolo ==
    ASSUME TypeOK, SoloInv, NEW p \in Procs, Steps(p), NEW q \in Procs, q # p, Solo(q)'
    PROVE  Sole(q)'
<1>1. alone \in [Procs -> BOOLEAN] /\ pc \in [Procs -> {"off", "analytics", "past", "reload",
                                      "ready", "run", "saving", "feedback", "exited"}]
      /\ sv \in [Procs -> [Threads -> {"idle", "compose", "truncate", "write", "unlinked"}]]
  BY DEF TypeOK
<1>2. pc'[q] = pc[q] /\ Running(q)
  BY Others DEF Solo, Running
<1>3. ~Start(p)
  BY <1>1, <1>2 DEF Start, Solo
<1>4. alone[q]
  <2>1. CASE Ends(p)
    BY <1>1, <2>1 DEF Ends, Exit, Solo
  <2> QED
    BY <1>3, <2>1, AloneSame DEF Solo
<1>5. Sole(q) /\ ~Running(p)
  BY <1>2, <1>4, SoloSole DEF Solo, Sole
<1>6. Ends(p)
  BY <1>3, <1>5, RunsToStep
<1>7. UNCHANGED disk /\ sv'[q] = sv[q] /\ pc'[p] = "exited"
  BY <1>1, <1>6 DEF Ends, Exit
<1>8. ASSUME NEW o \in Procs, Running(o)' PROVE o = q
  <2>1. o # p
    BY <1>7, <1>8 DEF Running
  <2>2. Running(o)
    BY <1>8, <2>1, Others DEF Running
  <2> QED
    BY <1>5, <2>2 DEF Sole
<1>9. /\ pc'[q] = pc[q] /\ cont'[q] = cont[q] /\ chk'[q] = chk[q] /\ mem'[q] = mem[q]
      /\ buf'[q] = buf[q] /\ overlap'[q] = overlap[q] /\ wanted'[q] = wanted[q]
  BY Others
<1>10. NotEmpty(q)' /\ Remotely(q)' /\ Wholly(q)'
  BY <1>5, <1>7, <1>9 DEF Sole, NotEmpty, Remotely, Wholly, Gone, Overwrites, Quiet
<1> QED
  BY <1>5, <1>7, <1>8, <1>10 DEF Sole

\* What the invariant says of a process before a step of it.
At(p) ==
    /\ pc[p] \in {"off", "analytics", "past", "reload", "ready", "run", "saving", "feedback", "exited"}
    /\ cont[p] \in {"off", "past", "reload", "feedback"}
    /\ chk[p] \in {"none", "start", "asked", "saving", "over", "failed"}
    /\ overlap[p] \in BOOLEAN
    /\ mem[p] \in Configs
    /\ pc[p] = "saving" <=> sv[p]["main"] # "idle"
    /\ chk[p] = "saving" <=> sv[p]["check"] # "idle"
    /\ pc[p] \in {"off", "analytics", "past", "reload", "ready"} => chk[p] = "none"
    /\ pc[p] = "saving" /\ cont[p] # "feedback" => chk[p] = "none"
    /\ overlap[p] => ~Quiet(p)

LEMMA AtHolds ==
    ASSUME TypeOK, CheckerInv, NEW p \in Procs
    PROVE  At(p)
<1>1. /\ pc[p] = "saving" <=> sv[p]["main"] # "idle"
      /\ chk[p] = "saving" <=> sv[p]["check"] # "idle"
  BY DEF TypeOK
<1>2. /\ pc[p] \in {"off", "analytics", "past", "reload", "ready"} => chk[p] = "none"
      /\ pc[p] = "saving" /\ cont[p] # "feedback" => chk[p] = "none"
      /\ overlap[p] => ~Quiet(p)
  BY DEF CheckerInv
<1>3. /\ pc[p] \in {"off", "analytics", "past", "reload", "ready", "run", "saving", "feedback", "exited"}
      /\ cont[p] \in {"off", "past", "reload", "feedback"}
      /\ chk[p] \in {"none", "start", "asked", "saving", "over", "failed"}
      /\ overlap[p] \in BOOLEAN /\ mem[p] \in Configs
  BY DEF TypeOK
<1> QED
  BY <1>1, <1>2, <1>3 DEF At

\* What Sole says of the process itself and of the file.
Kept(p) == sv[p]["main"] # "unlinked" /\ NotEmpty(p) /\ Remotely(p) /\ Wholly(p)

\* The configuration is loaded, at the start or again after a Save.
LEMMA LoadKeeps ==
    ASSUME TypeOK, CheckerInv, NEW p \in Procs, Start(p) \/ (Reload(p) /\ Kept(p))
    PROVE  Kept(p)'
<1>1. /\ disk \in Configs \cup {NoFile, Empty} /\ disk # Garbled /\ UNCHANGED disk
      /\ mem'[p] = Loaded(disk)
      /\ UNCHANGED <<sv, chk, overlap>>
  <2>1. disk # Garbled
    BY DEF Start, Reload, Load, Loads
  <2> QED
    BY <2>1 DEF TypeOK, Start, Reload, Load, check, saves, notes
<1>2. sv'[p]["main"] = "idle" /\ sv'[p]["check"] = "idle" /\ chk'[p] = "none" /\ ~overlap'[p]
  BY <1>1, AtHolds DEF At, Start, Reload, Quiet
<1>3. \A t \in Threads : sv'[p][t] = "idle"
  BY <1>2, ThreadsAre
<1>4. Loaded(mem'[p]) = Loaded(disk')
  BY <1>1, LoadedTwice
<1>5. pc'[p] \in {"analytics", "ready"}
  BY DEF TypeOK, Start, Reload, Load, Goto
<1>6. pc'[p] = "ready" => disk' \in Configs /\ disk' # Empty
  <2>1. CASE Start(p)
    BY <2>1 DEF TypeOK, Start, Load, Goto
  <2>2. CASE Reload(p)
    <3>1. Kept(p) /\ pc[p] = "reload"
      BY <2>2, <1>5 DEF Reload, Start
    <3> QED
      BY <1>1, <1>2, <1>3, <3>1, FilesAssumption DEF Kept, Remotely, Gone, Overwrites
  <2> QED
    BY <2>1, <2>2
<1>7. NotEmpty(p)'
  BY <1>5, <1>6 DEF NotEmpty
<1>8. Remotely(p)'
  BY <1>2, <1>3, <1>4, <1>5, <1>6 DEF Remotely, Overwrites
<1>9. Wholly(p)'
  BY <1>1, <1>2, <1>4, <1>5 DEF Wholly, Overwrites, Gone
<1> QED
  BY <1>2, <1>7, <1>8, <1>9 DEF Kept

\* The main thread goes on, and saves nothing.
LEMMA GoesOn ==
    ASSUME NEW p \in Procs, At(p), Kept(p), Check(p) \/ Noop(p) \/ Thinks(p), TypeOK
    PROVE  Kept(p)'
<1>1. UNCHANGED <<disk, mem, sv, buf, overlap>>
  BY DEF Check, Noop, Thinks, saves, notes
<1>2. chk'[p] \in {"none", "start", "asked", "saving", "over", "failed"} /\ (Quiet(p)' => Quiet(p))
  BY DEF TypeOK, At, Check, Noop, Thinks, Quiet, check
<1>3. Gone(p)' <=> Gone(p)
  <2>1. CASE Check(p)
    BY <2>1 DEF TypeOK, Check, Gone, Goto
  <2>2. CASE Noop(p)
    BY <2>2, FilesAssumption DEF TypeOK, Noop, Gone, Goto
  <2>3. CASE Thinks(p)
    BY <2>3 DEF Thinks, Gone, notes
  <2> QED
    BY <2>1, <2>2, <2>3
<1>4. \/ pc'[p] = pc[p] /\ cont'[p] = cont[p]
      \/ pc[p] \in {"ready", "run"} /\ pc'[p] \in {"run", "feedback"}
  BY DEF TypeOK, Check, Noop, Thinks, Goto
<1> QED
  BY <1>1, <1>2, <1>3, <1>4 DEF Kept, NotEmpty, Remotely, Wholly, Overwrites

\* The main thread changes the memory and is about to save it.
LEMMA PutKeeps ==
    ASSUME TypeOK, NEW p \in Procs, At(p), Kept(p), Prepares(p) \/ Edits(p)
    PROVE  Kept(p)'
<1>1. UNCHANGED <<disk, chk, buf, overlap>> /\ pc[p] \in {"analytics", "past", "run"}
  BY DEF Prepares, Edits, check, notes
<1>2. sv[p]["main"] = "idle" /\ ~Gone(p)
  BY <1>1 DEF At, Gone
<1>3. CASE UNCHANGED <<mem, sv>>
  <2>1. \/ pc[p] = "analytics" /\ mem[p].params.aid # NoID /\ pc'[p] = "past"
        \/ pc[p] = "past" /\ pc'[p] = "ready"
    BY <1>2, <1>3 DEF TypeOK, Prepares, Edits, SaveThen, Goto, Threads
  <2>2. chk[p] = "none" /\ ~overlap[p] /\ Quiet(p) /\ sv[p]["check"] = "idle"
    BY <1>1, <2>1 DEF At, Quiet
  <2>3. disk # Garbled /\ Loaded(disk) = Loaded(mem[p])
    BY <1>2, <2>2 DEF Kept, Wholly
  <2>4. disk \in Configs
    <3>1. CASE pc[p] = "analytics"
      <4>1. Loaded(disk).params.aid # NoID
        BY <2>1, <2>3, <3>1, LoadedOf DEF At
      <4> QED
        BY <2>3, <4>1, LoadedOfNone DEF TypeOK
    <3>2. CASE pc[p] = "past"
      BY <1>2, <2>2, <3>2 DEF Kept, Remotely
    <3> QED
      BY <2>1, <3>1, <3>2
  <2>5. \A t \in Threads : sv[p][t] = "idle"
    BY <1>2, <2>2, ThreadsAre
  <2>6. ~Gone(p)'
    BY <2>1 DEF Gone
  <2> QED
    BY <1>1, <1>2, <1>3, <2>1, <2>2, <2>3, <2>4, <2>5, <2>6, FilesAssumption
    DEF Kept, NotEmpty, Remotely, Wholly, Overwrites, Quiet
<1>4. CASE sv' = [sv EXCEPT ![p]["main"] = "compose"] /\ pc'[p] = "saving"
  <2>1. sv'[p]["main"] = "compose" /\ sv'[p]["check"] = sv[p]["check"]
    BY <1>4, ThreadsAre DEF TypeOK
  <2>2. \A t \in Threads : sv'[p][t] = "write" <=> sv[p][t] = "write"
    BY <1>2, <2>1, ThreadsAre
  <2>3. pc[p] = "analytics" => cont'[p] = "past"
    <3>1. cont \in [Procs -> {"off", "past", "reload", "feedback"}] /\ (Edits(p) => pc[p] = "run")
          /\ pc \in [Procs -> {"off", "analytics", "past", "reload", "ready", "run",
                               "saving", "feedback", "exited"}]
      BY DEF TypeOK, Edits
    <3> QED
      BY <1>4, <3>1 DEF Prepares, SaveThen, Goto
  <2>4. NotEmpty(p)'
    BY <1>1, <1>2, <1>4, <2>2, <2>3 DEF Kept, NotEmpty
  <2>5. Remotely(p)'
    BY <1>1, <1>2, <2>1, <2>2 DEF Kept, Remotely, Overwrites
  <2>6. Wholly(p)'
    BY <1>1, <1>4, <2>1 DEF Kept, Wholly, Overwrites, Gone, Quiet
  <2> QED
    BY <2>1, <2>4, <2>5, <2>6 DEF Kept
<1> QED
  BY <1>3, <1>4 DEF TypeOK, Prepares, Edits, SaveThen, Goto

\* The file is removed.
LEMMA UninstallKeeps ==
    ASSUME TypeOK, NEW p \in Procs, At(p), Kept(p), Uninstall(p)
    PROVE  Kept(p)'
<1>1. /\ UNCHANGED <<chk, mem, buf, overlap>> /\ disk' = NoFile /\ Gone(p)'
      /\ sv[p]["main"] = "idle"
  BY DEF At, TypeOK, Uninstall, Goto, Gone, check
<1>2. \A t \in Threads : sv'[p][t] = IF sv[p][t] = "write" THEN "unlinked" ELSE sv[p][t]
  BY DEF Uninstall
<1>3. sv'[p]["main"] = "idle" /\ (Overwrites(p, "check")' => Overwrites(p, "check"))
  BY <1>1, <1>2, ThreadsAre DEF Overwrites
<1>4. \A t \in Threads : sv'[p][t] # "write"
  BY <1>2
<1>5. NotEmpty(p)'
  BY <1>1, FilesAssumption DEF NotEmpty
<1>6. Remotely(p)'
  BY <1>1, <1>3, <1>4 DEF Kept, Remotely, Overwrites
<1>7. Wholly(p)'
  BY <1>1, <1>3 DEF Wholly, Overwrites
<1> QED
  BY <1>3, <1>5, <1>6, <1>7 DEF Kept

\* The checker puts other parameters in the memory, and is about to save it.
LEMMA AnswerKeeps ==
    ASSUME TypeOK, NEW p \in Procs, At(p), Kept(p), Answers(p)
    PROVE  Kept(p)'
<1>1. /\ UNCHANGED <<disk, pc, cont, buf, overlap, wanted>> /\ chk'[p] = "saving"
      /\ mem'[p] \in Configs /\ mem'[p].remotes = mem[p].remotes
      /\ sv'[p]["check"] = "compose" /\ sv'[p]["main"] = sv[p]["main"] /\ sv[p]["check"] = "idle"
  BY ThreadsAre DEF At, TypeOK, Answers, Puts, Checking, told, notes
<1>2. \A t \in Threads : sv'[p][t] = "write" <=> sv[p][t] = "write"
  BY <1>1, ThreadsAre
<1>3. Loaded(mem'[p]).remotes = Loaded(mem[p]).remotes
  BY <1>1, LoadedOf DEF At
<1>4. NotEmpty(p)'
  BY <1>1, <1>2 DEF Kept, NotEmpty
<1>5. Remotely(p)'
  BY <1>1, <1>2, <1>3 DEF Kept, Remotely, Overwrites, Gone
<1>6. Wholly(p)'
  BY <1>1 DEF Wholly, Quiet
<1> QED
  BY <1>1, <1>4, <1>5, <1>6 DEF Kept

\* The text of the file is composed.
LEMMA ComposeKeeps ==
    ASSUME TypeOK, NEW p \in Procs, At(p), Kept(p), NEW t \in Threads, Compose(p, t)
    PROVE  Kept(p)'
<1>1. /\ UNCHANGED <<disk, pc, cont, chk, mem, wanted>> /\ buf'[p][t] = mem[p]
      /\ sv[p][t] = "compose" /\ sv'[p][t] = "truncate"
      /\ sv'[p][Other(t)] = sv[p][Other(t)] /\ buf'[p][Other(t)] = buf[p][Other(t)]
      /\ ~overlap'[p] => ~overlap[p] /\ ~Overwrites(p, Other(t))
  <2>1. /\ sv \in [Procs -> [Threads -> {"idle", "compose", "truncate", "write", "unlinked"}]]
        /\ buf \in [Procs -> [Threads -> Configs]] /\ overlap \in [Procs -> BOOLEAN]
    BY DEF TypeOK
  <2>2. sv' = [sv EXCEPT ![p][t] = "truncate"] /\ buf' = [buf EXCEPT ![p][t] = mem[p]]
        /\ UNCHANGED <<disk, pc, cont, chk, mem, wanted>> /\ sv[p][t] = "compose"
    BY DEF Compose, Saving, check
  <2>3. Other(t) \in Threads /\ Other(t) # t
    BY ThreadsAre
  <2>4. sv'[p] = [sv[p] EXCEPT ![t] = "truncate"] /\ buf'[p] = [buf[p] EXCEPT ![t] = mem[p]]
    BY <2>1, <2>2
  <2>5. /\ sv'[p][t] = "truncate" /\ sv'[p][Other(t)] = sv[p][Other(t)]
        /\ buf'[p][t] = mem[p] /\ buf'[p][Other(t)] = buf[p][Other(t)]
    BY <2>1, <2>3, <2>4
  <2>6. overlap'[p] <=> overlap[p] \/ Overwrites(p, Other(t))
    BY <2>1 DEF Compose, Overwrites
  <2> QED
    BY <2>2, <2>5, <2>6
<1>2. \A u \in Threads : sv'[p][u] = "write" <=> sv[p][u] = "write"
  BY <1>1, ThreadsAre
<1>3. sv'[p]["main"] # "unlinked"
  BY <1>1, ThreadsAre DEF Kept
<1>4. NotEmpty(p)'
  BY <1>1, <1>2 DEF Kept, NotEmpty
<1>5. CASE t = "main"
  <2>1. ~Gone(p)
    BY <1>1, <1>5 DEF At, Gone
  <2>2. Remotely(p)'
    BY <1>1, <1>2, <1>5, ThreadsAre DEF Kept, Remotely, Overwrites
  <2>3. Wholly(p)'
    BY <1>1, <1>5, <2>1, ThreadsAre DEF Kept, Wholly, Overwrites, Gone, Quiet
  <2> QED
    BY <1>3, <1>4, <2>2, <2>3 DEF Kept
<1>6. CASE t = "check"
  <2>1. chk[p] = "saving"
    BY <1>1, <1>6 DEF At
  <2>2. Remotely(p)'
    BY <1>1, <1>2, <1>6, ThreadsAre DEF Kept, Remotely, Overwrites, Gone
  <2>3. Wholly(p)'
    BY <1>1, <2>1 DEF Wholly, Quiet
  <2> QED
    BY <1>3, <1>4, <2>2, <2>3 DEF Kept
<1> QED
  BY <1>5, <1>6, ThreadsAre

\* The file is truncated.
LEMMA TruncateKeeps ==
    ASSUME TypeOK, NEW p \in Procs, At(p), Kept(p), NEW t \in Threads, Truncate(p, t)
    PROVE  Kept(p)'
<1>1. /\ UNCHANGED <<pc, cont, chk, mem, buf, overlap, wanted>> /\ disk' = Empty
      /\ sv[p][t] = "truncate" /\ sv'[p][t] = "write" /\ sv'[p][Other(t)] = sv[p][Other(t)]
  <2>1. sv \in [Procs -> [Threads -> {"idle", "compose", "truncate", "write", "unlinked"}]]
    BY DEF TypeOK
  <2>2. sv' = [sv EXCEPT ![p][t] = "write"] /\ sv[p][t] = "truncate" /\ disk' = Empty
        /\ UNCHANGED <<pc, cont, chk, mem, buf, overlap, wanted>>
    BY DEF Truncate, Saving, check, notes
  <2>3. Other(t) \in Threads /\ Other(t) # t
    BY ThreadsAre
  <2>4. sv'[p] = [sv[p] EXCEPT ![t] = "write"]
    BY <2>1, <2>2
  <2> QED
    BY <2>1, <2>2, <2>3, <2>4
<1>2. sv'[p]["main"] # "unlinked"
  BY <1>1, ThreadsAre DEF Kept
<1>3. NotEmpty(p)'
  BY <1>1 DEF NotEmpty
<1>4. CASE t = "main"
  <2>1. ~Gone(p)
    BY <1>1, <1>4 DEF At, Gone
  <2>2. Remotely(p)'
    BY <1>1, <1>4, ThreadsAre DEF Kept, Remotely, Overwrites
  <2>3. Wholly(p)'
    BY <1>1, <1>4, <2>1, ThreadsAre DEF Kept, Wholly, Overwrites, Gone, Quiet
  <2> QED
    BY <1>2, <1>3, <2>2, <2>3 DEF Kept
<1>5. CASE t = "check"
  <2>1. chk[p] = "saving"
    BY <1>1, <1>5 DEF At
  <2>2. Remotely(p)'
    BY <1>1, <1>5, ThreadsAre DEF Kept, Remotely, Overwrites
  <2>3. Wholly(p)'
    BY <1>1, <2>1 DEF Wholly, Quiet
  <2> QED
    BY <1>2, <1>3, <2>2, <2>3 DEF Kept
<1> QED
  BY <1>4, <1>5, ThreadsAre

\* The file is written, or the text of a file that was removed.
LEMMA WriteKeeps ==
    ASSUME TypeOK, WantedInv, NEW p \in Procs, At(p), Kept(p), NEW t \in Threads, Write(p, t)
    PROVE  Kept(p)'
<1>1. /\ UNCHANGED <<cont, mem, overlap, wanted>>
      /\ sv[p][t] \in {"write", "unlinked"} /\ sv'[p][t] = "idle"
      /\ sv'[p][Other(t)] = sv[p][Other(t)] /\ buf'[p][Other(t)] = buf[p][Other(t)]
  <2>1. /\ sv \in [Procs -> [Threads -> {"idle", "compose", "truncate", "write", "unlinked"}]]
        /\ buf \in [Procs -> [Threads -> Configs]]
    BY DEF TypeOK
  <2>2. sv' = [sv EXCEPT ![p][t] = "idle"] /\ buf' = [buf EXCEPT ![p][t] = Loaded(NoFile)]
        /\ UNCHANGED <<cont, mem, overlap, wanted>> /\ sv[p][t] \in {"write", "unlinked"}
    BY DEF Write, Saving, notes
  <2>3. Other(t) \in Threads /\ Other(t) # t
    BY ThreadsAre
  <2>4. sv'[p] = [sv[p] EXCEPT ![t] = "idle"] /\ buf'[p] = [buf[p] EXCEPT ![t] = Loaded(NoFile)]
    BY <2>1, <2>2
  <2> QED
    BY <2>1, <2>2, <2>3, <2>4
<1>2. buf[p][t] \in Configs
  BY DEF TypeOK
<1>3. sv[p][t] = "write" => /\ disk' \in {buf[p][t], Garbled}
                            /\ disk = Empty => disk' = buf[p][t]
  BY DEF Write, Saving
<1>4. sv[p][t] = "write" /\ ~overlap[p] => disk = Empty
  BY DEF Kept, Remotely
<1>5. CASE t = "main"
  <2>1. sv[p]["main"] = "write" /\ pc[p] = "saving" /\ pc'[p] = cont[p] /\ UNCHANGED chk
    BY <1>1, <1>5 DEF At, Kept, TypeOK, Write
  <2>2. ~Gone(p)'
    BY <1>1, <2>1, FilesAssumption DEF WantedInv, Gone
  <2>3. NotEmpty(p)'
    BY <1>2, <1>3, <1>5, <2>1, FilesAssumption DEF NotEmpty
  <2>4. ASSUME ~overlap[p]
        PROVE  disk' = buf[p]["main"] /\ buf[p]["main"].remotes = mem[p].remotes
               /\ ~Overwrites(p, "check")
    BY <1>3, <1>4, <1>5, <2>1, <2>4 DEF Kept, Remotely, Overwrites
  <2>5. Remotely(p)'
    <3>1. ASSUME ~overlap[p] PROVE Loaded(disk').remotes = Loaded(mem[p]).remotes /\ disk' \in Configs
      BY <1>2, <1>5, <2>4, <3>1, LoadedOf DEF At
    <3>2. ASSUME ~overlap[p] PROVE \A u \in Threads : sv'[p][u] # "write" /\ sv'[p][u] # "truncate"
      BY <1>1, <1>5, <2>4, <3>2, ThreadsAre DEF Overwrites
    <3> QED
      BY <1>1, <3>1, <3>2, ThreadsAre DEF Remotely, Overwrites
  <2>6. Wholly(p)'
    <3>1. SUFFICES ASSUME Quiet(p) PROVE Wholly(p)'
      BY <2>1 DEF Wholly, Quiet
    <3>2. disk' = mem[p] /\ disk' # Garbled
      BY <1>2, <1>5, <2>1, <2>4, <3>1, FilesAssumption DEF At, Kept, Wholly, Overwrites
    <3>3. sv'[p]["main"] = "idle"
      BY <1>1, <1>5
    <3> QED
      BY <1>1, <2>2, <3>2, <3>3 DEF Wholly, Overwrites
  <2> QED
    BY <1>1, <1>5, <2>3, <2>5, <2>6 DEF Kept
<1>6. CASE t = "check"
  <2>1. chk[p] = "saving" /\ chk'[p] = "over" /\ UNCHANGED pc
        /\ sv'[p]["main"] = sv[p]["main"] /\ buf'[p]["main"] = buf[p]["main"]
        /\ sv'[p]["check"] = "idle"
    BY <1>1, <1>6, ThreadsAre DEF At, TypeOK, Write
  <2>2. Wholly(p)'
    BY <2>1 DEF Wholly, Quiet
  <2>3. CASE sv[p]["check"] = "write"
    <3>1. NotEmpty(p)'
      BY <1>2, <1>3, <1>6, <2>3, FilesAssumption DEF NotEmpty
    <3>2. Remotely(p)'
      <4>1. ASSUME ~overlap[p]
            PROVE  disk' = buf[p]["check"] /\ ~Overwrites(p, "main")
                   /\ (sv[p]["main"] # "compose" => buf[p]["check"].remotes = mem[p].remotes)
        BY <1>3, <1>4, <1>6, <2>3, <4>1 DEF Kept, Remotely, Overwrites
      <4>2. ASSUME ~overlap[p], sv[p]["main"] = "idle"
            PROVE  Loaded(disk').remotes = Loaded(mem[p]).remotes /\ disk' \in Configs
        BY <1>2, <1>6, <4>1, <4>2, LoadedOf DEF At
      <4>3. ASSUME ~overlap[p] PROVE \A u \in Threads : sv'[p][u] # "write" /\ sv'[p][u] # "truncate"
        BY <2>1, <4>1, <4>3, ThreadsAre DEF Overwrites
      <4> QED
        BY <1>1, <2>1, <4>2, <4>3, ThreadsAre DEF Remotely, Overwrites
    <3> QED
      BY <2>1, <2>2, <3>1, <3>2 DEF Kept
  <2>4. CASE sv[p]["check"] = "unlinked"
    <3>1. UNCHANGED disk
      BY <1>6, <2>4 DEF Write, Saving
    <3>2. \A u \in Threads : sv'[p][u] = "write" <=> sv[p][u] = "write"
      BY <2>1, <2>4, ThreadsAre
    <3>3. NotEmpty(p)'
      BY <1>1, <2>1, <3>1, <3>2 DEF Kept, NotEmpty
    <3>4. Remotely(p)'
      BY <1>1, <2>1, <2>4, <3>1, <3>2 DEF Kept, Remotely, Overwrites, Gone
    <3> QED
      BY <2>1, <2>2, <3>3, <3>4 DEF Kept
  <2> QED
    BY <1>1, <1>6, <2>3, <2>4
<1> QED
  BY <1>5, <1>6, ThreadsAre

LEMMA OwnSolo ==
    ASSUME TypeOK, CheckerInv, WantedInv, SoloInv, NEW p \in Procs, Steps(p), Solo(p)'
    PROVE  Sole(p)'
<1>1. alone \in [Procs -> BOOLEAN] /\ pc \in [Procs -> {"off", "analytics", "past", "reload",
                                      "ready", "run", "saving", "feedback", "exited"}]
  BY DEF TypeOK
<1>2. At(p)
  BY AtHolds
<1>3. ~Ends(p)
  BY <1>1 DEF Ends, Exit, Solo, Running
<1>4. CASE Start(p)
  <2>1. \A q \in Procs : ~Running(q)
    BY <1>1, <1>4 DEF Start, Solo
  <2>2. \A q \in Procs : Running(q)' => q = p
    BY <2>1, Others DEF Running
  <2>3. Kept(p)'
    BY <1>4, LoadKeeps
  <2> QED
    BY <2>2, <2>3 DEF Sole, Kept
<1>5. CASE ~Start(p)
  <2>1. Sole(p)
    BY <1>3, <1>5, AloneSame, RunsToStep, SoloSole DEF Solo
  <2>2. \A q \in Procs : Running(q)' => q = p
    BY <2>1, Others DEF Sole, Running
  <2>3. Kept(p)
    BY <2>1 DEF Sole, Kept
  <2>4. Kept(p)'
    <3>1. CASE Reload(p)
      BY <2>3, <3>1, LoadKeeps
    <3>2. CASE Check(p) \/ Noop(p) \/ Thinks(p)
      BY <1>2, <2>3, <3>2, GoesOn
    <3>3. CASE Prepares(p) \/ Edits(p)
      BY <1>2, <2>3, <3>3, PutKeeps
    <3>4. CASE Uninstall(p)
      BY <1>2, <2>3, <3>4, UninstallKeeps
    <3>5. CASE Answers(p)
      BY <1>2, <2>3, <3>5, AnswerKeeps
    <3>6. CASE Save(p)
      BY <1>2, <2>3, <3>6, ComposeKeeps, TruncateKeeps, WriteKeeps DEF Save
    <3> QED
      BY <1>3, <1>5, <3>1, <3>2, <3>3, <3>4, <3>5, <3>6 DEF Steps
  <2> QED
    BY <2>2, <2>4 DEF Sole, Kept
<1> QED
  BY <1>4, <1>5

-----------------------------------------------------------------------------
(* The theorems. *)

LEMMA InvInit ==
    ASSUME Init
    PROVE  Inv
<1>1. TypeOK
  BY TypeInit
<1>2. CheckerInv /\ WantedInv /\ SoloInv
  BY DEF Init, CheckerInv, WantedInv, SoloInv, Solo, Running, Quiet
<1> QED
  BY <1>1, <1>2 DEF Inv

LEMMA InvStep ==
    ASSUME Inv, [Next]_vars
    PROVE  Inv'
<1>1. TypeOK /\ CheckerInv /\ WantedInv /\ SoloInv /\ TypeOK'
  BY TypeStep DEF Inv
<1>2. CASE World
  BY <1>1, <1>2, WorldSame
  DEF Inv, CheckerInv, WantedInv, SoloInv, Solo, Running, NotEmpty, Remotely, Wholly, Gone,
      Overwrites, Quiet
<1>3. ASSUME NEW p \in Procs, Steps(p) PROVE Inv'
  <2>1. CheckerInv' /\ WantedInv'
    BY <1>1, <1>3, CheckerStep, WantedStep
  <2>2. \A q \in Procs : Solo(q)' => Sole(q)'
    BY <1>1, <1>3, OtherSolo, OwnSolo
  <2>3. SoloInv'
    BY <2>2 DEF SoloInv, Sole
  <2> QED
    BY <1>1, <2>1, <2>3 DEF Inv
<1> QED
  BY <1>1, <1>2, <1>3, NextSteps DEF World

LEMMA InvHolds == Spec => []Inv
  BY InvInit, InvStep, PTL DEF Spec

\* The types of the file, of the memory of each process and of what its threads are about to
\* write; a thread saves exactly while its Save is under way.
THEOREM TypeCorrect == Spec => []TypeOK
  BY InvHolds, PTL DEF Inv

\* A process ends well only at the end of its command, the checker being through.
LEMMA EndsWell ==
    ASSUME Inv, [Next]_vars, NEW p \in Procs, exit[p] = "none", exit'[p] = "ok"
    PROVE  pc[p] = "feedback" /\ chk[p] \in {"none", "over", "failed"}
<1>1. exit \in [Procs -> {"none", "ok", "error", "killed"}]
  BY DEF Inv, TypeOK
<1>2. ~World
  BY WorldSame
<1>3. PICK q \in Procs : Steps(q)
  BY <1>2, NextSteps DEF Inv, World
<1>4. UNCHANGED exit \/ Ends(q)
  <2>1. CASE Prepares(q) \/ Edits(q)
    BY <2>1 DEF Prepares, Edits, SaveThen, Goto
  <2>2. CASE Start(q) \/ Uninstall(q) \/ Noop(q) \/ Reload(q) \/ Check(q)
    BY <2>2 DEF Start, Uninstall, Noop, Reload, Check, Load, Goto
  <2>3. CASE Thinks(q) \/ Answers(q) \/ Save(q)
    BY <2>3 DEF Thinks, Answers, Save, Compose, Truncate, Write, told
  <2> QED
    BY <1>3, <2>1, <2>2, <2>3 DEF Steps
<1>5. PICK how \in {"ok", "error", "killed"} :
         /\ how = "ok" => pc[q] = "feedback" /\ chk[q] \in {"none", "over", "failed"}
         /\ exit' = [exit EXCEPT ![q] = how]
  BY <1>4 DEF Ends, Exit
<1> QED
  BY <1>1, <1>5

\* A process that ends well leaves no Save under way; if it was alone, the file is not empty,
\* whatever was in it when the process started.
THEOREM TornCorrect == Spec => NotTorn
<1>1. ASSUME Inv, [Next]_vars, NEW p \in Procs, exit[p] = "none", exit'[p] = "ok"
      PROVE  /\ \A t \in Threads : sv[p][t] = "idle"
             /\ alone[p] => disk # Empty
  <2>1. pc[p] = "feedback" /\ chk[p] \in {"none", "over", "failed"}
    BY <1>1, EndsWell
  <2>2. \A t \in Threads : sv[p][t] = "idle"
    BY <1>1, <2>1, ThreadsAre DEF Inv, TypeOK
  <2>3. alone[p] => NotEmpty(p)
    BY <1>1, <2>1 DEF Inv, SoloInv, Solo, Running
  <2> QED
    BY <2>1, <2>2, <2>3 DEF NotEmpty
<1>2. Inv /\ [Next]_vars =>
        [\A p \in Procs :
           exit[p] = "none" /\ exit'[p] = "ok" =>
               /\ \A t \in Threads : sv[p][t] = "idle"
               /\ alone[p] => disk # Empty]_vars
  BY <1>1
<1> QED
  BY <1>2, InvHolds, PTL DEF Spec, NotTorn

\* What a command did is on the disk when it ends well, if the process was alone: what it did to
\* the remotes, unless the two threads saved at the same time; and all of it, if the checker
\* saved nothing.
THEOREM PersistCorrect == Spec => SoloPersists
<1>1. ASSUME Inv, [Next]_vars, NEW p \in Procs, alone[p], exit[p] = "none", exit'[p] = "ok"
      PROVE  /\ ~overlap[p] /\ wanted[p] # NoFile =>
                   /\ disk \in Configs
                   /\ Loaded(disk).remotes = Loaded(wanted[p]).remotes
             /\ chk[p] \in {"none", "failed"} => Loaded(disk) = Loaded(wanted[p])
  <2>1. pc[p] = "feedback" /\ chk[p] \in {"none", "over", "failed"}
    BY <1>1, EndsWell
  <2>2. sv[p]["main"] = "idle" /\ sv[p]["check"] = "idle" /\ mem[p] \in Configs
    BY <1>1, <2>1 DEF Inv, TypeOK
  <2>3. Remotely(p) /\ Wholly(p)
    BY <1>1, <2>1 DEF Inv, SoloInv, Solo, Running
  <2>4. wanted[p] # NoFile => /\ wanted[p] \in Configs /\ wanted[p].remotes = mem[p].remotes
                              /\ Quiet(p) => wanted[p] = mem[p]
    BY <1>1, <2>1 DEF Inv, WantedInv
  <2>5. ASSUME ~overlap[p], wanted[p] # NoFile
        PROVE  disk \in Configs /\ Loaded(disk).remotes = Loaded(wanted[p]).remotes
    <3>1. disk \in Configs /\ Loaded(disk).remotes = Loaded(mem[p]).remotes
      BY <2>1, <2>2, <2>3, <2>5 DEF Remotely, Gone
    <3>2. Loaded(wanted[p]).remotes = Loaded(mem[p]).remotes
      BY <2>2, <2>4, <2>5, LoadedOf
    <3> QED
      BY <3>1, <3>2
  <2>6. ASSUME chk[p] \in {"none", "failed"} PROVE Loaded(disk) = Loaded(wanted[p])
    BY <2>1, <2>2, <2>3, <2>4, <2>6 DEF Wholly, Gone, Quiet
  <2> QED
    BY <2>5, <2>6
<1>2. Inv /\ [Next]_vars =>
        [\A p \in Procs :
           alone[p] /\ exit[p] = "none" /\ exit'[p] = "ok" =>
               /\ ~overlap[p] /\ wanted[p] # NoFile =>
                                 /\ disk \in Configs
                                 /\ Loaded(disk).remotes = Loaded(wanted[p]).remotes
               /\ chk[p] \in {"none", "failed"} => Loaded(disk) = Loaded(wanted[p])]_vars
  BY <1>1
<1> QED
  BY <1>2, InvHolds, PTL DEF Spec, SoloPersists
=============================================================================
