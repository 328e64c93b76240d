----------------------------- MODULE ConfigStore -----------------------------
(***************************************************************************)
(* ~/.lcp, the configuration of the CLI, and the processes that use it.    *)
(* A process loads the whole file, keeps it in memory (config.Config), and *)
(* each Save writes the whole file again.  Two threads of a process share  *)
(* the memory: the command (main) and the update checker (check), which    *)
(* reads the parameters, asks the server, and writes the parameters it     *)
(* read back, with the answer.  The list of remotes is a pointer: a copy   *)
(* of the parameters shares it.                                            *)
(*                                                                         *)
(* Save is three steps: the file is composed from the memory, truncated,   *)
(* and written.  The edit a command makes of the memory is one step.  A    *)
(* process may be killed at any time; one whose command fails exits at     *)
(* once, without waiting for the checker.                                  *)
(***************************************************************************)
EXTENDS Integers

CONSTANTS Procs,       \* processes, each runs one command
          Remotes,     \* names of remotes
          CloudRemote, \* the default cloud remote, "lcp"
          Commands,    \* commands run
          MaxVersion,  \* bound: versions released
          Overlapping, \* whether processes run at the same time
          NoFile, Empty, Garbled,  \* contents of a file that is none
          NoID         \* no analytics ID

ASSUME CloudRemoteAssumption == CloudRemote \in Remotes
ASSUME MaxVersionAssumption == MaxVersion \in Nat \ {0}
ASSUME OverlappingAssumption == Overlapping \in BOOLEAN
ASSUME CommandsAssumption ==
    Commands \subseteq {"noop", "login", "logout", "set", "rm", "rename",
                        "default", "update", "uninstall", "fail"}

Threads == {"main", "check"}
Entries == {"absent", "out", "in"}   \* "in": it has credentials

\* Params, and the remotes they point to; version 0: none.
Params == [default : Remotes, next : 0 .. MaxVersion, past : 0 .. MaxVersion,
           aid : Procs \cup {NoID}]
Configs == [params : Params, remotes : [Remotes -> Entries]]

ASSUME FilesAssumption ==
    /\ NoFile # Empty /\ Empty # Garbled /\ Garbled # NoFile
    /\ {NoFile, Empty, Garbled} \intersect Configs = {}

VARIABLES
    disk,       \* the file
    installed,  \* version of the executable
    released,   \* version the server offers
    pc,         \* where the command of a process is
    cont,       \* where it goes on after a Save
    ver,        \* version of the running program
    mem,        \* Config.Params
    chk,        \* where the update checker is
    snap,       \* the parameters the checker read
    sv,         \* Save, by thread
    buf,        \* what the thread is going to write
    exit,       \* how the process ended
    notice,     \* version the user was told of, 0: none
    alone,      \* no other process ran since this one started
    overlap,    \* the two threads saved at the same time
    wanted      \* what the command left in memory

world == <<installed, released>>
saves == <<sv, buf>>
check == <<chk, snap>>
told  == <<exit, notice>>
notes == <<alone, overlap, wanted>>
vars  == <<disk, installed, released, pc, cont, ver, mem, chk, snap, sv, buf,
           exit, notice, alone, overlap, wanted>>

-----------------------------------------------------------------------------
Running(p) == pc[p] \notin {"off", "exited"}

\* setDefaults.
Defaults == [default |-> CloudRemote, next |-> 0, past |-> 0, aid |-> NoID]

\* loadDefaultRemotes: the cloud remote is created again when it is missing.
WithCloud(rl) == [rl EXCEPT ![CloudRemote] = IF @ = "absent" THEN "out" ELSE @]

\* openOrCreate, load, loadDefaultRemotes.
Loaded(f) ==
    IF f \in {NoFile, Empty}
      THEN [params |-> Defaults, remotes |-> WithCloud([r \in Remotes |-> "absent"])]
      ELSE [params |-> f.params, remotes |-> WithCloud(f.remotes)]

\* Load: the file is read and validateDefaultRemote agrees.
Loads(f) == /\ f # Garbled
            /\ Loaded(f).remotes[Loaded(f).params.default] # "absent"

\* The files a user may start with: none, or one a command saved before.
Init ==
    /\ disk \in {NoFile} \cup
         {[params |-> [Defaults EXCEPT !.default = d],
           remotes |-> [WithCloud([r \in Remotes |-> "in"]) EXCEPT ![CloudRemote] = "out"]]
            : d \in Remotes}
    /\ installed = 1
    /\ released = 1
    /\ pc = [p \in Procs |-> "off"]
    /\ cont = [p \in Procs |-> "off"]
    /\ ver = [p \in Procs |-> 0]
    /\ mem = [p \in Procs |-> Loaded(NoFile)]
    /\ chk = [p \in Procs |-> "none"]
    /\ snap = [p \in Procs |-> Defaults]
    /\ sv = [p \in Procs |-> [t \in Threads |-> "idle"]]
    /\ buf = [p \in Procs |-> [t \in Threads |-> Loaded(NoFile)]]
    /\ exit = [p \in Procs |-> "none"]
    /\ notice = [p \in Procs |-> 0]
    /\ alone = [p \in Procs |-> TRUE]
    /\ overlap = [p \in Procs |-> FALSE]
    /\ wanted = [p \in Procs |-> Loaded(NoFile)]

\* A new version is released.
Release ==
    /\ released < MaxVersion
    /\ released' = released + 1
    /\ UNCHANGED <<disk, installed, pc, cont, ver, mem, check, saves, told, notes>>

\* The user installs the released version without `lcp update`.
Install ==
    /\ installed < released
    /\ installed' = released
    /\ UNCHANGED <<disk, released, pc, cont, ver, mem, check, saves, told, notes>>

-----------------------------------------------------------------------------
(* The main thread. *)

\* A process ends, and what it had in memory is gone.
Exit(p, how) ==
    /\ pc' = [pc EXCEPT ![p] = "exited"]
    /\ exit' = [exit EXCEPT ![p] = how]
    /\ mem' = [mem EXCEPT ![p] = Loaded(NoFile)]
    /\ snap' = [snap EXCEPT ![p] = Defaults]
    /\ buf' = [buf EXCEPT ![p] = [t \in Threads |-> Loaded(NoFile)]]
    /\ sv' = [sv EXCEPT ![p] = [t \in Threads |-> "idle"]]
    /\ chk' = [chk EXCEPT ![p] = "none"]
    /\ cont' = [cont EXCEPT ![p] = "off"]
    /\ ver' = [ver EXCEPT ![p] = 0]
    /\ alone' = [alone EXCEPT ![p] = TRUE]
    /\ overlap' = [overlap EXCEPT ![p] = FALSE]
    /\ wanted' = [wanted EXCEPT ![p] = Loaded(NoFile)]

Goto(p, where) == pc' = [pc EXCEPT ![p] = where] /\ UNCHANGED exit

\* Save, then where.
SaveThen(p, where) ==
    /\ sv' = [sv EXCEPT ![p]["main"] = "compose"]
    /\ cont' = [cont EXCEPT ![p] = where]
    /\ Goto(p, "saving")

\* loadConfig.
Load(p, where) ==
    /\ Loads(disk)
    /\ mem' = [mem EXCEPT ![p] = Loaded(disk)]
    /\ Goto(p, where)

Start(p) ==
    /\ pc[p] = "off"
    /\ Overlapping \/ \A q \in Procs : ~Running(q)
    /\ ver' = [ver EXCEPT ![p] = installed]
    /\ Load(p, "analytics")
    /\ alone' = [q \in Procs |->
                   IF q = p THEN \A o \in Procs : ~Running(o)
                   ELSE alone[q] /\ ~Running(q)]
    /\ UNCHANGED <<disk, world, cont, check, saves, notice, overlap, wanted>>

\* loadConfig: the file is garbled, or its default remote is not found.
LoadFails(p) ==
    /\ pc[p] \in {"off", "reload"}
    /\ Overlapping \/ \A q \in Procs \ {p} : ~Running(q)
    /\ ~Loads(disk)
    /\ Exit(p, "error")
    /\ UNCHANGED <<disk, world, notice>>

\* checkAnalytics: without an ID one is made, and saved at once.
checkAnalytics(p) ==
    /\ pc[p] = "analytics"
    /\ IF mem[p].params.aid = NoID
         THEN /\ mem' = [mem EXCEPT ![p].params.aid = p]
              /\ SaveThen(p, "past")
         ELSE /\ Goto(p, "past")
              /\ UNCHANGED <<mem, sv, cont>>
    /\ UNCHANGED <<disk, world, ver, check, buf, notice, notes>>

\* checkPastVersion and applyChanges: the transitions are applied once, then
\* the configuration is saved and loaded again.
checkPastVersion(p) ==
    /\ pc[p] = "past"
    /\ IF mem[p].params.past # 0
         THEN /\ mem' = [mem EXCEPT ![p].params.past = 0]
              /\ SaveThen(p, "reload")
         ELSE /\ Goto(p, "ready")
              /\ UNCHANGED <<mem, sv, cont>>
    /\ UNCHANGED <<disk, world, ver, check, buf, notice, notes>>

Reload(p) ==
    /\ pc[p] = "reload"
    /\ Load(p, "ready")
    /\ UNCHANGED <<disk, world, cont, ver, check, saves, notice, notes>>

\* Checker.Check, but not for the commands that do without.
Check(p) ==
    /\ pc[p] = "ready"
    /\ \E c \in {"none", "start"} : chk' = [chk EXCEPT ![p] = c]
    /\ Goto(p, "run")
    /\ UNCHANGED <<disk, world, cont, ver, mem, snap, saves, notice, notes>>

\* A command that ends well with memory m and saves it.
Command(p, c, m) ==
    /\ pc[p] = "run"
    /\ c \in Commands
    /\ mem' = [mem EXCEPT ![p] = m]
    /\ wanted' = [wanted EXCEPT ![p] = m]
    /\ SaveThen(p, "feedback")
    /\ UNCHANGED <<disk, world, ver, check, buf, notice, alone, overlap>>

Has(p, r) == mem[p].remotes[r] # "absent"

\* saveUser.
Login(p, r) ==
    Has(p, r) /\ Command(p, "login", [mem[p] EXCEPT !.remotes[r] = "in"])

\* logoutRun.
Logout(p, r) ==
    Has(p, r) /\ Command(p, "logout", [mem[p] EXCEPT !.remotes[r] = "out"])

\* setRun: an old entry is deleted with its credentials.
SetRemote(p, r) == Command(p, "set", [mem[p] EXCEPT !.remotes[r] = "out"])

\* removeRun: the default falls back to the cloud remote.
RemoveRemote(p, r) ==
    /\ Has(p, r)
    /\ Command(p, "rm",
         [mem[p] EXCEPT !.remotes[r] = "absent",
                        !.params.default = IF @ = r THEN CloudRemote ELSE @])

\* renameRun.
RenameRemote(p, r, new) ==
    /\ Has(p, r)
    /\ ~Has(p, new)
    /\ Command(p, "rename", [mem[p] EXCEPT !.remotes[r] = "absent",
                                           !.remotes[new] = mem[p].remotes[r]])

\* saveDefaultRemote.
DefaultRemote(p, r) ==
    Has(p, r) /\ Command(p, "default", [mem[p] EXCEPT !.params.default = r])

\* Update: there is no newer version.
UpdateNone(p) ==
    /\ released =< ver[p]
    /\ Command(p, "update", [mem[p] EXCEPT !.params.next = 0])

\* Update: the executable is replaced, then updateConfig.
UpdateApply(p) ==
    /\ pc[p] = "run"
    /\ "update" \in Commands
    /\ released > ver[p]
    /\ installed' = released
    /\ mem' = [mem EXCEPT ![p].params.past = ver[p], ![p].params.next = 0]
    /\ wanted' = [wanted EXCEPT ![p] = mem'[p]]
    /\ SaveThen(p, "feedback")
    /\ UNCHANGED <<disk, released, ver, check, buf, notice, alone, overlap>>

\* removeConfig: the file is unlinked, open or not; the memory stays.
Uninstall(p) ==
    /\ pc[p] = "run"
    /\ "uninstall" \in Commands
    /\ disk' = NoFile
    /\ sv' = [q \in Procs |-> [t \in Threads |->
                IF sv[q][t] = "write" THEN "unlinked" ELSE sv[q][t]]]
    /\ wanted' = [wanted EXCEPT ![p] = NoFile]
    /\ Goto(p, "feedback")
    /\ UNCHANGED <<world, cont, ver, mem, check, buf, notice, alone, overlap>>

\* A command that leaves the configuration alone.
Noop(p) ==
    /\ pc[p] = "run"
    /\ "noop" \in Commands
    /\ wanted' = [wanted EXCEPT ![p] = mem[p]]
    /\ Goto(p, "feedback")
    /\ UNCHANGED <<disk, world, cont, ver, mem, check, saves, notice, alone, overlap>>

\* A command that fails: handleErrorExitCode ends the process, the checker
\* wherever it is.
Fail(p) ==
    /\ pc[p] = "run"
    /\ "fail" \in Commands
    /\ Exit(p, "error")
    /\ UNCHANGED <<disk, world, notice>>

\* Mutant: the program ends without waiting for the checker.
FeedbackAtOnce(p) ==
    /\ pc[p] = "feedback"
    /\ Exit(p, "ok")
    /\ UNCHANGED <<disk, world, notice>>

\* Feedback: the end of the checker is waited for; when it was not canceled and
\* did not fail, Notify tells the user of the next version.
Feedback(p) ==
    /\ pc[p] = "feedback"
    /\ chk[p] \in {"none", "over", "failed"}
    /\ notice' = [notice EXCEPT ![p] =
                    IF chk[p] = "over" /\ mem[p].params.next # ver[p]
                      THEN mem[p].params.next ELSE 0]
    /\ Exit(p, "ok")
    /\ UNCHANGED <<disk, world>>

\* A signal with no handler.
Kill(p) ==
    /\ Running(p)
    /\ Exit(p, "killed")
    /\ UNCHANGED <<disk, world, notice>>

-----------------------------------------------------------------------------
(* The update checker. *)

Checking(p, at) == Running(p) /\ chk[p] = at

\* isNotifyOn, canVerify: no check while an update is rolled out, or within 12
\* hours of the last one.
Skip(p) ==
    /\ Checking(p, "start")
    /\ chk' = [chk EXCEPT ![p] = "over"]
    /\ UNCHANGED <<disk, world, pc, cont, ver, mem, snap, saves, told, notes>>

\* notifierCheck: the parameters are read, and the server is asked.
Ask(p) ==
    /\ Checking(p, "start")
    /\ mem[p].params.next \in {0, ver[p]}
    /\ snap' = [snap EXCEPT ![p] = mem[p].params]
    /\ chk' = [chk EXCEPT ![p] = "asked"]
    /\ UNCHANGED <<disk, world, pc, cont, ver, mem, saves, told, notes>>

\* Mutant: the checker keeps a remote list of its own.
AnswerCopied(p) ==
    /\ Checking(p, "asked")
    /\ mem' = [mem EXCEPT ![p].params =
                 [snap[p] EXCEPT !.next = IF released > ver[p] THEN released ELSE 0],
                          ![p].remotes = Loaded(disk).remotes]
    /\ chk' = [chk EXCEPT ![p] = "saving"]
    /\ sv' = [sv EXCEPT ![p]["check"] = "compose"]
    /\ snap' = [snap EXCEPT ![p] = Defaults]
    /\ UNCHANGED <<disk, world, pc, cont, ver, buf, told, notes>>

\* The server answers: the parameters read before are set again, then saved.
Answer(p) ==
    /\ Checking(p, "asked")
    /\ mem' = [mem EXCEPT ![p].params =
                 [snap[p] EXCEPT !.next = IF released > ver[p] THEN released ELSE 0]]
    /\ chk' = [chk EXCEPT ![p] = "saving"]
    /\ sv' = [sv EXCEPT ![p]["check"] = "compose"]
    /\ snap' = [snap EXCEPT ![p] = Defaults]
    /\ UNCHANGED <<disk, world, pc, cont, ver, buf, told, notes>>

\* The request fails; that there is no such host is not an error.
CheckFails(p) ==
    /\ Checking(p, "asked")
    /\ \E c \in {"failed", "over"} : chk' = [chk EXCEPT ![p] = c]
    /\ UNCHANGED <<disk, world, pc, cont, ver, mem, snap, saves, told, notes>>

\* Mutant: the context of the check is not the one that is canceled.
CanceledNever(p) == FALSE /\ UNCHANGED vars

\* The command is over: the context of the request is canceled.
Canceled(p) ==
    /\ Checking(p, "asked")
    /\ pc[p] = "feedback"
    /\ chk' = [chk EXCEPT ![p] = "failed"]
    /\ UNCHANGED <<disk, world, pc, cont, ver, mem, snap, saves, told, notes>>

-----------------------------------------------------------------------------
(* Save, by thread t of process p. *)

Other(t) == CHOOSE u \in Threads : u # t

Saving(p, t, at) == Running(p) /\ sv[p][t] = at

\* ReflectFrom, updateRemotes.
Compose(p, t) ==
    /\ Saving(p, t, "compose")
    /\ buf' = [buf EXCEPT ![p][t] = mem[p]]
    /\ sv' = [sv EXCEPT ![p][t] = "truncate"]
    /\ overlap' = [overlap EXCEPT
                     ![p] = @ \/ sv[p][Other(t)] \in {"truncate", "write"}]
    /\ UNCHANGED <<disk, world, pc, cont, ver, mem, check, told, alone, wanted>>

\* SaveToIndent: the file is opened with O_TRUNC.
Truncate(p, t) ==
    /\ Saving(p, t, "truncate")
    /\ disk' = Empty
    /\ sv' = [sv EXCEPT ![p][t] = "write"]
    /\ UNCHANGED <<world, pc, cont, ver, mem, check, buf, told, notes>>

\* SaveToIndent: the file is written from its start.  Over what another wrote
\* since, the rest of a longer text stays; in a file without a name, nobody sees it.
Write(p, t) ==
    /\ \/ /\ Saving(p, t, "write")
          /\ disk' \in {buf[p][t]} \cup
               (IF disk \in {Empty, buf[p][t]} THEN {} ELSE {Garbled})
       \/ Saving(p, t, "unlinked") /\ UNCHANGED disk
    /\ sv' = [sv EXCEPT ![p][t] = "idle"]
    /\ buf' = [buf EXCEPT ![p][t] = Loaded(NoFile)]
    /\ IF t = "main"
         THEN /\ pc' = [pc EXCEPT ![p] = cont[p]]
              /\ UNCHANGED chk
         ELSE /\ chk' = [chk EXCEPT ![p] = "over"]
              /\ UNCHANGED pc
    /\ UNCHANGED <<world, cont, ver, mem, snap, told, notes>>

Save(p) == \E t \in Threads : Compose(p, t) \/ Truncate(p, t) \/ Write(p, t)

RunCommand(p) ==
    \/ \E r \in Remotes : \/ Login(p, r)
                          \/ Logout(p, r)
                          \/ SetRemote(p, r)
                          \/ RemoveRemote(p, r)
                          \/ DefaultRemote(p, r)
                          \/ \E new \in Remotes : RenameRemote(p, r, new)
    \/ UpdateNone(p)
    \/ UpdateApply(p)
    \/ Uninstall(p)
    \/ Noop(p)
    \/ Fail(p)

Main(p) == \/ checkAnalytics(p) \/ checkPastVersion(p) \/ Reload(p) \/ Check(p)
           \/ RunCommand(p) \/ Feedback(p)

Checker(p) == Skip(p) \/ Ask(p) \/ Canceled(p)

Next ==
    \/ Release
    \/ Install
    \/ \E p \in Procs : \/ Start(p)
                        \/ LoadFails(p)
                        \/ Main(p)
                        \/ Kill(p)
                        \/ Checker(p)
                        \/ Answer(p)
                        \/ CheckFails(p)
                        \/ Save(p)

Spec == Init /\ [][Next]_vars

\* A process runs; nothing is assumed of the server.
FairSpec == Spec /\ \A p \in Procs : /\ WF_vars(Main(p))
                                     /\ WF_vars(pc[p] = "reload" /\ LoadFails(p))
                                     /\ WF_vars(Checker(p))
                                     /\ WF_vars(Save(p))

-----------------------------------------------------------------------------
TypeOK ==
    /\ disk \in Configs \cup {NoFile, Empty, Garbled}
    /\ installed \in 1 .. MaxVersion
    /\ released \in 1 .. MaxVersion
    /\ pc \in [Procs -> {"off", "analytics", "past", "reload", "ready", "run",
                         "saving", "feedback", "exited"}]
    /\ cont \in [Procs -> {"off", "past", "reload", "feedback"}]
    /\ ver \in [Procs -> 0 .. MaxVersion]
    /\ mem \in [Procs -> Configs]
    /\ chk \in [Procs -> {"none", "start", "asked", "saving", "over", "failed"}]
    /\ snap \in [Procs -> Params]
    /\ sv \in [Procs -> [Threads -> {"idle", "compose", "truncate", "write",
                                  "unlinked"}]]
    /\ buf \in [Procs -> [Threads -> Configs]]
    /\ exit \in [Procs -> {"none", "ok", "error", "killed"}]
    /\ notice \in [Procs -> 0 .. MaxVersion]
    /\ alone \in [Procs -> BOOLEAN]
    /\ overlap \in [Procs -> BOOLEAN]
    /\ wanted \in [Procs -> Configs \cup {NoFile}]
    /\ \A p \in Procs : /\ pc[p] = "saving" <=> sv[p]["main"] # "idle"
                        /\ chk[p] = "saving" <=> sv[p]["check"] # "idle"

\* A process that ends well does not leave the file truncated (every login lost)
\* by a checker stopped in the middle of its Save.
NotTorn ==
    [][\A p \in Procs :
          exit[p] = "none" /\ exit'[p] = "ok" =>
              /\ \A t \in Threads : sv[p][t] = "idle"
              /\ alone[p] => disk # Empty]_vars

\* What a command did to the remotes (login, logout, rm...) is on the disk when
\* it ends well, no other process having run meanwhile: the checker, which sets
\* parameters it read long before, brings no credentials back and loses none,
\* unless the two threads happened to save at the same time.
\* So is all the rest, if the checker saved nothing.
SoloPersists ==
    [][\A p \in Procs :
          alone[p] /\ exit[p] = "none" /\ exit'[p] = "ok" =>
              /\ ~overlap[p] /\ wanted[p] # NoFile =>
                                /\ disk \in Configs
                                /\ Loaded(disk).remotes = Loaded(wanted[p]).remotes
              /\ chk[p] \in {"none", "failed"} => Loaded(disk) = Loaded(wanted[p])]_vars

\* A process ends, the server answering or not: the check is canceled before it
\* is waited for.
ProcessEnds == \A p \in Procs : (pc[p] = "run") ~> (pc[p] = "exited")
=============================================================================
