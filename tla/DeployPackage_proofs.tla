------------------------- MODULE DeployPackage_proofs -------------------------
(***************************************************************************)
(* Theorems about `lcp deploy`, and about what any command acts on: one    *)
(* specification, that of DeployPackage, with the steps of Target and of   *)
(* DeployPrepare.  First where a command can be, and the token; then what  *)
(* is named; the push and its answer; the services, from the directory to  *)
(* the upload; the package, file by file; and the questions, from the      *)
(* lists that are shown to the answers.                                    *)
(***************************************************************************)
EXTENDS DeployPackage, FiniteSetTheorems, SequenceTheorems, WellFoundedInduction, TLAPS

\* Where a command can be: in Process, in what deploy asks and prepares, and in Do.
Asking == {"preRun", "parse", "load", "instance", "missing", "login first", "ask", "prompt",
           "dedup", "missing instance", "instance prompt", "check", "login"}
Preparing == {"get project", "confirmation", "create project", "load services",
              "use --service", "type ID", "continue?", "remap", "check image"}
Uploading == {"deploy", "init", "ignored", "copy", "overwrite", "commit", "copy package",
              "remote", "push"}
Ending == {"watch", "follow", "done"}
Over == {"failed", "panic"}

\* The host has its four fields.
HostTyped == host = [project |-> host.project, service |-> host.service,
                     instance |-> host.instance, remote |-> host.remote]

\* Only deploy goes beyond "run".
PhaseInv ==
    /\ start \in Starts
    /\ pc \in Asking \cup {"run"} \cup Preparing \cup Uploading \cup Ending \cup Over
    /\ pc \in Preparing \cup Uploading \cup Ending => IsDeploy

\* From the load of the host on, the context has its remote; and what needs a login has the
\* token, once it is asked for.
Aimed == pc \notin {"preRun", "parse", "load"} \cup Over
TokenInv ==
    /\ pc \in {"preRun", "parse", "load"} => asked = "nothing"
    /\ Aimed => endpoint = host.remote
    /\ asked # "nothing" => endpoint \in tokens
    /\ pc = "ask" => endpoint \in tokens
    /\ Aimed /\ pc \notin Asking /\ Requires("auth") => endpoint \in tokens

\* The services are loaded; their IDs are agreed on; and they have them.
Loaded   == {"use --service", "type ID", "continue?"}
Agreed   == {"remap"}
WithIDs  == {"check image"} \cup Uploading \cup Ending

\* services is a sequence of services.
AService(s) == s = [location |-> s.location, id |-> s.id, project |-> s.project,
                    image |-> s.image]
ServicesTyped == /\ services \in Seq(ToSet(services))
                 /\ \A i \in DOMAIN services : AService(services[i])

\* A project is created after a yes, and services are loaded for one that exists.
ProjectInv ==
    /\ pc \in Asking \cup {"run"} => created = NoName
    /\ created # NoName => created = host.project /\ "create project" \in confirmed
    /\ pc = "create project" => "create project" \in confirmed
    /\ pc \in {"load services"} \cup Loaded \cup Agreed \cup WithIDs => OnServer(host.project)

\* Services that are loaded are of the directory and of the project, and agreed on if they have
\* to be; a repository has none before the end.
LoadedInv ==
    pc \in Loaded \cup Agreed \cup WithIDs =>
        /\ fromRepo => pc \in Ending
        /\ \A i \in DOMAIN services : services[i].project = host.project
        /\ ~fromRepo => \E list \in Overview(start.dir) :
               OfDirectory(list) /\ (pc \notin Loaded => AgreedOn(list))

\* --service is the ID of the only service; and the IDs and the images are settled in turn.
IDsInv ==
    /\ pc \in {"use --service", "type ID"} => Len(services) = 1
    /\ pc = "use --service" => host.service # NoName
    /\ pc \in {"type ID", "continue?"} => host.service = NoName
    /\ pc = "type ID" => services[1].id = NoName
    /\ pc \in Agreed \cup WithIDs /\ ~fromRepo /\ host.service # NoName =>
           Len(services) = 1 /\ services[1].id = host.service
    /\ pc \in WithIDs => \A i \in DOMAIN services : services[i].id # NoName
    /\ pc \in Uploading \cup Ending /\ ~fromRepo /\ params.image => SameImages

-----------------------------------------------------------------------------
(* The steps, and where they go. *)

\* What a number stands for, before what it is.
LEMMA SelectionIs ==
    ASSUME NEW typed
    PROVE  getSelection(typed).is \in {"row", "failed", "panic"}
BY DEF getSelection

\* An answer is a row, an error, a panic or another question.
LEMMA PickedIs ==
    ASSUME NEW typed
    PROVE  Picked(typed).is \in {"row", "failed", "panic", "dedup"}
<1>1. PromptProject(typed).is \in {"row", "failed", "panic"}
    BY SelectionIs DEF PromptProject, Row
<1>2. selectPromptService(typed).is \in {"row", "failed", "panic"}
    BY SelectionIs DEF selectPromptService
<1>3. selectPromptProjectOrService(typed).is \in {"row", "failed", "panic", "dedup"}
    BY <1>2 DEF selectPromptProjectOrService, Row
<1>4. QED BY <1>1, <1>2, <1>3 DEF Picked

\* So is that about the instance.
LEMMA OptionIs ==
    ASSUME NEW typed
    PROVE  maybeGetOption(typed).is \in {"row", "failed", "instance prompt"}
BY DEF maybeGetOption

\* Process asks and then runs the command, and never goes back to its start; the host keeps its
\* fields, whatever is filled in.
LEMMA ProcessMoves ==
    ASSUME ProcessStep, HostTyped
    PROVE  /\ pc \in Asking /\ pc' \in (Asking \ {"preRun", "parse"}) \cup {"run"} \cup Over
           /\ UNCHANGED quiet
           /\ HostTyped'
<1>1. CASE Parse
    BY <1>1 DEF Parse, Ends, HostTyped, Asking, Over, quiet
<1>2. CASE loadValues
    BY <1>2 DEF loadValues, Ends, HostTyped, Asking, Over, quiet
<1>3. CASE tryInstance
    BY <1>3 DEF tryInstance, Ends, HostTyped, Asking, Over, quiet
<1>4. CASE maybePromptMissing
    BY <1>4 DEF maybePromptMissing, HostTyped, Asking, Over, quiet
<1>5. CASE Login
    BY <1>5 DEF Login, authenticateOrCancel, Ends, HostTyped, Asking, Over, quiet
<1>6. CASE Once
    BY <1>6 DEF Once, Ends, HostTyped, Asking, Over, quiet
<1>7. CASE Prompt
    <2>1. UNCHANGED quiet /\ pc = "prompt"
        BY <1>7 DEF Prompt
    <2>2. CASE Ends("failed")
        BY <2>1, <2>2 DEF Ends, HostTyped, Asking, Over
    <2>3. ASSUME NEW typed \in Typed, Picked(typed).is = "row",
                 promptMissingProjectOrService(Picked(typed).row)
          PROVE  pc' = "missing instance" /\ HostTyped'
        BY <2>3 DEF promptMissingProjectOrService, HostTyped
    <2>4. ASSUME NEW typed \in Typed, Picked(typed).is # "row", pc' = Picked(typed).is,
                 UNCHANGED host
          PROVE  pc' \in {"failed", "panic", "dedup"} /\ HostTyped'
        BY <2>4, PickedIs DEF HostTyped
    <2>5. QED BY <1>7, <2>1, <2>2, <2>3, <2>4 DEF Prompt, Asking, Over
<1>8. CASE dedupPromptProjectOrService
    <2>1. UNCHANGED quiet /\ pc = "dedup"
        BY <1>8 DEF dedupPromptProjectOrService
    <2>2. CASE Ends("failed")
        BY <2>1, <2>2 DEF Ends, HostTyped, Asking, Over
    <2>3. ASSUME NEW row, promptMissingProjectOrService(row)
          PROVE  pc' = "missing instance" /\ HostTyped'
        BY <2>3 DEF promptMissingProjectOrService, HostTyped
    <2>4. QED BY <1>8, <2>1, <2>2, <2>3 DEF dedupPromptProjectOrService, Asking
<1>9. CASE printAndPrompt
    BY <1>9 DEF printAndPrompt, Ends, HostTyped, Asking, Over, quiet
<1>10. CASE PromptInstance
    <2>1. UNCHANGED quiet /\ pc = "instance prompt"
        BY <1>10 DEF PromptInstance
    <2>2. CASE Ends("failed")
        BY <2>1, <2>2 DEF Ends, HostTyped, Asking, Over
    <2>3. ASSUME NEW typed \in Typed, maybeGetOption(typed).is = "row",
                 host' = [host EXCEPT !.instance = maybeGetOption(typed).id]
          PROVE  HostTyped'
        BY <2>3 DEF HostTyped
    <2>4. ASSUME NEW typed \in Typed, maybeGetOption(typed).is # "row",
                 pc' = maybeGetOption(typed).is, UNCHANGED host
          PROVE  pc' \in {"failed", "instance prompt"} /\ HostTyped'
        BY <2>4, OptionIs DEF HostTyped
    <2>5. QED BY <1>10, <2>1, <2>2, <2>3, <2>4 DEF PromptInstance, Asking, Over
<1>11. CASE Process
    BY <1>11 DEF Process, Ends, HostTyped, Asking, Over, quiet
<1>12. QED
    BY <1>1, <1>2, <1>3, <1>4, <1>5, <1>6, <1>7, <1>8, <1>9, <1>10, <1>11 DEF ProcessStep

\* What runs before an upload leaves the target alone.
LEMMA PrepareMoves ==
    ASSUME PrepareStep
    PROVE  /\ Keep
           /\ \/ pc = "preRun" /\ pc' \in {"parse", "failed"}
              \/ /\ pc \in {"run"} \cup Preparing /\ (pc = "run" => IsDeploy)
                 /\ pc' \in Preparing \cup {"deploy", "failed"}
BY DEF PrepareStep, preRun, run, MaybeID, confirmation, Create, loadServicesList,
   checkServiceParameter, checkEmptyIDOnMultipleDeployment, remapServicesWithEmptyIDs, checkImage,
   Test, Step, Fails, checkServiceIDs, Preparing

\* And so does an upload.
LEMMA DeployMoves ==
    ASSUME DeployStep
    PROVE  /\ Keep
           /\ pc \in {"load services"} \cup Uploading \cup Ending
           /\ pc' \in Uploading \cup Ending \cup Over
<1>1. CASE \/ Setup_ \/ RepoInit \/ SetIgnored \/ copyServiceFiles
           \/ prepareAndModifyServicePackage \/ Stage
    BY <1>1 DEF Setup_, RepoInit, SetIgnored, copyServiceFiles, prepareAndModifyServicePackage,
       Stage, Pass, Uploading, Ending, Over
<1>2. CASE Commit \/ copyGitPackage \/ AddRemote \/ Push \/ PushFails
    BY <1>2 DEF Commit, copyGitPackage, AddRemote, Push, PushFails, Pass, Uploading, Ending, Over
<1>3. CASE \E step \in DoSteps : StepFails(step)
    BY <1>3 DEF StepFails, Pass, DoSteps, Uploading, Ending, Over
<1>4. CASE DeployFromGitRepository \/ Wait \/ followLogs
    BY <1>4 DEF DeployFromGitRepository, Wait, followLogs, Fails, Pass, Uploading, Ending, Over
<1>5. QED BY <1>1, <1>2, <1>3, <1>4 DEF DeployStep

\* Nothing moves, or one of the three parts does.
LEMMA NextCases ==
    ASSUME [DeployNext]_allVars
    PROVE  \/ ProcessStep /\ UNCHANGED <<prepared, package>>
           \/ PrepareStep /\ UNCHANGED package
           \/ DeployStep
           \/ UNCHANGED allVars
BY DEF DeployNext

\* A command starts with nothing known.
LEMMA PhaseInit ==
    ASSUME DeployInit
    PROVE  HostTyped /\ PhaseInv /\ TokenInv
BY DEF DeployInit, PrepareInit, Init, HostTyped, PhaseInv, TokenInv, Aimed, Asking, Preparing,
   Uploading, Ending, Over

\* The phases are in order, and only deploy goes beyond "run".
LEMMA PhaseStep ==
    ASSUME HostTyped, PhaseInv, [DeployNext]_allVars
    PROVE  HostTyped' /\ PhaseInv'
<1>1. CASE ProcessStep
    BY <1>1, ProcessMoves DEF PhaseInv, quiet, Asking, Preparing, Uploading, Ending, Over
<1>2. CASE PrepareStep
    <2>1. UNCHANGED <<host, start>>
        BY <1>2, PrepareMoves DEF Keep, quiet
    <2>2. IsDeploy' <=> IsDeploy
        BY <2>1 DEF IsDeploy
    <2>3. QED
        BY <1>2, <2>1, <2>2, PrepareMoves
        DEF PhaseInv, HostTyped, Asking, Preparing, Uploading, Ending, Over
<1>3. CASE DeployStep
    <2>1. UNCHANGED <<host, start>>
        BY <1>3, DeployMoves DEF Keep, quiet
    <2>2. IsDeploy' <=> IsDeploy
        BY <2>1 DEF IsDeploy
    <2>3. QED
        BY <1>3, <2>1, <2>2, DeployMoves
        DEF PhaseInv, HostTyped, Asking, Preparing, Uploading, Ending, Over
<1>4. CASE UNCHANGED allVars
    BY <1>4 DEF allVars, vars, quiet, HostTyped, PhaseInv, IsDeploy
<1>5. QED BY <1>1, <1>2, <1>3, <1>4, NextCases

-----------------------------------------------------------------------------
(* The token. *)

\* The rest of Process, once the remote is known.
LEMMA ProcessKeepsTheRemote ==
    ASSUME ProcessStep, HostTyped, ~Parse, ~loadValues
    PROVE  /\ UNCHANGED endpoint /\ host'.remote = host.remote
           /\ {pc, pc'} \cap {"preRun", "parse", "load"} = {}
<1>1. CASE tryInstance \/ maybePromptMissing \/ Once \/ printAndPrompt \/ Process
    BY <1>1 DEF tryInstance, maybePromptMissing, Once, printAndPrompt, Process, Ends, HostTyped
<1>2. CASE Login
    BY <1>2 DEF Login, authenticateOrCancel, Ends
<1>3. CASE Prompt
    BY <1>3, PickedIs DEF Prompt, Ends, promptMissingProjectOrService, HostTyped, quiet, listing
<1>4. CASE dedupPromptProjectOrService
    BY <1>4 DEF dedupPromptProjectOrService, Ends, promptMissingProjectOrService, HostTyped
<1>5. CASE PromptInstance
    BY <1>5, OptionIs DEF PromptInstance, Ends, HostTyped
<1>6. QED BY <1>1, <1>2, <1>3, <1>4, <1>5 DEF ProcessStep

\* Once the remote is known no step changes it, and nothing is listed or run before a login.
LEMMA TokenStep ==
    ASSUME HostTyped, PhaseInv, TokenInv, [DeployNext]_allVars
    PROVE  TokenInv'
<1>1. CASE Parse
    BY <1>1 DEF Parse, Ends, TokenInv, Aimed, Asking, Over, listing
<1>2. CASE loadValues
    <2>1. asked' = "nothing"
        BY <1>2 DEF loadValues, Ends, TokenInv, listing
    <2>2. CASE Ends("failed")
        BY <2>1, <2>2 DEF Ends, TokenInv, Aimed, Over
    <2>3. CASE pc' = "instance"
        <3>1. endpoint' = host'.remote
            BY <1>2, <2>3 DEF loadValues, Ends, SetEndpoint, HostTyped
        <3>2. QED BY <2>1, <2>3, <3>1 DEF TokenInv, Aimed, Asking
    <2>4. QED BY <1>2, <2>2, <2>3 DEF loadValues
<1>3. CASE ProcessStep /\ ~Parse /\ ~loadValues
    <2> DEFINE same == UNCHANGED endpoint /\ host'.remote = host.remote
    <2>1. same /\ pc \notin {"preRun", "parse", "load"} \cup Over /\ UNCHANGED start
        BY <1>3, ProcessKeepsTheRemote, ProcessMoves DEF Asking, Over, quiet
    <2>2. pc' \notin {"preRun", "parse", "load"} /\ endpoint = host.remote
        BY <1>3, <2>1, ProcessKeepsTheRemote DEF TokenInv, Aimed
    <2> DEFINE withToken == /\ asked' # "nothing" => endpoint \in tokens'
                            /\ pc' = "ask" => endpoint \in tokens'
                            /\ pc' = "run" /\ Requires("auth") => endpoint \in tokens'
    <2>3. withToken => TokenInv'
        BY <1>3, <2>1, <2>2, ProcessMoves DEF TokenInv, Aimed, Requires, setup, Over
    <2> HIDE DEF same
    <2>4. CASE tryInstance \/ maybePromptMissing \/ printAndPrompt
        BY <2>3, <2>4 DEF tryInstance, maybePromptMissing, printAndPrompt, Ends, listing, TokenInv
    <2>5. CASE Login
        BY <2>3, <2>5 DEF Login, authenticateOrCancel, Ends, listing, TokenInv
    <2>6. CASE Once
        BY <2>3, <2>6 DEF Once, Ends, listing, TokenInv
    <2>7. CASE Prompt
        BY <2>3, <2>7, PickedIs DEF Prompt, Ends, listing, promptMissingProjectOrService, TokenInv
    <2>8. CASE dedupPromptProjectOrService
        BY <2>3, <2>8
        DEF dedupPromptProjectOrService, Ends, listing, promptMissingProjectOrService, TokenInv
    <2>9. CASE PromptInstance
        BY <2>3, <2>9, OptionIs DEF PromptInstance, Ends, listing, TokenInv
    <2>10. CASE Process
        BY <2>3, <2>10 DEF Process, Ends, listing, TokenInv
    <2>11. QED
        BY <1>3, <2>4, <2>5, <2>6, <2>7, <2>8, <2>9, <2>10 DEF ProcessStep
<1>4. CASE PrepareStep
    <2>1. Keep /\ pc' \notin {"load", "ask", "preRun"} /\ (pc' = "parse" => pc = "preRun")
        BY <1>4, PrepareMoves DEF Preparing
    <2>2. Aimed' /\ pc' # "parse" => Aimed /\ pc \notin Asking
        BY <1>4, PrepareMoves DEF Preparing, Aimed, Asking, Over
    <2>3. QED
        BY <2>1, <2>2 DEF Keep, TokenInv, Aimed, quiet, listing, Requires, setup
<1>5. CASE DeployStep
    <2>1. Keep /\ pc' \notin Asking
        BY <1>5, DeployMoves DEF Uploading, Ending, Asking, Over
    <2>2. Aimed /\ pc \notin Asking
        BY <1>5, DeployMoves DEF Uploading, Ending, Aimed, Asking, Over
    <2>3. QED
        BY <2>1, <2>2 DEF Keep, TokenInv, Aimed, Asking, quiet, listing, Requires, setup
<1>6. CASE UNCHANGED allVars
    BY <1>6 DEF allVars, vars, quiet, listing, TokenInv, Aimed, Requires, setup
<1>7. QED BY <1>1, <1>2, <1>3, <1>4, <1>5, <1>6, NextCases DEF ProcessStep

\* A command runs with the token of the remote that it acts on, if it needs one, and nothing is
\* listed without it, for any remotes, flags and answers (TokenIsOfTheRemote: the context of
\* SetupHost.Process, and its logins).
THEOREM TokenCorrect == Spec => []TokenIsOfTheRemote
<1>1. DeployInit => HostTyped /\ PhaseInv /\ TokenInv
    BY PhaseInit
<1>2. HostTyped /\ PhaseInv /\ TokenInv /\ [DeployNext]_allVars =>
      HostTyped' /\ PhaseInv' /\ TokenInv'
    BY PhaseStep, TokenStep
<1>3. TokenInv => TokenIsOfTheRemote
    BY DEF TokenInv, TokenIsOfTheRemote, Acts, Aimed, Asking, Over
<1>4. QED BY <1>1, <1>2, <1>3, PTL DEF Spec

-----------------------------------------------------------------------------
(* What is named. *)

\* A set of less than two has one element at most.
LEMMA OfLessThanTwo ==
    ASSUME NEW S, IsFiniteSet(S), Cardinality(S) < 2, NEW x \in S, NEW y \in S
    PROVE  x = y
<1> SUFFICES ASSUME x # y PROVE FALSE
    OBVIOUS
<1>1. IsFiniteSet({x}) /\ Cardinality({x}) = 1 /\ y \notin {x}
    BY FS_Singleton
<1>2. Cardinality({x} \cup {y}) = 2
    <2>1. Cardinality({x} \cup {y}) = Cardinality({x}) + 1
        BY <1>1, FS_AddElement
    <2>2. QED BY <1>1, <2>1
<1>3. Cardinality({x} \cup {y}) <= Cardinality(S)
    <2>1. {x} \cup {y} \subseteq S
        OBVIOUS
    <2>2. QED BY <2>1, FS_Subset
<1>4. Cardinality(S) \in Nat
    BY FS_CardinalityType
<1>5. \A n \in Nat : ~(2 <= n /\ n < 2)
    OBVIOUS
<1>6. QED BY <1>2, <1>3, <1>4, <1>5, Zenon

\* The head of a sequence that is put together, and the rest.
LEMMA HeadTailOfJoined ==
    ASSUME NEW S, NEW w \in S, NEW t \in Seq(S)
    PROVE  /\ Head(<<w>> \o t) = w /\ Tail(<<w>> \o t) = t
           /\ Len(<<w>> \o t) = Len(t) + 1 /\ <<w>> \o t # <<>>
<1> DEFINE both == <<w>> \o t
<1>1. <<w>> \in Seq(S) /\ Len(<<w>>) = 1 /\ <<w>>[1] = w /\ Len(t) \in Nat
    OBVIOUS
<1>2. /\ both \in Seq(S) /\ Len(both) = Len(t) + 1 /\ both[1] = w
      /\ \A i \in 1 .. Len(t) : both[i + 1] = t[i]
    BY <1>1, ConcatProperties
<1> HIDE DEF both
<1>3. both # <<>>
    BY <1>1, <1>2, EmptySeq
<1>4. Tail(both) \in Seq(S) /\ Len(Tail(both)) = Len(t)
    BY <1>1, <1>2, <1>3, HeadTailProperties
<1>5. \A i \in 1 .. Len(t) : Tail(both)[i] = t[i]
    BY <1>2, <1>3, <1>4, HeadTailProperties
<1>6. Tail(both) = t
    BY <1>4, <1>5, SeqEqual
<1>7. Head(both) = w
    BY <1>2, <1>3
<1>8. QED BY <1>2, <1>3, <1>6, <1>7 DEF both

\* What is named is kept, unless the host is that of a project with an environment.
Ambiguous == start.url # <<>> /\ start.meant.service = NoName /\ Len(start.meant.project) > 1
IsKept(h) == ~Ambiguous =>
                 /\ start.meant.project # NoName => h.project = start.meant.project
                 /\ start.meant.service # NoName => h.service = start.meant.service
                 /\ start.meant.remote # ""      => h.remote = start.meant.remote
NamedInv == pc \notin {"preRun", "parse"} \cup Over => IsKept(host)

\* The host of a project with an environment, and no service.
OneName(m) == m.service = NoName /\ ~(Len(m.project) <= 1)

\* Arithmetic, for the lengths of names.
LEMMA ManyOrNot == \A n \in Nat : n > 1 \/ n <= 1
OBVIOUS

\* Arithmetic, for the lengths of names.
LEMMA OnlyOne == \A n \in Nat : n # 0 /\ n <= 1 => n = 1
OBVIOUS

\* A label is split where its two names were put together.
LEMMA PartsOfLabel ==
    ASSUME NEW service \in Seq(STRING), Len(service) <= 1, NEW project \in Seq(STRING),
           project # NoName, service = NoName => Len(project) <= 1
    PROVE  splitHyphenedHostPart(service \o project) = <<service, project>>
<1>1. Len(project) \in Nat /\ Len(project) # 0 /\ Len(service) \in Nat
    BY EmptySeq, LenProperties DEF NoName
<1>2. CASE service = NoName
    <2>1. service \o project = project
        BY <1>2, ConcatEmptySeq DEF NoName
    <2>2. Len(project) = 1
        BY <1>1, <1>2, OnlyOne, Zenon
    <2>3. QED BY <1>2, <2>1, <2>2 DEF splitHyphenedHostPart
<1>3. CASE service # NoName
    <2>1. Len(service) = 1
        <3>1. Len(service) # 0
            BY <1>3, EmptySeq DEF NoName
        <3>2. QED BY <1>1, <3>1, OnlyOne, Zenon
    <2>2. service[1] \in STRING /\ service = <<service[1]>>
        BY <2>1
    <2>3. Len(service \o project) # 1
        BY <1>1, <2>1, ConcatProperties
    <2>4. Head(service \o project) = service[1] /\ Tail(service \o project) = project
        BY <2>2, HeadTailOfJoined
    <2>5. QED BY <2>2, <2>3, <2>4 DEF splitHyphenedHostPart
<1>4. QED BY <1>2, <1>3

ReadAs(s, m, flag, f) ==
    \/ /\ f = Parsed(m.project, m.service, flag, FALSE)
       /\ m.remote = IF s.remote = Current THEN DefaultRemote ELSE Flag(s)
    \/ /\ f = Parsed(m.project, m.service, f.remote, TRUE)
       /\ m.remote # "" => f.remote = m.remote

\* A host is read as it was put together: a label with no address says no remote, and an
\* address says its only one.
LEMMA HostIsParsed ==
    ASSUME NEW s, NEW m, MeantByHost(s, m), ~OneName(m), NEW flag,
           NEW f \in parseWithHost(s.url, flag)
    PROVE  ReadAs(s, m, flag, f)
<1>1. splitHyphenedHostPart(Label(m)) = <<m.service, m.project>>
    BY PartsOfLabel DEF MeantByHost, Label, OneName
<1>2. /\ splitHyphenedHostPart(Label(m))[1] = m.service
      /\ splitHyphenedHostPart(Label(m))[2] = m.project
    BY <1>1
<1>3. Label(m) \in Seq(STRING)
    BY ConcatProperties DEF MeantByHost, Label
<1> DEFINE named(r) == Parsed(m.project, m.service, r, TRUE)
<1>4. CASE m.remote \in DOMAIN Remotes /\ s.url = <<Label(m)>> \o Remotes[m.remote]
    <2> DEFINE below == ParseRemoteAddress(Remotes[m.remote])
    <2>1. Remotes[m.remote] \in Seq(Seq(STRING)) /\ Remotes[m.remote] # <<>>
        BY <1>4, RemotesAreApart
    <2>2. /\ Head(s.url) = Label(m) /\ Tail(s.url) = Remotes[m.remote]
          /\ Len(s.url) = Len(Remotes[m.remote]) + 1
        BY <1>3, <1>4, <2>1, HeadTailOfJoined, SMTT(30)
    <2>3. Len(s.url) # 1
        BY <2>1, <2>2, EmptySeq
    <2>4. ParseRemoteAddress(s.url) = {}
        BY <1>4, <2>2, RemotesAreApart DEF ParseRemoteAddress
    <2>5. parseHost(s.url) = {named(r) : r \in below}
        BY <1>2, <2>2, <2>3 DEF parseHost
    <2> HIDE DEF below, named
    <2>6. PICK g \in parseHost(s.url) :
              /\ Cardinality(below) < 2
              /\ flag # "" => g.remote = ""
              /\ f = IF flag = "" THEN g ELSE [g EXCEPT !.remote = flag]
        <3>1. below = ParseRemoteAddress(Tail(s.url))
            BY <2>2 DEF below
        <3>2. QED BY <2>3, <2>4, <3>1 DEF parseWithHost
    <2> USE DEF below, named
    <2>7. \A r \in below : r = m.remote
        <3>1. IsFiniteSet(below)
            BY RemotesAreApart, FS_Subset DEF ParseRemoteAddress
        <3>2. m.remote \in below
            BY <1>4 DEF ParseRemoteAddress
        <3> HIDE DEF below
        <3>3. QED BY <2>6, <3>1, <3>2, OfLessThanTwo
    <2>8. g = named(m.remote)
        BY <2>5, <2>6, <2>7
    <2>9. QED BY <2>6, <2>8 DEF Parsed, ReadAs
<1>5. CASE /\ s.url = <<Label(m)>> /\ m.service # NoName
           /\ \A r \in DOMAIN Remotes : s.url # Remotes[r]
           /\ m.remote = IF s.remote = Current THEN DefaultRemote ELSE Flag(s)
    <2>1. ParseRemoteAddress(s.url) = {} /\ Len(s.url) = 1 /\ Head(s.url) = Label(m)
        BY <1>5 DEF ParseRemoteAddress
    <2>2. parseHost(s.url) = {Parsed(m.project, m.service, "", FALSE)}
        BY <1>2, <1>5, <2>1 DEF parseHost
    <2> DEFINE g == Parsed(m.project, m.service, "", FALSE)
    <2>3. f = IF flag = "" THEN g ELSE [g EXCEPT !.remote = flag]
        BY <2>1, <2>2 DEF parseWithHost
    <2>4. f = Parsed(m.project, m.service, flag, FALSE)
        BY <2>3 DEF Parsed
    <2>5. QED BY <1>5, <2>4 DEF ReadAs
<1>6. QED BY <1>4, <1>5 DEF MeantByHost

\* An address alone is that of its only remote.
LEMMA AddressIsParsed ==
    ASSUME NEW s, NEW m, MeantByAddress(s, m), NEW flag, NEW f \in parseWithHost(s.url, flag)
    PROVE  f = Parsed(NoName, NoName, m.remote, TRUE)
<1> DEFINE whole == ParseRemoteAddress(s.url)
<1>1. IsFiniteSet(whole) /\ m.remote \in whole
    BY RemotesAreApart, FS_Subset DEF ParseRemoteAddress, MeantByAddress
<1>2. PICK r \in whole : Cardinality(whole) = 1 /\ f = Parsed(NoName, NoName, r, TRUE)
    BY <1>1 DEF parseWithHost
<1>3. Cardinality(whole) < 2
    BY <1>2
<1> HIDE DEF whole
<1>4. QED BY <1>1, <1>2, <1>3, OfLessThanTwo

\* What is read from the flags or from the host is what was meant.
LEMMA ParsedIsMeant ==
    ASSUME start \in Starts, NEW f \in tryParseFlags
    PROVE  IsKept(f)
<1> DEFINE m == start.meant
           flag == IF RemoteChanged THEN start.remote ELSE ""
<1> SUFFICES ASSUME ~Ambiguous
             PROVE  /\ m.project # NoName => f.project = m.project
                    /\ m.service # NoName => f.service = m.service
                    /\ m.remote # ""      => f.remote = m.remote
    BY DEF IsKept
<1>1. PICK project \in injectEnvFlagInProject : f \in ParseWithDefaultCustomRemote(project)
    BY DEF tryParseFlags
<1> DEFINE remote_(g) == IF g.remote = "" /\ (RemoteChanged \/ g.fromHost) THEN CloudRemote
                         ELSE IF ~g.fromHost /\ ~RemoteChanged THEN DefaultRemote ELSE g.remote
<1>2. PICK g \in parse(start.url, project, start.service, flag) :
          f = [g EXCEPT !.remote = remote_(g)]
    BY <1>1 DEF ParseWithDefaultCustomRemote
<1>3. ASSUME NEW p, NEW s, NEW r, NEW fromHost, g = Parsed(p, s, r, fromHost)
      PROVE  f = Parsed(p, s, remote_(g), fromHost)
    BY <1>2, <1>3 DEF Parsed
<1>4. CASE start.url = <<>>
    <2>1. MeantByFlags(start, m) /\ project = m.project
        <3>1. start.env = "" \/ Len(start.project) = 1
            BY <1>1 DEF injectEnvFlagInProject
        <3>2. MeantByFlags(start, m)
            BY <1>4, <3>1, MeantAssumption
        <3>3. QED BY <1>1, <3>2 DEF injectEnvFlagInProject, MeantByFlags
    <2>2. g = Parsed(project, start.service, flag, FALSE)
        BY <1>2, <1>4 DEF parse
    <2>3. f = Parsed(project, start.service, remote_(g), FALSE)
        BY <1>3, <2>2
    <2>4. m.remote # "" => remote_(g) = m.remote
        BY <2>1, <2>2 DEF MeantByFlags, Parsed, RemoteChanged, Flag
    <2>5. QED BY <2>1, <2>3, <2>4 DEF MeantByFlags, Parsed
<1>5. CASE start.url # <<>>
    <2>1. g \in parseWithHost(start.url, flag)
        BY <1>2, <1>5 DEF parse
    <2>2. CASE MeantByHost(start, m)
        <3>1. ~OneName(m)
            <4>1. Len(m.project) \in Nat
                BY <2>2, LenProperties DEF MeantByHost
            <4>2. m.service = NoName => ~(Len(m.project) > 1)
                BY <1>5 DEF Ambiguous
            <4>3. QED BY <4>1, <4>2, ManyOrNot, Zenon DEF OneName
        <3>2. CASE /\ g = Parsed(m.project, m.service, flag, FALSE)
                   /\ m.remote = IF start.remote = Current THEN DefaultRemote ELSE Flag(start)
            <4>1. f = Parsed(m.project, m.service, remote_(g), FALSE)
                BY <1>3, <3>2
            <4>2. remote_(g) = m.remote
                BY <3>2 DEF Parsed, RemoteChanged, Flag
            <4>3. QED BY <4>1, <4>2 DEF Parsed
        <3>3. CASE /\ g = Parsed(m.project, m.service, g.remote, TRUE)
                   /\ m.remote # "" => g.remote = m.remote
            <4>1. f = Parsed(m.project, m.service, remote_(g), TRUE)
                BY <1>3, <3>3
            <4>2. m.remote # "" => remote_(g) = m.remote
                <5>1. PICK r : g = Parsed(m.project, m.service, r, TRUE)
                    BY <3>3
                <5>2. g.remote = r /\ g.fromHost = TRUE
                    BY <5>1 DEF Parsed
                <5>3. QED BY <3>3, <5>2
            <4>3. QED BY <4>1, <4>2 DEF Parsed
        <3>4. ReadAs(start, m, flag, g)
            <4> HIDE DEF flag
            <4>1. QED BY <2>1, <2>2, <3>1, HostIsParsed, Zenon
        <3>5. QED BY <3>2, <3>3, <3>4 DEF ReadAs
    <2>3. CASE MeantByAddress(start, m)
        <3>1. g = Parsed(NoName, NoName, m.remote, TRUE)
            BY <2>1, <2>3, AddressIsParsed
        <3>2. f = Parsed(NoName, NoName, remote_(g), TRUE)
            BY <1>3, <3>1
        <3>3. m.remote # "" => remote_(g) = m.remote
            BY <3>1 DEF Parsed
        <3>4. QED BY <2>3, <3>2, <3>3 DEF Parsed, MeantByAddress
    <2>4. QED BY <1>5, <2>2, <2>3, MeantAssumption
<1>6. QED BY <1>4, <1>5

\* What was missing is taken, and what was named stays.
LEMMA ProcessKeepsTheNames ==
    ASSUME ProcessStep, HostTyped, NamedInv, start \in Starts
    PROVE  NamedInv'
<1> DEFINE m == start.meant
<1>1. UNCHANGED start
    BY ProcessMoves DEF quiet
<1>2. IsKept(host)' <=> IsKept(host')
    BY <1>1 DEF IsKept, Ambiguous
<1>3. CASE Parse
    <2>1. CASE Ends("failed")
        BY <2>1 DEF Ends, NamedInv, Over
    <2>2. ASSUME NEW f \in tryParseFlags,
                 host' = [project |-> f.project, service |-> f.service,
                          instance |-> start.instance, remote |-> f.remote]
          PROVE  IsKept(host')
        BY <2>2, ParsedIsMeant DEF IsKept
    <2>3. QED BY <1>2, <1>3, <2>1, <2>2 DEF Parse, NamedInv
<1>4. ASSUME pc \notin {"preRun", "parse"} \cup Over,
             host.project # NoName => host'.project = host.project,
             host.service # NoName => host'.service = host.service,
             host.remote # "" => host'.remote = host.remote
      PROVE  NamedInv'
    BY <1>2, <1>4 DEF NamedInv, IsKept
<1>5. CASE loadValues
    BY <1>4, <1>5 DEF loadValues, Ends, HostTyped, Over, getProjectFromCurrentWorkingDirectory
<1>6. CASE tryInstance
    <2>1. /\ pc = "instance"
          /\ \/ UNCHANGED host
             \/ \E i \in Matches(host.instance, host.project, host.service) :
                    host' = [host EXCEPT !.project = i.project, !.service = i.service,
                                         !.instance = i.id]
        BY <1>6 DEF tryInstance, Ends
    <2>2. QED BY <1>4, <2>1 DEF HostTyped, Over, Matches
<1>7. ASSUME NEW row, promptMissingProjectOrService(row)
      PROVE  /\ host.project # NoName => host'.project = host.project
             /\ host.service # NoName => host'.service = host.service
             /\ host'.remote = host.remote
    BY <1>7 DEF promptMissingProjectOrService, HostTyped
<1>8. CASE Prompt \/ dedupPromptProjectOrService
    <2>1. /\ pc \in {"prompt", "dedup"}
          /\ UNCHANGED host \/ \E row : promptMissingProjectOrService(row)
        BY <1>8 DEF Prompt, dedupPromptProjectOrService, Ends
    <2>2. QED BY <1>4, <1>7, <2>1 DEF Over
<1>9. CASE maybePromptMissing \/ Login \/ Once
    BY <1>4, <1>9 DEF maybePromptMissing, Login, authenticateOrCancel, Once, Ends, Over
<1>10. CASE printAndPrompt \/ PromptInstance \/ Process
    <2>1. /\ pc \in {"missing instance", "instance prompt", "check"}
          /\ UNCHANGED host \/ \E id : host' = [host EXCEPT !.instance = id]
        BY <1>10 DEF printAndPrompt, PromptInstance, Process, Ends
    <2>2. QED BY <1>4, <2>1 DEF HostTyped, Over
<1>11. QED BY <1>3, <1>5, <1>6, <1>8, <1>9, <1>10 DEF ProcessStep

\* No other step changes the host.
LEMMA NamedStep ==
    ASSUME HostTyped, PhaseInv, NamedInv, [DeployNext]_allVars
    PROVE  NamedInv'
<1>1. CASE ProcessStep
    BY <1>1, ProcessKeepsTheNames DEF PhaseInv
<1>2. ASSUME UNCHANGED <<host, start>>,
             pc' \notin {"preRun", "parse"} \cup Over => pc \notin {"preRun", "parse"} \cup Over
      PROVE  NamedInv'
    BY <1>2 DEF NamedInv, IsKept, Ambiguous
<1>3. CASE PrepareStep
    BY <1>2, <1>3, PrepareMoves DEF Keep, quiet, Preparing, Over
<1>4. CASE DeployStep
    BY <1>2, <1>4, DeployMoves DEF Keep, quiet, Uploading, Ending, Over
<1>5. CASE UNCHANGED allVars
    BY <1>2, <1>5 DEF allVars, vars, quiet
<1>6. QED BY <1>1, <1>3, <1>4, <1>5, NextCases

\* A command acts on the project, the service and the remote that its flags or --url name: no
\* question, directory or instance takes their place (NamedTargetIsKept: SetupHost.Process).
THEOREM TargetCorrect == Spec => []NamedTargetIsKept
<1>1. DeployInit => HostTyped /\ PhaseInv /\ NamedInv
    BY PhaseInit DEF DeployInit, PrepareInit, Init, NamedInv
<1>2. HostTyped /\ PhaseInv /\ NamedInv /\ [DeployNext]_allVars =>
      HostTyped' /\ PhaseInv' /\ NamedInv'
    BY PhaseStep, NamedStep
<1>3. NamedInv => NamedTargetIsKept
    BY DEF NamedInv, NamedTargetIsKept, IsKept, Ambiguous, Acts, Over
<1>4. QED BY <1>1, <1>2, <1>3, PTL DEF Spec

-----------------------------------------------------------------------------
(* The push. *)

\* The remote of git is that of the context until it is pushed to.
PushInv ==
    /\ pc = "push" => remote = {GitServer}
    /\ GroupIsOfThePush

\* deploy is for who is logged in.
LEMMA DeployHasAToken ==
    ASSUME PhaseInv, TokenInv, pc \in Preparing \cup Uploading \cup Ending
    PROVE  endpoint = host.remote /\ endpoint \in tokens
<1>1. IsDeploy
    BY DEF PhaseInv
<1>2. setup = deploy
    BY <1>1 DEF IsDeploy, setup, Commands
<1>3. Requires("auth")
    BY <1>2 DEF Requires, deploy, Setup, NeedsAuth
<1>4. Aimed /\ pc \notin Asking
    BY DEF Aimed, Asking, Preparing, Uploading, Ending, Over
<1>5. QED BY <1>3, <1>4 DEF TokenInv

\* The group read from the answer of the server is of the first message that says anything.
LEMMA ExtractedFirst ==
    ASSUME NEW answer_ \in Answers, NEW group \in Extract(answer_)
    PROVE  \E i \in DOMAIN answer_ :
               /\ answer_[i].is = "builds" /\ group \in ToSet(answer_[i].groups)
               /\ \A j \in 1 .. i - 1 : answer_[j].is = "text"
<1>1. PICK i \in SaidFirst(answer_) :
          answer_[i].is = "builds" /\ answer_[i].groups # <<>> /\ group = answer_[i].groups[1]
    BY DEF Extract
<1>2. i \in DOMAIN answer_ /\ \A j \in 1 .. i - 1 : answer_[j].is = "text"
    BY <1>1 DEF SaidFirst, Announces
<1>3. answer_ \in Seq(Message)
    BY AnswersAssumption
<1>4. answer_[i] \in Message
    BY <1>2, <1>3
<1>5. answer_[i].groups \in Seq(STRING)
    BY <1>4 DEF Message
<1>6. 1 \in DOMAIN answer_[i].groups
    BY <1>1, <1>5, EmptySeq, LenProperties
<1>7. group \in ToSet(answer_[i].groups)
    BY <1>1, <1>6 DEF ToSet
<1>8. QED BY <1>1, <1>2, <1>7

\* The push goes to the remote that was set up, and the group is read from its answer.
LEMMA PushStep ==
    ASSUME HostTyped, PhaseInv, TokenInv, PushInv, [DeployNext]_allVars
    PROVE  PushInv'
<1>1. CASE ProcessStep \/ PrepareStep
    <2>1. pc' \notin {"push"} \cup Ending
        BY <1>1, ProcessMoves, PrepareMoves DEF Asking, Preparing, Over, Ending
    <2>2. QED BY <2>1 DEF PushInv, GroupIsOfThePush, Ending
<1>2. CASE AddRemote
    <2>1. remote' = {GitServer} /\ pc' = "push" /\ Keep
        BY <1>2 DEF AddRemote, Pass
    <2>2. GitServer' = GitServer
        BY <2>1 DEF Keep, quiet, GitServer, getGitRemote, useCredentialHack, Token, experimental,
           params
    <2>3. QED BY <2>1, <2>2 DEF PushInv, GroupIsOfThePush
<1>3. CASE Push
    <2>1. pc = "push" /\ Keep /\ pushed' = Received /\ pc' \in {"watch", "failed"}
        BY <1>3 DEF Push
    <2>2. endpoint = host.remote /\ Token
        BY <2>1, DeployHasAToken DEF Uploading, Token
    <2>3. \E p \in pushed' :
              p.address = Remotes[host.remote] /\ p.withToken /\ p.project = host.project
        <3>1. remote = {GitServer} /\ GitServer.name = getGitRemote
            BY <2>1 DEF PushInv, GitServer
        <3> DEFINE p == [address |-> GitServer.address, project |-> GitServer.project,
                         commit |-> commit,
                         withToken |-> IF useCredentialHack THEN GitServer.withToken ELSE Token]
        <3>2. p \in pushed'
            BY <2>1, <3>1 DEF Received
        <3>3. p.address = Remotes[host.remote] /\ p.withToken /\ p.project = host.project
            BY <2>2 DEF GitServer
        <3>4. QED BY <3>2, <3>3
    <2>4. CASE pc' = "watch"
        <3>1. printed' \in Answers /\ groupUID' \in Extract(printed')
            BY <1>3, <2>4 DEF Push
        <3>2. QED BY <2>1, <2>3, <2>4, <3>1, ExtractedFirst DEF PushInv, GroupIsOfThePush, Keep
    <2>5. QED BY <2>1, <2>4 DEF PushInv, GroupIsOfThePush
<1>4. CASE DeployFromGitRepository
    <2>1. fromRepo' /\ pc' # "push"
        BY <1>4 DEF DeployFromGitRepository, Fails, Keep, quiet, fromRepo, params
    <2>2. QED BY <2>1 DEF PushInv, GroupIsOfThePush
<1>5. CASE Wait \/ followLogs
    <2>1. Keep /\ UNCHANGED <<printed, groupUID, pushed>> /\ pc' # "push" /\ pc \in Ending
        BY <1>5 DEF Wait, followLogs, Pass, package, Ending
    <2>2. QED
        BY <2>1 DEF PushInv, GroupIsOfThePush, Keep, quiet, IsDeploy, fromRepo, params, Ending
<1>6. CASE DeployStep /\ pc' \notin {"push"} \cup Ending
    BY <1>6 DEF PushInv, GroupIsOfThePush, Ending
<1>7. CASE UNCHANGED allVars
    BY <1>7 DEF allVars, vars, quiet, package, PushInv, GroupIsOfThePush, GitServer, getGitRemote,
       useCredentialHack, Token, experimental, params, IsDeploy, fromRepo
<1>8. ASSUME DeployStep, pc' \in {"push"} \cup Ending
      PROVE  AddRemote \/ Push \/ DeployFromGitRepository \/ Wait \/ followLogs
    BY <1>8 DEF DeployStep, Setup_, RepoInit, SetIgnored, copyServiceFiles,
       prepareAndModifyServicePackage, Stage, Commit, copyGitPackage, PushFails, StepFails, Pass,
       Ending
<1>9. QED BY <1>1, <1>2, <1>3, <1>4, <1>5, <1>6, <1>7, <1>8, NextCases

\* The group that is watched is one that the git server announced first, for a commit that it
\* got with the token of this remote (GroupIsOfThePush: Deploy.push and groupuid.Extract).
THEOREM GroupCorrect == Spec => []GroupIsOfThePush
<1>1. DeployInit => HostTyped /\ PhaseInv /\ TokenInv /\ PushInv
    BY PhaseInit DEF DeployInit, PrepareInit, Init, PushInv, GroupIsOfThePush
<1>2. HostTyped /\ PhaseInv /\ TokenInv /\ PushInv /\ [DeployNext]_allVars =>
      HostTyped' /\ PhaseInv' /\ TokenInv' /\ PushInv'
    BY PhaseStep, TokenStep, PushStep
<1>3. PushInv => GroupIsOfThePush
    BY DEF PushInv
<1>4. QED BY <1>1, <1>2, <1>3, PTL DEF Spec

-----------------------------------------------------------------------------
(* The directory. *)

\* A set of naturals has a least element.
LEMMA LeastNatural ==
    ASSUME NEW T \in SUBSET Nat, T # {}
    PROVE  \E m \in T : \A k \in T : ~(k < m)
<1> DEFINE R == {ss \in Nat \X Nat : ss[1] < ss[2]}
<1>1. IsWellFoundedOn(R, Nat)
    BY NatLessThanWellFounded DEF OpToRel
<1>2. PICK m \in T : \A k \in T : <<k, m>> \notin R
    <2> HIDE DEF R
    <2>1. QED BY <1>1, WFMin
<1>3. QED BY <1>2

\* What is read of a service.
ServiceInfo == [location : STRING, id : Seq(STRING), project : Seq(STRING), image : STRING]

\* What the first entries of a directory are, after n of them.
NextRead(f, files, i) == addFunc(f[i - 1], files[i])
IsRead(f, files, n) ==
    f = [i \in 0 .. n |-> IF i = 0 THEN {<<>>} ELSE NextRead(f, files, i)]

\* There is a function that reads the entries one by one: the least number of entries without
\* one can be neither zero nor the next of another.
LEMMA ReadExists ==
    ASSUME NEW files, NEW n \in Nat
    PROVE  \E f : IsRead(f, files, n)
<1> DEFINE T == {m \in Nat : ~\E f : IsRead(f, files, m)}
<1> SUFFICES ASSUME T # {} PROVE FALSE
    OBVIOUS
<1>1. PICK m \in T : \A j \in T : ~(j < m)
    <2> HIDE DEF T
    <2>1. T \in SUBSET Nat
        BY DEF T
    <2>2. QED BY <2>1, LeastNatural
<1>2. CASE m = 0
    <2>1. IsRead([i \in 0 .. 0 |-> {<<>>}], files, 0)
        BY DEF IsRead
    <2>2. QED BY <1>2, <2>1
<1>3. CASE m # 0
    <2>1. m - 1 \in Nat /\ m \in Nat /\ m - 1 < m
        BY <1>3
    <2>2. PICK f : IsRead(f, files, m - 1)
        BY <1>1, <2>1
    <2> DEFINE h == [i \in 0 .. m |-> IF i < m THEN f[i] ELSE NextRead(f, files, m)]
    <2>3. \A i \in 0 .. m - 1 : f[i] = IF i = 0 THEN {<<>>} ELSE NextRead(f, files, i)
        BY <2>2 DEF IsRead
    <2>4. ASSUME NEW i \in 0 .. m
          PROVE  h[i] = IF i = 0 THEN {<<>>} ELSE NextRead(h, files, i)
        <3>1. CASE i = 0
            BY <1>3, <2>1, <2>3, <3>1
        <3>2. CASE i # 0
            <4>1. h[i - 1] = f[i - 1]
                BY <2>1, <3>2
            <4>2. h[i] = NextRead(f, files, i)
                BY <2>1, <2>3, <3>2
            <4> HIDE DEF h
            <4>3. QED BY <3>2, <4>1, <4>2 DEF NextRead
        <3>3. QED BY <3>1, <3>2
    <2>5. IsRead(h, files, m)
        <3>1. h = [i \in 0 .. m |-> h[i]]
            OBVIOUS
        <3> HIDE DEF h
        <3>2. QED BY <2>4, <3>1 DEF IsRead
    <2>6. QED BY <1>1, <2>5
<1>4. QED BY <1>2, <1>3

\* So that is what readEntries is.
LEMMA ReadDef ==
    ASSUME NEW files \in Seq(Entry)
    PROVE  /\ readEntries(files)[0] = {<<>>}
           /\ \A i \in 1 .. Len(files) :
                readEntries(files)[i] = addFunc(readEntries(files)[i - 1], files[i])
<1>1. Len(files) \in Nat
    OBVIOUS
<1>2. \E f : IsRead(f, files, Len(files))
    BY <1>1, ReadExists
<1>3. readEntries(files) = CHOOSE f : IsRead(f, files, Len(files))
    BY DEF readEntries, IsRead, NextRead
<1>4. IsRead(readEntries(files), files, Len(files))
    BY <1>2, <1>3
<1>5. ASSUME NEW f, IsRead(f, files, Len(files))
      PROVE  /\ f[0] = {<<>>}
             /\ \A i \in 1 .. Len(files) : f[i] = addFunc(f[i - 1], files[i])
    <2>1. \A i \in 0 .. Len(files) : f[i] = IF i = 0 THEN {<<>>} ELSE NextRead(f, files, i)
        BY <1>5 DEF IsRead
    <2>2. QED BY <1>1, <2>1 DEF NextRead
<1>6. QED BY <1>4, <1>5

\* A directory has one service, of its name, or none.
LEMMA ReadIs ==
    ASSUME NEW e \in Entry, NEW read \in readDir(e)
    PROVE  read = <<>> \/ \E s \in ServiceInfo : read = <<s>> /\ s.location = e.name
<1>1. CASE read = <<>>
    BY <1>1
<1>2. CASE read # <<>>
    <2> DEFINE s == [location |-> e.name, id |-> e.pkg.id, project |-> e.pkg.project,
                     image |-> e.pkg.image]
    <2>1. read = <<s>>
        BY <1>2 DEF readDir, Read
    <2>2. s \in ServiceInfo
        BY DEF ServiceInfo, Entry, Package
    <2>3. QED BY <2>1, <2>2
<1>3. QED BY <1>1, <1>2

\* Services of different entries, of the first n.
ReadFrom(list, files, n) ==
    /\ list \in Seq(ServiceInfo)
    /\ \A i \in DOMAIN list : \E k \in 1 .. n : list[i].location = files[k].name
    /\ \A i, j \in DOMAIN list : list[i].location = list[j].location => i = j

\* An entry more adds a service of another directory, or none.
LEMMA OneMoreEntry ==
    ASSUME NEW files \in Seq(Entry), NEW n \in 1 .. Len(files),
           \A i, j \in DOMAIN files : files[i].name = files[j].name => i = j,
           NEW list, ReadFrom(list, files, n - 1), NEW read \in readDir(files[n])
    PROVE  ReadFrom(list \o read, files, n)
<1>1. n \in Nat /\ n - 1 \in Nat /\ files[n] \in Entry /\ DOMAIN files = 1 .. Len(files)
    OBVIOUS
<1>2. list \in Seq(ServiceInfo)
    BY DEF ReadFrom
<1>3. CASE read = <<>>
    <2>1. list \o read = list
        BY <1>2, <1>3
    <2>2. QED BY <1>1, <2>1 DEF ReadFrom
<1>4. ASSUME NEW s \in ServiceInfo, read = <<s>>, s.location = files[n].name
      PROVE  ReadFrom(list \o read, files, n)
    <2> DEFINE both == list \o read
    <2>1. /\ both \in Seq(ServiceInfo) /\ DOMAIN list = 1 .. Len(list) /\ Len(list) \in Nat
          /\ DOMAIN both = 1 .. Len(list) + 1 /\ both[Len(list) + 1] = s
          /\ \A i \in 1 .. Len(list) : both[i] = list[i]
        BY <1>2, <1>4
    <2> HIDE DEF both
    <2>2. \A i \in DOMAIN list : \E k \in 1 .. n - 1 : both[i].location = files[k].name
        <3>1. \A i \in DOMAIN list : both[i] = list[i]
            BY <2>1
        <3>2. \A i \in DOMAIN list : \E k \in 1 .. n - 1 : list[i].location = files[k].name
            BY DEF ReadFrom
        <3>3. QED BY <3>1, <3>2, Zenon
    <2>3. \A i \in DOMAIN list : both[i].location # s.location
        BY <1>1, <1>4, <2>2
    <2>4. \A i \in DOMAIN both : i \in DOMAIN list \/ (both[i] = s /\ i = Len(list) + 1)
        BY <2>1
    <2>5. \A i \in DOMAIN both : \E k \in 1 .. n : both[i].location = files[k].name
        BY <1>1, <1>4, <2>2, <2>4
    <2>6. \A i, j \in DOMAIN list : both[i].location = both[j].location => i = j
        BY <2>1 DEF ReadFrom
    <2>7. \A i, j \in DOMAIN both : both[i].location = both[j].location => i = j
        BY <2>3, <2>4, <2>6
    <2>8. QED BY <2>1, <2>5, <2>7 DEF ReadFrom, both
<1>5. QED BY <1>1, <1>3, <1>4, ReadIs

\* All the entries: the least number of them that were read otherwise does not exist.
LEMMA EntriesAreRead ==
    ASSUME NEW files \in Seq(Entry),
           \A i, j \in DOMAIN files : files[i].name = files[j].name => i = j
    PROVE  \A n \in 0 .. Len(files) :
               \A list \in readEntries(files)[n] : ReadFrom(list, files, n)
<1> DEFINE T == {n \in 0 .. Len(files) :
                    ~\A list \in readEntries(files)[n] : ReadFrom(list, files, n)}
<1> SUFFICES ASSUME T # {} PROVE FALSE
    OBVIOUS
<1>1. PICK m \in T : \A j \in T : ~(j < m)
    <2> HIDE DEF T
    <2>1. T \in SUBSET Nat
        BY DEF T
    <2>2. QED BY <2>1, LeastNatural
<1>2. m # 0
    <2>1. ReadFrom(<<>>, files, 0)
        BY DEF ReadFrom
    <2>2. QED BY <2>1, ReadDef
<1>3. m \in 1 .. Len(files) /\ m - 1 \in 0 .. Len(files) /\ m - 1 < m
    BY <1>2
<1>4. \A list \in readEntries(files)[m - 1] : ReadFrom(list, files, m - 1)
    BY <1>1, <1>3
<1>5. \A list \in readEntries(files)[m] : ReadFrom(list, files, m)
    <2>1. readEntries(files)[m] = addFunc(readEntries(files)[m - 1], files[m])
        BY <1>3, ReadDef
    <2>2. ASSUME NEW list \in readEntries(files)[m - 1], NEW read \in readDir(files[m])
          PROVE  ReadFrom(list \o read, files, m)
        <3>1. ReadFrom(list, files, m - 1)
            BY <1>4
        <3>2. QED BY <1>3, <3>1, OneMoreEntry
    <2> DEFINE before == readEntries(files)[m - 1]
    <2> DEFINE after == readEntries(files)[m]
    <2> HIDE DEF T, before, after
    <2>3. after = addFunc(before, files[m])
        BY <2>1 DEF before, after
    <2>4. \A l \in after : \E list \in before, read \in readDir(files[m]) : l = list \o read
        BY <2>3 DEF addFunc
    <2>5. ASSUME NEW l \in after PROVE ReadFrom(l, files, m)
        <3>1. PICK list \in before, read \in readDir(files[m]) : l = list \o read
            BY <2>4
        <3>2. ReadFrom(list \o read, files, m)
            BY <2>2 DEF before
        <3>3. QED BY <3>1, <3>2
    <2>6. QED BY <2>5 DEF after
<1>6. m \in T
    BY <1>1
<1>7. QED BY <1>5, <1>6, ZenonT(30)

\* The services of the working directory are in different directories.
LEMMA OverviewIs ==
    ASSUME start \in Starts, NEW list \in Overview(start.dir)
    PROVE  /\ list \in Seq(ServiceInfo)
           /\ \A i, j \in DOMAIN list : list[i].location = list[j].location => i = j
           /\ \/ Len(list) = 1 /\ list[1].location = start.dir.base.name
              \/ /\ NoDuplicates(list)
                 /\ \A i \in DOMAIN list : list[i].location # start.dir.base.name
<1>1. start.dir \in Directory
    BY StartsAssumption
<1>2. start.dir.files \in Seq(Entry) /\ start.dir.base \in Entry
    BY <1>1 DEF Directory
<1>3. list \in Walk(start.dir)
    BY DEF Overview
<1>4. CASE readDir(start.dir.base) # {<<>>}
    <2>1. list \in readDir(start.dir.base)
        BY <1>3, <1>4 DEF Walk
    <2>2. list # <<>>
        BY <1>4, <2>1 DEF readDir, Read
    <2>3. PICK s \in ServiceInfo : list = <<s>> /\ s.location = start.dir.base.name
        BY <1>2, <2>1, <2>2, ReadIs
    <2>4. QED BY <2>3
<1>5. CASE readDir(start.dir.base) = {<<>>}
    <2>1. list \in readEntries(start.dir.files)[Len(start.dir.files)] /\ NoDuplicates(list)
        BY <1>3, <1>5 DEF Walk
    <2>2. ReadFrom(list, start.dir.files, Len(start.dir.files))
        <3>1. Len(start.dir.files) \in 0 .. Len(start.dir.files)
            BY <1>2
        <3>2. \A i, j \in DOMAIN start.dir.files :
                  start.dir.files[i].name = start.dir.files[j].name => i = j
            BY StartsAssumption
        <3>3. QED BY <1>2, <2>1, <3>1, <3>2, EntriesAreRead
    <2>3. \A i \in DOMAIN list : list[i].location # start.dir.base.name
        <3>1. \A k \in 1 .. Len(start.dir.files) :
                  start.dir.files[k].name # start.dir.base.name
            BY <1>2, StartsAssumption
        <3>2. QED BY <2>2, <3>1 DEF ReadFrom
    <2>4. QED BY <2>1, <2>2, <2>3 DEF ReadFrom
<1>6. QED BY <1>4, <1>5

-----------------------------------------------------------------------------
(* The services. *)

\* A function from 1 to n is a sequence of its values.
LEMMA AsSequence ==
    ASSUME NEW n \in Nat, NEW f, f = [i \in 1 .. n |-> f[i]]
    PROVE  f \in Seq(ToSet(f)) /\ Len(f) = n /\ DOMAIN f = 1 .. n
<1>1. DOMAIN f = 1 .. n /\ \A i \in 1 .. n : f[i] \in ToSet(f)
    BY DEF ToSet
<1>2. f \in [1 .. n -> ToSet(f)]
    BY <1>1
<1>3. f \in Seq(ToSet(f))
    BY <1>2, SeqDef
<1>4. QED BY <1>1, <1>3, LenProperties

\* The services of the directory are loaded, with the project.
LEMMA LoadStep ==
    ASSUME start \in Starts, UNCHANGED <<start, host>>,
           NEW list \in loadServicesListFromPath, services' = list
    PROVE  /\ ServicesTyped'
           /\ \A i \in DOMAIN services' : services'[i].project = host.project
           /\ \E found \in Overview(start.dir) :
                  OfDirectory(found)' /\ (Empty(services') = {} => Empty(found) = {})
<1>1. PICK taken \in {IF found = <<>> THEN <<Blanket>> ELSE found :
                          found \in Overview(start.dir)} :
          list = [i \in 1 .. Len(taken) |-> [taken[i] EXCEPT !.project = host.project]]
    BY DEF loadServicesListFromPath
<1>2. PICK found \in Overview(start.dir) : taken = IF found = <<>> THEN <<Blanket>> ELSE found
    OBVIOUS
<1>3. found \in Seq(ServiceInfo)
    BY OverviewIs
<1>4. Len(taken) \in Nat /\ \A i \in 1 .. Len(taken) : AService(taken[i])
    <2>1. CASE found = <<>>
        <3>1. Len(taken) = 1 /\ taken[1] = Blanket
            BY <1>2, <2>1
        <3>2. AService(Blanket)
            BY DEF AService, Blanket
        <3>3. \A i \in 1 .. Len(taken) : i = 1
            BY <3>1
        <3>4. QED BY <3>1, <3>2, <3>3
    <2>2. CASE found # <<>>
        <3>1. \A s \in ServiceInfo : AService(s)
            BY DEF AService, ServiceInfo
        <3>2. taken = found /\ \A i \in 1 .. Len(found) : found[i] \in ServiceInfo
            BY <1>2, <1>3, <2>2
        <3>3. QED BY <1>3, <3>1, <3>2
    <2>3. QED BY <2>1, <2>2
<1>5. (found = <<>> => Len(taken) = 1 /\ taken[1] = Blanket) /\ (found # <<>> => taken = found)
    BY <1>2
<1>6. list \in Seq(ToSet(list)) /\ Len(list) = Len(taken) /\ DOMAIN list = 1 .. Len(taken)
    <2>1. list = [i \in 1 .. Len(taken) |-> list[i]]
        BY <1>1
    <2>2. QED BY <1>4, <2>1, AsSequence
<1>7. ASSUME NEW i \in 1 .. Len(taken)
      PROVE  list[i] = [location |-> taken[i].location, id |-> taken[i].id,
                        project |-> host.project, image |-> taken[i].image]
    <2>1. list[i] = [taken[i] EXCEPT !.project = host.project]
        BY <1>1
    <2>2. AService(taken[i])
        BY <1>4
    <2>3. QED BY <2>1, <2>2 DEF AService
<1>8. ServicesTyped'
    BY <1>6, <1>7 DEF ServicesTyped, AService
<1>9. OfDirectory(found)'
    <2>1. CASE found = <<>>
        <3>1. Len(list) = 1 /\ Len(taken) = 1 /\ taken[1] = Blanket
            BY <1>5, <1>6, <2>1
        <3>2. list[1] = [location |-> taken[1].location, id |-> taken[1].id,
                         project |-> host.project, image |-> taken[1].image]
            BY <1>7, <3>1
        <3>3. Blanket.location = start.dir.base.name
            BY DEF Blanket
        <3>4. list[1].location = start.dir.base.name
            BY <3>1, <3>2, <3>3
        <3>5. QED BY <2>1, <3>1, <3>4 DEF OfDirectory
    <2>2. CASE found # <<>>
        <3>1. /\ Len(list) = Len(found)
              /\ \A i \in DOMAIN found : /\ list[i].location = found[i].location
                                         /\ list[i].image = found[i].image
                                         /\ list[i].id = found[i].id
            BY <1>3, <1>5, <1>6, <1>7, <2>2
        <3>2. QED BY <2>2, <3>1 DEF OfDirectory
    <2>3. QED BY <2>1, <2>2
<1>10. Empty(services') = {} => Empty(found) = {}
    <2>1. CASE found = <<>>
        BY <2>1 DEF Empty
    <2>2. CASE found # <<>>
        <3>1. /\ DOMAIN list = DOMAIN found
              /\ \A i \in DOMAIN found : list[i].id = found[i].id
            BY <1>3, <1>5, <1>6, <1>7, <2>2
        <3>2. QED BY <3>1 DEF Empty
    <2>3. QED BY <2>1, <2>2
<1>11. QED BY <1>6, <1>7, <1>8, <1>9, <1>10

\* The ID of the only service is set.
LEMMA SetIDStep ==
    ASSUME start \in Starts, ServicesTyped, Len(services) = 1, UNCHANGED <<start, host>>,
           NEW id, services' = [services EXCEPT ![1].id = id],
           host.service # NoName \/ services[1].id = NoName
    PROVE  /\ ServicesTyped' /\ Len(services') = 1
           /\ services'[1].id = id /\ services'[1].project = services[1].project
           /\ \A list \in Overview(start.dir) :
                  OfDirectory(list) => OfDirectory(list)' /\ Len(list) < 2
<1>1. DOMAIN services = 1 .. 1 /\ AService(services[1])
    BY DEF ServicesTyped
<1> DEFINE s == [services[1] EXCEPT !.id = id]
<1>2. services' = [i \in 1 .. 1 |-> s]
    <2>1. services' = [services EXCEPT ![1] = s]
        OBVIOUS
    <2>2. \A i \in 1 .. 1 : i = 1
        OBVIOUS
    <2> HIDE DEF s
    <2>3. QED BY <1>1, <2>1, <2>2
<1>3. services'[1] = [location |-> services[1].location, id |-> id,
                      project |-> services[1].project, image |-> services[1].image]
    BY <1>1, <1>2 DEF AService
<1>4. services' \in Seq(ToSet(services')) /\ Len(services') = 1 /\ DOMAIN services' = 1 .. 1
    <2>1. services' = [i \in 1 .. 1 |-> services'[i]]
        BY <1>2
    <2>2. QED BY <2>1, AsSequence
<1>5. ServicesTyped'
    BY <1>3, <1>4 DEF ServicesTyped, AService
<1>6. ASSUME NEW list \in Overview(start.dir), OfDirectory(list), list # <<>>
      PROVE  OfDirectory(list)' /\ Len(list) = 1
    <2>1. list \in Seq(ServiceInfo)
        BY OverviewIs
    <2>2. Len(list) = 1 /\ DOMAIN list = 1 .. 1
        BY <1>6, <2>1 DEF OfDirectory
    <2>3. /\ services[1].location = list[1].location /\ services[1].image = list[1].image
          /\ list[1].id \in {NoName, services[1].id} \/ host.service # NoName
        BY <1>6, <2>2 DEF OfDirectory
    <2>4. /\ services'[1].location = list[1].location /\ services'[1].image = list[1].image
          /\ list[1].id = NoName \/ host'.service # NoName
        BY <1>3, <2>3
    <2>5. \A i \in DOMAIN list : i = 1
        BY <2>2
    <2>6. QED BY <1>4, <1>6, <2>2, <2>4, <2>5 DEF OfDirectory
<1>7. ASSUME NEW list, OfDirectory(list), list = <<>>
      PROVE  OfDirectory(list)' /\ Len(list) = 0
    BY <1>3, <1>4, <1>7 DEF OfDirectory
<1>8. QED BY <1>3, <1>4, <1>5, <1>6, <1>7

\* The name of a directory, or a random one, is no empty ID.
LEMMA MadeUpIsAnID ==
    ASSUME NEW s, NEW id \in getServiceIDFromBaseDirOrRandom(s)
    PROVE  id # NoName
<1>1. \A w : <<w>> # NoName
    BY DEF NoName
<1>2. QED BY <1>1, NamesAssumption DEF getServiceIDFromBaseDirOrRandom

\* The services without an ID get one, and nothing else changes.
LEMMA RemapStep ==
    ASSUME ServicesTyped, remapServicesWithEmptyIDs
    PROVE  /\ ServicesTyped' /\ Len(services') = Len(services)
           /\ DOMAIN services' = DOMAIN services
           /\ \A i \in DOMAIN services :
                /\ services'[i].id # NoName
                /\ services[i].id # NoName => services'[i].id = services[i].id
                /\ services'[i].location = services[i].location
                /\ services'[i].project = services[i].project
                /\ services'[i].image = services[i].image
<1>1. PICK ids :
          /\ \A i \in Empty(services) : ids[i] \in getServiceIDFromBaseDirOrRandom(services[i])
          /\ services' = [i \in DOMAIN services |->
                             IF i \in Empty(services) THEN [services[i] EXCEPT !.id = ids[i]]
                             ELSE services[i]]
    BY DEF remapServicesWithEmptyIDs
<1>2. Len(services) \in Nat /\ DOMAIN services = 1 .. Len(services)
    BY DEF ServicesTyped
<1>3. /\ services' \in Seq(ToSet(services')) /\ Len(services') = Len(services)
      /\ DOMAIN services' = DOMAIN services
    <2>1. services' = [i \in 1 .. Len(services) |-> services'[i]]
        BY <1>1, <1>2
    <2>2. QED BY <1>2, <2>1, AsSequence
<1>4. ASSUME NEW i \in DOMAIN services, i \notin Empty(services)
      PROVE  services'[i] = services[i] /\ services[i].id # NoName
    BY <1>1, <1>4 DEF Empty
<1>5. ASSUME NEW i \in DOMAIN services, i \in Empty(services)
      PROVE  /\ AService(services'[i]) /\ services'[i].id # NoName /\ services[i].id = NoName
             /\ services'[i].location = services[i].location
             /\ services'[i].project = services[i].project
             /\ services'[i].image = services[i].image
    <2>1. services[i].id = NoName
        BY <1>5 DEF Empty
    <2>2. services'[i] = [services[i] EXCEPT !.id = ids[i]]
        BY <1>1, <1>5
    <2>3. AService(services[i])
        BY DEF ServicesTyped
    <2>4. services'[i] = [location |-> services[i].location, id |-> ids[i],
                          project |-> services[i].project, image |-> services[i].image]
        BY <2>2, <2>3 DEF AService
    <2>5. ids[i] # NoName
        BY <1>1, <1>5, MadeUpIsAnID
    <2>6. QED BY <2>1, <2>4, <2>5 DEF AService
<1>6. ServicesTyped'
    <2>1. \A i \in DOMAIN services : AService(services[i])
        BY DEF ServicesTyped
    <2>2. \A i \in DOMAIN services : AService(services'[i])
        BY <1>4, <1>5, <2>1
    <2>3. QED BY <1>3, <2>2 DEF ServicesTyped
<1>7. QED BY <1>3, <1>4, <1>5, <1>6

\* Where the services are changed.
LEMMA ServicesChange ==
    ASSUME [DeployNext]_allVars
    PROVE  \/ UNCHANGED services
           \/ loadServicesList /\ services' \in loadServicesListFromPath
           \/ checkServiceParameter \/ remapServicesWithEmptyIDs
           \/ DeployFromGitRepository
<1>1. CASE ProcessStep /\ UNCHANGED <<prepared, package>>
    BY <1>1 DEF prepared
<1>2. CASE PrepareStep
    BY <1>2 DEF PrepareStep, preRun, run, MaybeID, confirmation, Create, loadServicesList,
       checkEmptyIDOnMultipleDeployment, checkImage, Test, Step, Fails, prepared
<1>3. CASE DeployStep
    BY <1>3 DEF DeployStep, Setup_, RepoInit, SetIgnored, copyServiceFiles,
       prepareAndModifyServicePackage, Stage, Commit, copyGitPackage, AddRemote, Push, PushFails,
       StepFails, Wait, followLogs, Pass, prepared
<1>4. CASE UNCHANGED allVars
    BY <1>4 DEF allVars, prepared
<1>5. QED BY <1>1, <1>2, <1>3, <1>4, NextCases

\* services is always a sequence of services.
LEMMA TypedStep ==
    ASSUME start \in Starts, ServicesTyped, IDsInv, [DeployNext]_allVars
    PROVE  ServicesTyped'
<1>1. CASE UNCHANGED services
    BY <1>1 DEF ServicesTyped
<1>2. CASE loadServicesList /\ services' \in loadServicesListFromPath
    <2>1. UNCHANGED <<start, host>>
        BY <1>2 DEF loadServicesList, Step, Fails, Keep, quiet
    <2>2. QED BY <1>2, <2>1, LoadStep
<1>3. CASE checkServiceParameter
    <2>1. PICK id : services' = [services EXCEPT ![1].id = id]
        BY <1>3 DEF checkServiceParameter
    <2>2. /\ Len(services) = 1 /\ UNCHANGED <<start, host>>
          /\ host.service # NoName \/ services[1].id = NoName
        BY <1>3 DEF checkServiceParameter, IDsInv, Keep, quiet
    <2>3. QED BY <2>1, <2>2, SetIDStep
<1>4. CASE remapServicesWithEmptyIDs
    BY <1>4, RemapStep
<1>5. CASE DeployFromGitRepository
    <2>1. CASE UNCHANGED services
        BY <2>1 DEF ServicesTyped
    <2>2. ASSUME NEW ids, services' = [i \in DOMAIN ids |->
                                          [location |-> "", id |-> ids[i],
                                           project |-> host.project, image |-> ""]],
                 ids = <<>> \/ \E id \in Names : ids = <<id>>
          PROVE  ServicesTyped'
        <3>1. PICK n \in Nat : DOMAIN ids = 1 .. n
            <4>1. CASE ids = <<>>
                <5>1. DOMAIN ids = 1 .. 0
                    BY <4>1
                <5>2. QED BY <5>1
            <4>2. ASSUME NEW id, ids = <<id>>
                  PROVE  DOMAIN ids = 1 .. 1
                BY <4>2
            <4>3. QED BY <2>2, <4>1, <4>2
        <3>2. services' = [i \in 1 .. n |-> services'[i]]
            BY <2>2, <3>1
        <3>3. services' \in Seq(ToSet(services')) /\ DOMAIN services' = 1 .. n
            BY <3>2, AsSequence
        <3>4. QED BY <2>2, <3>1, <3>3 DEF ServicesTyped, AService
    <2>3. QED BY <1>5, <2>1, <2>2 DEF DeployFromGitRepository, Fails, prepared
<1>6. QED BY <1>1, <1>2, <1>3, <1>4, <1>5, ServicesChange

\* What is on the server depends on the project that was created.
LEMMA SameServer ==
    ASSUME Keep, UNCHANGED created, OnServer(host.project)
    PROVE  OnServer(host.project)'
BY DEF Keep, quiet, OnServer

\* A project is created after a yes, and no service is loaded before it exists.
LEMMA ProjectStep ==
    ASSUME HostTyped, PhaseInv, ProjectInv, [DeployNext]_allVars
    PROVE  ProjectInv'
<1>1. CASE ProcessStep /\ UNCHANGED <<prepared, package>>
    <2>1. created' = NoName
        BY <1>1, ProcessMoves DEF ProjectInv, prepared
    <2>2. pc' \in Asking \cup {"run"} \cup Over
        BY <1>1, ProcessMoves
    <2>3. QED
        BY <2>1, <2>2
        DEF ProjectInv, Asking, Over, Loaded, Agreed, WithIDs, Uploading, Ending
<1>2. CASE preRun \/ run \/ confirmation
    <2>1. /\ Keep /\ UNCHANGED created
          /\ pc \in {"preRun", "run", "confirmation"}
          /\ pc' \in {"parse", "get project", "create project", "failed"}
          /\ confirmed \subseteq confirmed'
          /\ pc' = "create project" => "create project" \in confirmed'
          /\ pc = "confirmation" => pc' # "parse"
        BY <1>2 DEF preRun, run, confirmation, Test, Step, Fails, prepared
    <2>2. QED
        BY <2>1 DEF ProjectInv, Keep, Asking, Loaded, Agreed, WithIDs, Uploading, Ending
<1>3. CASE MaybeID
    <2>1. /\ Keep /\ UNCHANGED <<created, confirmed>>
          /\ pc' \in {"load services", "confirmation", "failed"}
          /\ pc' = "load services" => OnServer(host.project)
        BY <1>3 DEF MaybeID, Test, Step, Fails, prepared
    <2>2. QED
        BY <2>1, SameServer
        DEF ProjectInv, Keep, Asking, Loaded, Agreed, WithIDs, Uploading, Ending
<1>4. CASE Create
    <2>1. CASE Fails
        BY <2>1 DEF Fails, prepared, ProjectInv, Keep, Asking, Loaded, Agreed, WithIDs,
           Uploading, Ending
    <2>2. CASE Step("create project") /\ created' = host.project /\ pc' = "load services"
               /\ UNCHANGED confirmed
        BY <2>2 DEF Step, OnServer, ProjectInv, Keep, Asking
    <2>3. QED BY <1>4, <2>1, <2>2 DEF Create
<1>5. CASE \/ loadServicesList \/ checkServiceParameter \/ checkEmptyIDOnMultipleDeployment
           \/ remapServicesWithEmptyIDs \/ checkImage
    <2>1. /\ Keep /\ UNCHANGED created /\ confirmed \subseteq confirmed'
          /\ pc \in {"load services"} \cup Loaded \cup Agreed \cup WithIDs
          /\ pc' \in Loaded \cup Agreed \cup {"check image", "deploy", "failed"}
        BY <1>5
        DEF loadServicesList, checkServiceParameter, checkEmptyIDOnMultipleDeployment,
            remapServicesWithEmptyIDs, checkImage, checkServiceIDs, Test, Step, Fails, prepared,
            Loaded, Agreed, WithIDs
    <2>2. OnServer(host.project)'
        BY <2>1, SameServer DEF ProjectInv
    <2>3. QED BY <2>1, <2>2 DEF ProjectInv, Keep, Asking, Loaded, Agreed
<1>6. CASE DeployStep
    <2>1. Keep /\ UNCHANGED <<created, confirmed>>
        BY <1>6
        DEF DeployStep, Setup_, RepoInit, SetIgnored, copyServiceFiles,
            prepareAndModifyServicePackage, Stage, Commit, copyGitPackage, AddRemote, Push,
            PushFails, StepFails, DeployFromGitRepository, Wait, followLogs, Fails, Pass, prepared
    <2>2. /\ pc \in {"load services"} \cup Uploading \cup Ending
          /\ pc' \in Uploading \cup Ending \cup Over
        BY <1>6, DeployMoves
    <2>3. OnServer(host.project)'
        BY <2>1, <2>2, SameServer DEF ProjectInv, WithIDs
    <2>4. QED BY <2>1, <2>2, <2>3 DEF ProjectInv, Keep, Asking, Uploading, Ending, Over
<1>7. CASE UNCHANGED allVars
    BY <1>7 DEF allVars, vars, quiet, prepared, ProjectInv, OnServer
<1>8. QED BY <1>1, <1>2, <1>3, <1>4, <1>5, <1>6, <1>7, NextCases DEF PrepareStep

\* The upload and what follows it leave the services alone.
LEMMA OtherDeploySteps ==
    ASSUME DeployStep, ~DeployFromGitRepository
    PROVE  /\ Keep /\ UNCHANGED prepared
           /\ pc \in Uploading \cup Ending
           /\ pc \in Ending => pc' \in Ending \cup Over
BY DEF DeployStep, Setup_, RepoInit, SetIgnored, copyServiceFiles,
   prepareAndModifyServicePackage, Stage, Commit, copyGitPackage, AddRemote, Push, PushFails,
   StepFails, Wait, followLogs, Pass, DoSteps, Uploading, Ending, Over

\* Services are loaded once, of the directory and the project, and only their IDs change.
LEMMA LoadedStep ==
    ASSUME HostTyped, PhaseInv, ServicesTyped, IDsInv, LoadedInv, [DeployNext]_allVars
    PROVE  LoadedInv'
<1> DEFINE ready == pc \in Loaded \cup Agreed \cup WithIDs
<1>1. CASE ProcessStep \/ preRun \/ run \/ MaybeID \/ confirmation \/ Create
    <2>1. pc' \notin Loaded \cup Agreed \cup WithIDs
        BY <1>1, ProcessMoves
        DEF Asking, Over, Loaded, Agreed, WithIDs, Uploading, Ending, preRun, run, MaybeID,
            confirmation, Create, Test, Step, Fails
    <2>2. QED BY <2>1 DEF LoadedInv
<1>2. CASE loadServicesList
    <2>1. CASE pc' = "failed"
        BY <2>1 DEF LoadedInv, Loaded, Agreed, WithIDs, Uploading, Ending
    <2>2. CASE services' \in loadServicesListFromPath
        <3>1. Keep /\ ~fromRepo
            BY <1>2, <2>2 DEF loadServicesList, Step, Fails
        <3>2. UNCHANGED <<start, host>> /\ start \in Starts /\ ~fromRepo'
            BY <3>1 DEF Keep, quiet, PhaseInv, fromRepo, params
        <3>3. \A i \in DOMAIN services' : services'[i].project = host'.project
            BY <2>2, <3>2, LoadStep
        <3>4. PICK list \in Overview(start.dir) :
                  OfDirectory(list)' /\ (Empty(services') = {} => Empty(list) = {})
            BY <2>2, <3>2, LoadStep
        <3>5. pc' = "remap" => Empty(services') = {}
            BY <1>2, <2>2, <3>1 DEF loadServicesList, checkServiceIDs, Fails, Keep
        <3>6. pc' \in Loaded \cup {"remap", "failed"}
            BY <1>2 DEF loadServicesList, checkServiceIDs, Fails, Loaded
        <3>7. pc' \notin {"failed"} \cup Loaded => AgreedOn(list)'
            BY <3>4, <3>5, <3>6 DEF AgreedOn
        <3>8. pc' # "failed" => pc' \in Loaded \/ AgreedOn(list)'
            BY <3>7
        <3>9. start'.dir = start.dir
            BY <3>2
        <3>10. QED
            BY <3>2, <3>3, <3>4, <3>8, <3>9
            DEF LoadedInv, Loaded, Agreed, WithIDs, Uploading, Ending
    <2>3. QED BY <1>2, <2>1, <2>2 DEF loadServicesList, Fails
<1>3. CASE checkServiceParameter
    <2>1. PICK id : services' = [services EXCEPT ![1].id = id]
        BY <1>3 DEF checkServiceParameter
    <2>2. /\ Len(services) = 1 /\ UNCHANGED <<start, host>> /\ start \in Starts
          /\ pc \in Loaded /\ (host.service # NoName \/ services[1].id = NoName)
        BY <1>3 DEF checkServiceParameter, IDsInv, PhaseInv, Keep, quiet, Loaded
    <2>3. ~fromRepo /\ fromRepo' = fromRepo
        BY <2>2 DEF LoadedInv, Loaded, Ending, fromRepo, params
    <2>4. \A i \in DOMAIN services' : services'[i].project = host'.project
        <3>1. ServicesTyped' /\ Len(services') = 1 /\ services'[1].project = services[1].project
            BY <2>1, <2>2, SetIDStep
        <3>2. DOMAIN services = 1 .. 1 /\ DOMAIN services' = 1 .. 1
            BY <2>2, <3>1 DEF ServicesTyped
        <3>3. services[1].project = host.project
            BY <2>2, <3>2 DEF LoadedInv
        <3>4. QED BY <2>2, <3>1, <3>2, <3>3
    <2>5. PICK list \in Overview(start.dir) : OfDirectory(list)
        BY <2>2, <2>3 DEF LoadedInv
    <2>6. OfDirectory(list)' /\ Len(list) < 2 /\ list \in Seq(ServiceInfo)
        BY <2>1, <2>2, <2>5, SetIDStep, OverviewIs
    <2>7. AgreedOn(list)'
        BY <2>6 DEF AgreedOn
    <2>8. QED BY <2>2, <2>3, <2>4, <2>6, <2>7 DEF LoadedInv
<1>4. CASE remapServicesWithEmptyIDs
    <2>1. UNCHANGED <<start, host>> /\ start \in Starts /\ pc \in Agreed
        BY <1>4 DEF remapServicesWithEmptyIDs, Step, PhaseInv, Keep, quiet, Agreed
    <2>2. ~fromRepo /\ fromRepo' = fromRepo
        BY <2>1 DEF LoadedInv, Agreed, Ending, fromRepo, params
    <2>3. \A i \in DOMAIN services' : services'[i].project = host'.project
        BY <1>4, <2>1, RemapStep DEF LoadedInv
    <2>4. PICK list \in Overview(start.dir) : OfDirectory(list) /\ AgreedOn(list)
        BY <2>1, <2>2 DEF LoadedInv, Loaded, Agreed
    <2>5. OfDirectory(list)'
        <3>1. list \in Seq(ServiceInfo)
            BY <2>1, OverviewIs
        <3>2. DOMAIN services = 1 .. Len(services) /\ DOMAIN list = 1 .. Len(list)
            BY <3>1 DEF ServicesTyped
        <3>3. CASE list = <<>>
            BY <1>4, <2>1, <2>4, <3>2, <3>3, RemapStep DEF OfDirectory
        <3>4. CASE list # <<>>
            BY <1>4, <2>1, <2>4, <3>2, <3>4, RemapStep DEF OfDirectory
        <3>5. QED BY <3>3, <3>4
    <2>6. AgreedOn(list)'
        BY <1>4, <2>4 DEF remapServicesWithEmptyIDs, AgreedOn
    <2>7. QED BY <2>1, <2>2, <2>3, <2>5, <2>6 DEF LoadedInv
<1>5. CASE DeployFromGitRepository
    <2>1. Keep /\ fromRepo' /\ pc' \in {"watch", "failed"}
        BY <1>5 DEF DeployFromGitRepository, Fails, Keep, quiet, fromRepo, params
    <2>2. pc' = "watch" => \A i \in DOMAIN services' : services'[i].project = host'.project
        <3>1. CASE pc' = "watch"
            <4>1. PICK ids : services' = [i \in DOMAIN ids |->
                                              [location |-> "", id |-> ids[i],
                                               project |-> host.project, image |-> ""]]
                BY <1>5, <3>1 DEF DeployFromGitRepository, Fails
            <4>2. QED BY <2>1, <4>1 DEF Keep
        <3>2. QED BY <3>1
    <2>3. QED
        BY <2>1, <2>2 DEF LoadedInv, Ending, Loaded, Agreed, WithIDs, Uploading
<1>6. ASSUME UNCHANGED <<services, host, start>>, ready,
             "continue" \in confirmed => "continue" \in confirmed',
             pc \in Loaded => "continue" \in confirmed' \/ pc' = "failed",
             pc \in Ending => pc' \in Ending \cup Over
      PROVE  LoadedInv'
    <2>1. CASE pc' = "failed"
        BY <2>1 DEF LoadedInv, Loaded, Agreed, WithIDs, Uploading, Ending
    <2>2. CASE pc' # "failed" /\ ~fromRepo
        <3>1. PICK list \in Overview(start.dir) :
                  OfDirectory(list) /\ (pc \notin Loaded => AgreedOn(list))
            BY <1>6, <2>2 DEF LoadedInv
        <3>2. OfDirectory(list)' /\ AgreedOn(list)'
            BY <1>6, <2>2, <3>1 DEF OfDirectory, AgreedOn
        <3>3. QED BY <1>6, <2>2, <3>1, <3>2 DEF LoadedInv, fromRepo, params
    <2>3. CASE fromRepo
        BY <1>6, <2>3 DEF LoadedInv, fromRepo, params, Ending, Over, Loaded, Agreed, WithIDs,
           Uploading
    <2>4. QED BY <2>1, <2>2, <2>3
<1>7. CASE checkEmptyIDOnMultipleDeployment \/ checkImage
    <2>1. /\ UNCHANGED <<services, host, start>> /\ pc \in Loaded \cup {"check image"}
          /\ confirmed \subseteq confirmed'
          /\ pc \in Loaded => "continue" \in confirmed' \/ pc' = "failed"
        BY <1>7 DEF checkEmptyIDOnMultipleDeployment, checkImage, Test, Step, Fails, Keep, quiet,
           prepared, Loaded
    <2>2. QED BY <1>6, <2>1 DEF Loaded, WithIDs, Ending
<1>8. CASE DeployStep /\ ~DeployFromGitRepository
    <2>1. UNCHANGED <<services, host, start, confirmed>> /\ pc \in Uploading \cup Ending
        BY <1>8, OtherDeploySteps DEF Keep, quiet, prepared
    <2>2. pc \notin Loaded
        BY <2>1 DEF Loaded, Uploading, Ending
    <2>3. QED BY <1>6, <1>8, <2>1, <2>2, OtherDeploySteps DEF WithIDs
<1>9. CASE UNCHANGED allVars
    BY <1>9
    DEF allVars, vars, quiet, prepared, LoadedInv, OfDirectory, AgreedOn, fromRepo, params
<1>10. QED
    BY <1>1, <1>2, <1>3, <1>4, <1>5, <1>7, <1>8, <1>9, NextCases DEF PrepareStep

-----------------------------------------------------------------------------
(* Their IDs. *)

\* What is asked about the IDs depends on how many services have none.
LEMMA IDsOfList ==
    ASSUME NEW list, NEW n \in Nat, DOMAIN list = 1 .. n, Len(list) = n
    PROVE  /\ checkServiceIDs(list) \in
                  {"use --service", "type ID", "continue?", "remap", "failed"}
           /\ checkServiceIDs(list) \in {"use --service", "type ID"} => n = 1
           /\ checkServiceIDs(list) = "use --service" => host.service # NoName
           /\ checkServiceIDs(list) \in {"type ID", "continue?", "remap"} =>
                  host.service = NoName
           /\ checkServiceIDs(list) = "type ID" => list[1].id = NoName
<1>1. Empty(list) \subseteq 1 .. n
    BY DEF Empty
<1>2. Empty(list) # {} => n > 0
    BY <1>1
<1>3. Empty(list) # {} /\ n = 1 => list[1].id = NoName
    <2>1. \A i \in 1 .. 1 : i = 1
        OBVIOUS
    <2>2. QED BY <1>1, <2>1 DEF Empty
<1>4. QED BY <1>2, <1>3 DEF checkServiceIDs

\* The IDs are settled before the check of the images, and stay.
LEMMA IDsStep ==
    ASSUME HostTyped, PhaseInv, ServicesTyped, LoadedInv, IDsInv, [DeployNext]_allVars
    PROVE  IDsInv'
<1>1. CASE ProcessStep \/ preRun \/ run \/ MaybeID \/ confirmation \/ Create
    <2>1. pc' \notin Loaded \cup Agreed \cup WithIDs
        BY <1>1, ProcessMoves
        DEF Asking, Over, Loaded, Agreed, WithIDs, Uploading, Ending, preRun, run, MaybeID,
            confirmation, Create, Test, Step, Fails
    <2>2. QED BY <2>1 DEF IDsInv, Loaded, WithIDs
<1>2. CASE loadServicesList
    <2>1. CASE pc' = "failed"
        BY <2>1 DEF IDsInv, Loaded, Agreed, WithIDs, Uploading, Ending
    <2>2. CASE pc' = checkServiceIDs(services') /\ Keep
        <3>1. UNCHANGED <<host, start>>
            BY <2>2 DEF Keep, quiet
        <3>2. Len(services') \in Nat /\ DOMAIN services' = 1 .. Len(services')
            <4>1. start \in Starts
                BY DEF PhaseInv
            <4>2. QED BY <4>1, TypedStep DEF ServicesTyped
        <3>3. /\ pc' \in {"use --service", "type ID", "continue?", "remap", "failed"}
              /\ pc' \in {"use --service", "type ID"} => Len(services') = 1
              /\ pc' = "use --service" => host.service # NoName
              /\ pc' \in {"type ID", "continue?", "remap"} => host.service = NoName
              /\ pc' = "type ID" => services'[1].id = NoName
            BY <2>2, <3>2, IDsOfList
        <3>4. /\ pc' \notin WithIDs /\ pc' \notin Uploading \cup Ending
              /\ pc' \in Agreed => pc' = "remap"
            BY <3>3 DEF WithIDs, Agreed, Uploading, Ending
        <3>5. QED
            BY <3>1, <3>3, <3>4 DEF IDsInv, WithIDs, Agreed, Uploading, Ending
    <2>3. QED BY <1>2, <2>1, <2>2 DEF loadServicesList, Step, Fails
<1>3. CASE checkServiceParameter
    <2>1. PICK id : /\ services' = [services EXCEPT ![1].id = id]
                    /\ pc = "use --service" => id = host.service
        BY <1>3 DEF checkServiceParameter
    <2>2. /\ Len(services) = 1 /\ UNCHANGED <<start, host>> /\ start \in Starts
          /\ pc \in {"use --service", "type ID"} /\ pc' = "remap"
          /\ host.service # NoName \/ services[1].id = NoName
        BY <1>3 DEF checkServiceParameter, IDsInv, PhaseInv, Keep, quiet
    <2>3. Len(services') = 1 /\ services'[1].id = id
        BY <2>1, <2>2, SetIDStep
    <2>4. QED
        BY <2>1, <2>2, <2>3 DEF IDsInv, Agreed, WithIDs, Uploading, Ending
<1>4. CASE remapServicesWithEmptyIDs
    <2>1. /\ UNCHANGED <<start, host>> /\ pc = "remap" /\ pc' = "check image"
        BY <1>4 DEF remapServicesWithEmptyIDs, Step, Keep, quiet
    <2>2. fromRepo' = fromRepo
        BY <2>1 DEF fromRepo, params
    <2>3. ~fromRepo /\ host.service # NoName =>
              Len(services') = 1 /\ services'[1].id = host.service
        <3>1. DOMAIN services = 1 .. Len(services)
            BY DEF ServicesTyped
        <3>2. ~fromRepo /\ host.service # NoName =>
                  Len(services) = 1 /\ services[1].id = host.service
            BY <2>1 DEF IDsInv, Agreed
        <3>3. Len(services) = 1 => 1 \in DOMAIN services
            BY <3>1
        <3>4. QED BY <1>4, <3>2, <3>3, RemapStep
    <2>4. \A i \in DOMAIN services' : services'[i].id # NoName
        BY <1>4, RemapStep
    <2>5. QED
        BY <2>1, <2>2, <2>3, <2>4 DEF IDsInv, Agreed, Uploading, Ending
<1>5. CASE DeployFromGitRepository
    <2>1. Keep /\ fromRepo' /\ pc' \in {"watch", "failed"}
        BY <1>5 DEF DeployFromGitRepository, Fails, Keep, quiet, fromRepo, params
    <2>2. CASE pc' = "watch"
        <3>1. PICK ids \in {<<>>} \cup {<<id>> : id \in Names} :
                  services' = [i \in DOMAIN ids |->
                                  [location |-> "", id |-> ids[i], project |-> host.project,
                                   image |-> ""]]
            BY <1>5, <2>2 DEF DeployFromGitRepository, Fails
        <3>2. \A i \in DOMAIN ids : ids[i] # NoName
            BY NamesAssumption
        <3>3. \A i \in DOMAIN services' : services'[i].id # NoName
            BY <3>1, <3>2
        <3>4. QED BY <2>1, <2>2, <3>3 DEF IDsInv
    <2>3. QED BY <2>1, <2>2 DEF IDsInv, Agreed, WithIDs, Uploading, Ending
<1>6. CASE checkEmptyIDOnMultipleDeployment
    <2>1. /\ UNCHANGED <<services, host, start>> /\ pc \in {"continue?", "type ID"}
          /\ pc' \in {"remap", "failed"}
        BY <1>6 DEF checkEmptyIDOnMultipleDeployment, Step, Fails, Keep, quiet, prepared
    <2>2. QED BY <2>1 DEF IDsInv, Agreed, WithIDs, Uploading, Ending
<1>7. CASE checkImage
    <2>1. /\ UNCHANGED <<services, host, start>> /\ pc = "check image"
          /\ (pc' = "failed") \/ (pc' = "deploy" /\ (params.image => SameImages))
        BY <1>7 DEF checkImage, Test, Step, Keep, quiet, prepared
    <2>2. QED
        BY <2>1
        DEF IDsInv, Agreed, WithIDs, Uploading, Ending, fromRepo, params, SameImages
<1>8. CASE DeployStep /\ ~DeployFromGitRepository
    <2>1. /\ UNCHANGED <<services, host, start>> /\ pc \in Uploading \cup Ending
          /\ pc' \in Uploading \cup Ending \cup Over
        BY <1>8, OtherDeploySteps, DeployMoves DEF Keep, quiet, prepared
    <2>2. QED
        BY <2>1
        DEF IDsInv, Agreed, WithIDs, Uploading, Ending, Over, fromRepo, params, SameImages
<1>9. CASE UNCHANGED allVars
    BY <1>9 DEF allVars, vars, quiet, prepared, IDsInv, fromRepo, params, SameImages
<1>10. QED
    BY <1>1, <1>2, <1>3, <1>4, <1>5, <1>6, <1>7, <1>8, <1>9, NextCases DEF PrepareStep

\* A set whose elements are all the same has less than two.
LEMMA AtMostOne ==
    ASSUME NEW S, \A x, y \in S : x = y
    PROVE  IsFiniteSet(S) /\ Cardinality(S) < 2
<1>1. CASE S = {}
    BY <1>1, FS_EmptySet
<1>2. CASE S # {}
    <2>1. PICK x \in S : S = {x}
        BY <1>2
    <2>2. IsFiniteSet({x}) /\ Cardinality({x}) = 1
        BY FS_Singleton
    <2>3. QED BY <2>1, <2>2
<1>3. QED BY <1>1, <1>2

\* IDs of the directory are not the same twice; only those made up can be.
LEMMA SameIDs ==
    ASSUME start \in Starts, ServicesTyped, NEW list \in Overview(start.dir), OfDirectory(list),
           host.service = NoName, NEW i \in DOMAIN services, NEW j \in DOMAIN services, i # j,
           services[i].id = services[j].id
    PROVE  NoName \in {list[i].id, list[j].id}
<1>1. DOMAIN services = 1 .. Len(services) /\ Len(services) \in Nat
    BY DEF ServicesTyped
<1>2. Len(services) > 1
    BY <1>1
<1>3. list # <<>> /\ Len(list) = Len(services) /\ list \in Seq(ServiceInfo)
    BY <1>1, <1>2, OverviewIs DEF OfDirectory
<1>4. DOMAIN list = DOMAIN services
    BY <1>1, <1>3
<1>5. NoDuplicates(list)
    BY <1>1, <1>2, <1>3, OverviewIs
<1>6. SUFFICES ASSUME list[i].id # NoName, list[j].id # NoName PROVE FALSE
    BY <1>3
<1>7. list[i].id = list[j].id
    BY <1>3, <1>4, <1>6 DEF OfDirectory
<1>8. ASSUME NEW k \in DOMAIN list, NEW l \in DOMAIN list, k < l, list[k].id = list[l].id,
             list[l].id # NoName
      PROVE  FALSE
    <2>1. ~checkExisting(SubSeq(list, 1, l - 1), list[l])
        BY <1>5 DEF NoDuplicates
    <2>2. /\ k \in 1 .. l - 1 /\ l - 1 <= Len(list) /\ l - 1 \in Nat
        BY <1>1, <1>3, <1>8
    <2>3. k \in DOMAIN SubSeq(list, 1, l - 1) /\ SubSeq(list, 1, l - 1)[k] = list[k]
        BY <1>3, <2>2, SubSeqProperties
    <2>4. QED BY <1>8, <2>1, <2>3 DEF checkExisting, NoName
<1>9. QED BY <1>1, <1>4, <1>6, <1>7, <1>8

\* When the upload starts, the services are those of the property.
LEMMA ReadyFromInv ==
    ASSUME PhaseInv, ServicesTyped, ProjectInv, LoadedInv, IDsInv
    PROVE  ServicesAreReady
<1> SUFFICES ASSUME Deploys PROVE ServicesAreReady
    BY DEF ServicesAreReady
<1>1. pc \in Uploading \cup Ending /\ pc \in WithIDs /\ start \in Starts
    BY DEF Deploys, DoSteps, Uploading, Ending, WithIDs, PhaseInv
<1>2. /\ OnServer(host.project)
      /\ created # NoName => created = host.project /\ "create project" \in confirmed
    BY <1>1 DEF ProjectInv
<1>3. \A s \in ToSet(services) : s.project = host.project /\ s.id # NoName
    <2>1. \A i \in DOMAIN services : services[i].project = host.project
        BY <1>1 DEF LoadedInv
    <2>2. \A i \in DOMAIN services : services[i].id # NoName
        BY <1>1 DEF IDsInv
    <2>3. QED BY <2>1, <2>2 DEF ToSet
<1>4. ASSUME ~fromRepo
      PROVE  /\ services # <<>>
             /\ host.service # NoName => Len(services) = 1 /\ services[1].id = host.service
             /\ \E list \in Overview(start.dir) :
                   /\ OfDirectory(list)
                   /\ AgreedOn(list)
                   /\ \A i, j \in DOMAIN services :
                         i # j /\ services[i].id = services[j].id =>
                             NoName \in {list[i].id, list[j].id}
             /\ params.image => Cardinality({s.image : s \in ToSet(services)} \ {""}) < 2
    <2>1. PICK list \in Overview(start.dir) : OfDirectory(list) /\ AgreedOn(list)
        BY <1>1, <1>4 DEF LoadedInv, Loaded, WithIDs, Uploading, Ending
    <2>2. services # <<>>
        <3>1. list \in Seq(ServiceInfo)
            BY <1>1, OverviewIs
        <3>2. Len(services) # 0
            BY <2>1, <3>1, EmptySeq DEF OfDirectory
        <3>3. QED BY <3>2
    <2>3. host.service # NoName => Len(services) = 1 /\ services[1].id = host.service
        BY <1>1, <1>4 DEF IDsInv
    <2>4. ASSUME NEW i \in DOMAIN services, NEW j \in DOMAIN services, i # j,
                 services[i].id = services[j].id
          PROVE  NoName \in {list[i].id, list[j].id}
        <3>1. DOMAIN services = 1 .. Len(services) /\ Len(services) \in Nat
            BY DEF ServicesTyped
        <3>2. Len(services) # 1
            BY <2>4, <3>1
        <3>3. host.service = NoName
            BY <2>3, <3>2
        <3>4. QED BY <1>1, <2>1, <2>4, <3>3, SameIDs
    <2>5. ASSUME params.image
          PROVE  Cardinality({s.image : s \in ToSet(services)} \ {""}) < 2
        <3>1. SameImages
            BY <1>1, <1>4, <2>5 DEF IDsInv
        <3>2. DOMAIN services = 1 .. Len(services) /\ Len(services) \in Nat
            BY DEF ServicesTyped
        <3>3. \A i, j \in DOMAIN services :
                  services[i].image # "" /\ services[j].image # "" =>
                      services[i].image = services[j].image
            <4>1. \A i, j \in 1 .. Len(services) : i < j \/ j < i \/ i = j
                BY <3>2
            <4>2. QED BY <3>1, <3>2, <4>1 DEF SameImages
        <3>4. \A x, y \in {s.image : s \in ToSet(services)} \ {""} : x = y
            BY <3>3, ZenonT(60) DEF ToSet
        <3>5. QED BY <3>4, AtMostOne
    <2>6. QED BY <2>1, <2>2, <2>3, <2>4, <2>5
<1>5. QED BY <1>2, <1>3, <1>4 DEF ServicesAreReady

\* All that the upload starts from.
ServicesInv == PhaseInv /\ HostTyped /\ ServicesTyped /\ ProjectInv /\ LoadedInv /\ IDsInv

\* No service is loaded yet.
LEMMA ServicesInit ==
    ASSUME DeployInit
    PROVE  ServicesInv
<1>1. PhaseInv /\ HostTyped
    BY PhaseInit
<1>2. pc = "preRun" /\ services = <<>> /\ created = NoName
    BY DEF DeployInit, PrepareInit, Init
<1>3. ServicesTyped
    BY <1>2 DEF ServicesTyped
<1>4. QED
    BY <1>1, <1>2, <1>3 DEF ServicesInv, ProjectInv, LoadedInv, IDsInv, Loaded, Agreed, WithIDs,
       Uploading, Ending

\* The parts of ServicesInv need each other, and those before them.
LEMMA ServicesStep ==
    ASSUME ServicesInv, [DeployNext]_allVars
    PROVE  ServicesInv'
<1>1. PhaseInv' /\ HostTyped'
    BY PhaseStep DEF ServicesInv
<1>2. start \in Starts
    BY DEF ServicesInv, PhaseInv
<1>3. ServicesTyped'
    BY <1>2, TypedStep DEF ServicesInv
<1>4. ProjectInv' /\ LoadedInv' /\ IDsInv'
    BY ProjectStep, LoadedStep, IDsStep DEF ServicesInv
<1>5. QED BY <1>1, <1>3, <1>4 DEF ServicesInv

\* What is handed over to be deployed is the services that were read from the directory of the
\* command, in their order, with an ID, of the project that exists by then; the project was
\* created, and blank IDs of several services made up, after a yes only; and --service is the ID
\* of the only one (ServicesAreReady: RemoteDeployment.Run).
THEOREM ServicesCorrect == Spec => []ServicesAreReady
<1>1. DeployInit => ServicesInv
    BY ServicesInit
<1>2. ServicesInv /\ [DeployNext]_allVars => ServicesInv'
    BY ServicesStep
<1>3. ServicesInv => ServicesAreReady
    BY ReadyFromInv DEF ServicesInv
<1>4. QED BY <1>1, <1>2, <1>3, PTL DEF Spec

-----------------------------------------------------------------------------
(* The package. *)

\* The package of a service: its files, and LCP.json with what was decided on.
LcpOf(s)   == [in |-> s.location, name |-> "LCP.json"]
Written(s) == [service |-> s.location, in |-> s.location, name |-> "LCP.json",
               pkg |-> getPreparedServicePackage(s)]
FilesOf(s) == {f \in Below(s) : f.name \notin Junk /\ f \notin ProcessIgnored}
CopyOf(s)  == {Copy(s, f) : f \in FilesOf(s)}
PackageOf(s) == (CopyOf(s) \ {Copy(s, LcpOf(s))}) \cup {Written(s)}
Packages_(n) == UNION {PackageOf(services[i]) : i \in 1 .. n}
StagedOf(s)  == {c \in PackageOf(s) : experimental \/ ~IgnoresCopied(s, c.name)}
Whole        == UNION {StagedOf(services[i]) : i \in DOMAIN services}

\* The temporary directory has the packages of the services that were copied, and of the next
\* one its files; then they are staged, committed and pushed.
BeforeCopy == Asking \cup {"run"} \cup Preparing \cup {"deploy", "init", "ignored"}
CopiedInv ==
    /\ pushed # None => pc \in Ending \cup Over
    /\ pc \in BeforeCopy => copied = 0 /\ workDir = {}
    /\ pc \in {"copy", "overwrite"} => ignored = ProcessIgnored /\ copied \in 0 .. Len(services)
    /\ pc = "copy" => workDir = Packages_(copied)
    /\ pc = "overwrite" =>
           copied < Len(services) /\ workDir = Packages_(copied) \cup CopyOf(This)
    /\ pc = "commit" => index = Whole
    /\ pc \in {"copy package", "remote", "push"} => commit = Whole
    /\ PackageIsExact

\* The packages depend on the services and on where the command is run only.
LEMMA SamePackage ==
    ASSUME UNCHANGED <<start, services>>
    PROVE  /\ Whole' = Whole /\ ProcessIgnored' = ProcessIgnored
           /\ UNCHANGED <<experimental, params>>
           /\ UNCHANGED copied => UNCHANGED <<Packages_(copied), CopyOf(This)>>
           /\ copied' = copied + 1 => Packages_(copied)' = Packages_(copied + 1)
           /\ UNCHANGED pushed => (PackageIsExact' <=> PackageIsExact)
<1>1. ProcessIgnored' = ProcessIgnored /\ UNCHANGED <<experimental, params>>
    BY DEF ProcessIgnored, experimental, params, Files, Ignores
<1>2. Whole' = Whole
    BY DEF Whole, StagedOf, PackageOf, CopyOf, FilesOf, Written, LcpOf, Copy, ProcessIgnored, Below,
       InBase, Files, Ignores, IgnoresCopied, getPreparedServicePackage, ToLower, experimental,
       params
<1>3. ASSUME UNCHANGED copied
      PROVE  UNCHANGED <<Packages_(copied), CopyOf(This)>>
    BY <1>3 DEF Packages_, PackageOf, CopyOf, FilesOf, Written, LcpOf, Copy, ProcessIgnored, Below,
       InBase, Files, Ignores, getPreparedServicePackage, ToLower, experimental, params,
       This
<1>4. ASSUME copied' = copied + 1
      PROVE  Packages_(copied)' = Packages_(copied + 1)
    BY <1>4 DEF Packages_, PackageOf, CopyOf, FilesOf, Written, LcpOf, Copy, ProcessIgnored, Below,
       InBase, Files, Ignores, getPreparedServicePackage, ToLower, experimental, params
<1>5. ASSUME UNCHANGED pushed
      PROVE  PackageIsExact' <=> PackageIsExact
    BY <1>5 DEF PackageIsExact, Exact, LeftOut, Below, InBase, Files, Ignores, IgnoresCopied,
       ToLower, experimental, params
<1>6. QED BY <1>1, <1>2, <1>3, <1>4, <1>5

\* No two services are in one directory.
Apart == \A i, j \in DOMAIN services : services[i].location = services[j].location => i = j

\* Two services of the list are in two directories.
LEMMA ServicesAreApart ==
    ASSUME PhaseInv, ServicesTyped, LoadedInv, pc \in Uploading
    PROVE  Apart
<1>1. start \in Starts /\ pc \in WithIDs /\ pc \notin Ending
    BY DEF PhaseInv, WithIDs, Uploading, Ending
<1>2. PICK list \in Overview(start.dir) : OfDirectory(list)
    BY <1>1 DEF LoadedInv
<1>3. list \in Seq(ServiceInfo) /\ DOMAIN services = 1 .. Len(services)
    BY <1>1, OverviewIs DEF ServicesTyped
<1>4. CASE list = <<>>
    BY <1>2, <1>3, <1>4 DEF OfDirectory, Apart
<1>5. CASE list # <<>>
    <2>1. /\ DOMAIN list = DOMAIN services
          /\ \A i \in DOMAIN list : services[i].location = list[i].location
        BY <1>2, <1>3, <1>5 DEF OfDirectory
    <2>2. \A i, j \in DOMAIN list : list[i].location = list[j].location => i = j
        BY <1>1, OverviewIs
    <2>3. QED BY <2>1, <2>2 DEF Apart
<1>6. QED BY <1>4, <1>5

\* A file of a package says its service.
LEMMA OfItsService ==
    ASSUME NEW s, NEW c \in PackageOf(s) \cup CopyOf(s)
    PROVE  c.service = s.location
BY DEF PackageOf, CopyOf, Written, Copy

\* LCP.json as it is written.
LEMMA WrittenIs ==
    ASSUME NEW s
    PROVE  [Copy(s, LcpOf(s)) EXCEPT !.pkg = getPreparedServicePackage(s)] = Written(s)
BY DEF Copy, LcpOf, Written

\* The packages of n services and that of the next.
LEMMA OnePackageMore ==
    ASSUME NEW n \in Nat
    PROVE  Packages_(n + 1) = Packages_(n) \cup PackageOf(services[n + 1])
<1>1. 1 .. n + 1 = (1 .. n) \cup {n + 1}
    OBVIOUS
<1>2. QED BY <1>1 DEF Packages_

\* LCP.json is written over the copy of the same service, and of no other.
LEMMA OverwriteStep ==
    ASSUME Apart, NEW n \in Nat, DOMAIN services = 1 .. Len(services), Len(services) \in Nat,
           n < Len(services), NEW s, s = services[n + 1],
           workDir = Packages_(n) \cup CopyOf(s)
    PROVE  (workDir \ {Copy(s, LcpOf(s))}) \cup {Written(s)} = Packages_(n + 1)
<1>1. ASSUME NEW c \in Packages_(n)
      PROVE  c # Copy(s, LcpOf(s))
    <2>1. PICK i \in 1 .. n : c \in PackageOf(services[i])
        BY DEF Packages_
    <2>2. c.service = services[i].location
        BY <2>1, OfItsService
    <2>3. i \in DOMAIN services /\ n + 1 \in DOMAIN services /\ i # n + 1
        BY <2>1
    <2>4. services[i].location # s.location
        BY <2>3 DEF Apart
    <2>5. Copy(s, LcpOf(s)).service = s.location
        BY DEF Copy
    <2>6. QED BY <2>2, <2>4, <2>5
<1>2. workDir \ {Copy(s, LcpOf(s))} = Packages_(n) \cup (CopyOf(s) \ {Copy(s, LcpOf(s))})
    BY <1>1
<1>3. QED BY <1>2, OnePackageMore DEF PackageOf

\* What is staged is the packages, but for what a .gitignore of theirs leaves out.
LEMMA StagedIs ==
    ASSUME Apart, DOMAIN services = 1 .. Len(services), Len(services) \in Nat,
           workDir = Packages_(Len(services))
    PROVE  UNION {stageService(services[i]) : i \in DOMAIN services} = Whole
<1>1. ASSUME NEW i \in DOMAIN services
      PROVE  stageService(services[i]) = StagedOf(services[i])
    <2>1. ASSUME NEW c \in workDir, c.service = services[i].location
          PROVE  c \in PackageOf(services[i])
        <3>1. PICK j \in DOMAIN services : c \in PackageOf(services[j])
            BY DEF Packages_
        <3>2. i = j
            BY <2>1, <3>1, OfItsService DEF Apart
        <3>3. QED BY <3>1, <3>2
    <2>2. ASSUME NEW c \in PackageOf(services[i])
          PROVE  c \in workDir /\ c.service = services[i].location
        BY OfItsService DEF Packages_
    <2>3. QED BY <2>1, <2>2 DEF stageService, StagedOf
<1>2. QED BY <1>1 DEF Whole

\* A file is its directory and its name.
LEMMA FilesAreRecords ==
    ASSUME start \in Starts, NEW f \in Files
    PROVE  f = [in |-> f.in, name |-> f.name]
<1>1. \A g \in start.files : g = [in |-> g.in, name |-> g.name]
    BY StartsAssumption
<1>2. QED BY <1>1 DEF Files

\* A file that is copied and staged is one that no .gitignore leaves out.
LEMMA StagedOrLeftOut ==
    ASSUME NEW s, NEW f \in Files
    PROVE  f \notin ProcessIgnored /\ (experimental \/ ~IgnoresCopied(s, f.name)) <=>
               ~LeftOut(s, f)
<1>1. IgnoresCopied(s, f.name) => Ignores(f)
    BY DEF IgnoresCopied, Ignores
<1>2. f \in ProcessIgnored <=> ~experimental /\ Ignores(f) /\ f.name \notin Quoted
    BY DEF ProcessIgnored
<1>3. QED BY <1>1, <1>2 DEF LeftOut

\* A commit that has all the packages has of each service what it should.
LEMMA WholeIsExact ==
    ASSUME start \in Starts, Apart, NEW p, p.commit = Whole, NEW i \in DOMAIN services,
           NEW s, s = services[i]
    PROVE  Exact(p, s)
<1> DEFINE Of(c) == c.service = s.location
           lcp   == {c \in p.commit : Of(c) /\ c.in = s.location /\ c.name = "LCP.json"}
           rest  == {f \in Below(s) : /\ f.name \notin Junk /\ ~LeftOut(s, f)
                                      /\ f # [in |-> s.location, name |-> "LCP.json"]}
<1>1. {c.service : c \in p.commit} \subseteq {v.location : v \in ToSet(services)}
    <2>1. ASSUME NEW c \in Whole
          PROVE  \E v \in ToSet(services) : c.service = v.location
        <3>1. PICK j \in DOMAIN services : c \in StagedOf(services[j])
            BY DEF Whole
        <3>2. c.service = services[j].location
            BY <3>1, OfItsService DEF StagedOf
        <3>3. QED BY <3>2 DEF ToSet
    <2>2. QED BY <2>1
<1>2. {c \in p.commit : Of(c)} = StagedOf(s)
    <2>1. ASSUME NEW c \in Whole, Of(c)
          PROVE  c \in StagedOf(s)
        <3>1. PICK j \in DOMAIN services : c \in StagedOf(services[j])
            BY DEF Whole
        <3>2. c.service = services[j].location
            BY <3>1, OfItsService DEF StagedOf
        <3>3. i = j
            BY <2>1, <3>2 DEF Apart
        <3>4. QED BY <3>1, <3>3
    <2>2. ASSUME NEW c \in StagedOf(s)
          PROVE  c \in Whole /\ Of(c)
        BY OfItsService DEF Whole, StagedOf
    <2>3. QED BY <2>1, <2>2
<1>3. \A c \in lcp : c = Written(s)
    <2>1. ASSUME NEW c \in StagedOf(s), c.in = s.location, c.name = "LCP.json", c # Written(s)
          PROVE  FALSE
        <3>1. c \in CopyOf(s) /\ c # Copy(s, LcpOf(s))
            BY <2>1 DEF StagedOf, PackageOf
        <3>2. PICK f \in FilesOf(s) : c = Copy(s, f)
            BY <3>1 DEF CopyOf
        <3>3. f \in Files /\ f.in = c.in /\ f.name = c.name
            BY <3>2 DEF FilesOf, Below, Copy
        <3>4. f = LcpOf(s)
            BY <2>1, <3>3, FilesAreRecords DEF LcpOf
        <3>5. QED BY <3>1, <3>2, <3>4
    <2>2. QED BY <1>2, <2>1
<1>4. Written(s) \in StagedOf(s) <=> experimental \/ ~IgnoresCopied(s, "LCP.json")
    BY DEF StagedOf, PackageOf, Written
<1>5. lcp = {} => IgnoresCopied(s, "LCP.json") /\ ~experimental
    <2>1. Written(s).in = s.location /\ Written(s).name = "LCP.json"
        BY DEF Written
    <2>2. Written(s) \in StagedOf(s) => Written(s) \in lcp
        BY <1>2, <2>1
    <2>3. QED BY <1>4, <2>2
<1>6. \A c \in lcp : /\ c.pkg # <<>>
                     /\ c.pkg[1].id = ToLower(s.id)
                     /\ c.pkg[1].project = NoName
                     /\ params.image => c.pkg[1].image = "imposed"
    <2>1. Written(s).pkg = getPreparedServicePackage(s)
        BY DEF Written
    <2>2. /\ getPreparedServicePackage(s) # <<>>
          /\ getPreparedServicePackage(s)[1].id = ToLower(s.id)
          /\ getPreparedServicePackage(s)[1].project = NoName
          /\ params.image => getPreparedServicePackage(s)[1].image = "imposed"
        BY DEF getPreparedServicePackage
    <2>3. QED BY <1>3, <2>1, <2>2
<1>7. Cardinality(lcp) < 2
    BY <1>3, AtMostOne
<1>8. {[in |-> c.in, name |-> c.name] : c \in StagedOf(s) \ lcp} = rest
    <2>1. ASSUME NEW c \in StagedOf(s), c \notin lcp
          PROVE  [in |-> c.in, name |-> c.name] \in rest
        <3>1. c # Written(s)
            BY <1>2, <2>1 DEF Written
        <3>2. PICK f \in FilesOf(s) : c = Copy(s, f)
            BY <2>1, <3>1 DEF StagedOf, PackageOf, CopyOf
        <3>3. f \in Below(s) /\ f \in Files /\ f.in = c.in /\ f.name = c.name
            BY <3>2 DEF FilesOf, Below, Copy
        <3>4. f = [in |-> c.in, name |-> c.name]
            BY <3>3, FilesAreRecords
        <3>5. f.name \notin Junk /\ ~LeftOut(s, f)
            BY <2>1, <3>2, <3>3, StagedOrLeftOut DEF FilesOf, StagedOf
        <3>6. f # [in |-> s.location, name |-> "LCP.json"]
            BY <1>2, <2>1, <3>3, OfItsService DEF StagedOf
        <3>7. QED BY <3>3, <3>4, <3>5, <3>6
    <2>2. ASSUME NEW f \in rest
          PROVE  \E c \in StagedOf(s) \ lcp : f = [in |-> c.in, name |-> c.name]
        <3>1. f \in Files /\ f = [in |-> f.in, name |-> f.name]
            BY FilesAreRecords DEF Below
        <3>2. f \in FilesOf(s) /\ (experimental \/ ~IgnoresCopied(s, f.name))
            BY <3>1, StagedOrLeftOut DEF FilesOf
        <3>3. Copy(s, f).in = f.in /\ Copy(s, f).name = f.name
            BY DEF Copy
        <3>4. Copy(s, f) # Copy(s, LcpOf(s)) /\ ~(f.in = s.location /\ f.name = "LCP.json")
            BY <3>1 DEF Copy, LcpOf
        <3>5. Copy(s, f) \in StagedOf(s)
            BY <3>2, <3>3, <3>4 DEF StagedOf, PackageOf, CopyOf
        <3>6. Copy(s, f) \notin lcp
            BY <3>3, <3>4
        <3>7. QED BY <3>1, <3>3, <3>5, <3>6
    <2>3. QED BY <2>1, <2>2
<1>9. QED BY <1>1, <1>2, <1>5, <1>6, <1>7, <1>8 DEF Exact

\* Before the push there is nothing to be said.
LEMMA NothingIsExact ==
    ASSUME pushed = None
    PROVE  PackageIsExact
BY DEF None, PackageIsExact

\* What the server gets is what was committed.
LEMMA ReceivedCommit ==
    ASSUME NEW p \in Received
    PROVE  p.commit = commit
BY DEF Received

\* What is exact is so after a step that changes no service.
LEMMA SameReceived ==
    ASSUME UNCHANGED <<start, services>>, pushed' = Received,
           \A p \in Received : \A s \in ToSet(services) : Exact(p, s)
    PROVE  PackageIsExact'
<1>1. ASSUME NEW p \in pushed', NEW s \in ToSet(services')
      PROVE  Exact(p, s)'
    <2>1. Exact(p, s)
        BY <1>1 DEF ToSet
    <2>2. UNCHANGED <<experimental, params, Files, ToSet(services)>>
        BY DEF Files, experimental, params
    <2>3. UNCHANGED <<Below(s), ToLower(s.id)>> /\ \A name : UNCHANGED IgnoresCopied(s, name)
        BY <2>2 DEF Below, InBase, ToLower, IgnoresCopied
    <2>4. \A f : LeftOut(s, f)' <=> LeftOut(s, f)
        BY <2>2 DEF LeftOut, Ignores, IgnoresCopied, InBase
    <2>5. QED BY <2>1, <2>2, <2>3, <2>4 DEF Exact
<1>2. QED BY <1>1 DEF PackageIsExact

\* Each step of the upload adds what the invariant says, and the others leave it alone.
LEMMA CopiedStep ==
    ASSUME HostTyped, PhaseInv, ServicesTyped, LoadedInv, CopiedInv, [DeployNext]_allVars
    PROVE  CopiedInv'
<1> DEFINE here == UNCHANGED <<start, services>>
<1>1. start \in Starts /\ DOMAIN services = 1 .. Len(services) /\ Len(services) \in Nat
    BY DEF PhaseInv, ServicesTyped
<1>2. ASSUME pc \in BeforeCopy, pc' \in BeforeCopy \cup Over, UNCHANGED package
      PROVE  CopiedInv'
    <2>1. pushed' = None /\ copied' = 0 /\ workDir' = {}
        BY <1>2
        DEF CopiedInv, package, BeforeCopy, Asking, Preparing, Ending, Over
    <2>2. PackageIsExact'
        BY <2>1 DEF None, PackageIsExact
    <2>3. QED
        BY <1>2, <2>1, <2>2 DEF CopiedInv, BeforeCopy, Asking, Preparing, Over
<1>3. CASE ProcessStep /\ UNCHANGED <<prepared, package>>
    BY <1>2, <1>3, ProcessMoves DEF BeforeCopy
<1>4. CASE PrepareStep /\ UNCHANGED package
    BY <1>2, <1>4, PrepareMoves DEF BeforeCopy, Asking, Preparing, Over
<1>5. CASE Setup_ \/ RepoInit
    BY <1>2, <1>5 DEF Setup_, RepoInit, Pass, BeforeCopy
<1>6. CASE SetIgnored
    <2>1. /\ here /\ pc = "ignored" /\ pc' = "copy" /\ ignored' = ProcessIgnored
          /\ UNCHANGED <<workDir, copied, pushed>>
        BY <1>6 DEF SetIgnored, Pass, Keep, quiet, prepared
    <2>2. copied = 0 /\ workDir = {} /\ pushed = None
        BY <2>1 DEF CopiedInv, BeforeCopy, Ending, Over
    <2>3. workDir' = Packages_(0)' /\ PackageIsExact'
        BY <2>1, <2>2 DEF Packages_, None, PackageIsExact
    <2>4. QED
        BY <1>1, <2>1, <2>2, <2>3, SamePackage
        DEF CopiedInv, BeforeCopy, Asking, Preparing
<1>7. CASE copyServiceFiles
    <2>1. /\ here /\ pc = "copy" /\ pc' = "overwrite"
          /\ copied < Len(services) /\ UNCHANGED <<ignored, copied, pushed>>
          /\ workDir' = workDir \cup {Copy(This, f) : f \in walkFn}
        BY <1>7 DEF copyServiceFiles, Pass, Keep, quiet, prepared
    <2>2. /\ ignored = ProcessIgnored /\ copied \in 0 .. Len(services)
          /\ workDir = Packages_(copied) /\ pushed = None
        BY <2>1 DEF CopiedInv, Ending, Over
    <2>3. {Copy(This, f) : f \in walkFn} = CopyOf(This)
        BY <2>2 DEF walkFn, Skips, CopyOf, FilesOf
    <2>4. workDir' = Packages_(copied)' \cup CopyOf(This)' /\ PackageIsExact'
        BY <2>1, <2>2, <2>3, SamePackage, NothingIsExact
    <2>5. /\ ignored' = ProcessIgnored'
          /\ copied' < Len(services') /\ copied' \in 0 .. Len(services')
        BY <2>1, <2>2, SamePackage
    <2>6. QED
        BY <2>1, <2>2, <2>4, <2>5 DEF CopiedInv, BeforeCopy, Asking, Preparing
<1>8. CASE prepareAndModifyServicePackage
    <2>1. /\ here /\ pc = "overwrite" /\ pc' = "copy" /\ copied' = copied + 1
          /\ UNCHANGED <<ignored, pushed>>
          /\ workDir' = (workDir \ {Copy(This, LcpOf(This))}) \cup
                        {[Copy(This, LcpOf(This)) EXCEPT !.pkg = getPreparedServicePackage(This)]}
        BY <1>8 DEF prepareAndModifyServicePackage, Pass, Keep, quiet, prepared, LcpOf
    <2>2. /\ ignored = ProcessIgnored /\ copied \in 0 .. Len(services) /\ copied < Len(services)
          /\ workDir = Packages_(copied) \cup CopyOf(This) /\ pushed = None
        BY <2>1 DEF CopiedInv, Ending, Over
    <2>3. workDir' = Packages_(copied + 1)
        <3>1. Apart
            BY <2>1, ServicesAreApart DEF Uploading
        <3>2. workDir' = (workDir \ {Copy(This, LcpOf(This))}) \cup {Written(This)}
            BY <2>1, WrittenIs
        <3>3. This = services[copied + 1] /\ copied \in Nat
            BY <2>2 DEF This
        <3>4. QED BY <1>1, <2>2, <3>1, <3>2, <3>3, OverwriteStep
    <2>4. copied' \in 0 .. Len(services') /\ ignored' = ProcessIgnored'
        BY <1>1, <2>1, <2>2, SamePackage
    <2>5. workDir' = Packages_(copied)' /\ PackageIsExact'
        BY <2>1, <2>2, <2>3, SamePackage, NothingIsExact
    <2>6. QED
        BY <2>1, <2>2, <2>4, <2>5 DEF CopiedInv, BeforeCopy, Asking, Preparing
<1>9. CASE Stage
    <2>1. /\ here /\ pc = "copy" /\ pc' = "commit" /\ copied = Len(services)
          /\ index' = UNION {stageService(services[i]) : i \in DOMAIN services}
          /\ UNCHANGED pushed
        BY <1>9 DEF Stage, Pass, Keep, quiet, prepared
    <2>2. workDir = Packages_(Len(services)) /\ pushed = None
        BY <2>1 DEF CopiedInv, Ending, Over
    <2>3. index' = Whole
        BY <1>1, <2>1, <2>2, StagedIs, ServicesAreApart DEF Uploading
    <2>4. index' = Whole' /\ PackageIsExact'
        BY <2>1, <2>2, <2>3, SamePackage, NothingIsExact
    <2>5. QED
        BY <2>1, <2>2, <2>4 DEF CopiedInv, BeforeCopy, Asking, Preparing
<1>10. CASE Commit
    <2>1. /\ here /\ pc = "commit" /\ pc' \in {"remote", "copy package"} /\ commit' = index
          /\ UNCHANGED pushed
        BY <1>10 DEF Commit, Pass, Keep, quiet, prepared
    <2>2. commit' = Whole /\ pushed = None
        BY <2>1 DEF CopiedInv, Ending, Over
    <2>3. commit' = Whole' /\ PackageIsExact'
        BY <2>1, <2>2, SamePackage, NothingIsExact
    <2>4. QED
        BY <2>1, <2>2, <2>3 DEF CopiedInv, BeforeCopy, Asking, Preparing
<1>11. CASE copyGitPackage \/ AddRemote
    <2>1. /\ here /\ pc \in {"copy package", "remote"} /\ pc' \in {"remote", "push"}
          /\ UNCHANGED <<pushed, commit>>
        BY <1>11 DEF copyGitPackage, AddRemote, Pass, Keep, quiet, prepared, package
    <2>2. commit' = Whole /\ pushed = None
        BY <2>1 DEF CopiedInv, Ending, Over
    <2>3. commit' = Whole' /\ PackageIsExact'
        BY <2>1, <2>2, SamePackage, NothingIsExact
    <2>4. QED
        BY <2>1, <2>2, <2>3 DEF CopiedInv, BeforeCopy, Asking, Preparing
<1>12. ASSUME pc' \in Ending \cup Over, PackageIsExact'
       PROVE  CopiedInv'
    BY <1>12 DEF CopiedInv, BeforeCopy, Asking, Preparing, Ending, Over
<1>13. CASE Push \/ PushFails
    <2>1. here /\ pc = "push" /\ pc' \in Ending \cup Over /\ pushed' \in {None, Received}
        BY <1>13 DEF Push, PushFails, Pass, Keep, quiet, prepared, Ending, Over
    <2>2. commit = Whole
        BY <2>1 DEF CopiedInv
    <2>3. Apart
        BY <2>1, ServicesAreApart DEF Uploading
    <2>4. ASSUME NEW p \in Received, NEW s \in ToSet(services)
          PROVE  Exact(p, s)
        <3>1. p.commit = Whole
            BY <2>2, ReceivedCommit
        <3>2. \E i \in DOMAIN services : s = services[i]
            BY DEF ToSet
        <3>3. QED BY <1>1, <2>3, <3>1, <3>2, WholeIsExact
    <2>5. PackageIsExact'
        <3>1. CASE pushed' = None
            BY <3>1 DEF None, PackageIsExact
        <3>2. CASE pushed' = Received
            BY <2>1, <2>4, <3>2, SameReceived
        <3>3. QED BY <2>1, <3>1, <3>2
    <2>6. QED BY <1>12, <2>1, <2>5
<1>14. CASE \E step \in DoSteps : StepFails(step)
    <2>1. here /\ pc' = "failed" /\ UNCHANGED pushed
        BY <1>14 DEF StepFails, Pass, Keep, quiet, prepared
    <2>2. QED BY <1>12, <2>1, SamePackage DEF CopiedInv, Over
<1>15. CASE Wait \/ followLogs
    <2>1. here /\ pc' \in Ending \cup Over /\ UNCHANGED pushed
        BY <1>15 DEF Wait, followLogs, Pass, Keep, quiet, prepared, package, Ending, Over
    <2>2. QED BY <1>12, <2>1, SamePackage DEF CopiedInv
<1>16. CASE DeployFromGitRepository
    <2>1. pc = "load services" /\ pc' \in Ending \cup Over /\ UNCHANGED pushed
        BY <1>16 DEF DeployFromGitRepository, Fails, package, Ending, Over
    <2>2. pushed' = None
        BY <2>1 DEF CopiedInv, Ending, Over
    <2>3. QED BY <1>12, <2>1, <2>2 DEF None, PackageIsExact
<1>17. CASE UNCHANGED allVars
    <2>1. here /\ UNCHANGED <<pc, ignored, workDir, copied, index, commit, pushed>>
        BY <1>17 DEF allVars, vars, quiet, prepared, package
    <2>2. QED BY <2>1, SamePackage DEF CopiedInv
<1>18. QED
    BY <1>3, <1>4, <1>5, <1>6, <1>7, <1>8, <1>9, <1>10, <1>11, <1>13, <1>14, <1>15, <1>16, <1>17,
       NextCases DEF DeployStep

\* Nothing is copied yet.
LEMMA CopiedInit ==
    ASSUME DeployInit
    PROVE  CopiedInv
<1>1. pc = "preRun" /\ pushed = None /\ copied = 0 /\ workDir = {}
    BY DEF DeployInit, PrepareInit, Init
<1>2. QED BY <1>1, NothingIsExact DEF CopiedInv

\* The package that the server gets has exactly the files of the services, and an LCP.json of
\* each with what was decided on, for any files, junk, .gitignore and flags (PackageIsExact:
\* Deploy.Do up to its push).
THEOREM PackageCorrect == Spec => []PackageIsExact
<1>1. DeployInit => ServicesInv /\ CopiedInv
    BY ServicesInit, CopiedInit
<1>2. ServicesInv /\ CopiedInv /\ [DeployNext]_allVars => ServicesInv' /\ CopiedInv'
    BY ServicesStep, CopiedStep DEF ServicesInv
<1>3. CopiedInv => PackageIsExact
    BY DEF CopiedInv
<1>4. QED BY <1>1, <1>2, <1>3, PTL DEF Spec

-----------------------------------------------------------------------------
(* The answers. *)

\* A project on the server: it and its services have names.
Title == Seq(STRING) \ {NoName}
Listing == [id : Title, services : Seq(Title)]

\* The services of the projects that are shown, and the rows that may be numbered.
AllServices == UNION {ToSet(Services(shown[i])) : i \in DOMAIN shown}
RowSet == IF asked = "project" THEN {Selection(shown[i].id, NoName) : i \in DOMAIN shown}
                               ELSE AllServices

\* What an answer is to name, as AnswerNamesTheTarget has it.
Means(typed, picked) ==
    /\ typed.num \in DOMAIN selectors =>
           selectors[typed.num] = picked /\ (asked = "project" \/ picked.service # NoName)
    /\ typed.num = NotANumber => typed.name \in {picked.project, picked.service}
    /\ typed.num = NotANumber /\ typed.name = picked.service =>
           \A s \in ServicesNamed(picked.service) : s = picked
    /\ ~Has("create") => \E p \in ToSet(shown) :
           p.id = picked.project /\ picked.service \in ToSet(p.services) \cup {NoName}

\* What FlattenSeq makes of the first n sequences.
IsFlat(f, seqs, n) == f = [i \in 1 .. n |-> IF i = 1 THEN seqs[i] ELSE f[i - 1] \o seqs[i]]

\* The function exists: the least length without one can be neither zero nor the next of another.
LEMMA FlatExists ==
    ASSUME NEW seqs, NEW n \in Nat
    PROVE  \E f : IsFlat(f, seqs, n)
<1> DEFINE T == {m \in Nat : ~\E f : IsFlat(f, seqs, m)}
<1> SUFFICES ASSUME T # {} PROVE FALSE
    OBVIOUS
<1>1. PICK m \in T : \A j \in T : ~(j < m)
    <2> HIDE DEF T
    <2>1. T \in SUBSET Nat
        BY DEF T
    <2>2. QED BY <2>1, LeastNatural
<1>2. CASE m = 0
    <2>1. IsFlat([i \in 1 .. 0 |-> <<>>], seqs, 0)
        BY DEF IsFlat
    <2>2. QED BY <1>2, <2>1
<1>3. CASE m # 0
    <2>1. m - 1 \in Nat /\ m \in Nat /\ m - 1 < m
        BY <1>3
    <2>2. PICK f : IsFlat(f, seqs, m - 1)
        BY <1>1, <2>1
    <2> DEFINE Next_(g, i) == IF i = 1 THEN seqs[i] ELSE g[i - 1] \o seqs[i]
    <2> DEFINE h == [i \in 1 .. m |-> IF i < m THEN f[i] ELSE Next_(f, m)]
    <2>3. \A i \in 1 .. m - 1 : f[i] = Next_(f, i)
        BY <2>2 DEF IsFlat
    <2>4. ASSUME NEW i \in 1 .. m PROVE h[i] = Next_(h, i)
        <3>1. h[i] = Next_(f, i)
            BY <2>1, <2>3
        <3>2. i # 1 => h[i - 1] = f[i - 1]
            BY <2>1
        <3> HIDE DEF h
        <3>3. QED BY <3>1, <3>2
    <2>5. h = [i \in 1 .. m |-> h[i]]
        OBVIOUS
    <2> HIDE DEF h
    <2>6. IsFlat(h, seqs, m)
        BY <2>4, <2>5 DEF IsFlat
    <2>7. QED BY <1>1, <2>6
<1>4. QED BY <1>2, <1>3

\* Sequences over a set make a sequence over it.
LEMMA FlattenedIsSeq ==
    ASSUME NEW S, NEW seqs \in Seq(Seq(S))
    PROVE  FlattenSeq(seqs) \in Seq(S)
<1> DEFINE n == Len(seqs)
<1>1. n \in Nat /\ \A i \in 1 .. n : seqs[i] \in Seq(S)
    OBVIOUS
<1>2. CASE n = 0
    BY <1>2 DEF FlattenSeq
<1>3. CASE n # 0
    <2> DEFINE f == CHOOSE g : IsFlat(g, seqs, n)
    <2>1. IsFlat(f, seqs, n)
        BY <1>1, FlatExists
    <2>2. FlattenSeq(seqs) = f[n]
        BY <1>3 DEF FlattenSeq, IsFlat
    <2> HIDE DEF f
    <2>3. \A i \in 1 .. n : f[i] = IF i = 1 THEN seqs[i] ELSE f[i - 1] \o seqs[i]
        BY <2>1 DEF IsFlat
    <2> DEFINE T == {i \in 1 .. n : f[i] \notin Seq(S)}
    <2>4. T = {}
        <3> SUFFICES ASSUME T # {} PROVE FALSE
            OBVIOUS
        <3>1. PICK m \in T : \A j \in T : ~(j < m)
            <4>1. T \in SUBSET Nat
                OBVIOUS
            <4> HIDE DEF T
            <4>2. QED BY <4>1, LeastNatural
        <3>2. m # 1
            BY <1>1, <2>3
        <3>3. m - 1 \in 1 .. n /\ m - 1 < m /\ m \in 1 .. n
            BY <1>1, <3>2
        <3>4. f[m - 1] \in Seq(S)
            BY <3>1, <3>3
        <3>5. f[m] = f[m - 1] \o seqs[m]
            BY <2>3, <3>2, <3>3
        <3>6. f[m] \in Seq(S)
            BY <1>1, <3>3, <3>4, <3>5, ConcatProperties
        <3>7. QED BY <3>1, <3>6
    <2>5. n \in 1 .. n
        BY <1>1, <1>3
    <2>6. QED BY <2>2, <2>4, <2>5
<1>4. QED BY <1>2, <1>3

\* The sequence of a set is one over it.
LEMMA SetToSeqIs ==
    ASSUME NEW S, IsFiniteSet(S)
    PROVE  SetToSeq(S) \in Seq(S)
<1>1. Cardinality(S) \in Nat /\ ExistsBijection(1 .. Cardinality(S), S)
    BY FS_CardinalityType
<1>2. PICK f : f \in Bijection(1 .. Cardinality(S), S)
    BY <1>1 DEF ExistsBijection
<1>3. f \in [1 .. Cardinality(S) -> S] /\ IsInjective(f)
    BY <1>2 DEF Bijection, Injection, IsInjective
<1>4. SetToSeq(S) \in [1 .. Cardinality(S) -> S]
    BY <1>3 DEF SetToSeq
<1>5. QED BY <1>1, <1>4

\* Where nothing was asked yet, and where there is a list, and an answer.
Unasked == {"preRun", "parse", "load", "instance", "missing", "login first", "ask"}
Answered == {"missing instance", "instance prompt", "check", "login", "run"}

\* What is on the screen is of the project that was named; only a service that was not named is
\* asked for.
RowsInv ==
    /\ asked \in {"project", "service", "either"}
    /\ IF asked = "project" THEN host.project = NoName ELSE host.service = NoName
    /\ shown \in Seq(Listing)
    /\ host.project # NoName => \A i \in DOMAIN shown : shown[i].id = host.project
    /\ selectors \in Seq(RowSet)

\* The instances that are shown are of the target.
InstancesOf(list) ==
    /\ list # <<>> => "instance" \in setup.prompts
    /\ \A i \in ToSet(list) : /\ host.project # NoName => i.project = host.project
                              /\ host.service # NoName => i.service = host.service

\* What was picked.
Chosen == Selection(host.project, IF asked = "project" THEN NoName ELSE host.service)

\* Before the list: only deploy lets a service be named without its project, and something is
\* missing when the list is asked for.
UnaskedInv == pc \in Unasked =>
    /\ asked = "nothing" /\ instances = <<>>
    /\ pc \notin {"preRun", "parse"} /\ host.service # NoName /\ host.project = NoName =>
           Has("allow missing")
    /\ pc \in {"login first", "ask"} => Missing

\* At the prompt; the answer that is asked again is the name of a project and of a service.
PromptInv == pc \in {"prompt", "dedup"} =>
    /\ RowsInv /\ instances = <<>>
    /\ pc = "dedup" =>
           /\ asked = "either" /\ answer \in Typed
           /\ ProjectsNamed(answer.name) # {} /\ ~(Cardinality(ServicesNamed(answer.name)) > 1)

\* After it.
AnsweredInv == pc \in Answered =>
    /\ InstancesOf(instances)
    /\ pc = "missing instance" => instances = <<>>
    /\ asked # "nothing" => Means(answer, Chosen)
    /\ pc \in {"login", "run"} => \A field \in {"project", "service"} :
                                     Requires(field) => host[field] # NoName

AskInv == cloud \in Clouds /\ UnaskedInv /\ PromptInv /\ AnsweredInv

\* The set ups of the commands.
SetUps == {deploy, delete, restart, scale, open, domain, domainShow, domainAdd, domainRemove,
           envVar, envVarShow, envVarSet, envVarUnset, exec, shell, log, activities, listAll,
           listProjects, listServices, listInstances, new, newProject, newService, login, logout,
           inspectToken, console}

\* One of them; TLC has looked at them all.
LEMMA SetUpIs ==
    ASSUME start \in Starts
    PROVE  setup \in SetUps
<1>1. start.cmd \in DOMAIN Commands
    BY StartsAssumption
<1>2. \A c \in DOMAIN Commands : Commands[c] \in SetUps
    BY DEF Commands, SetUps
<1>3. QED BY <1>1, <1>2 DEF setup

\* Only deploy allows a service without its project; a question about a project is asked by
\* commands that ask for no service; one about an instance, by those that need its service.
LEMMA TableIs ==
    ASSUME start \in Starts
    PROVE  /\ Has("allow missing") => Question = "project"
           /\ Question = "project" => "service" \notin setup.prompts
           /\ "instance" \in setup.prompts => Requires("project") /\ Requires("service")
           /\ Question \in {"project", "service", "either"}
<1> DEFINE asks(s) == "service" \notin s.pattern \/ "hide services" \in s.options
           needs(s) == "service" \in s.requires
<1>1. \A s \in SetUps :
          /\ "allow missing" \in s.options => asks(s)
          /\ "service" \in s.prompts => ~asks(s) /\ needs(s)
          /\ "instance" \in s.prompts => "project" \in s.requires /\ needs(s)
    <2> DEFINE P(s) == /\ "allow missing" \in s.options => asks(s)
                       /\ "service" \in s.prompts => ~asks(s) /\ needs(s)
                       /\ "instance" \in s.prompts => "project" \in s.requires /\ needs(s)
    <2>1. P(deploy) /\ P(delete) /\ P(restart) /\ P(scale) /\ P(open)
        BY DEF deploy, delete, restart, scale, open, Setup, RemotePattern, ProjectAndRemotePattern,
           FullHostPattern, NeedsAuth, NeedsProject, NeedsService
    <2>2. /\ P(domain) /\ P(domainShow) /\ P(domainAdd) /\ P(domainRemove)
          /\ P(envVar) /\ P(envVarShow) /\ P(envVarSet) /\ P(envVarUnset)
        BY DEF domain, domainShow, domainAdd, domainRemove, envVar, envVarShow, envVarSet,
           envVarUnset, Setup, RemotePattern, ProjectAndRemotePattern, FullHostPattern,
           NeedsAuth, NeedsProject, NeedsService
    <2>3. P(exec) /\ P(shell) /\ P(log) /\ P(activities)
        BY DEF exec, shell, log, activities, Setup, RemotePattern, ProjectAndRemotePattern,
           FullHostPattern, NeedsAuth, NeedsProject, NeedsService
    <2>4. /\ P(listAll) /\ P(listProjects) /\ P(listServices) /\ P(listInstances)
          /\ P(new) /\ P(newProject) /\ P(newService)
        BY DEF listAll, listProjects, listServices, listInstances, new, newProject, newService,
           Setup, RemotePattern, ProjectAndRemotePattern, FullHostPattern,
           NeedsAuth, NeedsProject, NeedsService
    <2>5. P(login) /\ P(logout) /\ P(inspectToken) /\ P(console)
        BY DEF login, logout, inspectToken, console, Setup, RemotePattern, ProjectAndRemotePattern,
           FullHostPattern, NeedsAuth, NeedsProject, NeedsService
    <2> HIDE DEF P
    <2>6. \A s \in SetUps : P(s)
        BY <2>1, <2>2, <2>3, <2>4, <2>5, Zenon DEF SetUps
    <2>7. QED BY <2>6 DEF P
<1>2. setup \in SetUps
    BY SetUpIs
<1>3. QED BY <1>1, <1>2 DEF Question, Has, Requires

\* The services of a project are a sequence of names.
LEMMA ServicesAreSeq ==
    ASSUME NEW r \in Listing
    PROVE  r.services \in Seq(Title) /\ Len(r.services) \in Nat
BY DEF Listing

\* The services that are shown are finitely many.
LEMMA ServicesAreFinite ==
    ASSUME RowsInv, NEW name
    PROVE  IsFiniteSet(ServicesNamed(name))
<1>1. ASSUME NEW n \in Nat, NEW f, DOMAIN f = 1 .. n
      PROVE  IsFiniteSet({f[i] : i \in 1 .. n})
    <2> DEFINE g == [i \in 1 .. n |-> f[i]]
               T == {f[i] : i \in 1 .. n}
    <2>1. g \in Surjection(1 .. n, T)
        BY DEF Surjection
    <2>2. IsFiniteSet(1 .. n)
        BY FS_Interval
    <2> HIDE DEF g, T
    <2>3. IsFiniteSet(T)
        BY <2>1, <2>2, FS_Surjection
    <2>4. QED BY <2>3 DEF T
<1> DEFINE of(i) == ToSet(Services(shown[i]))
<1>2. /\ Len(shown) \in Nat /\ DOMAIN shown = 1 .. Len(shown)
      /\ \A i \in 1 .. Len(shown) : shown[i].services \in Seq(Title)
    BY ServicesAreSeq DEF RowsInv
<1>3. ASSUME NEW i \in DOMAIN shown PROVE IsFiniteSet(of(i))
    <2> DEFINE list == Services(shown[i])
               n == Len(shown[i].services)
    <2>1. n \in Nat /\ DOMAIN list = 1 .. n
        BY <1>2, <1>3 DEF Services
    <2> HIDE DEF list, n
    <2>2. IsFiniteSet({list[k] : k \in 1 .. n})
        BY <1>1, <2>1
    <2>3. QED BY <2>1, <2>2 DEF ToSet, list
<1> DEFINE sets == {of(i) : i \in DOMAIN shown}
<1>4. IsFiniteSet(sets)
    <2> DEFINE f == [i \in DOMAIN shown |-> of(i)]
    <2>1. DOMAIN f = 1 .. Len(shown) /\ Len(shown) \in Nat
        BY <1>2
    <2>2. sets = {f[i] : i \in 1 .. Len(shown)}
        BY <1>2
    <2> HIDE DEF f, sets
    <2>3. QED BY <1>1, <2>1, <2>2
<1>5. IsFiniteSet(UNION sets)
    <2>1. \A T \in sets : IsFiniteSet(T)
        BY <1>3
    <2> HIDE DEF sets
    <2>2. QED BY <1>4, <2>1, FS_UNION
<1>6. ServicesNamed(name) \subseteq UNION sets
    BY DEF ServicesNamed
<1> HIDE DEF sets
<1>7. QED BY <1>5, <1>6, FS_Subset

\* A row is of the project that was named, if one was, and of no service if none is asked for.
Fits(r) ==
    /\ r = Selection(r.project, r.service)
    /\ host.project # NoName => r.project = host.project
    /\ asked = "project" => r.service = NoName

\* Its project is on the screen, and has its service.
OnScreen(r) ==
    \E p \in ToSet(shown) : p.id = r.project /\ r.service \in ToSet(p.services) \cup {NoName}

\* Services that are shown have a name.
LEMMA ServiceFits ==
    ASSUME RowsInv, NEW s \in AllServices
    PROVE  (asked # "project" => Fits(s)) /\ OnScreen(s) /\ s.service # NoName
<1>1. PICK i \in DOMAIN shown : s \in ToSet(Services(shown[i]))
    BY DEF AllServices
<1>2. PICK k \in DOMAIN shown[i].services : s = Selection(shown[i].id, shown[i].services[k])
    BY <1>1 DEF ToSet, Services
<1>3. /\ s.project = shown[i].id /\ s.service = shown[i].services[k]
      /\ s = Selection(s.project, s.service)
    BY <1>2 DEF Selection
<1>4. shown[i] \in ToSet(shown) /\ s.service \in ToSet(shown[i].services)
    BY <1>3 DEF ToSet
<1>5. s.service # NoName
    <2>1. shown[i].services \in Seq(Title)
        BY ServicesAreSeq DEF RowsInv
    <2>2. shown[i].services[k] \in Title
        BY <2>1
    <2>3. QED BY <1>3, <2>2 DEF Title
<1>6. host.project # NoName => s.project = host.project
    BY <1>3 DEF RowsInv
<1>7. QED BY <1>3, <1>4, <1>5, <1>6 DEF Fits, OnScreen

\* So has every row of a question about services.
LEMMA RowFits ==
    ASSUME RowsInv, NEW r \in RowSet
    PROVE  Fits(r) /\ OnScreen(r) /\ (asked = "project" \/ r.service # NoName)
<1>1. CASE asked = "project"
    <2>1. PICK i \in DOMAIN shown : r = Selection(shown[i].id, NoName)
        BY <1>1 DEF RowSet
    <2>2. host.project = NoName /\ shown[i] \in ToSet(shown)
        BY <1>1 DEF RowsInv, ToSet
    <2>3. QED BY <1>1, <2>1, <2>2 DEF Fits, OnScreen, Selection
<1>2. CASE asked # "project"
    BY <1>2, ServiceFits DEF RowSet
<1>3. QED BY <1>1, <1>2

\* A service has a name.
LEMMA NoneIsUnnamed ==
    ASSUME RowsInv
    PROVE  ServicesNamed(NoName) = {}
BY ServiceFits DEF ServicesNamed, AllServices

\* A number selects its row; and who types a number types no name.
LEMMA NumberIsOfARow ==
    ASSUME RowsInv, NEW typed \in Typed, getSelection(typed).is = "row"
    PROVE  /\ typed.num \in DOMAIN selectors /\ typed.num # NotANumber /\ typed.name = NoName
           /\ getSelection(typed).row = selectors[typed.num]
           /\ selectors[typed.num] \in RowSet
<1>1. typed.num # NotANumber /\ ~(Len(selectors) < typed.num) /\ ~(typed.num <= 0)
    BY DEF getSelection
<1>2. typed.num \in Int /\ typed.name = NoName
    BY <1>1, TypedAssumption
<1>3. Len(selectors) \in Nat /\ DOMAIN selectors = 1 .. Len(selectors)
      /\ \A i \in 1 .. Len(selectors) : selectors[i] \in RowSet
    BY DEF RowsInv
<1>4. typed.num \in 1 .. Len(selectors)
    BY <1>1, <1>2, <1>3
<1>5. QED BY <1>1, <1>2, <1>3, <1>4 DEF getSelection

\* Nothing but a number is in the rows.
LEMMA NotANumberIsNoRow ==
    ASSUME RowsInv PROVE NotANumber \notin DOMAIN selectors
<1>1. Len(selectors) \in Nat /\ DOMAIN selectors = 1 .. Len(selectors)
    BY DEF RowsInv
<1>2. QED BY <1>1 DEF NotANumber

\* So a row that is picked by its number is what was meant.
LEMMA NumberMeans ==
    ASSUME RowsInv, NEW typed \in Typed, getSelection(typed).is = "row"
    PROVE  Fits(getSelection(typed).row) /\ Means(typed, getSelection(typed).row)
<1> DEFINE row == selectors[typed.num]
<1>1. /\ typed.num # NotANumber /\ getSelection(typed).row = row /\ row \in RowSet
    BY NumberIsOfARow
<1>2. Fits(row) /\ OnScreen(row) /\ (asked = "project" \/ row.service # NoName)
    BY <1>1, RowFits
<1>3. Means(typed, row)
    BY <1>1, <1>2 DEF Means, OnScreen
<1>4. QED BY <1>1, <1>2, <1>3

\* Neither is the name of a project that is shown, which is not the name of a service.
LEMMA ProjectMeans ==
    ASSUME RowsInv, NEW typed \in Typed, ProjectsNamed(typed.name) # {},
           asked = "project" \/ typed.name # NoName
    PROVE  Fits(Selection(typed.name, NoName)) /\ Means(typed, Selection(typed.name, NoName))
<1> DEFINE row == Selection(typed.name, NoName)
<1>1. row.project = typed.name /\ row.service = NoName
    BY DEF Selection
<1>2. PICK i \in DOMAIN shown : shown[i].id = typed.name /\ typed.name # NoName
    BY DEF ProjectsNamed
<1>3. shown[i] \in ToSet(shown)
    BY DEF ToSet
<1>4. Fits(row)
    <2>1. host.project # NoName => row.project = host.project
        BY <1>1, <1>2 DEF RowsInv
    <2>2. row = Selection(row.project, row.service)
        BY <1>1
    <2> HIDE DEF row
    <2>3. QED BY <1>1, <1>2, <1>3, <2>1, <2>2 DEF Fits
<1>5. typed.num = NotANumber
    BY <1>2, TypedAssumption
<1>6. typed.num \notin DOMAIN selectors
    BY <1>5, NotANumberIsNoRow
<1>7. Means(typed, row)
    <2> HIDE DEF row
    <2>1. QED BY <1>1, <1>2, <1>3, <1>6 DEF Means
<1>8. QED BY <1>4, <1>7

\* The name of a service that is that of no other.
LEMMA ServiceMeans ==
    ASSUME RowsInv, NEW typed \in Typed, asked # "project",
           ~(Cardinality(ServicesNamed(typed.name)) > 1), NEW s \in ServicesNamed(typed.name)
    PROVE  Fits(s) /\ Means(typed, s)
<1>1. s \in AllServices /\ s.service = typed.name
    BY DEF ServicesNamed, AllServices
<1>2. Fits(s) /\ OnScreen(s) /\ s.service # NoName
    BY <1>1, ServiceFits
<1>3. typed.num = NotANumber
    BY <1>1, <1>2, TypedAssumption
<1>4. \A x \in ServicesNamed(s.service) : x = s
    <2> DEFINE named == ServicesNamed(typed.name)
    <2>1. IsFiniteSet(named)
        BY ServicesAreFinite
    <2>2. Cardinality(named) \in Nat /\ ~(Cardinality(named) > 1)
        BY <2>1, FS_CardinalityType
    <2>3. \A n \in Nat : ~(n > 1) => n < 2
        OBVIOUS
    <2>4. Cardinality(named) < 2
        BY <2>2, <2>3, Zenon
    <2>5. s \in named
        OBVIOUS
    <2> HIDE DEF named
    <2>6. \A x \in named : x = s
        BY <2>1, <2>4, <2>5, OfLessThanTwo
    <2>7. QED BY <1>1, <2>6 DEF named
<1>5. typed.num \notin DOMAIN selectors
    BY <1>3, NotANumberIsNoRow
<1>6. QED BY <1>1, <1>2, <1>4, <1>5 DEF Means, OnScreen

\* What is picked for a service is what was typed.
LEMMA ServicePickMeans ==
    ASSUME RowsInv, NEW typed \in Typed, asked # "project",
           selectPromptService(typed).is = "row"
    PROVE  Fits(selectPromptService(typed).row) /\ Means(typed, selectPromptService(typed).row)
<1> DEFINE named == ServicesNamed(typed.name)
<1>1. typed # Blank /\ ~(Cardinality(named) > 1)
    BY DEF selectPromptService
<1>2. CASE named # {}
    <2> DEFINE s == CHOOSE x \in named : TRUE
    <2>1. s \in named /\ selectPromptService(typed).row = s
        BY <1>1, <1>2 DEF selectPromptService
    <2> HIDE DEF s
    <2>2. QED BY <1>1, <2>1, ServiceMeans
<1>3. CASE named = {}
    <2>1. selectPromptService(typed) = getSelection(typed)
        BY <1>1, <1>3 DEF selectPromptService
    <2>2. QED BY <2>1, NumberMeans
<1>4. QED BY <1>2, <1>3

\* What is picked for a project is what was typed, or a project to create.
LEMMA ProjectPickMeans ==
    ASSUME RowsInv, NEW typed \in Typed, asked = "project", PromptProject(typed).is = "row"
    PROVE  Fits(PromptProject(typed).row) /\ Means(typed, PromptProject(typed).row)
<1>1. CASE ProjectsNamed(typed.name) # {}
    <2>1. PromptProject(typed).row = Selection(typed.name, NoName)
        BY <1>1 DEF PromptProject, Row
    <2>2. QED BY <1>1, <2>1, ProjectMeans
<1>2. CASE ProjectsNamed(typed.name) = {} /\ getSelection(typed).is = "failed" /\ Has("create")
    <2> DEFINE row == Selection(Text(typed), NoName)
    <2>1. PromptProject(typed).row = row
        BY <1>2 DEF PromptProject, Row
    <2>2. /\ row.project = Text(typed) /\ row.service = NoName
          /\ row = Selection(row.project, row.service)
        BY DEF Selection
    <2> HIDE DEF row
    <2>3. Fits(row)
        BY <2>2 DEF Fits, RowsInv
    <2>4. typed.num \notin DOMAIN selectors
        <3>1. Len(selectors) \in Nat /\ DOMAIN selectors = 1 .. Len(selectors)
            BY DEF RowsInv
        <3>2. typed.num = NotANumber \/ Len(selectors) < typed.num
            BY <1>2 DEF getSelection
        <3>3. typed.num \in Int
            BY TypedAssumption DEF NotANumber
        <3>4. QED BY <3>1, <3>2, <3>3 DEF NotANumber
    <2>5. typed.num = NotANumber => row.project = typed.name
        BY <2>2 DEF Text
    <2>6. \A s \in ServicesNamed(row.service) : s = row
        BY <2>2, NoneIsUnnamed
    <2>7. Means(typed, row)
        BY <1>2, <2>4, <2>5, <2>6 DEF Means
    <2>8. QED BY <2>1, <2>3, <2>7
<1>3. CASE /\ ProjectsNamed(typed.name) = {}
           /\ ~(getSelection(typed).is = "failed" /\ Has("create"))
    <2>1. PromptProject(typed) = getSelection(typed)
        BY <1>3 DEF PromptProject
    <2>2. QED BY <2>1, NumberMeans
<1>4. QED BY <1>1, <1>2, <1>3

\* For whatever question, the row that is picked fits it and is what was typed.
LEMMA PickMeans ==
    ASSUME RowsInv, NEW typed \in Typed, Picked(typed).is = "row"
    PROVE  Fits(Picked(typed).row) /\ Means(typed, Picked(typed).row)
<1>1. CASE asked = "project"
    BY <1>1, ProjectPickMeans DEF Picked
<1>2. CASE asked = "service"
    BY <1>2, ServicePickMeans DEF Picked
<1>3. CASE asked = "either"
    <2>1. Picked(typed) = selectPromptProjectOrService(typed)
        BY <1>3 DEF Picked
    <2>2. CASE \/ ProjectsNamed(typed.name) = {}
               \/ Cardinality(ServicesNamed(typed.name)) > 1
        BY <1>3, <2>1, <2>2, ServicePickMeans DEF selectPromptProjectOrService
    <2>3. CASE /\ ProjectsNamed(typed.name) # {}
               /\ ~(Cardinality(ServicesNamed(typed.name)) > 1)
        <3>1. Picked(typed).row = Selection(typed.name, NoName)
            BY <2>1, <2>3 DEF selectPromptProjectOrService, Row
        <3>2. typed.name # NoName
            BY <2>3 DEF ProjectsNamed
        <3>3. QED BY <2>3, <3>1, <3>2, ProjectMeans
    <2>4. QED BY <2>2, <2>3
<1>4. QED BY <1>1, <1>2, <1>3 DEF RowsInv

\* An answer that is asked again is the name of a project and of one service.
LEMMA AskedAgain ==
    ASSUME RowsInv, NEW typed \in Typed, Picked(typed).is = "dedup"
    PROVE  /\ asked = "either" /\ ProjectsNamed(typed.name) # {}
           /\ ~(Cardinality(ServicesNamed(typed.name)) > 1)
<1>1. getSelection(typed).is # "dedup"
    BY SelectionIs
<1>2. PromptProject(typed).is # "dedup" /\ selectPromptService(typed).is # "dedup"
    BY <1>1 DEF PromptProject, selectPromptService, Row
<1>3. QED BY <1>2 DEF RowsInv, Picked, selectPromptProjectOrService

\* The rows that printProjects numbers are of the projects that it is given.
LEMMA PrintedRows ==
    ASSUME NEW projects \in Seq(Listing),
           NEW hide \in BOOLEAN, hide \/ host.service = NoName
    PROVE  printProjects(projects, hide) \in
               Seq(IF hide THEN {Selection(projects[i].id, NoName) : i \in DOMAIN projects}
                           ELSE UNION {ToSet(Services(projects[i])) : i \in DOMAIN projects})
<1> DEFINE S == IF hide THEN {Selection(projects[i].id, NoName) : i \in DOMAIN projects}
                        ELSE UNION {ToSet(Services(projects[i])) : i \in DOMAIN projects}
           row(i) == IF hide THEN <<Selection(projects[i].id, NoName)>> ELSE Listed(projects[i])
           rows == [i \in DOMAIN projects |-> row(i)]
<1>1. ASSUME NEW i \in DOMAIN projects PROVE row(i) \in Seq(S)
    <2>1. CASE hide
        <3>1. Selection(projects[i].id, NoName) \in S
            BY <2>1
        <3> HIDE DEF S
        <3>2. QED BY <2>1, <3>1
    <2>2. CASE ~hide
        <3> DEFINE list == Services(projects[i])
        <3>1. row(i) = list
            BY <2>2 DEF Listed
        <3>2. projects[i].services \in Seq(Title) /\ Len(projects[i].services) \in Nat
            BY ServicesAreSeq
        <3>3. DOMAIN list = 1 .. Len(projects[i].services) /\ list = [k \in DOMAIN list |-> list[k]]
            BY <3>2 DEF Services
        <3>4. \A k \in DOMAIN list : list[k] \in S
            BY <2>2 DEF ToSet
        <3> HIDE DEF list, S
        <3>5. list \in [1 .. Len(projects[i].services) -> S]
            BY <3>3, <3>4
        <3>6. list \in Seq(S)
            BY <3>2, <3>5, SeqDef
        <3>7. QED BY <3>1, <3>6
    <2>3. QED BY <2>1, <2>2
<1>2. rows \in Seq(Seq(S))
    <2>1. Len(projects) \in Nat /\ DOMAIN projects = 1 .. Len(projects)
        OBVIOUS
    <2> HIDE DEF row, S
    <2>2. QED BY <1>1, <2>1
<1>3. printProjects(projects, hide) = FlattenSeq(rows)
    BY DEF printProjects
<1> HIDE DEF S, rows
<1>4. FlattenSeq(rows) \in Seq(S)
    BY <1>2, FlattenedIsSeq
<1>5. QED BY <1>3, <1>4 DEF S

\* What is fetched is projects of the cloud: all, or the one that is named.
LEMMA FetchedIs ==
    ASSUME cloud \in Clouds, NEW projects \in Fetched
    PROVE  /\ projects \in Seq(Listing)
           /\ host.project # NoName => \A i \in DOMAIN projects : projects[i].id = host.project
<1>1. cloud \in Seq(Listing)
    BY CloudsAssumption DEF Listing, Title
<1>2. CASE host.project = NoName
    BY <1>1, <1>2 DEF Fetched
<1>3. CASE host.project # NoName
    <2>1. PICK p \in ToSet(cloud) : p.id = host.project /\ projects = <<p>>
        BY <1>3 DEF Fetched
    <2>2. p \in Listing
        BY <1>1, <2>1 DEF ToSet
    <2>3. projects \in Seq(Listing) /\ \A i \in DOMAIN projects : projects[i] = p
        BY <2>1, <2>2
    <2>4. QED BY <2>1, <2>3
<1>4. QED BY <1>2, <1>3

\* When a list is shown, it is that of the question.
LEMMA OnceShows ==
    ASSUME Once, ~Ends("failed"), AskInv, start \in Starts
    PROVE  RowsInv'
<1>1. PICK projects \in Fetched :
          /\ shown' = projects /\ selectors' = printProjects(projects, Question = "project")
          /\ asked' = Question /\ pc' = "prompt"
          /\ UNCHANGED <<start, host>> /\ pc = "ask"
    BY DEF Once, quiet
<1>2. cloud \in Clouds /\ Missing
      /\ (host.service # NoName /\ host.project = NoName => Has("allow missing"))
    BY <1>1 DEF AskInv, UnaskedInv, Unasked
<1>3. /\ Question = "project" => host.project = NoName
      /\ Question # "project" => host.service = NoName
      /\ Question \in {"project", "service", "either"}
    BY <1>2, TableIs DEF Missing
<1>4. /\ projects \in Seq(Listing)
      /\ host.project # NoName => \A i \in DOMAIN projects : projects[i].id = host.project
    BY <1>2, FetchedIs
<1>5. selectors' \in Seq(RowSet')
    <2> DEFINE hide == Question = "project"
    <2>1. hide \in BOOLEAN /\ (hide \/ host.service = NoName)
        BY <1>3
    <2>2. RowSet' = IF hide THEN {Selection(projects[i].id, NoName) : i \in DOMAIN projects}
                    ELSE UNION {ToSet(Services(projects[i])) : i \in DOMAIN projects}
        BY <1>1 DEF RowSet, AllServices, Services, Selection, ToSet
    <2> HIDE DEF hide
    <2>3. printProjects(projects, hide) \in Seq(RowSet')
        BY <1>4, <2>1, <2>2, PrintedRows
    <2>4. QED BY <1>1, <2>3 DEF hide
<1>6. QED BY <1>1, <1>3, <1>4, <1>5 DEF RowsInv

\* A step that ends the command.
LEMMA EndIsNoAnswer ==
    ASSUME AskInv, UNCHANGED cloud, pc' \notin Unasked \cup {"prompt", "dedup"} \cup Answered
    PROVE  AskInv'
BY DEF AskInv, UnaskedInv, PromptInv, AnsweredInv

\* What an answer means depends on the screen, not on where the command is.
LEMMA MeansStays ==
    ASSUME UNCHANGED <<start, asked, selectors, shown, answer, host.project, host.service>>,
           asked # "nothing" => Means(answer, Chosen)
    PROVE  (asked # "nothing" => Means(answer, Chosen))'
BY DEF Means, Chosen, ServicesNamed, Services, Selection, Has, setup, ToSet

\* None are shown.
LEMMA NoInstances ==
    ASSUME instances' = <<>> PROVE InstancesOf(instances)'
BY DEF InstancesOf, ToSet

\* Up to the list.
LEMMA UnaskedStep ==
    ASSUME AskInv, HostTyped, start \in Starts,
           Parse \/ loadValues \/ tryInstance \/ maybePromptMissing
    PROVE  AskInv'
<1>1. UNCHANGED quiet
    BY DEF Parse, loadValues, tryInstance, maybePromptMissing
<1>2. CASE Ends("failed")
    BY <1>1, <1>2, EndIsNoAnswer DEF Ends, quiet, Unasked, Answered
<1>3. CASE Parse /\ ~Ends("failed")
    <2>1. PICK f \in tryParseFlags :
              /\ pc = "parse" /\ pc' = "load"
              /\ host' = [project |-> f.project, service |-> f.service,
                          instance |-> start.instance, remote |-> f.remote]
              /\ UNCHANGED <<endpoint, tokens, listing>>
        BY <1>3 DEF Parse
    <2>2. f.service # NoName /\ f.project = NoName => Has("allow missing")
        BY DEF tryParseFlags
    <2>3. Has("allow missing")' <=> Has("allow missing")
        BY <1>1 DEF Has, setup, quiet
    <2>4. host'.project = f.project /\ host'.service = f.service
        BY <2>1
    <2>5. UnaskedInv'
        BY <2>1, <2>2, <2>3, <2>4 DEF AskInv, UnaskedInv, Unasked, listing
    <2>6. QED BY <1>1, <2>1, <2>5 DEF AskInv, PromptInv, AnsweredInv, quiet, Answered
<1>4. CASE loadValues /\ ~Ends("failed")
    <2>1. PICK project \in getProjectFromCurrentWorkingDirectory, r \in DOMAIN Remotes :
              /\ pc = "load" /\ pc' = "instance"
              /\ host' = [host EXCEPT !.project = project, !.remote = r]
              /\ UNCHANGED listing
        BY <1>4 DEF loadValues, SetEndpoint
    <2>2. host.project # NoName => project = host.project
        BY DEF getProjectFromCurrentWorkingDirectory
    <2>3. host'.project = project /\ host'.service = host.service
        BY <2>1 DEF HostTyped
    <2>4. Has("allow missing")' <=> Has("allow missing")
        BY <1>1 DEF Has, setup, quiet
    <2>5. UnaskedInv'
        BY <2>1, <2>2, <2>3, <2>4 DEF AskInv, UnaskedInv, Unasked, listing
    <2>6. QED BY <1>1, <2>1, <2>5 DEF AskInv, PromptInv, AnsweredInv, quiet, Answered
<1>5. CASE tryInstance /\ ~Ends("failed")
    <2>1. /\ pc = "instance" /\ pc' = "missing" /\ UNCHANGED listing
          /\ \/ UNCHANGED host
             \/ \E i \in Instances :
                    host' = [host EXCEPT !.project = i.project, !.service = i.service,
                                         !.instance = i.id]
        BY <1>5 DEF tryInstance, Matches
    <2>2. \/ UNCHANGED host
          \/ host'.project # NoName
        BY <2>1, InstancesAssumption DEF HostTyped
    <2>3. Has("allow missing")' <=> Has("allow missing")
        BY <1>1 DEF Has, setup, quiet
    <2>4. UnaskedInv'
        BY <2>1, <2>2, <2>3 DEF AskInv, UnaskedInv, Unasked, listing
    <2>5. QED BY <1>1, <2>1, <2>4 DEF AskInv, PromptInv, AnsweredInv, quiet, Answered
<1>6. CASE maybePromptMissing
    <2>1. /\ pc = "missing" /\ UNCHANGED <<host, listing>>
          /\ pc' \in {"check", "missing instance", "login first", "ask"}
          /\ pc' \in {"login first", "ask"} => Missing
        BY <1>6 DEF maybePromptMissing
    <2>2. (Has("allow missing")' <=> Has("allow missing")) /\ (Missing' <=> Missing)
        BY <1>1, <2>1 DEF Has, setup, quiet, Missing
    <2>3. asked' = "nothing" /\ instances' = <<>>
        BY <2>1 DEF AskInv, UnaskedInv, Unasked, listing
    <2>4. UnaskedInv'
        BY <2>1, <2>2, <2>3 DEF AskInv, UnaskedInv, Unasked
    <2>5. AnsweredInv'
        <3>1. InstancesOf(instances)'
            BY <2>3, NoInstances
        <3>2. QED BY <2>1, <2>3, <3>1 DEF AnsweredInv
    <2>6. QED BY <1>1, <2>1, <2>4, <2>5 DEF AskInv, PromptInv, quiet
<1>7. QED BY <1>2, <1>3, <1>4, <1>5, <1>6

\* What is missing is taken from a row that fits.
LEMMA ChosenIsTheRow ==
    ASSUME RowsInv, HostTyped, NEW row, Fits(row), promptMissingProjectOrService(row),
           UNCHANGED asked
    PROVE  Chosen' = row
<1>1. /\ host'.project = IF host.project = NoName THEN row.project ELSE host.project
      /\ host'.service = IF host.service = NoName THEN row.service ELSE host.service
    BY DEF promptMissingProjectOrService, HostTyped
<1>2. host'.project = row.project
    BY <1>1 DEF Fits
<1>3. (IF asked = "project" THEN NoName ELSE host'.service) = row.service
    BY <1>1 DEF Fits, RowsInv
<1>4. Chosen' = Selection(row.project, row.service)
    BY <1>2, <1>3 DEF Chosen, Selection
<1>5. QED BY <1>4 DEF Fits

\* What was typed is the answer, and what it means is chosen.
LEMMA ChosenIsMeant ==
    ASSUME UNCHANGED <<start, asked, selectors, shown>>, NEW row, Chosen' = row,
           NEW typed, answer' = typed, Means(typed, row)
    PROVE  Means(answer, Chosen)'
BY DEF Means, ServicesNamed, Services, Selection, Has, setup, ToSet

\* Where the answer is known, the instances are not.
LEMMA AnswerIsTaken ==
    ASSUME AskInv, UNCHANGED <<start, cloud, asked, selectors, shown, instances>>,
           pc \in {"prompt", "dedup"}, pc' = "missing instance",
           NEW row, Chosen' = row, NEW typed, answer' = typed, Means(typed, row)
    PROVE  AskInv'
<1>1. Means(answer, Chosen)'
    BY ChosenIsMeant
<1>2. instances' = <<>>
    BY DEF AskInv, PromptInv
<1>3. InstancesOf(instances)'
    BY <1>2, NoInstances
<1>4. QED BY <1>1, <1>2, <1>3 DEF AskInv, UnaskedInv, PromptInv, AnsweredInv, Unasked

\* At the prompt.
LEMMA PromptStep ==
    ASSUME AskInv, HostTyped, start \in Starts, Once \/ Prompt \/ dedupPromptProjectOrService
    PROVE  AskInv'
<1>1. UNCHANGED quiet
    BY DEF Once, Prompt, dedupPromptProjectOrService
<1>2. CASE Ends("failed")
    BY <1>1, <1>2, EndIsNoAnswer DEF Ends, quiet, Unasked, Answered
<1>3. CASE Once /\ ~Ends("failed")
    <2>1. pc = "ask" /\ pc' = "prompt" /\ UNCHANGED instances
        BY <1>3 DEF Once
    <2>2. instances' = <<>>
        BY <2>1 DEF AskInv, UnaskedInv, Unasked
    <2>3. RowsInv'
        BY <1>3, OnceShows
    <2>4. QED
        BY <1>1, <2>1, <2>2, <2>3
        DEF AskInv, UnaskedInv, PromptInv, AnsweredInv, Unasked, Answered, quiet
<1>4. CASE Prompt /\ ~Ends("failed")
    <2>1. PICK typed \in Typed :
              /\ answer' = typed /\ pc = "prompt"
              /\ \/ Picked(typed).is = "row" /\ promptMissingProjectOrService(Picked(typed).row)
                 \/ Picked(typed).is # "row" /\ pc' = Picked(typed).is /\ UNCHANGED host
              /\ UNCHANGED <<endpoint, tokens, asked, selectors, shown, instances, choice>>
        BY <1>4 DEF Prompt
    <2>2. RowsInv
        BY <2>1 DEF AskInv, PromptInv
    <2>3. CASE Picked(typed).is = "row"
        <3> DEFINE row == Picked(typed).row
        <3>1. Fits(row) /\ Means(typed, row)
            BY <2>2, <2>3, PickMeans
        <3> HIDE DEF row
        <3>2. promptMissingProjectOrService(row)
            BY <2>1, <2>3 DEF row
        <3>3. Chosen' = row
            BY <2>1, <2>2, <3>1, <3>2, ChosenIsTheRow
        <3>4. pc' = "missing instance"
            BY <3>2 DEF promptMissingProjectOrService
        <3>5. QED BY <1>1, <2>1, <3>1, <3>3, <3>4, AnswerIsTaken DEF quiet
    <2>4. CASE Picked(typed).is = "dedup"
        <3>1. pc' = "dedup" /\ UNCHANGED host
            BY <2>1, <2>4
        <3>2. /\ asked = "either" /\ ProjectsNamed(typed.name) # {}
              /\ ~(Cardinality(ServicesNamed(typed.name)) > 1)
            BY <2>2, <2>4, AskedAgain
        <3>3. RowsInv'
            BY <1>1, <2>1, <2>2, <3>1
            DEF RowsInv, RowSet, AllServices, Services, Selection, ToSet
        <3>4. ProjectsNamed(answer.name)' = ProjectsNamed(typed.name)
            BY <2>1 DEF ProjectsNamed
        <3>5. ServicesNamed(answer.name)' = ServicesNamed(typed.name)
            BY <2>1 DEF ServicesNamed, Services, Selection, ToSet
        <3>6. PromptInv'
            BY <2>1, <3>1, <3>2, <3>3, <3>4, <3>5 DEF AskInv, PromptInv
        <3>7. QED
            BY <1>1, <3>1, <3>6 DEF AskInv, UnaskedInv, AnsweredInv, Unasked, Answered, quiet
    <2>5. CASE Picked(typed).is \in {"failed", "panic"}
        BY <1>1, <2>1, <2>5, EndIsNoAnswer DEF quiet, Unasked, Answered
    <2>6. QED BY <2>3, <2>4, <2>5, PickedIs
<1>5. CASE dedupPromptProjectOrService /\ ~Ends("failed")
    <2>1. pc = "dedup" /\ UNCHANGED <<endpoint, tokens, listing>>
        BY <1>5 DEF dedupPromptProjectOrService
    <2>2. PICK typed \in Typed : answer = typed
        BY <2>1 DEF AskInv, PromptInv
    <2>3. PICK row \in {Selection(typed.name, NoName)} \cup ServicesNamed(typed.name) :
              promptMissingProjectOrService(row)
        BY <1>5, <2>2 DEF dedupPromptProjectOrService
    <2>4. /\ RowsInv /\ asked = "either" /\ ProjectsNamed(typed.name) # {}
          /\ ~(Cardinality(ServicesNamed(typed.name)) > 1)
        BY <2>1, <2>2 DEF AskInv, PromptInv
    <2>5. typed.name # NoName
        BY <2>4 DEF ProjectsNamed
    <2>6. Fits(row) /\ Means(typed, row)
        <3>1. CASE row = Selection(typed.name, NoName)
            BY <2>4, <2>5, <3>1, ProjectMeans
        <3>2. CASE row \in ServicesNamed(typed.name)
            BY <2>4, <3>2, ServiceMeans
        <3>3. QED BY <2>3, <3>1, <3>2
    <2>7. Chosen' = row
        BY <2>1, <2>3, <2>4, <2>6, ChosenIsTheRow DEF listing
    <2>8. pc' = "missing instance"
        BY <2>3 DEF promptMissingProjectOrService
    <2>9. QED BY <1>1, <2>1, <2>2, <2>6, <2>7, <2>8, AnswerIsTaken DEF quiet, listing
<1>6. QED BY <1>2, <1>3, <1>4, <1>5

\* The instances that are fetched are of the target.
LEMMA FoundIs ==
    ASSUME "instance" \in setup.prompts,
           NEW found, found = SetToSeq(Matches(NoName, host.project, host.service))
    PROVE  InstancesOf(found)
<1> DEFINE S == Matches(NoName, host.project, host.service)
<1>1. IsFiniteSet(S)
    BY InstancesAssumption, FS_Subset DEF Matches
<1>2. \A i \in S : /\ host.project # NoName => i.project = host.project
                   /\ host.service # NoName => i.service = host.service
    BY DEF Matches
<1> HIDE DEF S
<1>3. found \in Seq(S)
    BY <1>1, SetToSeqIs DEF S
<1>4. ToSet(found) \subseteq S
    BY <1>3 DEF ToSet
<1>5. QED BY <1>2, <1>4 DEF InstancesOf

\* The target of a command does not change once it is known.
LEMMA InstancesStay ==
    ASSUME UNCHANGED start, host'.project = host.project, host'.service = host.service,
           NEW list, instances' = list, InstancesOf(list)
    PROVE  InstancesOf(instances)'
BY DEF InstancesOf, ToSet, setup

\* After the answer.
LEMMA AnsweredStep ==
    ASSUME AskInv, HostTyped, Login \/ printAndPrompt \/ PromptInstance \/ Process
    PROVE  AskInv'
<1>1. UNCHANGED quiet
    BY DEF Login, authenticateOrCancel, printAndPrompt, PromptInstance, Process
<1>2. CASE Ends("failed")
    BY <1>1, <1>2, EndIsNoAnswer DEF Ends, quiet, Unasked, Answered
<1>3. CASE pc = "login first" /\ pc' = "ask" /\ UNCHANGED <<host, listing>>
    <2>1. (Has("allow missing")' <=> Has("allow missing")) /\ (Missing' <=> Missing)
        BY <1>1, <1>3 DEF Has, setup, quiet, Missing
    <2>2. UnaskedInv'
        BY <1>3, <2>1 DEF AskInv, UnaskedInv, Unasked, listing
    <2>3. QED BY <1>1, <1>3, <2>2 DEF AskInv, PromptInv, AnsweredInv, Answered, quiet
<1> DEFINE same == /\ host'.project = host.project /\ host'.service = host.service
                   /\ UNCHANGED <<asked, selectors, shown, answer>>
           whole(h) == \A field \in {"project", "service"} : Requires(field) => h[field] # NoName
<1>4. ASSUME pc \in Answered, pc' \in Answered \ {"missing instance"}, same,
             InstancesOf(instances)', pc' \in {"login", "run"} => whole(host)
      PROVE  AskInv'
    <2>1. (asked # "nothing" => Means(answer, Chosen))'
        <3>1. asked # "nothing" => Means(answer, Chosen)
            BY <1>4 DEF AskInv, AnsweredInv
        <3>2. UNCHANGED start
            BY <1>1 DEF quiet
        <3>3. QED BY <1>4, <3>1, <3>2, MeansStays
    <2>2. pc' \in {"login", "run"} =>
              \A field \in {"project", "service"} : Requires(field)' => host'[field] # NoName
        BY <1>1, <1>4 DEF Requires, setup, quiet
    <2>3. AnsweredInv'
        BY <1>4, <2>1, <2>2 DEF AnsweredInv
    <2>4. QED BY <1>1, <1>4, <2>3 DEF AskInv, UnaskedInv, PromptInv, Unasked, Answered, quiet
<1>5. CASE pc = "login" /\ pc' = "run" /\ UNCHANGED <<host, listing>>
    <2>1. InstancesOf(instances)'
        BY <1>1, <1>5 DEF AskInv, AnsweredInv, Answered, InstancesOf, setup, quiet, listing
    <2>2. whole(host)
        BY <1>5 DEF AskInv, AnsweredInv, Answered
    <2>3. QED BY <1>4, <1>5, <2>1, <2>2 DEF listing, Answered
<1>6. CASE printAndPrompt /\ ~Ends("failed")
    <2> DEFINE found == SetToSeq(Matches(NoName, host.project, host.service))
    <2>1. /\ pc = "missing instance" /\ pc' \in {"check", "instance prompt"} /\ same
          /\ instances' = instances \/ ("instance" \in setup.prompts /\ instances' = found)
        BY <1>6 DEF printAndPrompt, listing, HostTyped
    <2> HIDE DEF found
    <2>2. CASE instances' = instances
        <3>1. instances' = <<>>
            BY <2>1, <2>2 DEF AskInv, AnsweredInv, Answered
        <3>2. QED BY <1>4, <2>1, <3>1, NoInstances DEF Answered
    <2>3. CASE "instance" \in setup.prompts /\ instances' = found
        <3>1. InstancesOf(found)
            BY <2>3, FoundIs DEF found
        <3>2. InstancesOf(instances)'
            BY <1>1, <2>1, <2>3, <3>1, InstancesStay DEF quiet
        <3>3. QED BY <1>4, <2>1, <3>2 DEF Answered
    <2>4. QED BY <2>1, <2>2, <2>3
<1>7. CASE PromptInstance /\ ~Ends("failed")
    <2>1. /\ pc = "instance prompt" /\ same /\ UNCHANGED instances
          /\ pc' \in {"check", "failed", "instance prompt"}
        <3>1. PICK typed \in Typed :
                  /\ pc = "instance prompt"
                  /\ \/ /\ maybeGetOption(typed).is = "row" /\ pc' = "check"
                        /\ host' = [host EXCEPT !.instance = maybeGetOption(typed).id]
                     \/ /\ maybeGetOption(typed).is # "row" /\ pc' = maybeGetOption(typed).is
                        /\ UNCHANGED host
                  /\ UNCHANGED <<endpoint, tokens, asked, selectors, shown, answer, instances>>
            BY <1>7 DEF PromptInstance
        <3>2. QED BY <3>1, OptionIs DEF HostTyped
    <2>2. InstancesOf(instances)'
        BY <1>1, <2>1 DEF AskInv, AnsweredInv, Answered, InstancesOf, setup, quiet
    <2>3. CASE pc' = "failed"
        BY <1>1, <2>3, EndIsNoAnswer DEF quiet, Unasked, Answered
    <2>4. QED BY <1>4, <2>1, <2>2, <2>3 DEF Answered
<1>8. CASE Process /\ ~Ends("failed")
    <2>1. /\ pc = "check" /\ pc' \in {"login", "run"} /\ same /\ UNCHANGED instances /\ Complete
          /\ host'.project = host.project /\ host'.service = host.service
        BY <1>8 DEF Process, listing, HostTyped
    <2>2. InstancesOf(instances)'
        BY <1>1, <2>1 DEF AskInv, AnsweredInv, Answered, InstancesOf, setup, quiet
    <2>3. whole(host)
        BY <2>1 DEF Complete
    <2>4. QED BY <1>4, <2>1, <2>2, <2>3 DEF Answered
<1>9. QED
    BY <1>2, <1>3, <1>5, <1>6, <1>7, <1>8 DEF Login, authenticateOrCancel

\* Nothing that matters to the answer moves.
LEMMA AskStays ==
    ASSUME AskInv, UNCHANGED <<start, cloud, pc, host, listing>>
    PROVE  AskInv'
<1>1. UnaskedInv'
    BY DEF AskInv, UnaskedInv, Unasked, Has, Missing, setup, listing
<1>2. PromptInv'
    BY DEF AskInv, PromptInv, RowsInv, RowSet, AllServices, ProjectsNamed, ServicesNamed, Services,
       Selection, ToSet, listing
<1>3. AnsweredInv'
    <2>1. ASSUME pc \in Answered PROVE (asked # "nothing" => Means(answer, Chosen))'
        <3>1. asked # "nothing" => Means(answer, Chosen)
            BY <2>1 DEF AskInv, AnsweredInv
        <3>2. UNCHANGED <<start, asked, selectors, shown, answer, host.project, host.service>>
            BY DEF listing
        <3>3. QED BY <3>1, <3>2, MeansStays
    <2>2. ASSUME pc \in Answered PROVE InstancesOf(instances)'
        <3>1. InstancesOf(instances)
            BY <2>2 DEF AskInv, AnsweredInv
        <3>2. UNCHANGED <<start, host, instances>>
            BY DEF listing
        <3>3. QED BY <3>1, <3>2, InstancesStay
    <2>3. QED BY <2>1, <2>2 DEF AskInv, AnsweredInv, Requires, setup, listing
<1>4. QED BY <1>1, <1>2, <1>3 DEF AskInv

LEMMA AskStep ==
    ASSUME AskInv, HostTyped, PhaseInv, [DeployNext]_allVars
    PROVE  AskInv'
<1>1. start \in Starts
    BY DEF PhaseInv
<1>2. CASE ProcessStep
    BY <1>1, <1>2, UnaskedStep, PromptStep, AnsweredStep DEF ProcessStep
<1>3. CASE PrepareStep
    <2>1. UNCHANGED <<start, cloud, host, listing>>
        BY <1>3, PrepareMoves DEF Keep, quiet
    <2>2. CASE pc = "preRun" /\ pc' = "parse"
        <3>1. asked' = "nothing" /\ instances' = <<>>
            BY <2>1, <2>2 DEF AskInv, UnaskedInv, Unasked, listing
        <3>2. QED
            BY <2>1, <2>2, <3>1 DEF AskInv, UnaskedInv, PromptInv, AnsweredInv, Answered
    <2>3. CASE pc' \in Preparing \cup {"deploy", "failed"}
        BY <2>1, <2>3, EndIsNoAnswer DEF Preparing, Unasked, Answered
    <2>4. QED BY <1>3, <2>2, <2>3, PrepareMoves
<1>4. CASE DeployStep
    <2>1. UNCHANGED cloud /\ pc' \in Uploading \cup Ending \cup Over
        BY <1>4, DeployMoves DEF Keep, quiet
    <2>2. QED BY <2>1, EndIsNoAnswer DEF Uploading, Ending, Over, Unasked, Answered
<1>5. CASE UNCHANGED allVars
    BY <1>5, AskStays DEF allVars, vars, quiet
<1>6. QED BY <1>2, <1>3, <1>4, <1>5, NextCases

\* What was asked names the target.
LEMMA AnswerFromInv ==
    ASSUME AskInv, start \in Starts PROVE AnswerNamesTheTarget
<1> SUFFICES ASSUME Acts, asked # "nothing" PROVE AnswerNamesTheTarget
    BY DEF AnswerNamesTheTarget
<1>1. pc = "run"
    BY DEF Acts
<1>2. /\ InstancesOf(instances) /\ Means(answer, Chosen)
      /\ \A field \in {"project", "service"} : Requires(field) => host[field] # NoName
    BY <1>1 DEF AskInv, AnsweredInv, Answered
<1>3. ASSUME NEW i \in ToSet(instances)
      PROVE  i.project = host.project /\ i.service = host.service
    <2>1. instances # <<>>
        BY <1>3 DEF ToSet
    <2>2. Requires("project") /\ Requires("service")
        BY <1>2, <2>1, TableIs DEF InstancesOf
    <2>3. host.project # NoName /\ host.service # NoName
        BY <1>2, <2>2
    <2>4. QED BY <1>2, <1>3, <2>3 DEF InstancesOf
<1>4. QED BY <1>2, <1>3 DEF AnswerNamesTheTarget, Means, Chosen

\* Nothing is asked yet.
LEMMA AskInit ==
    ASSUME DeployInit PROVE AskInv
BY DEF DeployInit, PrepareInit, Init, AskInv, UnaskedInv, PromptInv, AnsweredInv, Unasked, Answered

\* Whatever is on the server, and whatever is typed, a command acts on what was picked: on the
\* row of that number, on the project or the one service of that name, and on an instance of
\* it (AnswerNamesTheTarget: the prompts of list and listinstances, and Process).
THEOREM AnswerCorrect == Spec => []AnswerNamesTheTarget
<1>1. DeployInit => HostTyped /\ PhaseInv /\ AskInv
    BY PhaseInit, AskInit
<1>2. HostTyped /\ PhaseInv /\ AskInv /\ [DeployNext]_allVars =>
      HostTyped' /\ PhaseInv' /\ AskInv'
    BY PhaseStep, AskStep
<1>3. PhaseInv /\ AskInv => AnswerNamesTheTarget
    BY AnswerFromInv DEF PhaseInv
<1>4. QED BY <1>1, <1>2, <1>3, PTL DEF Spec

=============================================================================
