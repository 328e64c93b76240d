------------------------------- MODULE Target -------------------------------
(***************************************************************************)
(* What a command acts on: the project, the service, the instance and the  *)
(* remote that come from its flags or from --url, and else from questions  *)
(* asked in the terminal (packages cmdflagsfromhost, flagsfromhost, and    *)
(* the prompts of list and listinstances).                                 *)
(*                                                                         *)
(* A name is a sequence of words, as in ServicesDir.  A host is a sequence *)
(* of labels, each a sequence of words: web-shop-dev.lfr.cloud is          *)
(* <<<<"web", "shop", "dev">>, <<"lfr">>, <<"cloud">>>>.                   *)
(***************************************************************************)
EXTENDS ServicesDir, FiniteSets, TLC

CONSTANTS Remotes,       \* the address of the services of each remote, by its name
          DefaultRemote, \* the default remote of the configuration
          Clouds,        \* the projects there may be: sequences of [id, services]
          Instances,     \* the instances: records [id, project, service, running]
          Typed,         \* what whoever is at the terminal may type
          Starts         \* the commands, their flags, and where they are run

CloudRemote == "lcp"
Current     == "current"     \* --remote is not given
NoName      == <<>>
anyInstance == <<"any">>     \* --instance any
NotANumber  == -99

\* The comment of parseHostWithRemote: no address of a remote is right below another one.
ASSUME RemotesAreApart ==
    /\ IsFiniteSet(DOMAIN Remotes)
    /\ \A r \in DOMAIN Remotes : Remotes[r] \in Seq(Seq(STRING)) /\ Remotes[r] # <<>>
    /\ \A r, s \in DOMAIN Remotes : Tail(Remotes[r]) # Remotes[s]

-----------------------------------------------------------------------------
(* The commands: var setupHost of each of them. *)

Setup(pattern, requires, prompts, options) ==
    [pattern |-> pattern, requires |-> requires, prompts |-> prompts, options |-> options]

RemotePattern           == {"remote"}
ProjectAndRemotePattern == {"project", "remote"}
FullHostPattern         == {"project", "service", "remote"}

NeedsAuth    == {"auth"}
NeedsProject == {"project"}
NeedsService == {"project", "service"}

deploy       == Setup(FullHostPattern \cup {"region"}, NeedsAuth \cup NeedsProject, {"project"},
                      {"workdir", "allow missing", "create", "hide services"})
delete       == Setup(FullHostPattern, NeedsAuth \cup NeedsProject, {"project"}, {})
restart      == Setup(FullHostPattern, NeedsAuth \cup NeedsService, {"project", "service"}, {})
scale        == Setup(FullHostPattern, NeedsAuth \cup NeedsService, {"project", "service"}, {})
open         == Setup(FullHostPattern, NeedsService, {"service"}, {})
domain       == Setup(FullHostPattern, NeedsAuth \cup NeedsService, {"service"}, {})
domainShow   == Setup(FullHostPattern, NeedsAuth \cup NeedsService, {"service"}, {})
domainAdd    == Setup(FullHostPattern, NeedsAuth \cup NeedsService, {"service"}, {})
domainRemove == Setup(FullHostPattern, NeedsAuth \cup NeedsService, {"service"}, {})
envVar       == Setup(FullHostPattern, NeedsAuth \cup NeedsService, {"service"}, {})
envVarShow   == Setup(FullHostPattern, NeedsAuth \cup NeedsService, {"service"}, {})
envVarSet    == Setup(FullHostPattern, NeedsAuth \cup NeedsService, {"service"}, {})
envVarUnset  == Setup(FullHostPattern, NeedsAuth \cup NeedsService, {"service"}, {})
exec         == Setup(FullHostPattern \cup {"instance"}, NeedsService \cup {"instance"},
                      {"service", "instance"}, {"auto select"})
shell        == Setup(FullHostPattern \cup {"instance"}, NeedsService \cup {"instance"},
                      {"service", "instance"}, {"auto select"})
log          == Setup(FullHostPattern \cup {"instance"}, NeedsAuth \cup NeedsProject,
                      {"project"}, {})
activities   == Setup(ProjectAndRemotePattern, NeedsAuth \cup NeedsProject, {"project"}, {})
listAll      == Setup(FullHostPattern, NeedsAuth, {}, {})
listProjects == Setup(RemotePattern, NeedsAuth, {}, {})
listServices == Setup(FullHostPattern, NeedsAuth \cup NeedsProject, {"project"}, {"hide services"})
listInstances == Setup(FullHostPattern, NeedsAuth \cup NeedsService, {"service"}, {})
new          == Setup(FullHostPattern \cup {"region"}, NeedsAuth, {}, {})
newProject   == Setup(ProjectAndRemotePattern \cup {"region"}, NeedsAuth, {}, {})
newService   == Setup(FullHostPattern, NeedsAuth \cup NeedsProject, {"project"}, {"hide services"})
login        == Setup(RemotePattern, {}, {}, {})
logout       == Setup(RemotePattern, {}, {}, {})
inspectToken == Setup(RemotePattern, {}, {}, {})
console      == Setup(RemotePattern, {}, {}, {})

Commands == [deploy |-> deploy, delete |-> delete, restart |-> restart, scale |-> scale,
    open |-> open, domain |-> domain, domainShow |-> domainShow, domainAdd |-> domainAdd,
    domainRemove |-> domainRemove, envVar |-> envVar, envVarShow |-> envVarShow,
    envVarSet |-> envVarSet, envVarUnset |-> envVarUnset, exec |-> exec, shell |-> shell,
    log |-> log, activities |-> activities, listAll |-> listAll, listProjects |-> listProjects,
    listServices |-> listServices, listInstances |-> listInstances, new |-> new,
    newProject |-> newProject, newService |-> newService, login |-> login,
    logout |-> logout, inspectToken |-> inspectToken, console |-> console]

\* Init panics for a command whose pattern makes no sense: none does.
InitPanics(s) ==
    \/ s.pattern \intersect {"remote", "project", "service"} = {}
    \/ "instance" \in s.pattern /\ "service" \notin s.pattern

ASSUME PatternsAssumption == \A c \in DOMAIN Commands : ~InitPanics(Commands[c])

\* A directory has no two entries of the same name, nor one of its own: a name stands for
\* the path.
ASSUME StartsAssumption ==
    \A s \in Starts :
        /\ s.cmd \in DOMAIN Commands
        /\ s.dir \in Directory
        /\ \A i, j \in DOMAIN s.dir.files : s.dir.files[i].name = s.dir.files[j].name => i = j
        /\ \A i \in DOMAIN s.dir.files : s.dir.files[i].name # s.dir.base.name
        /\ s.files \subseteq [in : STRING, name : STRING]

\* What is meant by the flags, or by a host: the name of a service and a hyphen may be ahead
\* of that of the project, and the address of a remote after them, or alone.
Flag(s)  == IF s.remote = "" THEN CloudRemote ELSE s.remote
Label(m) == m.service \o m.project
MeantByFlags(s, m) ==
    /\ m.project = IF s.env = "" THEN s.project ELSE Append(s.project, s.env)
    /\ m.service = s.service
    /\ m.remote = IF s.remote = Current THEN "" ELSE Flag(s)
MeantByHost(s, m) ==
    /\ m.service \in Seq(STRING) /\ Len(m.service) <= 1
    /\ m.project \in Seq(STRING) /\ m.project # NoName
    /\ \/ m.remote \in DOMAIN Remotes /\ s.url = <<Label(m)>> \o Remotes[m.remote]
       \/ /\ s.url = <<Label(m)>> /\ m.service # NoName
          /\ \A r \in DOMAIN Remotes : s.url # Remotes[r]
          /\ m.remote = IF s.remote = Current THEN DefaultRemote ELSE Flag(s)
MeantByAddress(s, m) ==
    /\ m.service = NoName /\ m.project = NoName
    /\ m.remote \in DOMAIN Remotes /\ s.url = Remotes[m.remote]
ASSUME MeantAssumption ==
    \A s \in Starts :
        IF s.url = <<>> THEN s.env = "" \/ Len(s.project) = 1 => MeantByFlags(s, s.meant)
                        ELSE MeantByHost(s, s.meant) \/ MeantByAddress(s, s.meant)

\* Projects and services have names, and instances a project; what is typed is a number, or a
\* name that is none.
ASSUME CloudsAssumption ==
    LET Titles == Seq(STRING) \ {NoName}
    IN  Clouds \subseteq Seq([id : Titles, services : Seq(Titles)])
ASSUME TypedAssumption ==
    Typed \subseteq [num : {NotANumber}, name : Seq(STRING)] \cup [num : Int, name : {NoName}]
ASSUME InstancesAssumption ==
    IsFiniteSet(Instances) /\ \A i \in Instances : i.project # NoName

VARIABLES
    start,     \* the command, its flags and where it is run
    cloud,     \* the projects on the server
    pc,        \* where Process is, and then the command
    host,      \* SetupHost: project, service, instance, remote
    endpoint,  \* the remote of the context
    tokens,    \* the remotes with a token
    asked,     \* what was asked: nothing, project, service, or either of them
    selectors, \* the numbered rows that were shown
    shown,     \* the projects that were shown
    answer,    \* what was typed
    instances, \* the instances that were shown, numbered
    choice     \* what was typed for them

listing == <<asked, selectors, shown, answer, instances, choice>>
quiet   == <<start, cloud>>
vars    == <<quiet, pc, host, endpoint, tokens, listing>>

setup == Commands[start.cmd]
Has(option) == option \in setup.options
Requires(field) == field \in setup.requires
Blank == [num |-> NotANumber, name |-> NoName]

Init ==
    /\ start \in Starts
    /\ cloud \in Clouds
    /\ pc = "preRun"
    /\ host = [project |-> NoName, service |-> NoName, instance |-> NoName, remote |-> ""]
    /\ endpoint = ""
    /\ tokens \in {{}, {DefaultRemote}}
    /\ asked = "nothing"
    /\ selectors = <<>>
    /\ shown = <<>>
    /\ answer = Blank
    /\ instances = <<>>
    /\ choice = Blank

\* A step that ends the command with an error, or with a panic.
Ends(how) == pc' = how /\ UNCHANGED <<host, endpoint, tokens, listing>>

-----------------------------------------------------------------------------
(* The flags, and the host of --url. *)

Parsed(project, service, remote, fromHost) ==
    [project |-> project, service |-> service, remote |-> remote, fromHost |-> fromHost]

\* The remotes at an address.  Two may have the same one.
ParseRemoteAddress(address) == {r \in DOMAIN Remotes : Remotes[r] = address}

\* The first label is "service" or "service-project" alone, "project" or
\* "service-project" before the address of a remote; it is split at its first hyphen.
\* Mutant: at the last one.
SplitLast(label) ==
    IF Len(label) = 1 THEN <<NoName, label>> ELSE <<Front(label), <<Last(label)>>>>
splitHyphenedHostPart(label) ==
    IF Len(label) = 1 THEN <<NoName, label>> ELSE <<<<Head(label)>>, Tail(label)>>

parseHost(url) ==
    LET parts == splitHyphenedHostPart(Head(url)) IN
    IF Len(url) = 1
    THEN {IF parts[1] = NoName THEN Parsed(NoName, parts[2], "", FALSE)
                               ELSE Parsed(parts[2], parts[1], "", FALSE)}
    ELSE {Parsed(parts[2], parts[1], r, TRUE) : r \in ParseRemoteAddress(Tail(url))}

\* The whole host may be the address of a remote.  A host that names a remote does not go
\* with --remote, and one with several remotes is refused.
parseWithHost(url, remote) ==
    LET whole == ParseRemoteAddress(url)
        below == IF Len(url) = 1 THEN {} ELSE ParseRemoteAddress(Tail(url))
    IN  IF whole # {}
        THEN {Parsed(NoName, NoName, r, TRUE) :
                  r \in IF Cardinality(whole) = 1 /\ remote = "" THEN whole ELSE {}}
        ELSE {IF remote = "" THEN f ELSE [f EXCEPT !.remote = remote] :
                  f \in {g \in parseHost(url) :
                           /\ Cardinality(below) < 2
                           /\ remote # "" => g.remote = "" /\ remote \in DOMAIN Remotes}}

\* What the flags say, or nothing if they do not go together.
parse(url, project, service, remote) ==
    IF url # <<>>
    THEN {f \in parseWithHost(url, remote) : project = NoName /\ service = NoName}
    ELSE {f \in {Parsed(project, service, remote, FALSE)} :
             remote = "" \/ remote \in DOMAIN Remotes}

\* --remote is given: even as "".
RemoteChanged == start.remote # Current

\* Without a remote, the default one, unless --remote is given and empty.
ParseWithDefaultCustomRemote(project) ==
    {[f EXCEPT !.remote = IF @ = "" /\ (RemoteChanged \/ f.fromHost) THEN CloudRemote
                          ELSE IF ~f.fromHost /\ ~RemoteChanged THEN DefaultRemote ELSE @] :
        f \in parse(start.url, project, start.service, IF RemoteChanged THEN start.remote ELSE "")}

\* --environment adds to --project, that has none.
injectEnvFlagInProject ==
    IF start.env = "" THEN {start.project}
    ELSE {Append(p, start.env) : p \in {q \in {start.project} : Len(q) = 1}}

\* A service without its project is forgiven to deploy, that asks for it.
tryParseFlags ==
    {f \in UNION {ParseWithDefaultCustomRemote(project) : project \in injectEnvFlagInProject} :
        f.service # NoName /\ f.project = NoName =>
            "service" \in setup.pattern /\ Has("allow missing") /\ start.url = <<>>}

Parse ==
    /\ pc = "parse"
    /\ \/ /\ tryParseFlags = {}
          /\ Ends("failed")
       \/ \E f \in tryParseFlags :
            /\ pc' = "load"
            /\ host' = [project |-> f.project, service |-> f.service,
                        instance |-> start.instance, remote |-> f.remote]
            /\ UNCHANGED <<endpoint, tokens, listing>>
    /\ UNCHANGED quiet

\* deploy takes the project of its directory.
getProjectFromCurrentWorkingDirectory ==
    IF host.project = NoName /\ Has("workdir")
    THEN {ProjectOf(list) : list \in Overview(start.dir)} ELSE {host.project}

allowed == \A field \in {"project", "service"} :
              host[field] # NoName => field \in setup.pattern

SetEndpoint(r) == r \in DOMAIN Remotes /\ endpoint' = r

loadValues ==
    /\ pc = "load"
    /\ LET r == IF host.remote = "" THEN CloudRemote ELSE host.remote IN
       \/ /\ ~allowed \/ getProjectFromCurrentWorkingDirectory = {} \/ r \notin DOMAIN Remotes
          /\ Ends("failed")
       \/ /\ allowed
          /\ \E project \in getProjectFromCurrentWorkingDirectory :
                host' = [host EXCEPT !.project = project, !.remote = r]
          /\ SetEndpoint(r)
          /\ pc' = "instance"
          /\ UNCHANGED <<tokens, listing>>
    /\ UNCHANGED quiet

-----------------------------------------------------------------------------
(* The instance that is named, and the questions. *)

Matches(id, project, service) ==
    {i \in Instances : /\ IsPrefix(id, i.id)
                       /\ project # NoName => i.project = project
                       /\ service # NoName => i.service = service}

\* An instance alone tells the service and the project, if it is the only one.
tryInstance ==
    /\ pc = "instance"
    /\ LET named == /\ "instance" \in setup.pattern
                    /\ host.instance \notin {NoName, anyInstance}
                    /\ host.service = NoName \/ host.project = NoName
           found == Matches(host.instance, host.project, host.service)
       IN \/ ~named /\ pc' = "missing"
             /\ UNCHANGED <<host, endpoint, tokens, listing>>
          \/ named /\ Ends("failed")             \* the request fails, or finds none or many
          \/ /\ named
             /\ Cardinality(found) = 1
             /\ \E i \in found :
                    host' = [host EXCEPT !.project = i.project, !.service = i.service,
                                         !.instance = i.id]
             /\ pc' = "missing"
             /\ UNCHANGED <<endpoint, tokens, listing>>
    /\ UNCHANGED quiet

Missing ==
    \/ "project" \in setup.prompts /\ host.project = NoName
    \/ "service" \in setup.prompts /\ host.service = NoName

\* Questions are asked in a terminal, after a login.
maybePromptMissing ==
    /\ pc = "missing"
    /\ pc' = IF ~start.tty THEN "check"
             ELSE IF ~Missing THEN "missing instance"
             ELSE IF endpoint \notin tokens THEN "login first" ELSE "ask"
    /\ UNCHANGED <<host, endpoint, tokens, listing>>
    /\ UNCHANGED quiet

\* A login saves the token of the remote of the context; or it fails, or is canceled.
\* Mutant: that of the default remote.
SaveForDefault(from, to) ==
    /\ pc = from
    /\ pc' = to /\ tokens' = tokens \cup {DefaultRemote}
    /\ UNCHANGED <<host, endpoint, listing, start, cloud>>
authenticateOrCancel(from, to) ==
    /\ pc = from
    /\ \/ Ends("failed")
       \/ pc' = to /\ tokens' = tokens \cup {endpoint}
          /\ UNCHANGED <<host, endpoint, listing>>
    /\ UNCHANGED quiet

Login == \/ authenticateOrCancel("login first", "ask")
         \/ authenticateOrCancel("login", "run")

\* Which question it is; commands with another set up are not implemented.
Question ==
    IF "service" \notin setup.pattern \/ Has("hide services") THEN "project"
    ELSE IF Requires("service") THEN "service"
    ELSE IF Requires("project") THEN "either" ELSE "project"

\* The list is fetched: of all projects, or of one, that has to exist.
Fetched ==
    IF host.project = NoName THEN {cloud}
    ELSE {<<p>> : p \in {q \in ToSet(cloud) : q.id = host.project}}

Selection(project, service) == [project |-> project, service |-> service]
Services(p) == [i \in DOMAIN p.services |-> Selection(p.id, p.services[i])]
Listed(p)   == IF host.service = NoName THEN Services(p)
               ELSE SetToSeq({s \in ToSet(Services(p)) : s.service = host.service})

\* printProjects numbers the projects, if services are hidden, or else the services.
\* Mutant: a project without services takes a number too.
NumberAll(projects, hide) ==
    FlattenSeq([i \in DOMAIN projects |->
        IF hide \/ Listed(projects[i]) = <<>> THEN <<Selection(projects[i].id, NoName)>>
                                              ELSE Listed(projects[i])])
printProjects(projects, hide) ==
    FlattenSeq([i \in DOMAIN projects |->
        IF hide THEN <<Selection(projects[i].id, NoName)>> ELSE Listed(projects[i])])

Once ==
    /\ pc = "ask"
    /\ \/ Ends("failed")
       \/ /\ \E projects \in Fetched :
                /\ shown' = projects
                /\ selectors' = printProjects(projects, Question = "project")
          /\ asked' = Question
          /\ pc' = "prompt"
          /\ UNCHANGED <<host, endpoint, tokens, answer, instances, choice>>
    /\ UNCHANGED quiet

\* A number is looked up in the rows, from 1; the others are an error.  Zero and negative
\* numbers are not checked, and index out of the slice.
getSelection(typed) ==
    IF typed.num = NotANumber \/ Len(selectors) < typed.num THEN [is |-> "failed"]
    ELSE IF typed.num <= 0 THEN [is |-> "panic"]
    ELSE [is |-> "row", row |-> selectors[typed.num]]

Row(project, service) == [is |-> "row", row |-> Selection(project, service)]

\* What was typed, as the name of a project to create.
Text(typed) == IF typed.num = NotANumber THEN typed.name ELSE <<ToString(typed.num)>>

ProjectsNamed(name) == {i \in DOMAIN shown : shown[i].id = name /\ name # NoName}

\* Of all the services of the projects that were fetched, also those that were not listed.
ServicesNamed(name) ==
    {s \in UNION {ToSet(Services(shown[i])) : i \in DOMAIN shown} : s.service = name}

PromptProject(typed) ==
    LET pick == getSelection(typed) IN
    IF ProjectsNamed(typed.name) # {} THEN Row(typed.name, NoName)
    ELSE IF pick.is = "failed" /\ Has("create") THEN Row(Text(typed), NoName)
    ELSE pick

\* A service of several projects has to be chosen by its number.
selectPromptService(typed) ==
    LET named == ServicesNamed(typed.name) IN
    IF typed = Blank \/ Cardinality(named) > 1 THEN [is |-> "failed"]
    ELSE IF named # {} THEN [is |-> "row", row |-> CHOOSE s \in named : TRUE]
    ELSE getSelection(typed)

\* A name of both a project and a service is asked again.
selectPromptProjectOrService(typed) ==
    IF ProjectsNamed(typed.name) = {} \/ Cardinality(ServicesNamed(typed.name)) > 1
    THEN selectPromptService(typed)
    ELSE IF ServicesNamed(typed.name) = {} THEN Row(typed.name, NoName)
    ELSE [is |-> "dedup"]

Picked(typed) == CASE asked = "project" -> PromptProject(typed)
                   [] asked = "service" -> selectPromptService(typed)
                   [] OTHER             -> selectPromptProjectOrService(typed)

\* What is missing is taken from the row.
promptMissingProjectOrService(row) ==
    /\ host' = [host EXCEPT !.project = IF @ = NoName THEN row.project ELSE @,
                            !.service = IF @ = NoName THEN row.service ELSE @]
    /\ pc' = "missing instance"

Prompt ==
    /\ pc = "prompt"
    /\ \/ Ends("failed")
       \/ \E typed \in Typed :
            /\ answer' = typed
            /\ LET pick == Picked(typed) IN
               \/ /\ pick.is = "row"
                  /\ promptMissingProjectOrService(pick.row)
               \/ /\ pick.is # "row"
                  /\ pc' = pick.is
                  /\ UNCHANGED host
            /\ UNCHANGED <<endpoint, tokens, asked, selectors, shown, instances, choice>>
    /\ UNCHANGED quiet

dedupPromptProjectOrService ==
    /\ pc = "dedup"
    /\ \/ Ends("failed")
       \/ /\ \E row \in {Selection(answer.name, NoName)} \cup ServicesNamed(answer.name) :
                promptMissingProjectOrService(row)
          /\ UNCHANGED <<endpoint, tokens, listing>>
    /\ UNCHANGED quiet

\* The instances of the service are fetched; a running one that is alone is taken.
printAndPrompt ==
    /\ pc = "missing instance"
    /\ LET found == SetToSeq(Matches(NoName, host.project, host.service))
           asks  == "instance" \in setup.prompts /\ host.instance = NoName
           alone == Has("auto select") /\ Len(found) = 1 /\ found[1].running
       IN \/ ~asks /\ pc' = "check" /\ UNCHANGED <<host, endpoint, tokens, listing>>
          \/ asks /\ Ends("failed")
          \/ /\ asks /\ alone
             /\ host' = [host EXCEPT !.instance = found[1].id]
             /\ pc' = "check"
             /\ UNCHANGED <<endpoint, tokens, listing>>
          \/ /\ asks /\ ~alone
             /\ instances' = found
             /\ pc' = "instance prompt"
             /\ UNCHANGED <<host, endpoint, tokens, asked, selectors, shown, answer, choice>>
    /\ UNCHANGED quiet

\* Nothing stands for #1.  A number out of range, or the start of no ID, is taken for an ID;
\* the start of several is asked again.
maybeGetOption(typed) ==
    LET text  == Text(typed)
        found == {i \in ToSet(instances) : IsPrefix(text, i.id)}
    IN  IF typed = Blank
        THEN IF instances = <<>> THEN [is |-> "failed"]
             ELSE [is |-> "row", id |-> instances[1].id]
        ELSE IF typed.num \in DOMAIN instances
        THEN [is |-> "row", id |-> instances[typed.num].id]
        ELSE IF Cardinality(found) > 1 THEN [is |-> "instance prompt"]
        ELSE [is |-> "row", id |-> IF found = {} THEN text ELSE (CHOOSE i \in found : TRUE).id]

PromptInstance ==
    /\ pc = "instance prompt"
    /\ \/ Ends("failed")
       \/ \E typed \in Typed :
            /\ choice' = typed
            /\ LET pick == maybeGetOption(typed) IN
               \/ /\ pick.is = "row"
                  /\ host' = [host EXCEPT !.instance = pick.id]
                  /\ pc' = "check"
               \/ /\ pick.is # "row"
                  /\ pc' = pick.is
                  /\ UNCHANGED host
            /\ UNCHANGED <<endpoint, tokens, asked, selectors, shown, answer, instances>>
    /\ UNCHANGED quiet

\* The end of loadValues, and of Process.
Complete == \A field \in {"project", "service", "instance"} :
                Requires(field) => host[field] # NoName

Process ==
    /\ pc = "check"
    /\ \/ ~Complete /\ Ends("failed")
       \/ /\ Complete
          /\ host' = [host EXCEPT !.instance = IF @ = anyInstance THEN NoName ELSE @]
          /\ pc' = IF Requires("auth") /\ endpoint \notin tokens THEN "login" ELSE "run"
          /\ UNCHANGED <<endpoint, tokens, listing>>
    /\ UNCHANGED quiet

ProcessStep ==
    \/ Parse \/ loadValues \/ tryInstance \/ maybePromptMissing \/ Login \/ Once \/ Prompt
    \/ dedupPromptProjectOrService \/ printAndPrompt \/ PromptInstance \/ Process

-----------------------------------------------------------------------------
(* Properties *)

Acts == pc = "run"

\* A command acts on what its flags, or the host given with --url, name.  A project with an
\* environment is the exception: its host is read as a service of a project, as if the
\* project were the service (Host and parseHost).
NamedTargetIsKept ==
    LET named     == start.meant
        ambiguous == start.url # <<>> /\ named.service = NoName /\ Len(named.project) > 1
    IN  Acts /\ ~ambiguous =>
            /\ named.project # NoName => host.project = named.project
            /\ named.service # NoName => host.service = named.service
            /\ named.remote # ""      => host.remote = named.remote

\* What was asked for is what was picked.  A number is that of a row on the screen: of a
\* project if services are hidden, and else of a service.  A name is that of the project, or
\* of the service if there is no other service of that name; only deploy takes one that is
\* not on the server.  An instance that was listed belongs to the service.
AnswerNamesTheTarget ==
    Acts /\ asked # "nothing" =>
        LET picked == Selection(host.project, IF asked = "project" THEN NoName ELSE host.service)
            byName == answer.num = NotANumber IN
        /\ answer.num \in DOMAIN selectors =>
               selectors[answer.num] = picked /\ (asked = "project" \/ picked.service # NoName)
        /\ byName => answer.name \in {picked.project, picked.service}
        /\ byName /\ answer.name = picked.service =>
               \A s \in ServicesNamed(picked.service) : s = picked
        /\ ~Has("create") => \E p \in ToSet(shown) :
               p.id = picked.project /\ picked.service \in ToSet(p.services) \cup {NoName}
        /\ \A i \in ToSet(instances) : i.id = host.instance =>
               i.project = host.project /\ i.service = host.service

\* A command that needs a login acts with the token of the remote that it acts on, and no
\* list is asked for without one.
TokenIsOfTheRemote ==
    /\ Acts /\ Requires("auth") => endpoint = host.remote /\ endpoint \in tokens
    /\ asked # "nothing" => endpoint \in tokens
=============================================================================
