---------------------------- MODULE DeployPackage ----------------------------
(***************************************************************************)
(* `lcp deploy` on: what deployment.Deploy.Do puts in a temporary          *)
(* directory, commits there and pushes, by git, by git with the token in   *)
(* the address, or by go-git (packages deployment, transport/git and       *)
(* transport/gogit), and the group that the answer of the server names.    *)
(* Module Deploy has the signals and the clean up, DeployFeedback what is  *)
(* watched then.  The other commands end where Process does.               *)
(***************************************************************************)
EXTENDS DeployPrepare

CONSTANTS Junk,        \* names on the list of ignore.Patterns, .git included
          Quoted,      \* names that git quotes: those with a space, for one
          Unreadable,  \* names of what can not be copied: links to directories, for one
          Answers      \* what the git server may print: sequences of messages

\* A message of the git server: any text, wedeploy= and the groups of the builds, or
\* wedeployError=; what comes after a wedeploy= may be no JSON.
Message == [is : {"text", "builds", "error", "garbled"}, groups : Seq(STRING)]

ASSUME AnswersAssumption == Answers \subseteq Seq(Message)

VARIABLES
    ignored,  \* d.ignored
    workDir,  \* the files of the temporary directory
    copied,   \* how many services were copied there
    index,    \* the files that are staged
    commit,   \* the files that are committed
    remote,   \* the remote of the repository: its name and its address
    pushed,   \* what the git server got
    printed,  \* what it printed
    groupUID  \* d.groupUID

package == <<ignored, workDir, copied, index, commit, remote, pushed, printed, groupUID>>
allVars == <<vars, prepared, package>>

None == {}    \* no remote, or nothing pushed: a set of at most one

DeployInit ==
    /\ PrepareInit
    /\ ignored = {} /\ workDir = {} /\ copied = 0 /\ index = {} /\ commit = {}
    /\ remote = None /\ pushed = None /\ printed = <<>> /\ groupUID = ""

Pass(from, to) == pc = from /\ pc' = to /\ Keep /\ UNCHANGED prepared

\* An error of any step: the defer of Do cleans up.
CleanupPackage == workDir' = {}
StepFails(from) ==
    /\ Pass(from, "failed")
    /\ CleanupPackage
    /\ UNCHANGED <<ignored, copied, index, commit, remote, pushed, printed, groupUID>>

experimental == params.experimental

-----------------------------------------------------------------------------
(* The files. *)

\* A file below the working directory: the directory it is in, and its name.
Files == start.files \cup {[in |-> e.name, name |-> "LCP.json"] :
             e \in {e \in ToSet(start.dir.files) \cup {start.dir.base} :
                       e.isDir /\ e.pkg.has = "LCP.json"}}

InBase(s) == s.location = start.dir.base.name
Below(s)  == {f \in Files : f.in = s.location \/ InBase(s)}

\* A .gitignore of each service names `here`, one of the working directory `above`.
Ignores(f) == f.name \in start.gitignore.here \cup start.gitignore.above

\* Those that are copied with the service, and are in the repository then.
IgnoresCopied(s, name) ==
    name \in start.gitignore.here \cup (IF InBase(s) THEN start.gitignore.above ELSE {})

\* `git status --ignored --porcelain`, whose paths are taken as they are printed; go-git
\* matches the patterns against a list of files that is always empty.
ProcessIgnored ==
    IF experimental THEN {} ELSE {f \in Files : Ignores(f) /\ f.name \notin Quoted}

Skips(f) == f.name \in Junk \/ f \in ignored

\* A file of the package is of a service; LCP.json has contents, the others are as they were.
Copy(s, f) == [service |-> s.location, in |-> f.in, name |-> f.name, pkg |-> <<>>]

-----------------------------------------------------------------------------
(* The package. *)

Setup_ == Pass("deploy", "init") /\ UNCHANGED package
RepoInit == Pass("init", "ignored") /\ UNCHANGED package

SetIgnored ==
    /\ Pass("ignored", "copy")
    /\ ignored' = ProcessIgnored
    /\ UNCHANGED <<workDir, copied, index, commit, remote, pushed, printed, groupUID>>

This == services[copied + 1]

walkFn == {f \in Below(This) : ~Skips(f)}

copyServiceFiles ==
    /\ copied < Len(services)
    /\ \A f \in walkFn : f.name \notin Unreadable
    /\ Pass("copy", "overwrite")
    /\ workDir' = workDir \cup {Copy(This, f) : f \in walkFn}
    /\ UNCHANGED <<ignored, copied, index, commit, remote, pushed, printed, groupUID>>

\* strings.ToLower
ToLower(id) == [i \in DOMAIN id |-> IF id[i] \in DOMAIN start.lower THEN start.lower[id[i]]
                                    ELSE id[i]]

\* The ID is set, and the image if one is imposed; the project is taken out.
getPreparedServicePackage(s) ==
    <<[id |-> ToLower(s.id), project |-> NoName,
       image |-> IF params.image THEN "imposed" ELSE s.image]>>

\* Mutant: LCP.json is left as it is if there is one.
KeepServicePackage ==
    /\ Pass("overwrite", "copy")
    /\ LET lcp == Copy(This, [in |-> This.location, name |-> "LCP.json"]) IN
       workDir' = IF lcp \in workDir THEN workDir
                  ELSE workDir \cup {[lcp EXCEPT !.pkg = getPreparedServicePackage(This)]}
    /\ copied' = copied + 1
    /\ UNCHANGED <<ignored, index, commit, remote, pushed, printed, groupUID>>

\* LCP.json is written, over its copy if it was copied.
prepareAndModifyServicePackage ==
    /\ Pass("overwrite", "copy")
    /\ LET lcp == Copy(This, [in |-> This.location, name |-> "LCP.json"]) IN
       workDir' = (workDir \ {lcp}) \cup {[lcp EXCEPT !.pkg = getPreparedServicePackage(This)]}
    /\ copied' = copied + 1
    /\ UNCHANGED <<ignored, index, commit, remote, pushed, printed, groupUID>>

\* `git add` leaves out what a .gitignore names that was copied; go-git adds all.
stageService(s) ==
    {f \in workDir : f.service = s.location /\ (experimental \/ ~IgnoresCopied(s, f.name))}

Stage ==
    /\ copied = Len(services)
    /\ Pass("copy", "commit")
    /\ index' = UNION {stageService(services[i]) : i \in DOMAIN services}
    /\ UNCHANGED <<ignored, workDir, copied, commit, remote, pushed, printed, groupUID>>

Commit ==
    /\ Pass("commit", IF params.copyPackage = "none" THEN "remote" ELSE "copy package")
    /\ commit' = index
    /\ UNCHANGED <<ignored, workDir, copied, index, remote, pushed, printed, groupUID>>

copyGitPackage == Pass("copy package", "remote") /\ UNCHANGED package

-----------------------------------------------------------------------------
(* The upload. *)

Token == endpoint \in tokens

\* On Windows a git between 2.5.1 and 2.13.3 gets the token in the address of the remote.
useCredentialHack == params.hack /\ ~experimental

getGitRemote == IF endpoint = CloudRemote THEN <<"lcp">> ELSE <<"lcp", endpoint>>

GitServer ==
    [name |-> getGitRemote, address |-> Remotes[endpoint], withToken |-> useCredentialHack /\ Token,
     project |-> host.project]

AddRemote ==
    /\ Pass("remote", "push")
    /\ remote' = {GitServer}
    /\ UNCHANGED <<ignored, workDir, copied, index, commit, pushed, printed, groupUID>>

\* With the token of the address, or the one that the helper prints or go-git is given.
Received ==
    {[address |-> r.address, project |-> r.project, commit |-> commit,
      withToken |-> IF useCredentialHack THEN r.withToken ELSE Token] :
        r \in {r \in remote : r.name = getGitRemote}}

Announces(m) == m.is # "text"

\* Mutant: the messages are looked through for a deployment.
ExtractAny(messages) ==
    LET builds == SelectSeq(messages, LAMBDA m : m.is = "builds") IN
    IF builds # <<>> /\ builds[1].groups # <<>> THEN {builds[1].groups[1]} ELSE {}

\* The first message that says anything says all: the group of the first build, if there
\* is one, though it may be blank.
SaidFirst(messages) ==
    {i \in DOMAIN messages :
        Announces(messages[i]) /\ \A j \in 1 .. i - 1 : ~Announces(messages[j])}
Extract(messages) ==
    {messages[i].groups[1] :
        i \in {i \in SaidFirst(messages) : messages[i].is = "builds" /\ messages[i].groups # <<>>}}

\* git ends well, and its answer is read.
Push ==
    /\ pc = "push" /\ Keep /\ UNCHANGED prepared
    /\ pushed' = Received
    /\ printed' \in Answers
    /\ IF Extract(printed') # {}
       THEN /\ pc' = "watch"
            /\ groupUID' \in Extract(printed')
            /\ UNCHANGED workDir
       ELSE /\ pc' = "failed"
            /\ CleanupPackage
            /\ UNCHANGED groupUID
    /\ UNCHANGED <<ignored, copied, index, commit, remote>>

\* git fails, the server having the commit or not.
PushFails ==
    /\ Pass("push", "failed")
    /\ pushed' \in {None, Received}
    /\ CleanupPackage
    /\ UNCHANGED <<ignored, copied, index, commit, remote, printed, groupUID>>

-----------------------------------------------------------------------------
(* The end. *)

Groups == UNION {UNION {ToSet(m.groups) : m \in ToSet(a)} : a \in Answers}

\* A repository is built by the server, that answers with the group and the services.
DeployFromGitRepository ==
    /\ pc = "load services" /\ fromRepo
    /\ \/ Fails /\ UNCHANGED package
       \/ /\ \E ids \in {<<>>} \cup {<<id>> : id \in Names} :
                services' = [i \in DOMAIN ids |-> [location |-> "", id |-> ids[i],
                                                   project |-> host.project, image |-> ""]]
          /\ pc' = "watch"
          /\ groupUID' \in IF services' = <<>> THEN {""} ELSE Groups
          /\ Keep
          /\ UNCHANGED <<created, confirmed, ignored, workDir, copied, index, commit, remote,
                         pushed, printed>>

\* The watch ends.
Wait ==
    /\ Pass("watch", IF params.follow THEN "follow" ELSE "done")
    /\ CleanupPackage
    /\ UNCHANGED <<ignored, copied, index, commit, remote, pushed, printed, groupUID>>

\* The logs of no service: a panic.
followLogs ==
    /\ Pass("follow", IF services = <<>> THEN "panic" ELSE "done")
    /\ UNCHANGED package

DoSteps == {"deploy", "init", "ignored", "copy", "overwrite", "commit", "copy package", "remote",
            "watch"}

DeployStep ==
    \/ Setup_ \/ RepoInit \/ SetIgnored \/ copyServiceFiles \/ prepareAndModifyServicePackage
    \/ Stage \/ Commit \/ copyGitPackage \/ AddRemote \/ Push \/ PushFails
    \/ \E step \in DoSteps : StepFails(step)
    \/ DeployFromGitRepository \/ Wait \/ followLogs

Ended == \/ pc \in {"failed", "panic", "done"}
         \/ pc = "run" /\ ~IsDeploy

DeployNext == \/ ProcessStep /\ UNCHANGED <<prepared, package>>
              \/ PrepareStep /\ UNCHANGED package
              \/ DeployStep
              \/ Ended /\ UNCHANGED allVars

Spec == DeployInit /\ [][DeployNext]_allVars

-----------------------------------------------------------------------------
(* Properties *)

Deploys == pc \in DoSteps \cup {"push", "follow", "done"}

\* The services are those of a list that was read, with their images and the IDs they have; or
\* the directory itself, if it has none.
OfDirectory(list) ==
    IF list = <<>>
    THEN Len(services) = 1 /\ services[1].location = start.dir.base.name
    ELSE /\ Len(services) = Len(list)
         /\ \A i \in DOMAIN list :
                /\ services[i].location = list[i].location
                /\ services[i].image = list[i].image
                /\ list[i].id \in {NoName, services[i].id} \/ host.service # NoName

\* Several services, of which some have no ID: the user said to go on.
AgreedOn(list) == Len(list) > 1 /\ Empty(list) # {} => "continue" \in confirmed

\* What is handed over to be deployed: services with an ID, all of the project that is
\* asked for and that exists by then, which is created after a yes; they are those of the
\* directory, all of them, and if some of several had no ID it was made up after a yes; two
\* have the same ID only if one of them had none, since the IDs made up are not compared with
\* the others; --service is the ID of the only one; an image that is imposed goes over no two
\* different ones.
ServicesAreReady ==
    Deploys =>
        /\ OnServer(host.project)
        /\ created # NoName => created = host.project /\ "create project" \in confirmed
        /\ \A s \in ToSet(services) : s.project = host.project /\ s.id # NoName
        /\ ~fromRepo =>
            /\ services # <<>>
            /\ \E list \in Overview(start.dir) :
                  /\ OfDirectory(list)
                  /\ AgreedOn(list)
                  /\ \A i, j \in DOMAIN services :
                        i # j /\ services[i].id = services[j].id =>
                            NoName \in {list[i].id, list[j].id}
            /\ host.service # NoName => Len(services) = 1 /\ services[1].id = host.service
            /\ params.image => Cardinality({s.image : s \in ToSet(services)} \ {""}) < 2

\* What .gitignore leaves out: not with --experimental, nor a name that git quotes if the
\* .gitignore that names it stays behind.
LeftOut(s, f) ==
    /\ ~experimental
    /\ Ignores(f)
    /\ f.name \in Quoted => IgnoresCopied(s, f.name)

\* A package has the files of a service and no others, and its LCP.json, if no .gitignore
\* that goes with it names LCP.json.
Exact(p, s) ==
    LET Of(c) == c.service = s.location
        lcp   == {c \in p.commit : Of(c) /\ c.in = s.location /\ c.name = "LCP.json"} IN
    /\ {c.service : c \in p.commit} \subseteq {v.location : v \in ToSet(services)}
    /\ {[in |-> c.in, name |-> c.name] : c \in {c \in p.commit : Of(c)} \ lcp} =
           {f \in Below(s) : /\ f.name \notin Junk /\ ~LeftOut(s, f)
                             /\ f # [in |-> s.location, name |-> "LCP.json"]}
    /\ lcp = {} => IgnoresCopied(s, "LCP.json") /\ ~experimental
    /\ \A c \in lcp :
           /\ c.pkg # <<>>
           /\ c.pkg[1].id = ToLower(s.id)
           /\ c.pkg[1].project = NoName
           /\ params.image => c.pkg[1].image = "imposed"
    /\ Cardinality(lcp) < 2

\* The package that the server gets has the files of the services and no others, without
\* junk and without what .gitignore leaves out; and an LCP.json of each service with the ID
\* that was decided on and the image, unless a .gitignore that goes with it names LCP.json.
PackageIsExact == \A p \in pushed : \A s \in ToSet(services) : Exact(p, s)

\* What is watched is a group that the server announced, before any error, for a commit
\* that it got for this project of this remote, with the token of the remote.
GroupIsOfThePush ==
    IsDeploy /\ pc \in {"watch", "follow", "done"} /\ ~fromRepo =>
        /\ \E i \in DOMAIN printed :
               /\ printed[i].is = "builds" /\ groupUID \in ToSet(printed[i].groups)
               /\ \A j \in 1 .. i - 1 : printed[j].is = "text"
        /\ \E p \in pushed :
               p.address = Remotes[host.remote] /\ p.withToken /\ p.project = host.project
=============================================================================
