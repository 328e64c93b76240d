---------------------------- MODULE DeployPrepare ----------------------------
(***************************************************************************)
(* `lcp deploy` from its flags to the call of deployment.Deploy.Do, that   *)
(* DeployPackage goes on with: the checks before and after Process, the    *)
(* project that is created if there is none, the services of the directory *)
(* and their IDs (packages command/deploy, its remote and getproject).     *)
(***************************************************************************)
EXTENDS Target

CONSTANTS Names,     \* service IDs that may be typed
          RandomIDs  \* IDs that may be made up

\* A blank line takes the ID that is offered; one that is made up is an adjective and a
\* number.
ASSUME NamesAssumption == NoName \notin Names \cup RandomIDs

VARIABLES
    services,  \* rd.services, or what the build of a repository returned
    created,   \* the project that was created, or <<>>
    confirmed  \* the questions that were answered with yes

prepared == <<services, created, confirmed>>
params   == start.params

PrepareInit ==
    /\ Init
    /\ services = <<>>
    /\ created = NoName
    /\ confirmed = {}

IsDeploy == start.cmd = "deploy"
fromRepo == params.repo

Keep   == UNCHANGED <<host, endpoint, tokens, listing>> /\ UNCHANGED quiet
Fails  == pc' = "failed" /\ Keep /\ UNCHANGED prepared
Step(from) == pc = from /\ Keep
Test(from, ok, to) == Step(from) /\ pc' = (IF ok THEN to ELSE "failed") /\ UNCHANGED prepared

-----------------------------------------------------------------------------
(* Checks of the flags. *)

checkMetadata == params.metadata # "broken"

maybePreRunDeployFromGitRepo ==
    fromRepo => start.service = NoName /\ params.copyPackage = "none"

preRun == Test("preRun", IsDeploy => checkMetadata /\ maybePreRunDeployFromGitRepo, "parse")

handleCopyPackage == params.copyPackage # "missing"

\* Home, / and the like are not deployed from.
getWorkingDirectory == ~params.forbidden

local       == handleCopyPackage /\ getWorkingDirectory
fromGitRepo == ~params.image /\ params.metadata = "none"

run == IsDeploy /\ Test("run", IF fromRepo THEN fromGitRepo ELSE local, "get project")

-----------------------------------------------------------------------------
(* The project: MaybeID. *)

OnServer(p) == p = created \/ \E i \in DOMAIN cloud : cloud[i].id = p

\* The project exists, in the region that is asked for; or the user says to create it.
MaybeID ==
    \/ /\ Step("get project")
       /\ OnServer(host.project)
       /\ pc' = IF params.region \in {"", "r1"} THEN "load services" ELSE "failed"
       /\ UNCHANGED prepared
    \/ pc = "get project" /\ Fails
    \/ Test("get project", ~OnServer(host.project), "confirmation")

confirmation ==
    \/ /\ Step("confirmation")
       /\ pc' = "create project"
       /\ confirmed' = confirmed \cup {"create project"}
       /\ UNCHANGED <<services, created>>
    \/ pc = "confirmation" /\ Fails

Create ==
    \/ /\ Step("create project")
       /\ created' = host.project
       /\ pc' = "load services"
       /\ UNCHANGED <<services, confirmed>>
    \/ pc = "create project" /\ Fails

-----------------------------------------------------------------------------
(* The services of the directory. *)

\* A directory without services is one, without an LCP.json.
Blanket == [location |-> start.dir.base.name, id |-> host.service, project |-> NoName,
            image |-> ""]

\* All go to the project of the command, whatever their LCP.json says.
loadServicesListFromPath ==
    {[i \in 1 .. Len(found) |-> [found[i] EXCEPT !.project = host.project]] :
        found \in {IF list = <<>> THEN <<Blanket>> ELSE list : list \in Overview(start.dir)}}

Empty(list) == {i \in DOMAIN list : list[i].id = NoName}

\* Mutant: --service with several services.
CheckLess(list) ==
    IF Len(list) = 1 /\ host.service # NoName THEN "use --service"
    ELSE IF Empty(list) = {} \/ host.service # NoName THEN "remap"
    ELSE IF Len(list) > 1 THEN "continue?"
    ELSE IF start.tty THEN "type ID" ELSE "failed"

\* Mutant: blank IDs of several services are made up without asking.
CheckUnasked(list) ==
    IF host.service # NoName THEN IF Len(list) = 1 THEN "use --service" ELSE "failed"
    ELSE IF Empty(list) = {} \/ Len(list) > 1 THEN "remap"
    ELSE IF start.tty THEN "type ID" ELSE "failed"

\* --service is for one service; several without an ID need a yes, and one a typed ID.
checkServiceIDs(list) ==
    IF host.service # NoName THEN IF Len(list) = 1 THEN "use --service" ELSE "failed"
    ELSE IF Empty(list) = {} THEN "remap"
    ELSE IF Len(list) > 1 THEN "continue?"
    ELSE IF start.tty THEN "type ID" ELSE "failed"

loadServicesList ==
    \/ /\ Step("load services") /\ ~fromRepo
       /\ \E list \in loadServicesListFromPath :
            /\ services' = list
            /\ pc' = checkServiceIDs(list)
       /\ UNCHANGED <<created, confirmed>>
    \/ pc = "load services" /\ ~fromRepo /\ loadServicesListFromPath = {} /\ Fails

\* The base name of the directory, in lower case, or an adjective and a number.
getServiceIDFromBaseDirOrRandom(s) ==
    IF s.location \in DOMAIN start.lower THEN {<<start.lower[s.location]>>} ELSE RandomIDs

checkServiceParameter ==
    /\ \/ pc = "use --service" /\ services' = [services EXCEPT ![1].id = host.service]
       \/ /\ pc = "type ID"
          /\ \E id \in Names \cup getServiceIDFromBaseDirOrRandom(services[1]) :
                services' = [services EXCEPT ![1].id = id]
    /\ pc' = "remap"
    /\ Keep
    /\ UNCHANGED <<created, confirmed>>

checkEmptyIDOnMultipleDeployment ==
    \/ /\ Step("continue?")
       /\ pc' = "remap"
       /\ confirmed' = confirmed \cup {"continue"}
       /\ UNCHANGED <<services, created>>
    \/ pc \in {"continue?", "type ID"} /\ Fails

\* Each blank ID becomes that of its directory; whether another has it is not looked at.
remapServicesWithEmptyIDs ==
    /\ Step("remap")
    /\ \E ids \in {f \in [Empty(services) -> UNION {getServiceIDFromBaseDirOrRandom(services[i]) :
                                                       i \in Empty(services)}] :
                      \A i \in Empty(services) :
                          f[i] \in getServiceIDFromBaseDirOrRandom(services[i])} :
          services' = [i \in DOMAIN services |->
                          IF i \in Empty(services) THEN [services[i] EXCEPT !.id = ids[i]]
                          ELSE services[i]]
    /\ pc' = "check image"
    /\ UNCHANGED <<created, confirmed>>

\* Mutant: each is compared with the first one, if that has an image.
FirstImages ==
    \A i \in DOMAIN services : services[1].image \in {"", services[i].image}
\* --image does not go over several images: no service after the first one with an image
\* has another, blank or not.
SameImages ==
    \A i, j \in DOMAIN services :
        i < j /\ services[i].image # "" => services[j].image = services[i].image

checkImage == Test("check image", params.image => SameImages, "deploy")

-----------------------------------------------------------------------------
PrepareStep ==
    \/ preRun \/ run \/ MaybeID \/ confirmation \/ Create \/ loadServicesList
    \/ checkServiceParameter \/ checkEmptyIDOnMultipleDeployment \/ remapServicesWithEmptyIDs
    \/ checkImage
=============================================================================
