------------------------------ MODULE Services ------------------------------
(***************************************************************************)
(* The commands that change a service or a project, run by several people  *)
(* at once: domain, env-var, scale, restart, delete, new, and the choice   *)
(* of the project of a deployment.  Each is a sequence of requests; one    *)
(* may be refused, or done and its answer lost, and then it is run again.  *)
(*                                                                         *)
(* The custom domains of a service are changed by reading them all and     *)
(* writing them all; an environment variable has an address of its own.    *)
(* There is one project, with one service.                                 *)
(***************************************************************************)
EXTENDS Naturals, Sequences, FiniteSets, SequencesExt

CONSTANTS Clients,  \* the people
          MaxRuns,  \* bound: times that each of them runs the command
          Commands  \* the commands that they run, a record each, see Command

Regions == {"r1", "r2"}

\* Domains and variables are numbers, in the order of their names.  The arguments are
\* a list of names, or of numbers on the list that is shown, when it is asked for.
Command == [op : {"domain add", "domain rm", "env add", "env rm", "env replace", "scale",
                  "restart", "delete service", "delete project", "new service",
                  "new project", "deploy"},
            asks : {"no", "arguments", "menu"},
            args : Seq(Nat),
            region : Regions \cup {""}]

ASSUME ServicesAssumption == MaxRuns \in Nat \ {0} /\ \A cmd \in Commands : cmd \in Command

VARIABLES
    project,   \* server: its region, or "" if there is none
    service,   \* server: whether it exists
    domains,   \* server: its custom domains, a sequence
    env,       \* server: the environment variables that are set
    scale,     \* server: number of instances
    version,   \* server: the number of changes of the domains
    client,    \* each command: where it is, what it read and what it said
    wanted,    \* the domains there would be, were each change made at once
    raced      \* whether domains were written over others that had not been read

server == <<project, service, domains, env, scale, version, wanted, raced>>
vars   == <<server, client>>

ClientState ==
    [cmd : Commands, runs : 1 .. MaxRuns,
     pc : {"start", "show", "choose", "next", "put", "check", "confirm", "do", "run", "create",
           "done"},
     shown : Seq(Nat), todo : Seq(Nat), args : Seq(Nat), read : Seq(Nat), base : Nat,
     said : Seq(Nat), applied : Seq(Nat),
     ret : {"none", "ok", "error", "canceled", "panic"}]

Start(cmd) == [cmd |-> cmd, runs |-> 1, pc |-> "start", shown |-> <<>>, todo |-> <<>>,
               args |-> <<>>, read |-> <<>>, base |-> 0, said |-> <<>>, applied |-> <<>>,
               ret |-> "none"]

Init ==
    /\ \E exists \in BOOLEAN :
        /\ project = IF exists THEN "r1" ELSE ""
        /\ service = exists
        /\ domains \in IF exists THEN {<<>>, <<1>>} ELSE {<<>>}
    /\ env = ToSet(domains)
    /\ scale = 1
    /\ version = 0
    /\ client \in [Clients -> {Start(cmd) : cmd \in Commands}]
    /\ wanted = ToSet(domains)
    /\ raced = FALSE

Op(c) == client[c].cmd.op
At(c, pc) == client[c].pc = pc

\* The fields that a step changes.
Updated(state, fields) ==
    [f \in DOMAIN state |-> IF f \in DOMAIN fields THEN fields[f] ELSE state[f]]
Change(c, fields) == client' = [client EXCEPT ![c] = Updated(@, fields)]

Quiet == UNCHANGED server

Goto(c, from, to) == At(c, from) /\ Change(c, [pc |-> to]) /\ Quiet

Ends(c, ret) == Change(c, [pc |-> "done", ret |-> ret])

\* A request is answered with a fault, that is JSON or not; or not at all.
Fails(c) == Ends(c, "error") /\ Quiet

\* The command is run again after an error: whoever runs it chooses.
Again(c) ==
    /\ client[c].ret = "error"
    /\ client[c].runs < MaxRuns
    /\ client' = [client EXCEPT ![c] = [Start(@.cmd) EXCEPT !.runs = client[c].runs + 1]]
    /\ Quiet

\* A request that writes: it is done, it is done and the answer is lost, or it is
\* not done.  What is done is Effect; yes and lost are the fields of the client then.
Write(c, possible, Effect, yes, lost) ==
    \/ possible /\ Effect /\ (Change(c, yes) \/ Change(c, lost))
    \/ Fails(c)

-----------------------------------------------------------------------------
(* Lists of domains or of variables, shown and selected from. *)

Lists == {"domain add", "domain rm", "env add", "env rm"}
IsDomain(c) == Op(c) \in {"domain add", "domain rm"}

Sorted(s) == CHOOSE list \in [1 .. Cardinality(s) -> s] :
                \A i, j \in 1 .. Cardinality(s) : i < j => list[i] < list[j]

\* The answer is a name, or a number on the list that was shown; or neither, 0.
getDomainOrOption(answer, shown) == IF answer \in DOMAIN shown THEN shown[answer] ELSE 0

Chosen(cmd, shown) ==
    IF cmd.asks # "no" /\ cmd.op \in {"domain rm", "env rm"}
      THEN [i \in DOMAIN cmd.args |-> getDomainOrOption(cmd.args[i], shown)]
      ELSE cmd.args

Asks(c) == client[c].cmd.asks

\* A menu, or a question about what to remove, comes after the list.
DomainCmdRun(c) == IsDomain(c) /\ Asks(c) = "menu" /\ Goto(c, "start", "show")

domainAddRun(c) == Op(c) = "domain add" /\ Asks(c) # "menu" /\ Goto(c, "start", "choose")

domainRemoveRun(c) ==
    /\ Op(c) = "domain rm" /\ Asks(c) # "menu"
    /\ Goto(c, "start", IF Asks(c) = "no" THEN "choose" ELSE "show")

IsEnv(c) == Op(c) \in {"env add", "env rm"}

EnvCmdRun(c) == IsEnv(c) /\ Asks(c) = "menu" /\ Goto(c, "start", "show")

\* A file with arguments, or a file that is not there, is an error.
envSetRun(c) ==
    /\ Op(c) \in {"env add", "env replace"} /\ Asks(c) # "menu"
    /\ Goto(c, "start", "choose") \/ (At(c, "start") /\ Fails(c))

envUnsetRun(c) ==
    /\ Op(c) = "env rm" /\ Asks(c) # "menu"
    /\ Goto(c, "start", IF Asks(c) = "no" THEN "choose" ELSE "show")

\* A list is shown: it is what a later answer selects from.
ShowList(c, list) ==
    /\ At(c, "show")
    /\ \/ /\ service
          /\ Change(c, [pc |-> "choose", shown |-> Sorted(list)])
          /\ Quiet
       \/ Fails(c)

ShowDomains(c) == IsDomain(c) /\ ShowList(c, ToSet(domains))

ShowEnvs(c) == IsEnv(c) /\ ShowList(c, env)

\* Mutant: the number is looked up in the list of now.
ChooseNow(c) ==
    LET args == Chosen(client[c].cmd, Sorted(IF IsDomain(c) THEN ToSet(domains) ELSE env))
    IN  /\ At(c, "choose")
        /\ Change(c, [pc |-> "next", todo |-> args, args |-> args])
        /\ Quiet

\* The arguments, or the answer to a question.
Choose(c) ==
    LET args == Chosen(client[c].cmd, client[c].shown)
    IN  /\ At(c, "choose")
        /\ Change(c, [pc |-> "next", todo |-> args, args |-> args])
        /\ Quiet

getAddDomains(c) == Op(c) = "domain add" /\ Choose(c)

getDeleteDomains(c) == Op(c) = "domain rm" /\ Choose(c)

\* No variable at all is an error here, and so is one without a value.
getAddEnvs(c) ==
    /\ Op(c) = "env add"
    /\ \/ client[c].cmd.args # <<>> /\ Choose(c)
       \/ At(c, "choose") /\ Fails(c)

getDeleteEnvKeys(c) == Op(c) = "env rm" /\ Choose(c)

\* After the menu of domain and env-var, the list is shown again.
ShowAgain(c) ==
    /\ At(c, "next")
    /\ client[c].todo = <<>>
    /\ \/ Ends(c, "ok") /\ Quiet
       \/ Asks(c) = "menu" /\ Fails(c)

DomainCmdEnds(c) == IsDomain(c) /\ ShowAgain(c)

EnvCmdEnds(c) == IsEnv(c) /\ ShowAgain(c)

This(c) == Head(client[c].todo)

\* The fields after the request for an argument: it is said, the next one is due.
Done(c) == [pc |-> "next", todo |-> Tail(client[c].todo), read |-> <<>>, base |-> 0,
            said |-> Append(client[c].said, This(c)),
            applied |-> Append(client[c].applied, This(c))]

\* It is done, and the answer is lost.
Lost(c) == [pc |-> "done", ret |-> "error", applied |-> Append(client[c].applied, This(c))]

GetDomains(c) ==
    /\ At(c, "next")
    /\ client[c].todo # <<>>
    /\ \/ service /\ Change(c, [pc |-> "put", read |-> domains, base |-> version]) /\ Quiet
       \/ Fails(c)

\* Both get the service first.
AddDomain(c) == Op(c) = "domain add" /\ GetDomains(c)

RemoveDomain(c) == Op(c) = "domain rm" /\ GetDomains(c)

maybeAppendDomain(list, d) == IF d \in ToSet(list) THEN list ELSE Append(list, d)

Without(list, d) ==
    LET others[i \in 0 .. Len(list)] ==
            IF i = 0 THEN <<>>
            ELSE IF list[i] # d THEN Append(others[i - 1], list[i]) ELSE others[i - 1]
    IN  others[Len(list)]

\* Mutant: a domain is added without a look at the others.
AppendDomain(list, d, op) ==
    IF op = "domain add" THEN Append(list, d) ELSE Without(list, d)

\* What is written, of what was read.
NewDomains(list, d, op) ==
    IF op = "domain add" THEN maybeAppendDomain(list, d) ELSE Without(list, d)

PutDomains(c) ==
    /\ domains' = NewDomains(client[c].read, This(c), Op(c))
    /\ wanted' = IF Op(c) = "domain add" THEN wanted \cup {This(c)} ELSE wanted \ {This(c)}
    /\ raced' = (raced \/ client[c].base # version)
    /\ version' = version + 1
    /\ UNCHANGED <<project, service, env, scale>>

updateDomains(c) == At(c, "put") /\ Write(c, service, PutDomains(c), Done(c), Lost(c))

-----------------------------------------------------------------------------
(* Environment variables. *)

SetEnvironmentVariable(c) ==
    /\ env' = env \cup {This(c)}
    /\ UNCHANGED <<project, service, domains, scale, version, wanted, raced>>

UnsetEnvironmentVariable(c) ==
    /\ env' = env \ {This(c)}
    /\ UNCHANGED <<project, service, domains, scale, version, wanted, raced>>

\* One request for each variable, until one fails.
AddEnv(c) ==
    /\ Op(c) = "env add" /\ At(c, "next")
    /\ client[c].todo # <<>>
    /\ Write(c, service, SetEnvironmentVariable(c), Done(c), Lost(c))

DeleteEnv(c) ==
    /\ Op(c) = "env rm" /\ At(c, "next")
    /\ client[c].todo # <<>>
    /\ Write(c, service, UnsetEnvironmentVariable(c), Done(c), Lost(c))

SetEnvironmentVariables(c) ==
    /\ env' = ToSet(client[c].cmd.args)
    /\ UNCHANGED <<project, service, domains, scale, version, wanted, raced>>

\* All at once; without arguments nothing is left.
Replace(c) ==
    LET all == client[c].cmd.args
    IN  /\ Op(c) = "env replace"
        /\ At(c, "choose")
        /\ Write(c, service, SetEnvironmentVariables(c),
                 [pc |-> "done", ret |-> "ok", args |-> all, said |-> all, applied |-> all],
                 [pc |-> "done", ret |-> "error", args |-> all, applied |-> all])

-----------------------------------------------------------------------------
(* scale, restart, delete. *)

\* Without an argument and without a terminal, args[0] is read; else a question.
getInstancesNumber(c) ==
    /\ Op(c) = "scale"
    /\ At(c, "start")
    /\ \/ client[c].cmd.args = <<>> /\ Ends(c, "panic")
       \/ client[c].cmd.args # <<>> /\ client[c].cmd.args[1] > 0 /\ Change(c, [pc |-> "check"])
       \/ client[c].cmd.args # <<>> /\ client[c].cmd.args[1] = 0 /\ Ends(c, "error")
    /\ Quiet

restartRun(c) == Op(c) = "restart" /\ Goto(c, "start", "check")

deleteRun(c) == Op(c) \in {"delete service", "delete project"} /\ Goto(c, "start", "check")

\* checkServiceExists, checkProjectOrServiceExists
checkServiceExists(c) ==
    \/ /\ IF Op(c) = "delete project" THEN project # "" ELSE service
       /\ Goto(c, "check", IF Op(c) \in {"scale", "restart"} THEN "do" ELSE "confirm")
    \/ At(c, "check") /\ Fails(c)

\* --force, or the ID is typed again; nothing, or anything else, is no deletion.
confirmation(c) ==
    \/ Goto(c, "confirm", "do")
    \/ At(c, "confirm") /\ \E ret \in {"ok", "error"} : Ends(c, ret) /\ Quiet

Finished   == [pc |-> "done", ret |-> "ok"]
Unanswered == [pc |-> "done", ret |-> "error"]

doScale(c) ==
    /\ Op(c) = "scale" /\ At(c, "do")
    /\ Write(c, service,
             scale' = client[c].cmd.args[1] /\ UNCHANGED <<project, service, domains, env,
                                                          version, wanted, raced>>,
             Finished, Unanswered)

doRestart(c) ==
    /\ Op(c) = "restart" /\ At(c, "do")
    /\ Write(c, service, UNCHANGED server, Finished, Unanswered)

\* The service is gone, with what it had.
Gone ==
    /\ service' = FALSE
    /\ domains' = <<>>
    /\ env' = {}
    /\ scale' = 1
    /\ version' = version + 1
    /\ wanted' = {}
    /\ UNCHANGED raced

doDelete(c) ==
    /\ At(c, "do")
    /\ \/ Op(c) = "delete service" /\ Write(c, service, Gone /\ UNCHANGED project, Finished, Unanswered)
       \/ Op(c) = "delete project" /\ Write(c, project # "", Gone /\ project' = "", Finished, Unanswered)

-----------------------------------------------------------------------------
(* new, and the project of a deployment. *)

\* new without IDs is a menu, that can be left; and a service takes no region.
newRun(c) ==
    /\ Op(c) \in {"new service", "new project"} /\ Asks(c) = "menu"
    /\ \/ Goto(c, "start", "run")
       \/ At(c, "start") /\ Ends(c, "canceled") /\ Quiet
       \/ Op(c) = "new service" /\ client[c].cmd.region # "" /\ At(c, "start") /\ Fails(c)

\* The ID and the type of the service are asked for when they are not given.
newServiceRun(c) ==
    /\ Op(c) = "new service"
    /\ \E from \in {"start", "run"} :
        /\ from = "start" => Asks(c) # "menu"
        /\ Goto(c, from, "create") \/ (At(c, from) /\ Fails(c))

createService(c) ==
    /\ Op(c) = "new service"
    /\ At(c, "create")
    /\ Write(c, project # "" /\ ~service,
             service' = TRUE /\ UNCHANGED <<project, domains, env, scale, version, wanted, raced>>,
             Finished, Unanswered)

\* The ID is asked for when it is not given, and the region, of a list.
newProjectRun(c) ==
    /\ Op(c) = "new project"
    /\ \E from \in {"start", "run"} :
        /\ from = "start" => Asks(c) # "menu"
        /\ Goto(c, from, "create") \/ (At(c, from) /\ Fails(c))

createProject(c) ==
    /\ Op(c) \in {"new project", "deploy"}
    /\ At(c, "create")
    /\ \E region \in IF client[c].cmd.region = "" THEN Regions ELSE {client[c].cmd.region} :
        Write(c, project = "",
              project' = region /\ UNCHANGED <<service, domains, env, scale, version, wanted, raced>>,
              Finished, Unanswered)

\* The project is there, in the region; there is none, and it is confirmed, or not;
\* or any other error.
MaybeID(c) ==
    /\ Op(c) = "deploy"
    /\ At(c, "start")
    /\ \/ /\ project # ""
          /\ IF client[c].cmd.region \in {"", project} THEN Ends(c, "ok") ELSE Ends(c, "error")
          /\ Quiet
       \/ project = "" /\ Goto(c, "start", "create")
       \/ project = "" /\ Ends(c, "canceled") /\ Quiet
       \/ Fails(c)

-----------------------------------------------------------------------------
Step(c) ==
    \/ Again(c) \/ DomainCmdRun(c) \/ domainAddRun(c) \/ domainRemoveRun(c)
    \/ EnvCmdRun(c) \/ envSetRun(c) \/ envUnsetRun(c)
    \/ ShowDomains(c) \/ ShowEnvs(c) \/ getAddDomains(c) \/ getDeleteDomains(c)
    \/ getAddEnvs(c) \/ getDeleteEnvKeys(c) \/ DomainCmdEnds(c) \/ EnvCmdEnds(c)
    \/ AddDomain(c) \/ RemoveDomain(c) \/ updateDomains(c) \/ AddEnv(c) \/ DeleteEnv(c) \/ Replace(c)
    \/ getInstancesNumber(c) \/ restartRun(c) \/ deleteRun(c) \/ checkServiceExists(c)
    \/ confirmation(c) \/ doScale(c) \/ doRestart(c) \/ doDelete(c)
    \/ newRun(c) \/ newServiceRun(c) \/ createService(c) \/ newProjectRun(c) \/ createProject(c) \/ MaybeID(c)

Next == \E c \in Clients : Step(c)

Spec == Init /\ [][Next]_vars

-----------------------------------------------------------------------------
TypeOK ==
    /\ project \in Regions \cup {""}
    /\ service \in BOOLEAN
    /\ domains \in Seq(Nat)
    /\ env \subseteq Nat
    /\ scale \in Nat /\ version \in Nat
    /\ wanted \subseteq Nat
    /\ raced \in BOOLEAN
    /\ client \in [Clients -> ClientState]

\* Each argument of a command is done once, in their order, up to the first error;
\* what the command says is done, and only the last one may be done and not said; the
\* variables of a replacement are done all at once, or none is.
\* A number selects what the list showed, whatever others did to it since.
ArgsAreDoneInOrder ==
    \A c \in Clients : LET k == client[c] IN
        /\ IsPrefix(k.said, k.applied)
        /\ IsPrefix(k.applied, k.args)
        /\ IF k.cmd.op = "env replace" THEN k.applied \in {k.said, k.args}
                                       ELSE Len(k.applied) <= Len(k.said) + 1
        /\ k.args # <<>> => k.args = Chosen(k.cmd, k.shown)
        /\ k.ret = "ok" /\ k.cmd.op \in Lists => k.said = k.args

\* Until somebody writes the domains over a change they had not read, the domains
\* are what they would be if every change was made at once, each of them once,
\* though each is read and written in two requests, and may be lost and repeated.
DomainsAreAtomic ==
    ~raced => /\ ToSet(domains) = wanted
              /\ \A i, j \in DOMAIN domains : domains[i] = domains[j] => i = j
=============================================================================
