# Verification of the `lcp` command-line interface

`lcp` is the command-line interface of Liferay Cloud Platform (before: WeDeploy CLI). It is
a short-lived program: one process per command, a configuration file shared by all
processes, a few goroutines per process, and a remote API. Most of its commands ask a
question and send one request. What is hard in it is

- the **deployment**: a temporary git repository, a push to a server that may have taken it
  when the push fails, a watch that polls the server and decides how each service ended, and
  a signal that may come at any time;
- the **terminal**: live messages that a goroutine redraws while the command edits and ends
  them;
- **what outlives the process**: the configuration `~/.lcp`, written by the command and by
  the goroutine that looks for a new version of the CLI, and the log of usage metrics,
  written and purged by several processes;
- the **login**: an HTTP server on localhost whose requests race each other, a shutdown and
  a timeout;
- **what a command acts on**: a project, a service, an instance and a remote that come from
  flags, from a host name, from the directory, or from a number typed at a list; and the
  files that go up from a directory;
- **what is watched**: lists and logs that a goroutine fetches and another prints, and a
  remote shell whose events come in any order;
- **other people**: commands that read, decide and write while someone else does.

These are modelled here in TLA+ and checked with TLC on small instances. Every safety
property that a passing run checks is proved with TLAPS besides, for every value of the
constants; so is the refinement of the abstract outcome. Liveness is checked only.

Paths below are relative to `src/`. `PROJECT.json` maps each definition to the lines it
models.

## 1. Inventory

| component | state | operations | talks to | what is hard | what makes it correct |
|---|---|---|---|---|---|
| **Deployment feedback** (`deployment/internal/feedback`, `activities`) | `states[service]`: current activity, visited types; services only built; live messages; retries in the header | `Start`, `Wait` (poll, sync, judge), `StopFailedUpload` | API (polls), live messages, `ctxsignal`, `errorhandler.SetAfterError` | feed re-read at each poll and applied by position, services that are only built, failed polls, signals | the verdict is that of the server; every settled service is recognised; `Wait` ends; a signal ends it |
| **Deploy command** (`deployment`, `command/deploy`) | temporary directory, transport, watch, flags | `Do`: temporary directory, `Setup`, prepare, push, watch, clean up; `DeployFromGitRepository` | git (or go-git), server, feedback, live messages | each of ten steps may fail; deferred cleanup; signal before, during, after the push | nil error only for a deployment; nothing left behind; ticker stopped; right error |
| **Git transports** (`deployment/transport`, `groupuid`) | repository in the temporary directory | `Init`, `ProcessIgnored`, `Stage`, `Commit`, `AddRemote`, `Push` | git, server | three ways to push; ignored files found before the copy and after it; an answer among other lines | what is pushed is the services and nothing else; the group that is watched is that of the push |
| **Live messages** (`waitlivemsg`) | messages (text, frame counter), list of messages, channel of the ticker, wait group, terminal | `AddMessage`, `RemoveMessage`, `PlayText`, `StopText`, `Wait`, `Stop` | every command that waits | three locks, two channels, a goroutine that redraws | after `Stop` nothing is drawn, and the last frame shows the last texts; `Stop` returns |
| **Configuration** (`config`, `remotes`) | `~/.lcp`: default remote, remotes with credentials, versions, analytics id; a copy in each process | `Load`, `Save`; edits by `login`, `logout`, `remote *`, `update`, `uninstall` | all commands, update checker | whole-file writes by two threads and several processes; in-place truncation | what a command saved stays; the file is never torn; a removed file stays removed |
| **Update checker** (`update`) | parameters read before the request; a channel with its end | `Check`, `notifierCheck`, `Feedback`, `Notify`, `Update` | update server, configuration | a goroutine that saves what it read long before; canceled when the command is over | it does not undo the command; the notice is true; the program ends |
| **Program** (`command`, `errorhandler`) | order of load, check, command, report, feedback, exit | `run` | all | exits on errors without joining goroutines | the above, on every exit |
| **Usage metrics** (`metrics`) | `~/.lcp_metrics`, one line per event | `Rec`, `TrySubmit` (read, send, purge), `SubmitEventuallyOnBackground` | metrics server, child process | read, send and purge are three steps among other processes; kills | no event is lost but in the one known race; none is sent twice but for known reasons |
| **Login** (`login`, `loginserver`, `usertoken`) | error, token and user of `Service`, shared by the handlers | `Listen`, `Serve`, handlers, `Credentials`, `saveUser` | browser, configuration | unlocked fields, shutdown, timeout | user and token, or an error; terminal and browser agree; it ends |
| **Lists and their watch** (`list`, `listinstances`) | projects, last error, retry, channel of updates, numbers of the rows | `Once`, `Start` (watch), prompts | API, terminal | send on a channel with a lock held; three readings for one frame; the number typed is an index | the frame is what was fetched; it ends; a number is the row it stands at |
| **Logs** (`logs`) | filter: since, after insert id | `List`, `Watch`, `prepareNext` | API | cursor of two fields against a log that grows and is filtered twice | lines in order, each once, none skipped |
| **Remote shell** (`shell`, `command/exec`) | handlers, channels, connection, terminal mode | `Run`, `Fork`, `Streams`, handlers of events | web socket, terminal | handlers registered after the question; one slot for errors; a select between three ends | the exit code is that of the process; the terminal is restored; it ends |
| **Commands on a service** (`services`, `projects`, `command/*`) | none; a list that was read and is written back | one request per argument; menus; confirmations | API | requests refused, or done and not answered; other clients | arguments done in order, said as done; domains not lost |
| **Target of a command** (`flagsfromhost`, `cmdflagsfromhost`, prompts) | project, service, instance, remote, endpoint | `Process`: parse, working directory, login, questions | configuration, API, terminal | the same name from four sources; each command allows other ones | what was named is what is acted on, with the token of its remote |
| **Questions before a deployment** (`command/deploy/remote`, `getproject`, `inspector`, `findresource`) | services found, ids remapped, image | `checkServiceIDs`, `checkImage`, `MaybeID` | file system, API | the project created between a check and its use | what is deployed was agreed on |
| diagnostics, autocomplete, presentation, data | little | | | | not modelled: input, output and wording |

### How they interact

```
 lcp process                                               server
 +-------------------------------------------------------+
 | command.run: load -> check -> command -> metrics ->    |
 |              feedback of the check -> exit             |
 |    |            |         |                            |
 |  config     checker    deployment.Do -- git push ----------> accepts
 |    |         (go)         |                            |     builds, deploys
 |    |            |      feedback.Watch <-- polls -------------- activities
 |    |            |         |                            |
 |    |            |      waitlivemsg --(go) ticker -> terminal
 |  ~/.lcp <-------+      ctxsignal <- SIGINT, SIGTERM    |
 +-------------------------------------------------------+
 ~/.lcp_metrics <- every process;  child process: read, send, purge
```

The hazards of these parts, each with its line and the properties that answer for it, are
the list `hazards` of `PROJECT.json`. Those without a property say why.

## 2. Modules

| module | role |
|---|---|
| `DeployOutcome` | abstract: services settle once; the command gives one verdict, true of all of them, or gives up |
| `DeployFeedback` | `feedback.Watch` and the server's feed |
| `Deploy` | EXTENDS `DeployFeedback`: the whole command around the watch |
| `Deploy_proofs` | theorems about both: first the watch alone, then the command |
| `WaitLiveMsg` | the live messages, at the granularity of critical sections |
| `ConfigStore` | configuration file, commands that edit it, update checker, several processes |
| `ConfigStore_proofs` | theorems about it |
| `Metrics` | the log of events and its submissions, several processes |
| `LoginServer` | the login in the browser |
| `Account_proofs` | theorems about `Metrics` and `LoginServer`: what is kept about a user, and sent |
| `ListWatch` | `lcp list` and its subcommands, once or watching |
| `ListWatch_proofs` | theorems about it |
| `LogWatch` | `lcp log` |
| `LogWatch_proofs` | theorems about it |
| `ExecArgs` | the command line of `lcp exec`: operators |
| `Shell` | EXTENDS `ExecArgs`: `lcp exec` and `lcp shell` |
| `Terminal_proofs` | theorems about `Shell` and `WaitLiveMsg`: what the terminal shows, and how it is left |
| `Services` | the commands that change services and projects, several clients |
| `Services_proofs` | theorems about it |
| `ServicesDir` | what is in a directory: operators |
| `Target` | EXTENDS `ServicesDir`: every command with a host, from its flags to its questions |
| `DeployPrepare` | EXTENDS `Target`: `lcp deploy` from there to the services it hands over |
| `DeployPackage` | EXTENDS `DeployPrepare`: the package, its push and the answer |
| `DeployPackage_proofs` | theorems about `Target`, `DeployPrepare` and `DeployPackage` |
| `MC*` | instances for TLC |

A process that composes components does so by EXTENDS: `Deploy` takes the variables and the
steps of the watch and adds its own; a step of the watch is a step of the command
(`WatchStep`), and the server's step is guarded by the push it accepted. `DeployOutcome` is
instantiated twice, with a refinement mapping from the watch and another from the whole
command. `Target`, `DeployPrepare` and `DeployPackage` are one process, `lcp`, in the order
of its calls; what happens once it watches is `Deploy`.

### DeployFeedback

The server is external: it appends activities to the feed of each service, following a life
cycle given by the constant `Follows`, and decides which services are only built (`skips`;
the guess of `projects.SkippedDeploy` is taken as what the server does). The watch keeps
what `swatch` keeps (`current`, `visited`), the spinner of each service (`playing`), the
lines of the quiet log (`prints`), the retries in the header and the hook that offers to
open the logs.

| action | code |
|---|---|
| `markBuildOnlyServices` | asks for the builds; its error is printed (`buildsErr`) and ignored |
| `SendPoll`, `Interrupted` | the head of the loop in `wait`, by whether the context is canceled |
| `PollPending`, `PollFinal` | an answer: `sync` of the whole feed, then either another tick or `setFinalStates` and `finishError`/`notifySucceeded` |
| `PollError`, `PollNotFound` | a failed poll is counted and tried again, a 404 ends the watch |
| `Signal` | `ctxsignal` |
| `Emit` | server |

A poll is one step: it touches only state of the watch, and the feed only grows, so an
answer is a feed of some time between question and answer, and the step stands at that time.
The signal is looked at at the head of the loop; a poll that fails because of the
cancelation is a `PollError`.

- `SuccessIsTrue`, `FailureIsTrue`: the verdict against the whole feed (`Truth`), not
  against what the watch remembers of it.
- `SpinnersMatchStates`: a relation between two switches of the code.
- `PrintedOnce`: for any number of polls.
- `ImplementsOutcome`: refinement of `DeployOutcome`.
- `WaitEnds`: liveness. Once every service settled, `Wait` returns, but for `WaitsForBuilt`:
  the request for the builds failed, and a service is only built (section 5). A signal ends it
  in any case.

### Deploy

`step` walks through `Do`; every step of the transport may fail, and fails if the context
was canceled before it starts (`exec.CommandContext`; copying the services does not look at
the context). `AcceptPush` is the server's: between it and the end of `git push` a failure
or a signal leaves a deployment that goes on. The errors are kept by kind: `toolate` is the
exit code 64 of an interrupted watch. `DeployFromGitRepository` enters at `Build`.

- `NilMeansDeployed`, `TooLateIsTrue`: what the user reads is true of the server.
- `NothingLeftBehind`: on every path. `TickerStopped` is a theorem, and follows from the
  shape of `Do`; `DeployReturns` is what it is for.
- `DeployImplementsOutcome`: the whole command against the abstract outcome.
- `DeployReturns`: liveness, with the exception of `WaitEnds`.

### WaitLiveMsg

Two threads. One step is one critical section or one operation of a channel; `getSymbol` has
two sections, and an update of the counter in between is lost. `tickerdMutex` is a Go
RWMutex: a waiting writer holds back new readers. The loop returns from inside its `select`
and so keeps its read lock for ever, which is harmless only as long as nobody asks for the
write lock again; the model keeps it. Edits of the caller (`PlayText`, `StopText`, adding
and removing messages) are free, as commands make them. `missed` is history: `Stop` came
before `Wait` made its channel, and found none to signal on. `Kept` is the list of
messages without the removed ones, as a recursive function over its length, so that it can be
proved about. Each property says what holds otherwise:

- `TickerIsOver`, `LastFrameIsCurrent`: after `Stop` nobody draws, and the terminal shows
  the last texts.
- `StopEnds`: liveness.

### ConfigStore

A process loads the file (or fails to), makes an analytics id and saves, applies the changes
of a past version and saves, starts the checker or does not, runs one command, and waits for
the checker when the command ends well. A command is its edit of the memory and a `Save`;
`Save` is `Compose`, `Truncate`, `Write`, for each thread, because `ini.File.SaveTo` opens
the file with `O_TRUNC` and writes it. The list of remotes is behind a pointer: the copy of
the parameters the checker takes shares it, while the default remote and the versions are
copied. Of the parameters only what the properties tell apart is kept: default remote, next
and past version, analytics id, and of a remote whether it exists and has credentials.
`alone`, `overlap` and `wanted` are history: whether another process ran meanwhile, whether
the two threads saved at once, and what the command left in memory. `FilesAssumption` says
that what a file without a configuration holds (nothing, no text, a text that does not
parse) is no configuration.

- `SoloPersists`: what a command did to the remotes is on the disk when it ends well, though
  the checker writes back what it read before.
- `NotTorn`: a process that ends well does not leave a truncated file. (One that is killed
  may: the next one starts from an empty file, which the model has.)
- `ProcessEnds`: the checker is canceled before it is waited for.

### Metrics

Commands append their event; submissions read, send and purge, in three steps among the
steps of other processes, and may be killed between any two. The server may have the events
although the request failed. `raced` collects the events appended while a submission was
between read and purge, `blurred` says that one of the four reasons for a second delivery
happened.

- `LossNeedsRace`: the read-truncate race is the only way to lose an event.
- `ExactlyOnce`: without a reason named in `blurred`, none arrives twice.

### LoginServer

Each request is a goroutine; the handlers, the goroutine that shuts the server down and the
command share the fields of `Service` without a lock, so that every assignment and every
read is a step. Requests to the home page from a good origin have no effect and are left
out. `Expire` is the timeout of `Listen`.

- `LoginNeedsUser`: no interleaving of bad, foreign and sign-up requests logs in.
- `PageIsTrue`: with one request in time, browser and terminal say the same. (With two they
  need not: the fields are shared. That is why it says so.)
- `LoginEnds`: a request that stays open does not keep the login from ending.

### ListWatch

A list is the number of its version on the server. `update` is the goroutine: it waits for
its rate, fetches, and in `updateHandler` stores and signals with the lock held; `main`
receives the signal, then reads `lastError` and `Projects`, and draws rows and header, in
steps of its own. `list` and `listinstances` are the same code twice and one model; the
subcommands `projects` and `services` of `lcp list` watch as well, without a signal to end
them.

- `ScreenIsCurrent`: with no signal on its way, the frame is the last answer or its error.
- `ListEnds`, `ChangeIsShown`: liveness, but for `Stuck`, the deadlock of section 5.

### LogWatch

A line is its place in the log; its timestamp may be older than the one before, equal or
missing. The server finds the lines after `AfterInsertID` and not before `Since`, up to
`Limit`; the client filters by services and instance. `pool`, `prepareNext`, `logRun` are as
in the code. An answer is the set of the places it has lines of (the server answers in the
order of the log), and what is printed is the sequence of these sets.

- `LinesAreOrdered`: each line asked for at most once, and in order.
- `NoLineIsSkipped`: nothing before the cursor is missing but what is `Late`.
- `LinesAreFollowed`: liveness, but for `Late` and `Starved` (section 5), and the watch
  ends.

### Shell

Four threads: `Run` in its `select`, the goroutine `run` that talks to the server, the read
loop of the socket that calls the handlers one at a time, the goroutine of standard input, which closes it when it returns
(`CloseStdin`); and a server that goes through the conversation or says an error at any point. An event
without a handler is lost; a handler that finds `p.err` full blocks the read loop. The mode of
the terminal can be changed only while standard input is open (`Start`, `Restore`), and the
error of a failed `Restore` is only logged.
`ExecArgs` has the words of the command line: which of them are of `lcp`.

- `ChildArgsAreKept`: what comes after the first word is the remote command, unread.
- `ExitIsReported`, `TerminalIsRestored`: against every order of the three ends, and of the
  close of standard input.
- `ShellEnds`: liveness, but for `Unheard` (section 5).

### Services

Each client runs one of twenty commands, up to twice: menu, list shown, choice,
confirmation, one request per argument. A request is refused, done, or done and not answered
(`Write`); one that was not answered is an error (`Unanswered`), which the user may repeat
(`Again`). `client` has what each was shown, still has to do, said and did (`Updated` is one
field of it); `wanted` is the abstract set of domains, on which every change is atomic, and
`raced` tells that somebody wrote over a list they had not read. `Sorted` and `Without` are
the list of a set, and a list without an element.

- `ArgsAreDoneInOrder`: a failure leaves a prefix done and said, and one that may be done
  and not said. A replacement of all variables is one request: all or none of them. (The
  proof asked for this case: with two variables and a lost answer both are done and none
  said, and the instance had replaced one only. It replaces two now.)
- `DomainsAreAtomic`: as long as nobody raced, the list is the abstract set, retries
  included.

### Target, ServicesDir, DeployPrepare

`start` is a command with its flags, the terminal and the directory it is run in;
`start.meant` is what whoever wrote the flags or the host name meant by them. A name is a
sequence of words, since hosts are cut at hyphens and dots. `Commands` is the table of
`SetupHost` of all 28 commands. `Process` is an action per call: `Parse`, the project of the
working directory, `loadValues`, the login, the list that is shown, the answer, the
instance. `ServicesDir` has the functions that read directories, as sets of what they
return: none if they fail.

`DeployPrepare` goes on where `Process` returns for `deploy`: the checks before (`preRun`),
the project asked for and created (`MaybeID`, `confirmation`, `Create`), the services of the
directory, their IDs, their image.

- `NamedTargetIsKept`: no source of names goes over what was named, for every command.
- `AnswerNamesTheTarget`: the number or name typed is what the screen showed for it, and was
  there.
- `TokenIsOfTheRemote`: the endpoint in force is of the remote, however it was changed and
  whether a login was needed in between.

### DeployPackage

A file is the directory it is in and its name; a package is the files of each service. What
`.gitignore` does is two decisions, `ProcessIgnored` before the copy and `stageService`
after it, on different files. `Push` covers the three transports: git with the helper, git
with the token in the address (on Windows), go-git. What the git server prints is a sequence
of messages.

- `ServicesAreReady`: what is handed over: the services read from the directory, in their
  order, with an ID each, the blank ones of several made up after a yes; project; image.
- `PackageIsExact`: what the server gets, file by file; its exceptions are those of section
  5.
- `GroupIsOfThePush`: the group that is watched was announced, before any error, for a push
  to the project and with the token of the remote.

## 3. Runs

| run | instance | shows |
|---|---|---|
| `feedback` | 2 services, every activity type on courses of up to 5 activities, 1 retry; the request for the builds may fail | all properties of the watch |
| `deploy` | 2 services, one activity type of each kind; the request for the builds may fail | the command on every path |
| `wlm` | 2 messages, 2 texts, 2 symbols, 2 edits | `Stop` is clean and returns |
| `config` | 2 processes one after the other, 2 remotes, 2 versions, 10 commands | the file keeps what commands did |
| `metrics` | 3 processes | losses and duplicates have the named reasons only |
| `login` | 2 requests, 2 users | the login is right in every interleaving |
| `login_timeout` | the same | **violation**: a timeout saves an empty user and token and reports success |
| `list_watch` | 2 versions, 2 failures in a row | the screen follows the server |
| `log_watch` | 3 lines, 2 timestamps, answers of 2 lines, 1 failure | the terminal follows the log |
| `shell_run` | one process; lines of up to 5 arguments | `lcp exec` and `lcp shell` end well |
| `services_clients` | 2 clients, 20 commands, 2 runs each | what commands leave done |
| `deploy_directory` | 28 commands and their flags, 4 remotes, 2 clouds, 16 directories, packages with 12 pairs of `.gitignore` | targets, questions, packages |

### Bounds, and why they are enough

- *Services* (2): the watch treats services alike and relates them only by "all are final"
  and "one failed". Two have every combination; the theorems hold for any number.
- *Life cycles* (`ShortCycle`, `BriefCycle`): what the watch does depends on which types it
  has seen and which comes last, so courses are short and together have every type, the
  rollback after a failure included. The theorems hold for every `Follows` that ends with a
  success and lets only failures follow a failure.
- *MaxRetries* (1): the counter is a number in the header; 0, 1 and 2 (the extra one by a
  cancelation) tell a reset from none. Theorems: any bound.
- *Processes of the configuration* (2, not overlapping): the second reads what the first and
  its checker left. Two that overlap overwrite each other's whole file, in the code as in
  the model, where `Overlapping = TRUE` allows it. The properties are about a process that is
  `alone`; the theorems have them for overlapping processes too, of any number.
- *Versions* (2): running and newer.
- *Processes of the metrics* (3): the smallest number in which one event is appended between
  read and purge of one submission while another submission runs.
- *Requests* (2): the smallest number that races.
- *Messages, texts, symbols, edits* (2 each): a message that was there and one that is
  added, an old text and a new one, a counter that wraps, an edit during a frame and one
  after.
- *Versions of a list* (2), *failures in a row* (2): a change between any two steps of a
  frame, and a count that goes on and resets. The deadlock takes two updates after the one
  that is drawn.
- *Lines, times, limit* (3, 2, 2): the least with a full answer and a line behind it, and a
  pair of lines that are out of order or equal.
- *Arguments of a line* (`MaxArgs` = 5; the theorem is for any length): `lcp`'s flag with a
  value, `exec`, another flag with one, and words; all words of that length are checked.
- *Clients, runs* (2, 2): a change of one between the reading and the writing of another,
  and a retry of a lost answer.
- *Remotes* (4): the default cloud, a default of the configuration, and two with one
  address, which no host tells apart. *Clouds* (2): a project without services, a service
  named as a project, a service of two projects, a project with an environment.
  *Directories* (16): a list, not a product; together they have each outcome of each check.
- *Files* (6 names in 3 directories): one that is plain, one ignored by the `.gitignore` of
  a service, one by that above, one whose name git quotes, one that is junk, one that can
  not be copied.

Deadlock is not checked (`CHECK_DEADLOCK FALSE`) but in `deploy_directory`, whose `Next`
says where a command ends: every one of these programs ends, and a state where all processes
are over has no step. That they do end is what the liveness properties state.

### Fairness, and why the code justifies it

- Threads of the CLI run (`WF` of their steps): goroutines are scheduled, commands are
  sequential.
- `WaitLiveMsg` has strong fairness of receiving from the channel: Go's `select` chooses at
  random among the ready cases, so that the tick does not win for ever.
- Nothing is assumed of servers or browsers, but where the property says so: `WaitEnds` has
  in its hypothesis that every service settles, and `Deploy` assumes that the server answers a push
  and settles every service it accepted, the promise under which the command waits.
- `ListWatch` and `LogWatch` have strong fairness of the case of a canceled context, for the
  same reason.
- `Shell`: read loop, goroutines and `select` run; nobody has to type, and the server owes
  nothing.
- The timeout of the login comes (`Expire`).
- Signals, kills, releases and installations are never assumed.

## 4. Theorems

Each holds for every value of the constants that the assumptions allow. `Terminal_proofs`
and `Account_proofs` are about two specifications each, whose names are therefore apart
(`Spec` and `LiveSpec`, `Spec` and `LoginSpec`).

Data that the models build by recursion (lists filtered, read or joined one element at a
time, a command line read one argument at a time) are recursive functions. That such a
function exists, and what it holds, is proved in one way everywhere: the set of the lengths
that contradict it has a least one (`LeastNatural`, from the well-foundedness of the
naturals), which is not zero, and the length below it is none of them.

| module | theorem | states |
|---|---|---|
| `Deploy_proofs` | `TypeCorrect` | `Spec => []TypeOK` |
| | `SuccessCorrect` | `Spec => []SuccessIsTrue` |
| | `FailureCorrect` | `Spec => []FailureIsTrue` |
| | `SpinnersCorrect` | `Spec => []SpinnersMatchStates` |
| | `PrintsCorrect` | `Spec => []PrintedOnce` |
| | `OutcomeImplemented` | `Spec => ImplementsOutcome` |
| | `DeployTypeCorrect` | `DeploySpec => []DeployTypeOK` |
| | `NilCorrect` | `DeploySpec => []NilMeansDeployed` |
| | `TooLateCorrect` | `DeploySpec => []TooLateIsTrue` |
| | `CleanupCorrect` | `DeploySpec => []NothingLeftBehind` |
| | `TickerCorrect` | `DeploySpec => []TickerStopped` |
| | `DeployImplemented` | `DeploySpec => DeployImplementsOutcome` |
| `DeployPackage_proofs` | `TargetCorrect` | `Spec => []NamedTargetIsKept` |
| | `AnswerCorrect` | `Spec => []AnswerNamesTheTarget` |
| | `TokenCorrect` | `Spec => []TokenIsOfTheRemote` |
| | `ServicesCorrect` | `Spec => []ServicesAreReady` |
| | `PackageCorrect` | `Spec => []PackageIsExact` |
| | `GroupCorrect` | `Spec => []GroupIsOfThePush` |
| `Terminal_proofs` | `TerminalCorrect` | `Spec => []TerminalIsRestored` |
| | `ExitCorrect` | `Spec => []ExitIsReported` |
| | `ChildArgsCorrect` | `Spec => []ChildArgsAreKept` |
| | `LiveTypeCorrect` | `LiveSpec => []LiveTypeOK` |
| | `TickerCorrect` | `LiveSpec => []TickerIsOver` |
| | `FrameCorrect` | `LiveSpec => []LastFrameIsCurrent` |
| `Account_proofs` | `TypeCorrect` | `Spec => []TypeOK` |
| | `LossCorrect` | `Spec => []LossNeedsRace` |
| | `OnceCorrect` | `Spec => []ExactlyOnce` |
| | `LoginTypeCorrect` | `LoginSpec => []LoginTypeOK` |
| | `LoginCorrect` | `LoginSpec => []LoginNeedsUser` |
| | `PageCorrect` | `LoginSpec => []PageIsTrue` |
| `ConfigStore_proofs` | `TypeCorrect` | `Spec => []TypeOK` |
| | `TornCorrect` | `Spec => NotTorn` |
| | `PersistCorrect` | `Spec => SoloPersists` |
| `ListWatch_proofs` | `TypeCorrect` | `Spec => []TypeOK` |
| | `ScreenCorrect` | `Spec => []ScreenIsCurrent` |
| `LogWatch_proofs` | `TypeCorrect` | `Spec => []TypeOK` |
| | `OrderCorrect` | `Spec => []LinesAreOrdered` |
| | `SkipCorrect` | `Spec => []NoLineIsSkipped` |
| `Services_proofs` | `TypeCorrect` | `Spec => []TypeOK` |
| | `OrderCorrect` | `Spec => []ArgsAreDoneInOrder` |
| | `DomainsCorrect` | `Spec => []DomainsAreAtomic` |

### The watch and the command

**Assumptions.** `MaxRetriesAssumption` (a natural number) and `FollowsAssumption`: nothing
follows a deployment that succeeded, nothing follows the successful build of a service that
is only built, and what follows a failure is a failure. It is about the server, and the
verdict rests on it: the watch gives its verdict when every service is final for the first
time, so a server that went on from there would make it false afterwards.

**Argument.** None of the properties is inductive. The invariant has three layers:

1. `TypeInv`: types, and that the retries pass their bound only after a signal.
2. `FeedOK`, of the server alone: in a feed with a failure the last activity is one (the
   rest follows failures only), so `Truth` never changes once settled (`TruthStep`).
3. `WatchOK`, of the watch and the feed: what the watch holds as current or visited was
   emitted, and the services it thinks only built are so.

The core is `FinalIsSettled`: if the activity a poll leaves current is final, the service is
settled, and settled that way. It needs `SyncedIsEmitted`, which needs that the last fresh
position of a feed exists (`LastPosition`, from the well-foundedness of the naturals: a
finite non-empty set has a greatest element). With it the verdict is right when given
(`VerdictInv`), and stays right because the truth does. The spinners have an invariant of
their own, `CurrentOK`; the refinement combines `TruthStep` and `FinalIsSettled`: an `Emit`
settles a service or stutters, `PollFinal` judges, `Interrupted` and `PollNotFound` give up,
all else stutters.

The whole command reuses all of it. `WatchSteps` shows that each step of the command is a
step of the watch, a stutter of it, or the end of a failed upload, which changes nothing but
the spinners, so that `VerdictInv` is an invariant of the command too. Around it stand
`ControlOK` (which step the command is at decides what may be running and what directory
exists), `DoneOK` (a watch that returned has a verdict) and `ResultOK` (the error carried to
the deferred cleanup is the verdict of the watch, or there is none and the server has the
deployment). The refinement then follows step by step: the step that returns `ok` or
`failed` is the judgement, by `SuccessIsTrue` and `FailureIsTrue`; any other return gives
up.

### The metrics

**Assumptions.** `ProcsAssumption`: finitely many processes, since events are counted.
`NoFileAssumption`: the model value of a missing file is no set of events.

**Argument.** `LossInv` says of every event that was recorded and is no longer in the log
that it was delivered or raced. It has to speak of the submissions under way: what a
submission that was answered is about to purge is delivered already (`SentIsDelivered`), and
what it did not read is in `raced` from the moment it is appended (`PurgesKnown`). `OnceInv`
is the counterpart: without a reason in `blurred`, the events a submission holds were never
delivered (`HeldIsNew`), no two submissions hold one (`HeldAlone`), and what was delivered
is out of the log, or about to be (`DeliveredIsPurged`). `CountInv` bounds the count by the
number of processes that came to an end, which is what keeps it in its type.

### The login

**Assumption.** `TokensAssumption`: no token, a bad one and the pseudo-token of a sign-up
are not users.

**Argument.** `UserInv` follows the token of a user through the shared fields. If
`temporaryToken` is a user, some request brought it and was let through (`TokenIsPosted`);
if any request came to a verdict and there is no error, so did one (`VerdictNeedsUser`,
whichever request wrote the fields last); and the command reads the fields only after a
request canceled the context, or the timeout did (`Order`). `AloneInv` is about the case of
one request: nobody else writes the fields (`AloneBefore`), so that they are what it brought
until the command has read all three.

### The live messages

**Assumptions.** `FirstAssumption`, `NSymbolsAssumption`, `MaxEditsAssumption`: there is a
message, a symbol, and a bound on the edits. `TextsAssumption`: `""` stands for a message
without a text.

**Argument.** `LockInv` is the accounting of the lock and of the wait group: the ticker
holds one read lock from its first turn on, and is counted from its first step to its last.
`StopInv` says which way the ticker goes at each step of `Stop`: the channel exists once it
was made, only `Stop` fills it, and only what `Stop` sent takes the ticker out of its loop.
`FrameInv` follows the last frame: what is left of it is the end of the list, and its lines
show the messages gone over so far (`Printed`) with the texts they have *now*: from the
signal of `Stop` on nothing edits them. `Kept` is a recursive function over the list of
messages (`KeptExists`, `KeptDef`).

### The configuration

**Assumptions.** `CloudRemoteAssumption` (the cloud remote is a remote),
`MaxVersionAssumption` (there is a version), `FilesAssumption`.

**Argument.** The actions of a process are eleven shapes of a step (`NextSteps`): what the
memory becomes matters, not which command made it so. `CheckerInv`
says when the checker may run, and that the two threads overlap only by a Save of it.
`WantedInv` ties what a command wanted to the memory: the remotes stay as the command left
them, and all of it does until the checker answers. `SoloInv` is the heart: while a process
is alone, no other runs (`OtherSolo`: anybody else who starts ends its being alone);

- `NotEmpty`: the file is empty only while a thread is about to write it, or before the
  analytics id is saved (an earlier process may have been killed in a Save);
- `Remotely`: until the two threads overlap, what each is about to write has the remotes of
  the memory (but for a text of the checker that the command is about to overwrite), and a
  file no thread is writing has them already;
- `Wholly`: until the checker saves, that is true of the whole memory.

Whether processes overlap makes no difference to the argument. `LoadedTwice`, that loading
what was loaded changes nothing, is why a process may save what it loaded. `Uninstall` unlinks a file that a thread may have open; `Gone` is the exception it
makes. `EndsWell` turns the invariant into the two action properties: only `Feedback` ends a
process well.

### The lists and the logs

**Assumptions.** `VersionsAssumption` and `LogAssumption`: bounds are numbers, a line has a
time, an answer has a line at least.

**Argument.** `ScreenIsCurrent` speaks of the moments without a signal on its way. In
`FrameInv` these include the middle of a frame: with no signal and no lock the fields are
those the main thread has already read, so that the rows printed so far are right; a change in
between means a signal, and thereby another frame. `PlacesInv` keeps the two ways to fetch
(once, watching) apart.

The logs have `CursorInv`: what was printed lies before the cursor, and the time of the
cursor is the one asked for or that of a line on the terminal plus one. `AnswerIsWhole` is the
lemma about an answer: it has every line that matches up to its last one, since it is cut at
the end. With it the lines between the old cursor and the new one are printed, not asked for,
or `Late` by the time of a line shown.

### The commands on a service

**Assumption.** `ServicesAssumption`: commands are commands, run once at least.

**Argument.** `ClientChanges` reduces the commands to nine shapes of a change of one client.
`TypeInv` adds to the types what is `Due`: an argument is there when it is done. `OrderInv`
says that while arguments are done, those said and those due make up the arguments, and what
was done is what was said; the last request is the only one that may differ. `DomainInv` says
that no domain is twice in the list, that until somebody raced the list is the abstract set,
and that what a command is about to write over is the list it read, if no version was written
since. Lists are again handled by least counterexamples (`SortedExists`, `WithoutIs`).

### The remote shell

**Assumption.** `MaxArgsAssumption`: the longest line has a length. The rest of `Shell` has
no constants.

**Argument.** The two properties about the end of a process are not inductive, since they
speak of one moment. What they need of the three threads is in three parts.

1. `RunInv`: where the goroutine is says which handlers are registered, and the terminal
   is raw only while it waits for the end or is about to restore, or for good once standard
   input was closed before that. All that can end the process therefore finds a handler that reports it.
2. `LoopInv`: the errors the read loop has yet to send are one of an event or those of a
   broken connection, in their order; the connection is done only after them.
3. `ErrInv` is about the one slot of `p.err`, and is why the exit code wins. If the end of the
   process was the first error, then until it is returned the slot is full with it; if the
   connection breaks then, the read loop is blocked on the second of its errors at the
   latest, so that the connection is never done (`select` can not see it).

`RunKeeps` and its neighbours take the steps by groups that change the same variables.

The arguments are an invariant of one step (`ArgsInv`) and a lemma about all lines.
`getPosition` and the library that parses flags look for the values of flags in different
ways; `SkippedIs` shows that they agree up to a `"--"`, whatever the line. `FirstWord` says
where the words are that the library took, `Rewritten` that `MaybeRewrite` puts the `"--"`
right before the second one, and `RestIsWords` that the rest is taken word by word.

### What a command acts on

**Assumptions.** They say what a command line and a directory are, and the instance that TLC
checks satisfies them.

- `StartsAssumption`: the command is one of the table; the entries of a directory have
  different names. `PatternsAssumption`: no command of the table makes `Init` panic.
- `MeantAssumption`: what the flags or the host mean, by the words of `flagsfromhost`: the
  service and a hyphen ahead of the project, the address of a remote behind. It defines
  `start.meant`, which no step reads.
- `RemotesAreApart`: no remote has an address right below that of another, as the comment of
  `parseHostWithRemote` has it. Two may have the same one.
- `CloudsAssumption`, `InstancesAssumption`, `TypedAssumption`: projects and services have
  names, instances a project, and there are finitely many; what is typed is a number or a
  name.
- `NamesAssumption`, `AnswersAssumption`: an ID that is typed or made up is not blank; the
  git server prints messages.

**Argument.** The specification is that of `DeployPackage`, which is every command up to
`Acts` and goes on for `deploy`. `PhaseInv` orders the steps (only `deploy` gets beyond
`run`) and lets every other proof speak of a few phases.

`TokenInv` has the endpoint equal to the remote of the host from `loadValues` on, and the
token of the endpoint there as soon as something was asked for. `NamedInv` is
`NamedTargetIsKept` at every step and not only at the end; it is established by `Parse` alone,
and that is where the work is: `HeadTailOfJoined` and `PartsOfLabel` show that splitting a
host at its dots and its first hyphen gives back what was joined, except for a project with an
environment and without a service, the exception that the property names.

`AskInv` follows a question. `UnaskedInv`: until the list is shown, a service without its
project is named only for a command that allows it, and something that is asked for is
missing. `PromptInv` with `RowsInv`: what is on the screen is of the project that was named,
and each numbered row is of a project that is shown (`PrintedRows`, from `FlattenedIsSeq`).
`AnsweredInv`: from the answer on, the host *means* it (`Means`), and the instances shown are
those of its service. `PickMeans` is the core, with a lemma for each way to answer: a number
(`NumberMeans`), the name of a project or of a service (`ProjectMeans`, `ServiceMeans`), a
text that is the name of a new project. `TableIs` is the part that looks at all 28 commands:
an instance is asked for only where a project and a service are required.

### What is deployed

`PushInv` is `GroupIsOfThePush` with what `git push` relies on: at the push, the repository
has the git server as its only remote, with the token of the endpoint. `ExtractedFirst` is
about the text that the push printed: the group that is taken was in a message with only
texts ahead of it, so with no error ahead of it.

`ServicesInv` adds three parts to `PhaseInv`. `ProjectInv`: a project is created only after a
yes, and services are loaded for one that exists. `LoadedInv`: they are those of the
directory, in its order, and all of the project of the command, and blank IDs of several are
made up only once the user said to go on (`OfDirectory`, `AgreedOn`); it needs `EntriesAreRead`
(the entries of a directory are read one by one, into services of different directories) and
`OverviewIs`. `IDsInv`: the three ways to an ID exclude each other, `--service` goes with one
service only, and from `check image` on every service has one. `ReadyFromInv` derives the
property.

`CopiedInv` follows the files: what is in the temporary directory before the service number
`copied` is the package of the services so far (`Packages_`), file by file; between the copy of
a service and the writing of its `LCP.json`, the copy is there besides. `OverwriteStep` takes
one to the other and needs that services are in different directories (`ServicesAreApart`,
from `LoadedInv`), for otherwise the second would go over the first. `WholeIsExact` compares
the whole with what the property says of the directory.

### What is left to TLC

- Liveness, under fairness: `WaitEnds`, `DeployReturns`, `StopEnds`, `ProcessEnds`,
  `LoginEnds`, `ListEnds`, `ChangeIsShown`, `LinesAreFollowed`, `ShellEnds`. It is out of the
  prover's reach, as is everything with ENABLED; so is the absence of deadlocks in
  `deploy_directory`.
- `CredentialsOrError`, which the code violates.

The tables of commands are the code's own, and the theorems are about these; remotes,
directories, files, answers and lines are any. The theorems are about the models: that these
are right about the code rests on `map`.

`TypeOK` is a theorem where a module has one to prove and an invariant of no run, but each
inductive invariant was checked with TLC too, on the instance of its run.

## 5. Where code and words disagree, and what the models show besides

`login_timeout` ends with a counterexample to what the repository says of itself
(`findings`): a login that times out stores empty credentials and says it went well
(`loginserver.go:78`).

The other models have what follows as states or outcomes; the properties name the exception
instead of failing.

*Deployment.* An error of the request for the builds is printed and ignored, and the watch
of a service that is only built never ends (`feedback.go:270`; `WaitsForBuilt`, the exception
of `WaitEnds` and `DeployReturns`). A push that the server accepted, and whose command fails or
is interrupted, is reported as a failed upload while the deployment goes on (`git.go:146`). `--only-build` does not reach the watch of a git repository
(`repo.go:43`), which announces a deployment. `followLogs` panics when a repository is built
and no service is named. The project is created before the directory is read, so that a
directory without services, or with an `LCP.json` that does not parse, leaves a new project.
IDs made up for services without one are not compared with the others (`remote.go:165`). The
random ID of `MaybeID` cannot be reached.

*Package.* A file whose name git quotes (with a space, say) is packaged although a
`.gitignore` above its service names it, since `git status` prints the quoted name
(`git.go:335`). An `LCP.json` that a service's own `.gitignore` names is written and not
staged. With `--experimental` nothing is ignored: `Process` shadows the list it fills
(`gogit/ignore.go:35`), and go-git adds ignored files. A link to a directory, or a file that
can not be read, fails the deployment. The ID is in lower case in the package and as it was
in the watch. `--copy-pkg` copies to a directory named by project and time, not to the one
it announces. A first build without a group is taken (`groupuid.go:65`).

*Target.* The host of a project with an environment, without a service, is read as a service
of a project. A number that is not positive panics in `getSelection` (`list/prompt.go:222`);
one that is too large becomes the name of a new project in the questions of `deploy`. The
prompt for an instance takes any text. `UseServiceDirectory` has no effect. `exec`, `shell`
and `open` do not require a login.

*List.* `updateHandler` sends with its lock held: two updates after the one that is drawn,
and both goroutines wait for ever (`list/update.go:24`; `Stuck`).

*Logs.* A line that is not newer than the last one printed is not found any more (`Late`);
an answer full of lines that the client filters out leaves the cursor where it is, and the
same answer comes again (`logs.go:117`; `Starved`).

*Shell.* The second `On("error")` (`communication.go:162`) replaces the one `Run` waits for
(`process.go:57`). The handler of `execStarted` is registered after `Fork` has asked for it,
and `waitExecStarted` waits for nothing else (`process.go:142`, `process.go:150`): an early
answer, an error or a disconnection before it hangs the shell (`Unheard`). `Run` may return
by the end of the connection with the terminal raw (`process.go:73`). The goroutine of standard
input closes it whenever it returns: at an end of file, at an error, or when the context is
canceled (`communication.go:62`). `terminal.Restore` on the closed descriptor fails
(`termsession.go:106`), which only the debug log tells (`process.go:176`), so that the terminal
may stay raw after a process that ended well. `TerminalIsRestored` excepts these two cases. The exit code wins
because `p.err` holds one error only.

*Services.* Domains written over others that had not been read are lost (`services.go:363`;
`raced`). `scale` without an argument and without a terminal reads `args[0]`. `env-var set
--replace` with nothing clears all variables. Empty words are filtered from the prompt of
domains, not from that of variables.

*Live messages.* A `Stop` between two statements of `Wait` finds no channel and waits for
ever (`waitlivemsg.go:181`; `missed`).

*Configuration.* The update checker writes the configuration that `lcp uninstall` just
removed (`update.go:96`). The cached version is compared before the file is read
(`config.go:201`), so that an older one may be announced as new. Renaming the default remote
leaves a default that does not exist (`command/remote/remote.go:110`).

## 6. What is not modelled, and why

- Presentation, wording, colours, autocomplete, diagnostics, `lcp curl`, licences and
  generated data: no state.
- The message of the commit and the repositories found around the directory
  (`repodiscovery`): information for the server, on which the CLI decides nothing. (It asks
  about no service: `getProjectOrServiceInfo` passes `nil`.)
- A service that is a git repository of its own: `git status` does not descend into it, so
  that what its `.gitignore` names is found later only, when the copies are staged.
  `DeployPackage` has repositories around the services, not inside. The region of a project is
  not modelled either.
- `projects.SkippedDeploy`: a guess from three fields of a project; `DeployFeedback` takes
  its answer as an input.
- Data races as torn values: a shared field is read and written in one step; the model has
  every order of these steps, not half of a string.
- Time: ticks, timeouts and rate limits are steps that may happen at any time.
- `metrics usage enable`, `disable` and `reset`: single writes of the configuration or the
  log.
- What flows through the streams of a shell, and the size of its window.

## 7. Plan

Done: every module of section 2, and the theorems of section 4, which state each safety
property of a passing run. Left, in this order:

1. Properties for the hazards that have none (`PROJECT.json`). Each is in a model as a step or
   an outcome, and most are the exception that a property names; they wait for the code, or a
   document, to say what should happen there.
2. Larger instances for what only TLC checks, liveness and deadlock freedom:
   `services_clients` with three clients, and a second watch at the same log.
