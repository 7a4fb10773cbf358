# A TLA+ model of the opendex-docker-api proxy

This directory models the proxy of `opendex-docker-api`: a Go process that shows the
services of an OpenDEX node (Docker containers with gRPC or JSON-RPC backends) over
REST and Socket.IO. It holds TLA+ modules translated from the source under `src/`, TLC
configurations for small instances, and TLAPS proofs. `PROJECT.json` lists the runs,
the mutants, the lines behind each definition, the hazards and the theorems.

Run from this directory: `tlc -config cache.cfg MCContainerCache`, and likewise for the
module and the configuration of each run of section 3; `tlapm ContainerCacheProofs.tla`,
and likewise for each module whose name ends in `Proofs`.

## 1. The system

| Component | Source | State it keeps | Operations |
|---|---|---|---|
| Container cache and event loop | `service/core/single_container_service.go`, `service/manager.go` | per service: the last container inspected, a mutex, two condition variables | `initContainer`, `OnEvent`, `setContainer`, `WaitContainer`, `WaitContainerRunning`; the loop `listenForDockerEvents` |
| Log following | `single_container_service.go`, `service/lnd/logwatcher.go` | channels between three goroutines; `current`, `total`, `done` | `FollowLogs`, `FollowLogs2`, `LogWatcher.Start`, `GetNeutrinoStatus` |
| Launcher agent | `service/launcher.go`, `service/api.go` | status history, a slice of listener channels, the launcher's state | `followLog`, `handleLine`, `emitStatus`, `subscribeSetupStatus` and its cancel; `GET /v1/setup-status` |
| Launcher calls | `launcher/ws.go`, `launcher/api.go` | the slice `launchers`; per launcher a counter and a map of waiting calls | `WsHandler`, `Listen`, `GetInfo`, `UpdateBackup` |
| gRPC connections | `rpc/grpc.go`, `service/{lnd,opendexd,boltz}/rpc.go`, `cmd/proxy/main.go` | `conn` and `client` under a lock | `Open`, `connect`, `Close`, `GetClient`; requests |
| Consoles | `cmd/proxy/console.go`, `socketio.go` | `consoleMap`, `init.bash`, shells, the handlers of their input | create, start, input, resize, stop, disconnect; the two HTTP reads |
| Service status | the packages under `service/` | none | `GetStatus` of each service |
| Status API | `service/manager.go`, `api.go` | none between requests | the fan-out of `Manager.GetStatus` |
| opendexd API | `service/opendexd/{api,rpc}.go` | a marker file | create, restore, unlock, changepass, one-call handlers |
| lnd and boltz API handlers | `service/{lnd,boltz}/{api,rpc}.go`, `utils/utils.go` | none | getinfo; service-info, deposit, withdraw |
| The rest | `config`, `logging`, `utils`, `build`, `scripts`, generated `*.pb.go` | none | |

How they interact. `main` creates the Socket.IO server, the launcher's WebSocket route
and the service manager, and then serves HTTP. The manager creates every service; the
constructor of a service starts its own goroutines (`initContainer`, `Open` of its
connection, lnd's `LogWatcher`), and the manager starts the event loop and the launcher
agent. The event loop calls `OnEvent` of a service, which stores the container that
`GetStatus`, `GetContainerId` and `WaitContainerRunning` read. HTTP handlers run
concurrently with all of these, and share their state with them, often without a lock.
`initServiceManager` defers `manager.Close()`, so that every connection is closed as
soon as the manager exists, while the `Open` of each is still running.

What is hard here: the order of container events against inspects that are made later;
waiters on condition variables; slices and maps that several goroutines change without
a lock; answers that arrive before the call that waits for them is registered; streams
that break and restart; connections that are opened and closed at the same time; calls
of backends that are done after their caller has given up; files that are written while
they are read; and goroutines outside the HTTP handlers, whose panic ends the process,
as does the race check of Go's maps.

What makes each component correct, in one line: the cache shows what Docker has once
things settle, never an older container after a newer one, and wakes whoever waits for
it; the watcher's progress is that of one run of lnd, in order; a setup stream gets the
whole history in order and ends at "Done"; an answer reaches the call that asked; a
connection is made in the end, never leaks, and is not taken away while it is used; a
status is complete, of its own request, and says "ready" of what it saw to be ready; a
console's input goes to its newest shell, and a disconnect leaves no console behind; a
reply says what has become of the call at the backend.

## 2. Modules

| Module | Models | Checked by |
|---|---|---|
| `ContainerCache` | the cache, the event loop, the waiters, and Docker under them | `cache`, `destroy` |
| `ContainerView` | the abstract specification of the cache: two samplers per name | refined by `ContainerCache` (`ImplementsView`) |
| `MCContainerCache` | the sets of services for TLC | |
| `Slices` | Go slices: a header over a shared backing array, `append` and removal in place | used by the next two |
| `SetupStatus` | launcher agent and setup-status requests | `setup` |
| `LauncherRpc` | launchers, their listeners and calls | `launcher`, `asks` |
| `GrpcConn` | connections, backends, the Close at startup, requests | `grpc` |
| `Connection` | what the connections promise the handlers | refined by `GrpcConn` (`ImplementsConnection`), a part of `Api` |
| `Api` | the handlers of opendexd, lnd and boltz, composed with `Connection` | `api` |
| `MCApi` | the amounts for TLC | |
| `Consoles` | the Socket.IO handlers, the disconnect, shells and their init script | `consoles`, `resize` |
| `MCConsoles` | the symmetry of connections and of ids | |
| `LogFollow` | reader, follower and watcher of lnd's log | `log` |
| `StatusApi` | status requests, `GetStatus` of every service | `status`, `status_one` |
| `ContainerCacheProofs`, `StatusApiProofs`, `GrpcConnProofs`, `ApiProofs`, `ConsolesProofs`, `LogFollowProofs`, `LauncherRpcProofs`, `SetupStatusProofs` | the theorems about the module of that name | tlapm |

The modules meet at what one component shows another. `ContainerView` is the cache as
`LogFollow` samples it (`InitInspect`, `InitShow`, `Inspect`, `Show`) and as `StatusApi`
reads it (`cont`);
`Connection` is what `GrpcConn` is shown to implement and what `Api` is built on.

### ContainerCache

`docker[s]` is what Docker has under the name of a service, with a version that counts
its changes, the id of the container (the version at its creation) and a status.
Docker's actions (`Create`, `Start`, `Die`, `Destroy`) append an event when the loop
has subscribed. `InitInspect`/`InitSet` are the two halves of `initContainer`;
`LoopTake`, `LoopResolve` (`id2name`), `LoopMatch` (a destroy, looked up by cached id),
`LoopInspect` and `LoopSet` are the steps of one iteration of the loop and of the
`OnEvent` it calls. Every Docker call is a step of its own, so Docker and the other
goroutines may move between a read and the store that follows it. `SetContainer` is the
store with its two broadcasts; a waiter is asleep or about to check. Docker calls and
the event stream may fail (`Fault`). Events that neither `OnEvent` nor the manager
handles (pause, rename, exec, ...) are left out.

`ContainerView` says what all that amounts to: what is shown under a name was read from
Docker under that name; one first reading is taken per name and may be shown at any
later time, the other readings are taken and shown one at a time.

### SetupStatus and LauncherRpc

Both share a slice between goroutines without a lock. `Slices` gives such a slice as a
header `[arr, len]` over one of the backing arrays in `heap`, so that an append in
place, an append that reallocates, and a removal that shifts the array under somebody
who ranges over it do what they do in Go. A statement `s = append(s, ...)` is two
steps, one that reads the header and one that stores the new one; a `range` takes the
header once and reads each element when its turn comes. A removal reads the slice again
after it has found its place: a slice that has become shorter makes `launchers[i+1:]`
panic, and is made longer again by the `listeners[:i]` of a cancel. The reads of one
statement, such as the two tests of the slice's length in `GetInfo`, are one step.

In `SetupStatus` a status is its position in the history, and only "Done" is told
apart from the others. `BadLine` is a LightSync line without its separators: the log
goroutine indexes out of range, and the process ends. A client may be gone before gin
begins to stream (`ClientGone`): nobody then reads the channel or takes it out of the
slice. And it may stay connected and stop reading (`ClientStalls`): the server has no
write deadline, so that the `Write` or `Flush` its handler is in never returns, the
channel fills up, and the log goroutine stalls in `emitStatus`, and with it the setup
status of everybody.

In `LauncherRpc` a request and its answer carry an id modulo `Ids` (2^16 in the code)
and, as a ghost, the call they are for. A send on the nil channel of an unknown id never
returns; one on a closed channel panics in the listener, which ends the process. A call
takes its id and begins to write (`Send`), ends its write (`Write`) and only then
registers its channel (`Register`). gorilla/websocket allows one writer at a time and has
one buffer for all: `torn` are the calls whose write another's has overlapped, which may
send their own message, the other's or nothing, or panic in the handler, which gin
recovers. The map of requests has no lock either: while a call updates it (`Updating`)
and another, or the listener (`Looking`), is at it, Go's race check may end the process
(`MapRace`); when it does not, the access sees the map before or after the update.
`Ends` resets what a process has in memory. The delete of a channel follows its receive
at once, so that the two are told apart only by the `delete` that others may overlap.

### GrpcConn and Connection

In `GrpcConn` a connection is told apart by the certificate it was dialled with.
`LoadCert`, `StatMacaroon`, `Dial`/`DialTimesOut`, `Store` and `Sleep` are the steps of
`Open` and `connect`; `Close(c)` is `GrpcConn.Close` as `manager.Close` calls it, in any
order of the services (the order does not matter to any property, the connections being
independent). Closing a live connection once cannot fail in grpc-go, so the error
returns of `Close` are not taken. `Serving` is the fact that `main` serves only after
`initServiceManager` has returned. `Update` and `reopen` have no caller.

`Connection` keeps of all this what a handler sees: whether the server serves, and what
`GetClient` returns. A client may come at any time and goes only before the server
serves. `ImplementsConnection` is the refinement, `Abstract` its mapping.

### Api

A request is told apart by what it does at its backend (`Kinds`): "read" only asks,
"command" stands for create, unlock, placeorder, removeorder and withdraw, "deposit"
takes an amount through `uint32` (`Width` is 2^32 in the code; nothing says what boltz
should get of an amount that does not fit, so no property speaks of it), "changepass"
removes the marker `.password-unset` whatever the outcome of its call was, and "restore"
reads the three files of the backup while lnd and opendexd go on writing them
(`WriteBackup`). No file is read or written at once: each has two pieces, what stands
before and behind some place in it. It may be emptied, begun, completed, written anew,
replaced or removed (`Rewritings`) between any two reads. `ReadFile` opens it and reads
the first piece, `ReadRest` the other, of the file as it is now, or, where another file
has taken its name, as it was for those who have it open (`Lives`); either may fail, and
the error is overwritten. `Apart` keeps the restores and the other requests apart for
TLC, since they share nothing but the connection.
"boltz" stands for the connection of either chain, "unknown" for a
currency boltz does not have. A call may be applied, refused or lost by the backend at
any time after it is sent, also after its handler has given up. Which `Connection` a
handler finds may change until the server serves. Writing the reply is taken to succeed.
`Free` bounds the requests that are of any kind; the others are a command or a change of
password, which are the kinds that meet another's.

### Consoles

An event of a connection is a handler that runs to its end before the connection's next
(go-socket.io 1.4.4 reads them in one loop); the disconnect of the connection runs beside
it. `consoleMap[id]` is the Pty of the Console stored under an id. It never gets one:
`findById` hands out the address of a copy, and the Pty that `start` stores goes into
that (run `resize`). An access to the map lasts from one step to the next, and a write
beside another access may end the process (`Abort`) or be missed by the check; the access
then sees the map before or after. `route[id]` is the shell whose pty the handler of
`console.<id>.input` writes to; `OnEvent` replaces that handler at every start.
`init.bash` is one file that every start truncates (`Truncate`) and writes
(`WriteScript`), and that a shell reads some time after it is started (`ShellInit`).
Neither a stop nor a disconnect ends a shell. Input, output and the reads of a shell keep
no state beyond the route. The write of the script is taken to succeed once the file
could be created.

### LogFollow

The cache is what the two samplers of `ContainerView` store: `initContainer`, once and
perhaps late (`InitInspect`, `InitShow`), and `OnEvent` (`Inspect`, `Show`). A log line the
watcher matches has its kind, a height, the run (start of the container) it belongs to,
its place in the log, and whether it is the first of its run; the others change nothing.
`Open` begins at the first line (`FirstSince`) since the `StartedAt` of the container the
cache showed, which may be of an earlier run, and ends with the run Docker has at that
time. `HandOver` and `Deliver` are the two unbuffered channels; a send and its receive
are one step. What lnd logs in a run is assumed to be a target, heights below it, and
then that it has caught up.

### StatusApi

A request for all services starts a task per service (`Spawned`), whose steps are the
observations its `GetStatus` makes, one at a time: the launcher's state (`Start`), its
cached container (`Container`), files, and calls of backends. `Collect` is the receive
of a result; a request for one service runs the same steps in its handler. The world
they look at changes between any two of them, one thing at a time, and `hist` keeps its
states so that a property can say what was so during a request. `cont` is the cache of
`ContainerCache`, `progress` the watcher of `LogFollow`, and `"noclient"` a connection of
`GrpcConn` that is not up. A call with a deadline (gRPC, connext's health, bitcoind) that
is not answered fails; one without (boltz's commands, geth's JSON-RPC) waits while its
backend "hangs"; Docker's own API is assumed to answer. "lnd" stands for `lndbtc` and
`lndltc`, "bitcoind" also for `litecoind`. The opendexd reply may lack a part, which is a
nil dereference, and bitcoind's may lack its fields, which is a failed assertion; both
panic, and only gin recovers.

`lnd.conf` has the two keys that are read of it, one after the other: `bitcoin.node` and
the rpchost of bitcoind, which may be left there when the node becomes light.

`ReadyIsEarned` divides the texts that say "Ready" by `AsksBackend`. For those that are
given after a backend was asked, `Earned` is the reference: what that backend must have
said, and that the container ran. Of those that are given without asking anybody,
`Unasked` says the little they rest on. So the passing run does not show that everything
reported ready was so; the code is weaker than its text here:

* the proxy reports itself as ready, which nothing is asked of;
* arby and webui are ready when their containers run;
* bitcoind and litecoind are "Ready (connected to external)" or "Ready (light mode)" by
  `lnd.conf` alone. `service/bitcoind/bitcoind.go:124` has a TODO for the external
  connection that failed;
* a geth that is not native has no container of its own that is looked at: it is ready by
  the provider's endpoint. The provider may change between being classified, which gives
  the text, and being called, so that the text may name a provider that was not asked;
* a native geth may begin to sync between `eth_syncing` and `eth_blockNumber`, and is
  then ready without having been synced;
* connext is ready when opendexd says so of it, or, failing that, by its health check;
* observations of one request need not have been so at the same time.

`SyncedIsSynced` likewise tolerates the torn pair of `GetNeutrinoStatus`: both numbers
are the watcher's, of this request, but perhaps of different runs of lnd.

## 3. Runs and bounds

| Run | Properties | Bounds |
|---|---|---|
| `cache` | `TypeOK`, `NoLostWakeup`, `SettledFresh`, `BackwardOnlyAtStartup`, `ImplementsView`, `Converges`, `WaiterReturns` | one service, one waiter, versions up to 4 (created, started, died, destroyed, or recreated), one failure |
| `destroy` (violation) | `DestroyClears`: a destroyed container is never cleared from the cache | one service |
| `setup` | `TypeOK`, `InOrder`, `NothingMissed`, `StallExplained` | two requests, channels of 2, three statuses: enough for a reallocation, a removal from the middle and a full channel |
| `launcher` | `TypeOK`, `OwnAnswer`, `PanicExplained`, `HangExplained` | two launchers, two calls, ids modulo 2 (the counter wraps at once), one request of a launcher, and two of these and of departures (`MaxMoves`) |
| `asks` (violation) | `RequestsAreRequests`: a launcher's request is taken for an answer | one launcher, one call, one request of the launcher |
| `grpc` | `TypeOK`, `NoneLeaks`, `ImplementsConnection`, `Connects` | two connections, one with a macaroon, two certificates, one user |
| `api` | `TypeOK`, `AnswerIsTrue`, `RestoreIsReading`, `MarkerExplained`, `NoClientFirst`, `Answered` | opendexd and boltz, two requests of which one is of any kind, a restore alone (`Apart`), amounts that `uint32` keeps and that it wraps, three states of the backup: a file begun and completed, or two files changed |
| `consoles` | `TypeOK`, `CrashExplained`, `LeftBehind`, `RouteIsNewest`, `BareExplained` | two connections, two ids, one HTTP reader, two shells, four events |
| `resize` (violation) | `ResizeWorks`: a console with a running shell cannot be resized | one connection, one console, one shell |
| `log` | `TypeOK`, `SyncedIsDone`, `InOrder`, `CatchesUp` | two runs, three lines (a target, a height and the end of a sync, or these over two runs), heights up to 2, one failure |
| `status` | `TypeOK`, `OwnStatus`, `CrashExplained`, `Answered` | two requests for all of two services, one change |
| `status_one` | `ReadyIsEarned`, `SyncedIsSynced` | one request, any of nine services, two changes |

In `StatusApi` the world starts with everything in order and lnd waiting for its wallet,
so `MaxChanges` also bounds how far from that it can be; two changes reach every step of
every `GetStatus`, and a change between any two observations of one. `Kinds` says which
requests a run makes: tasks do not interact, so that several services at once are needed
for the collection of their results only.

A bound is a constant in a guard: `MaxVer`, `MaxFaults`, `MaxStatus`, `Ids`, `MaxAsks`,
`MaxMoves`, `MaxCert`, `Width`, `Free`, `Apart`, `MaxBackups`, `MaxShells`, `MaxEvents`,
`MaxRun`, `MaxLines`, `MaxHeight`, `MaxChanges`, `Kinds`. Each is large enough for the case its
property is about: two versions of a container with a reading of each under way and a
third change; a call id used twice; two launchers that leave at once; a certificate
replaced between its load and the dial; a file of the backup rewritten between the reads
of its two pieces; a console created, started twice and stopped, with a disconnect beside
each; a follow that begins in one run and ends in the next. Where a property is proved
(section 5) no bound matters. Deadlock is not checked: the system comes to rest when
nothing is asked of it.

Several properties say *why* something bad can happen and that nothing else causes it:
`SettledFresh` and `BackwardOnlyAtStartup` name the startup inspect; `PanicExplained`
the shared ids, overlapped writes, stray messages and updates of the slice that undo each
other; `HangExplained` lost launchers, overlapped writes and stuck listeners;
`StallExplained` the channels nobody takes from, of clients that were gone or do not read
any more and of removals that were lost in a race; `MarkerExplained` the change of password
that got an error; `SyncedIsDone` the stream that mixes two runs; `CatchesUp` the stream
that could not be opened; `CrashExplained`
of `StatusApi` the incomplete reply, and of `Consoles` the writes to the map; `LeftBehind`
the create that outlives its connection; `BareExplained` the script another start has
truncated; `Answered` of `StatusApi` the call without a deadline. They are what the code
does keep to; the exception each names is a weakness, which the property tolerates and
does not catch. So do `ReadyIsEarned`, `SyncedIsSynced` and `RestoreIsReading` (a file
rewritten while it is read may be sent cut short or mixed). The hazards in `PROJECT.json`
say which of them is tolerated, and by what. `NoClientFirst` leans on the
refinement: it holds because `GrpcConn` implements `Connection`.

The three violations are disagreements between the code and what it says of itself; they
are quoted under "findings" in `PROJECT.json`.

## 4. Fairness

Weak fairness on the steps of the goroutines of this program: the Go scheduler runs a
goroutine that can run. None on Docker, lnd, clients and callers. In `SetupStatus` that
means that a client may be gone or stop reading for good (`ClientStalls`); the fairness on `StreamStep` says that
a `Write` to a client that does read ends. There are three exceptions: in
`LauncherRpc` an attached launcher answers what it was asked, in `GrpcConn` a call
returns within its deadline, and in `Api` a handler goes on when its deadline has passed
(every one of these calls has a deadline in its context). In `LogFollow` the sampling of
the cache needs no fairness: `CatchesUp` assumes the cache to be right. In `StatusApi` it
is enough that some goroutine that can run does, since each has a few steps only;
backends need not answer. No failure is fair. `Consoles` has no liveness property.

## 5. Proofs

Every theorem holds for any values of the constants that satisfy the named assumptions of
its module. All are proved along one line: a strengthening of the property that is
inductive, with `TypeOK` or without. The longer strengthenings (`EarnInv`, `MissInv`,
`SoleInv`, `SlipInv`) were first checked as invariants by TLC on small
instances, those about slices with two and with three streams or launchers.

`ContainerCacheProofs`:

* `TypeCorrect`: `TypeOK` is inductive.
* `WakeupsNotLost`: `NoLostWakeup`. It is inductive with `TypeOK`: a waiter falls
  asleep only after a failed test of the cache, and the only steps that change the
  cache, `InitSet` and `LoopSet`, wake every sleeper the new container satisfies.
* `NoBackwardStep`: `BackwardOnlyAtStartup`. By itself it says nothing of what is in
  flight. The invariant `Ordered` adds that what the cache shows, what the loop has
  inspected and what `initContainer` has read are no newer than Docker, and that the
  loop's reading is no older than the cache unless the startup reading explains it.
* `FreshWhenSettled`: `SettledFresh`. The invariant `AllFresh` says that, without
  failures, whenever the cache of a subscribed listener is stale something that will
  repair it is under way: an event of a later change is queued (`Queued`), being
  handled (`Handling`), or has been answered by a reading at least as new
  (`Repaired`), a stale reading is followed by an event (`StaleReadFollowed`), or the
  change was made before the subscription (`BeforeSub`).
* `Implements`: `ImplementsView`, step by step under the mapping given at the end of
  `ContainerCache`. Queues, waiters and the subscription map to stutters.

`StatusApiProofs`:

* `TypeCorrect`: `TypeOK` is inductive. Every observation of a `GetStatus` is shown to
  go on, to finish with a status that has a text, or to panic (`ObserveSteps`); the
  theorems rest on this and never look at an observation again.
* `AnswersAreOwn`: `OwnStatus`. By itself it says nothing of a request whose results
  are still coming in. `OwnInv` adds that each of its goroutines carries its own
  service, that those which have ended have left their status among the results, and
  that as many have ended as were counted; the last of them then leaves none behind. It
  needs that there are finitely many services.
* `CrashIsExplained`: `CrashExplained`, by `PlaceInv`: which observations a goroutine
  can be at is determined by its service.
* `ReadyWasEarned` and `SyncedWasSynced`: `ReadyIsEarned` and `SyncedIsSynced`, with all
  that section 2 lists as weaker than the texts. Both
  speak of an answer that is out; `EarnInv` says it of every `GetStatus` under way, from
  its first observation on: what the branch it has taken relies on (the container ran, a
  key of the configuration stood there, the backend answered, a height was read) is so
  of some state of the world among those its request has seen. A request only ever sees more, so what was earned stays so, and what
  the services and the other requests do in between takes nothing back (`EarnedMore`).

`GrpcConnProofs`: `TypeCorrect`; `NoLeak` (`NoneLeaks`, with `ConnInv`: a connection is
stored once, and kept or closed after it); `ServedStays` (`ServedStaysServed`, the
property that justifies `Connection`, with `CallInv` for the requests under way); and
`Implements` (`ImplementsConnection`), by which the `Close` at startup maps to `Lose`, the
last one to `Serve`.

`ApiProofs`: `TypeCorrect`; `AnswersAreTrue` (`AnswerIsTrue`), where the fate of a call is
tied to the place of its handler; `MarkerIsExplained` (`MarkerExplained`, with `MarkerInv`
for the change that has returned and not yet removed the marker); `ClientStays`
(`NoClientFirst`, with `ReachedInv`: what was once reached while serving is still held);
`RestoresAreReadings` (`RestoreIsReading`, with `SentInv`: what a restore under way has read
so far is a forward reading up to the moment it opened the file it is at, and of that
file it has the first piece of that moment, `HasFirst`). Of the file system the proof uses
what `Lives` says and, by `FileAssumption`, that no content is taken for a missing file.

`ConsolesProofs`: `TypeCorrect`; `CrashIsExplained`; `BareIsExplained` (`ScriptInv`: an
empty script has a start that is about to write it); `LeftBehindIsLate` (`LeftInv`: an id
that is stored was looked up, or is late); `RouteToNewest` (`RouteInv`: what a handler is
about to register is the newest shell its connection has started for the console).

`LogFollowProofs`: `TypeCorrect`; `LinesInOrder` (`InOrder`) and `SyncedAfterDone`
(`SyncedIsDone`). The invariant follows a line through the three goroutines: `LogInv` says
that runs follow each other in the log and heights are as lnd logs them, `SampleInv` that
the cache and the readings on their way to it are of no later run than Docker, the parts
of `Pipe` that what the reader, the follower and the watcher hold are neighbours in the log (`OrderInv`, `PairInv`) and begin
with the start of a run (`BeginInv`), and `ReadInv` that the log under a reader is as it
was, or its container is gone.

`LauncherRpcProofs`: `TypeCorrect`. The slice is the difficulty: headers are stale and
arrays are shared. `Good` headers have a launcher in every slot, and no operation on one
header makes another bad (`AppendGood`, `RemoveGood`), because arrays never shrink and a
slot that holds a launcher never becomes free. `OwnAnswers` (`OwnAnswer`), by `AnswerInv`:
wherever an answer is (at the launcher, in the socket, in the hands of the listener, with
its call), the call it is for has sent its request to that launcher under that id; and a
channel that is registered under an id is of a call that has taken the id.

`PanicsExplained` (`PanicExplained`) has one argument for each of the three ways the
process ends, and says that no step follows it:

* A send on a closed channel. `SoleInv` counts messages: for a call that shares no id, of
  a launcher that asks nothing, and whose write no other has overlapped (`Clean`), at most
  one answer is in the launcher, its inbox and the hands of its listener together
  (`Once`), and none before the call registers or after it has its answer (`Nothing`). A
  second answer that finds the channel closed is therefore of a call that is not clean.
* `launchers[i+1:]` beyond the end. `SlipInv` holds while at most two launchers have come
  (`Few`) and at most one has gone (`OneDown`). Then a slice is longer than one only once
  both launchers are appended (`Short`), so no append can start from a stale slice that
  has two elements; there is one removal at most, and the place it has found stays within
  `launchers` (`Sure`), since nothing else shortens it. The removal never finds its
  launcher a second time, because the two elements of `launchers` differ (`Fine`). With two
  launchers gone the model reaches the panic.
* The race check of the map. A listener that looks into the map of its launcher's requests
  holds an answer; if the launcher has one call, which is past its registration, the
  answer would be a second one to a clean call, which `SoleInv` excludes.

`SetupStatusProofs`:

* `StatusesInOrder`: `InOrder`. What a client has been sent and what waits in its channel
  make a beginning of the history and a part that never goes back (`Split`), and the
  newest status is the only one that is ever sent. The proof needs nothing of the slice,
  which is the point: races on it lose statuses, not their order.
* `TypeCorrect`: `TypeOK`, with races. Here slots may hold nobody: a cancel that removes
  from a slice that has become shorter makes it longer again. What is left of a header is
  that it fits its array (`Fits`), and that no operation on one header makes another unfit
  (`AppendSlice`, `RemoveSlice`), as arrays never shrink.
* `NoStatusMissed`: `NothingMissed`. `MissInv` has two parts, both as long as nothing has
  disturbed the slice. `Calm` is about the slice: a request that has subscribed is among
  the listeners, at most one update is under way and it works on the slice as it is now,
  and an `emitStatus` that is under way ranges over no more than the listeners. `Covered` is
  about the statuses: each is sent, in the channel, still to be copied from the history,
  or the newest and on its way. That the subscription comes before the copy of the history
  is what the step between the two rests on.

Only model-checked: the liveness properties (`Converges`, `WaiterReturns`,
`StallExplained`, `HangExplained`, `Connects`, `CatchesUp`, and `Answered` of `StatusApi`
and of `Api`), which are out of the prover's reach, as are liveness under fairness, ENABLED
and induction over data in general. Every invariant and every action property of a passing
run, and both refinements, are proved; what the three runs that expect a violation check is
false of the code.

## 6. Not modelled

* The generated gRPC code (`*.pb.go`) is nine tenths of the lines under `src/`. It
  marshals messages and has no state of its own; the calls through it are steps of
  `GrpcConn`, `Api` and `StatusApi`, and there is nothing else of it to translate.
* The set-up of the HTTP and TLS server: straight-line code before anything is
  concurrent. What of it matters to another component, the Close at startup, is in
  `GrpcConn`.
* Configuration, logging, utilities and build scripts: constants, formatting, pure I/O.
* `GetLogs` and `getCurrentHeight` of the service, which read Docker's log once and keep
  nothing; `Update` and `reopen` of a connection and `LogWatcher.Stop`, which have no
  caller; `StartLauncherRegistry`, which logs.
* Atomicity that is assumed. A file of a backup is read and written in two pieces, not in
  more, and its opening is one step with the read of the first. `lnd.conf` is read at once,
  each time it is looked at; a height or total of the log
  watcher is read or written whole. A client that does not read is held at a status, not
  within one. In `LogFollow` one event is handled at a time, as the loop does, and the
  sending of a line and its receipt are one step.
* Below the steps of the models: torn slice headers (a header read while it is being
  written), what a map may do to an unsynchronised reader beyond showing it the state
  before or after a write or ending the process, percentages and the texts of errors,
  the details of a LightSync line and the order of the statuses in an answer.

The plan of this project is worked off: every component with state or concurrency of its
own has a module, and every safety property the passing runs check has its theorem.
