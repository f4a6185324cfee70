# Verification of testcontainers-integration

TLA+ modules, TLC runs and TLAPS proofs for `packages/testcontainers-integration`:
what starts containers, networks and the application under test, what must
release them however a start fails, a stop overlaps it or a runner's hook times
out, what the processes of a test run must agree on, and what the dashboard
must record of it. Paths below are relative to
`src/packages/testcontainers-integration/src/` unless they begin with `docs/`
or `README.md`, which are the repository's.

## The system

The package is single-threaded JavaScript: code runs from one `await` to the
next without interruption, and everything that overlaps overlaps at the awaits.
The models have one action per such stretch. Docker (reached through the
testcontainers library), the test runners and the consumer's callbacks are
external; their answers are actions of their own.

| component | state | operations | what makes it correct |
|---|---|---|---|
| `ContainerRuntime` | entries, startedOrder, network and its promise, stopPromise | `start`, `startInstances`, `stop` | promises are shared, stop releases all it owns in reverse order, a failed start cleans up before it rejects, nobody waits for ever |
| container adapters | startPromise, started, stopped | `start`, `stop` | all callers share one container, a stopped adapter leaves none |
| container log consumer | the unfinished line | stream events | the logger gets whole lines, however the stream is cut |
| container network | the native handle | create, `stop` | released after the containers |
| `ContainerFileContext` | runtime, resources, preparationCleanup, stopPromise | `start`, `current`, `stop` | a failed start releases what it started |
| `IntegrationTestFileController` | fileContext, applicationManager, restoreEnvironment | `start`, `stop` | reverse order, nothing left after `afterAll` |
| application manager | applicationInstance | `start`, `stop` | `stop` only for an instance that `start` returned, once |
| process environment | `process.env`, the saved values | resolve, install, restore | the application reads the addresses of its own file's containers; the next file starts with the worker's own environment |
| runner file hooks | the controller | `beforeAll`, `afterAll` | call start and stop, whatever the parsing of declarations does; both end |
| `IntegrationEnvironment` and its sources | context, startPromise, stopPromise | `start`, `current`, `stop` | memoized; application before containers; stop during start |
| global setup (Jest, Vitest) | a state per root, resource file, environment variable | `setup`, `teardown` | shared containers released by teardown or by a failed setup; no worker is sent to what is gone |
| `DashboardEventClient`, one per process | queue, timer, the send that is going on | `emit`, `flush` | events arrive in order and once, nothing is forgotten in the queue, `flush` returns whatever fails |
| `DashboardSession` | events, runs, chain of reports, readers, server | `emit`, `finalize`, HTTP requests | runs are told apart, their reports are independent, the last report is complete, `finalize` ends |
| runner reporters | none of their own | the runner's callbacks | they await the delivery of a run's end |
| session registry | a temporary file, named by an environment variable | register, unregister, lookup | a process finds the session of its root |
| project definitions | the serialized options | define, parse | every process reads them alike; contradictions start nothing |
| markers and discovery | the marked classes of a file | decorate, consume, scan | the static reader and the decorators agree; a shared name has one kind |
| container registry | factories by name and by kind | create an instance | every name gets its own definition |
| resource collections | a map | merge, select, lookup | a file selects what was started |

How they interact: a hook calls the controller; the controller owns a file
context and an application manager; the context owns a runtime for the
dedicated containers; the runtime owns adapters and one network. A global setup
owns a runtime for the shared containers, and hands their resources to the
files as data; it also starts the dashboard session, and finalizes it last.
Reporters in the main process and hooks in the workers send the session events
over HTTP, each process through its client. Each level stops the one below, and a failing start does so
itself, so two stops of one thing may overlap: that is where memoization
(`stopPromise`) matters, and the controller's `stop` has none.

The hard behaviours: stops that overlap starts; partial failures at every step;
readiness in any order; awaits of a failing start on a stop that awaits the
starts; a hook that times out while its continuation lives on; consumer
callbacks that hang; batches of several processes that are lost or late while
runs begin and end; processes that share no memory and parse the same
declarations, in one mode from options and in the other from source text. `PROJECT.json` lists each hazard at its line.

## Modules

- **`ContainerRuntime`** models one runtime with its adapters, its network and
  Docker. A call of `startInstances()` is a process of `Calls` with a program
  counter: `StartInstances`/`RefuseStart` run up to the first await,
  `StartContainers` and `CreateInstanceThrows` from the network's answer to the
  readiness of the containers, `StartupFails` is the catch that calls `stop()`,
  `RethrowAfterStop` its end, `ContainersReady` and `ResourcesSettle` the
  collection of resources. `stop()` is memoized, so there is one `stopAll()`,
  with its own counter `stopPc`: `BeginStop` takes the order once,
  `AdapterStopResumes` and `ContainerStops` are its loop, and
  `StopResumesWithNetwork` and `NetworkStops` release the network.
  Of `startedOrder` and `entries` the order is kept, since the order of stops
  depends on it; the order of `stopAll()` is kept as the set of its names and
  of those that were ready, from which `StopsNext` computes the next.
- **`OwnedRuntime`** is the abstract contract of a runtime towards one owner:
  the promise of its start, that of its stop, and whether any container is up.
- **`MCOwnedRuntime`** gives the refinement mapping, by which `ContainerRuntime`
  with one call implements `OwnedRuntime`, and adds a history variable that
  tells an owner that waits for its start from one that does not.
- **`ContainerAdapter`** is one adapter on its own: `Start` is a call that boots
  (every other call returns the promise there is), `BootFails`, `BootSucceeds`
  and `ResourceFails` the ways a boot ends, `Stop`, `StopReturns`, `TakeHandle`
  and `ContainerStops` the first `stop()`. Each boot has a number, its
  container the same one. It carries the consumer of the container's log,
  **`ContainerLog`**, whose stream has symbols for the two characters that end
  a line, the two bytes of one character, and any other.
- **`FileLifecycle`** composes the hooks, the controller, the file context, the
  application manager, the environment bindings and a runtime at its contract
  (`INSTANCE OwnedRuntime`). `controller.stop()` is a process for each of its
  two callers, the catch of a failing start and `afterAll`.
  **`MCFileLifecycle`** adds the history of whether `afterAll` interrupted a
  start, and what the hooks promise if it did not.
- **`Environment`** composes `IntegrationEnvironment`, either source of
  containers and, for the owned one, a runtime at its contract.
- **`GlobalSetup`** models the setups and teardowns of all the projects of a
  run, one hook at a time, with a shared runtime at its contract. `pc` walks
  through the session, discovery, containers, preparation and the publication
  of the resources (Jest: directory, file and environment variable; Vitest:
  `provide`), and from any failure or the teardown through the releases;
  `caller` says for whom. `states` is what finished setups leave for their
  teardown, by root for Jest and by project for Vitest, `path` the project
  whose file the environment variable names, and `sessions` the registry of
  dashboard sessions, which `DescriptorFor` looks up by path. **`MCGlobalSetup`**
  has the roots: one, one within it and one beside it.
- **`ContainerDeclarations`** has what a project declares and what each parser
  makes of it, as pure operators: container projects and annotation projects,
  environment bindings, dashboard options and reporters, registries, marker
  classes, the static reader and the decorators. A parser that throws is the
  negation of a predicate. **`ContainerResources`** has the collections.
- **`TestRun`** is one run over these operators: `Define` in the configuration,
  `Setup`, `SharedReady` and `Teardown` in the main process, and per file
  `Evaluate` (the module and its decorators), `BeforeAll`, `DedicatedReady`,
  `Bind`, `ApplicationStarts` and `AfterAll` in a worker, interleaved over
  files and workers. Starts and stops are single steps here, since their
  interleavings are the modules above; one that fails may leave any of its
  containers started first (`SetupFails`, `BootFails`). `Configs` is what a user
  may write: a mode, options, and the source of each file. Files may mark
  classes in either mode, since the hooks consume and compare the marks in both
  (`vitest/file-lifecycle.ts:58-62`), and those of an annotation project may
  install a registry of their own (line 86). **`MCTestRun`** has the
  configurations: one of every shape that a parser, a registry or a lookup tells
  apart.
- **`DashboardClient`** is the event client: `Emit`, `TimerFires`,
  `EmitAndFlush` (a last event and an awaited `flush()`), `Handled` and
  `Answered`. `awaiting` tells a `flush()` that sends itself from one that only
  waits for the send of another, because they differ in when they return.
- **`DashboardSession`** is the session in the main process: `Accept` is
  `emit()` with its rules for the boundaries of runs, `Input` a request, which
  is posted as the events in it or refused, `WriteRunReport`/`RunReportFails`
  the chain of reports, `Finalize` and the steps after it `finalize()`,
  `LoadPage`/`ConnectPage` a browser. A batch is taken by `AcceptBatch`, which
  passes over entries that are no events. A report holds the places in the log
  that it shows; `Shown` in `Dashboard` gives the events there.
- **`Dashboard`** composes a session with a client for the reporter and one for
  each worker, and drives them as a runner does: start of a run, tests, the end
  of the files' hooks, the end of the run, a rerun or the global teardown. It
  extends `DashboardClient` and instantiates `DashboardSession`.
- **`ContainerRuntimeProofs`** (which has the refinement of `MCOwnedRuntime`
  too), **`ContainerAdapterProofs`**, **`FileLifecycleProofs`**,
  **`EnvironmentProofs`**, **`GlobalSetupProofs`**, **`TestRunProofs`**,
  **`DashboardSessionProofs`** and **`DashboardProofs`** hold the theorems about
  the modules they are named after.

Operators whose comment begins with "Mutant" are faulty variants of the
definition that follows them. No specification uses them; each shows that a
property fails when the code has that fault.

## What is external, and what is assumed of it

- Docker answers every request, with success or failure: testcontainers bounds
  a start (`startupTimeoutMs`, 120 s by default, `generic-test-container.ts:78`) and
  Docker bounds the removals. Hence weak fairness on its answers.
- A container boots only while its network exists, and Docker refuses to remove
  a network that a container uses. The second makes a `stop()` that overlaps a
  start reject rather than resolve (`runtime_contract`).
- A container writes text whose characters are whole; its stream may be cut
  anywhere, also inside a character, and may end, break or stay open.
- The runners call `afterAll` after `beforeAll` has settled or timed out, and
  may call nothing at all. Consumer callbacks of a file may hang when they
  start something; those that stop something settle. For
  `IntegrationEnvironment`, whose stop awaits its start, all callbacks must
  settle: a start that hangs makes `stop()` hang, by design of the code.
- The runners run the global hooks one at a time, all setups before all
  teardowns, no further setup after one that failed, and may leave out the
  teardowns. Nothing obliges them to call any.
- A worker runs one file at a time, each in a module registry of its own
  (`docs/RUNNERS.md`, "module isolation"), but in one process environment.
- A request of a client is handled by the server or not, and gets an answer or
  fails, in every combination; it does not stay open for ever. A closed server
  fails it. Files can be written or not. A process of the runner outlives its
  awaited hooks; the delay of a client is unref'd, so its timer may never
  fire, and no fairness is assumed of it.
- The reporter finds the session or, in the first run, comes before it
  (`StartsUnseen`). A report that cannot be written rejects `reportChain`; that
  Node may also report an unhandled rejection is left to the runner.
- Continuations of settled promises run. This is the only fairness assumed of
  the code itself. Callers are never obliged to call.

The runs of the runtime, the adapters, the files and the environment do not
check deadlock: these components stop for good when their calls are over. The
modules of the global setup, the test run and the dashboard say in an action
`Over` (`RunIsOver`) when they may stop, and their runs do check it. That nobody
waits for ever is stated as liveness instead.

## Runs

| run | what it asks | bounds |
|---|---|---|
| `runtime_concurrent` | two overlapping calls, `stop()` at any time, every fault: `TypeOK`, `SnapshotReleased`, `NetworkReleased`, `StartPromisesReused`, `EveryoneSettles` | 3 names, one without a factory, 2 calls |
| `runtime_contract` | one call, `stop()` at any time, every fault: `OwnerReleasesEverything`, `ReverseReadiness`, `ImplementsContract` (safety and liveness of `OwnedRuntime`) | 4 names, one without a factory |
| `runtime_stop_race` | violation, see below | 2 names, one call, no faults |
| `adapters` | starts and a stop of one adapter in any order, and its log: `StopReleases`, `OneContainer`, `LinesAreWhole`, `StopSettles` | 3 boots; 5 symbols, in chunks of any length |
| `file_hooks` | `afterAll` after or under a start that goes on, hangs or fails: `HooksReleaseEverything`, `HooksReverseOrder`, `ContainersReleased`, `StopsOnlyWhatStarted`, `HooksSettle` | one file, every callback may fail |
| `file_late_start` | violation, see below | one file, no faults |
| `environment_start_stop` | start and stop at any time, either source: `EverythingIsReleased`, `ContextIsAlive`, `ApplicationStopsFirst`, `StopSettles` | none: the state space is finite |
| `global_setup` | setups and teardowns of either runner, any step may fail: `EverythingIsReleased`, `ResourcePathIsLive`, `SessionsAreFound`, `SessionEndsLast`, `CleanupPrecedesStop`, `ReleaseEnds` | 2 projects, 3 roots |
| `test_run` | a whole run of either kind of project: `ProcessesAgree`, `ContradictionStartsNothing`, `OwnDefinition`, `FilesAreIsolated`, `EnvironmentIsTheFiles` | 2 files, 2 workers, 2 kinds, the configurations of `MCTestRun` (one own registry, six ways to mark classes in project mode) |
| `session_reports` | any batches of four posted entries, `finalize()` and a page at any time: `ReportsAreIndependent`, `FinalReportIsComplete`, `PageInOrder` | 4 entries after the session's own two events, batches of 1 or 2 |
| `dashboard_faults` | two runs of a runner, requests and reports fail, a container that could not be stopped logs on: `QueueIsWatched`, `InOrder`, `RunsAreExecutions`, `DrainingFlushDelivers`, `RunnerIsNotHeldUp` | 1 worker, 2 runs, 4 events of the reporter and 2 of the worker, a queue of 2 is long |
| `dashboard_late_events` | violation, see below | as above, 1 run, no faults |

Why the bounds are enough. A runtime treats names symmetrically, and the
properties of `runtime_concurrent` relate one container, the network and two
calls; two names with a factory are the fewest with a pending and a failed one
at once, the third makes the creation itself throw, and two calls are the fewest
that overlap.
`runtime_contract` takes four names, one of them without a factory, so that two
are ready, one pending and one missing when `stop()` takes its order. The safety
properties of the first run are also proved for all constants. Three boots show
an adapter with two failed attempts before one that succeeds, those of
`adapters` being proved for any number too; five symbols hold two lines with
either ending, in one chunk or cut anywhere. `FileLifecycle` and `Environment` have no unbounded
data: their runs are exhaustive. The models of owners see a runtime only
through its contract, which carries no number of containers. Two projects are
the fewest that overwrite and remove what the other left, and the three roots
are the three relations two of them can have.

`test_run` looks at two files because what can disagree is a pair of files, a
file and the setup, or a file and the one that its worker ran before. The
declarations are not all there are: they are one for each guard of a parser, a
registry or a lookup, in every combination of two files.

Four entries are the fewest with the end of the first run, a whole second run
and an event in it; six events of a session show shared, duplicate and stray
ones in every order. In `dashboard_faults` a queue counts as long at 2 events
instead of 25: the code looks only at whether the limit is reached, and with 2
all of them are exercised, a queue that grows past its limit during a send
included. The reporter's four events allow two runs with an end each, and
either a test or an announcement in each. Two runs in one session are watch
mode as Vitest has it.

## What the code does not keep

Three runs show a documented promise that the code breaks:

- `runtime_stop_race`: `startInstances()` reads `stopPromise` on entry and not
  after it awaited the network (`container-runtime.ts:82,95`). A `stop()` in
  between takes an empty order; the containers created afterwards are never
  stopped, and `stop()` rejects because Docker keeps the network.
- `file_late_start`: after a hook timeout `afterAll` takes the controller's
  fields while `controller.start()` is pending; what that start prepares,
  installs or starts later is never released (`docs/ARCHITECTURE.md:37-39`).
  `ContainersReleased` shows that the containers are released even then, unless
  the runtime's `stop()` rejects. It does so when Docker fails it, and also when
  it interrupts the start of the network, which is the race of
  `runtime_stop_race`: such a file is exempt.
- `dashboard_late_events`: when the reporter's last event comes while a send is
  going on, its `flush()` awaits that send, finds the queue taken by the
  recursive `flush()` of the sender and returns (`dashboard-event-client.ts:51,
  58`). The session is finalized, and its last report misses the events that
  are still on their way, although nothing failed (`README.md:202`).

The modules show more, which the properties name as exceptions or the models
contain, and for which no run of their own is kept:

- A container whose resource cannot be built stays up, though the adapter has
  its handle: `stop()` returns when the start it awaits rejects
  (`generic/generic-test-container.ts:67-71`), and a new attempt overwrites the
  handle (line 92). `StopReleases`, `SnapshotReleased` and
  `OwnerReleasesEverything` name the exception. A second `stop()` of an adapter
  returns at once, while the first still stops the container (line 65).
- With two overlapping calls on one runtime the cleanup of the failed one
  misses the adapters that the other creates later
  (`container-runtime.ts:243`, `docs/ARCHITECTURE.md:49-50`). The package itself
  never overlaps calls.
- The static discovery accepts a container whose name is empty, the decorator
  does not (`required-container.ts:66`): if it is shared it is started for a
  file that then cannot be loaded. `ProcessesAgree` admits this one case.
- In project mode marked classes are consumed, too, though the main process
  never reads them. A decorator that throws keeps its file from loading, two
  marked classes or two different ones make its `beforeAll` fail, and the
  application is started with what the marked class asks for
  (`integration-test-file-controller.ts:88-92`), which the project need not
  have. `ProcessesAgree` admits the last one only for such a class.
- A binding of an annotation project that names an undeclared container is found
  when the containers are up (`container-environment.ts:28-31`): the options are
  parsed without the declarations. In project mode it fails in the
  configuration. `ContradictionStartsNothing` speaks of the second only.
- A lost batch with the end of a run makes the session drop the start of the
  next (`dashboard-session.ts:101`), so that one run of the dashboard shows two
  executions. `RunsAreExecutions` bounds the number of runs whatever is lost, and
  keeps executions apart only as long as nothing is.
- A `start()` of `IntegrationEnvironment` that `stop()` overlaps may resolve with
  a context that `stop()` has taken (`integration-environment.ts:64-65`,
  `84-90`). `ContextIsAlive` is about what `current()` returns.
- Two Jest projects of one root share a state: the setup of the second does
  nothing (`jest/global-setup.ts:61`), so its own shared containers are never
  started, and the first teardown takes all. Two of different roots share one
  environment variable: it names the file of the later one, and the first
  teardown deletes it for both (line 161).
- Two Vitest projects of one root share an entry in the registry of sessions:
  the second takes over the first one's workers, and whichever ends first
  removes the entry, although "Removes one dashboard descriptor without
  disturbing concurrent projects" (`dashboard/dashboard-context.ts:38`).
  `docs/RUNNERS.md:65` has two kinds of projects side by side, which makes one
  root likely.
- One report that cannot be written rejects the chain, and the reports of all
  later runs are skipped (`dashboard-session.ts:123`): `poisoned` is never
  reset.
- What is accepted between the rendering of the live page and the connection of
  its event stream never gets to the page (`dashboard-session.ts:182-201`);
  `PageInOrder` holds, completeness would not.
- A character whose bytes arrive in two chunks of a log is replaced
  (`logging/container-log-consumer.ts:29`): `LinesAreWhole` leaves such streams
  out, and what remains in the buffer when a stream breaks is never logged.

## Proofs

Eight modules hold theorems, each about the module it is named after, for all
values of its constants. No proof takes anything on trust but the assumptions
the modules state of their constants.

**`ContainerRuntimeProofs`**, for any finite set of names, any set of calls and
any faults: `TypeCorrect`, `OrderIsReleased` (`[]SnapshotReleased`),
`NetworkIsReleased` (`[]NetworkReleased`), `PromisesAreReused`
(`StartPromisesReused`) and `StopsInReverse` (`[]ReverseReadiness`). They assume `RuntimeAssumption`: the registered names
are names, the set of names is finite and does not contain the token "network".
The safety properties are not inductive as they stand; `Inv` adds to `TypeOK`:

- `PromiseInv`: the promise the runtime keeps and the one the adapter keeps
  agree (a pending one is pending in both; a resolved one stays with a started
  handle until the adapter is stopped);
- `HandleInv`: a container that runs has a handle or is being stopped, or its
  stop failed; no handle without a start;
- `StopInv`: where `stopAll()` is in its loop, what is in its order and already
  stopped is released or accounted for, and the adapter it is stopping is one
  of its order;
- `NetworkInv`: a network that is up is held by `this.network`, or is about to
  be, or `stopAll()` is past it.

`StopsInReverse` needs `OrderInv` on top: an adapter that was ready when
`stopAll()` took its order is ready until it is stopped, and `stopAll()` has
finished with all that goes before a ready adapter it has turned to.

Further theorems of this module, about `MCOwnedRuntime`, are for one call
(`Calls = {Call}`), which is what every owner in the package makes:
`RuntimeKeepsContract`, the safety part of `ImplementsContract` (an initial state
of `ContainerRuntime` is one of `OwnedRuntime`, and a step is a step of it or
leaves its variables alone), and `PatientOwnerReleases`
(`[]OwnerReleasesEverything`). `CallInv` says which entries exist before, during
and after the call, `ResolvedInv` that a `stop()` which resolves leaves nothing
up, and `RaceInv` that `stopAll()` has every entry in its order unless the
owner's `stop()` overtook its start.

**`ContainerAdapterProofs`**, for any number of boots (`MaxAttempts`) and any
log: `InvariantHolds`, `StopReleasesAll` (`[]StopReleases`),
`CallersShareOne` (`[]OneContainer`) and `LogsAreWhole` (`[]LinesAreWhole`). `AdapterInv` says of the numbers of boots
that every container, up or resolved, comes from a boot that was made
(`NumberInv`), of `stop()` which handle it holds at which step (`StopInv`), of
the adapter that what is up has its handle, is being stopped, or was replaced
or refused (`HandleInv`), and of callers that what they hold is what the promise
resolved with (`ResourceInv`). It is the second and the fourth that make
`OneContainer` inductive: a resolved promise is cleared by nobody but `stop()`.
`LogInv` adds to `LinesAreWhole` that the buffer is what remains of all that was
sent, and that no character is open at its end, as long as none was cut: a chunk
is then decoded as it is (`DecodeWhole`), and a text may be split in pieces
(`SplitOfPieces`). That is proved by induction over the length of the second
piece, from what one more symbol does to the parts of a text (`SplitOfAppend`).

**`FileLifecycleProofs`**, for hooks with or without a timeout, any callbacks
that fail, and any runtime that keeps the contract `OwnedRuntime`:
`NoContainerIsLeft` (`[]ContainersReleased`), `OnlyStartedIsStopped`
(`[]StopsOnlyWhatStarted`), `EverythingIsReleased` (`[]HooksReleaseEverything`)
and `HooksReleaseInOrder` (`HooksReverseOrder`). `FileInv` has two parts. One
holds always: where the runtime is, in the context's field or in the hands of
its `stopAll()` (`RuntimeInv`); that the controller drops a context only to stop
it (`ContextInv`); that only `afterAll` takes an application (`ApplicationInv`).
The other holds as long as `afterAll` has not interrupted a start: the
environment, the preparation and the application each have their handle until
their release begins, and no release begins before the former one
(`EnvironmentInv`, `PreparationInv`, `OrderInv`), and a start that rejected has
left nothing (`FailedInv`). `file_late_start` shows that an interrupted start
breaks the second part; the first is why the containers are released even then,
unless the runtime's `stop()` rejected. The theorem exempts every rejected
`stop()`, the one that interrupts the start of the network
(`container-runtime.ts:95`) included.

**`EnvironmentProofs`**, for either source and any runtime that keeps the
contract `OwnedRuntime`: `InvariantHolds`, `EverythingReleased`
(`[]EverythingIsReleased`), `ContextAlive` (`[]ContextIsAlive`) and
`ApplicationFirst` (`ApplicationStopsFirst`). `EnvironmentInv` relates the two
program counters with the runtime's promises (`RuntimeInv`), with each other
(`StopInv`: `stop()` acts only on a start that has settled), with the
application (`ApplicationInv`) and with what has been reported (`SourceInv`).

**`GlobalSetupProofs`**, for any projects and roots, either runner, and any
runtime that keeps the contract: `InvariantHolds`, `HooksRelease`
(`[]EverythingIsReleased`), `PathIsLive` (`[]ResourcePathIsLive`),
`SessionLast` (`[]SessionEndsLast`), `CleanupFirst` (`CleanupPrecedesStop`) and
`SessionsFound` (`[]SessionsAreFound`). They assume that `None` is no project,
and the last that a test file is no root. `SetupInv` has, besides types, what a
finished setup leaves (`StatesInv`), the phase of the project whose hook runs
(`PhaseInv`: it is not ready, so the environment variable does not name it), when the runtime's promises can be pending (`RuntimeInv`: only while
the hook awaits them, so nothing comes up or goes down behind its back) and
which releases were tried at which step (`ReleaseInv`). `SessionsFound` adds
`RegistryInv`: an entry is of a project with that root, and a project that is
alone at its root keeps its state until its own teardown and its entry as long
as it has a session; the lookup by path then needs that of the roots that are
prefixes of a file's path the longest is its own.

**`TestRunProofs`**, for any number of files and workers, any options of a
project, any source of the test files, marked classes and registries of their
own included, and any catalog of kinds:
`ProcessesDoAgree` (`[]ProcessesAgree`), `ContradictionsFailFirst`
(`[]ContradictionStartsNothing`), `DefinitionIsOwn` (`[]OwnDefinition`),
`FilesStayIsolated` (`[]FilesAreIsolated`) and `EnvironmentStaysTheFiles`
(`[]EnvironmentIsTheFiles`). They assume `TestRunAssumption`: no file is called as the
main process, classes and their entries are finite lists, a registry makes the
kind that a factory is registered for, and bindings are of variables that the
model of `process.env` has. `RunInv` says what the main
process has accepted and provided at each stage (`StageInv`), that whatever was
started is an instance someone had to start (`BootedInv`), what a file has
checked, holds and saved (`CheckedInv`, `IsolatedInv`, `WorkerInv`), why it may
have failed (`WhyInv`), and that no two active files are in one worker
(`PoolInv`). The argument that the processes agree is in the lemmas on static
data: names are unique in what a process accepted (`UniqueNames`,
`UniqueShared`), so a registry gives an instance its own kind (`OwnKind`), knows
all that a scanned file or one of a project starts (`FilesCreate`), a file
selects what was provided (`FilesSelect`), and its dedicated names collide
with none of those (`FileResources`).

**`DashboardSessionProofs`**, for any batches of any length, with or without
reports that cannot be written: `SessionReportsAreIndependent`
(`[]ReportsAreIndependent`), `SessionFinalReportIsComplete`
(`[]FinalReportIsComplete`) and `SessionPageInOrder` (`[]PageInOrder`).
`SessionInv` says of the log that its runs are numbered without a gap, that each
report to be written holds the start and the end of one run, and where the
present run began (`LogInv`); of what is on disk that it is what the log says
(`ReportsInv`); of `finalize()` that the session's end is in the log after all
that it awaits and in the final report (`FinalInv`); and that the page has
places in the log, which increase (`PageInv`). A batch is a loop over its
entries; that it keeps the log in order is proved by induction over the number
of entries taken (`BatchSteps`, `LoopKeeps`), from `InductionOnNat`, which states
induction for sets and rests on the least element of a set of numbers.
`BatchIsTaken` says what a batch adds: a subsequence of its entries, with all of
them that are no markers of runs.

**`DashboardProofs`**, for any number of workers, any bound on queues, events
and runs and any faults: `QueuesAreWatched` (`[]QueueIsWatched`),
`RequestsAreSerial` (no client has two requests on its way), `FlushesDrain`
(`DrainingFlushDelivers`), `LogIsInOrder` (`[]InOrder`), `RunsMatchExecutions`
(`[]RunsAreExecutions`) and `ReportsOfTheSession` (what a session promises of
its reports holds in the composition too). They assume `DashboardAssumption`, of
which they need that the reporter is a client and that no client is called as
the session itself. Their invariant has two parts:

- `ClientInv`: where the variables are defined, `OneRequest` (without `flushing`
  no request, and never two) and `QueueIsWatched` itself. `OneRequest` is what
  `FlushesDrain` needs on top: the request whose answer ends the last send was
  the only one.
- `EventsInv`: `SessionInv` of the session; `OrderInv`, that a client's events
  grow older from its queue to its request; `LogOrderInv`, that what the log has
  of a client is older than what is still to come (`Pending`), which makes
  `InOrder` inductive; `HeardInv`, that a request that was handled is in the log;
  and `RunsInv`.

`RunsInv` is the argument for `RunsAreExecutions`. `RunsCounted` holds whatever is
lost: no run ends in the log before the runner announced its end, and the run
that the log is in was announced or is the first, which `start()` announces by
itself. `RunsTold` holds as long as nothing is lost: the end and the start of
every run are in the log or still to come, the log is in the run of the next
event, and a test in the log is shown by the report of its run or will be. The
reporter may announce a run twice, late or not at all (`StartsUnseen`): what the
log drops is then just what it has already (`FirstIsNext`).

In each module there is a lemma for each action or group of actions that says
it preserves the invariant, with a step for each action and, where an action
disturbs several conjuncts, one for each of these. The action properties follow
from the invariant and a look at which steps can change the state in question.

Only model-checked:

- all liveness, and with it the liveness part of `ImplementsContract`: ENABLED
  and fairness are out of the prover's reach.

The library's induction theorems cannot be used either, since they take an
operator. Where the model has a loop it is a recursive function of the model's
own, and induction goes by the set of the numbers for which the claim holds
(`InductionOnNat`): the batches of a session and the lines of a log.

## Not modelled

- The dashboard's summary (`dashboard-state.ts`), a pure reduction of the log
  whose only consumer is the page; the page itself; the dashboard's logger; the
  browser that `start()` opens; tokens and headers of requests; and a server
  that cannot listen, which `GlobalSetup` takes as no session.
- How a reporter translates a runner's results into events. `Dashboard` takes
  the events that it emits and when it awaits a `flush()`.
- The shapes of records that parsers check field by field, and the options that
  are passed on to a runner. `ContainerDeclarations` keeps the guards by which
  the processes of a run could come to differ.
- Duplicate registrations in a consumer's own registry, which `register()`
  rejects while a setup module loads: the package's projects build theirs from parsed
  definitions.
- The images, ports and credentials that adapters pass to testcontainers.
- The repository's scripts and examples.
- A process that is killed: nothing of this code runs then, and Ryuk, an
  external reaper, removes what is left (README.md:117).

One hazard has no property: a call of `startInstances()` collects the resources
of every entry, those of overlapping calls included, and may resolve with those
of containers that a concurrent `stop()` took down (`container-runtime.ts:115`).
The package never overlaps the two on purpose, and a caller that does knows of
its own `stop()`; `OwnedRuntime` lets a start resolve after the containers went.

## Plan

1. The reporters and the summary of the dashboard as one module: the runner's
   callbacks, the events they become, and the counts the page shows, against a
   count of the tests that ran.
2. The log of a session as an abstract specification, which a session alone and
   one with its clients implement.
3. A dashboard whose reporter's process and workers start and end at any time,
   with a registry that several processes write.
