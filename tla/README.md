# A TLA+ model of large-model-proxy

large-model-proxy listens on one port per configured service.  A client that
connects makes the proxy start the service behind the port, if need be after
stopping idle services so that the resources it needs (VRAM, RAM, ...) fit, and
then forwards the connection.  Services nobody uses are stopped after a while.

This directory models that program: TLA+ modules translated from the Go source,
TLC configurations that check them on small instances, and theorems about them
that TLAPS proves for every value of the constants.  File and line numbers
refer to `src/`.

## 1. Inventory

### The system's parts

| Part | Source | State | Operations |
|---|---|---|---|
| service life cycle | `service.go`, `service_process.go` | `runningServices`, one `RunningService` per start (`manageMutex`, `idleTimer`, `cmd`, `exitWaitGroup`, `resourcesReserved`, `resourcesReleased`) | look up, queue, start, restart, connect, idle callback, stop, reap, clean up |
| static reservation and eviction | `resources.go` | `resourcesInUse`, `resourcesReserved`, `resourceChangeByResourceChans` | reserve, find a victim, wait, wake, give up, release |
| connection handling | `connection.go:182`, `main.go:57-101` | `connectionStats` (`waiting`, `proxied`) | accept, count, track, uncount, notify |
| channelMutex | `connection.go:252-295` | a token | TryLock, Lock, LockOrCancel, Unlock |
| process supervision | `service_process.go` | the process group, `exitWaitGroup` | launch, exit, SIGTERM, SIGKILL, KillCommand |
| resource monitor | `monitor_resources.go`, `monitor_process_hook*.go` | `resourcesAvailable`, `monitorUnpauseChans`, `checkCommandFirstChangeByResourceChans` | run a CheckCommand, pause, unpause, signal waiters |
| startup probe | `service.go:215-402` | the deadline | health checks, connection attempts |
| buffered pipe, client read monitor | `connection.go:58-180` | a bounded buffer, `writerDone`, `closed` | Read, Write, closeRead, closeWrite |
| forwarding | `connection.go:296-356` | two copy loops | copy, close the other side |
| shutdown | `main.go:186-203` and every test of `interrupted` | `interrupted` | freeze the map, stop everything |
| OpenAI API | `openai_api.go` | the bytes captured from a request | parse, choose the service, replay |
| management API | `management_api.go` | none of its own | one status answer |
| configuration | `config.go` | the config | load, validate |
| output of services, terminal, UI, packages, test server | `service_process.go:21-82`, `tty.go`, ... | none the others depend on | |

### How they interact

Everything shared lives in the global `resourceManager`.  Goroutines: one per
client connection; one per idle-timer callback that has fired; one monitor per
child process; one monitor per measured resource; the signal handler.
`serviceMutex` protects the map of services and the books and is held for short
sections.  A service's `manageMutex` is held across sections: by whoever starts
the service from its registration to the end of the probe, and by whoever stops
it, through SIGTERM, the wait and SIGKILL.  Locks are taken in the order
`manageMutex`, then `serviceMutex`; `canBeStopped` asks for a `manageMutex` under
`serviceMutex`, with TryLock.  A goroutine that lacks a resource blocks on a
channel of capacity one, registered under (resource, service), which every
release and every client that leaves a service idle signals without blocking.

### What is hard in it

- Up to three goroutines (evictor, process monitor, failed start) clean up the
  same instance; `resourcesReleased` must make one of them win.
- `stopService` looks an instance up by *name*, lets the map go, and locks the
  instance later; meanwhile it may be cleaned up and have a successor.
- An evictor chooses a victim under the locks and stops it after it gave them up.
- An evictor holds the `manageMutex` of the service it starts while it blocks on
  its victim's, whose holder may be an evictor as well.
- A wake-up must reach a waiter whatever else happens to its channel.
- Each failure exit of `startService` undoes a different part of the start.
- A process may die in any of these moments; SIGTERM may be ignored, SIGKILL is
  not waited for and may be refused.
- The idle timer may fire while its service is stopped, gone or replaced.

`PROJECT.json` lists these under "hazards", each at its line and with the
properties that would notice it going wrong.

### What makes each part correct

- life cycle: no live instance is out of the map; a `manageMutex` is neither lost
  nor forged, no goroutines lock each other out for ever, no service is left
  loaded with nothing to stop it, every client is proxied or closed;
- reservation: the books are exact and never above capacity, what really runs
  fits, no release passes a waiter by;
- connections: each is counted exactly once, as waiting or as proxied;
- measured resources: a waiter always has a measurement to come, nothing is
  granted on an amount it was told is stale, and nobody is waited for for ever;
- the probe ends by its deadline, notices who left, and fails only for a reason;
- forwarding: the service receives its client's bytes once, in order, with
  bounded memory, and each end closes the other;
- OpenAI API: what is replayed is the request that chose the service;
- shutdown: every process the program knows of is dead or was sent SIGKILL when
  it exits, and it does exit;
- status answers: the figures of one answer fit together.

## 2. The modules

| Module | What it is |
|---|---|
| `ServiceManager` | the model: 16 variables, one action per section of code |
| `ServiceManagerProperties` | type invariant, safety, action and liveness properties, the refinement, and the statements of the repository the code refutes |
| `MCServiceManager` | the instance TLC checks, with four configurations |
| `StatusApi`, `MCStatusApi` | `GET /status` composed with `ServiceManager` (it EXTENDS it and adds two actions) |
| `ResourceLedger` | the abstract specification of the static accounting |
| `ResourceUnits` | the amount several users take of a resource together |
| `ResourceMonitor`, `ResourceMonitorProperties`, `MCResourceMonitor` | resources with a CheckCommand: the monitor goroutine and the measured branch of `reserveResources` |
| `StartupProbe`, `MCStartupProbe` | health checks and dials against a clock; `ServiceManager` has their outcome as one step |
| `BufferedPipe` | the methods of `bufferedPipe` as operators |
| `Forwarding` | one connection: client read monitor, replay, the two copies |
| `OpenAiForwarding`, `MCOpenAiForwarding` | the HTTP server in front of `Forwarding`, for connections to the OpenAI API |
| `ByteStream` | the abstract specification of forwarding |
| `Shutdown`, `ShutdownProperties`, `MCShutdown` | a signal beside starts, stops and process exits |
| `ServiceManagerInvariant` | the inductive invariant |
| `ServiceManagerSteps` | proofs: each part of the invariant is kept by each action |
| `ServiceManagerTheorems` | proofs: the invariant, the properties, the refinement, and the status answers |
| `ResourceMonitorTheorems` | proofs: the monitor's inductive invariant and four properties |
| `OpenAiForwardingTheorems` | proofs: two inductive invariants of a forwarded connection, five properties, the refinement of `ByteStream` |
| `StartupProbeTheorems`, `ShutdownTheorems` | proofs: the inductive invariants of the probe and of the shutdown, and their safety properties |
| `ResourceUnitsTheorems` | proofs about sums |

### `ServiceManager`: state and code

A *thread* is the goroutine of a connection or an idle-timer callback.  A
connection calls `startService` at most once, so it also names the
`RunningService` that call allocates: instances are connections.

| Variable | Code |
|---|---|
| `pc`, `ptr`, `stopping`, `then`, `missing` | where a goroutine is and the locals it carries: the `*RunningService` it looked up, the name it passed to `stopService` and where it continues, `missingResource` |
| `running` | `resourceManager.runningServices` |
| `status` | `*resourcesReleased` ("unborn" before allocation) |
| `manage` | the token of `manageMutex`: its holder |
| `flag` | `resourcesReserved` of the instance |
| `timer` | `idleTimer`: nil, armed, or spent (fired or stopped but not nil) |
| `proc` | the child: up, sent SIGKILL, exited, reaped by its monitor |
| `inUse`, `reserved` | `resourcesInUse`, `resourcesReserved` |
| `chan` | `resourceChangeByResourceChans[r][s]`: none, empty, full |
| `waiting`, `proxied` | `connectionStats` |

A section of code under `serviceMutex` is one action, with everything the section
calls: a cleanup releases the resources, stops the timer, leaves the map and
broadcasts in one step.  What happens between two sections are separate actions,
so every interleaving at a lock boundary is explored.  The actions, in the order
of a client's life:

- `Accept`, `Lookup`, `TryLock`, `LockQueued`/`CancelQueued`, `Requeue`, `Track`,
  `DialOk`/`DialFail`, `Restart`: `handleConnection` up to the connection to a
  service that exists (`service.go:13-55`, `connectToService`);
- `Register`, `ReserveOk`, `ReserveMissing`, `PickVictim`, `Park`,
  `Wake`/`GiveUp`, `Refused`: registration and `reserveResources`;
- `FlagReserved`, `LaunchOk`/`LaunchFail`, `ProbeOk`/`ProbeFail`, `Unreserve`,
  `Ready`: the rest of `startService`.  The clean-up of a `ProbeFail` is the
  `stopService` it calls and then `Unreserve`, as in the code;
- `Attach`, `Count`, `EndProxy`, `Uncount`, `Fail`, `Notify`: the rest of
  `handleConnection` and `incrementConnection`;
- `StopLookup`, `StopLock`, `StopFinish`, `StopKill`, `StopAbandon`: `stopService`,
  whoever calls it;
- `Exit`, `MonitorClean`: the end of a process and `monitorProcess`;
- `TimerFire`, `IdleDrop`, `IdleRearm`, `IdleStop`: the idle-timer callback.

Abstractions.  Times are choices: a timeout may happen whenever the code waits. A
client may leave whenever the code looks at `clientDisconnected`.  `lastUsed` is left
out, so any candidate may be the victim: the code's choice is one of them, but for a
candidate that is used after the code has read the clock and before it has the mutex
(`resources.go:119-122`), which it passes over and the model does not.
`trackServiceLastUsed` is one step (`Touch`); it takes the mutex twice
(`resources.go:322`, `329`).  The probe is one step with two outcomes.  Requirements
are a Go map, so any missing resource may be found first.  `KillCommand` is the
process exit it may cause.  Something may answer on a service's port when one of its
processes is up, or when the service is not stopped on exit and has not been released
(a command that started a daemon and returned).  A positive requirement stands for a
listed resource.

### `ResourceMonitor`

A resource has a monitor (`monitor`, `timer`, `poke`, `sample`, `available`): it
waits for its timer or a poke (`Tick`, `Poked`), runs the command (`Measure`, or
`CheckFails`), stores the amount (`Store`, under `resourcesAvailableMutex`) and
signals (`Publish`, under `resourceChangeByResourceMutex`); it arms its timer again
only while somebody is registered.  A service has one goroutine in `reserveResources`
(theorem `OneReserver` of `ServiceManagerTheorems` is why one is enough) with its
locals (`recheck`, `missing`, `pending`, `victim`) and its two kinds of channels
(`first`, `change`): `Request`, `Receive`, `AllReceived` or `GiveUpChecks`, then
`Reserve` or `NotEnough`, `PickVictim` or `Park`, `Wake` or `GiveUp`.  `Load`,
`Ready`, `LaunchFails`, `StartFails`, `Unreserve`, `Exit`, `Released` and
`LastLeaves` are the rest of a service's life as far as it moves amounts or signals
waiters.

The amounts are physical: a process takes memory some time after its launch and
gives it back when it exits, and other programs take some too (`Environment`), so
that a measurement can be late, early or wrong for what is about to happen.
Nothing says that a process takes no more than its
service lists.  `answered` is history: the checks announced since the
attempt was last told that the cache is stale.  A service needs measured resources only;
the static ones are in `ServiceManager`, and one that lists both kinds is in
neither.

### `StartupProbe`

`performHealthCheck` and `tryConnectingUntilTimeoutOrProcessExit`, one action per
case of each `select`, on a clock of ticks that stands still while the goroutine
has a step to take: every delay is one the code asks for (a health check
interval, a sleep that doubles) or its surroundings cause (a command that hangs,
a dial that is not answered).  The process, the client, the signal and the port
change at any tick (`World`), and a select with several ready cases takes any.
The first sleeps between two dials are microseconds; together they are one pause
that takes no tick.

### `Forwarding`, `OpenAiForwarding`

A byte is its position in what the client sends; a read takes any part of what is
there.  The client read monitor (`MonitorRead`, `MonitorWrite`, `MonitorEnds`),
`handleConnection` (`Accepted`, `StartOk`/`StartFails`, `ReplayOk`/`ReplayFails`,
`Forwarded`, `Return`) and the two copies (`Up...`, `Down...`) are four goroutines;
each test of the shared `EOFOnWriteFromServerToClient` and the write after it are two
steps.  That `handleConnection` closes a connection accepted after the signal
(`connection.go:183-186`) is left out here.  `BufferedPipe` has the pipe's methods;
an operation on it is atomic because it holds the pipe's mutex.

`OpenAiForwarding` puts in front of it the HTTP server, which is `net/http` and
external (modelled from how `openai_api.go` uses it: it reads ahead through the
capturing connection, and drops what is left of a request body before it
answers).  The capture buffer always holds what was read since its last reset,
so the position of the reset (`mark`) stands for it.  `Script` is the sequence
of requests a client sends; a request is one unit of header and its body, and
`begin` is where the current one begins in what the client sends.
Clients do not pipeline: they send a request after they have the answer to the
one before.  Responses of the local handlers are small enough to be written
after the body was dropped.  A client that half-closes loses the rest of its
response, because the up copy that sees the end closes the service's side; the
model has that, and no property asks for the response.

### `Shutdown`

main (`Signal`, `TakeServiceMutex`, `StopNext`, `OsExit`), and for each service one
start, the `stopService` that start calls when it fails, and one `monitorProcess`.
Beside them `Callers` stop a service as often as they find it in the map, whatever
its start is doing, as idle callbacks, restarts and evictors do: several stops of one
instance may be on their way, and one of them in front of the `manageMutex` the start
holds.  A section that needs `serviceMutex` is enabled only until main takes it for
good.  The read of `interrupted` that lets a goroutine wait for `serviceMutex` is in
the step that takes it: a goroutine that has read false and then finds main in
possession never goes on, which is one that takes no further step.  Reads that
decide between two ways to go on are steps of their own.

`manage` may be lost: a stop that is interrupted tries the lock and never unlocks it.
`unlocks` is the set of stops that took it with `Lock` and have deferred the Unlock,
which `Returns` does in every exit of a stop.  A service has one instance here;
successors, resources and eviction are in `ServiceManager`.

### `StatusApi`

`CopyCounters` (under `connectionStatsMutex`) and `Answer` (under `serviceMutex`)
with everything of `ServiceManager` between them.  URLs, ports and the page the
API serves are left out.

Operators whose name begins with `Bad` are no part of the model.  Each is the
faulty form of the definition that follows it (a dropped guard, a missing
unlock, a lost decrement); put in its place, it makes TLC report the property it
is meant for (`PROJECT.json`, "mutants"), which shows that the property depends
on the code.

## 3. The runs

Every run sets `CHECK_DEADLOCK FALSE`: the clients may all have come
and gone, a connection be closed, a probe be over, the program have exited.
None of these is a deadlock of the program; that goroutines do not block each other is
what the liveness properties and `NoLockCycle` say.

| Run | Instance | Shows | States |
|---|---|---|---|
| `Contention` | c1, c2, c3, no timers, both services restart, `draw` refuses SIGKILL, `chat` is stopped on exit | the books: `TypeOK`, `LiveIsRegistered`, `Conservation`, `ReservedConservation`, `PhysicalCapacity`, `CountsMatch`, `WakeOnRelease`, `ImplementsLedger` | 390 354 |
| `IdleTimers` | c1, c2, c3, one callback | the locks: `LockDiscipline`, `NoLockCycle`, `NeverForgotten` | 2 666 774 |
| `Progress` | c1, c2, a status request, `chat` restarts, fairness | `Resolves` for clients that queue, restart and fail; the answers: `FiguresAgree`, `StartHasItsClient` | 38 988 |
| `Unload` | c1, c3, one callback, fairness | `Resolves` with evictions, and `IdleUnloaded` | 36 418 |
| `Monitor` | two services, one measured resource that fits one of them or another program, fairness | `TypeOK`, `FirstCheckComes`, `NoOrphanChannel`, `GrantsAfterCheck`, `Ends`, `Quiesces` | 33 662 |
| `Stream` | a connection to a service's port, or one that sends three requests to the OpenAI API; a pipe of 2 bytes, fairness | `TypeOK`, `ReplayIsTheRequest`, `BacklogBounded`, `ClosedAtReturn`, `ImplementsStream`, `FinishedMeansDelivered`, `Ends` | 61 160 |
| `Probe` | timeout 7, interval 3, dial 2, pause up to 3 ticks, fairness | `TypeOK`, `EndsInTime`, `NoticedPromptly`, `FailsForAReason`, `Decides` | 104 004 |
| `Shutdown` | two services, one of them detached, and another goroutine that stops that one, fairness | `TypeOK`, `TokensHeld`, `StoppedAtExit`, `MapFrozen`, `Terminates` | 1 487 968 |

Bounds.

- `Contention` to `Unload`: two services, `chat` and `draw`, each need the one unit
  there is of a resource, so that to start one is to stop the other: with a larger
  capacity they would not interact.  c1 and c2 are clients of `chat`, c3 of `draw`.
  Three connections are the smallest number that has a starter, a queued client
  of the same service, and an evictor or a waiter of another service at once, and
  that has two instances of one service: one being stopped, one its
  successor.  `NoLockCycle` needs two goroutines that hold one `manageMutex` and
  wait for another; with an idle callback there are four goroutines.  Counters are
  bounded by the number of connections, nothing else is cut off.  The
  liveness runs are smaller because TLC searches the whole graph for cycles.  In
  `Contention` and `IdleTimers` c1 and c2 may be exchanged, and the constants
  treat them alike, so symmetry is sound; the liveness runs use none.
- `Monitor`: two starts compete with each other and with another program; nothing
  is cut off.  A second resource multiplies the states and adds only that first
  checks are collected in any order, which the theorems of section 5 cover.
- `Stream`: the client sends up to six bytes, of which a read takes up to two: the
  pipe, which holds two, is filled while a chunk waits, and a request, its
  predecessors and bytes after it fit in.  The service answers once.
- `Probe`: two health checks and part of an interval, or several dials with pauses
  of different lengths, fit into the timeout; `Horizon` stops the clock after every
  bound that is claimed.
- `Shutdown`: two services, so that main stops one while the other changes; one
  instance each, which is the bound.  One caller makes three stops of an instance
  possible at once: its own, the one of the failed start and main's.

Properties worth a remark:

- `Conservation` and `ReservedConservation` compare a counter with the sum of what
  the instances *should* hold, judged by where their goroutines are; any path
  that releases twice or not at all breaks them.
- `PhysicalCapacity` ties processes, books and amounts together: what the processes
  need that were not sent SIGKILL is within `resourcesInUse`, and that is within the
  amount there is.
- `WakeOnRelease` is an action property: whoever frees enough of the resource a
  connection is parked on fills its channel in the same step.
- `NeverForgotten` is a safety property that `IdleUnloaded` rests on: a live
  instance nobody works on has an armed timer, a callback or a pending stop.
- `CountsMatch` implies that the clamp at zero in `incrementConnection` never
  acts.
- `GrantsAfterCheck` does not say that what is granted fits.  The code cannot keep
  that: the cached amount is compared with the reservations of now, and two
  services signalled by one check, the first of which becomes ready before the
  second looks, are both granted the same memory (`resources.go:297`).
- `Ends` of `Monitor` and `Quiesces` hold although a CheckCommand may hang or fail for
  ever; `FirstCheckComes` is why a failed one does not strand its waiters.
- `FinishedMeansDelivered` is about the order of the two ends of the pipe: the end of
  the stream never overtakes bytes that are buffered.
- `ClosedAtReturn` and `Ends` of `Stream` are why a connection does not stay counted
  as proxied: whichever copy ends first, the other one is released.  `Ends` asks that
  what the client sent fits into the pipe: with a full pipe nobody reads the
  socket, and a client that left is only noticed when its service starts or
  fails.
- `NoticedPromptly` gives the client and the process one dial, the only wait of the
  probe that neither can cut short.
- `MapFrozen` is the comment at main.go:192-195; `monitorProcess`'s TryLock and every
  guard on `interrupted` are there for it.  `TokensHeld` is about `channelMutex`: Unlock
  sends to a channel with room for one, so one that is not owed blocks for ever or
  lets two goroutines in.  `StoppedAtExit` speaks of the processes
  whose `cmd` was set when main took `serviceMutex`.
- `StartHasItsClient` says how far a status answer is a snapshot: the counters are
  older than the states, and a service is shown as starting without a client only
  if the client came in between.  A service whose process refused SIGKILL is
  excepted: it stays in the map as starting after its start was given up.

### Statements the code does not keep

Four runs each refute one statement of the repository; the counterexample is the
point of the run.

- `BusyEviction`: the victim gets a proxied client between its choice and its
  SIGTERM, although a busy service is to be waited for (README.md:177).
- `UnpolledWaiter`: between the first check and the registration for changes a waiter
  is registered nowhere; a check that ends there stops the monitor, and the
  CheckCommand is not run again while it waits (README.md:179).  The waiter then
  depends on another service's event or its deadline.
- `EarlyReturn`: `ConsiderStoppedOnProcessExit` false is meant for a command that
  returns early and must not make the proxy tear its service down (README.md:175).
  The health check ignores such an exit, the connection attempts do not: if the exit
  is seen before or between two dials, the start fails and the service is stopped
  (service.go:358-367, 382-385).  The test at main_test.go:2910 wants it that way for
  a process that dies before it listens, so the README and the test disagree too.
- `StaleReplay`: a request whose handler does not read the body leaves that body to
  the HTTP server, which reads it after the capture buffer was reset, so it is
  replayed to the service before the next request (openai_api.go:207).

Further observations, made while modelling; no run of their own:

- a process that exits between the probe and the arming of the idle timer leaves
  an armed timer on a destroyed instance, so the test for nil passes and
  `stopService` is called with the name (against service.go:185-187);
- a release between the check and the registration of the channel is signalled to
  nobody; the connection waits while the resource is free (resources.go:79-84 only
  covers the time after the registration);
- of two first clients of a stopped service the second is closed with "already
  started" instead of waiting (README.md:17);
- after SIGKILL the resources are released without a wait for the exit, so for a
  moment two processes use what only one may (README.md:161);
- an evictor whose victim refuses SIGKILL picks it again and again and never looks
  at its deadline;
- a process launched before a signal whose `cmd` is not yet set is not stopped by
  main and outlives the program (main.go:195, service.go:107-117);
- a start's reservation is given back without a signal (resources.go:355): whoever
  was refused because of it waits for the next poll;
- a KillCommand that hangs keeps `manageMutex`, and at shutdown the program, for
  ever (service_process.go:217).

## 4. Fairness

`FairSpec` assumes, and the Go runtime and the operating system justify:

- weak fairness of what a goroutine does on its own (`ProgramStep`, `StopStep`,
  `IdleStep`): the scheduler runs every runnable goroutine, and every wait of the
  code has a timeout, except for those below;
- strong fairness of a blocked `manageMutex.Lock` (`LockQueued`, `StopLock`): the
  mutex is a channel, receivers queue in order and a send hands the token to the
  first, so a goroutine that waits is served although the mutex is never free
  when it looks;
- strong fairness of `TimerFire`: timers expire, and that only `Timers` callbacks
  run at a time is a bound of the model;
- a process that was sent SIGKILL exits, and its monitor goes on.

Clients owe nothing: they may queue or be proxied for ever.  A process that was
not killed may run for ever.  No outcome is favoured: `ProgramStep` is one
disjunction, so a launch may fail every time.  `StatusSpec` has the same
fairness; a status request owes nothing.

The other specifications:

- `ResourceMonitor!FairSpec`: weak fairness of each monitor and of each start, and
  strong fairness of `GivingUp`: the deadline's timer has fired for good, and a
  `select` that finds it ready time and again takes it in the end although it
  chooses at random and a signal may be ready each time.  A CheckCommand owes
  nothing; it may hang.  Starts that wait on a victim rely on the victim's exit
  (`StopStep`), which `ServiceManager` assumes as well;
- `StartupProbe!FairSpec`: time passes, and the goroutines run;
- `OpenAiForwarding!FairSpec`: the goroutines run and both peers read what they are
  sent.  A start owes nothing until the client is gone: it may take any time, but
  it looks at `clientDisconnected` wherever it waits (`Resolves`, `NoticedPromptly`);
- `Shutdown!FairSpec`: main runs, and a KillCommand ends.  Nothing is assumed of the
  goroutines beside it: `Terminates` holds though they stop at any point.

## 5. What is proved

The assumptions are those declared in the modules: the sets of connections,
callbacks, services and resources are as small or large as one likes but finite
where they are summed over, a goroutine is a connection or a callback
(`ThreadsAssumption`), amounts and requirements are natural numbers
(`ConfigAssumption`, `MonitorAssumption`), and `None` is none of them.  The
configuration loader does not refuse a negative requirement, nor one that exceeds
the amount there is: the first is assumed away, the second is not.  Nothing
bounds the number of services, resources, connections or callbacks.

`ServiceManagerInvariant.IInv` is the inductive invariant.  The properties are
not inductive alone; each needs the next part:

- `TypeInv`, `LocalsInv`: a goroutine has the locals its place uses;
- `RegistryInv`: the map sends a service to an instance of it, and the live
  instances are exactly those in the map.  This needs a start to find no entry
  and a cleanup to be guarded by `status`;
- `LockInv`: a `manageMutex` is held by exactly the goroutine in a section it
  guards.  Two stops of one instance exclude each other by it.  Its second part,
  that an evictor does not stop what it is starting, is what lets a
  waiting starter keep its instance;
- `PhaseInv`: up to the launch, an instance stays in the map and its
  `resourcesReserved` flag follows its starter's progress.  Nobody else can clean
  it up: it has no process, and a stop would need the `manageMutex`;
- `ProcessInv`: a process that was not sent SIGKILL has a charged instance in
  the map; a stop past SIGKILL has none left;
- `ChargeInv`, `ParkInv`: only a registered instance is charged; a parked
  connection's channel is registered;
- `BornInv`, `TimerInv`: nobody has a pointer to an instance, nor arms its timer,
  before it is registered, and a fired timer becomes nil by the release only;
- `PendingInv` strengthens `NeverForgotten`: a connection that holds the
  `manageMutex` of a running instance for a moment (`track`, `requeue`) finds
  something pending as well, so it may unlock without arming anything;
- `StoppingInv`: the instance a `stopService` works on is of the service it was
  given the name of, although it may have a successor by now;
- `StarterInv`: an instance with an idle timer has its resources; a live one without
  a timer is being started, or stopped by its starter, which works on that very
  instance and not on a successor, unless it refused SIGKILL;
- `EvictionInv`: in every set of connections there is one that is not about to stop
  what another one of them is starting;
- `CountsMatch` is inductive once `LocalsInv` tells where each connection goes next;
- `LedgerInv`, `ReservedConservation`: the counters.

`ServiceManagerSteps` proves, part by part and action by action, that a step
keeps these; `ServiceManagerTheorems` combines them:

- `InductiveInvariant`: `IInv` holds of every reachable state; `TypeCorrect`,
  `RegisteredWhileLive`, `LocksAreDisciplined` and `OneReserver` follow from it;
- `LedgerImplemented`: the specification implements `ResourceLedger`.  Every step
  is shown to be one of three *moves* of the pair (`Holders`, `inUse`): a service
  joins and its whole requirement is added, which `Short(s) = {}` shows to fit;
  one leaves and its requirement is subtracted; or both are unchanged.  An
  instance that is in the map and charged cannot join twice by `PhaseInv`;
- `Conserved` follows from these moves and the lemmas on sums.  A sum over a set of
  users is the size of a set of units, `{x} \X 1..req[x][r]`, so that it needs no
  recursion and the library's facts about cardinality apply;
- `ReservationsConserved`: the same for the starts under way;
- `PhysicallyFits`: the processes that are up map one to one to charged services
  in the map, so what they use is at most `inUse`, which a reservation never takes
  above the amount (`Short(s) = {}`);
- `ReleaseWakes`: a step in which a parked connection's resource stops being
  short is a release, and each release broadcasts on every resource it frees;
  the channel is there by `ParkInv`;
- `CountersMatch`: each step moves at most one connection into or out of the
  waiting or the proxied ones, and changes the counter of its service by as much;
- `NeverForgets` follows from `PendingInv`;
- `NoDeadlock`: goroutines that block each other in a circle hold a `manageMutex`
  and wait for one, so by `LockDiscipline` they are starters in `reserveResources`
  that evict, each stopping what the next one is starting; `EvictionInv` says
  that there is no such circle.  It is kept without a record of the order of
  registrations: a starter that registers has not picked a victim yet, so it adds
  edges towards itself only; one that picks a victim finds its `manageMutex`
  free (`canBeStopped`), so nobody is starting that service and it adds none.  A
  victim that is replaced while its evictor is on the way is the first case;
- `AnswersAgree`: the services shown as starting or running are among the holders by
  `StarterInv`, the holders among those that are listed, and sums are monotonic;
- `StartsForAClient`: the starter that `StarterInv` names is counted as waiting.  If
  it had been counted in the copy, it would have been waiting then as well,
  because a connection waits only once (`SnapshotInv`), and by `CountsMatch` the copied
  counter would not be zero.

`ResourceMonitorTheorems.IInv` is the inductive invariant of measured resources:

- `Types`, in which `resourcesReserved` is only an integer; that it is never
  negative (`TypeCorrect`) needs `ReservedInv`: it is the sum of what the services
  between grant and readiness require, by the lemmas of `ResourceUnitsTheorems`;
- `NoOrphanChannel` (`ChannelsEnd`) is inductive alone: `missing` stays as it is
  while its service is parked;
- `CheckInv` strengthens `FirstCheckComes` (`ChecksCome`) by the fact that a waiter's
  channel *is registered*.  That is why a check that fails arms the timer again,
  and why a monitor that is idle with a waiter was poked;
- `AnswerInv`: a goroutine that trusts the cache has had a check of each resource
  since it was last told otherwise; one that collects first checks has, for each
  resource, been answered or still waits.  A check counts from its announcement and
  not from its receipt, so a channel that is full belongs to a resource that was
  answered.  `GrantsAreChecked` is an action property that follows from it.

`ShutdownTheorems.IInv` adds to the types:

- `MainInv`: main is in no wait that a goroutine could keep it in, and is done with
  every service when it exits;
- `LaunchInv`: a cmd is set once, for a process that exists, and what
  `exitWaitGroup` says stays true.  Without it, a service main has seen could
  launch another process;
- `StopInv`: of the services whose cmd main has seen, each is still to do, is being
  stopped by main, or its process is dead.  A stop of main ends in each of its
  exits with a process that has exited or was sent SIGKILL;
- `TokenInv` strengthens `TokensHeld`: who has deferred an Unlock is between `Lock` and
  its return, and nobody stops an instance, nor takes its `manageMutex`, before its
  start has registered it with the mutex taken.  It gives `TokensAreHeld`.

`StopsWhatItSaw` follows from `MainInv` and `StopInv`.  `MapIsFrozen` needs no
invariant: every action that writes what `serviceMutex` guards needs `serviceMutex` or a
test of `interrupted`.

`StartupProbeTheorems.IInv` holds for every timeout, interval, dial timeout and pause.
`TimeInv` says that no wait is slept past its end and no dial begins past the
timeout (`ProbeEndsInTime`).  `NoticesPromptly` needs more: that the exit channel is
closed only for an exit and exists in the health check exactly if the exit matters
(`ChannelInv`); that the clock stands still from such an exit until the channel
is closed (`ExitInv`); and that a dial nobody waits for began before that
(`DialInv`).  `GivesUpForAReason` follows from `ChannelInv`.

`OpenAiForwardingTheorems` has two invariants, and with them `Forwarding` and
`BufferedPipe` are proved about for every limit of the pipe and size of a read.
`ControlInv` holds whatever the client sends:

- `HttpInv`: the server is inside one request or between two, and the client has
  sent nothing of the next one;
- `PlaceInv`, `PipeInv`: which goroutines run, and what the flags of the pipe and
  the chunks between a read and its write are, is told by where the goroutines are;
- `CloseInv`: a copy that ended has closed the other side and given its reason, from
  which `ReturnsClosed` follows;
- `DrainInv`: the up copy ends beside a healthy service only after the monitor is
  done and the pipe is empty: the end of the stream is behind the bytes;
- `BacklogBounded` (`PipeIsBounded`), with the bound on a chunk in `PipeInv`.

`StreamInv` is about the bytes: the capture buffer begins with the request
(`MarkInv`), and what was replayed or written, what the up copy holds, what the
pipe holds and what the monitor holds are, one after the other, all that was read
(`OrderInv`).  It gives `ReplaysTheRequest`, `DeliversAll` and, step by step,
`StreamImplemented`.  These are proved under `BodiesAreRead`: no request for the
list of models or to an unsupported URL has a body, for their handlers do not look
at it.  That is not a convenience: with such a request the
code replays too much, which the run `StaleReplay` shows.  In the run `Stream`
the assumption holds, and for a connection to a service's own port the script
may be empty.

Only model-checked: the liveness properties (`Resolves`, `IdleUnloaded`, both `Ends`,
`Quiesces`, `Decides`, `Terminates`), because fairness and ENABLED are beyond the
prover.  So is induction over data, for which reason sums are sizes of sets and
the beginning of a request is a variable and not a sum over the script.

## 6. Not modelled

- Configuration loading and validation (`config.go`): a sequential function of one
  document with tests of its own.  The models take what it yields as constants.
- `serviceLoggingWriter`, log formatting, `tty.go`, the UI, packaging and the test
  server: no effect on the state above.
- JSON and HTTP parsing, the list of models, URLs and ports of the APIs: only which
  handler runs, what it reads and when it resets the buffer matter.
- Which candidate is evicted: the code takes the least recently used, the models
  any, which includes it.
- Services that list static and measured resources at once, whose one
  `reserveResources` is in two modules.
- What a process does after the program has exited, and a KillCommand that hangs:
  `stopRunningService` waits for it without a limit (`service_process.go:205`).

## 7. Plan

Done: the modules of section 2, the runs of section 3, the theorems of section
5.  Left, most important first:

1. The choice of the least recently used victim as an operator, checked against a
   definition by order; the validation of a configuration as a pure predicate.
2. A service with static and measured resources in one model.
