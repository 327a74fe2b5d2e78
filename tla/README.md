# module_init in TLA+

A verification development for the framework in `core/` (services, events,
channels, component lifecycle) and the modules in `app/features/` that use it.
The specifications are translated from the C source; `PROJECT.json` maps every
definition to the lines it stands for.

Run a model with `tlc -workers 2 -config X.cfg MCModule` and check the proofs
with `tlapm X.tla` for each module `X` whose name ends in `Proofs` (most take
a minute or two; `SysCoreProofs` takes the longest, less than ten).

## 1. The system

| Component | State | Operations | Talks to |
|---|---|---|---|
| buffer pool (`core/sys_channel.c`) | blocks with reference counts, `buffers_in_use`, mutex and `idle` condition | create, acquire, retain, release, wait_idle, destroy | channel (each queued message holds a reference) |
| `sys_channel` | ring, `closed`, statistics, mutex, `not_empty`, `not_full`, atomic reference count | create, send, receive, close, retain, release | pool |
| `sys_service` | 64 slots (descriptor, accepting, reference count), one mutex and condition | register, acquire, release, unregister, reset | called by components and by wrappers in `app/features/*.h` |
| `sys_event` | array of subscriptions with `in_flight`, queue of 64 events, running/accepting, worker | start, stop, subscribe, unsubscribe, publish (sync, async) | `sys_thread` (worker), callbacks of components |
| `sys_component` | link section of descriptors, states, initialized and started order | start_all, stop_all, check_health, get_status | callbacks of components |
| `sys_core` | `g_core_state` | init, shutdown, get_status | registry, bus, lifecycle, thread counts |
| `sys_thread` | handle, stop flag, two global counts | create, request_stop, join | pthreads |
| `sys_runtime` | signalfd, eventfd, owner, signal mask | create, wait, request_stop, destroy | `app/main.c` |
| `sys_log` | level, sink | set_level, set_sink, write | everything |
| camera, zlmedia | stream state, pool, channel, producer; consumer, attached channel | start/stop stream, rollback; attach, detach | service (control), event (handshake), channel (frames) |
| wifi, gps, imu | constants | sample services | service |
| `app/main.c` | exit code | create the runtime, init the core, stream, wait, shut down | runtime, core, services |
| module configuration (`tools/menuconfig.py`, `tools/ParseConfig.cmake`, `app/features/CMakeLists.txt`) | manifests, enabled set, `.config`, CMake cache | validate the dependency graph, normalize, load, toggle, save; configure | files |

What is hard here is concurrency: seven mutexes, six condition variables, an
atomic reference count, calls with deadlines, callbacks that run outside the
locks, and two multi-step protocols (lifecycle with rollback, stream start and
stop) in which any step may fail. The process persists nothing, so its crash
plays no part; the one file is `.config`, whose writer may be killed. Messages are
only lost where a full queue says so.

What makes each part correct:

- pool: counts equal holders, nothing is reused or freed under a holder, idle
  waiters are woken;
- channel: FIFO, no message lost or duplicated uncounted, references handed over
  exactly once through send, drop, receive, close and drain, no lost wakeup,
  close and the last release do what they promise;
- services: a reference stays valid until its release; a teardown closes first,
  waits exactly for the calls in flight, and returns;
- events: a subscription outlives its queued and running callbacks; stop drains
  and waits; no wait is forgotten;
- lifecycle: dependencies run while their dependents do; every failure is rolled
  back completely, in reverse, and stays visible;
- stream: producer and consumer use only the stream they belong to, the
  handshake of STREAM_STOPPING gives every frame back before the pool goes, a
  stopped camera keeps nothing, and no thread outlives the core;
- core: whoever calls init and shutdown, `g_core_state` says what the framework
  is, failures leave nothing up, and what one module assumes of its callers the
  others provide;
- process: SIGINT and SIGTERM end it through main's path, which ends in good
  order and always ends;
- configuration: the graph checks and the normalization are exact, and a saved
  `.config` builds at every moment.

`PROJECT.json` lists the places where this could go wrong ("hazards") with the
properties that watch them.

## 2. Modules

| Module | Models | Action = |
|---|---|---|
| `SysBufferPool` | buffer pool | one critical section of `pool->mutex` |
| `SysChannel` (extends the pool) | channel on top of the pool | one critical section of `channel->mutex` or `pool->mutex`, or one atomic operation |
| `BoundedFifo` | what a channel promises: an abstract bounded queue | one put, get, displacement, close |
| `SysService` | service registry | one critical section of `g_service_mutex` |
| `SysEvent` | event bus, worker, callbacks | one critical section of `g_event_mutex`; a callback lies between two |
| `SysComponent` | lifecycle of `sys_component.c` | what the lifecycle thread does between two callbacks |
| `CameraStream` | camera, zlmedia, and what `sys_core_init`, its rollback and `sys_core_shutdown` do to them | what a thread does between two calls of the framework that block, run callbacks or touch what another thread shares |
| `SysThread` | managed threads and their two counts | one function, or the part of `sys_thread_create` before and after `pthread_create` |
| `SysRuntime` | runtime, signal masks, pending signals | one function; one signal |
| `SysCore` (extends both; instances of `SysComponent`, `SysEvent`, `SysService`) | `sys_core_init` and `sys_core_shutdown` by any thread, and the framework they drive | one action of the module whose code runs |
| `Application` (extends `SysCore`) | `app/main.c`, a second thread, signals | one call of main, or a step inside it |
| `ModuleConfig` | the configuration tool and CMake | one key, one system call of the save, one configuration by CMake |
| `SysServiceProofs` | theorems about `SysService` | |
| `SysChannelProofs` | theorems about `SysChannel` and its pool: shape, references, messages; and about the callers: wakeups, first in, first out | |
| `SysEventProofs` | theorems about `SysEvent` | |
| `SysComponentProofs` | theorems about `SysComponent` | |
| `SysCoreProofs` (instances of the three) | theorems about `SysCore` | |
| `ApplicationProofs` (extends it) | theorems about `Application` | |
| `CameraStreamProofs` | theorems about `CameraStream` | |
| `ModuleConfigProofs` | theorems about `ModuleConfig` | |
| `MC...` | instances for TLC: symmetry, link sections | |

Conventions. A thread's place in a call is `pc[t]`; `pthread_cond_wait` splits a
call into a sleep and a resume that re-tests its loop; a thread can be woken by
a signal, by a broadcast, by its deadline or spuriously, and takes the mutex in
any order afterwards. `pthread_cond_signal` wakes one sleeper, chosen freely.
Time is abstract: a call has the timeout `zero`, `timed` or `forever`, a `timed`
deadline may expire at any moment (`Expire`), and a thread asleep past its
deadline times out. Calls that fail without changing anything are left out, as
are log output, payloads and pure queries. A definition named `X_Y` is `X` with
the plausible bug `Y`: no action uses it, it documents which mistake in the code
the property listed with it under "mutants" would reveal.

How state corresponds to code:

- `SysBufferPool`/`SysChannel`: `config` is what the channel was created with, one
  of the `Configs` of the run; `queue`, `head`, `count`, `closed`, `stats`,
  `reference_count`, `buffers_in_use` are the fields of those names. `acquired`,
  `received`, `sending`, `dropped` say which thread holds a reference and in
  which local variable. Clients hold a channel reference while they use it.
- `SysService`: `desc`, `accepting`, `reference_count` per slot; `ref` is
  `ref->internal`; `target` is the set of slots a teardown waits on:
  `sys_service_unregister` is the loop over one slot, `sys_service_registry_reset`
  the same loop over all.
- `SysEvent`: `subscribers` is the array (as a set), `queue` the asynchronous
  queue, `calls[p]` the stack of deliveries of a process (a callback may publish
  synchronously), `in_flight` the counts. `sys_event_bus_start` is two steps,
  since it accepts before its worker exists and the creation may fail.
- `SysComponent`: `section` is the link section, chosen in `Init`; `state`,
  `initialized`, `initialized_order`, `started_order` as in the code; `alive` and
  `active` record what the components' callbacks have really built. The pass of
  `initialize_phase` that skips components is stated by its result: `Skipped`
  is the set in which a component is exactly if what stands before it in the
  section decides so; that there is such a set is the lemma `PassExists`.
- `CameraStream`: `camera` and `zl` are the statics of `camera_mod.c` and
  `zlmedia_mod.c`; a stream is named by its generation, which also names its
  pool, channel and threads; `holders` are the owners of a channel, `stop` the
  stop token of a thread, `frame` the block in its hands; `call[t]` is the stack
  of a caller: the event of `camera_real_start` or `camera_real_stop` (`gen`) and
  the locals of `detach_stream`. The framework is used as its own modules describe it: a
  channel or pool call is one step, an unregister waits for calls, an
  unsubscribe for callbacks; a synchronous publish runs its callback in the
  publishing thread, so that callback is part of the start or stop. `core` is what
  `sys_core_init` and `sys_core_shutdown` have reached: the owner goes through
  `camera_init` (which opens the service), the two subscriptions of zlmedia, one
  after the other, the registration of zlmedia and the starts, each of which may
  fail and is then rolled back; stops and deinit callbacks come in the same
  order as in the code. A start or a stop of the stream may begin as soon as the
  service is open.
- `SysCore`: `at[t]` is the line of `sys_core_init` or `sys_core_shutdown` that t has
  reached, `ret[t]` its local. The variables of the three modules appear under
  their own names (`pc`, `accepting` and `target` renamed), and their actions are used
  as they are, each by the thread that runs the code: the callback of `subject`
  calls the registry, the bus and the threads in the name of the caller of
  `sys_core_init`. Components are the general form of `app/features`: a Provider
  registers a service in init, a Subscriber an event handler, and deinit
  withdraws them; a Producer has a thread, which a failed stop leaves behind
  (`left`), as the camera does when it answers BUSY.
- `SysThread`: `life[h]` is a handle's place between create and join. `SysRuntime`:
  `blocked` are the tasks whose mask blocks SIGINT and SIGTERM, `pending` what the
  signalfd would read, `stop_count` the eventfd.
- `ModuleConfig`: `enabled` and `dirty` are the tool's, `file` is `.config` by module,
  `cache` the `CONFIG_` variables in CMake's cache. The algorithms are functions
  of `depends`; a recursive function of the path, the module and the visited set
  stands for the recursive `visit`, its result for the return (`Visited`) or the
  exception (`Failed`).

## 3. Runs

| Run | Bounds | Shows |
|---|---|---|
| `MCSysChannel` | 3 threads, 2 blocks, counts up to 3, 4 sends and receives; capacity 1 with FAIL and capacity 2 with DROP_OLDEST | all invariants of pool and channel with blocked senders and receivers, deadlines, close, idle waiters, last release and pool destroy; the channel implements `BoundedFifo` |
| `MCSysChannelLive` | 2 threads, capacity 1, FAIL, 3 calls, calls with and without a deadline | close releases every caller, timed calls (`wait_idle` included) return, the last release frees the channel |
| `MCSysService` | 4 threads, 2 slots, 2 keys, 2 ABIs, 2 op tables; teardowns of a slot kept apart | references valid, counts exact, keys unique, no teardown forgotten, closed before waiting, every teardown returns |
| `MCSysEvent` | 3 threads and the worker, 2 subscriptions, a queue of 2, 3 publications | in_flight exact, no use after free, no lost wakeup, a stopped bus is drained and runs only callbacks that an unsubscribe awaits (`StoppedIsQuiet`); unsubscribe and stop return, the queue drains (`WaitsReturn`) |
| `MCCameraStream` | 2 threads, 2 streams, 2 blocks, 2 calls of `sys_core_init`, any step of which may fail (1 call where stream calls may overlap it); with the rule `quiet`, with its half for initializations, and without it | producer and consumer use only what exists, frames and generation agree; under `quiet` the handshake returns all frames and a stopped camera is clean; every call, initialization and shutdown returns |
| `MCSysComponent` | every policy, phase and dependency graph of 3 components and some of 2 (cycles, missing, duplicate and later-phase included), every callback may fail | the lifecycle properties; `start_all` and `stop_all` return |
| `MCApplication` | main and a second thread, the worker, 2 components (one with a service and a thread, one that depends on it and subscribes), 2 starts of the core, 1 publication, 1 stop request, SIGTERM; every creation and callback may fail | `CoreStateTruthful`: the core state and all the parts agree; `FrameworkKeepsTheRules`: the rules that the modules below assume are kept, and the three violations of the bus and the registry below cannot happen; `EntriesIntoAlive`: services and events reach only what is built; `ThreadsAccounted`; `EndsInOrder`: signals and failures end the process only when everything is down; `ProcessEnds` |
| `MCModuleConfig` | every graph of 3 modules with at most 2 dependencies each, unknown names, loops and cycles included; every `.config`, with and without a stray entry; the tool killed anywhere, CMake at any moment | the two graph checks agree with each other and with the definition, `normalize_dependencies` leaves the greatest set whose dependencies are met; a `.config` that the tool has saved builds, during the next save and after a kill too |

Disagreements between the code and its documents (runs that TLC finds violated):

| Run | What happens |
|---|---|
| `MCSysServiceDouble` | Two unregisters of one key overlap. The one that sees the count at 0 first empties the slot, a register reuses it, and the other still waits on it: for a service that accepts references, and which it wipes in the end. |
| `MCSysEventStop` | `sys_event_bus_stop` returns while a synchronous callback runs, if an unsubscribe has taken its subscription out of the array. |
| `MCSysEventStart` | The thread creation in `sys_event_bus_start` fails after another thread has published: the event is never delivered and never counted, and its subscription keeps its `in_flight`. |
| `MCCameraShutdown` | A `start_stream` is in its handshake when `sys_core_shutdown` stops the camera, which answers BUSY: the core ends stopped, the producer runs on and no one joins it. |

`NoDanglingReference`, `ReferencesExact` and `NoUseAfterFree` hold in spite of
these: the memory is safe, the promise of the document is not kept. The first
three need clients that `app/` does not have: in `MCApplication`, where only the
lifecycle unregisters, unsubscribes and starts the bus, they do not occur. One
more is built into a property: an OPTIONAL component whose `start` fails is
deinitialized at once, while an initialized component may depend on it
(`sys_component.c:227`; docs/architecture.md, section 4, promises the reverse
order). `RequiredDependenciesAlive` names this exception.

Why the bounds are enough. Two blocks and a ring of one or two slots make it
empty, full and wrapped; three threads give a producer, a consumer and a third
that closes, releases or competes for a wakeup (a lost signal needs two sleepers
or one sleeper and one latecomer). Four threads at two service slots give two
holders and two teardowns. Three threads and the worker give the bus an
unsubscribe, a stop and callbacks in two more places at once; a nested
publication needs two, the queue limit three. Three components give chains,
diamonds without their tip, and cycles. Two threads put a start or a stop
beside another one or a shutdown; the second stream shows what the first left
behind, the second `sys_core_init` what a shutdown, or an initialization that
failed, did; it is explored where no stream call overlaps an initialization
(`Bound` of `MCCameraStream`), for without that rule the run would not end in
time. In `MCApplication` the
OPTIONAL provider and the REQUIRED subscriber let a start fail with nothing, one
or both of them built or running, skipped or discarded; two starts show what a
failed or finished run leaves to the next, and one publication, which may be
queued, delivered or nested in main's call, is enough to meet every deinit.
Three modules give a chain that takes the passes of the normalization
more than once, whichever way the manifests are sorted. `MaxCalls` and `MaxPublishes` bound
otherwise endless behaviours; they are large enough to fill the ring or the
queue and then race a close or a stop.

Client rules, each named in its module: a thread uses a channel only while it
holds a reference to it; start and stop of the bus, and start_all and stop_all,
are called one at a time (`g_core_state` sees to it); a handle is not used after
the stop that freed it; nobody unregisters or resets while holding a reference.
`ExclusiveUnregister`, `ExclusiveReset`, `ExclusiveStart` and `quiet` are rules the
code does *not* enforce: a run states whether it assumes them, and the violations
above are what happens without them. What survives without the first two is
proved (section 4). `MCSysService` keeps both rules; a register while a reset
waits is covered by the theorems only.
`quiet` is the set of core states, of STARTING and STOPPING, in which no stream call
runs; `Quiet` is the full rule, which the one-threaded `main.c` keeps. It is chosen
in `Init`, so that one run has all cases: `StoppedIsClean` assumes the full rule, the
other properties do not. Under it the violation of `MCCameraShutdown` cannot
happen, which is proved, too. Without it StoppedIsClean is false, in an
initialization as well: the camera's service is open (`camera_mod.c:311`) before
zlmedia subscribes STARTED and then STOPPING (`zlmedia_mod.c:187-191`), so that a
stream started and stopped between the two leaves the consumer attached while
the camera is STOPPED; and an initialization that fails while a stream runs
deinitializes a camera that it has not yet started, and so does not stop
(`sys_core.c:31-42`), and leaves the producer running.
`StopAwaitsOthers` is the part of `StopAwaitsCallbacks` that holds without a rule for
unsubscribes: what runs when the bus is stopped are callbacks of subscriptions
whose unsubscribe still waits for them, and none if no unsubscribe is under way.
`MCApplication` assumes no client rule of the modules it composes, only those of
the runtime (one waiter, no use after the destroy, threads started after the
create). `EndsInOrder` speaks of processes in which main alone calls init and
shutdown, as in `main.c`; with a second thread that does so, main may find
`SYS_ERR_STATE` and leave while the other is at work.

In the safety run of the channel the only timeout is `timed`: it has every
behaviour of `forever` (the deadline need not expire) and more; polling and
endless calls are in the live run, and a polling call is one that neither waits
nor changes anything but the reference it takes and gives back. Deadlock is not
checked in runs in which the clients may really stop: they may be out of calls,
or all be blocked for ever in calls without a timeout; no step follows manifests
that the tool and CMake refuse. The lifecycle and the process have no such state,
and `MCSysComponent` and `MCApplication` check deadlock: in the latter a process
that has ended stutters by a disjunct of its own.

In `MCApplication` spurious wakeups are left out, to keep the run small: the runs
of the three modules have them. In the composition a reset of the registry never
has to wait, and a stop of the bus never sleeps: components have withdrawn their
services and subscriptions by then. `Checked` and `MaxStarts` keep the second
thread's health checks and starts few.

Fairness. Liveness assumes that a thread inside a call is scheduled (weak
fairness of its own steps), that the clock advances (`Expire`), and that
callbacks and calls through a service end. In `MCApplication` a producer ends
when it is asked to (`sys_thread_stop_requested` is what its loop tests), and
main's wait returns, since `main.c` gives it 500 ms. It assumes nothing of a thread
between two calls, of wakeups, or of which sleeper a signal wakes.

## 4. Theorems

Every theorem below is proved for every value of the constants that the
module's named assumption allows: the threads are finitely many, NULL is none of
the things it stands beside, capacities and largest counts are positive,
timeouts and configurations are those the code knows, the manifests are read in
one order and name modules or the one unknown name. No bound of a run is an
assumption. `PROJECT.json` lists each theorem with the property it states.

| Module | Theorems (properties) |
|---|---|
| `SysServiceProofs` | `TypeCorrect`, `ReferencesStayValid`, `CountsAreExact`, `OneSlotPerKey`, `NoTeardownForgotten` with no client rule on teardowns; `ExclusiveTeardownsCloseFirst` (`ClosedBeforeWaiting`) from the two rules |
| `SysChannelProofs` | `TypeCorrect`, `ReferencesAreExact`, `MessagesAreConserved`, `FreedIsUntouched` (`NoUseAfterFree`), `WakeupsAreNotLost` (`NoLostWakeup`), `ChannelIsAFifo` (`ImplementsFifo`, the refinement of `BoundedFifo`) |
| `SysEventProofs` | `TypeCorrect`, `CalledIsAllocated` (`NoUseAfterFree`), `WakeupsAreNotLost` with no client rule on starts; `InFlightIsExact`, `StoppedBusIsQuiet` from `ExclusiveStart` |
| `SysComponentProofs` | `TypeCorrect`, `DependenciesAreRunning`, `DependenciesAreAlive`, `TakenDownExactlyOnce`, `StartIsComplete` (`UpIsComplete`), `FailuresAreKept` (an action property), `PassExists` |
| `SysCoreProofs` | `ModulesRefined`, `CoreStateIsTruthful`, `RulesAreKept`, `EntriesAreIntoAlive`, `ThreadsAreAccounted`, `ResultsHold`, `ChecksInStartAreOfActive` |
| `ApplicationProofs` | `FrameworkRefined`, `TypeCorrect`, `ProcessEndsInOrder` |
| `CameraStreamProofs` | `TypeCorrect`, `StreamsOutliveTheirUsers` (`NoUseAfterFree`) with no client rule; `StopsLeaveNothing` (`StoppedIsClean`), `ShutdownJoinsThreads` (`ThreadsJoined`) from `Quiet` |
| `ModuleConfigProofs` | `GraphAlgorithmsAreExact`, `SavedConfigurationsBuild`, `TypeCorrect`, `PassesExact` |

### The arguments

None of the invariants that the runs check is inductive alone. What each proof
adds, and why:

**Services.** The five invariants are inductive together (`Inv`), one lemma per
action. That a reference stays valid needs that a slot is emptied only at count 0
*and* that the count is the number of holders; that the count is right after an
unregister needs that nobody refers to the emptied slot; and a teardown is not
forgotten because a count reaches 0 only in a release, which wakes them all.
`ClosedBeforeWaiting` needs more: that the targets of different teardowns are
disjoint, which is what the rules provide and the double unregister breaks.

**Channel and pool.** First the shape (`Shape`): types, what a thread's place in a
call says of its locals, that whoever is in a call holds a channel reference, and
that the thread that took the last one drains alone, so that the ring is a window
of `count` slots behind `head`, shortened from its head while it is drained. On
top of it `Counts`: a block's count is the sum of its holders over the five
places where a reference can be, each action moving at most one holder from one
place to another (`HoldersStep`). A pool is freed only with no block in use, and
from then on nobody acquires one. Wakeups are a
matter of counting, too (`Awaited`): while somebody sleeps, there are at least as
many threads woken and on their way as there are messages, or free slots. That
is stronger than `NoLostWakeup` and is what one signal for each message keeps
true; a sleeper beside an idle pool is impossible because `idle` is broadcast. The
refinement maps the window of the ring, oldest first, to the abstract queue: a
send is a put, a drop and a put, or a stutter, a receive a get, a drain nothing
that anybody sees.

**Events.** `Invariant` covers starts and stops that overlap: `in_flight` of an
allocated subscription is at least the number of its queued and running calls
(`Covered`); a subscription outside the array belongs to exactly one
unsubscribe, which frees it at 0. It is `>=` and not `=`, because a start that
clears a queue leaves counts behind, as the run `MCSysEventStart` shows. With
`ExclusiveStart` the bus is settled (it starts only with an empty queue) and the
two are equal. `StoppedBusIsQuiet` adds that a target is set only while its
unsubscribe waits. The accounts are balanced action by action: `in_flight'[s] +
Calls(s) = in_flight[s] + Calls(s)'` (`Even`).

**Lifecycle.** The invariant says of every point of `start_all` and `stop_all` what
the two orders, the flags and the states are. Its core is that both orders are
sorted (each component once, after all that it depends on) and stay so when they
are cut from the end: that is why the rollback needs no order of its own. That a
pass of `initialize_phase` has an outcome (`PassExists`, for `Skipped`) is shown
by a shortest prefix of the section without one, in place of an induction.

**Core.** `CoreSpec` is the framework with any number of threads that initialize
it, shut it down, call its services, publish and check health in any order.
`ModulesRefined` shows that each of its steps is a step, or a stutter, of each of the
instances of `SysComponent`, `SysEvent` and `SysService`. So their theorems hold of
the composition (`Parts`), without any of the client rules that sections 2 and 3
name. With them, `CoreInvariant` is inductive. It says who is where: one thread at a
time is in the two functions (`Control`), and its place there decides where the
lifecycle is and whether the bus runs (`LifecycleAt`, `BusAt`); calls into registry
and bus made for a callback belong to the thread that runs it (`CallsAt`);
services and subscriptions are those of built components (`Contents`); the
worker's handle follows the worker; the thread counts are the cardinalities of
sets of handles (`Accounts`); a health check begun in this run of the framework
is of a component that is active (`Health`; once a shutdown or the rollback of a
start begins, a check may run in a component that has been taken down, and the
code has nothing against it). `RulesAreKept` closes the
circle: the rules that the modules assume are theorems here, and so is what they
cannot promise to clients that break them. Beyond the assumptions of the three
modules, the instances assume at least one thread and one Subscriber (their
largest counts are these numbers and must be positive).

**Process.** `FrameworkRefined`: a step of the process is a step of `CoreSpec` or
leaves the framework alone, so the four properties above hold in `Application`
(`FrameworkHolds`). `ProcessEndsInOrder` needs `MainInvariant`: nothing exists before
the runtime does (`Before`); from its creation to its destruction every live
thread blocks the signals, so that none can end the process in between
(`Masks`); and while main alone controls the core, `main_pc` tells the core's state
(`Alone`), which in turn needs that `sys_core_init` answers SYS_OK only if it is
not rolled back (`ResultsHold`).

**Stream.** `Invariant` holds for any number of threads that start, stop and shut
down, however they overlap. One thread at a time is in the middle of a start or
a stop, and its place says what the camera's state and its handles are
(`Turns`); what runs, is held or is in use belongs to whoever has the handle
(`Owners`): a producer that is not joined to the camera's `thread`, blocks in use
to its `pool`, a reference to its `channel`, and the consumer's to zlmedia *or* to
the thread in `detach_stream` that has copied the handles and cleared them. That
two such threads never hold the same copy, and that a stream's consumer is
attached only once, is `Attached`. `NoUseAfterFree` follows: the producer lives no
longer than the handles it reads without a mutex, and a consumer with a frame
has the generation it compares with. Under `Quiet` more is inductive
(`Undisturbed`): an initialization or a shutdown is alone with the service
(`Alone`); so both handshakes reach zlmedia if it has been initialized
(`Subscribed`), and no stream has a consumer if it has not (`Consumed`); so a stop
finds all frames returned, never ends in ERROR and comes before the deinit
callbacks (`StoppedInTime`); and what it gives up is kept by nobody (`NothingLeft`).
All of it rests on who is where in an initialization and its rollback (`CoreOK`):
its owner alone, camera first and last, and an initialization or a shutdown that
waits for calls has closed the service.

**Configuration.** The three answers about a graph are compared with a fourth one
without recursion: a set of modules is *stuck* if each of them needs something
unknown or something in the set, and a graph is right if only the empty set is
stuck (`Acyclic`). `visit` fails exactly on the modules in a set that is stuck
given its path and its visited set (`Found`, `ValidatedExact`), otherwise it
adds what can be reached; CMake's search is the same without the visited set;
and a circle, if there is one, is closed in no more steps than there are modules
(`AcyclicExact`, by counting). In place of an induction over data, a recursive
function is shown to exist by giving one that satisfies its equation, and what it
returns is shown by a least counterexample: the greatest path, the shortest
prefix, the smallest set. The passes of `normalize_dependencies` keep every set
whose dependencies are met, get smaller until they change nothing, and then
are such a set themselves, hence the greatest. `SavedConfigBuilds` then rests on a
short invariant: the tool writes what has been normalized, asks before it
leaves only with changes, and what it has saved is complete and met, so that
neither a default nor CMake's cache can add to it.

`CoreInvariant`, `MainInvariant` and the invariants of the other modules have been
checked with TLC on the instances of section 3 before they were proved.

### Model-checked only

All liveness (`CallsReturn`, `TeardownReturns`, `WaitsReturn`, `LifecycleReturns`,
`ProcessEnds` and those of the channel and the stream): it needs fairness and
ENABLED, which are outside the prover's reach. Every safety property that a
passing run checks is proved.

## 5. Not modelled

`sys_log`, `sys_types` tables, the curses screen and the manifest parser carry no
protocol; the one race in `sys_log` (a sink called once more after it was
replaced) breaks no promise of the code. The sample services are Providers of
`SysCore`; what they answer is left out. `get_status` functions copy state under a
mutex and change nothing. A machine crash in the middle of a save is left out:
the tool does not flush `.config` to disk and does not claim to. Of the
stream, the port, the frame and drop counts, validation of the configuration and
a build without zlmedia are left out. Payload and
metadata of buffers are left out: the code makes exclusive access the users'
business. Self-deadlocks (unregister by a holder, stop from a callback) are
excluded by client rules and listed as hazards.

## 6. Plan

1. Done: the models of `SysBufferPool`, `SysChannel`, `BoundedFifo`, `SysService`,
   `SysEvent`, `SysComponent`, `CameraStream`, `SysThread`, `SysRuntime`, `SysCore`,
   `Application` and `ModuleConfig`; the proofs of section 4, which cover every
   safety property of the passing runs.
2. Left: the services of camera and zlmedia as the components of `SysCore`, so that
   the stream protocol runs on the detailed framework and not on its summary in
   `CameraStream`; it needs a larger state space than one run can check today.
