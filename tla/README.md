# XLN in TLA+

XLN is a C++ application framework: services with dependencies, event
executors and thread pools that pass Task objects around, a frame loop, and
client (curl), network (gRPC) and server (wangle, MySQL, Thrift) services built
on top.  This directory holds TLA+ models of it, the TLC
configurations that check them, and theorems about them that TLAPS checks.
`PROJECT.json` maps every definition to the lines it models and lists runs,
hazards, findings and theorems.

    tlc -config Services.cfg MCServices.tla       # one of the runs below
    tlapm UtilitiesProofs.tla                     # a module of proofs

Paths below are relative to `src/XLN/`; `Foundation/` is `Core/Foundation/`.

## 1. The system

| Component | State | Operations | Talks to |
|---|---|---|---|
| Free list, Task allocator (`Core/Utility/Pool.h`) | a fixed-size lock-free stack of preallocated Tasks | `Aquire`, `Release`, `Free`, `Grow` | every thread that creates or disposes of a Task |
| Task (`Foundation/Task/Task.*`) | function or message, `m_CurrentProcessor`, `m_SysAction` | constructors, `Reset`, `SetPosion` | made by one thread, used by another, often released by the first |
| Task consumer, Task thread, event executor (`Task/TaskConsumer.*`, `Task/TaskThread.*`, `ThreadedExecutor.*`, `EventExecutor.*`) | incoming and working queue, `m_NewTaskReady`, `m_Finished`, `m_ThreadExit` | `PostTask`, `DoRun`, `ReloadWorkQueue`, `ClearTasks`, `SetFinished`, `Start`, `Stop`, `add` | allocator; each other, when a Task goes back to its creator |
| Blocking queues (`Task/LifoSemBlockingQueue.h`, `Task/TaskBarrierBlockingQueue.h`) | bounded MPMC queue or locked queue, semaphore | `Add`, `Take` | clients and threads of the CPU pool; its stopped threads |
| Thread pool, CPU executor (`ThreadPool.*`, `Executor/ThreadPoolExecutor.*`, `Executor/CPUThreadPoolExecutor.*`, `Task/MPMCTaskRunner.*`) | thread list, stopped threads, thread count, Task queue | `add`, `SetMaxThread`, `StopAllThread`, `AddThread`, `RemoveThread`, `JoinStoppedThread`, `DoRun` | blocking queue, allocator, the event executors Tasks go back to |
| I/O executor (`Executor/IOThreadPoolExecutor.*`) | the same pool, an event base per thread | `add`, `addAll`, `PickThread` | thread pool, folly's event base |
| Service manager (`Foundation/ServiceMgr.*`) | service map, fast map, ordered op list | `RegisterService`, `UnRegisterService`, `Init`, `RunOnce`, `ShutDown` | all services; the frame thread |
| System, application, configuration (`Core/Framework/System.*`, `Foundation/Service/`) | start-up script, configuration file | `Init`, `InjectService`, `Shutdown` | service manager, log |
| Executor service, frame executor (`Core/Framework/ExecutorService.*`, `FrameExecutor.*`, `RenderFrame.*`, `Task/FrameRunner.*`) | the frame thread, its queue of Tasks, its functions | `OnInit`, `OnDestroy`, `OnThreadRun`, `PostTask`, `DoRun` | service manager, dispatcher, event executors |
| Event dispatcher, handlers (`Task/EventDispatcher.*`, `Task/EventHandler.*`, `Task/TaskHandler.*`) | subscription lists per class and category | `SubscribeEvent`, `DeSubscribeEvent`, `Handle`, `OnFinish` | Tasks with messages |
| Logging (`Foundation/Log.*`, `Foundation/Service/LogService*`) | thread-local place of the call, cached log service, spdlog's buffer | `SetLogInfo`, `LogInfo` ... `LogError`, `DoLog` | service manager, every thread |
| Memory tracking (`Core/DebugHelper/`) | hash of allocation records, free list of records | `Allocate`, `DeAllocate`, `SetAllocator`, `ShutDown` | `operator new` |
| Messages, data streams (`Foundation/DataStream.*`, `Message/`) | a memory block and a cursor; key-value maps | reads, writes, lines, seeks; serialisation | services |
| Utilities (`Core/Utility/`) | none | base64, strings and paths, unique IDs | everything |
| Download client (`Client/`) | event loop, curl handles, slots, waiting tasks, timer | `RequestCDN`, callbacks, destructor | curl, libevent, folly's futures |
| gRPC (`Network/`) | completion queue, call contexts; the server's thread | `CallAsync`, `RunClient`, `StartServer`, `RunServer`, `StopServer` | gRPC |
| Server executor (`Server/ServerExecutorService.*`) | acceptor and I/O pool, accept callbacks | constructor, `StartAccpet`, `OnDestroy` | I/O executors |
| React bridge (`React/`) | a service with an event handler; web views of two platforms | events to the React side, load decisions | dispatcher, main thread, web view |
| Client applications | - | register services | system |
| MySQL, Thrift, platform services | connections, bindings | `Query` ... | libraries, operating system |

How they interact.  A client calls `add` of an executor: it acquires a Task from
the allocator (whose constructor records the current processor) and posts it.
A thread takes it, runs its function, and either releases it, or, if another
event executor created it, submits it there with `SA_RELEASE_TASK`.  A Task with
a message goes to the frame thread, whose dispatcher calls the subscribed
handlers; these may post, broadcast, erase each other or wait for the main thread.
The executors live in services; the service manager creates, ticks and destroys
these in dependency order, and the executor service owns the thread that does
the ticking.  Every thread logs, through a service that is created and destroyed
like the others.

What is hard in it: the allocator is used by all threads without a lock and
splits its check from its pop; a posted Task races `Stop`, which sets one plain
flag, notifies, sets another and joins; notifications are sent outside the
lock; a Task may travel back to an executor that is gone; the pool counts
poisons against threads, through a queue whose default behaviour has a
fall-through; the frame thread iterates the op list that the main thread
initialises and destroys, and subscription lists that its own handlers change;
the log service is looked up once and kept; the tracker gives memory back before
it forgets it; the download loop's interrupts, timers and destruction meet in
any order; latches, barriers and joins of the server wait for one another; an answer to a
load request may come after 250 ms.  The `hazards` of `PROJECT.json` list them
with their lines.

What makes each component correct:

* allocator: a Task has one owner; none is null; none is lost.
* event executor: every Task is disposed of exactly once, no wake-up is lost,
  `Stop` returns and leaves nothing behind.
* blocking queue: each added item is taken; nobody sleeps while work is queued.
* pools: one poison stops one thread; the owner never waits for threads that all
  sleep, so that its calls return; the books (list, count, stopped threads) agree, also after
  an exception; an I/O function runs once on a living event base.
* service manager and start-up: dependencies are initialised before and destroyed after
  their users, each service once; only live services are ticked (as far as the frame service's
  place in the list allows) and logged to;
  look-ups are exact; start and shut-down return.
* frame thread and dispatcher: each subscriber is told once, under subscription
  changes; no Task is lost but what found the queue full; the stop ends.
* memory tracker: its records are those of live blocks.  Streams and utilities: nothing is lost on the way
  through them; they agree with what they are meant to compute.
* download client, gRPC: a request has one answer, and its task or context lives as
  long as somebody uses it.  Web views: events come in pairs, a decision is the answer to its own
  question.

## 2. The modules

Definitions keep the names of the code.  A definition whose comment begins with
`Fault:` stands for a plausible mistake in the operation that follows it.  No
specification uses it; it documents which mistake a property notices (the
`mutants` of `PROJECT.json`).

### Tasks and threads

**`TaskPool`** (in `MCUtilities`).  A *holder* is the lifetime of a Task in flight.  The
steps follow the stack operations: `AquireCheck` (`empty()`), `AquirePop` or
`AquirePopNull` (`pop()` and the unchecked placement new), `AquireNew` and
`AquirePushNew` (the grow path: allocate, push, return the object that was just
pushed), `ReleaseDestroy`, `ReleasePush` (a push whose result is ignored),
`FreeBegin` and `FreePop`.  `crowded` is a history variable: more than N Tasks
have been in flight at once.  A null Task ends the model (the process crashes).

**`TaskThread`** (`MCTaskThread`).  Several event executors and client threads.  A
critical section of `m_NewTaskNotifierMutex` is one step, the `notify_all` after
it another; the unlocked reads of `m_Finished` and `m_ThreadExit` are one step
each.  `pc` follows `ThreadRun` and `DoRun` (see the comments at `PCs`), `stop`
follows `Stop`, `notifying` is a thread between unlock and notify.  A new Task's
`m_SysAction` is chosen from `Garbage`, because no constructor sets it.  Two
environments: with `Contract` the callers keep to `MayPost` and `MayStop` (no posts
from outside once the stop has begun; started executors are stopped after the
executors that send Tasks back to them); without it they do anything, and use
of a deleted consumer, or a post during the unlocked `ClearTasks`, sets `broken`
and ends the model.  TLC runs the contract, the proofs cover both.

**`TaskLifecycle`** is what the executors promise about one Task, without queues
and threads: free, queued, running, perhaps returning, free again; dropped
only when an executor is stopping.  `TaskThread` implements it under the
refinement mapping `PhaseOf` (property `ImplementsLifecycle`).

**`LifoSemBlockingQueue`**.  `Add` and `Take`, one step per operation of the queue or
the semaphore; `kBehavior` is chosen in the initial state.  With `"THROW"`, the default, the missing `break` of the code is the step from `Write` to
`blockingWrite`.  `folly::MPMCQueue` and `folly::LifoSem` are external.

**`CPUThreadPool`** composes the queue (`TaskQueue == INSTANCE
LifoSemBlockingQueue`, with `kBehavior` THROW: `CPUThreadPoolExecutor.cpp:11` makes the queue with
the default) with the clients, the pool's threads and the owner who
calls `SetMaxThread` and `StopAllThread`.  The owner's `pc` follows the loops of
`AddThread` (spawn, then register) and `RemoveThread` (a poison per thread, then
joins); a thread's follows `RunThread` and `MPMCTaskRunner::DoRun`.  `stopped` is the `TaskBarrierBlockingQueue` of stopped
threads, whose one taker is the owner.  The queue hands every Task out twice when it was not full; handling
or releasing a Task that is already released sets `broken`, and the model stops there.

**`IOThreadPool`** holds any number of I/O pools: `AddFrom` picks a thread in turn and
`AddHere` is `add` from a pool's own thread; the calls of the one owner (`SetMaxThread`,
`StopAllThread`) are a record of what is left of them.  A picked thread may have ended
(`destroyedUsed`), and a pool without threads loses the function (`lost`).  `overlap` is a history
variable: somebody who is not the owner added functions while threads were removed.

**`ServerExecutorService`** (in `MCServices`) EXTENDS it with two pools, the acceptor's and the
workers': the constructor, `StartAccpet` with its barrier, its latch and the `HandOver` of
each worker's accept callback to the acceptor's event base, and `OnDestroy`.

### Services

**`ServiceMgr`** (`MCServiceMgr`).  The main thread's registrations, `Init` and
`ShutDown`, and the frame thread's `RunOnce`.  Classes are numbers, ordered like the
addresses that order `std::map`; a configuration gives each its base class and
dependencies and says which service owns the frame thread.
`BuildDepFrom` is the recursion of `RecurrsiveBuildDep` as a function of one call's arguments and loop
variable, with the code's cycle test, memo and search for a provider; the op list is the one
rearrangement of the services that `m_Order`, and then the order of the map, allows (`SortedLists`).  Every
`OnInit`, `OnTick`, `OnDestroy` is a step, and so are the two halves of a registration after `Init`, `RegisterService` (up to
`OnInit`, which starts the frame thread if it is the frame service's) and `Enlist`.  The frame thread walks the list without a lock; an
element that is appended meanwhile it finds or not.

**`Log`**.  A log call is `SetLogInfo`, the constructor of its level, then `DoLog` with its
unlocked test, its look-up and the write.  Its environment (is the log service registered, is it
deleted) comes as parameters.

**`System`** (`MCServices`) EXTENDS both: the order in which `System::Init` registers the
platform, log, asset and configuration services, the factory and the service of the
configuration file, `Init` and `ShutDown` of the manager, with the log calls on the way,
and a thread of the program's own service that logs at any time.

**`RenderFrame`** (`MCReact`).  `main` follows `ExecutorService::OnInit` and `OnDestroy` with
`ReactService` in between, `frame` the frame thread's loop; a `Handle` is a record on `stack`:
the Task, the lists it has still to walk (`route`), its position (the iterator) and
`due`, the handlers it owes a call (history).  A broadcast puts another record on the stack, to any depth.  The thread that created
a Task walks the same lists again in `OnFinish`, one record of `finishing` per Task and one step per handler: a worker does so
at any time, without a lock.  Erasing what an iterator stands on sets
`broken`, erasing in a list, or in the class map, that a worker walks may (`Disturbed`); so do a null message, a deleted handler and the destructor's endless loop.  `FrameRunner`'s queue is
bounded and drops silently.

### Memory, data, helpers (`MCUtilities`)

**`MemTrackAllocator`**.  A step per critical section of `m_HTMutex` and `m_TrackMutex`, and, in
`Insert`'s unlocked check, per record.  The records are nodes of doubly linked lists with the code's
pointer updates (`info[i].next`, `.prev`).  `asserted`, `untracked`, `cleared` are history variables.
`Chain`, the records that a bucket or the free list leads to, is the smallest set closed under `next`.

**`DataStream`**.  The operations of `MemoryDataStream` are operators on a record of memory
and cursor; the actions are a reader of text that mixes `Read`, `GetLine`, `ReadLine` with a smaller `maxCount` (`ReadSome`), `SkipLine`, `Skip` and `Seek`.
`GetLine` reads into `s_TmpArea`, `TmpSize` bytes; a line that does not fit sets `overflown`, and the reader stops.  Key-value
messages are written and read with them: sizes as the four bytes of a 32-bit number, texts that end at their first NUL, a map that keeps
the first value of a key.  `MessagesAgree` writes two messages of any size one behind the other and reads them back.

**`Base64`**, **`StringTool`**, **`UniqueID`** are pure operators, each with a reference definition that says
what the result should be without saying how it is found: RFC 4648 as a big number cut in six-bit
digits; which strings a pattern denotes (`Denotes`), against the
backtracking `Match`; the maximal runs without a delimiter (`Starts`, `Ends`), against the tokens of `Split`; the bytes of a GUID against its text.
The loops of `Match`, which may go back in the string but never in the pattern, are one function of both positions.  **`Helpers`** names the instances
that `MCUtilities` and the proofs share.

### Clients and platforms

**`Downloader`** (`MCDownloader`).  A step per callback of the loop, split where
another thread can come between; `hasMsg` and `loop` are where `CheckSocket` is.  `limit` is
`m_CountOfMaxProcessingTasks`, which no constructor sets, hence chosen from `Limits`.  The lifetime of a task
follows the promise it holds: `future` is where the caller of `RequestCDN` is, `task` the storage.

**`GrpcService`** (in `MCServices`).  Client: `CallAsync` in two steps (`StartCall`, `GetReply`), the
thread of the completion queue, `OnInit`, `OnDestroy`.  Server: `StartServer`, `RunServer`, `StopServer`
with their barriers.  A context used after it was deleted sets `misused`.  `EveryCallEnds` is what must happen, and `NothingIsLeft`, which it
includes, what never may.

**`WebViewAndroid`**, **`WebViewIOS`** (in `MCReact`).  The events of a page's life with
`mLastLoadFailed` and the bridge; and the condition lock by which the main thread
waits for the React side's answer, each read of `_shouldStartLoadLock` a step.  `met` is a history variable: the request
whose answer was being stored when a request made its lock.

**Proof modules**: `HelpersProofs` (Base64, strings, IDs), `UtilitiesProofs` (the pool, the memory tracker, the reader of a stream, messages, and the helpers on the
texts of a stream), `TaskThreadProofs`, `CPUThreadPoolProofs`, `ExecutorProofs` (the blocking queue, the I/O pools and the server, gRPC), `ReactProofs` (the frame thread, its dispatcher and both web
views), `DownloaderProofs`, `ServicesProofs` (the service manager, and the log while a program starts and stops).  Each EXTENDS what it is
about.  `AndroidSpec`, `IOSSpec` and `ServerSpec` are the specifications of the modules that a module `MC...` runs beside others.

A module `MC...` that names several components runs them side by side when they share no state (a behaviour
is one of them, chosen in the initial state) and only composes them when they do (`System`,
`ServerExecutorService`, `CPUThreadPool`).  `MCServices` runs four: the service manager, the program, the server's executors, gRPC.

## 3. What is checked

| Run | Instance | What it shows |
|---|---|---|
| `utilities` | pool: 3 pooled objects, 4 Tasks in flight, 5 heap objects; tracker: 2 threads, 2 addresses in one bucket, 3 records; stream: every text of at most 4 bytes over a letter, LF, CR, NUL, with a buffer for lines of 3; 699 987 states | a Task has one owner, is not null and is not lost while the pool is not overcrowded; the tracker's records are those of the live blocks; no byte of a stream is lost but behind a cut line; messages survive it; the helpers agree with their references on every text |
| `memory_assert` | the same tracker | **violated**: the assertion of `AllocHashTable::Insert` |
| `task_thread_contract` | 2 executors, the first posts to the second, 1 client, 2 Tasks; fair; 61 960 states | safety, the refinement of `TaskLifecycle`, and liveness under the callers' contract |
| `queue` | both behaviours, 2 adders, 2 takers, 4 items, capacity 3; fair; deadlock checked; 108 588 states | with BLOCK nobody sleeps on work; with both every added item is taken |
| `pool` | 2 threads, 1 client, 1 Task object, a queue of 3; fair; 736 070 states | list and count stay exact whatever exceptions end the owner's calls; the owner never waits for threads that all sleep; its calls return or throw |
| `pool_throw_exit` | no Tasks, a queue that cannot fill | **violated**: one poison stops two threads |
| `services` | every dependency graph of 3 classes, with at most one derivation; systems with a frame thread, whose service is last, first or registered late; or a program's start and stop: 3 orders of addresses, 3 dependency lists of the worker, 3 configuration files, 2 logging threads; or 2 I/O threads and the acceptor's with 2 functions of clients; or 2 gRPC calls and 2 starts of the server; fair; 91 887 states | order of initialisation and destruction, ticks, look-ups; no log call meets a deleted service and none is unwritten; start and stop return; listed I/O threads run; serving is complete; the server stops; every call ends |
| `service_missing` | a dependency nobody registered | **violated**: `Init` goes on |
| `downloader` | 2 requests, 2 handles, no limit or one; fair; 123 002 states | a task lives while it is used; every request is answered |
| `react` | 2 Tasks, a queue of 1, 4 handlers, with and without the contract; 2 views and 2 addresses; 4 load requests; fair; 1 335 502 states | delivery once, nothing lost, the contract suffices also while a worker finishes its Tasks, the stop returns; page events in pairs; a decision answers its own request, or is the answer that was being stored when it was made |
| `late_answer` | 2 load requests | **violated**: a request is decided by the late answer to another |
| `path_standardised` | the texts of `utilities` as file names | **violated**: the path of `SplitFilename` is not standardised |

The properties are stated in words above their definitions.  They are aimed at
the hazards: e.g. `NothingLost` of the pool at pushes whose result is ignored,
`StoppedIsClean` at Tasks that come back late, `JoinsAreCovered` at poisons that are queued twice and
posted once, `ContractSuffices` at two threads that walk and change one list, `DependenciesAlive` at the memo of the recursive dependency search,
`LogIsSound` at the log service `DoLog` keeps for ever, `DeliveredOnce` at lists that
change while they are walked, `RecordsAreAccounted` at a record removed
by the thread it does not belong to, `ServerStops` at functions that wait for one
another across two pools, `DecisionIsOwn` at answers that come after the time-out.

Findings (details in `PROJECT.json`):

* `pool_throw_exit`.  "just posion any random thread" (`CPUThreadPoolExecutor.cpp:74`)
  means one poison for one thread.  The missing `break` in
  `LifoSemBlockingQueue::Add` queues it twice; after `SetMaxThread` removes one of
  two threads the other has stopped too and is still in the list.
* `service_missing`.  "this should crash!" (`ServiceMgr.cpp:269`); it logs, and
  initialises the services anyway.
* `late_answer`.  "Block the main thread for a maximum of 250ms until the JS thread returns" (`MyRCTWebViewManager.m:136`).  When an answer comes
  after the time-out and the next request makes its lock while that answer is being stored (lines 150 to 152), the answer's
  `unlockWithCondition` opens the new lock, and the next request returns it at once.  `DecisionIsOwn` says that this is the only way.
* `path_standardised`.  "Path is standardised as in standardisePath" (`StringTool.h:117-121`): `SplitFilename` returns the characters before the last
  delimiter as they are, with back slashes and without a slash at the end.  `PathsAgree` states what the code does.
* `memory_assert`.  `XLN_ASSERT(head->m_Addr != allocInfo->m_Addr)` (`MemTrackAllocator.cpp:129`)
  fails when a thread is between giving memory back and removing its
  record, and another is given the same address.

Observed while modelling, modelled as the code does it (or outside every module), and not a run of its own:
`RemoveThread` of an I/O pool and `add` are not synchronised (`overlap`); `CallAsync`
asks a context that may be deleted for its future (`misused`); `m_ServerStarted` of
`GrpcServer` is never reset, so a second `StopServer` shuts the server down again; promises of
a destroyed downloader are never broken; `m_CountOfMaxProcessingTasks` and `m_SysAction` are never initialised;
`ReadLine` loses a byte of a line that it cuts at `maxCount` (`DataStream.cpp:178`);
`GetLine` lets `ReadLine` write as much as the stream holds into the 1024 bytes of `s_TmpArea` (`DataStream.cpp:14`), which all streams share (`overflown`);
the CPU pool's THROW queue hands a Task out twice, so that it is handled again after its release (`broken` of `CPUThreadPool`), and a poison's
second copy stops a thread in front of Tasks that were queued later, which then stay: a stopped pool has not drained its queue;
`ExecutorService` declares no dependencies while others depend on it, so the services behind it in the list may be ticked by its frame thread before their
`OnInit` and after they are deleted (`Behind`; `ServerApplication.cpp:53-55` registers one after `Init`, at the end of the list);
a worker's `OnFinish` reads the dispatcher's lists while the frame thread may erase from them (`Disturbed`);
services unregistered after `Init` are ticked still; without a configuration file
`InjectService` throws; `m_NetworkEventExecutor` of `ExecutorService` is not stopped by `OnDestroy`;
`UniqueID.cpp:36` keeps the address of a string that its block destroys; the test of the options in `MySQLService.cpp:95` is inverted;
a log call with a C string as its first argument (`Core/Framework/ConfigService.cpp:35`) picks the overload of
`Log.h:61` that takes the format for a tag;
`operator new` of `MemObj` does not go through `MemoryMgr`.

### Bounds, and why they suffice

* `Heap`, `Holders`, N: three pooled objects and a fourth Task in flight are the
  smallest pool in which the grow path aliases an object and the aliased one
  meets a third owner; the proofs cover all sizes for the uncrowded case.
* Tracker: two blocks in one bucket (`TableSize` 1) make every chain operation happen, three records one more than
  blocks, which a reused address needs.
* Texts of four bytes hold CR LF and a byte on either side; the helpers see all of them, and a
  pattern of three tokens can make `Match` backtrack twice.  `MaxCount` is 2: a read that ends before, at and behind a line's end, and one that cuts a
  line.  `TmpSize` is 4 (1024 in the code): one text is a line that is too long.
* `Tasks` of `TaskThread`: two suffice for the order of the queue, a Task left in
  the working queue by a stop, and a Task that returns while another is posted.
  Objects are reused without bound.
* `MaxSem` (queue, pool): an upper bound on the semaphore's value *when an add
  begins*.  The semaphore exceeds the queue's length only by the posts that
  takers did not need; two such posts already make a taker pass the
  semaphore twice in vain.
* `Room` (pool): the owner shrinks the pool only while the queue holds at most
  that many entries; without it leftover poisons accumulate without
  bound.  In `pool` it is larger than the capacity: the queue may fill up in the middle of a removal.
* `Capacity` of `queue` is 3, one more than the adders: with THROW a queue with room for
  no more than the adders' first copies deadlocks, everybody waiting for room or a
  post.  Four items make adders wait for room with BLOCK too.
* `Capacity` is 3 in `pool` (1 << 16 in the code): two copies of a Task or a poison and a copy of another fill it, so that
  adds throw, wait for room, and end the owner's calls half way; 8 in `pool_throw_exit`, where nothing fills it.  In `react` it is 1 (2048 in the
  code), so that the second Task is dropped.
* `MaxSetups` (services): one registration is undone.
* `Configurations`: all dependency lists without self-dependency over three
  classes; frame threads in three systems that exercise an indirect
  dependency, two providers of one class, and a frame service that others depend on and that comes first.  In each of them the frame service may
  also be registered after `Init`.  `Addresses`: the order of
  registration, its reverse and an interleaving of both decide every comparison by address both ways.
* Servers: with two I/O threads one can wait for the acceptor while the other is handed over; `Threads` are as
  many as are ever created, `PickPeriod` a common multiple of the list lengths; `MaxStarts` lets the server start again.
* Downloader: a second request meets the first one in every state; one slot for two makes a task wait.
* React: two handlers per list are the fewest that can erase each other; a broadcast inside a `Handle` is nested as deep as there are Tasks, here once; the proof covers any depth.
  Four load requests let a late answer skip one.

### The users' contracts

Some properties hold only for callers the code relies on.  The contracts are definitions,
not hidden in guards: `MayPost`, `MayStop` of `TaskThread`; `MayPost` (posts while the frame thread runs, no null message), `MayEnd` (nothing in the queue when it ends), `MayErase` (a handler
takes no subscription away under an iterator of the frame thread, and none at all while a worker has a Task to finish) and `MaySync` (no wait for a main thread that stops) of
`RenderFrame`, whose run also has behaviours without them; `Contract` of `ServiceMgr` (dependencies are registered, for `MayInit` also acyclic, and no service is unregistered after `Init`; nothing is asked of the frame service's place);
`WorkerDeps` of `System` (a service whose thread logs depends on the log service); `~overlap` in `IOThreadPool`, `~misused` in
`GrpcService`, excuses named in the properties themselves; `overflown` of `DataStream` (lines fit into `s_TmpArea`); `Jammed` in `CPUThreadPool`, the queue that is full and has no reader left; no
request comes when the downloader is being destroyed.

### Fairness

Fairness is what an operating system's scheduler and finite functions give:
weak fairness of every thread that has begun a call (`Notify`, `Stop`, the owner's
calls, `ShutDown`), of the threads' loops, and of the frame loop.  Functions that
Tasks carry may post any number of Tasks but return: strong fairness of the
steps that follow them, because a function's own posts disable and re-enable
these (`RunFuncs` of `RenderFrame` likewise).  There is no fairness for clients, for `Start`, for spurious wake-ups
or for the first step of a call.  A `blockingWrite` that waits for
room holds a ticket of the MPMC queue, so it is strongly fair in `queue`.

`SystemFairness`: the main thread goes on, except in `Main`, which may last for ever, and a log call that was begun ends.
`ServerFairness`: each thread, unless it waits for another one's function; clients add nothing by obligation.
`GrpcFairness`: the threads, callers inside `CallAsync`, and the peer, whose answer
(or failure) comes some time.  `Fairness` of `Downloader`: the thread; strong fairness of the callbacks that others of
the same or a higher priority can delay, because libevent serves active events of a priority in turn; and a
transfer ends, because `SetCurl` sets its time limits.

`StopReturns` (twice), `EveryTaskDisposed`, `EveryItemTaken`, `CallsReturn`,
`SystemReturns`, `ServerStops`, `EveryCallEnds` and `EveryRequestAnswered` hold under it.

## 4. What is proved

The provers check these for every value of the constants that satisfies the
module's named assumption (finite sets, a null value outside them, N and
Capacity natural numbers); what else a theorem assumes it says in its statement.

* `UtilitiesProofs`, the pool: `TypeCorrect`, `UncrowdedPoolIsExclusive`,
  `UncrowdedPoolHasNoNullTask`, `UncrowdedPoolLosesNothing`, all from
  `PoolInvariant`.  The three properties are not inductive: that the list is not
  empty between `empty()` and `pop()` needs a count.  The invariant
  `PoolInv == PoolTypes /\ (~crowded => PoolIsCalm)` adds that list and owners partition the
  objects the heap has given out, that these are N until `Free`, and that the
  list has at least as many objects as there are holders between check and
  pop; the counting uses the cardinality theorems of the library.
* `UtilitiesProofs`, the memory tracker: `RecordsStayAccounted` and `BlocksStayRecorded`, from `TrackSound`, for finite sets of records and
  threads, any addresses and any table size.  Which records are in the table, which are free, and how far down its list each is
  no variable says; `TrackInv` says that there are such sets and ranks, `TrackSound` hides them.  With them `Chain` is what it should be for every
  pointer in use (`ChainOfBucket`, `FreeChain`), and `Insert` and `Remove`, in the middle of a list or at its head, change the ranks as they change the pointers.
  `Matched` is the reason why an address given out again before its old record is removed does no harm: an address has as many
  records as it has blocks out and removals to come, so that `Remove` finds one, perhaps the newer, and leaves one.  The counters are sums over the records of the table;
  that such sums exist and do not depend on the order (`FoldExists`, `FoldsAgree`) is shown by a smallest set that is a counterexample.
* `UtilitiesProofs`, the reader of a stream: `NoByteOfAStreamIsLost`, from `ReaderInv`, for any texts.  A line is what `SpanEnds` says, up to the first
  delimiter or to the count that was asked for, less a CR (`LineEnds`); what a call passes behind what it gives ends a line or a cut one (`ReadOnInv`), and a seek starts the account afresh (`MoveInv`).
* `UtilitiesProofs`, messages: `AnyMessagesAgree` (two messages of any number of pairs and any texts without NUL, as long as a 32-bit number holds their number and
  their sizes, in a stream that has room for them), `NumbersSurviveAnyOrder` (numbers of any size), and from them
  `MessagesOfTextsSurvive`: `MessagesSurvive` in every state, if the sizes of the texts are 32-bit numbers (`ToStream` casts them).  Pairs are counted in some order of the
  keys (`InOrder`), with the offset of each; `OnePairMore` writes the next one behind those that are there and keeps these, `PairIsRead` reads one, and the least
  pair that is not written, or not read, as it should be does not exist (`PairsAreWritten`, `PairsAreRead`).  A message that is in the stream stays there when another is
  written behind it (`MessageMoved`).
* `HelpersProofs`, for arguments of any length: `AnyChunksAgree` (the base64 encoder against RFC 4648), `ConversionsKeepBytes`, `AnyPathsAgree`, `AnySplitAgrees`, `AnyIdsAgree`,
  `AnyMatchAgrees`; and, in `UtilitiesProofs`, `HelpersAlwaysAgree`: `HelpersAgree` in every state, for any texts.  The library's induction
  is out of reach (it takes an operator); its theorem on well-founded minima is not.  `encode` is a fold: what it has written after each octet is a function of the octets so far
  (`EncodedAt`: after `3q+r` octets, `4q+r` characters and the bits of the next), `OctetEncoded` goes from one octet to the next, and the least number of
  octets at which fold and function differ does not exist (`ChunkEncoded`).  A recursive function is defined if it asks for lower arguments only
  (`AsksLower`); this gives `Split` from a position on, the scan of a list in a pattern, and the positions of `Match`.
  For `Split` the invariant is `RunsFrom` (the tokens from a position on are the runs from there on).  For `Match` it is `CutAs`: behind the first i tokens of the pattern
  and s characters of the string, the loop accepts exactly when the rest of the string can be cut as the rest of the tokens say; each kind of token has a lemma.
  `AnyMatchAgrees` is about patterns made of tokens whose letters are not special in a pattern and whose letters have a place in the ASCII order of the model (`Plain`).
* `TaskThreadProofs`: `TaskThreadTypeCorrect`, `NothingDangles`, `NoWakeupIsLost`,
  for any number of executors, clients and Tasks, with and without the
  contract.  `NoDangling` is inductive with types and with `cur` being `None`
  outside the steps that hold a Task; the proof has a step per action.
  `ExecutorsImplementLifecycle` is the refinement: `NextImplements` takes each action to a step of `TaskLifecycle`
  or a stutter.  Its hypothesis `"RELEASE_TASK" \notin Garbage` is needed: a new Task whose uninitialised `m_SysAction` happens to
  be `SA_RELEASE_TASK` is released by its first executor, not handled.
  `StoppedExecutorsAreClean` holds under the contract, by induction on the order in which executors are stopped
  (`MayStop`): an ended thread has seen `m_ThreadExit`, an executor that is stopped holds nothing, and whoever still holds a Task
  of it would have been stopped before it (`HomeInv`, `StopOrder`).
* `ExecutorProofs`, the queue: `QueueTypeCorrect` for both behaviours, and with
  BLOCK `QueuedWorkIsCovered` and from it `NobodySleepsOnWork`.  The invariant
  `Covered` counts: queued items are at most the semaphore plus posts and reads to
  come.  It is needed because `NoSleepOnWork` alone does not survive a taker that
  passes the semaphore and finds its item taken.
* `CPUThreadPoolProofs`, on the THROW queue, two layers: `ListInv` (after any exception) says which threads the list and
  the stopped threads hold, and gives `ThreadListIsRight`.  `Enough` gives `OwnerNeverWaitsForSleepers`: the joins to come (`Outstanding`) are at most the
  poisons in the queue, being written and taken, and the threads they ended; and they are at most the semaphore, the threads
  that do not sleep and the owner's post.  Neither count is enough alone: poisons are queued twice and posted once, and a post may be
  used up by a thread that goes on with a Task; but a thread falls asleep only when it finds the queue empty, and then the first
  count consists of threads that are awake.  Elements of the queue are counted over positions, by lemmas that say what an append and a tail do to such a set.
* `ExecutorProofs`, pools and server: `PoolsAreSound` and `StartAccpetCompletes`, from `ServerInv`: the books of the pools (a thread is in
  one list, once; those told to end are as many as the owner has still to join, `DoomedInv`); each function in one queue at most
  (`FuncsInv`); and, until `OnDestroy`, how far the start has come (`HandshakeInv`): `latch` plus the callbacks is the number of workers, and an I/O thread
  without a callback has the function of `addAll` queued or waits for the acceptor's thread.
* `ExecutorProofs`, gRPC: `CallsAndServerAreSettled`.  No context is deleted with a promise that a caller waits for, `OnDestroy` leaves no context and no unanswered future (unless
  `misused`), and `StopServer` returns when its thread has ended.  `CallsInv` ties each caller to its context and the one context that is being deleted to the thread that does it, and
  says that a thread that has left `Next` has left nothing behind; `GrpcServerInv` says where the server's thread is during each call of its owner, also in a second stop.
* `ServicesProofs`, for a manager by itself (`Spec`) and for a program's start and stop (`SystemSpec`), any classes, bases and addresses, and
  any graph of dependencies.  `LookupsAreExact` holds whatever callers do.  `ServicesAreInitedOnce`, `OnlyLiveServicesTick` and
  `DependenciesStayAlive` hold under the contract, from `ManagerInv`: the op list has each service once (`ListInv`); `main.pos` says which services are initialised or destroyed (`LifeInv`); the frame thread runs between its service's
  `OnInit` and `OnDestroy`, so that whatever is in front of that service is initialised (`FrameInv`), and a deleted service is called only
  behind it (`BrokenInv`); a service of each class that one depends on is before it in the list (`DepInv`).  The last
  needs the algorithm.  `Recursion` shows that a recursive function whose argument shrinks in some measure is defined, from the library's
  theorem on well-founded recursion; `Heights`, that an acyclic graph can be counted upwards, by taking an ideal of largest cardinality; then a
  call that does not return what `RecurrsiveBuildDep` should return would lead to a smaller one (`Smallest` stands for an induction), so
  every call gives the service an order above those of its providers (`RecurrsiveBuildDepReturns`, `BuiltIsGood`), and the sort puts these first
  (`SortPutsDepsFirst`).
  `LoggingIsSound` assumes the contract and that the services that log depend on the log service (`WorkersNeedLog`).  It needs
  `DependenciesAlive`: a log call is either the worker's, who lives no longer than the log service because its `OnDestroy` joins its thread
  (`WorkerNeedsLog`), or the main thread's, who makes none in `System::Shutdown` (`CallersInv`).  It uses that the roles have different addresses.
* `ReactProofs`: `HandlersAreCalledOnce`, `TasksAreNotLost`, `RulesAreEnough`, from `FrameInv`: how far calls of `Handle` nest (`Nest`); a
  handler is subscribed once (`Subscribed`); a Task in use is in one place (`Placed`); a call owes a turn to just the handlers that are ahead of its
  iterator (`Owes`), however the handlers before them change the lists; a Task that is being finished was handed over, and is finished by one thread (`Finished`); and what the
  contract keeps up (`Kept`).
  Of the web views: `EventsArePaired` (`mLastLoadFailed` is of the page that is shown) and `DecisionsAreOwn` (a lock whose condition is 0 is open for the answer to its own
  request, or for the one that was being stored when it was made: `OpenIsAnswered`).
* `DownloaderProofs`: `TasksOutliveTheirUse`.  A task waits or runs on one handle until its answer, and only the answer frees it; a
  handle that `Obtain` gives out belongs to no task.

Every invariant that a passing run checks is the subject of a theorem.  Only model-checked are the liveness properties, which the provers cannot take up, and the five properties that a run shows violated.

## 5. What is not modelled

* Platform bindings, MySQL and Thrift services, build files, tests: input and output, or calls that pass arguments on.
* Registration from inside a service's `OnInit` (no service does it); `BuildAndStart` of the gRPC server returning null.
* The broadcasts of `ServiceMgr` (`EnterBackground` and others), `TaskProcessor`'s own
  queue (nothing drains it), `m_Idle` and `m_MaxThread` of the pool (never read), `TryTake` of the blocking queue (no caller).
* The template `UnRegisterService<T>` (uses an iterator after erasing it), `Observer` (no user), `Time`, the peak counters and dumps of
  the tracker, the pacing of frames.
* `PoolAllocator::Free` destroys objects that `Release` has destroyed: for a Task the second destructor has no effect
  on the state kept here.
* Curl options, `downloadToFile`, the methods of `DownloadService` whose bodies are commented out; gRPC's channel map (one user thread).
* The recursive read lock of `PickThread` and `GetThreadCount` (`ThreadPool.cpp:61`): folly's `RWSpinLock`, which is not in the
  repository, admits readers while a writer spins, so the second acquisition does not wait.
* Memory-model effects: a plain `bool` read without a lock is read in one step with
  its current or an earlier value (the step may come late), and never torn.
* View properties, injected scripts and settings of the web views.

## 6. Plan

Modelled: the components of the table but the last row, in the order allocator, event
executor and its abstract life cycle, blocking queue, CPU pool, service manager, frame thread and dispatcher, memory tracker,
streams and helpers, downloader, I/O pool and server, gRPC, log and start-up, web views.

What could follow, most important first:

1. The safety of the download client's slots and sockets beyond the life of a task: that a handle in a slot is in curl's multi handle, and no other.
2. `AnyMatchAgrees` for patterns that are not made of tokens: a list that is not closed, and a backslash at the end.
3. The components of the table's last row, if they ever keep state of their own.
