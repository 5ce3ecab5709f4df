# A TLA+ model of cakebear

cakebear compiles TypeScript to Go. The repository has two concurrent programs:

* the **runtime** (`backend/runtime`) that every compiled program links. It gives
  the program JavaScript's single thread back on top of goroutines: microtasks,
  timers, promises, async calls, `spawn`, and node:http servers;
* the **language server and its API** (`internal/lsp`, `internal/project`,
  `internal/ipc`), on top of the TypeScript compiler in Go that cakebear builds
  on: loops and queues, a session with its snapshots, caches and a pool of
  checkers shared by goroutines, and connections that call in both directions.

This directory models both, checks them with TLC on small instances, and proves
central properties with TLAPS for every instance. What is left out is the
sequential bulk of the compiler: see "What is not modelled".

## The system

### The runtime

| component | state it keeps | operations | hard because |
|---|---|---|---|
| domain (`domain.go`, `parked.go`, `rejection.go`) | microtask queue, timer heap, inbox, count of spawns, parked calls, rejected promises | `drain`, `runTask`, `waitNext`, `runInbox`, `fireDue`, `post`, `SetTimeout`, `ClearTimeout`, `abort` | shared by many goroutines without a lock; everything must run in Node's order |
| promises and async calls (`promise.go`, `thrown.go`) | settlement and reactions of a promise; two channels, a failure and an index for each call | `resolve`, `reject`, `then`, `NewPromise`, `Async`, `Await` | the token passes through channels; a call may nest, throw, panic or be aborted at any await |
| spawn (`spawn.go`) | the caller's promise, `delivered`, the caller's count | `Spawn`, `SpawnAsync`, `deliver`, `failedAfterResult` | two domains in parallel, a result handed over by reference when nothing can reach it |
| loop and process (`loop.go`, `uncaught.go`) | `liveHandles`, the callback queue, the wake slot | `Run`, `RunModule`, `ref`, `unref`, `enqueue`, `Exit`, `fatalf` | decides, from several words read one after the other, whether the process is done |
| node:http (`http.go`) | a server's listener, a response's `headersSent` and `ended` | `Listen`, `serve`, `finishDetached`, `End` | requests run in parallel and work on after their response |
| console (`runtime.go`) | one output buffer | `writeLine`, `Flush` | written through or not, by a count others change |
| compiler (`lower/`, `ir/`, `backend/*.go`, `cmd/cakec`) | none at run time | | the race rule and evaluation orders |

A domain is driven by one goroutine: the main goroutine for main, net/http's
for a request, its own for a spawned domain. Every async call has a goroutine
too. Domains meet only in the inbox (a spawned domain posts its result to its
caller's), in `liveHandles` with the wake slot, in main's callback queue, and in
the output buffer.

What makes each part correct:

* domain: one goroutine touches it at a time; code runs in the order of Node's
  queues; between tasks nothing is left over; abandoned, it runs nothing and
  leaves no goroutine; it ends when nothing can run any more;
* promises and async calls: a promise settles once; each await is resumed once,
  after its promise settled; no unhandled rejection is passed over;
* spawn: every spawn counts back once, whatever became of it; a result is shared
  without a copy only when the spawned domain is done with it;
* loop and process: handles are counted exactly; the process ends when, and not
  before, nothing is left that keeps it alive;
* node:http: a server serves only after its callback is queued, and keeps main;
* console: while a handle is live, what was logged has been written;
* compiler: code that may run in parallel shares nothing that changes; modules
  and operands are evaluated in the language's order.

### The language server and the API

| component | state it keeps | operations | hard because |
|---|---|---|---|
| loops (`lsp/server.go`) | two queues, the tables of pending requests in both directions | `readLoop`, `dispatchLoop`, `writeLoop`, `cancelRequest`, `sendClientRequest`, `handleExit` | a cancel, an answer, an exit or a failing write meets every other step |
| dynamic queue (`lsp/dynamic_queue.go`) | a slice that travels through two channels of capacity one | `Put`, `Get` | no lock: the slice is the lock; contexts may end in every wait |
| session (`project/session.go`, `api.go`, `snapshot.go`, `background/queue.go`) | the current snapshot, reference counts, pending changes, timers, a queue of tasks | `DidOpenFile` and the other notifications, `getSnapshot`, `updateSnapshot`, `adoptSnapshotChange`, `APIUpdate`, `Close` | updates, adoptions, API calls, timers and shutdown interleave |
| file watches (`project/watch.go`, `session.go`) | counts by glob, pending watches, the registered extensions | `Acquire`, `Release`, `updateWatch`, `updateWatches`, `updateContentMapperRegistrations` | client calls fail or come late; tasks of several updates run at once |
| checker pool (`project/checkerpool.go`) | slots, three semaphores, associations, a timer | `GetChecker`, release, `cleanupIdleCheckers`, `Discard` | a token, a lock and a timer are taken and given back one by one |
| parse cache (`project/refcountcache.go`) | entries with a lock and a count | `Acquire`, `AcquireExisting`, `AcquireOrError`, `Ref`, `Deref` | an entry may die between the map and its lock |
| extended configs (`project/ownercache.go`, `tsoptions/tsconfigparsing.go`) | entries with a lock, a value and owners | `LoadAndAcquire`, `AddOwner`, `Release`, the recursion of `parseConfig` | the lock is held while other entries are taken |
| connections (`ipc/conn_async.go`, `conn_sync.go`) | pending calls, the terminal error; the turn | `Run`, `Call`, the handlers | both sides call each other over one stream that may fail |

The loops pass messages through two dynamic queues. Handlers take a snapshot
from the session and a checker from the pool of that snapshot's program. A
snapshot's disposal releases its entries of the parse cache and of the extended
configs, and discards the pools of programs that no snapshot has any more. An API
client reaches the same session over one of the connections.

What makes each part correct: every request is answered once and the tables are
empty afterwards; the queue is first in, first out; no change is lost, no
snapshot is used after its disposal or kept for nobody, `Close` returns; the
client watches exactly what the current snapshot needs; a checker has one user,
and none that was canceled; a cache's entry lives as long as it has a holder and
all holders share it; nobody waits in a circle; a call gets its own answer, or
the error that ended the connection.

## Modules

### The runtime

**`Domain`** is one domain. `Kind` says who drives it: a program without or
with a top-level await, a spawned function, or a request. The driver's place is
`pc`; each async call's goroutine has a place in `co`; `wait[g]` is the call
whose `yield` channel `g` receives from. Nobody stores who holds the token: it
follows from who is not blocked. The program's code is arbitrary: whoever holds
the token may call into the runtime in any way (`Code`, `Finish`, `FinishTask`),
and between these the runtime takes its own steps (`Step`). The other end of a
spawn, seen from the caller, is `Post` and `Signal`, the two halves of
`Domain.post`.

| code | model |
|---|---|
| `Async`, its deferred function | `Async`; `Return`, `Throw`, `Panic`; `Handback` |
| `Await` up to its send on `yield`, the microtask it leaves, the rest | `Await`; `RunResume`; `Resumed` |
| `Co.wait` and the receive in `abort` | `Handback` |
| `settle`, `resolve`, `reject`, `then`, `park`, `unpark`, `busy`, `pending` | operators of the same names |
| `drain` | `RaiseTick`, `RunResume`, `RunReport`, `EndDrain` |
| `RunModule`, `failAfter` | `ModuleCall`, `ModuleReturn`, `failAfter` |
| `waitNext`, `runInbox`, `fireDue`, `finish` | `Check`, `WaitNext`, `TakeInbox`, `RunDelivery`, `EndInbox`, `FireDue`, `EndFire`, `Leave` |
| `abort` | `Abort`, `EndAbort` |

A value is not modelled, except for how a promise settled and whether a spawn's
result was copied. `checkDomain` never fails here: a promise of another domain
cannot be named. A response's `ended` is in `Process`, so `WriteAfterEnd` may
happen at any time in a request. The timer heap is the set of its timers and
`Due` its order.

**`Process`** is the whole process: main, domains spawned to any depth, servers
and requests. A task of a domain is a stretch in which its code acts; the
driver's loop is modelled step by step, as are `ref` (the count, then the
flush), `Listen` (the count, the callback, `Serve`), and main's decision to
return, which reads `liveHandles` before the queue and its own pending work.
Timers are counted and may come due at any moment. What the code keeps as a flag of
each domain is a set of domains here: `held` (has a handle), `refing` (between
the count and the flush), `wakeup` (its wake slot is full), and in the same way
`delivered` and `ended`.

**`MCDomain`, `MCProcess`** give TLC the symmetry sets, and `MCProcess` a bound on
what a program spawns and listens on together (`AtMostTwo`). **`DomainProofs`** and
**`DomainPromiseProofs`** hold the theorems about `Domain`, **`ProcessProofs`**
those about `Process`.

**`EventLoop`** is what a domain promises: JavaScript's single thread, without
goroutines, channels or a token. One piece of code runs at a time (`current`);
an async call runs before its caller goes on (`caller`); promise jobs run in the
order they were queued; a timer or a spawn's result comes only when no job is
left; nothing runs once the thread has failed or ended. **`DomainThread`** shows
that `Domain` implements it (`SingleThread`). The mapping: `jobs` is the
microtask queue, `timers` the set of timers. A call has the thread while its
goroutine runs or is about to go on after an await; its `caller` is whoever
waits for the token from it, and `current` is the call nobody called out of. A
call that has awaited or ended and only has the token to give back is done with
the thread: `Handback`, `Resumed`, the driver's checks, `Post` and `Signal` are
stutters. A Go panic on its way up through the calls is already a failed thread.

### The language server and the API

Each of these modules is one component. `MCSession` and `MCCheckerPool` give TLC
the instances of theirs; `MCLsp` puts `DynamicQueue` and `LspServer` side by side,
`MCServer` adds a session to them, for what has to happen in the end,
`MCConnections` has the two connections, `MCTables` `ExtendedConfigs`, `RefCountCache`
and `Watches`. These components share no state: a variable `part`, chosen in the
first state, says which of them a behaviour is of, and the others stay as they
were. An action is a stretch of code between two places where another
goroutine can come in: a lock, a channel operation, a call of the client.

* **`LspServer`**: the three loops, a goroutine for each asynchronous handler,
  the client's answers. A handler's result is a choice (`AnswerKinds`); what it
  computes is left out. The queues are sequences, which `DynamicQueue` justifies.
  `readLoop` answers some requests itself: those before `initialize`, and, at any
  time, those whose parameters cannot be read. An answer without an id, which it
  sends for what is no message, is nobody's, and is left out.
* **`DynamicQueue`**, **`Fifo`**: `getAny` and
  `getReady` take the slice out of a channel, `Put` and `Get` give it back. `Fifo`
  is what the queue promises: `Put` appends, `Get` takes the first item.
  `ImplementsFifo` is the refinement; taking the slice and giving up are stutters.
* **`Session`**: `updater` is who holds `snapshotUpdateMu` and what it has
  flushed, `tasks` the goroutines of the queue and of the timers. A snapshot is
  abstracted to the changes and the preferences it was built from (`built`).
  `Clone` stands for all of `Snapshot.Clone`. `getSnapshot` is called by the
  dispatch loop, and by handlers that it left to work on ("handler", `work` and
  `RequestLocks`); the builtin watcher tells of changes in a goroutine of its own
  (`WatcherNotes`, `WatcherSchedules`). The queue looks at the background context
  before it runs a task, and not after that: an adoption, or a clone that has been
  warmed, may come in while `Close` waits. `ops`, one of `Mixes`, says what the
  clients do in a behaviour.
  `Shutdown`, `Close`, `closeIdleCacheClean`, `CloseQueue` and `CloseSnapshot` are
  the stages of `Session.Close`.
* **`Watches`**: a snapshot has a watch in some of its slots, and `Name` says what
  the watches of a slot are called: those of the typings of all projects have one
  name, and only their number tells them apart. A task goes through
  the slots (`Diff`), and for each through `Acquire`, `WatchFiles`, `Settle` or
  `Rollback`, `ReleaseOld`, `UnwatchFiles`; `Register` is the registration of
  content mapper extensions. `Failing`, `Concurrent` and `Adopting` say which
  adversities an instance has: `MCTables` has one with none of them (`InOrder`) and
  one with all (`AtOnce`).
* **`CheckerPool`**: `GetChecker` and `Token` up to the semaphore,
  `tryReacquireForRequest` and `AcquireOnly` or `AcquireQuery` under the mutex,
  `Release` or `ReleasePersistent` and then `ReleaseToken`. Time is left out: an
  idle checker expires (`Age`) and an armed timer fires (`Fire`) at some moment.
  `mix`, one of `Mixes`, says which lifetimes the calls of a behaviour have, and
  whether its diagnostics checkers find global diagnostics.
* **`RefCountCache`**: `StoreNew`, `LoadExisting` and `LoadNothing` are the map's
  answer, `LockLive`, `LockDead` and `LockNothing` what follows under the lock.
  `Ref` is called only for what the caller's program keeps alive
  (`project.go`), and so is it here.
* **`ExtendedConfigs`**: each goroutine has the stack of its calls. `Content` is
  the text of each config as each snapshot sees it; a value is the texts it was
  parsed from, put together as the code does it: `Reads` is the config's own text,
  and each acquire adds what it returned to the parse it was made for (`Gives`).
  `hash` are the texts an entry was stored with. `extends`, one of `Graphs`, is which
  config extends which. Goroutines that wait for each other for ever stutter
  (`Stuck`), so that the properties can say when they may.
* **`AsyncConn`**: Run's goroutine, a handler for each request, calls by handlers
  and from outside; `Disconnect` is the transport's failure. `full` and `closed`
  are the calls whose channel has an answer in it or is closed.
* **`SyncConn`**: the stream and the client as a stack of frames; requests nested
  in calls and calls nested in requests. `mix`, one of `Mixes`, says which calls a
  behaviour has, and whether notifications come while a call is served.

The theorems about these modules are in `LspProofs` (queue and loops),
`CheckerPoolProofs`, `TableProofs` (the three tables), `SessionProofs` and
`ConnectionProofs`.

## Runs

Twelve runs; deadlock is checked in every one: a state with no step is something
that hangs, and what has ended stutters (`Ended`, `Gone`, `Rest`, `Over`, `Quiet`,
`Idle`, and `Unused` where nobody uses the queue).

### The runtime

| run | instance | what it shows | distinct states |
|---|---|---|---|
| `domain_request` | request; 3 calls, 1 promise | one goroutine holds the token (`OneTokenHolder`); each parked call is woken by exactly one reaction or microtask, and after its promise settled (`WakeupsExact`); no rejection passes a drain unhandled (`NoRejectionSlips`); a promise settles once (`SettlesOnce`); an ended domain leaves no goroutine (`NoGoroutineLeft`) and abort runs no code (`AbortRunsNothing`); the whole implements `EventLoop` (`SingleThread`) | 90,085 |
| `domain_spawn` | spawned; 2 calls, 1 promise, 1 spawn, 1 timer | a result handed over uncopied is never reached again (`UnclonedOutOfReach`); the count of spawns is exact (`SpawnedExact`) | 1,801,203 |
| `domain_module` | main with a top-level await; 1 call, 1 promise, 1 spawn, 2 timers | the module's rejection fails the program before a timer fires (`ModuleRejectionFails`); timers, deliveries and jobs in `EventLoop`'s order (`SingleThread`); the domain ends, and results arrive before (`ComesToAnEnd`) | 233,324 |
| `process_serve` | main, 1 request, 2 spawns or 2 servers or one of each, 2 timers or requests | handles are exact (`HandlesExact`), nobody ends under a spawn, nor main under a server (`NoEarlyEnd`), the listen callback comes before `Serve` (`CallbackBeforeServe`), output is written through while a handle is live, and no line main waited for is lost at the end (`OutputWritten`) | 1,502,773 |
| `process_ends` | main, 1 spawn, 1 request, 1 server | a process that listens on nothing ends, and so does every request and spawned domain (`EverybodyEnds`) | 53,599 |
| `process_alive` | main, 1 spawn, 1 timer | violated: see below (`WorkAfterResultKeepsAlive`) | |

### The language server and the API

| run | instance | what it shows | distinct states |
|---|---|---|---|
| `lsp_loops` | queue: 2 goroutines, 3 puts; loops: 2 requests, exit, failing writes; session: 3 snapshots, 2 changes, 2 mixes | the queue is first in, first out (`ImplementsFifo`), `Put` and a canceled `Get` return (`AllReturn`); no request is answered twice or left in a table (`RequestsExact`); every request is answered, and exit ends the loops and all work (`AllServed`); a scheduled change gets into a snapshot (`Flushed`), `Close` returns (`Closes`) | 62,782 |
| `session` | 5 snapshots, 2 changes, 6 mixes of operations | references are exact (`RefsExact`), no change and no preferences are lost (`NothingLost`), the current snapshot never loses a change (`NeverBack`) | 2,589,761 |
| `checker_pool` | 2 goroutines, 2 of 3 lifetimes, 3 slots, 1 request, 1 file, 2 diagnostics | one user for a checker and a slot for a token (`HeldExact`), no canceled checker and no association with what is gone stays (`NothingStale`), a timer while one is idle (`CleanupComing`), identities are kept (`StableIdentity`), every global diagnostic is merged and announced (`GlobalsReported`) | 1,226,020 |
| `connections` | async: 2 handlers, 1 outside call; sync: 3 requests and 3 calls, or 1 call and notifications in it | async: every pending channel has its call, and a closed one is no answer (`ChannelsOwned`), the terminal error reaches `Run` and the calls (`ErrorReaches`); sync: answers in stack order, each call its own (`OwnAnswer`) | 978,230 |
| `tables` | configs: 3 in a chain, or 2 in a cycle, 2 goroutines, 5 calls, 2 snapshots; files: 1 key, 3 holders; watches: 2 slots with one name, 2 globs, 4 updates in order, or 3 at once | configs: owned entries stay, and others go (`OwnedStays`), a snapshot gets what its own texts say (`FreshForSnapshot`), nobody waits for himself, nor in a circle unless configs are in one (`OnlyCircularWaits`); files: one entry with the holders' count, dead when it left the map (`CountExact`); watches: counts and registrations are those of the current snapshot (`WatchesExact`), extensions never go back (`RegistrationForward`) | 1,307,204 |
| `circular_configs` | as `tables` | violated: see below (`NoCircularDeadlock`) | |

Where a property is a conjunction its parts are about one thing; the first one is
the module's type invariant in `HandlesExact`, `RefsExact`, `HeldExact`,
`RequestsExact`, `ChannelsOwned`, `OwnAnswer`, `OwnedStays`, `CountExact` and
`WatchesExact`. All of these but the liveness properties and the two that are violated are
proved below; `ParkedExact`,
`DrainedBetweenTasks`, `OneToken` and `ChannelFits` are proved only.

### Bounds

The runtime. Three async calls are what it takes for a call to be nested two
deep, or for two calls to be parked below a third, which is what `unpark`'s move
and the abort of several calls need. One `new Promise` is enough to settle a
promise at any time from anywhere. Two spawned domains give a tree of depth two
and two results in one inbox. `MaxTimers` and `MaxNow` of `Domain` bound how many
timers are set and how late: two timers are what `Less` needs to decide between
timers due together or in turn. `MaxEvents` of `Process` bounds the timers set and
the requests that arrive: one is enough for work after a result, two for one
domain to wait on a timer while another does or a request is served. `AtMostTwo`
lets a program spawn twice, listen twice, or do each once. Calls, promises,
spawned domains, requests and servers are each interchangeable, which is the
symmetry used in the runs that check safety.

The language server. Two requests let one be canceled, or wait for the client,
while the other is answered. In `Session` two changes are one that an update
has and one it does not have; of the identities of snapshots one is the
current one's, others are what a worker or the API keeps, its clone, and the next; an identity
is used again when nothing refers to it (`Unused`), so updates are not bounded,
and `Room` keeps one free for the next. Two timers let a stopped timer's callback
meet its successor. The six mixes put together the operations that read or write
the same fields; two mixes are enough for what has to happen in the end, one in
which updates are scheduled by the watcher and canceled by requests and the API,
and one that closes the session. In `CheckerPool` two goroutines contend for the one
diagnostics or API checker, and have two query slots to choose from; that a third
goroutine waits for a query slot does not happen. `MaxCalls` bounds calls, and
identities of checkers are used again. In `RefCountCache` three holders of one key are enough for one to
wait, one to fail and one to drop; calls are not bounded, and keys do not
interact. Four updates of `Watches` allow a watch to appear, to be replaced, to
be cloned and to go; two slots with one name are the worst case for the ids.
`ExtendedConfigs` has a config that extends one that extends another, so that a
text changes two levels below the entry it makes stale, and two configs in a
cycle, which two goroutines come to from both ends; two snapshots see different
texts. `MaxCalls` bounds its calls: five are two acquires, two releases, and one
more that finds what they left. Each caller of
`AsyncConn` and each call of `SyncConn` calls once; a call's place may be taken by
any of them. `MaxPuts` bounds `DynamicQueue`.

Goroutines, requests, holders and values are interchangeable where a run uses
symmetry; no run with a liveness property does.

### Fairness

The runtime, in `FairSpec` of `Domain` and `Process`. Go's scheduler runs every goroutine
that can run, and time passes: the runtime's own steps are weakly fair. A timer
that stays set comes due: `FireDue` is strongly fair in `Process`, where time is
left out. The program's code is assumed to come to an end: a task that can end
again and again does (`Finish`, `FinishTask`, `Progress` are strongly fair).
Nothing obliges the program to settle a promise, to deliver a result or to end a
response.

The language server, in `Fairness` of `Session`, `DynamicQueue`
and `LspServer`. A goroutine that can run does: weak fairness of its steps.
Strong fairness is asked of what waits for a lock or a channel that others take
and give back again and again, since Go's mutexes (in starvation mode) and
channels serve waiters in turn: `getAny`, `getReady`, the tasks that lock
`snapshotUpdateMu`, `CloseSnapshot`. Timers fire. Whoever holds a snapshot
releases it, since the code defers that. The client of `LspServer` answers what it
is asked; no client is obliged to send a request, to cancel or to edit.
`checker_pool`, `connections` and `tables` check safety only.

## Where the code and its comments disagree

`process_alive` is expected to fail. `spawn.go` says that what a spawned domain
has left to do after its result "carries on, and keeps the process alive". The
result is posted while the domain's task still runs, and the handle that keeps
the process alive is taken only after the task, its microtasks and the loop
before the result: if main has nothing else to do, it may take the result, see
no handle, and exit before that. TLC's counterexample: the spawned function sets
a timer and returns, main runs the delivery, reads `liveHandles = 0`, finds
nothing pending, and exits; the timer never fires.

`circular_configs` is expected to fail. `getExtendedConfig` bypasses the cache for
a config on its own `resolutionStack`: the cache locks an entry while it is
parsed, and "a cycle would cause the same goroutine to re-lock the same entry,
resulting in a deadlock" (`tsconfigparsing.go:906-909`). That stack is one
goroutine's; the locks are everybody's. TLC's counterexample: `a` and `b` extend
each other, one goroutine comes to `a` and locks it, another comes to `b` and locks
it, each finds the config it wants next not on its own stack, and waits for the
other's lock. `OnlyCircularWaits` is what the bypass does achieve: nobody waits for
his own lock, and nobody in a circle where configs are in none.

The instances of the language server keep out seven more cases, in which what the
code does differs from what its comments say. The modules contain these
steps, and the instances or properties named here leave the case out.

* Preferences and API updates (`api.go:23`). `APIUpdate` flushes everything that is
  pending and discards the preferences, which are then no longer pending: no later
  update brings them into a snapshot, until they are configured again. The
  instance: no mix of `MCSession` has "configure" and "api".
* Tasks dropped at shutdown (`background/queue.go:38`). The reference of a clone is
  given to a task of the background queue, which "will either promote it as the
  session's current snapshot or release it" (`session.go:1323`). The queue drops the
  task if it is closed or the background context is done, also when the task's
  goroutine already exists (lines 23, 29, 38), and then nobody releases the clone:
  a request's asynchronous work has its snapshot, `Close` cancels the context and
  closes the queue, the work clones the snapshot and ends, and the closed session
  has a snapshot with a reference. `RefsExact` speaks of the time before that.
* A watch that could not be registered (`session.go:1541`). Its counts are given
  back "to keep refcounts clean", but the watch is in the snapshot, and its
  successor's task releases it once more: if they share a glob, the successor's
  registration goes. The instance: `InOrder` has no failing calls.
* Tasks of two updates in the other order (`watch.go:74`): a release that comes
  before its acquire does nothing, and the acquire is never released. The
  instance: `InOrder` runs one after the other.
* Adopted snapshots (`session.go:1341`) become current without `updateWatches`; the
  next update compares with them and finds their watches unchanged. The instance:
  `InOrder` adopts nothing.
* Cancellation of `AsyncConn.Run` (`conn_async.go:87`), which "blocks until the
  context is cancelled", but looks at the context only between two reads. No
  property speaks of it.
* Notifications while several calls are open (`conn_sync.go:241`). While a `Call`
  handles a notification the mutex is free and nothing says that an answer is due:
  another `Call` starts and reads it. The instance: where
  notifications come in a call, `AllOrNoted` has one call.

## Proofs

Every theorem holds for all values of the constants that satisfy the modules'
assumptions: the bounds of the runs are not part of them. The assumptions say
that names are distinct, that the sets whose members are counted are finite,
and that bounds and delays are natural numbers; what goes beyond that is named
in the sections. TLC evaluates them in every run.

A safety theorem follows from three facts: `Init => Inv`, `Inv /\ [Next]_vars =>
Inv'` (one step per action, or per group of actions that change what the
invariant reads) and `Inv => P`. The inductive invariants were checked by TLC on
the runs' instances before they were proved.

### The domain

| module | theorem | statement |
|---|---|---|
| `DomainProofs` | `TypeCorrect` | `Spec => []TypeOK` |
| | `Token` | `Spec => []OneTokenHolder` |
| | `Registry` | `Spec => []ParkedExact` |
| | `Drained` | `Spec => []DrainedBetweenTasks` |
| | `AllExited` | `Spec => []NoGoroutineLeft` |
| | `NothingRuns` | `Spec => AbortRunsNothing` |
| `DomainPromiseProofs` | `Once` | `Spec => SettlesOnce` |
| | `Rejections` | `Spec => []NoRejectionSlips` |
| | `Wakeups` | `Spec => []WakeupsExact` |
| | `ModuleFails` | `Spec => []ModuleRejectionFails` |
| | `SpawnCount` | `Spec => []SpawnedExact` |
| | `OutOfReach` | `Spec => []UnclonedOutOfReach` |
| | `DomainIsThread` | `Spec => SingleThread` |

for every finite set of calls and spawns, every set of promises and delays, and
every kind of driver.

**The token and the registry.** None of the first three is inductive alone. That
one goroutine is awake says nothing about where the token goes when that one
blocks: a call could hand it to nobody, or to two. `IInv` is the conjunction of

* `TypeOK`;
* `TokenInv`: `OneTokenHolder`, and an awake call is waited for by exactly one
  goroutine, its caller's or the driver's, and nobody waits for any other; a
  call waits only while it runs. So every handoff wakes exactly the one
  goroutine that waited;
* `ParkedExact`: the registry and the indices agree with the suspended calls, so
  that `resume` and `abort` hand the token to a goroutine that receives it;
* `RootInv`: the place of the driver's own call, where the domain's first task
  is one.

**The phases.** When the driver holds the token, is no call awake? `TokenInv`
does not say so: two calls could wait for each other. `ChainInv` does: the
goroutines that wait form one chain that starts at the driver, ends at the
holder, and contains all that is awake. Every call pushes to it and every
handback pops. From it follows `Alone`, and with it `PhaseInv`: where the driver
may be while it waits, what the queues hold between tasks, and that in a domain
that is over only calls that `abort` marked are awake, on their way out. That no
Go panic rises in such a domain (`FailedInv`) is what keeps `abort`'s loop going
to the last parked call.

**Promises.** `BornInv` (a call or a spawn that has not started has no promise)
excludes that `Async` or `Spawn` resets a settled promise. `RejectionInv` says
that a rejected promise that is not handled is on the list `checkRejections`
goes through, unless the domain has failed.

**Wake-ups.** `WakeInv` follows the one wake-up of a suspended call from where it
waits to where it is used. `QueuedInv` and `ReactionInv` say where a wake-up can be, a
microtask after the promise settled or a reaction of the pending promise, and
that each of these is there once; `SuspendedInv` that a suspended call has
one; `AwakenedInv` that a call that goes on finds its promise settled;
`AbortedInv` that a call that was abandoned is not suspended again, so that what
is left of its wake-ups is never run. `WakeupsExact` alone is lost when `settle` moves
all reactions of a promise to the queue.

**The module.** `ModuleInv`: once `RunModule` has the promise of the module's code,
the report of its rejection is a reaction of it while it is pending, and a queued
microtask when it is rejected (`Watched`), unless the program has failed. The
microtasks are drained before a timer fires or a delivery runs, so the report
comes first.

**Spawns.** `BatchInv` (nothing is taken from the inbox before the last batch has
run) makes the count inductive. `UnclonedInv` says that after a result went out
without a copy the domain is over or quiet: no timer, no spawn, no microtask, no
parked call, and the driver outside any task. A quiet domain stays quiet; that
needs the exact count, since a delivery still in the batch would run.

**The single thread.** `DomainIsThread` is the refinement of `EventLoop`: the
initial states are its initial states, and every step of a domain is one of its
steps or a stutter (`NextThread`, one lemma for each action). `current` and
`caller` of `DomainThread` choose a goroutine; `Mapping` says without a choice
what they are, from `ChainInv` and `Alone`: the holder's code runs, or, if the
holder has only the token to give back, the code of whoever waits for it. The
steps need three facts more (`ThreadInv`): timers have different numbers, so the
due timer that fires is the one `EventLoop` takes (`NumberedInv`); only its own
end settles a call's promise (`UnsettledInv`); and the last drain of a domain sets
no timer (`ExitInv`). Where a step runs code that a microtask resumes, `WakeInv`
and, for the report of a module's rejection, `ModuleInv` say whose code that is.

### The process

| module | theorem | statement |
|---|---|---|
| `ProcessProofs` | `Handles` | `Spec => []HandlesExact` |
| | `EarlyEnd` | `Spec => []NoEarlyEnd` |
| | `Callback` | `Spec => []CallbackBeforeServe` |
| | `Output` | `Spec => []OutputWritten` |

for every finite set of domains and servers. The invariant is `ProcessInv`.
That nothing ends under a spawn needs `SpawnInv`, that the count of a domain is that of the
results outstanding, arrived and taken, in every domain of the tree, and
`BatchInv`, that `runInbox` leaves nothing of what it took. `ServeInv` connects
main's place with the servers and these with the requests: main reads
`liveHandles` once, and what it read must stay true until it has returned.
`QueueInv` speaks of both the callback queue and the part of it main has taken:
`Serve` of a server is after everything else of it, over both. `OutputInv` says
that a line stays in the buffer under a live handle only while some `ref` is
between the count and the flush.

### The queue and the loops

| module | theorem | statement |
|---|---|---|
| `LspProofs` | `QueueInvariant` | `Spec => [](TypeOK /\ OneToken /\ ChannelFits)` |
| | `QueueImplementsFifo` | `Spec => ImplementsFifo` |
| | `Requests` | `Lsp!Spec => []RequestsExact` |

The first two hold for every non-empty set of goroutines and of items, and every
bound on the puts. The inductive invariant is the conjunction in the first one.
`OneToken` alone is inductive, but not enough: that `Get` takes a first item that
exists needs `ChannelFits`, and that needs `OneToken`, since a second goroutine
with the slice could empty the queue behind the channel's back. The lemmas follow
the slice: `OutsideSteps` (nobody has it in a new way), `TakeToken` (a channel loses
it to one goroutine) and `GiveToken` (a goroutine gives it to the channel that
fits). With the invariant each step is a `Put` or a `Get` of `Fifo`, or a stutter.

`Requests` holds for every set of requests, with and without an exit and failing
writes (`LspAssumption`: nobody is no request). That there is one answer is
inductive only together with who may give it: `LspInv` says that a request waits
to be dispatched once and nobody works on it then (`WaitingInv`), that an answer
is queued or written once and only for who has `work` "answered" or "done"
(`AnswersInv`), how long the entries of the two tables last (`EntriesInv`), and
that the dispatch loop has a request exactly while it handles it (`HandledInv`).

### The checker pool

| module | theorem | statement |
|---|---|---|
| `CheckerPoolProofs` | `Held` | `Spec => []HeldExact` |
| | `Stale` | `Spec => []NothingStale` |
| | `Cleanup` | `Spec => []CleanupComing` |
| | `Globals` | `Spec => []GlobalsReported` |
| | `Identity` | `Spec => StableIdentity` |

for every finite set of goroutines, slots, requests and files
(`PoolAssumption`). A token of a semaphore does not name a slot: that its holder
finds one is a count. `TokenInv` says that the semaphores count those who have a
token, `HoldInv` that whoever holds a checker is alone in its slot, so
fewer slots are held than there are tokens (`SlotLeft`). `CanceledInv` (a canceled checker is still held by who canceled it) makes
sure that `Release` drops it before anybody else sees it. `AssocInv` ties a request's association
to the `AfterFunc` that deletes it. `IdleInv` covers the moments in which the timer has fired
and its callback waits for the mutex. `DiagInv` remembers which diagnostics
the number `counted` stands for: the checker of a slot may be another one
since it was set.

### The session's tables

| module | theorem | statement |
|---|---|---|
| `TableProofs` | `ReferenceCount` | `Files!Spec => []CountExact` |
| | `Owned` | `Spec => []OwnedStays` |
| | `Fresh` | `Spec => FreshForSnapshot` |
| | `Waits` | `Spec => []OnlyCircularWaits` |
| | `Registration` | `AtOnce!Spec => RegistrationForward` |
| | `ExactWatches` | `MCSpec => []WatchesExact`, given `WatchNames` |

**Files**, for every finite set of keys and of holders, and more entries than
keys and holders together (`FilesAssumption`: a new entry is always another one). `FilesInv` says what the count says under
an entry's lock (`ShareInv`): who waits for the lock of an entry will find it alive
exactly if it is still in the map; who produces a value is its only reference. And that
an entry that has left the map never comes back (`MapInv`), so that
`LockDead` can start again.

**Configs**, for every finite set of configs, every set of graphs between them,
snapshots and goroutines. `ConfigsInv` speaks of the stacks of calls: all but the
innermost call of a goroutine are parsing, and hold the lock of their entry, which
is in the map (`CallsInv`, `ParseInv`); an entry that left the map has no owner
(`EntryInv`), so that whoever waits for its lock will notice; what a snapshot owns
is in the map under its name until its `Release` (`OwnsInv`, `ReleaseInv`).
If the configs of a behaviour do not extend each other in a cycle they have a rank
that goes down along `extends`, and it goes down along every stack (`RankInv`, for
every such rank): a circle of goroutines would have one that waits for a
config of least rank. That nobody waits for his own lock holds with cycles too,
since no config is twice on a stack.
What `LoadAndAcquire` returns is put together over many steps, of several
goroutines. `TextInv` says of each parse that is under way that it has the
texts of all configs it has come by, each as the snapshot it is made for sees it,
and of each entry that its value has all the configs it should have and that its
hash is of the texts it was made from. That a value is whole needs the rank: in a cycle
a config is parsed again without the cache and ends in an error.

**Extensions**, for any number of updates, slots and globs, with failing calls,
concurrent tasks and adoptions: what is registered is what some snapshot had, and
its number is that snapshot's (`RegistrationInv`).

**Watches**, for any number of updates and slots, and every finite set of globs,
which are numbers (`WatchNames`: a watch lists them in an order). A glob's count
cannot be compared with one snapshot while a task is under way. `Having` is the
set of the watches that have the glob so far, each by its slot and its number:
the old watch of a slot the task has not come to, both or parts of both of the
one it works on, the new one of a slot it is done with. The count is the size of
that set (`HavingInv`), and every `Acquire` and `Release` adds or takes one
element (`OneMore`, `OneLess`). Slots may have one name: an update gives its number
to one watch (`NumberedOnce`), so the number tells the watches apart. A clone has the number 0 and not its
predecessor's, but the same globs; so a glob that is counted for the first time
comes from a watch that has a number of its own (`HistoryInv`), which is
what makes the ids of two globs different (`OwnerInv`, `OwnersDiffer`):
otherwise `WatchFiles` of one would replace the other, and `UnwatchFiles` remove
it. `ClientInv` says that the client has what is counted, except what the task
is about to tell it. For the instance with tasks at once and failing calls the
theorem says that the types are kept (`AtOnceInv`).

### The session

| module | theorem | statement |
|---|---|---|
| `SessionProofs` | `References` | `Spec => []RefsExact` |
| | `Forward` | `Spec => NeverBack` |
| | `Changes` | `Spec => []ChangesKept`, the part of `NothingLost` about files and typings |
| | `Lossless` | `Spec => []NothingLost`, given `Separate` |

for every finite set of workers, every set of mixes, and every bound on snapshots,
changes, preferences and timers (`SessionAssumption`). `RefsExact` counts tasks, and
becomes inductive once it is said whose they are: `TasksInv` (no two tasks have the
same clone, warm the same snapshot, or are of the same timer), so that each owes at
most one reference (`Owed`), and `RefsInv` for the time of shutdown too, when a
count may be too high but never too low. A new snapshot takes an identity that
nobody refers to (`NewFree`), hence whoever has a reference finds what it had
(`Steady`). `BuiltInv` says what an adoption puts in place: a clone is built from what
its base is built from as long as the base lives, which it does when it is current;
and an update with preferences is never behind a snapshot. `PhaseInv` follows the
lock, the dispatch loop and the stages of `Close`, since a step of the loop after
the queue has been closed would bring tasks back. The proof has one summary of a
step for each concern, `SnapStep` for the snapshots, `TaskSet` and `IdleInv` for tasks
and the timer, `ChangeStep` for the lock and the changes, `EndInv` for the loop, and the
three theorems follow from the summaries. `Separate` is a hypothesis about the mixes: none has
both "configure" and "api". Without it the statement is false, and the code has that
case (see above); the part about changes needs no hypothesis.

### The connections

| module | theorem | statement |
|---|---|---|
| `ConnectionProofs` | `Channels` | `Spec => []ChannelsOwned` |
| | `Errors` | `Spec => []ErrorReaches` |
| | `Answers` | `MCSpec => []OwnAnswer`, given `SyncNames` and `OneCall` |

**The asynchronous one**, for every set of handlers and of callers. `ChannelInv`: from its registration on a call's
channel is in the table, in the hands of `handleResponse`, or closed, and in one of these
only; so nobody sends to a closed channel, closes it twice, or leaves a call waiting
on one that nothing closes. `CauseInv` follows the cause of the terminal error: until `Run`
has returned it is in `requestErrors` or in the error `Run` ends with.

**The synchronous one**, for every set of calls, any methods, and notifications sent
while a call is served or not (`SyncCall`, `SyncMethod` and `SyncMixes` of
`MCConnections`). `SyncNames` says that calls,
requests and the names "run" and "free" are different; `OneCall` that one call is made
in a behaviour where notifications come while a call is served, since with more of them the
statement is false, and the code has that case (see above). Nobody stores what
is going on: the invariant `SyncInv` says that there is a stack of open requests
and calls in turn, in which each has the place its depth says (`Stacked`), whose top
determines the mutex, `reading` and the number of calls (`Locked`), at whose top a
notification is handled (`Noted`); and that the client has the same stack, except
for one message on its way in one direction, behind which nothing else is
(`Sent`, `Phase`). Each step pushes, pops or lets the top go on, so the
next message a goroutine reads answers the call at the top, which is its own. That
`syncCalls` counts the open calls is `CountInv`, as the cardinality of a set.

### What stays with TLC

* Liveness, since the prover does not do fairness: `EverybodyEnds`,
  `ComesToAnEnd`, `AllServed`, `AllReturn`, `Closes`, `Flushed`.
* `WorkAfterResultKeepsAlive` and `NoCircularDeadlock`, which the code violates.
* `OwnAnswer` for notifications in calls with more than one call, and `WatchesExact`
  for tasks at once, are neither checked nor proved: both are false of the code, see
  above.

Every other property of a passing run is the statement of a theorem.

## What is not modelled

* Of the runtime: formatting, the text of reports and the values of the language,
  which the repository's golden tests compare with Node; net/http and the
  network; `server.close`, which the declarations do not have.
* cakebear's compiler (`lower/`, `ir/`, the emitter) and its command line: no
  state at run time.
* The TypeScript compiler in `internal/` (some 340,000 lines, of which the
  checker, the parser, the printer, the language service's features and generated
  tables are nearly all): sequential functions on syntax trees and types, whose
  measure is the upstream compiler's output. There is nothing a small instance
  could decide about them, and no interleaving. What this development covers is
  therefore a small part of the repository by lines, and most of what runs
  concurrently and keeps state.
* Of the language server: the debounce of diagnostics refreshes and the publishing
  of global diagnostics, telemetry, the contributions of content mappers, the
  options for inferred projects, what each method of the protocol computes, how globs are derived, the parallel build
  (`internal/execute/build`), watch mode.
  `DidChangeCompilerOptionsForInferredProjects` (`session.go:497`) is a way to update the
  snapshot without `snapshotUpdateMu`; its two callers are marked temporary
  (`server.go:1814`, `server.go:2434`), one is part of `initialized` and the other is
  for a program that embeds the server. The model has updates under the lock only,
  and what it shows is about sessions in which nobody else sets these options.
  A request of a handler, or a change from the builtin watcher, that comes after `Close` has
  taken the snapshot finds none (`session.go:1079`, `session.go:422`): here both need a snapshot.
* Of the caches: `OwnerCache.Acquire` with a value, configs that cannot be read,
  `DisableDeletion`. A parse that panics leaves an entry without owners in the map
  (`ownercache.go:42`; the lock is given back by the deferred `Unlock`), which every
  later `loadOrStoreLockedEntry` takes for one that is on its way out; no parse
  panics here. That two texts never have the same hash is taken for granted. Which
  config extends which stays as it is in a behaviour; only their other text differs between
  snapshots. `RefCountCache.Ref` is only called by who builds on a
  program that holds the entry, so that the branch for a dead entry
  (`refcountcache.go:112-118`) is not reached, and not modelled.
* Of the connections: `Notify`, timing, the encodings; for `SyncConn` also failing
  writes and cancellation.

## Plan

1. Done: the modules above, with their properties.
2. Done: the proofs above, of every invariant, action property and refinement
   that the runs check.
3. Models: the build's cache of extended configs; the diagnostics refresh and
   publishing of `Session`; the parallel build and its watch mode; `ServerResponse`
   with net/http as an external component;
   the timer heap with its indices; the fixpoints of `lower/race.go` and
   `lower/frozen.go` over small call graphs; `EvaluationOrder` of `ir/program.go`.
