# A TLA+ verification of mini_RPC

mini_RPC is a C++20 RPC framework: a client with synchronous, future and
coroutine calls, a client pool, and a multi-threaded epoll server. This
directory holds TLA+ models of its concurrent core, the TLC configurations that
check them, and TLAPS proofs about seven of its components.
Every definition is translated from the sources; `PROJECT.json` maps each one to
the lines it models (paths there start at the repository, `src/src/...`).

To run: `tlc -config X.cfg M` for the run table below, `tlapm M.tla` for the proof
modules (`*Proofs` and `WorkerLoopCounts`). Most take a few minutes; those of the
worker loop and of the logger take longer.

## The system and its parts

```
 application threads / coroutines
   |  Call, CallAsync, CallCo
   v
 RpcClientPool --(LoadBalancer)--> RpcClient ---- socket ----> RpcServer (acceptor)
                                    |   ^                          | EnqueueConnection
                              Add / |   | Complete, FailAll,       v
                              Bind  v   | FailTimedOut         WorkerLoop (epoll, 1 thread)
                                 PendingCalls <- dispatcher        |  ^ completed responses
                                    |                              v  |
                                 Task<T>, SyncWait             ThreadPool (handlers)
                                                                   |
                                                               MpscRingQueue <- AsyncLogger
```

* **PendingCalls** is the table from request id to waiter. Application threads
  add and bind, one dispatcher thread per connection settles, and the two meet
  only under its mutex. Wake-ups happen after the unlock.
* **RpcClient** owns socket, event loop and dispatcher thread. Calls reconnect
  on demand; `Close` shuts the socket down, joins the dispatcher, fails the
  table. `write_mu_` serialises calls and heartbeats.
* **Task<T>** is an eagerly started coroutine with a `shared_future` and a
  continuation, resumed on whichever thread completes it.
* **RpcClientPool** picks one of several RpcClients with a **LoadBalancer**,
  retries synchronous calls and keeps a health flag per channel.
* **RpcServer** accepts, hands connections to **WorkerLoop**s in turn and tears
  everything down.
* **WorkerLoop** owns an epoll instance, its **Connection**s and their
  coroutines; requests go to the **ThreadPool**, responses come back through a
  locked queue and an eventfd.
* **ThreadPool** has one **MpscRingQueue**, mutex and condition variable per
  worker. The same ring carries the entries of the **asynchronous logger**.
* The **frame codec**, the **service registry**, error codes, `UniqueFd`, the
  **code graph** application and the demo programs complete the repository.

## Modules

| Module | Models | State and steps |
|---|---|---|
| `PendingCalls` | `client/pending_calls.{h,cpp}` | `slots` is the map; what is done under `mutex_` is one step; promises and handles taken but not yet woken are per-thread locals, one step per wake-up |
| `QueueCells`, `ReservationQueue` | (abstract) | a bounded FIFO of cells that are reserved, then published: what the ring promises |
| `MpscRingQueue` | `common/mpsc_ring_queue.h` | one step per access to shared memory: load of the position, load of the sequence, CAS, construct, publish, move out, release, and the destructor's drain |
| `ThreadPool` | `common/thread_pool.{h,cpp}` | uses the cells of `QueueCells` for its queues; one step per mutex and condition-variable operation of `Submit`, `Stop`, `WorkerMain` and per atomic, except that adjacent statistics counters change together |
| `RpcClient` | `client/rpc_client.cpp`, `client/event_loop.cpp` | INSTANCEs `PendingCalls`; connect, call, close, dispatcher loop, heartbeat, each split at lock boundaries; `Faults` are the kinds of failure that may happen (hang-up, `recv`, `send`, a bad frame, the event loop) |
| `CoTask` | `coroutine/task.h` | a chain of `Depth` tasks over one RPC; co_await, final awaiter, `SyncWait`, destruction; undefined behaviour is a state of its own, of which nothing is said |
| `Connection` | `server/connection.cpp` | operators on a connection record: awaiters, notifications, deadlines, parsing, write buffer, closing |
| `WorkerLoop` | `server/worker_loop.cpp` | EXTENDS `Connection`; `PollOnce` phase by phase, both cross-thread queues, failing epoll and eventfd calls, with a business pool or with handlers run inline, clients and reusable descriptors |
| `RpcServer` | `server/rpc_server.cpp` | `Start` with failing phases, accept loop, `Stop`; a section under `lifecycle_mu_` is one step, and so are adjacent stores of the two stop flags |
| `RpcClientPool` | `client/rpc_client_pool.cpp`, `client/load_balancer.cpp` | either strategy; channel collection, each pass and each count read by the least-inflight balancer, outcome, count and flag in one step each; `failed_slots` are the table entries that failed asynchronous calls leave behind |
| `AsyncLogger` | `common/async_logger.{h,cpp}`, `common/log.{h,cpp}` | uses the cells of `QueueCells`; `Submit` split at the ring's claim and publication and before each counter that decides anything (the header names the merged ones), the worker's batch loop, summary of drops, flush, reopening, `Shutdown` with the last drain |
| `PendingCallsProofs`, `MpscRingQueueProofs`, `AsyncLoggerProofs`, `RpcServerProofs`, `RpcClientPoolProofs` | | inductive invariant, lemmas and theorems of the component, see below |
| `ThreadPoolInvariant`, `ThreadPoolProofs` | | the inductive invariant of the pool; lemmas and theorems |
| `WorkerLoopInvariant`, `WorkerLoopProofs`, `WorkerLoopCounts` | | the inductive invariant of the loop; lemmas and theorems; the theorems that need the sizes of sets |

`MC_*` modules only provide model values and symmetry sets. Operators with a
suffix (`Collect_Repeats`, `Wait_NoPredicate`, ...) and the comment "Faulty
variant" are not part of a model: each is a plausible bug in the definition that
follows it, kept to show that a property notices it. `PROJECT.json` pairs every
checked property with one.

**Composition.** `RpcClient` runs the actions of `PendingCalls` itself, so its runs
check both together. `ThreadPool` and `AsyncLogger` use the abstract queue, and
`MpscRingQueue` is checked to implement that queue (`ImplementsQueue`, with the cell
contents and the owner of each cell as refinement mapping). `WorkerLoop` sees the
pool as a set of tasks finished in any order and the server as an environment that
hands over sockets and stops it in the order of `RpcServer`. `RpcClientPool` sees a
client by the outcome of its calls.

## Runs

Passing runs, by the name of their configuration.

| Run | States | Bounds | What it shows |
|---|---|---|---|
| `PendingCalls` | 109 k | 3 ids, 2 settling threads, 2 results | a waiter is in exactly one hand, the first result wins, defensive error paths are dead, a settled call returns |
| `MpscRingQueue` | 4,604 | capacity 2, 3 producers, 5 values | object lifetimes, no leak, refinement of the queue |
| `ThreadPool` | 173 k | 1 worker, 2 submitters, 3 tasks, capacity 2 | a task is in one place, counters are exact, no lost wake-up, Stop and Join end, all with a Submit that blocks |
| `RpcClient` | 1.4 M | 2 callers, 1 Close, 2 connections, all faults, heartbeat | every dispatcher is joined by somebody, Close settles the calls |
| `CoTask` | 219 | chain of 4 | no resumed thread blocks, and the frame of a finished task is destroyed after its last use, the final awaiter's read excepted |
| `WorkerLoop` | 3.0 M | 2 descriptors, 2 clients, 2 requests, buffer of 1 frame, epoll and eventfd calls that fail | responses reach their own connection once, events never hit a reused descriptor, pending output is armed, waits have deadlines, in-flight count is exact, no socket is leaked |
| `WorkerLoopLive` | 225 k | 1 descriptor, 2 clients in turn, 2 requests of which one may come in two parts, a server that stops, with and without a business pool | requests are answered unless their connection ends, provided the pool runs what it accepts (see below); the loop ends and closes every socket |
| `RpcServer` | 16 k | 3 threads, 5 calls, 2 workers | one owner of the resources, nothing left behind, dispatch in turn, a standing stop request is honoured |
| `RpcClientPool` | 1.5 M | 2 threads, 2 endpoints, limit 1, 1 slot left behind per channel, both strategies | the balancer returns one of its candidates; Call gives up only after every channel was tried or seen unhealthy; the fallback revives a pool without healthy channels |
| `AsyncLogger` | 471 k | 2 threads, 3 entries, ring of 2, soft limit of 1, 1 request, `size_t` of 8 values | counters and drop summaries are exact, entries are written once and in order, a Shutdown nobody races with leaves nothing behind, a change of file is not lost, entries reach the disk, Shutdown returns |

**Why these bounds.** Two actors of a kind are needed for each race, a third one
where one of them has to be displaced (producers of the ring, submitters that block,
threads of a restart). A ring of two cells wraps twice with five values. Two
connections let an old dispatcher overlap a new one; two descriptors and two clients
let a descriptor be reused while an event or a response for its former owner is
still on its way. A write buffer of one frame overflows with two requests. A
`size_t` of eight values is enough for the logger's counter to wrap below zero,
which it does by at most the number of threads inside `Submit` (`LoggerAssumption`).
The pool's run has one queue, so that `Submit` blocks; the walk from a full queue to
the next is covered by the proofs, which hold for any number of queues. Counters
that the code never bounds are kept exact where only a comparison or a remainder
matters (`consecutive_failures` stays at its limit, `next_index_` is kept modulo a
multiple of every possible number of candidates), and are bounded by a named
constant elsewhere (`MaxCalls`, `MaxAccepts`, `MaxConns`, `MaxRequests`, `MaxSlots`,
`MaxLogs`). Deadlock checking is off where a bounded program simply finishes, and in
`WorkerLoop`, whose loop ends after a failing call.

**Fairness.** Weak fairness stands for a scheduler that runs every thread that can
run. Strong fairness is used for taking a mutex that others take again and again,
and for the logger's `FlushFile`: its interval test, tried in every round of an idle
worker, succeeds at some time. A deadline that has been set passes at some time.
Condition variables may wake a thread for no reason, but nothing relies on it. No
caller has to call, no client to send, no owner to stop, with two exceptions:
clients read what they are sent in `WorkerLoop`, and the program keeps calling in
`RpcClientPool` (`WF_vars(Next)`: somebody does something), where recovery is only
possible through calls. Two assumptions on a neighbouring component are weaker in
the code than in the model, as shown under Findings. `RequestsAnswered` of
`WorkerLoopLive` assumes that a pool that is not stopped runs every task it has
accepted, which `ThreadPoolStolen` refutes once its queues are full. `RpcClientPool`
assumes that a call on a channel returns, which `RpcClientLost` refutes after a
hang-up.

## Findings

Each of these two runs checks what a comment says and is violated by what the
code does; `PROJECT.json` quotes the text.

| Run | Property | What happens |
|---|---|---|
| `ThreadPoolStolen` | `AcceptedTasksRun` | blocked submitters share the worker's condition variable; `notify_one` may wake the wrong thread, and the accepted tasks are not run |
| `RpcClientLost` | `CallsReturn` | after a hang-up the dispatcher ends but the socket stays; the next call never returns |

### Further observations

The models also have the following behaviours, because the code does. No
property of this directory is about them; most are noted as hazards in
`PROJECT.json`, where a property that would exclude them would have to start.

* `pending_calls.cpp:422`: the slots of failed or timed-out `CallAsync` requests
  are not erased, so `GetInflightCount` counts requests that were answered.
* `thread_pool.cpp:221`: the worker announces free cells without the mutex; a
  `Submit` that has just found the queue full (line 117) can miss it and sleep
  beside an empty queue until another task arrives.
* `thread_pool.cpp:150`: `Join` destroys the queues while a `Submit` that passed the
  `accepting_tasks_` test may still be inside.
* `thread_pool.cpp:192`: a worker leaves on a stop request after an emptiness
  check that is out of date; a task accepted in between is not run.
* `rpc_client.cpp:477`: `Close` is called with `write_mu_` held and joins a
  dispatcher that may be waiting for `write_mu_` to send a heartbeat.
* `rpc_client.cpp:423`: a heartbeat whose write fails half-way (`SO_SNDTIMEO`) leaves
  the socket open, where `CallAsync` and `CallCo` close it; a later request would
  follow a torn frame. The model's writes are whole or fail before the first byte.
* `rpc_client.cpp:370`: a reconnect sets `dispatcher_running_` again while `Close`
  joins the old dispatcher, which then goes on.
* `task.h:103`: the frame may be destroyed between the publication of the result
  and the read of the continuation from it. `FramesOutliveTheirUse` excepts this
  read.
* `task.h:200`: a caller that stores its continuation between those two steps goes
  on by itself and is also resumed. The store and the read are not ordered by
  anything, so the read may also miss a store that came before it: the caller has
  found no result, is suspended, and is never resumed. The first is undefined
  behaviour in the model, the second leaves `SyncWait` waiting; hence there is no
  property that says that `SyncWait` returns.
* `worker_loop.cpp:432`: a connection past its deadline is closed only when one of
  its events arrives.
* `worker_loop.cpp:626` and `:1003`: a failing `epoll_ctl` for one new socket makes
  `PollOnce` return false, and the whole loop ends: all its connections are closed,
  and the acceptor goes on offering it every n-th connection, which it refuses.
  A socket queued just after the last drain stays open until the loop object is
  destroyed. `in_flight_request_count_` of such a loop is never brought down.
* `rpc_server.cpp:308`: the number of a refused socket is closed a second time, after
  the `UniqueFd` that was passed on has closed it. Another thread may have opened a
  descriptor with that number in between; in the model only the acceptor opens any.
* `rpc_server.cpp:319`: the business pool is destroyed before the loops that
  submit to it are stopped. The model lets such a `Submit` accept, without effect, or
  refuse; what else the use of a destroyed object may do is not in it. Tasks that the
  workers of the pool have left behind (`thread_pool.cpp:192`) are dropped.
* `rpc_server.cpp:200` and `:352`: a `Stop` that overlaps the beginning of `Start`,
  or is overtaken by a restart, waits for a server nobody has told to stop.
  `StopHonoured` is stated with this exception.
* `rpc_client_pool.cpp:139`: count and flag are two stores; concurrent outcomes can
  leave them in disagreement. `PoolRecovers` is about a pool without a healthy
  channel, so a channel left unhealthy beside a healthy one does not violate it.
* `rpc_client_pool.cpp:104`: an endpoint that is back is not called while another
  one is healthy.
* `rpc_client_pool.cpp:114`: without a healthy channel an asynchronous call is made
  on the first one, where the header promises a failed future.
* `load_balancer.cpp:39`: the second pass of the least-inflight balancer compares
  with the minimum of the first, of counts that may have changed. The comment there
  says that it falls back to the first candidate.
* `rpc_client.h:106`: the in-flight count the balancer reads is said to be of
  requests without a response, and includes the slots that failed asynchronous
  calls leave behind (`pending_calls.cpp:422`): such a channel looks busier for ever.
* `async_logger.cpp:553`: the last drain stops at a cell that is claimed and not yet
  filled; entries published behind it before `Shutdown` are not written, where the
  comment says that everything queued before is. `ShutdownDrains` is stated for a
  `Shutdown` that begins while no thread is inside `Submit`.
* `async_logger.cpp:392`: `inflight_count_` is incremented after the entry is visible,
  so the worker may take it below zero; another `Submit` then drops its entry with
  an empty queue, and the summary says that the queue was full.
* `async_logger.cpp:406`: a second `Shutdown` returns at once, before the first one has
  drained the queue.

## Proofs

TLC checks the small instances above; TLAPS proves the following for every value
of the constants.

**`PendingCallsProofs`** (any sets of request ids, settling threads and results;
assumption `PendingAssumption`: the special values differ from results and ids).
`WaiterHeldOnce`, `FirstResultWins` and `NoFallback` are not inductive: they do
not say where a waiter may be while its owner is between two steps. `IInv` adds,
for each request,

* `SlotInv`: what its slot looks like for each place its owner can be at;
* `ResultInv`: a finished slot and an outcome carry the first result;
* `TakenPromiseInv`, `TakenHandleInv`: what a settling thread has in hand belongs
  to an owner that waits for it;
* `NotLost`, `NotDoubled`: a waiter that has left its slot is in the hands of one
  thread and of no other.

There is a lemma per action. `CallInv` speaks of one request, and `KeptCallInv`
carries it over for every request an action does not touch, so only the request
acted on needs an argument. Theorems: `PendingCallsTypeOK`,
`PendingCallsWaiterHeldOnce`, `PendingCallsFirstResultWins`,
`PendingCallsNoFallback`.

**`MpscRingQueueProofs`** (any capacity of at least two, any producers and values;
assumption `RingAssumption`). Positions grow without bound and are mapped to cells
by a remainder, so the proof begins with lemmas on remainders: any `Capacity`
consecutive positions use each cell once. The inductive invariant `RInv` says what
the cell of each position in the window `dequeue_pos_ .. dequeue_pos_ + Capacity -
1` holds (`CellInv`: claimed by one producer, filled, or free), what a producer
knows at each step of `TryPush` (`ProducerInv`), that no two own a position
(`OwnsAlone`), and what the consumer knows (`ConsumerInv`). Theorems: `RingTypeOK`,
`RingObjectLifetimes`, `RingNothingLeaks` and the refinement
`RingImplementsQueue`: with the
abstract cell of a position (`CellAt`: its owner and value while it is claimed, else
the object in it, also while the consumer has it in hand), a successful
compare-and-exchange reserves, the release of the sequence publishes, the consumer's
release takes the head, and every other step is a stutter. So what the pool and the
logger assume of their queue is proved of the ring.

**`ThreadPoolProofs`** (any number of workers, submitters and tasks, any capacity;
assumption `PoolAssumption`: finitely many submitters, which are no workers).
`NoLostWakeup` speaks of a sleeping worker, but the race is lost earlier: `Woken`
states it from the moment the worker has tested its predicate under the mutex, with
`Due` naming the submitters that have yet to notify. It needs `Announced` (a worker
that may sleep has set `is_waiting`), `Mutex` (who holds `cv_mutex` where) and
`Sleepers` (who may be on the shared condition variable). `PendingExact` is
inductive with the counts in flight: `Uncounted` submitters and `Taken` tasks.
`TaskInOnePlace` counts the places of a task; the proof instead names the spot
(`Lies`: with its caller, in a submitter's hand, at an index of a queue or a batch,
among those that ran) and shows `OneSpot` inductive, with `HeldOnce`: no task is
held by two submitters, nor by one while it is still to be submitted or already
accepted. Each step moves tasks from one spot to another. For `CountersExact` the
counters are compared with what they lag behind (`Tally`): a submitter counts its
task before it returns (`Returning`), and a worker counts its whole batch after the
last task of it, so that the tasks run and not yet counted are `Done`, a set of
pairs of a worker and a position in its batch. The lemmas that count take the facts
about sizes of finite sets as a hypothesis, `Counting`, which `CountingHolds` proves
from the library where the theorems are assembled; the library's theorems so stay
out of the other obligations. Theorems: `ThreadPoolTypeOK`,
`ThreadPoolNoLostWakeup`, `ThreadPoolPendingExact`, `ThreadPoolTaskInOnePlace`,
`ThreadPoolCountersExact`.

**`RpcServerProofs`** (any threads, workers and bounds; `RpcServerAssumption`).
`OneOwner` is inductive, the others are not: `Phases` says which of acceptor, pool
and workers exist at each place of `Start`, and `Turn` that the workers before
`next_worker_` have been given one connection more than the others. Theorems:
`ServerTypeOK`, `ServerOneOwner`, `ServerNotRunningHoldsNothing`,
`ServerDispatchInTurn`.

**`AsyncLoggerProofs`** (any threads, numbers of entries, capacity and options;
`LoggerAssumption`). `Writers` ties a claimed cell to the thread that will fill it,
`Worker` the worker's locals to its place, `Closing` follows a `Shutdown` from the
moment it stops new entries: no thread inside `Submit`, then an empty queue, then
no drop left to tell. With the counters' equations, whose cardinalities of threads
"about to count" need the theorems on finite sets, this is inductive.
`WrittenOnceInOrder` follows from `OrderInv`: the
entries of one thread in the queue are in the order it logged them, after those in
the worker's batch and in the log, and all of them come before the one it is
about to push (`Behind`). That a set of numbers has a largest or least element is not
proved by induction, which the prover cannot apply, but from the library's
well-foundedness of `<`. Theorems: `LoggerTypeCorrect`, `LoggerCountersExact`,
`LoggerDropsReported`, `LoggerLatestPathOpened`, `LoggerShutdownDrains`,
`LoggerWrittenOnceInOrder`.

**`WorkerLoopProofs`, `WorkerLoopCounts`** (any descriptors, clients, requests and
buffer sizes, with and without a business pool, with failing system calls,
time-outs and a stopping server; `WorkerLoopAssumption`). The invariant, in
`WorkerLoopInvariant`, has two parts. `WInv` is about the loop:

* `ConnInv`, `BufferInv`: how a connection's deadlines, readiness and place in its
  coroutine go together, and whose frames are in its buffers;
* `SocketInv`, `Streams`: what has been read, what is on the wire and what is still
  to come is one stream of frames, so that a buffer never begins in the middle;
* `Ownership`, `Tokens`: a descriptor is a connection's, queued or in the acceptor's
  hand; tokens are handed out one by one and never again;
* `Dispatched`, `Answers`: a request in the pool or in a queue comes from the
  client that its token, if still in use, belongs to;
* `Control`, `Round`, `Armed`: the events of a round still belong to the
  connections they were reported for, and only the connection that the loop is
  busy with may have output and no `EPOLLOUT`.

There is a lemma per action. Theorems: `EventsMatchConnectionsHolds`,
`WritersAreArmedHolds`, `DeadlinesBoundWaitsHolds`, `ResponseToOwnerHolds` and, with
the cardinalities of the acceptor's and the loop's sockets, `SocketsOwnedHolds`.

`PlaceInv` is about a request: it, or its response, is at one place (`OneSpot`), and
there once (`OnceAt`), on its way over the wire, the read buffer, the pool, the
queue, the loop's local list, the write buffer and the socket to the client. Most
steps bring nothing to any place (`CalmStep`), the others move requests from one
place to another (`MoveStep`) or send a new one (`NewStep`); these are steps in the
proof of `NextMoves`, which rests on `WInv`. Theorem: `RequestInOnePlaceHolds`. The
number in flight is exact until the pool is destroyed or the loop ends
(`InFlightExactHolds`). After that it need not be, and its bound, part of `TypeOK`,
needs `BudgetInv`: the requests counted and those still to be parsed are together no
more than were sent, because a step that counts a request has parsed it
(`UnreadStep`). Theorem: `WorkerLoopTypeOK`.

**`RpcClientPoolProofs`** (any endpoints, threads, limits and both strategies;
`RpcClientPoolAssumption`: finitely many threads, and a counter that is kept modulo a
multiple of every number of candidates). What a call relies on lies in its own
locals, so `GoodCall` speaks of one call whatever the others do to health and counts
meanwhile. `SelectInv`: each channel passed by `SelectChannel` is a candidate, was
tried or was seen unhealthy. `AttemptInv`: each attempt has tried one more channel, until
every channel was tried or seen unhealthy. `BalancerInv`: each pass of the
least-inflight balancer has a candidate left to read, and the pass that reads the
counts again ends with a channel to pick, because no count reaches the largest
`size_t` that stands for "nothing read yet" (`InflightBound`). `NthIn` shows
that a number below the number of candidates stands for one of them. Theorems:
`ClientPoolTypeOK`, `ClientPoolSelectsACandidate`, `ClientPoolFailsOnlyAfterTrying`.

**Only model-checked.** All liveness properties: the prover has no rule for
fairness. `DispatcherOwned` and `CloseSettlesCalls` of `RpcClient`, whose invariant
would have to relate the table of `PendingCalls`, the sockets and every dispatcher,
and the properties of `CoTask` have no proofs yet; every other safety property that
a run checks is proved. The type invariants of `RpcClient`, `CoTask`
and `RpcClientPool` are stated for the reader and are in no configuration.
Wrap-around of `size_t` positions at 2^64 is not modelled in the ring: positions are
natural numbers.

## What is not modelled

* **Bytes.** A request is one or two parts and a response one; the length prefix
  and Protobuf encoding are left out, and with them `protocol/codec` and the
  indices of `Connection::Buffer`. A response that the socket takes only in part
  stays in the write buffer as a whole in the model.
* **Weak memory.** Every model is sequentially consistent. The release/acquire
  pairs of the ring and of the channel health are taken to do their work; the
  header of `ThreadPool` says why its relaxed accesses do no harm.
* **`Connection::Serve`**, which only a test calls; a failing `WorkerLoop::Init`; the
  write deadline that `OnReadable` leaves on a connection about to be closed.
* **A `Submit` that blocks a worker loop.** The pool of `WorkerLoop` always has room;
  the blocking is modelled in `ThreadPool`.
* **Some configurations**: `max_consecutive_failures` of zero, several threads that
  set the log file at the same time, `SetLogFile` with an empty path (which returns
  at once).
* **A coroutine that makes further calls** on the dispatcher thread; values and
  exceptions carried by tasks; moving tasks.
* **Statistics that are only read** (`StatsSnapshot`, `GetStats`, per-method
  counts).
* **Stateless or application code**: error codes, `UniqueFd`, the service
  registry (one map under one mutex, never shrunk), code graph, demos.

`PROJECT.json` lists these parts with their reasons, and the hazards that no
property covers yet.

## What could come next

1. **Frames** (`protocol/codec.cpp`, `Connection::Buffer`): encoding, decoding and
   buffer compaction as operators, checked against a reference definition for
   every way of cutting a few short frames into reads.
2. **A coroutine that calls again** on the dispatcher thread in `RpcClient`.
3. **An abstract RPC** (each call gets one answer, its own, or an error) that
   `RpcClient` implements, as a refinement.
4. Proofs, in this order: the properties of `CoTask`; `DispatcherOwned` and
   `CloseSettlesCalls` of `RpcClient`, from the invariant of `PendingCallsProofs`.
