----------------------------- MODULE ThreadPool -----------------------------
(***************************************************************************)
(* The business thread pool (src/src/common/thread_pool.{h,cpp}): one      *)
(* MpscRingQueue, mutex, condition variable and is_waiting flag for each   *)
(* worker.  Submit tries every queue without a lock and, when all are      *)
(* full, blocks on the condition variable of one worker, the same one the  *)
(* worker itself sleeps on.  The queues are sequences of cells, which is   *)
(* what MpscRingQueue is checked to implement.                             *)
(*                                                                         *)
(* The atomics that a thread decides on are read and written one per step. *)
(* Two relaxed statistics that are updated one after the other, which no   *)
(* thread of the pool reads, change in one step (thread_pool.cpp:98-99,    *)
(* 224-227, 241-242); between the two the code's are off by the second.    *)
(* Loads may overtake an earlier store on the hardware, but the only pair  *)
(* that matters (is_waiting, then Empty) is repeated after the mutex has   *)
(* been taken.                                                             *)
(***************************************************************************)
EXTENDS Integers, Sequences, FiniteSets

CONSTANTS
  ThreadCount,  \* thread_count_
  Submitters,   \* threads that call Submit
  Tasks,        \* each is submitted until it is accepted
  Capacity,     \* kQueueCapacity
  BatchSize,    \* kBatchSize
  None

ASSUME PoolAssumption ==
  /\ ThreadCount \in Nat \ {0} /\ Capacity \in Nat \ {0} /\ BatchSize \in Nat \ {0}
  /\ IsFiniteSet(Submitters) /\ Submitters \cap Nat = {}
  /\ None \notin Submitters \cup Tasks \cup Nat

Workers == 0 .. ThreadCount - 1

INSTANCE QueueCells WITH Producers <- Submitters, Values <- Tasks

VARIABLES
  accepting_tasks_, stop_requested_,
  queue, pending, is_waiting,   \* of each worker's WorkerData
  cv_mutex,      \* worker -> the thread that holds its mutex, or None
  waiting,       \* worker -> the threads asleep on its condition variable
  submitted_tasks_, completed_tasks_, active_workers_,
  spc, task, idx, attempt, local_index,   \* locals of each submitter
  wpc, batch, count,                      \* locals of each worker
  phase,         \* the owner: "new", "up", "stopping", "notifying", "joining", "joined"
  notified,      \* workers that Stop has notified
  todo, accepted, ran   \* tasks to submit; Submit returned true; executed

flags == <<accepting_tasks_, stop_requested_>>
data == <<queue, pending, is_waiting, cv_mutex, waiting>>
stats == <<submitted_tasks_, completed_tasks_, active_workers_>>
submitterVars == <<spc, task, idx, attempt, local_index, todo, accepted>>
workerVars == <<wpc, batch, count, ran>>
ownerVars == <<phase, notified>>
vars == <<flags, data, stats, submitterVars, workerVars, ownerVars>>

Init ==
  /\ accepting_tasks_ = FALSE /\ stop_requested_ = FALSE
  /\ queue = [w \in Workers |-> <<>>]
  /\ pending = [w \in Workers |-> 0]
  /\ is_waiting = [w \in Workers |-> FALSE]
  /\ cv_mutex = [w \in Workers |-> None]
  /\ waiting = [w \in Workers |-> {}]
  /\ submitted_tasks_ = 0 /\ completed_tasks_ = 0 /\ active_workers_ = 0
  /\ spc = [s \in Submitters |-> "out"]
  /\ task = [s \in Submitters |-> None]
  /\ idx = [s \in Submitters |-> 0]
  /\ attempt = [s \in Submitters |-> 0]
  /\ local_index = [s \in Submitters |-> 0]
  /\ wpc = [w \in Workers |-> "none"]
  /\ batch = [w \in Workers |-> <<>>]
  /\ count = [w \in Workers |-> 0]
  /\ phase = "new" /\ notified = {}
  /\ todo = Tasks /\ accepted = {} /\ ran = {}

-----------------------------------------------------------------------------
(* Start, Stop and Join, called by the owner of the pool.                  *)

Start ==
  /\ phase = "new"
  /\ stop_requested_' = FALSE /\ accepting_tasks_' = TRUE
  /\ wpc' = [w \in Workers |-> "pop"]
  /\ phase' = "up"
  /\ UNCHANGED <<data, stats, submitterVars, batch, count, ran, notified>>

\* A thread cannot be created: the ones created already are stopped and
\* joined, and nothing is left but stop_requested_.
StartFails ==
  /\ phase = "new"
  /\ stop_requested_' = TRUE
  /\ UNCHANGED <<accepting_tasks_, data, stats, submitterVars, workerVars, ownerVars>>

Stop ==
  /\ phase = "up"
  /\ accepting_tasks_' = FALSE
  /\ phase' = "stopping"
  /\ UNCHANGED <<stop_requested_, data, stats, submitterVars, workerVars, notified>>

RequestStop ==
  /\ phase = "stopping"
  /\ stop_requested_' = TRUE
  /\ phase' = "notifying"
  /\ UNCHANGED <<accepting_tasks_, data, stats, submitterVars, workerVars, notified>>

\* Faulty variant: notify_all without taking the mutex first.
NotifyWorker_NoLock(w) ==
  /\ phase = "notifying" /\ w \notin notified
  /\ waiting' = [waiting EXCEPT ![w] = {}]
  /\ notified' = notified \cup {w}
  /\ phase' = IF notified' = Workers THEN "joining" ELSE phase
  /\ UNCHANGED <<flags, queue, pending, is_waiting, cv_mutex, stats, submitterVars,
                 workerVars>>

\* Lock and unlock the mutex, then notify_all.  Whoever takes the mutex after
\* Stop has had it sees the flags and does not go to sleep.
NotifyWorker(w) ==
  /\ phase = "notifying" /\ w \notin notified
  /\ cv_mutex[w] = None
  /\ waiting' = [waiting EXCEPT ![w] = {}]
  /\ notified' = notified \cup {w}
  /\ phase' = IF notified' = Workers THEN "joining" ELSE phase
  /\ UNCHANGED <<flags, queue, pending, is_waiting, cv_mutex, stats, submitterVars,
                 workerVars>>

\* Join returns when every worker has, and destroys the queues.  A thread that
\* is still inside Submit would use destroyed objects: the model stops it.
Join ==
  /\ phase = "joining"
  /\ \A w \in Workers : wpc[w] = "exited"
  /\ phase' = "joined"
  /\ UNCHANGED <<flags, data, stats, submitterVars, workerVars, notified>>

-----------------------------------------------------------------------------
(* Submit.                                                                 *)

Alive == phase \notin {"new", "joined"}

Goto(s, state) == spc' = [spc EXCEPT ![s] = state]

ReturnTrue(s) ==
  /\ Goto(s, "out")
  /\ accepted' = accepted \cup {task[s]}
  /\ task' = [task EXCEPT ![s] = None]
  /\ UNCHANGED todo

ReturnFalse(s) ==
  /\ Goto(s, "out")
  /\ todo' = todo \cup {task[s]}
  /\ task' = [task EXCEPT ![s] = None]
  /\ UNCHANGED accepted

\* A Submit that finds accepting_tasks_ false returns without a trace.
Submit(s, t) ==
  /\ Alive /\ spc[s] = "out" /\ t \in todo
  /\ accepting_tasks_
  /\ todo' = todo \ {t}
  /\ task' = [task EXCEPT ![s] = t]
  /\ idx' = [idx EXCEPT ![s] = local_index[s]]
  /\ local_index' = [local_index EXCEPT ![s] = (@ + 1) % ThreadCount]
  /\ attempt' = [attempt EXCEPT ![s] = 0]
  /\ Goto(s, "try")
  /\ UNCHANGED <<flags, data, stats, accepted, workerVars, ownerVars>>

\* TryPush into the selected queue, else on to the next one; after a round
\* over all queues the slow path.
TryPush(s) ==
  /\ Alive /\ spc[s] = "try"
  /\ IF ~Full(queue[idx[s]])
     THEN /\ queue' = [queue EXCEPT ![idx[s]] = Reserved(@, s, task[s])]
          /\ Goto(s, "publish")
          /\ UNCHANGED <<idx, attempt>>
     ELSE /\ idx' = [idx EXCEPT ![s] = (@ + 1) % ThreadCount]
          /\ attempt' = [attempt EXCEPT ![s] = @ + 1]
          /\ Goto(s, IF attempt'[s] = ThreadCount THEN "slow_lock" ELSE "try")
          /\ UNCHANGED queue
  /\ UNCHANGED <<flags, pending, is_waiting, cv_mutex, waiting, stats, task,
                 local_index, todo, accepted, workerVars, ownerVars>>

\* The second half of a TryPush that succeeds, on both paths.
Publish(s) ==
  /\ Alive /\ spc[s] \in {"publish", "slow_publish"}
  /\ queue' = [queue EXCEPT ![idx[s]] = Published(@, s)]
  /\ Goto(s, IF spc[s] = "publish" THEN "count" ELSE "slow_count")
  /\ UNCHANGED <<flags, pending, is_waiting, cv_mutex, waiting, stats, task, idx,
                 attempt, local_index, todo, accepted, workerVars, ownerVars>>

\* The worker may have taken the task, and subtracted it, before it is counted
\* here: pending is then below zero (the code's size_t wraps) for a moment.
CountPending(s) ==
  /\ pending' = [pending EXCEPT ![idx[s]] = @ + 1]
  /\ submitted_tasks_' = submitted_tasks_ + 1
  /\ UNCHANGED <<completed_tasks_, active_workers_>>

Count(s) ==
  /\ Alive /\ spc[s] = "count"
  /\ CountPending(s)
  /\ Goto(s, "check")
  /\ UNCHANGED <<flags, queue, is_waiting, cv_mutex, waiting, task, idx, attempt,
                 local_index, todo, accepted, workerVars, ownerVars>>

CheckWaiting(s) ==
  /\ Alive /\ spc[s] = "check"
  /\ IF is_waiting[idx[s]]
     THEN Goto(s, "notify") /\ UNCHANGED <<task, todo, accepted>>
     ELSE ReturnTrue(s)
  /\ UNCHANGED <<flags, data, stats, idx, attempt, local_index, workerVars, ownerVars>>

\* notify_one on the condition variable of worker w: some thread asleep on it
\* wakes up, the worker or a blocked submitter.
NotifyOne(w) ==
  IF waiting[w] = {}
  THEN UNCHANGED waiting
  ELSE \E th \in waiting[w] : waiting' = [waiting EXCEPT ![w] = @ \ {th}]

Notify(s) ==
  /\ Alive /\ spc[s] = "notify"
  /\ cv_mutex[idx[s]] = None
  /\ NotifyOne(idx[s])
  /\ ReturnTrue(s)
  /\ UNCHANGED <<flags, queue, pending, is_waiting, cv_mutex, stats, idx, attempt,
                 local_index, workerVars, ownerVars>>

\* The slow path takes the mutex, for the first time or after a wake-up.
SlowLock(s) ==
  /\ Alive
  /\ spc[s] = "slow_lock" \/ (spc[s] = "slow_asleep" /\ s \notin waiting[idx[s]])
  /\ cv_mutex[idx[s]] = None
  /\ cv_mutex' = [cv_mutex EXCEPT ![idx[s]] = s]
  /\ Goto(s, "slow_try")
  /\ UNCHANGED <<flags, queue, pending, is_waiting, waiting, stats, task, idx, attempt,
                 local_index, todo, accepted, workerVars, ownerVars>>

SlowTry(s) ==
  /\ Alive /\ spc[s] = "slow_try"
  /\ IF ~Full(queue[idx[s]])
     THEN /\ queue' = [queue EXCEPT ![idx[s]] = Reserved(@, s, task[s])]
          /\ Goto(s, "slow_publish")
     ELSE Goto(s, "slow_wait") /\ UNCHANGED queue
  /\ UNCHANGED <<flags, pending, is_waiting, cv_mutex, waiting, stats, task, idx,
                 attempt, local_index, todo, accepted, workerVars, ownerVars>>

\* The queue was full: give up if the pool no longer accepts tasks, else wait
\* on the condition variable, which releases the mutex.
SlowWait(s) ==
  /\ Alive /\ spc[s] = "slow_wait"
  /\ cv_mutex' = [cv_mutex EXCEPT ![idx[s]] = None]
  /\ IF accepting_tasks_
     THEN /\ waiting' = [waiting EXCEPT ![idx[s]] = @ \cup {s}]
          /\ Goto(s, "slow_asleep")
          /\ UNCHANGED <<task, todo, accepted>>
     ELSE ReturnFalse(s) /\ UNCHANGED waiting
  /\ UNCHANGED <<flags, queue, pending, is_waiting, stats, idx, attempt, local_index,
                 workerVars, ownerVars>>

\* Faulty variant: pending is not counted on the slow path.
SlowFinish_NoCount(s) ==
  /\ Alive /\ spc[s] = "slow_count"
  /\ submitted_tasks_' = submitted_tasks_ + 1
  /\ NotifyOne(idx[s])
  /\ cv_mutex' = [cv_mutex EXCEPT ![idx[s]] = None]
  /\ ReturnTrue(s)
  /\ UNCHANGED <<flags, queue, pending, completed_tasks_, active_workers_, is_waiting,
                 idx, attempt, local_index, workerVars, ownerVars>>

\* The counters, notify_one and the unlock at the end of the slow path.
SlowFinish(s) ==
  /\ Alive /\ spc[s] = "slow_count"
  /\ CountPending(s)
  /\ NotifyOne(idx[s])
  /\ cv_mutex' = [cv_mutex EXCEPT ![idx[s]] = None]
  /\ ReturnTrue(s)
  /\ UNCHANGED <<flags, queue, is_waiting, idx, attempt, local_index, workerVars,
                 ownerVars>>

-----------------------------------------------------------------------------
(* WorkerMain.                                                             *)

WGoto(w, state) == wpc' = [wpc EXCEPT ![w] = state]

\* Faulty variant: the cell is not released.
PopOne_Kept(w) ==
  /\ wpc[w] = "pop"
  /\ Ready(queue[w]) /\ Len(batch[w]) < BatchSize
  /\ batch' = [batch EXCEPT ![w] = Append(@, queue[w][1].value)]
  /\ UNCHANGED <<flags, data, stats, submitterVars, wpc, count, ran, ownerVars>>

\* One element of PopBatch ...
PopOne(w) ==
  /\ wpc[w] = "pop"
  /\ Ready(queue[w]) /\ Len(batch[w]) < BatchSize
  /\ batch' = [batch EXCEPT ![w] = Append(@, queue[w][1].value)]
  /\ queue' = [queue EXCEPT ![w] = Tail(@)]
  /\ UNCHANGED <<flags, pending, is_waiting, cv_mutex, waiting, stats, submitterVars,
                 wpc, count, ran, ownerVars>>

\* ... and its end: the batch is full or nothing more is visible.
PopEnd(w) ==
  /\ wpc[w] = "pop"
  /\ ~Ready(queue[w]) \/ Len(batch[w]) = BatchSize
  /\ count' = [count EXCEPT ![w] = Len(batch[w])]
  /\ WGoto(w, IF batch[w] = <<>> THEN "idle" ELSE "notify")
  /\ UNCHANGED <<flags, data, stats, submitterVars, batch, ran, ownerVars>>

\* Nothing popped: leave if the pool stops, else announce the sleep.
Idle(w) ==
  /\ wpc[w] = "idle"
  /\ IF stop_requested_
     THEN WGoto(w, "exited") /\ UNCHANGED is_waiting
     ELSE WGoto(w, "recheck") /\ is_waiting' = [is_waiting EXCEPT ![w] = TRUE]
  /\ UNCHANGED <<flags, queue, pending, cv_mutex, waiting, stats, submitterVars, batch,
                 count, ran, ownerVars>>

Recheck(w) ==
  /\ wpc[w] = "recheck"
  /\ IF Ready(queue[w])
     THEN WGoto(w, "pop") /\ is_waiting' = [is_waiting EXCEPT ![w] = FALSE]
     ELSE WGoto(w, "recheck_stop") /\ UNCHANGED is_waiting
  /\ UNCHANGED <<flags, queue, pending, cv_mutex, waiting, stats, submitterVars, batch,
                 count, ran, ownerVars>>

RecheckStop(w) ==
  /\ wpc[w] = "recheck_stop"
  /\ IF stop_requested_
     THEN WGoto(w, "exited") /\ is_waiting' = [is_waiting EXCEPT ![w] = FALSE]
     ELSE WGoto(w, "wait") /\ UNCHANGED is_waiting
  /\ UNCHANGED <<flags, queue, pending, cv_mutex, waiting, stats, submitterVars, batch,
                 count, ran, ownerVars>>

\* Faulty variant: sleep without looking at the queue under the mutex.
Wait_NoPredicate(w) ==
  /\ wpc[w] = "wait" \/ (wpc[w] = "asleep" /\ w \notin waiting[w])
  /\ cv_mutex[w] = None
  /\ cv_mutex' = [cv_mutex EXCEPT ![w] = w]
  /\ WGoto(w, "sleep")
  /\ UNCHANGED <<flags, queue, pending, is_waiting, waiting, stats, submitterVars, batch,
                 count, ran, ownerVars>>

\* Take the mutex, for the first time or after a wake-up, and evaluate the
\* predicate of cv.wait: done, or (back) to sleep.
Wait(w) ==
  /\ wpc[w] = "wait" \/ (wpc[w] = "asleep" /\ w \notin waiting[w])
  /\ cv_mutex[w] = None
  /\ IF stop_requested_ \/ Ready(queue[w])
     THEN /\ is_waiting' = [is_waiting EXCEPT ![w] = FALSE]
          /\ WGoto(w, "pop")
          /\ UNCHANGED cv_mutex
     ELSE /\ cv_mutex' = [cv_mutex EXCEPT ![w] = w]
          /\ WGoto(w, "sleep")
          /\ UNCHANGED is_waiting
  /\ UNCHANGED <<flags, queue, pending, waiting, stats, submitterVars, batch, count, ran,
                 ownerVars>>

\* The predicate was false: sleep and release the mutex.
Sleep(w) ==
  /\ wpc[w] = "sleep"
  /\ waiting' = [waiting EXCEPT ![w] = @ \cup {w}]
  /\ cv_mutex' = [cv_mutex EXCEPT ![w] = None]
  /\ WGoto(w, "asleep")
  /\ UNCHANGED <<flags, queue, pending, is_waiting, stats, submitterVars, batch, count,
                 ran, ownerVars>>

\* notify_all for blocked submitters, without the mutex.
NotifyProducers(w) ==
  /\ wpc[w] = "notify"
  /\ waiting' = [waiting EXCEPT ![w] = {}]
  /\ WGoto(w, "account")
  /\ UNCHANGED <<flags, queue, pending, is_waiting, cv_mutex, stats, submitterVars,
                 batch, count, ran, ownerVars>>

Account(w) ==
  /\ wpc[w] = "account"
  /\ pending' = [pending EXCEPT ![w] = @ - count[w]]
  /\ active_workers_' = active_workers_ + 1
  /\ WGoto(w, "run")
  /\ UNCHANGED <<flags, queue, is_waiting, cv_mutex, waiting, submitted_tasks_,
                 completed_tasks_, submitterVars, batch, count, ran, ownerVars>>

RunTask(w) ==
  /\ wpc[w] = "run" /\ batch[w] # <<>>
  /\ ran' = ran \cup {Head(batch[w])}
  /\ batch' = [batch EXCEPT ![w] = Tail(@)]
  /\ UNCHANGED <<flags, data, stats, submitterVars, wpc, count, ownerVars>>

FinishBatch(w) ==
  /\ wpc[w] = "run" /\ batch[w] = <<>>
  /\ active_workers_' = active_workers_ - 1
  /\ completed_tasks_' = completed_tasks_ + count[w]
  /\ WGoto(w, "pop")
  /\ UNCHANGED <<flags, data, submitted_tasks_, submitterVars, batch, count, ran,
                 ownerVars>>

\* Condition variables may wake a thread for no reason.
SpuriousWake(w) ==
  /\ \E th \in waiting[w] : waiting' = [waiting EXCEPT ![w] = @ \ {th}]
  /\ UNCHANGED <<flags, queue, pending, is_waiting, cv_mutex, stats, submitterVars,
                 workerVars, ownerVars>>

-----------------------------------------------------------------------------

OwnerNext == Start \/ StartFails \/ Stop \/ RequestStop
             \/ (\E w \in Workers : NotifyWorker(w)) \/ Join

\* What a thread inside Submit does.
InSubmit(s) == TryPush(s) \/ Publish(s) \/ Count(s) \/ CheckWaiting(s) \/ Notify(s)
               \/ SlowLock(s) \/ SlowTry(s) \/ SlowWait(s) \/ SlowFinish(s)

WorkerMain(w) == PopOne(w) \/ PopEnd(w) \/ Idle(w) \/ Recheck(w) \/ RecheckStop(w)
                 \/ Wait(w) \/ Sleep(w) \/ NotifyProducers(w) \/ Account(w) \/ RunTask(w)
                 \/ FinishBatch(w)

Next ==
  \/ OwnerNext
  \/ \E s \in Submitters : InSubmit(s) \/ \E t \in Tasks : Submit(s, t)
  \/ \E w \in Workers : WorkerMain(w) \/ SpuriousWake(w)

Spec == Init /\ [][Next]_vars

\* The scheduler runs every thread, mutexes are handed out fairly, and an
\* owner that has begun to stop the pool goes on.  Nothing makes a caller
\* submit a task, the owner stop the pool, or a wake-up be spurious.
Fairness ==
  /\ \A s \in Submitters : WF_vars(InSubmit(s)) /\ SF_vars(SlowLock(s) \/ Notify(s))
  /\ \A w \in Workers : WF_vars(WorkerMain(w)) /\ SF_vars(Wait(w))
  /\ WF_vars(RequestStop \/ Join)
  /\ \A w \in Workers : SF_vars(NotifyWorker(w))

FairSpec == Spec /\ Fairness

-----------------------------------------------------------------------------
(* Properties.                                                             *)

\* Types: a batch never holds more than kBatchSize tasks and a queue never
\* more than kQueueCapacity cells.
TypeOK ==
  /\ accepting_tasks_ \in BOOLEAN /\ stop_requested_ \in BOOLEAN
  /\ queue \in [Workers -> Seq(Cell)] /\ \A w \in Workers : Len(queue[w]) <= Capacity
  /\ pending \in [Workers -> Int] /\ is_waiting \in [Workers -> BOOLEAN]
  /\ cv_mutex \in [Workers -> Submitters \cup Workers \cup {None}]
  /\ waiting \in [Workers -> SUBSET (Submitters \cup Workers)]
  /\ submitted_tasks_ \in Nat /\ completed_tasks_ \in Nat
  /\ active_workers_ \in 0 .. ThreadCount
  /\ spc \in [Submitters -> {"out", "try", "publish", "count", "check", "notify",
        "slow_lock", "slow_try", "slow_publish", "slow_count", "slow_wait", "slow_asleep"}]
  /\ task \in [Submitters -> Tasks \cup {None}]
  /\ idx \in [Submitters -> Workers] /\ attempt \in [Submitters -> 0 .. ThreadCount]
  /\ local_index \in [Submitters -> Workers]
  /\ wpc \in [Workers -> {"none", "pop", "idle", "recheck", "recheck_stop", "wait",
                          "sleep", "asleep", "notify", "account", "run", "exited"}]
  /\ batch \in [Workers -> Seq(Tasks)] /\ \A w \in Workers : Len(batch[w]) <= BatchSize
  /\ count \in [Workers -> 0 .. BatchSize]
  /\ phase \in {"new", "up", "stopping", "notifying", "joining", "joined"}
  /\ notified \subseteq Workers
  /\ todo \subseteq Tasks /\ accepted \subseteq Tasks /\ ran \subseteq Tasks

\* Where task t is now: with its caller, inside a Submit that has not queued
\* it, in a cell of a queue, in a worker's batch, or executed.
Queued == {"publish", "count", "check", "notify", "slow_publish", "slow_count"}

Places(t) ==
  {<<"caller">> : x \in todo \cap {t}}
  \cup {<<"submit", s>> : s \in {s \in Submitters : task[s] = t /\ spc[s] \notin Queued}}
  \cup (UNION {{<<"queue", w, i>> : i \in {i \in DOMAIN queue[w] : queue[w][i].value = t}} :
               w \in Workers})
  \cup (UNION {{<<"batch", w, i>> : i \in {i \in DOMAIN batch[w] : batch[w][i] = t}} :
               w \in Workers})
  \cup {<<"ran">> : x \in ran \cap {t}}

\* A task is never duplicated or dropped by the walk over the queues, the slow
\* path or the batches: it is in exactly one place.
TaskInOnePlace == \A t \in Tasks : Cardinality(Places(t)) = 1

\* Tasks that are in queue w, or on their way into it, and not counted yet.
Uncounted(w) ==
  Cardinality({s \in Submitters :
                 idx[s] = w /\ spc[s] \in {"publish", "count", "slow_publish", "slow_count"}})

\* Tasks that worker w has taken and not subtracted yet.
Taken(w) == IF wpc[w] \in {"pop", "notify", "account"} THEN Len(batch[w]) ELSE 0

\* The relaxed pending counter of a queue is its true length, corrected by
\* the pushes and pops that their thread has not yet counted.
PendingExact == \A w \in Workers : pending[w] = Len(queue[w]) + Taken(w) - Uncounted(w)

\* All counters are exact: pending, and in the same sense the statistics of
\* submitted and completed tasks.
CountersExact ==
  /\ PendingExact
  /\ submitted_tasks_ =
       Cardinality(accepted) + Cardinality({s \in Submitters : spc[s] \in {"check", "notify"}})
  /\ (\A w \in Workers : wpc[w] # "run") => completed_tasks_ = Cardinality(ran)

\* While the pool is up, a worker does not sleep on work: if it sleeps and has a
\* task to run, some thread is still inside Submit for that queue, whether on
\* its way to notify the worker or blocked on the slow path.
NoLostWakeup ==
  \A w \in Workers :
    accepting_tasks_ /\ w \in waiting[w] /\ Ready(queue[w])
    => \E s \in Submitters : idx[s] = w /\ spc[s] \notin {"out", "try", "publish"}

\* Stop followed by Join terminates: each worker sees the stop request,
\* whether it was running, about to sleep or asleep.
StopTerminates == (phase = "stopping") ~> (phase = "joined")

\* An accepted task is executed, unless the pool is stopped ("the thread pool
\* must ensure that no task is lost", thread_pool.cpp:113).
AcceptedTasksRun == \A t \in Tasks : (t \in accepted) ~> (t \in ran \/ stop_requested_)
=============================================================================
