------------------------ MODULE ThreadPoolInvariant ------------------------
(***************************************************************************)
(* The inductive invariant of the thread pool: the types of its variables, *)
(* who holds a mutex, who sleeps and who is due to wake whom.              *)
(***************************************************************************)
EXTENDS ThreadPool

\* The parts of TypeOK, with what the places in the code say about the locals.
OwnerType ==
  /\ accepting_tasks_ \in BOOLEAN /\ stop_requested_ \in BOOLEAN
  /\ phase \in {"new", "up", "stopping", "notifying", "joining", "joined"}
  /\ notified \subseteq Workers

QueueType == queue \in [Workers -> Seq(Cell)] /\ \A w \in Workers : Len(queue[w]) <= Capacity

SleepType ==
  /\ is_waiting \in [Workers -> BOOLEAN]
  /\ cv_mutex \in [Workers -> Submitters \cup Workers \cup {None}]
  /\ waiting \in [Workers -> SUBSET (Submitters \cup Workers)]

SubmitPlaces ==
  {"out", "try", "publish", "count", "check", "notify", "slow_lock", "slow_try",
   "slow_publish", "slow_count", "slow_wait", "slow_asleep"}

SubmitType ==
  /\ spc \in [Submitters -> SubmitPlaces] /\ task \in [Submitters -> Tasks \cup {None}]
  /\ idx \in [Submitters -> Workers] /\ local_index \in [Submitters -> Workers]
  /\ attempt \in [Submitters -> 0 .. ThreadCount]
  /\ todo \subseteq Tasks /\ accepted \subseteq Tasks
  /\ \A s \in Submitters : /\ spc[s] # "out" => task[s] \in Tasks
                           /\ spc[s] = "try" => attempt[s] < ThreadCount

WorkerPlaces ==
  {"none", "pop", "idle", "recheck", "recheck_stop", "wait", "sleep", "asleep", "notify",
   "account", "run", "exited"}

WorkerType ==
  /\ wpc \in [Workers -> WorkerPlaces]
  /\ batch \in [Workers -> Seq(Tasks)] /\ \A w \in Workers : Len(batch[w]) <= BatchSize
  /\ count \in [Workers -> 0 .. BatchSize]
  /\ ran \subseteq Tasks

CountType ==
  pending \in [Workers -> Int] /\ submitted_tasks_ \in Nat /\ completed_tasks_ \in Nat

Running == {w \in Workers : wpc[w] = "run"}

Active == active_workers_ = Cardinality(Running)

NotStarted == phase = "new" => \A w \in Workers : wpc[w] = "none"

\* The mutex of a worker is held between the predicate and the sleep, and by a
\* submitter on the slow path.
Mutex ==
  /\ \A w \in Workers : cv_mutex[w] = w <=> wpc[w] = "sleep"
  /\ \A s \in Submitters :
       spc[s] \in {"slow_try", "slow_publish", "slow_count", "slow_wait"} =>
         cv_mutex[idx[s]] = s

\* Asleep on the condition variable of a worker: the worker, and submitters
\* that wait for a free cell in its queue.
Sleepers ==
  \A w \in Workers :
    /\ w \in waiting[w] => wpc[w] = "asleep"
    /\ \A x \in waiting[w] : x # w => x \in Submitters /\ spc[x] = "slow_asleep" /\ idx[x] = w

\* A worker that may be asleep has said so.
Announced ==
  \A w \in Workers :
    wpc[w] \in {"recheck", "recheck_stop", "wait", "sleep", "asleep"} => is_waiting[w]

\* Submitter s has put a task into queue w or waits for a cell of it, and has yet
\* to notify the worker.
Due(s, w) ==
  /\ idx[s] = w
  /\ spc[s] \in {"count", "check", "notify", "slow_lock", "slow_try", "slow_publish",
                 "slow_count", "slow_wait", "slow_asleep"}

\* NoLostWakeup, from the moment the worker has found its queue empty.
Woken ==
  \A w \in Workers :
    accepting_tasks_ /\ (wpc[w] = "sleep" \/ w \in waiting[w]) /\ Ready(queue[w])
    => \E s \in Submitters : Due(s, w)

Batches ==
  \A w \in Workers :
    /\ batch[w] # <<>> => wpc[w] \in {"pop", "notify", "account", "run"}
    /\ wpc[w] \in {"notify", "account"} => count[w] = Len(batch[w])

IndInv ==
  /\ OwnerType /\ QueueType /\ SleepType /\ SubmitType /\ WorkerType /\ CountType /\ Active
  /\ NotStarted /\ Mutex /\ Sleepers /\ Announced /\ Woken /\ Batches /\ PendingExact

-----------------------------------------------------------------------------
(* Where the tasks are.                                                    *)

\* Task t lies with its caller, in a Submit, in a cell, in a batch, or has run.
Lies(t, k, a, i) ==
  \/ k = "caller" /\ a = None /\ i = 0 /\ t \in todo
  \/ k = "submit" /\ a \in Submitters /\ i = 0 /\ task[a] = t /\ spc[a] \notin Queued
  \/ k = "queue" /\ a \in Workers /\ i \in DOMAIN queue[a] /\ queue[a][i].value = t
  \/ k = "batch" /\ a \in Workers /\ i \in DOMAIN batch[a] /\ batch[a][i] = t
  \/ k = "ran" /\ a = None /\ i = 0 /\ t \in ran

\* Task t lies there and nowhere else.
OnlyAt(t, k, a, i) ==
  /\ Lies(t, k, a, i)
  /\ \A l, b, j : Lies(t, l, b, j) => l = k /\ b = a /\ j = i

\* What TaskInOnePlace says.
OneSpot == \A t \in Tasks : \E k, a, i : OnlyAt(t, k, a, i)

\* A task that a submitter holds is held by no other, is no longer to be
\* submitted and has not been accepted.
HeldOnce ==
  /\ \A s \in Submitters : spc[s] = "out" => task[s] = None
  /\ \A s \in Submitters : task[s] \notin todo /\ task[s] \notin accepted
  /\ \A s, r \in Submitters : task[s] = task[r] /\ task[s] # None => s = r
  /\ \A t \in todo : t \notin accepted

-----------------------------------------------------------------------------
(* The statistics.                                                         *)

\* Submitters that have counted their task and not returned.
Returning == {s \in Submitters : spc[s] \in {"check", "notify"}}

\* The tasks of the batches being run that have been run, each as the worker
\* and a number.
Done ==
  {p \in Workers \X (1 .. BatchSize) :
     wpc[p[1]] = "run" /\ p[2] <= count[p[1]] - Len(batch[p[1]])}

\* A batch being run holds what is left of the tasks counted in it.
Shrinks == \A w \in Workers : wpc[w] = "run" => Len(batch[w]) <= count[w]

SubmittedExact ==
  IsFiniteSet(accepted) /\ submitted_tasks_ = Cardinality(accepted) + Cardinality(Returning)

CompletedExact ==
  IsFiniteSet(ran) /\ Cardinality(ran) = completed_tasks_ + Cardinality(Done)

Tally == Shrinks /\ SubmittedExact /\ CompletedExact
=============================================================================
