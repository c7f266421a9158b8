------------------------- MODULE ThreadPoolProofs --------------------------
(***************************************************************************)
(* Proofs about the thread pool for any number of workers, submitters and  *)
(* tasks and any capacity: a worker never sleeps on work unless a thread   *)
(* inside Submit is still there to wake it, the pending counter of each    *)
(* queue is exact, also when Submit falls back to another queue, a task is *)
(* in one place and runs once, and the statistics are exact.               *)
(***************************************************************************)
EXTENDS ThreadPoolInvariant, TLAPS

-----------------------------------------------------------------------------
(* Where the tasks are.                                                    *)

\* The places are told apart by their kind.
LEMMA Kinds ==
  ASSUME NEW t, NEW k, NEW a, NEW i, Lies(t, k, a, i)
  PROVE  k \in {"caller", "submit", "queue", "batch", "ran"}
BY Zenon DEF Lies

\* Each step moves a task from one spot to another (SpotMoves), or none (SpotsStay),
\* and a submitter holds one task at most.
LEMMA NextTasks == IndInv /\ HeldOnce /\ OneSpot /\ [Next]_vars => HeldOnce' /\ OneSpot'
\* A step that moves no task.
<1>SpotsStay.
    ASSUME OneSpot, \A t \in Tasks : \A k, a, i : Lies(t, k, a, i)' <=> Lies(t, k, a, i)
    PROVE  OneSpot'
  <2> USE <1>SpotsStay
  <2> SUFFICES ASSUME NEW t \in Tasks PROVE \E k, a, i : OnlyAt(t, k, a, i)'
    BY Zenon DEF OneSpot
  <2>1. PICK k, a, i : OnlyAt(t, k, a, i)
    BY Zenon DEF OneSpot
  <2>2. OnlyAt(t, k, a, i)'
    BY Zenon, <2>1 DEF OnlyAt
  <2> QED  BY Zenon, <2>2

\* A step that takes task u from one place to another.
<1>SpotMoves.
    ASSUME OneSpot, NEW u \in Tasks, NEW k, NEW a, NEW i, NEW l, NEW b, NEW j,
           Lies(u, k, a, i), Lies(u, l, b, j)',
           \A m, c, n : Lies(u, m, c, n)' => \/ m = l /\ c = b /\ n = j
                                             \/ Lies(u, m, c, n) /\ ~(m = k /\ c = a /\ n = i),
           \A t \in Tasks : t # u => \A m, c, n : Lies(t, m, c, n)' <=> Lies(t, m, c, n)
    PROVE  OneSpot'
  <2> USE <1>SpotMoves
  <2> SUFFICES ASSUME NEW t \in Tasks PROVE \E m, c, n : OnlyAt(t, m, c, n)'
    BY Zenon DEF OneSpot
  <2>1. PICK m, c, n : OnlyAt(t, m, c, n)
    BY Zenon DEF OneSpot
  <2>2. CASE t = u
    <3>1. m = k /\ c = a /\ n = i
      BY Zenon, <2>1, <2>2 DEF OnlyAt
    <3>2. OnlyAt(t, l, b, j)'
      BY ZenonT(40), <2>1, <2>2, <3>1 DEF OnlyAt
    <3> QED  BY Zenon, <3>2
  <2>3. CASE t # u
    <3>1. OnlyAt(t, m, c, n)'
      BY Zenon, <2>1, <2>3 DEF OnlyAt
    <3> QED  BY Zenon, <3>1
  <2> QED  BY Zenon, <2>2, <2>3

\* Only the callers and the submitters can be told from before.
<1>SubmitterStays.
    ASSUME OneSpot, UNCHANGED <<todo, queue, batch, ran>>,
           \A s \in Submitters, t \in Tasks :
             (task'[s] = t /\ spc'[s] \notin Queued) <=> (task[s] = t /\ spc[s] \notin Queued)
    PROVE  OneSpot'
  <2> USE <1>SubmitterStays
  <2>1. ASSUME NEW t \in Tasks, NEW k, NEW a, NEW i
        PROVE  Lies(t, k, a, i)' <=> Lies(t, k, a, i)
    BY ZenonT(40) DEF Lies
  <2> QED  BY Zenon, <2>1, <1>SpotsStay

\* PopOne moves a task from the queue to the batch.
<1>PopMoves.
    ASSUME NEW w \in Workers, IndInv, OneSpot, PopOne(w)
    PROVE  OneSpot'
  <2> USE <1>PopMoves
  <2> SUFFICES ASSUME NEW t \in Tasks, NEW k, NEW a, NEW i, OnlyAt(t, k, a, i)
               PROVE  \E l, b, j : OnlyAt(t, l, b, j)'
    BY Zenon DEF OneSpot
  <2>1. /\ UNCHANGED <<todo, task, spc, ran>>
        /\ queue[w] # <<>>
        /\ batch' = [batch EXCEPT ![w] = Append(@, queue[w][1].value)]
        /\ queue' = [queue EXCEPT ![w] = Tail(@)]
    BY Zenon DEF PopOne, submitterVars, Ready
  <2>2. queue \in [Workers -> Seq(Cell)] /\ batch \in [Workers -> Seq(Tasks)]
    BY Zenon DEF IndInv, QueueType, WorkerType
  <2>3. PICK n, m : n = Len(queue[w]) /\ m = Len(batch[w])
    BY Zenon
  <2>4. /\ n \in Nat /\ n >= 1 /\ m \in Nat /\ DOMAIN queue[w] = 1 .. n /\ DOMAIN batch[w] = 1 .. m
        /\ DOMAIN queue'[w] = 1 .. n - 1 /\ DOMAIN batch'[w] = 1 .. m + 1
        /\ \A j \in 1 .. n - 1 : queue'[w][j] = queue[w][j + 1]
        /\ \A j \in 1 .. m : batch'[w][j] = batch[w][j]
        /\ batch'[w][m + 1] = queue[w][1].value
        /\ \A x \in Workers : x # w => queue'[x] = queue[x] /\ batch'[x] = batch[x]
    BY SMTT(30), <2>1, <2>2, <2>3
  <2>5. \A l, b, j : l \notin {"queue", "batch"} => (Lies(t, l, b, j)' <=> Lies(t, l, b, j))
    BY SMTT(30), <2>1 DEF Lies
  <2>6. \A l, b, j : b # w => (Lies(t, l, b, j)' <=> Lies(t, l, b, j))
    BY SMTT(30), <2>1, <2>4 DEF Lies
  <2>7. \A j : Lies(t, "queue", w, j)' <=> j \in 1 .. n - 1 /\ Lies(t, "queue", w, j + 1)
    BY SMTT(30), <2>4 DEF Lies
  <2>8. \A j : Lies(t, "batch", w, j)' <=>
                 \/ j \in 1 .. m /\ Lies(t, "batch", w, j)
                 \/ j = m + 1 /\ Lies(t, "queue", w, 1)
    BY SMTT(30), <2>4 DEF Lies
  <2>9. \A j : /\ Lies(t, "queue", w, j) => j \in 1 .. n
               /\ Lies(t, "batch", w, j) => j \in 1 .. m
    BY SMTT(30), <2>4 DEF Lies
  <2>10. CASE k = "queue" /\ a = w /\ i = 1
    <3>1. OnlyAt(t, "batch", w, m + 1)'
      BY SMTT(30), <2>4, <2>5, <2>6, <2>7, <2>8, <2>9, <2>10 DEF OnlyAt
    <3> QED  BY Zenon, <3>1
  <2>11. CASE k = "queue" /\ a = w /\ i # 1
    <3>1. /\ i \in 1 .. n /\ i - 1 \in 1 .. n - 1 /\ (i - 1) + 1 = i
          /\ \A j \in 1 .. n - 1 : j + 1 = i => j = i - 1
      BY SMTT(30), <2>4, <2>9, <2>11 DEF OnlyAt
    <3>2. Lies(t, "queue", w, i - 1)'
      BY Zenon, <2>7, <2>11, <3>1 DEF OnlyAt
    <3>3. ASSUME NEW l, NEW b, NEW j, Lies(t, l, b, j)' PROVE l = "queue" /\ b = w /\ j = i - 1
      <4>1. CASE b # w \/ l \notin {"queue", "batch"}
        BY Zenon, <2>5, <2>6, <2>11, <3>3, <4>1 DEF OnlyAt
      <4>2. CASE b = w /\ l = "queue"
        BY Zenon, <2>7, <2>11, <3>1, <3>3, <4>2 DEF OnlyAt
      <4>3. CASE b = w /\ l = "batch"
        BY SMTT(30), <2>8, <2>11, <3>3, <4>3 DEF OnlyAt
      <4> QED  BY Zenon, <4>1, <4>2, <4>3
    <3>4. OnlyAt(t, "queue", w, i - 1)'
      BY Zenon, <3>2, <3>3 DEF OnlyAt
    <3> QED  BY Zenon, <3>4
  <2>12. CASE ~(k = "queue" /\ a = w)
    <3>1. OnlyAt(t, k, a, i)'
      BY SMTT(30), <2>4, <2>5, <2>6, <2>7, <2>8, <2>9, <2>12 DEF OnlyAt
    <3> QED  BY Zenon, <3>1
  <2> QED  BY Zenon, <2>10, <2>11, <2>12

\* RunTask moves a task from the batch to those that ran.
<1>RunMoves.
    ASSUME NEW w \in Workers, IndInv, OneSpot, RunTask(w)
    PROVE  OneSpot'
  <2> USE <1>RunMoves
  <2> SUFFICES ASSUME NEW t \in Tasks, NEW k, NEW a, NEW i, OnlyAt(t, k, a, i)
               PROVE  \E l, b, j : OnlyAt(t, l, b, j)'
    BY Zenon DEF OneSpot
  <2>1. /\ UNCHANGED <<todo, task, spc, queue>>
        /\ batch[w] # <<>>
        /\ batch' = [batch EXCEPT ![w] = Tail(@)]
        /\ ran' = ran \cup {Head(batch[w])}
    BY Zenon DEF RunTask, submitterVars, data
  <2>2. batch \in [Workers -> Seq(Tasks)]
    BY Zenon DEF IndInv, WorkerType
  <2>3. PICK n : n = Len(batch[w])
    BY Zenon
  <2>4. /\ n \in Nat /\ n >= 1 /\ DOMAIN batch[w] = 1 .. n
        /\ DOMAIN batch'[w] = 1 .. n - 1 /\ \A j \in 1 .. n - 1 : batch'[w][j] = batch[w][j + 1]
        /\ Head(batch[w]) = batch[w][1]
        /\ \A x \in Workers : x # w => batch'[x] = batch[x]
    BY SMTT(30), <2>1, <2>2, <2>3
  <2>5. \A l, b, j : l \notin {"batch", "ran"} => (Lies(t, l, b, j)' <=> Lies(t, l, b, j))
    BY SMTT(30), <2>1 DEF Lies
  <2>6. \A b, j : b # w => (Lies(t, "batch", b, j)' <=> Lies(t, "batch", b, j))
    BY SMTT(30), <2>1, <2>4 DEF Lies
  <2>7. \A j : Lies(t, "batch", w, j)' <=> j \in 1 .. n - 1 /\ Lies(t, "batch", w, j + 1)
    BY SMTT(30), <2>4 DEF Lies
  <2>8. \A b, j : Lies(t, "ran", b, j)' <=>
                    \/ Lies(t, "ran", b, j)
                    \/ b = None /\ j = 0 /\ Lies(t, "batch", w, 1)
    BY SMTT(30), <2>1, <2>4 DEF Lies
  <2>9. \A j : Lies(t, "batch", w, j) => j \in 1 .. n
    BY SMTT(30), <2>4 DEF Lies
  <2>10. CASE k = "batch" /\ a = w /\ i = 1
    <3>1. OnlyAt(t, "ran", None, 0)'
      BY SMTT(30), <2>4, <2>5, <2>6, <2>7, <2>8, <2>9, <2>10 DEF OnlyAt
    <3> QED  BY Zenon, <3>1
  <2>11. CASE k = "batch" /\ a = w /\ i # 1
    <3>1. /\ i \in 1 .. n /\ i - 1 \in 1 .. n - 1 /\ (i - 1) + 1 = i
          /\ \A j \in 1 .. n - 1 : j + 1 = i => j = i - 1
      BY SMTT(30), <2>4, <2>9, <2>11 DEF OnlyAt
    <3>2. Lies(t, "batch", w, i - 1)'
      BY Zenon, <2>7, <2>11, <3>1 DEF OnlyAt
    <3>3. ASSUME NEW l, NEW b, NEW j, Lies(t, l, b, j)' PROVE l = "batch" /\ b = w /\ j = i - 1
      <4>1. CASE l \notin {"batch", "ran"} \/ (l = "batch" /\ b # w)
        BY Zenon, <2>5, <2>6, <2>11, <3>3, <4>1 DEF OnlyAt
      <4>2. CASE b = w /\ l = "batch"
        BY Zenon, <2>7, <2>11, <3>1, <3>3, <4>2 DEF OnlyAt
      <4>3. CASE l = "ran"
        BY SMTT(30), <2>8, <2>11, <3>3, <4>3 DEF OnlyAt
      <4> QED  BY Zenon, <4>1, <4>2, <4>3
    <3>4. OnlyAt(t, "batch", w, i - 1)'
      BY Zenon, <3>2, <3>3 DEF OnlyAt
    <3> QED  BY Zenon, <3>4
  <2>12. CASE ~(k = "batch" /\ a = w)
    <3>1. OnlyAt(t, k, a, i)'
      BY SMTT(30), <2>4, <2>5, <2>6, <2>7, <2>8, <2>9, <2>12 DEF OnlyAt
    <3> QED  BY Zenon, <3>1
  <2> QED  BY Zenon, <2>10, <2>11, <2>12

\* A submitter reserves a cell for its task, in TryPush and in SlowTry.
<1>PushMoves.
    ASSUME NEW s \in Submitters, IndInv, HeldOnce, OneSpot, UNCHANGED <<todo, task, batch, ran>>,
           spc[s] \notin Queued, spc[s] # "out", NEW p \in Queued, spc' = [spc EXCEPT ![s] = p],
           queue' = [queue EXCEPT ![idx[s]] = Reserved(@, s, task[s])]
    PROVE  OneSpot'
  <2> USE <1>PushMoves
  <2>0. PICK u, w : u = task[s] /\ w = idx[s]
    BY Zenon
  <2>1. /\ w \in Workers /\ u \in Tasks /\ spc \in [Submitters -> SubmitPlaces]
        /\ queue \in [Workers -> Seq(Cell)]
    BY Zenon, <2>0 DEF IndInv, SubmitType, QueueType
  <2>2. PICK n : n = Len(queue[w])
    BY Zenon
  <2>3. /\ n \in Nat /\ DOMAIN queue[w] = 1 .. n /\ DOMAIN queue'[w] = 1 .. n + 1
        /\ \A j \in 1 .. n : queue'[w][j] = queue[w][j]
        /\ queue'[w][n + 1].value = u
        /\ \A x \in Workers : x # w => queue'[x] = queue[x]
    BY SMTT(30), <2>0, <2>1, <2>2 DEF Reserved
  <2>4. /\ spc'[s] \in Queued /\ task' = task
        /\ \A r \in Submitters : r # s => spc'[r] = spc[r] /\ task[r] # u
    BY SMTT(30), <2>0, <2>1, PoolAssumption DEF HeldOnce
  <2>5. Lies(u, "submit", s, 0) /\ Lies(u, "queue", w, n + 1)'
    BY SMTT(30), <2>0, <2>1, <2>3, <2>4 DEF Lies
  <2>6. ASSUME NEW m, NEW c, NEW j, Lies(u, m, c, j)'
        PROVE  \/ m = "queue" /\ c = w /\ j = n + 1
               \/ Lies(u, m, c, j) /\ ~(m = "submit" /\ c = s /\ j = 0)
    BY SMTT(30), <2>0, <2>1, <2>3, <2>4, <2>6 DEF Lies
  <2>7. ASSUME NEW t \in Tasks, t # u, NEW m, NEW c, NEW j
        PROVE  Lies(t, m, c, j)' <=> Lies(t, m, c, j)
    <3>1. m = "submit" => (Lies(t, m, c, j)' <=> Lies(t, m, c, j))
      BY SMTT(30), <2>0, <2>1, <2>4, <2>7 DEF Lies
    <3>2. m = "queue" => (Lies(t, m, c, j)' <=> Lies(t, m, c, j))
      BY SMTT(30), <2>1, <2>3, <2>7 DEF Lies
    <3>3. m \notin {"submit", "queue"} => (Lies(t, m, c, j)' <=> Lies(t, m, c, j))
      BY SMTT(30) DEF Lies
    <3> QED  BY Zenon, <3>1, <3>2, <3>3
  <2> QED  BY Zenon, <2>1, <2>5, <2>6, <2>7, <1>SpotMoves

\* Submit moves a task from its caller into a submitter's hand.
<1>SubmitMoves.
    ASSUME NEW s \in Submitters, NEW t \in Tasks, IndInv, HeldOnce, OneSpot, Submit(s, t)
    PROVE  OneSpot'
  <2> USE <1>SubmitMoves
  <2>1. /\ UNCHANGED <<queue, batch, ran>>
        /\ spc[s] = "out" /\ t \in todo /\ todo' = todo \ {t}
        /\ task' = [task EXCEPT ![s] = t] /\ spc' = [spc EXCEPT ![s] = "try"]
    BY Zenon DEF Submit, Goto, data, workerVars
  <2>2. /\ spc \in [Submitters -> SubmitPlaces] /\ task \in [Submitters -> Tasks \cup {None}]
        /\ task[s] = None /\ None \notin Tasks
    BY Zenon, <2>1, PoolAssumption DEF IndInv, SubmitType, HeldOnce
  <2>3. /\ task'[s] = t /\ spc'[s] = "try" /\ spc'[s] \notin Queued
        /\ \A r \in Submitters : r # s => spc'[r] = spc[r] /\ task'[r] = task[r]
    BY SMTT(30), <2>1, <2>2 DEF Queued
  <2>4. Lies(t, "caller", None, 0) /\ Lies(t, "submit", s, 0)'
    BY SMTT(30), <2>1, <2>3 DEF Lies
  <2>5. ASSUME NEW m, NEW c, NEW j, Lies(t, m, c, j)'
        PROVE  \/ m = "submit" /\ c = s /\ j = 0
               \/ Lies(t, m, c, j) /\ ~(m = "caller" /\ c = None /\ j = 0)
    BY SMTT(30), <2>1, <2>3, <2>5 DEF Lies
  <2>6. ASSUME NEW x \in Tasks, x # t, NEW m, NEW c, NEW j
        PROVE  Lies(x, m, c, j)' <=> Lies(x, m, c, j)
    <3>1. x # task[s] /\ x # task'[s]
      BY SMTT(30), <2>2, <2>3, <2>6
    <3>2. m = "submit" => (Lies(x, m, c, j)' <=> Lies(x, m, c, j))
      BY SMTT(30), <2>3, <3>1 DEF Lies
    <3>3. m # "submit" => (Lies(x, m, c, j)' <=> Lies(x, m, c, j))
      BY SMTT(30), <2>1, <2>6 DEF Lies
    <3> QED  BY Zenon, <3>2, <3>3
  <2> QED  BY Zenon, <2>4, <2>5, <2>6, <1>SpotMoves

\* A Submit that gives up hands its task back to the caller.
<1>ReturnFalseMoves.
    ASSUME NEW s \in Submitters, IndInv, HeldOnce, OneSpot, UNCHANGED <<queue, batch, ran>>,
           ReturnFalse(s), spc[s] \notin Queued, spc[s] # "out"
    PROVE  OneSpot'
  <2> USE <1>ReturnFalseMoves
  <2>0. PICK t : t = task[s]
    BY Zenon
  <2>1. /\ todo' = todo \cup {t}
        /\ task' = [task EXCEPT ![s] = None] /\ spc' = [spc EXCEPT ![s] = "out"]
    BY Zenon, <2>0 DEF ReturnFalse, Goto
  <2>2. /\ spc \in [Submitters -> SubmitPlaces] /\ task \in [Submitters -> Tasks \cup {None}]
        /\ t \in Tasks /\ None \notin Tasks
    BY Zenon, <2>0, PoolAssumption DEF IndInv, SubmitType
  <2>3. /\ task'[s] = None
        /\ \A r \in Submitters : r # s => spc'[r] = spc[r] /\ task'[r] = task[r] /\ task[r] # t
    BY SMTT(30), <2>0, <2>1, <2>2 DEF HeldOnce
  <2>4. Lies(t, "submit", s, 0) /\ Lies(t, "caller", None, 0)'
    BY SMTT(30), <2>0, <2>1 DEF Lies
  <2>5. ASSUME NEW m, NEW c, NEW j, Lies(t, m, c, j)'
        PROVE  \/ m = "caller" /\ c = None /\ j = 0
               \/ Lies(t, m, c, j) /\ ~(m = "submit" /\ c = s /\ j = 0)
    BY SMTT(30), <2>0, <2>1, <2>2, <2>3, <2>5 DEF Lies
  <2>6. ASSUME NEW x \in Tasks, x # t, NEW m, NEW c, NEW j
        PROVE  Lies(x, m, c, j)' <=> Lies(x, m, c, j)
    <3>1. x # task[s] /\ x # task'[s]
      BY SMTT(30), <2>2, <2>0, <2>3, <2>6
    <3>2. m = "submit" => (Lies(x, m, c, j)' <=> Lies(x, m, c, j))
      BY SMTT(30), <2>3, <3>1 DEF Lies
    <3>3. m # "submit" => (Lies(x, m, c, j)' <=> Lies(x, m, c, j))
      BY SMTT(30), <2>1, <2>6 DEF Lies
    <3> QED  BY Zenon, <3>2, <3>3
  <2> QED  BY Zenon, <2>2, <2>4, <2>5, <2>6, <1>SpotMoves

\* A cell keeps its task when it is filled.
<1>PublishStays.
    ASSUME NEW s \in Submitters, IndInv, OneSpot, Publish(s)
    PROVE  OneSpot'
  <2> USE <1>PublishStays
  <2>1. /\ UNCHANGED <<todo, task, batch, ran>>
        /\ spc[s] \in {"publish", "slow_publish"}
        /\ queue' = [queue EXCEPT ![idx[s]] = Published(@, s)]
        /\ spc' = [spc EXCEPT ![s] = IF spc[s] = "publish" THEN "count" ELSE "slow_count"]
    BY Zenon DEF Publish, Goto, workerVars
  <2>2. /\ idx[s] \in Workers /\ spc \in [Submitters -> SubmitPlaces]
        /\ queue \in [Workers -> Seq(Cell)]
    BY Zenon DEF IndInv, SubmitType, QueueType
  <2>3. /\ spc[s] \in Queued /\ spc'[s] \in Queued
        /\ \A r \in Submitters : r # s => spc'[r] = spc[r]
    BY SMTT(30), <2>1, <2>2 DEF Queued
  <2>4. \A w \in Workers : /\ DOMAIN queue'[w] = DOMAIN queue[w]
                           /\ \A i \in DOMAIN queue[w] : queue'[w][i].value = queue[w][i].value
    <3>1. \A x \in Workers : x # idx[s] => queue'[x] = queue[x]
      BY SMTT(30), <2>1, <2>2
    <3>2. queue'[idx[s]] = Published(queue[idx[s]], s)
      BY SMTT(30), <2>1, <2>2
    <3>3. /\ DOMAIN queue'[idx[s]] = DOMAIN queue[idx[s]]
          /\ \A i \in DOMAIN queue[idx[s]] : queue'[idx[s]][i].value = queue[idx[s]][i].value
      BY SMTT(30), <2>2, <3>2 DEF Published, Cell
    <3> QED  BY Zenon, <3>1, <3>3
  <2>5. ASSUME NEW t \in Tasks, NEW k, NEW a, NEW i
        PROVE  Lies(t, k, a, i)' <=> Lies(t, k, a, i)
    <3>1. k = "submit" => (Lies(t, k, a, i)' <=> Lies(t, k, a, i))
      BY SMTT(30), <2>1, <2>3 DEF Lies
    <3>2. k = "queue" => (Lies(t, k, a, i)' <=> Lies(t, k, a, i))
      BY SMTT(30), <2>4 DEF Lies
    <3>3. k \notin {"submit", "queue"} => (Lies(t, k, a, i)' <=> Lies(t, k, a, i))
      BY SMTT(30), <2>1 DEF Lies
    <3> QED  BY Zenon, <3>1, <3>2, <3>3
  <2> QED  BY Zenon, <2>5, <1>SpotsStay

\* A step that leaves the tasks where they are.
<1>TasksStay.
    ASSUME HeldOnce, OneSpot, UNCHANGED <<task, todo, accepted, queue, batch, ran>>,
           \A r \in Submitters : /\ spc'[r] = "out" => spc[r] = "out"
                                 /\ spc'[r] \in Queued <=> spc[r] \in Queued
    PROVE  HeldOnce' /\ OneSpot'
  <2> USE <1>TasksStay
  <2>1. HeldOnce'
    BY Zenon DEF HeldOnce
  <2>2. OneSpot'
    BY Zenon, <1>SubmitterStays
  <2> QED  BY Zenon, <2>1, <2>2

\* Submit returns true.
<1>ReturnTrueStays.
    ASSUME NEW s \in Submitters, IndInv, HeldOnce, OneSpot, UNCHANGED <<queue, batch, ran>>,
           ReturnTrue(s), spc[s] \in Queued
    PROVE  HeldOnce' /\ OneSpot'
  <2> USE <1>ReturnTrueStays
  <2>1. /\ todo' = todo /\ accepted' = accepted \cup {task[s]}
        /\ task' = [task EXCEPT ![s] = None] /\ spc' = [spc EXCEPT ![s] = "out"]
    BY Zenon DEF ReturnTrue, Goto
  <2>2. /\ spc \in [Submitters -> SubmitPlaces] /\ task \in [Submitters -> Tasks \cup {None}]
        /\ todo \subseteq Tasks /\ accepted \subseteq Tasks /\ task[s] \in Tasks /\ None \notin Tasks
    BY SMTT(30), PoolAssumption DEF IndInv, SubmitType, Queued
  <2>3. /\ task'[s] = None /\ spc'[s] = "out"
        /\ \A r \in Submitters : r # s => spc'[r] = spc[r] /\ task'[r] = task[r]
    BY SMTT(30), <2>1, <2>2
  <2>4. HeldOnce'
    BY SMTT(30), <2>1, <2>2, <2>3 DEF HeldOnce
  <2>5. OneSpot'
    <3>1. \A r \in Submitters, t \in Tasks :
            (task'[r] = t /\ spc'[r] \notin Queued) <=> (task[r] = t /\ spc[r] \notin Queued)
      BY SMTT(30), <2>2, <2>3
    <3> QED  BY Zenon, <2>1, <3>1, <1>SubmitterStays
  <2> QED  BY Zenon, <2>4, <2>5

\* What the steps of a submitter do to the tasks.
<1>SubmitTasks.
    ASSUME NEW s \in Submitters, NEW t \in Tasks, IndInv, HeldOnce, OneSpot, Submit(s, t)
    PROVE  HeldOnce' /\ OneSpot'
  <2> USE <1>SubmitTasks
  <2>1. /\ spc[s] = "out" /\ t \in todo /\ todo' = todo \ {t} /\ accepted' = accepted
        /\ task' = [task EXCEPT ![s] = t] /\ spc' = [spc EXCEPT ![s] = "try"]
    BY Zenon DEF Submit, Goto
  <2>2. /\ spc \in [Submitters -> SubmitPlaces] /\ task \in [Submitters -> Tasks \cup {None}]
        /\ task[s] = None /\ None \notin Tasks
    BY Zenon, <2>1, PoolAssumption DEF IndInv, SubmitType, HeldOnce
  <2>3. /\ task'[s] = t /\ spc'[s] = "try"
        /\ \A r \in Submitters : r # s => spc'[r] = spc[r] /\ task'[r] = task[r]
    BY SMTT(30), <2>1, <2>2
  <2>4. HeldOnce'
    BY SMTT(30), <2>1, <2>2, <2>3 DEF HeldOnce
  <2> QED  BY Zenon, <2>4, <1>SubmitMoves

\* TryPush preserves HeldOnce and OneSpot.
<1>TryPushTasks.
    ASSUME NEW s \in Submitters, IndInv, HeldOnce, OneSpot, TryPush(s)
    PROVE  HeldOnce' /\ OneSpot'
  <2> USE <1>TryPushTasks
  <2>1. /\ UNCHANGED <<task, todo, accepted, batch, ran>> /\ spc[s] = "try"
        /\ spc[s] \notin Queued /\ spc[s] # "out" /\ "publish" \in Queued
        /\ "try" \notin Queued /\ "slow_lock" \notin Queued
    BY SMTT(30) DEF TryPush, workerVars, Queued
  <2>2. spc \in [Submitters -> SubmitPlaces]
    BY Zenon DEF IndInv, SubmitType
  <2>3. CASE ~Full(queue[idx[s]])
    <3>1. /\ queue' = [queue EXCEPT ![idx[s]] = Reserved(@, s, task[s])]
          /\ spc' = [spc EXCEPT ![s] = "publish"]
      BY Zenon, <2>3 DEF TryPush, Goto
    <3>2. OneSpot'
      BY Zenon, <2>1, <3>1, <1>PushMoves
    <3>3. \A r \in Submitters : spc'[r] = "out" => spc[r] = "out"
      BY SMTT(30), <2>2, <3>1
    <3>4. HeldOnce'
      BY Zenon, <2>1, <3>3 DEF HeldOnce
    <3> QED  BY Zenon, <3>2, <3>4
  <2>4. CASE Full(queue[idx[s]])
    <3>1. /\ queue' = queue
          /\ spc' = [spc EXCEPT ![s] = IF attempt'[s] = ThreadCount THEN "slow_lock" ELSE "try"]
      BY Zenon, <2>4 DEF TryPush, Goto
    <3>2. \A r \in Submitters : /\ spc'[r] = "out" => spc[r] = "out"
                                /\ spc'[r] \in Queued <=> spc[r] \in Queued
      BY SMTT(30), <2>1, <2>2, <3>1
    <3> QED  BY Zenon, <2>1, <3>1, <3>2, <1>TasksStay
  <2> QED  BY Zenon, <2>3, <2>4

\* Publish preserves HeldOnce and OneSpot.
<1>PublishTasks.
    ASSUME NEW s \in Submitters, IndInv, HeldOnce, OneSpot, Publish(s)
    PROVE  HeldOnce' /\ OneSpot'
  <2> USE <1>PublishTasks
  <2>1. /\ UNCHANGED <<task, todo, accepted>>
        /\ spc' = [spc EXCEPT ![s] = IF spc[s] = "publish" THEN "count" ELSE "slow_count"]
    BY Zenon DEF Publish, Goto
  <2>2. spc \in [Submitters -> SubmitPlaces]
    BY Zenon DEF IndInv, SubmitType
  <2>3. \A r \in Submitters : spc'[r] = "out" => spc[r] = "out"
    BY SMTT(30), <2>1, <2>2
  <2>4. HeldOnce'
    BY Zenon, <2>1, <2>3 DEF HeldOnce
  <2> QED  BY Zenon, <2>4, <1>PublishStays

\* Count preserves HeldOnce and OneSpot.
<1>CountTasks.
    ASSUME NEW s \in Submitters, IndInv, HeldOnce, OneSpot, Count(s)
    PROVE  HeldOnce' /\ OneSpot'
  <2> USE <1>CountTasks
  <2>1. /\ UNCHANGED <<task, todo, accepted, queue, batch, ran>>
        /\ spc[s] = "count" /\ spc' = [spc EXCEPT ![s] = "check"]
    BY Zenon DEF Count, Goto, workerVars
  <2>2. spc \in [Submitters -> SubmitPlaces]
    BY Zenon DEF IndInv, SubmitType
  <2>3. \A r \in Submitters : /\ spc'[r] = "out" => spc[r] = "out"
                              /\ spc'[r] \in Queued <=> spc[r] \in Queued
    BY SMTT(30), <2>1, <2>2 DEF Queued
  <2> QED  BY Zenon, <2>1, <2>3, <1>TasksStay

\* CheckWaiting preserves HeldOnce and OneSpot.
<1>CheckWaitingTasks.
    ASSUME NEW s \in Submitters, IndInv, HeldOnce, OneSpot, CheckWaiting(s)
    PROVE  HeldOnce' /\ OneSpot'
  <2> USE <1>CheckWaitingTasks
  <2>1. /\ UNCHANGED <<queue, batch, ran>>
        /\ spc[s] = "check" /\ "check" \in Queued /\ "notify" \in Queued
    BY SMTT(30) DEF CheckWaiting, workerVars, data, Queued
  <2>2. spc \in [Submitters -> SubmitPlaces]
    BY Zenon DEF IndInv, SubmitType
  <2>3. CASE is_waiting[idx[s]]
    <3>1. spc' = [spc EXCEPT ![s] = "notify"] /\ UNCHANGED <<task, todo, accepted>>
      BY Zenon, <2>3 DEF CheckWaiting, Goto
    <3>2. \A r \in Submitters : /\ spc'[r] = "out" => spc[r] = "out"
                                /\ spc'[r] \in Queued <=> spc[r] \in Queued
      BY SMTT(30), <2>1, <2>2, <3>1
    <3> QED  BY Zenon, <2>1, <3>1, <3>2, <1>TasksStay
  <2>4. CASE ~is_waiting[idx[s]]
    <3>1. ReturnTrue(s)
      BY Zenon, <2>4 DEF CheckWaiting
    <3> QED  BY Zenon, <2>1, <3>1, <1>ReturnTrueStays
  <2> QED  BY Zenon, <2>3, <2>4

\* Notify preserves HeldOnce and OneSpot.
<1>NotifyTasks.
    ASSUME NEW s \in Submitters, IndInv, HeldOnce, OneSpot, Notify(s)
    PROVE  HeldOnce' /\ OneSpot'
  <2> USE <1>NotifyTasks
  <2>1. UNCHANGED <<queue, batch, ran>> /\ ReturnTrue(s) /\ spc[s] = "notify"
    BY Zenon DEF Notify, workerVars
  <2>2. "notify" \in Queued
    BY DEF Queued
  <2> QED  BY Zenon, <2>1, <2>2, <1>ReturnTrueStays

\* SlowLock preserves HeldOnce and OneSpot.
<1>SlowLockTasks.
    ASSUME NEW s \in Submitters, IndInv, HeldOnce, OneSpot, SlowLock(s)
    PROVE  HeldOnce' /\ OneSpot'
  <2> USE <1>SlowLockTasks
  <2>1. /\ UNCHANGED <<task, todo, accepted, queue, batch, ran>>
        /\ spc[s] \in {"slow_lock", "slow_asleep"} /\ spc' = [spc EXCEPT ![s] = "slow_try"]
    BY SMTT(30) DEF SlowLock, Goto, workerVars
  <2>2. spc \in [Submitters -> SubmitPlaces]
    BY Zenon DEF IndInv, SubmitType
  <2>3. \A r \in Submitters : /\ spc'[r] = "out" => spc[r] = "out"
                              /\ spc'[r] \in Queued <=> spc[r] \in Queued
    BY SMTT(30), <2>1, <2>2 DEF Queued
  <2> QED  BY Zenon, <2>1, <2>3, <1>TasksStay

\* SlowTry preserves HeldOnce and OneSpot.
<1>SlowTryTasks.
    ASSUME NEW s \in Submitters, IndInv, HeldOnce, OneSpot, SlowTry(s)
    PROVE  HeldOnce' /\ OneSpot'
  <2> USE <1>SlowTryTasks
  <2>1. /\ UNCHANGED <<task, todo, accepted, batch, ran>> /\ spc[s] = "slow_try"
        /\ spc[s] \notin Queued /\ spc[s] # "out" /\ "slow_publish" \in Queued
        /\ "slow_wait" \notin Queued
    BY SMTT(30) DEF SlowTry, workerVars, Queued
  <2>2. spc \in [Submitters -> SubmitPlaces]
    BY Zenon DEF IndInv, SubmitType
  <2>3. CASE ~Full(queue[idx[s]])
    <3>1. /\ queue' = [queue EXCEPT ![idx[s]] = Reserved(@, s, task[s])]
          /\ spc' = [spc EXCEPT ![s] = "slow_publish"]
      BY Zenon, <2>3 DEF SlowTry, Goto
    <3>2. OneSpot'
      BY Zenon, <2>1, <3>1, <1>PushMoves
    <3>3. \A r \in Submitters : spc'[r] = "out" => spc[r] = "out"
      BY SMTT(30), <2>2, <3>1
    <3>4. HeldOnce'
      BY Zenon, <2>1, <3>3 DEF HeldOnce
    <3> QED  BY Zenon, <3>2, <3>4
  <2>4. CASE Full(queue[idx[s]])
    <3>1. queue' = queue /\ spc' = [spc EXCEPT ![s] = "slow_wait"]
      BY Zenon, <2>4 DEF SlowTry, Goto
    <3>2. \A r \in Submitters : /\ spc'[r] = "out" => spc[r] = "out"
                                /\ spc'[r] \in Queued <=> spc[r] \in Queued
      BY SMTT(30), <2>1, <2>2, <3>1
    <3> QED  BY Zenon, <2>1, <3>1, <3>2, <1>TasksStay
  <2> QED  BY Zenon, <2>3, <2>4

\* SlowWait preserves HeldOnce and OneSpot.
<1>SlowWaitTasks.
    ASSUME NEW s \in Submitters, IndInv, HeldOnce, OneSpot, SlowWait(s)
    PROVE  HeldOnce' /\ OneSpot'
  <2> USE <1>SlowWaitTasks
  <2>1. /\ UNCHANGED <<queue, batch, ran>> /\ spc[s] = "slow_wait"
        /\ spc[s] \notin Queued /\ spc[s] # "out" /\ "slow_asleep" \notin Queued
    BY SMTT(30) DEF SlowWait, workerVars, Queued
  <2>2. /\ spc \in [Submitters -> SubmitPlaces] /\ task \in [Submitters -> Tasks \cup {None}]
        /\ accepted \subseteq Tasks /\ todo \subseteq Tasks /\ None \notin Tasks /\ task[s] \in Tasks
    BY Zenon, <2>1, PoolAssumption DEF IndInv, SubmitType
  <2>3. CASE accepting_tasks_
    <3>1. spc' = [spc EXCEPT ![s] = "slow_asleep"] /\ UNCHANGED <<task, todo, accepted>>
      BY Zenon, <2>3 DEF SlowWait, Goto
    <3>2. \A r \in Submitters : /\ spc'[r] = "out" => spc[r] = "out"
                                /\ spc'[r] \in Queued <=> spc[r] \in Queued
      BY SMTT(30), <2>1, <2>2, <3>1
    <3> QED  BY Zenon, <2>1, <3>1, <3>2, <1>TasksStay
  <2>4. CASE ~accepting_tasks_
    <3>1. ReturnFalse(s)
      BY Zenon, <2>4 DEF SlowWait
    <3>2. /\ todo' = todo \cup {task[s]} /\ accepted' = accepted
          /\ task' = [task EXCEPT ![s] = None] /\ spc' = [spc EXCEPT ![s] = "out"]
      BY Zenon, <3>1 DEF ReturnFalse, Goto
    <3>3. /\ task'[s] = None /\ spc'[s] = "out"
          /\ \A r \in Submitters : r # s => spc'[r] = spc[r] /\ task'[r] = task[r]
      BY SMTT(30), <2>2, <3>2
    <3>4. HeldOnce'
      BY SMTT(30), <2>2, <3>2, <3>3 DEF HeldOnce
    <3> QED  BY Zenon, <2>1, <3>1, <3>4, <1>ReturnFalseMoves
  <2> QED  BY Zenon, <2>3, <2>4

\* SlowFinish preserves HeldOnce and OneSpot.
<1>SlowFinishTasks.
    ASSUME NEW s \in Submitters, IndInv, HeldOnce, OneSpot, SlowFinish(s)
    PROVE  HeldOnce' /\ OneSpot'
  <2> USE <1>SlowFinishTasks
  <2>1. UNCHANGED <<queue, batch, ran>> /\ ReturnTrue(s) /\ spc[s] = "slow_count"
    BY Zenon DEF SlowFinish, workerVars
  <2>2. "slow_count" \in Queued
    BY DEF Queued
  <2> QED  BY Zenon, <2>1, <2>2, <1>ReturnTrueStays

\* The steps of the owner and of a worker that takes or runs no task.
<1>OthersTasks.
    ASSUME HeldOnce, OneSpot, UNCHANGED <<submitterVars, queue, batch, ran>>
    PROVE  HeldOnce' /\ OneSpot'
  <2> USE <1>OthersTasks
  <2>1. UNCHANGED <<task, todo, accepted, queue, batch, ran, spc>>
    BY Zenon DEF submitterVars
  <2> QED  BY Zenon, <2>1, <1>TasksStay

<1> SUFFICES ASSUME IndInv, HeldOnce, OneSpot, [Next]_vars PROVE HeldOnce' /\ OneSpot'
  OBVIOUS
<1>1. CASE UNCHANGED vars
  <2>1. UNCHANGED <<submitterVars, queue, batch, ran>>
    BY Zenon, <1>1 DEF vars, data, workerVars
  <2> QED  BY Zenon, <2>1, <1>OthersTasks
<1>2. CASE OwnerNext
  <2>1. UNCHANGED <<submitterVars, queue, batch, ran>>
    BY Zenon, <1>2 DEF OwnerNext, Start, StartFails, Stop, RequestStop, NotifyWorker, Join, data,
       workerVars
  <2> QED  BY Zenon, <2>1, <1>OthersTasks
<1>3. ASSUME NEW s \in Submitters, InSubmit(s) PROVE HeldOnce' /\ OneSpot'
  BY Zenon, <1>3, <1>TryPushTasks, <1>PublishTasks, <1>CountTasks, <1>CheckWaitingTasks, <1>NotifyTasks,
     <1>SlowLockTasks, <1>SlowTryTasks, <1>SlowWaitTasks, <1>SlowFinishTasks DEF InSubmit
<1>4. ASSUME NEW s \in Submitters, NEW t \in Tasks, Submit(s, t) PROVE HeldOnce' /\ OneSpot'
  BY Zenon, <1>4, <1>SubmitTasks
<1>5. ASSUME NEW w \in Workers, WorkerMain(w) PROVE HeldOnce' /\ OneSpot'
  <2>1. CASE PopOne(w)
    <3>1. HeldOnce'
      BY Zenon, <2>1 DEF HeldOnce, PopOne, submitterVars
    <3> QED  BY Zenon, <2>1, <3>1, <1>PopMoves
  <2>2. CASE RunTask(w)
    <3>1. HeldOnce'
      BY Zenon, <2>2 DEF HeldOnce, RunTask, submitterVars
    <3> QED  BY Zenon, <2>2, <3>1, <1>RunMoves
  <2>3. CASE PopEnd(w) \/ Idle(w) \/ Recheck(w) \/ RecheckStop(w) \/ Wait(w) \/ Sleep(w)
    <3>1. UNCHANGED <<submitterVars, queue, batch, ran>>
      BY Zenon, <2>3 DEF PopEnd, Idle, Recheck, RecheckStop, Wait, Sleep, data
    <3> QED  BY Zenon, <3>1, <1>OthersTasks
  <2>4. CASE NotifyProducers(w) \/ Account(w) \/ FinishBatch(w)
    <3>1. UNCHANGED <<submitterVars, queue, batch, ran>>
      BY Zenon, <2>4 DEF NotifyProducers, Account, FinishBatch, data
    <3> QED  BY Zenon, <3>1, <1>OthersTasks
  <2> QED  BY Zenon, <1>5, <2>1, <2>2, <2>3, <2>4 DEF WorkerMain
<1>6. ASSUME NEW w \in Workers, SpuriousWake(w) PROVE HeldOnce' /\ OneSpot'
  <2>1. UNCHANGED <<submitterVars, queue, batch, ran>>
    BY Zenon, <1>6 DEF SpuriousWake, workerVars
  <2> QED  BY Zenon, <2>1, <1>OthersTasks
<1> QED  BY Zenon, <1>1, <1>2, <1>3, <1>4, <1>5, <1>6 DEF Next

\* At first every task is with its caller.
LEMMA InitTasks == Init => HeldOnce /\ OneSpot
<1> SUFFICES ASSUME Init PROVE HeldOnce /\ OneSpot
  OBVIOUS
<1>1. HeldOnce
  BY SMTT(30), PoolAssumption DEF Init, HeldOnce
<1>2. ASSUME NEW t \in Tasks PROVE OnlyAt(t, "caller", None, 0)
  BY SMTT(30), PoolAssumption DEF Init, OnlyAt, Lies
<1> QED  BY Zenon, <1>1, <1>2 DEF OneSpot

-----------------------------------------------------------------------------
(* The sizes of finite sets.  The library has these facts, and CountingHolds *)
(* below proves them from it; the lemmas in between assume them.             *)

\* The size of a finite set is a number.
SizeIsNat == \A S : IsFiniteSet(S) => Cardinality(S) \in Nat

\* A part of a finite set is finite, and no larger.
SubsetSize ==
  \A S : IsFiniteSet(S) =>
    \A T \in SUBSET S : IsFiniteSet(T) /\ Cardinality(T) <= Cardinality(S)

\* An element more, an element less.
OneMore ==
  \A S, x : IsFiniteSet(S) =>
    /\ IsFiniteSet(S \cup {x})
    /\ Cardinality(S \cup {x}) = IF x \in S THEN Cardinality(S) ELSE Cardinality(S) + 1

OneLess ==
  \A S, x : IsFiniteSet(S) =>
    /\ IsFiniteSet(S \ {x})
    /\ Cardinality(S \ {x}) = IF x \in S THEN Cardinality(S) - 1 ELSE Cardinality(S)

\* The sizes of the empty set, a singleton, an interval, a product and a difference.
EmptySize == IsFiniteSet({}) /\ Cardinality({}) = 0

SingletonSize == \A x : IsFiniteSet({x}) /\ Cardinality({x}) = 1

IntervalSize ==
  \A a, b \in Int : IsFiniteSet(a .. b) /\ Cardinality(a .. b) = IF a > b THEN 0 ELSE b - a + 1

ProductSize ==
  \A S, T : IsFiniteSet(S) /\ IsFiniteSet(T) =>
    IsFiniteSet(S \X T) /\ Cardinality(S \X T) = Cardinality(S) * Cardinality(T)

DifferenceSize ==
  \A S, T : IsFiniteSet(S) =>
    IsFiniteSet(S \ T) /\ Cardinality(S \ T) = Cardinality(S) - Cardinality(S \cap T)

Counting ==
  /\ SizeIsNat /\ SubsetSize /\ OneMore /\ OneLess
  /\ EmptySize /\ SingletonSize /\ IntervalSize /\ ProductSize /\ DifferenceSize

\* A task that lies in one spot is in one place.
LEMMA OneSpotOnePlace ==
  ASSUME Counting
  PROVE  OneSpot => TaskInOnePlace
<1> SUFFICES ASSUME OneSpot, NEW t \in Tasks PROVE Cardinality(Places(t)) = 1
  BY Zenon DEF TaskInOnePlace
<1>1. PICK k, a, i : OnlyAt(t, k, a, i)
  BY Zenon DEF OneSpot
<1>2. \E p : Places(t) = {p}
  <2> DEFINE C == {<<"caller">> : x \in todo \cap {t}}
             S == {<<"submit", s>> : s \in {s \in Submitters : task[s] = t /\ spc[s] \notin Queued}}
             Q == UNION {{<<"queue", w, j>> : j \in {j \in DOMAIN queue[w] : queue[w][j].value = t}} :
                         w \in Workers}
             B == UNION {{<<"batch", w, j>> : j \in {j \in DOMAIN batch[w] : batch[w][j] = t}} :
                         w \in Workers}
             R == {<<"ran">> : x \in ran \cap {t}}
  <2>1. Places(t) = C \cup S \cup Q \cup B \cup R
    BY Zenon DEF Places
  <2>2. \A x : x \in C <=> x = <<"caller">> /\ Lies(t, "caller", None, 0)
    BY SMTT(30) DEF Lies
  <2>3. \A x : x \in R <=> x = <<"ran">> /\ Lies(t, "ran", None, 0)
    BY SMTT(30) DEF Lies
  <2>4. \A x : x \in S <=> \E s : x = <<"submit", s>> /\ Lies(t, "submit", s, 0)
    BY SMTT(30) DEF Lies
  <2>5. \A x : x \in Q <=> \E w, j : x = <<"queue", w, j>> /\ Lies(t, "queue", w, j)
    BY SMTT(30) DEF Lies
  <2>6. \A x : x \in B <=> \E w, j : x = <<"batch", w, j>> /\ Lies(t, "batch", w, j)
    BY SMTT(30) DEF Lies
  <2> HIDE DEF C, S, Q, B, R
  <2>7. k \in {"caller", "submit", "queue", "batch", "ran"}
    BY Zenon, <1>1, Kinds DEF OnlyAt
  <2>8. CASE k = "caller"
    <3>1. C = {<<"caller">>} /\ S = {} /\ Q = {} /\ B = {} /\ R = {}
      BY SMTT(30), <1>1, <2>2, <2>3, <2>4, <2>5, <2>6, <2>8 DEF OnlyAt, Lies
    <3> QED  BY Zenon, <2>1, <3>1
  <2>9. CASE k = "submit"
    <3>1. C = {} /\ R = {}
      BY SMTT(30), <1>1, <2>2, <2>3, <2>9 DEF OnlyAt
    <3>2. Q = {} /\ B = {}
      BY SMTT(30), <1>1, <2>5, <2>6, <2>9 DEF OnlyAt
    <3>3. S = {<<"submit", a>>}
      BY SMTT(30), <1>1, <2>4, <2>9 DEF OnlyAt, Lies
    <3> QED  BY Zenon, <2>1, <3>1, <3>2, <3>3
  <2>10. CASE k = "queue"
    <3>1. C = {} /\ S = {} /\ Q = {<<"queue", a, i>>} /\ B = {} /\ R = {}
      BY SMTT(30), <1>1, <2>2, <2>3, <2>4, <2>5, <2>6, <2>10 DEF OnlyAt
    <3> QED  BY Zenon, <2>1, <3>1
  <2>11. CASE k = "batch"
    <3>1. C = {} /\ S = {} /\ Q = {} /\ B = {<<"batch", a, i>>} /\ R = {}
      BY SMTT(30), <1>1, <2>2, <2>3, <2>4, <2>5, <2>6, <2>11 DEF OnlyAt
    <3> QED  BY Zenon, <2>1, <3>1
  <2>12. CASE k = "ran"
    <3>1. C = {} /\ S = {} /\ Q = {} /\ B = {} /\ R = {<<"ran">>}
      BY SMTT(30), <1>1, <2>2, <2>3, <2>4, <2>5, <2>6, <2>12 DEF OnlyAt, Lies
    <3> QED  BY Zenon, <2>1, <3>1
  <2> QED  BY Zenon, <2>7, <2>8, <2>9, <2>10, <2>11, <2>12
<1> QED  BY Zenon, <1>2 DEF Counting, SingletonSize

-----------------------------------------------------------------------------
(* The queues, the counters and the sleepers.                              *)

\* The index of a queue is one of a worker.
LEMMA ModuloType == ASSUME NEW a \in Nat PROVE a % ThreadCount \in Workers
BY PoolAssumption DEF Workers

\* None is no thread, and no worker submits.
LEMMA NoneApart ==
  /\ \A w \in Workers : w # None /\ w \notin Submitters
  /\ None \notin Submitters
BY PoolAssumption DEF Workers

\* A count of submitters is a number.
LEMMA UncountedType ==
  ASSUME Counting
  PROVE  \A w : Uncounted(w) \in Nat
<1> SUFFICES ASSUME NEW w PROVE Uncounted(w) \in Nat
  OBVIOUS
<1> DEFINE S == {s \in Submitters :
                   idx[s] = w /\ spc[s] \in {"publish", "count", "slow_publish", "slow_count"}}
<1>1. IsFiniteSet(S)
  BY PoolAssumption DEF Counting, SubsetSize
<1> QED  BY Zenon, <1>1 DEF Counting, SizeIsNat, Uncounted

\* A submitter reserves a cell ...
LEMMA UncountedMore ==
  ASSUME Counting, NEW s \in Submitters, NEW u, idx[s] = u, idx' = idx,
         spc[s] \notin {"publish", "count", "slow_publish", "slow_count"},
         spc'[s] \in {"publish", "count", "slow_publish", "slow_count"},
         \A r \in Submitters : r # s => spc'[r] = spc[r]
  PROVE  /\ Uncounted(u)' = Uncounted(u) + 1
         /\ \A w : w # u => Uncounted(w)' = Uncounted(w)
<1> DEFINE P == {"publish", "count", "slow_publish", "slow_count"}
<1> DEFINE S(w) == {r \in Submitters : idx[r] = w /\ spc[r] \in P}
<1> DEFINE T(w) == {r \in Submitters : idx'[r] = w /\ spc'[r] \in P}
<1>1. T(u) = S(u) \cup {s} /\ s \notin S(u) /\ IsFiniteSet(S(u))
  BY PoolAssumption DEF Counting, SubsetSize
<1>2. ASSUME NEW w, w # u PROVE T(w) = S(w)
  BY <1>2
<1> HIDE DEF P
<1>3. \A w : Uncounted(w) = Cardinality(S(w)) /\ Uncounted(w)' = Cardinality(T(w))
  BY Zenon DEF Uncounted, P
<1> HIDE DEF S, T
<1>4. Cardinality(S(u) \cup {s}) = Cardinality(S(u)) + 1
  BY Zenon, <1>1 DEF Counting, OneMore
<1> QED  BY Zenon, <1>1, <1>2, <1>3, <1>4

\* ... and counts its task.
LEMMA UncountedLess ==
  ASSUME Counting, NEW s \in Submitters, NEW u, idx[s] = u, idx' = idx,
         spc[s] \in {"publish", "count", "slow_publish", "slow_count"},
         spc'[s] \notin {"publish", "count", "slow_publish", "slow_count"},
         \A r \in Submitters : r # s => spc'[r] = spc[r]
  PROVE  /\ Uncounted(u)' = Uncounted(u) - 1
         /\ \A w : w # u => Uncounted(w)' = Uncounted(w)
<1> DEFINE P == {"publish", "count", "slow_publish", "slow_count"}
<1> DEFINE S(w) == {r \in Submitters : idx[r] = w /\ spc[r] \in P}
<1> DEFINE T(w) == {r \in Submitters : idx'[r] = w /\ spc'[r] \in P}
<1>1. T(u) = S(u) \ {s} /\ s \in S(u) /\ IsFiniteSet(S(u))
  BY PoolAssumption DEF Counting, SubsetSize
<1>2. ASSUME NEW w, w # u PROVE T(w) = S(w)
  BY <1>2
<1> HIDE DEF P
<1>3. \A w : Uncounted(w) = Cardinality(S(w)) /\ Uncounted(w)' = Cardinality(T(w))
  BY Zenon DEF Uncounted, P
<1> HIDE DEF S, T
<1>4. Cardinality(S(u) \ {s}) = Cardinality(S(u)) - 1
  BY Zenon, <1>1 DEF Counting, OneLess
<1> QED  BY Zenon, <1>1, <1>2, <1>3, <1>4

\* The other steps of a submitter.
LEMMA UncountedSame ==
  ASSUME NEW s \in Submitters,
         spc[s] \in {"publish", "count", "slow_publish", "slow_count"} =>
           idx'[s] = idx[s] /\ spc'[s] \in {"publish", "count", "slow_publish", "slow_count"},
         spc'[s] \in {"publish", "count", "slow_publish", "slow_count"} =>
           spc[s] \in {"publish", "count", "slow_publish", "slow_count"},
         \A r \in Submitters : r # s => spc'[r] = spc[r] /\ idx'[r] = idx[r]
  PROVE  \A w : Uncounted(w)' = Uncounted(w)
<1> SUFFICES ASSUME NEW w PROVE Uncounted(w)' = Uncounted(w)
  OBVIOUS
<1> DEFINE P == {"publish", "count", "slow_publish", "slow_count"}
<1>1. {r \in Submitters : idx'[r] = w /\ spc'[r] \in P}
        = {r \in Submitters : idx[r] = w /\ spc[r] \in P}
  OBVIOUS
<1> QED  BY Zenon, <1>1 DEF Uncounted

\* The busy workers are at most all.
LEMMA RunningFinite ==
  ASSUME Counting
  PROVE  IsFiniteSet(Running) /\ Cardinality(Running) \in 0 .. ThreadCount
<1>1. IsFiniteSet(Workers) /\ Cardinality(Workers) = ThreadCount
  BY PoolAssumption DEF Counting, IntervalSize, Workers
<1>2. Running \subseteq Workers
  BY DEF Running
<1>3. IsFiniteSet(Running) /\ Cardinality(Running) <= ThreadCount
  BY <1>1, <1>2 DEF Counting, SubsetSize
<1> QED  BY <1>3, PoolAssumption DEF Counting, SizeIsNat

\* What the operations on a queue do to its cells.
LEMMA ReservedCells ==
  ASSUME NEW q \in Seq(Cell), NEW s \in Submitters, NEW v \in Tasks
  PROVE  /\ Reserved(q, s, v) \in Seq(Cell) /\ Len(Reserved(q, s, v)) = Len(q) + 1
         /\ Ready(Reserved(q, s, v)) => Ready(q)
<1> DEFINE c == [value |-> v, writer |-> s]
<1>1. c \in Cell /\ c.writer # None
  BY NoneApart DEF Cell
<1> HIDE DEF c
<1>2. Append(q, c) \in Seq(Cell) /\ Len(Append(q, c)) = Len(q) + 1
  BY <1>1
<1>3. Append(q, c)[1].writer = None => q # <<>> /\ q[1].writer = None
  BY <1>1
<1> QED  BY <1>2, <1>3 DEF Reserved, Ready, c

\* Publication keeps the number of cells.
LEMMA PublishedCells ==
  ASSUME NEW q \in Seq(Cell), NEW s \in Submitters
  PROVE  Published(q, s) \in Seq(Cell) /\ Len(Published(q, s)) = Len(q)
<1> DEFINE r(i) == IF q[i].writer = s THEN [q[i] EXCEPT !.writer = None] ELSE q[i]
<1>1. \A i \in 1 .. Len(q) : q[i] \in Cell
  OBVIOUS
<1>2. \A i \in 1 .. Len(q) : r(i) \in Cell
  BY <1>1 DEF Cell
<1> HIDE DEF r
<1>3. DOMAIN q = 1 .. Len(q)
  OBVIOUS
<1>4. Published(q, s) = [i \in 1 .. Len(q) |-> r(i)]
  BY Zenon, <1>3 DEF Published, r
<1>5. [i \in 1 .. Len(q) |-> r(i)] \in Seq(Cell)
  BY <1>2
<1> QED  BY <1>4, <1>5

\* The tail of a sequence.
LEMMA SeqTail ==
  ASSUME NEW S, NEW q \in Seq(S), q # <<>>
  PROVE  /\ Tail(q) \in Seq(S) /\ Len(Tail(q)) = Len(q) - 1 /\ Len(q) \in Nat
         /\ q[1] \in S /\ Head(q) \in S
OBVIOUS

\* The arithmetic of PendingExact: nothing changes, or one worker's terms do.
LEMMA PendingSame ==
  ASSUME PendingExact,
         \A v \in Workers : /\ pending'[v] = pending[v] /\ Len(queue'[v]) = Len(queue[v])
                            /\ Taken(v)' = Taken(v) /\ Uncounted(v)' = Uncounted(v)
  PROVE  PendingExact'
BY DEF PendingExact

\* The arithmetic of PendingExact when one worker's terms change.
LEMMA PendingStep ==
  ASSUME PendingExact, NEW u \in Workers,
         pending'[u] = Len(queue'[u]) + Taken(u)' - Uncounted(u)',
         \A v \in Workers : v # u =>
           /\ pending'[v] = pending[v] /\ Len(queue'[v]) = Len(queue[v])
           /\ Taken(v)' = Taken(v) /\ Uncounted(v)' = Uncounted(v)
  PROVE  PendingExact'
BY DEF PendingExact

\* Who is woken in place of the worker is a submitter that is still due.
LEMMA OtherSleeper ==
  ASSUME Sleepers, NEW w \in Workers, NEW th \in waiting[w], th # w
  PROVE  th \in Submitters /\ Due(th, w) /\ spc[th] = "slow_asleep"
BY DEF Sleepers, Due

-----------------------------------------------------------------------------
(* The steps of a thread inside Submit.                                    *)

\* Submit preserves IndInv.
LEMMA SubmitInv == \A s \in Submitters, t \in Tasks : IndInv /\ Submit(s, t) => IndInv'
<1> SUFFICES ASSUME NEW s \in Submitters, NEW t \in Tasks, IndInv, Submit(s, t) PROVE IndInv'
  BY Zenon
<1>1. OwnerType' /\ QueueType' /\ SleepType' /\ WorkerType' /\ CountType' /\ Active' /\
    NotStarted' /\ Announced' /\ Batches'
  BY DEF IndInv, Submit, flags, data, stats, workerVars, ownerVars, OwnerType, QueueType,
     SleepType, WorkerType, CountType, Active, NotStarted, Announced, Batches, Running
<1>2. SubmitType'
  <2>1. (local_index[s] + 1) % ThreadCount \in Workers /\ 0 < ThreadCount
    BY ModuloType, PoolAssumption DEF IndInv, SubmitType, Workers
  <2>2. spc' \in [Submitters -> SubmitPlaces] /\ task' \in [Submitters -> Tasks \cup {None}]
    BY DEF IndInv, Submit, Goto, SubmitType, SubmitPlaces
  <2>3. /\ idx' \in [Submitters -> Workers] /\ local_index' \in [Submitters -> Workers]
        /\ attempt' \in [Submitters -> 0 .. ThreadCount]
    BY <2>1, PoolAssumption DEF IndInv, Submit, SubmitType
  <2> QED  BY Zenon, <2>1, <2>2, <2>3 DEF IndInv, Submit, Goto, SubmitType
<1>3. Mutex'
  BY NoneApart DEF IndInv, Submit, Goto, data, workerVars, Mutex, SubmitType, SleepType,
     WorkerType
<1>4. Sleepers'
  BY NoneApart DEF IndInv, Submit, Goto, data, workerVars, Sleepers, SubmitType, SleepType,
     WorkerType
<1>5. Woken'
  BY ZenonT(40) DEF IndInv, Submit, Goto, flags, data, workerVars, Woken, OwnerType, SubmitType,
     QueueType, SleepType, WorkerType, Due
<1>6. PendingExact'
  <2>1. \A v \in Workers : Taken(v)' = Taken(v)
    BY Zenon DEF Taken, workerVars, Submit
  <2>2. \A v : Uncounted(v)' = Uncounted(v)
    BY UncountedSame DEF IndInv, SubmitType, Goto, Submit
  <2> QED  BY Zenon, <2>1, <2>2, PendingSame DEF IndInv, Submit, data
<1> QED  BY Zenon, <1>1, <1>2, <1>3, <1>4, <1>5, <1>6 DEF IndInv

\* TryPush preserves IndInv.
LEMMA TryPushInv ==
  ASSUME Counting
  PROVE  \A s \in Submitters : IndInv /\ TryPush(s) => IndInv'
<1> SUFFICES ASSUME NEW s \in Submitters, IndInv, TryPush(s) PROVE IndInv'
  BY Zenon
<1>1. OwnerType' /\ SleepType' /\ WorkerType' /\ CountType' /\ Active' /\ NotStarted' /\
    Announced' /\ Batches'
  BY DEF IndInv, TryPush, flags, stats, workerVars, ownerVars, OwnerType, SleepType,
     WorkerType, CountType, Active, NotStarted, Announced, Batches, Running
<1>2. QueueType'
  <2>1. idx[s] \in Workers /\ task[s] \in Tasks /\ queue[idx[s]] \in Seq(Cell)
    BY DEF IndInv, SubmitType, QueueType, TryPush
  <2>2. /\ Reserved(queue[idx[s]], s, task[s]) \in Seq(Cell)
        /\ ~Full(queue[idx[s]]) => Len(Reserved(queue[idx[s]], s, task[s])) <= Capacity
    BY <2>1, ReservedCells, PoolAssumption DEF IndInv, QueueType, Full
  <2> QED  BY Zenon, <2>1, <2>2 DEF IndInv, QueueType, TryPush
<1>3. SubmitType'
  <2>1. (idx[s] + 1) % ThreadCount \in Workers
    BY ModuloType DEF IndInv, SubmitType, Workers
  <2>2. attempt[s] + 1 \in 0 .. ThreadCount
    BY PoolAssumption DEF IndInv, SubmitType, TryPush
  <2>3. spc' \in [Submitters -> SubmitPlaces]
    BY DEF IndInv, TryPush, Goto, SubmitType, SubmitPlaces
  <2>4. idx' \in [Submitters -> Workers] /\ attempt' \in [Submitters -> 0 .. ThreadCount]
    BY Zenon, <2>1, <2>2 DEF IndInv, TryPush, SubmitType
  <2>5. spc'[s] = "try" => attempt'[s] < ThreadCount
    BY <2>2, PoolAssumption DEF IndInv, TryPush, Goto, SubmitType
  <2>6. \A r \in Submitters : r # s => spc'[r] = spc[r] /\ attempt'[r] = attempt[r]
    BY DEF IndInv, TryPush, Goto, SubmitType
  <2> QED  BY Zenon, <2>3, <2>4, <2>5, <2>6 DEF IndInv, TryPush, SubmitType
<1>4. Mutex'
  <2>1. \A r \in Submitters :
          spc'[r] \in {"slow_try", "slow_publish", "slow_count", "slow_wait"} =>
            spc'[r] = spc[r] /\ idx'[r] = idx[r]
    BY DEF IndInv, SubmitType, TryPush, Goto
  <2> QED  BY Zenon, <2>1 DEF IndInv, Mutex, TryPush, workerVars
<1>5. Sleepers'
  BY SMTT(30), NoneApart DEF IndInv, TryPush, Goto, workerVars, Sleepers, SubmitType, SleepType,
     WorkerType
<1>6. Woken'
  <2>1. idx[s] \in Workers /\ task[s] \in Tasks /\ queue[idx[s]] \in Seq(Cell)
    BY DEF IndInv, SubmitType, QueueType, TryPush
  <2>2. \A v \in Workers : Ready(queue'[v]) => Ready(queue[v])
    <3>1. \A v \in Workers : \/ queue'[v] = queue[v]
                             \/ v = idx[s] /\ queue'[v] = Reserved(queue[v], s, task[s])
      BY Zenon, <2>1 DEF IndInv, QueueType, TryPush
    <3> QED  BY <2>1, <3>1, ReservedCells
  <2>3. \A r \in Submitters, v \in Workers : Due(r, v) => Due(r, v)'
    BY DEF IndInv, SubmitType, Due, Goto, TryPush
  <2> QED  BY Zenon, <2>2, <2>3 DEF IndInv, Woken, TryPush, flags, workerVars
<1>7. PendingExact'
  <2> PICK u \in Workers : u = idx[s]
    BY DEF IndInv, SubmitType
  <2>1. \A v \in Workers : Taken(v)' = Taken(v)
    BY Zenon DEF Taken, workerVars, TryPush
  <2>2. CASE Full(queue[u])
    <3>1. \A v : Uncounted(v)' = Uncounted(v)
      BY <2>2, UncountedSame DEF IndInv, SubmitType, Goto, TryPush
    <3> QED  BY ZenonT(40), <2>1, <2>2, <3>1, PendingSame DEF IndInv, TryPush
  <2>3. CASE ~Full(queue[u])
    <3>1. /\ Uncounted(u)' = Uncounted(u) + 1
          /\ \A v : v # u => Uncounted(v)' = Uncounted(v)
      BY Zenon, <2>3, UncountedMore DEF IndInv, SubmitType, Goto, TryPush
    <3>2. u \in Workers /\ task[s] \in Tasks /\ queue[u] \in Seq(Cell)
      BY Zenon DEF IndInv, SubmitType, QueueType, TryPush
    <3>3. /\ Len(queue'[u]) = Len(queue[u]) + 1
          /\ \A v \in Workers : v # u => queue'[v] = queue[v]
      BY <2>3, <3>2, ReservedCells DEF IndInv, QueueType, TryPush
    <3>4. pending' = pending
      BY Zenon DEF TryPush
    <3> DEFINE p == pending[u]  l == Len(queue[u])
               k == Taken(u)    n == Uncounted(u)
    <3>5. p = l + k - n /\ l \in Nat /\ k \in Nat /\ n \in Nat
      BY <3>2, UncountedType DEF IndInv, PendingExact, WorkerType, Taken
    <3> HIDE DEF p, l, k, n
    <3>6. p = (l + 1) + k - (n + 1)
      BY <3>5
    <3>7. pending'[u] = Len(queue'[u]) + Taken(u)' - Uncounted(u)'
      BY ZenonT(40), <2>1, <3>1, <3>2, <3>3, <3>4, <3>6 DEF p, l, k, n
    <3> QED  BY ZenonT(40), <2>1, <3>1, <3>2, <3>3, <3>4, <3>7, PendingStep DEF IndInv
  <2> QED  BY <2>2, <2>3
<1> QED  BY <1>1, <1>2, <1>3, <1>4, <1>5, <1>6, <1>7 DEF IndInv

\* Publish preserves IndInv.
LEMMA PublishInv == \A s \in Submitters : IndInv /\ Publish(s) => IndInv'
<1> SUFFICES ASSUME NEW s \in Submitters, IndInv, Publish(s) PROVE IndInv'
  BY Zenon
<1>1. OwnerType' /\ SleepType' /\ WorkerType' /\ CountType' /\ Active' /\ NotStarted' /\
    Announced' /\ Batches'
  BY Zenon DEF IndInv, Publish, flags, stats, workerVars, ownerVars, OwnerType, SleepType,
     WorkerType, CountType, Active, NotStarted, Announced, Batches, Running
<1>2. QueueType'
  <2>1. /\ idx[s] \in Workers /\ Published(queue[idx[s]], s) \in Seq(Cell)
        /\ Len(Published(queue[idx[s]], s)) = Len(queue[idx[s]])
    BY Zenon, PublishedCells DEF IndInv, SubmitType, QueueType
  <2> QED  BY Zenon, <2>1 DEF IndInv, QueueType, Publish
<1>3. SubmitType'
  BY Zenon DEF IndInv, Publish, Goto, SubmitType, SubmitPlaces
<1>4. Mutex'
  BY Zenon, NoneApart
    DEF IndInv, Publish, Goto, workerVars, Mutex, SleepType, SubmitType, WorkerType
<1>5. Sleepers'
  BY Zenon, NoneApart DEF IndInv, Publish, Goto, workerVars, Sleepers, SubmitType, SleepType,
     WorkerType
<1>6. Woken'
  BY SMTT(30)
     DEF IndInv, Publish, Goto, flags, workerVars, Woken, OwnerType, SubmitType, QueueType,
     SleepType, WorkerType, Due
<1>7. PendingExact'
  <2>1. \A v \in Workers : Taken(v)' = Taken(v)
    BY ZenonT(40) DEF Taken, workerVars, Publish
  <2>2. \A v : Uncounted(v)' = Uncounted(v)
    BY Zenon, UncountedSame DEF IndInv, SubmitType, Goto, Publish
  <2>3. \A v \in Workers : Len(queue'[v]) = Len(queue[v])
    BY Zenon, PublishedCells DEF IndInv, QueueType, SubmitType, Publish
  <2> QED  BY Zenon, <2>1, <2>2, <2>3, PendingSame DEF IndInv, Publish
<1> QED  BY <1>1, <1>2, <1>3, <1>4, <1>5, <1>6, <1>7 DEF IndInv

\* Count preserves IndInv.
LEMMA CountInv ==
  ASSUME Counting
  PROVE  \A s \in Submitters : IndInv /\ Count(s) => IndInv'
<1> SUFFICES ASSUME NEW s \in Submitters, IndInv, Count(s) PROVE IndInv'
  BY Zenon
<1>1. OwnerType' /\ QueueType' /\ SleepType' /\ WorkerType' /\ Active' /\ NotStarted' /\
    Announced' /\ Batches'
  BY DEF IndInv, Count, CountPending, flags, workerVars, ownerVars, OwnerType, QueueType,
     SleepType, WorkerType, Active, NotStarted, Announced, Batches, Running
<1>2. SubmitType'
  BY DEF IndInv, Count, CountPending, Goto, SubmitType, SubmitPlaces
<1>3. CountType'
  BY SMTT(30) DEF IndInv, Count, CountPending, CountType, SubmitType
<1>4. Mutex'
  BY Zenon, NoneApart DEF IndInv, Count, CountPending, Goto, workerVars, Mutex, SleepType,
     SubmitType, WorkerType
<1>5. Sleepers'
  BY Zenon, NoneApart DEF IndInv, Count, CountPending, Goto, workerVars, Sleepers, SubmitType,
     SleepType, WorkerType
<1>6. Woken'
  BY SMTT(30)
     DEF IndInv, Count, CountPending, Goto, flags, workerVars, Woken, OwnerType, SubmitType,
     QueueType, SleepType, WorkerType, Due
<1>7. PendingExact'
  <2> PICK u \in Workers : u = idx[s]
    BY DEF IndInv, SubmitType
  <2>1. queue' = queue /\ \A v \in Workers : Taken(v)' = Taken(v)
    BY ZenonT(40) DEF Taken, workerVars, Count
  <2>2. /\ Uncounted(u)' = Uncounted(u) - 1
        /\ \A v : v # u => Uncounted(v)' = Uncounted(v)
    BY Zenon, UncountedLess DEF IndInv, SubmitType, Goto, Count
  <2>3. /\ pending'[u] = pending[u] + 1
        /\ \A v \in Workers : v # u => pending'[v] = pending[v]
    BY Zenon DEF IndInv, CountType, CountPending, Count
  <2> DEFINE p == pending[u]  l == Len(queue[u])
             k == Taken(u)    n == Uncounted(u)
  <2>4. p = l + k - n /\ l \in Nat /\ k \in Nat /\ n \in Nat
    BY UncountedType DEF IndInv, PendingExact, QueueType, WorkerType, Taken
  <2> HIDE DEF p, l, k, n
  <2>5. p + 1 = l + k - (n - 1)
    BY <2>4
  <2>6. pending'[u] = Len(queue'[u]) + Taken(u)' - Uncounted(u)'
    BY Zenon, <2>1, <2>2, <2>3, <2>5 DEF p, l, k, n
  <2> QED  BY Zenon, <2>1, <2>2, <2>3, <2>6, PendingStep DEF IndInv
<1> QED  BY Zenon, <1>1, <1>2, <1>3, <1>4, <1>5, <1>6, <1>7 DEF IndInv

\* CheckWaiting preserves IndInv.
LEMMA CheckWaitingInv == \A s \in Submitters : IndInv /\ CheckWaiting(s) => IndInv'
<1> SUFFICES ASSUME NEW s \in Submitters, IndInv, CheckWaiting(s) PROVE IndInv'
  BY Zenon
<1>1. OwnerType' /\ QueueType' /\ SleepType' /\ WorkerType' /\ CountType' /\ Active' /\
    NotStarted' /\ Announced' /\ Batches'
  BY Zenon DEF IndInv, CheckWaiting, flags, data, stats, workerVars, ownerVars, OwnerType,
     QueueType, SleepType, WorkerType, CountType, Active, NotStarted, Announced, Batches,
     Running
<1>2. SubmitType'
  BY SMTT(30) DEF IndInv, CheckWaiting, ReturnTrue, Goto, SubmitType, SubmitPlaces
<1>3. Mutex'
  BY SMTT(30), NoneApart DEF IndInv, CheckWaiting, ReturnTrue, Goto, data, workerVars, Mutex,
     SubmitType, SleepType, WorkerType
<1>4. Sleepers'
  BY NoneApart DEF IndInv, CheckWaiting, ReturnTrue, Goto, data, workerVars, Sleepers,
     SubmitType, SleepType, WorkerType
<1>5. Woken'
  <2>1. \A r \in Submitters, v \in Workers :
          Due(r, v) /\ (is_waiting[v] \/ r # s) => Due(r, v)'
    BY Zenon DEF IndInv, SubmitType, Due, CheckWaiting, ReturnTrue, Goto
  <2>2. \A v \in Workers : wpc[v] = "sleep" \/ v \in waiting[v] => is_waiting[v]
    BY DEF IndInv, Sleepers, Announced
  <2> QED  BY ZenonT(40), <2>1, <2>2 DEF IndInv, Woken, CheckWaiting, flags, data, workerVars
<1>6. PendingExact'
  <2>1. \A v \in Workers : Taken(v)' = Taken(v)
    BY ZenonT(40) DEF Taken, workerVars, CheckWaiting
  <2>2. \A v : Uncounted(v)' = Uncounted(v)
    BY Zenon, UncountedSame DEF IndInv, SubmitType, Goto, ReturnTrue, CheckWaiting
  <2> QED  BY Zenon, <2>1, <2>2, PendingSame DEF IndInv, CheckWaiting, data
<1> QED  BY Zenon, <1>1, <1>2, <1>3, <1>4, <1>5, <1>6 DEF IndInv

\* Notify preserves IndInv.
LEMMA NotifyInv == \A s \in Submitters : IndInv /\ Notify(s) => IndInv'
<1> SUFFICES ASSUME NEW s \in Submitters, IndInv, Notify(s) PROVE IndInv'
  BY Zenon
<1>1. OwnerType' /\ QueueType' /\ WorkerType' /\ CountType' /\ Active' /\ NotStarted' /\
    Announced' /\ Batches'
  BY Zenon DEF IndInv, Notify, flags, stats, workerVars, ownerVars, OwnerType, QueueType,
     WorkerType, CountType, Active, NotStarted, Announced, Batches, Running
<1>2. SleepType'
  BY DEF IndInv, Notify, NotifyOne, ReturnTrue, Goto, SleepType
<1>3. SubmitType'
  BY Zenon DEF IndInv, Notify, NotifyOne, ReturnTrue, Goto, SubmitType, SubmitPlaces
<1>4. Mutex'
  BY Zenon, NoneApart DEF IndInv, Notify, NotifyOne, ReturnTrue, Goto, workerVars, Mutex,
     SubmitType, SleepType, WorkerType
<1>5. Sleepers'
  <2>1. \A v \in Workers : waiting'[v] \subseteq waiting[v]
    BY DEF IndInv, SleepType, Notify, NotifyOne
  <2>2. \A r \in Submitters : spc[r] = "slow_asleep" => spc'[r] = spc[r] /\ idx'[r] = idx[r]
    BY DEF IndInv, SubmitType, Notify, ReturnTrue, Goto
  <2> QED  BY SMTT(30), <2>1, <2>2 DEF IndInv, Sleepers, Notify, workerVars
<1>6. Woken'
  <2> PICK u \in Workers : u = idx[s]
    BY DEF IndInv, SubmitType
  <2>1. \A r \in Submitters, v \in Workers : r # s /\ Due(r, v) => Due(r, v)'
    BY Zenon DEF IndInv, SubmitType, Due, Notify, ReturnTrue, Goto
  <2>2. wpc[u] # "sleep"
    BY Zenon, NoneApart DEF IndInv, SubmitType, Mutex, Notify
  <2>3. \A v \in Workers : v # u => waiting'[v] = waiting[v]
    BY Zenon DEF IndInv, SleepType, Notify, NotifyOne
  <2>4. ASSUME u \in waiting'[u]
        PROVE  \E r \in Submitters : Due(r, u)'
    <3>1. PICK th \in waiting[u] : waiting' = [waiting EXCEPT ![u] = @ \ {th}]
      BY Zenon, <2>2, <2>4 DEF IndInv, SleepType, Notify, NotifyOne
    <3>2. th # u
      BY Zenon, <2>2, <2>4, <3>1 DEF IndInv, SleepType
    <3>3. th \in Submitters /\ Due(th, u) /\ spc[th] = "slow_asleep"
      BY ZenonT(40), <2>2, <3>1, <3>2, OtherSleeper DEF IndInv
    <3>4. th # s
      BY Zenon, <3>3 DEF Notify
    <3> QED  BY Zenon, <2>1, <2>2, <3>3, <3>4
  <2>5. \A v \in Workers : v # u => ~Due(s, v)
    BY Zenon DEF Due
  <2> SUFFICES ASSUME NEW v \in Workers, accepting_tasks_', Ready(queue'[v]),
                      wpc'[v] = "sleep" \/ v \in waiting'[v]
               PROVE  \E r \in Submitters : Due(r, v)'
    BY Zenon DEF Woken
  <2>6. CASE v = u
    BY Zenon, <2>2, <2>4, <2>6 DEF Notify, workerVars
  <2>7. CASE v # u
    BY <2>1, <2>3, <2>5, <2>7 DEF IndInv, Woken, Notify, flags, workerVars
  <2> QED  BY Zenon, <2>6, <2>7
<1>7. PendingExact'
  <2>1. \A v \in Workers : Taken(v)' = Taken(v)
    BY ZenonT(40) DEF Taken, workerVars, Notify
  <2>2. \A v : Uncounted(v)' = Uncounted(v)
    BY Zenon, UncountedSame DEF IndInv, SubmitType, Goto, ReturnTrue, Notify
  <2> QED  BY Zenon, <2>1, <2>2, PendingSame DEF IndInv, Notify
<1> QED  BY Zenon, <1>1, <1>2, <1>3, <1>4, <1>5, <1>6, <1>7 DEF IndInv

\* SlowLock preserves IndInv.
LEMMA SlowLockInv == \A s \in Submitters : IndInv /\ SlowLock(s) => IndInv'
<1> SUFFICES ASSUME NEW s \in Submitters, IndInv, SlowLock(s) PROVE IndInv'
  BY Zenon
<1>1. OwnerType' /\ QueueType' /\ WorkerType' /\ CountType' /\ Active' /\ NotStarted' /\
    Announced' /\ Batches'
  BY Zenon DEF IndInv, SlowLock, flags, stats, workerVars, ownerVars, OwnerType, QueueType,
     WorkerType, CountType, Active, NotStarted, Announced, Batches, Running
<1>2. SleepType'
  BY ZenonT(40) DEF IndInv, SlowLock, Goto, SleepType
<1>3. SubmitType'
  BY Zenon DEF IndInv, SlowLock, Goto, SubmitType, SubmitPlaces
<1>4. Mutex'
  BY SMTT(30), NoneApart
    DEF IndInv, SlowLock, Goto, workerVars, Mutex, SleepType, SubmitType, WorkerType
<1>5. Sleepers'
  BY SMTT(30), NoneApart DEF IndInv, SlowLock, Goto, workerVars, Sleepers, SleepType, SubmitType,
     WorkerType
<1>6. Woken'
  BY DEF IndInv, SlowLock, Goto, flags, workerVars, Woken, OwnerType, SleepType, SubmitType,
     QueueType, WorkerType, Due
<1>7. PendingExact'
  <2>1. \A v \in Workers : Taken(v)' = Taken(v)
    BY ZenonT(40) DEF Taken, workerVars, SlowLock
  <2>2. \A v : Uncounted(v)' = Uncounted(v)
    BY ZenonT(40), UncountedSame DEF IndInv, SubmitType, Goto, SlowLock
  <2> QED  BY Zenon, <2>1, <2>2, PendingSame DEF IndInv, SlowLock
<1> QED  BY <1>1, <1>2, <1>3, <1>4, <1>5, <1>6, <1>7 DEF IndInv

\* SlowTry preserves IndInv.
LEMMA SlowTryInv ==
  ASSUME Counting
  PROVE  \A s \in Submitters : IndInv /\ SlowTry(s) => IndInv'
<1> SUFFICES ASSUME NEW s \in Submitters, IndInv, SlowTry(s) PROVE IndInv'
  BY Zenon
<1>1. OwnerType' /\ SleepType' /\ WorkerType' /\ CountType' /\ Active' /\ NotStarted' /\
    Announced' /\ Batches'
  BY SMTT(30) DEF IndInv, SlowTry, flags, stats, workerVars, ownerVars, OwnerType, SleepType,
     WorkerType, CountType, Active, NotStarted, Announced, Batches, Running
<1>2. QueueType'
  <2>1. idx[s] \in Workers /\ task[s] \in Tasks /\ queue[idx[s]] \in Seq(Cell)
    BY Zenon DEF IndInv, SubmitType, QueueType, SlowTry
  <2>2. /\ Reserved(queue[idx[s]], s, task[s]) \in Seq(Cell)
        /\ ~Full(queue[idx[s]]) => Len(Reserved(queue[idx[s]], s, task[s])) <= Capacity
    BY <2>1, ReservedCells, PoolAssumption DEF IndInv, QueueType, Full
  <2> QED  BY Zenon, <2>1, <2>2 DEF IndInv, QueueType, SlowTry
<1>3. SubmitType'
  BY Zenon DEF IndInv, SlowTry, Goto, SubmitType, SubmitPlaces
<1>4. Mutex'
  BY SMTT(30), NoneApart
    DEF IndInv, SlowTry, Goto, workerVars, Mutex, SleepType, SubmitType, WorkerType
<1>5. Sleepers'
  BY SMTT(30), NoneApart DEF IndInv, SlowTry, Goto, workerVars, Sleepers, SubmitType, SleepType,
     WorkerType
<1>6. Woken'
  <2>1. idx[s] \in Workers /\ task[s] \in Tasks /\ queue[idx[s]] \in Seq(Cell)
    BY DEF IndInv, SubmitType, QueueType, SlowTry
  <2>2. \A v \in Workers : Ready(queue'[v]) => Ready(queue[v])
    <3>1. \A v \in Workers : \/ queue'[v] = queue[v]
                             \/ v = idx[s] /\ queue'[v] = Reserved(queue[v], s, task[s])
      BY Zenon, <2>1 DEF IndInv, QueueType, SlowTry
    <3> QED  BY <2>1, <3>1, ReservedCells
  <2>3. \A r \in Submitters, v \in Workers : Due(r, v) => Due(r, v)'
    BY DEF IndInv, SubmitType, Due, Goto, SlowTry
  <2> QED  BY Zenon, <2>2, <2>3 DEF IndInv, Woken, SlowTry, flags, workerVars
<1>7. PendingExact'
  <2> PICK u \in Workers : u = idx[s]
    BY DEF IndInv, SubmitType
  <2>1. \A v \in Workers : Taken(v)' = Taken(v)
    BY Zenon DEF Taken, workerVars, SlowTry
  <2>2. CASE Full(queue[u])
    <3>1. \A v : Uncounted(v)' = Uncounted(v)
      BY Zenon, <2>2, UncountedSame DEF IndInv, SubmitType, Goto, SlowTry
    <3> QED  BY ZenonT(40), <2>1, <2>2, <3>1, PendingSame DEF IndInv, SlowTry
  <2>3. CASE ~Full(queue[u])
    <3>1. /\ Uncounted(u)' = Uncounted(u) + 1
          /\ \A v : v # u => Uncounted(v)' = Uncounted(v)
      BY Zenon, <2>3, UncountedMore DEF IndInv, SubmitType, Goto, SlowTry
    <3>2. u \in Workers /\ task[s] \in Tasks /\ queue[u] \in Seq(Cell)
      BY Zenon DEF IndInv, SubmitType, QueueType, SlowTry
    <3>3. /\ Len(queue'[u]) = Len(queue[u]) + 1
          /\ \A v \in Workers : v # u => queue'[v] = queue[v]
      BY SMTT(30), <2>3, <3>2, ReservedCells DEF IndInv, QueueType, SlowTry
    <3>4. pending' = pending
      BY Zenon DEF SlowTry
    <3> DEFINE p == pending[u]  l == Len(queue[u])
               k == Taken(u)    n == Uncounted(u)
    <3>5. p = l + k - n /\ l \in Nat /\ k \in Nat /\ n \in Nat
      BY <3>2, UncountedType DEF IndInv, PendingExact, WorkerType, Taken
    <3> HIDE DEF p, l, k, n
    <3>6. p = (l + 1) + k - (n + 1)
      BY <3>5
    <3>7. pending'[u] = Len(queue'[u]) + Taken(u)' - Uncounted(u)'
      BY SMTT(30), <2>1, <3>1, <3>2, <3>3, <3>4, <3>6 DEF p, l, k, n
    <3> QED  BY Zenon, <2>1, <3>1, <3>2, <3>3, <3>4, <3>7, PendingStep DEF IndInv
  <2> QED  BY <2>2, <2>3
<1> QED  BY <1>1, <1>2, <1>3, <1>4, <1>5, <1>6, <1>7 DEF IndInv

\* SlowWait preserves IndInv.
LEMMA SlowWaitInv == \A s \in Submitters : IndInv /\ SlowWait(s) => IndInv'
<1> SUFFICES ASSUME NEW s \in Submitters, IndInv, SlowWait(s) PROVE IndInv'
  BY Zenon
<1>1. OwnerType' /\ QueueType' /\ WorkerType' /\ CountType' /\ Active' /\ NotStarted' /\
    Announced' /\ Batches'
  BY Zenon DEF IndInv, SlowWait, flags, stats, workerVars, ownerVars, OwnerType, QueueType,
     WorkerType, CountType, Active, NotStarted, Announced, Batches, Running
<1>2. SleepType'
  BY DEF IndInv, SlowWait, SleepType, SubmitType
<1>3. SubmitType'
  BY SMTT(30) DEF IndInv, SlowWait, ReturnFalse, Goto, SubmitType, SubmitPlaces
<1>4. Mutex'
  BY SMTT(30), NoneApart DEF IndInv, SlowWait, ReturnFalse, Goto, workerVars, Mutex, SleepType,
     SubmitType, WorkerType
<1>5. Sleepers'
  <2>1. \A v \in Workers : \A x \in waiting'[v] : x \in waiting[v] \/ (x = s /\ v = idx[s])
    BY SMTT(30) DEF IndInv, SleepType, SubmitType, SlowWait
  <2>2. s \in waiting'[idx[s]] => spc'[s] = "slow_asleep"
    BY SMTT(30), NoneApart DEF IndInv, SleepType, SubmitType, SlowWait, ReturnFalse, Goto, Sleepers
  <2>3. \A r \in Submitters : r # s => spc'[r] = spc[r]
    BY DEF IndInv, SubmitType, SlowWait, ReturnFalse, Goto
  <2>4. spc[s] # "slow_asleep" /\ idx' = idx /\ wpc' = wpc
    BY DEF SlowWait, workerVars
  <2>5. \A v \in Workers : v # s
    BY NoneApart
  <2> QED  BY SMTT(30), <2>1, <2>2, <2>3, <2>4, <2>5 DEF IndInv, Sleepers
<1>6. Woken'
  <2>1. accepting_tasks_' => \A r \in Submitters, v \in Workers : Due(r, v) => Due(r, v)'
    BY Zenon DEF IndInv, SubmitType, Due, SlowWait, Goto, flags
  <2>2. \A v \in Workers : v \in waiting'[v] => v \in waiting[v]
    BY NoneApart DEF IndInv, SleepType, SubmitType, SlowWait
  <2> QED  BY ZenonT(40), <2>1, <2>2 DEF IndInv, Woken, SlowWait, flags, workerVars
<1>7. PendingExact'
  <2>1. \A v \in Workers : Taken(v)' = Taken(v)
    BY ZenonT(40) DEF Taken, workerVars, SlowWait
  <2>2. \A v : Uncounted(v)' = Uncounted(v)
    BY Zenon, UncountedSame DEF IndInv, SubmitType, Goto, ReturnFalse, SlowWait
  <2> QED  BY Zenon, <2>1, <2>2, PendingSame DEF IndInv, SlowWait
<1> QED  BY <1>1, <1>2, <1>3, <1>4, <1>5, <1>6, <1>7 DEF IndInv

\* SlowFinish preserves IndInv.
LEMMA SlowFinishInv ==
  ASSUME Counting
  PROVE  \A s \in Submitters : IndInv /\ SlowFinish(s) => IndInv'
<1> SUFFICES ASSUME NEW s \in Submitters, IndInv, SlowFinish(s) PROVE IndInv'
  BY Zenon
<1>0. OwnerType' /\ QueueType' /\ WorkerType' /\ Active'
  <2>1. OwnerType' /\ WorkerType'
    BY Zenon DEF IndInv, SlowFinish, flags, workerVars, ownerVars, OwnerType, WorkerType
  <2>2. QueueType'
    BY Zenon DEF IndInv, SlowFinish, QueueType
  <2>3. Active'
    BY Zenon DEF IndInv, SlowFinish, CountPending, workerVars, Active, Running
  <2> QED  BY <2>1, <2>2, <2>3
<1>1. NotStarted' /\ Announced' /\ Batches'
  BY SMTT(30) DEF IndInv, SlowFinish, CountPending, flags, workerVars, ownerVars, NotStarted,
     Announced, Batches, Running
<1>2. SleepType'
  BY ZenonT(40) DEF IndInv, SlowFinish, CountPending, NotifyOne, ReturnTrue, Goto, SleepType
<1>3. SubmitType'
  BY SMTT(30) DEF IndInv, SlowFinish, CountPending, NotifyOne, ReturnTrue, Goto, SubmitType,
     SubmitPlaces
<1>4. CountType'
  BY DEF IndInv, SlowFinish, CountPending, CountType, SubmitType
<1>5. Mutex'
  BY SMTT(30), NoneApart DEF IndInv, SlowFinish, CountPending, NotifyOne, ReturnTrue, Goto, workerVars,
     Mutex, SubmitType, SleepType, WorkerType
<1>6. Sleepers'
  BY SMTT(30), NoneApart DEF IndInv, SlowFinish, CountPending, NotifyOne, ReturnTrue, Goto, workerVars,
     Sleepers, SubmitType, SleepType, WorkerType
<1>7. Woken'
  <2> PICK u \in Workers : u = idx[s]
    BY DEF IndInv, SubmitType
  <2>1. \A r \in Submitters, v \in Workers : r # s /\ Due(r, v) => Due(r, v)'
    BY Zenon DEF IndInv, SubmitType, Due, SlowFinish, ReturnTrue, Goto
  <2>2. wpc[u] # "sleep"
    BY SMTT(30), NoneApart DEF IndInv, SubmitType, Mutex, SlowFinish
  <2>3. \A v \in Workers : v # u => waiting'[v] = waiting[v]
    BY ZenonT(40) DEF IndInv, SleepType, SlowFinish, NotifyOne
  <2>4. ASSUME u \in waiting'[u]
        PROVE  \E r \in Submitters : Due(r, u)'
    <3>1. PICK th \in waiting[u] : waiting' = [waiting EXCEPT ![u] = @ \ {th}]
      BY Zenon, <2>2, <2>4 DEF IndInv, SleepType, SlowFinish, NotifyOne
    <3>2. th # u
      BY SMTT(30), <2>2, <2>4, <3>1 DEF IndInv, SleepType
    <3>3. th \in Submitters /\ Due(th, u) /\ spc[th] = "slow_asleep"
      BY Zenon, <2>2, <3>1, <3>2, OtherSleeper DEF IndInv
    <3>4. th # s
      BY Zenon, <3>3 DEF SlowFinish
    <3> QED  BY <2>1, <2>2, <3>3, <3>4
  <2>5. \A v \in Workers : v # u => ~Due(s, v)
    BY DEF Due
  <2> SUFFICES ASSUME NEW v \in Workers, accepting_tasks_', Ready(queue'[v]),
                      wpc'[v] = "sleep" \/ v \in waiting'[v]
               PROVE  \E r \in Submitters : Due(r, v)'
    BY DEF Woken
  <2>6. CASE v = u
    BY ZenonT(40), <2>2, <2>4, <2>6 DEF SlowFinish, workerVars
  <2>7. CASE v # u
    BY Zenon, <2>1, <2>3, <2>5, <2>7 DEF IndInv, Woken, SlowFinish, flags, workerVars
  <2> QED  BY <2>6, <2>7
<1>8. PendingExact'
  <2> PICK u \in Workers : u = idx[s]
    BY DEF IndInv, SubmitType
  <2>1. queue' = queue /\ \A v \in Workers : Taken(v)' = Taken(v)
    BY ZenonT(40) DEF Taken, workerVars, SlowFinish
  <2>2. /\ Uncounted(u)' = Uncounted(u) - 1
        /\ \A v : v # u => Uncounted(v)' = Uncounted(v)
    BY SMTT(30), UncountedLess DEF IndInv, SubmitType, Goto, ReturnTrue, SlowFinish
  <2>3. /\ pending'[u] = pending[u] + 1
        /\ \A v \in Workers : v # u => pending'[v] = pending[v]
    BY ZenonT(40) DEF IndInv, CountType, CountPending, SlowFinish
  <2> DEFINE p == pending[u]  l == Len(queue[u])
             k == Taken(u)    n == Uncounted(u)
  <2>4. p = l + k - n /\ l \in Nat /\ k \in Nat /\ n \in Nat
    BY UncountedType DEF IndInv, PendingExact, QueueType, WorkerType, Taken
  <2> HIDE DEF p, l, k, n
  <2>5. p + 1 = l + k - (n - 1)
    BY <2>4
  <2>6. pending'[u] = Len(queue'[u]) + Taken(u)' - Uncounted(u)'
    BY <2>1, <2>2, <2>3, <2>5 DEF p, l, k, n
  <2> QED  BY Zenon, <2>1, <2>2, <2>3, <2>6, PendingStep DEF IndInv
<1> QED  BY Zenon, <1>0, <1>1, <1>2, <1>3, <1>4, <1>5, <1>6, <1>7, <1>8 DEF IndInv

-----------------------------------------------------------------------------
(* The steps of a worker.                                                  *)

\* PopOne preserves IndInv.
LEMMA PopOneInv ==
  ASSUME Counting
  PROVE  \A w \in Workers : IndInv /\ PopOne(w) => IndInv'
<1> SUFFICES ASSUME NEW w \in Workers, IndInv, PopOne(w) PROVE IndInv'
  BY SMTT(30)
<1>1. OwnerType' /\ SleepType' /\ SubmitType' /\ CountType' /\ Active' /\ NotStarted' /\ Mutex'
    /\ Sleepers' /\ Announced'
  BY DEF IndInv, PopOne, flags, stats, submitterVars, ownerVars, OwnerType, SleepType,
     SubmitType, CountType, Active, NotStarted, Mutex, Sleepers, Announced, Running
<1>2. QueueType'
  <2>1. queue[w] \in Seq(Cell) /\ queue[w] # <<>>
    BY DEF IndInv, QueueType, PopOne, Ready
  <2>2. Tail(queue[w]) \in Seq(Cell) /\ Len(Tail(queue[w])) <= Capacity
    BY <2>1, SeqTail, PoolAssumption DEF IndInv, QueueType
  <2> QED  BY <2>2 DEF IndInv, QueueType, PopOne
<1>3. WorkerType'
  <2>1. queue[w] \in Seq(Cell) /\ queue[w] # <<>>
    BY DEF IndInv, QueueType, PopOne, Ready
  <2>2. queue[w][1].value \in Tasks
    <3>1. queue[w][1] \in Cell
      BY SMTT(30), <2>1
    <3> QED  BY <3>1 DEF Cell
  <2>3. /\ Append(batch[w], queue[w][1].value) \in Seq(Tasks)
        /\ Len(Append(batch[w], queue[w][1].value)) <= BatchSize
    BY SMTT(30), <2>2, PoolAssumption DEF IndInv, WorkerType, PopOne
  <2> QED  BY <2>3 DEF IndInv, WorkerType, PopOne
<1>4. Woken'
  BY DEF IndInv, PopOne, flags, submitterVars, Woken, OwnerType, WorkerType, SubmitType,
     QueueType, SleepType, Due
<1>5. Batches'
  BY DEF IndInv, PopOne, Batches, WorkerType
<1>6. PendingExact'
  <2>1. \A v : Uncounted(v)' = Uncounted(v)
    BY Zenon DEF Uncounted, submitterVars, PopOne
  <2>2. /\ pending' = pending /\ Len(queue'[w]) = Len(queue[w]) - 1 /\ Taken(w)' = Taken(w) + 1
        /\ \A v \in Workers : v # w => queue'[v] = queue[v] /\ Taken(v)' = Taken(v)
    <3>1. queue[w] \in Seq(Cell) /\ queue[w] # <<>> /\ batch[w] \in Seq(Tasks)
      BY DEF IndInv, QueueType, WorkerType, PopOne, Ready
    <3>2. queue[w][1] \in Cell
      BY <3>1
    <3>3. /\ Len(queue'[w]) = Len(queue[w]) - 1 /\ Len(batch'[w]) = Len(batch[w]) + 1
          /\ \A v \in Workers : v # w => queue'[v] = queue[v] /\ batch'[v] = batch[v]
      BY SMTT(30), <3>1, <3>2, SeqTail DEF IndInv, QueueType, WorkerType, PopOne, Cell
    <3> QED  BY <3>3 DEF Taken, PopOne
  <2> DEFINE p == pending[w]  l == Len(queue[w])  k == Taken(w)  n == Uncounted(w)
  <2>3. p = l + k - n /\ l \in Nat /\ k \in Nat /\ n \in Nat
    BY UncountedType DEF IndInv, PendingExact, QueueType, WorkerType, Taken
  <2> HIDE DEF p, l, k, n
  <2>4. p = (l - 1) + (k + 1) - n
    BY <2>3
  <2>5. pending'[w] = Len(queue'[w]) + Taken(w)' - Uncounted(w)'
    BY <2>1, <2>2, <2>4 DEF p, l, k, n
  <2> QED  BY Zenon, <2>1, <2>2, <2>5, PendingStep DEF IndInv
<1> QED  BY <1>1, <1>2, <1>3, <1>4, <1>5, <1>6 DEF IndInv

\* PopEnd preserves IndInv.
LEMMA PopEndInv == \A w \in Workers : IndInv /\ PopEnd(w) => IndInv'
<1> SUFFICES ASSUME NEW w \in Workers, IndInv, PopEnd(w) PROVE IndInv'
  BY Zenon
<1>1. OwnerType' /\ QueueType' /\ SleepType' /\ SubmitType' /\ CountType'
  BY DEF IndInv, PopEnd, flags, data, stats, submitterVars, ownerVars, OwnerType, QueueType,
     SleepType, SubmitType, CountType
<1>2. WorkerType'
  BY DEF IndInv, PopEnd, WGoto, WorkerType, WorkerPlaces
<1>3. Active'
  BY ZenonT(40) DEF IndInv, PopEnd, WGoto, stats, Active, WorkerType, Running
<1>4. NotStarted'
  BY Zenon DEF IndInv, PopEnd, WGoto, ownerVars, NotStarted, WorkerType, OwnerType
<1>5. Mutex'
  BY Zenon, NoneApart
     DEF IndInv, PopEnd, WGoto, data, submitterVars, Mutex, WorkerType, SleepType,
     SubmitType
<1>6. Sleepers'
  BY NoneApart DEF IndInv, PopEnd, WGoto, data, submitterVars, Sleepers, WorkerType,
     SubmitType, SleepType
<1>7. Announced'
  BY Zenon DEF IndInv, PopEnd, WGoto, data, Announced, WorkerType, SleepType
<1>8. Woken'
  BY DEF IndInv, PopEnd, WGoto, flags, data, submitterVars, Woken, OwnerType, WorkerType,
     SubmitType, QueueType, SleepType, Due
<1>9. Batches'
  BY DEF IndInv, PopEnd, WGoto, Batches, WorkerType
<1>10. PendingExact'
  <2>1. \A v \in Workers : Taken(v)' = Taken(v)
    BY DEF IndInv, WorkerType, Batches, Taken, WGoto, PopEnd
  <2>2. \A v : Uncounted(v)' = Uncounted(v)
    BY Zenon DEF Uncounted, submitterVars, PopEnd
  <2> QED  BY Zenon, <2>1, <2>2, PendingSame DEF IndInv, PopEnd, data
<1> QED  BY ZenonT(40), <1>1, <1>2, <1>3, <1>4, <1>5, <1>6, <1>7, <1>8, <1>9, <1>10 DEF IndInv

\* Idle preserves IndInv.
LEMMA IdleInv == \A w \in Workers : IndInv /\ Idle(w) => IndInv'
<1> SUFFICES ASSUME NEW w \in Workers, IndInv, Idle(w) PROVE IndInv'
  BY Zenon
<1>1. OwnerType' /\ QueueType' /\ SubmitType' /\ CountType'
  BY DEF IndInv, Idle, flags, stats, submitterVars, ownerVars, OwnerType, QueueType,
     SubmitType, CountType
<1>2. SleepType'
  BY Zenon DEF IndInv, Idle, WGoto, SleepType
<1>3. WorkerType'
  BY Zenon DEF IndInv, Idle, WGoto, WorkerType, WorkerPlaces
<1>4. Active'
  BY Zenon DEF IndInv, Idle, WGoto, stats, Active, WorkerType, Running
<1>5. NotStarted'
  BY Zenon DEF IndInv, Idle, WGoto, ownerVars, NotStarted, OwnerType, WorkerType
<1>6. Mutex'
  BY SMTT(30), NoneApart DEF IndInv, Idle, WGoto, submitterVars, Mutex, SleepType, SubmitType, WorkerType
<1>7. Sleepers'
  BY SMTT(30), NoneApart DEF IndInv, Idle, WGoto, submitterVars, Sleepers, SubmitType, SleepType,
     WorkerType
<1>8. Announced'
  BY DEF IndInv, Idle, WGoto, Announced, SleepType, WorkerType
<1>9. Woken'
  <2>1. \A v \in Workers : wpc'[v] = "sleep" => wpc[v] = "sleep"
    BY DEF IndInv, WorkerType, WGoto, Idle
  <2>2. \A r, v : Due(r, v)' = Due(r, v)
    BY Zenon DEF Due, submitterVars, Idle
  <2> QED  BY Zenon, <2>1, <2>2 DEF IndInv, Woken, Idle, flags
<1>10. Batches'
  BY Zenon DEF IndInv, Idle, WGoto, Batches, WorkerType
<1>11. PendingExact'
  <2>1. \A v \in Workers : Taken(v)' = Taken(v)
    BY DEF IndInv, WorkerType, Batches, Taken, WGoto, Idle
  <2>2. \A v : Uncounted(v)' = Uncounted(v)
    BY Zenon DEF Uncounted, submitterVars, Idle
  <2> QED  BY Zenon, <2>1, <2>2, PendingSame DEF IndInv, Idle
<1> QED  BY ZenonT(40), <1>1, <1>2, <1>3, <1>4, <1>5, <1>6, <1>7, <1>8, <1>9, <1>10, <1>11 DEF IndInv

\* Recheck preserves IndInv.
LEMMA RecheckInv == \A w \in Workers : IndInv /\ Recheck(w) => IndInv'
<1> SUFFICES ASSUME NEW w \in Workers, IndInv, Recheck(w) PROVE IndInv'
  BY Zenon
<1>1. OwnerType' /\ QueueType' /\ SubmitType' /\ CountType'
  BY DEF IndInv, Recheck, flags, stats, submitterVars, ownerVars, OwnerType, QueueType,
     SubmitType, CountType
<1>2. SleepType'
  BY Zenon DEF IndInv, Recheck, WGoto, SleepType
<1>3. WorkerType'
  BY SMTT(30) DEF IndInv, Recheck, WGoto, WorkerType, WorkerPlaces
<1>4. Active'
  BY Zenon DEF IndInv, Recheck, WGoto, stats, Active, WorkerType, Running
<1>5. NotStarted'
  BY DEF IndInv, Recheck, WGoto, ownerVars, NotStarted, OwnerType, WorkerType
<1>6. Mutex'
  BY SMTT(30), NoneApart DEF IndInv, Recheck, WGoto, submitterVars, Mutex, SleepType, SubmitType,
     WorkerType
<1>7. Sleepers'
  BY NoneApart DEF IndInv, Recheck, WGoto, submitterVars, Sleepers, SubmitType, SleepType,
     WorkerType
<1>8. Announced'
  BY Zenon DEF IndInv, Recheck, WGoto, Announced, SleepType, WorkerType
<1>9. Woken'
  <2>1. \A v \in Workers : wpc'[v] = "sleep" => wpc[v] = "sleep"
    BY DEF IndInv, WorkerType, WGoto, Recheck
  <2>2. \A r, v : Due(r, v)' = Due(r, v)
    BY Zenon DEF Due, submitterVars, Recheck
  <2> QED  BY Zenon, <2>1, <2>2 DEF IndInv, Woken, Recheck, flags
<1>10. Batches'
  BY Zenon DEF IndInv, Recheck, WGoto, Batches, WorkerType
<1>11. PendingExact'
  <2>1. \A v \in Workers : Taken(v)' = Taken(v)
    BY DEF IndInv, WorkerType, Batches, Taken, WGoto, Recheck
  <2>2. \A v : Uncounted(v)' = Uncounted(v)
    BY ZenonT(40) DEF Uncounted, submitterVars, Recheck
  <2> QED  BY Zenon, <2>1, <2>2, PendingSame DEF IndInv, Recheck
<1> QED  BY SMTT(30), <1>1, <1>2, <1>3, <1>4, <1>5, <1>6, <1>7, <1>8, <1>9, <1>10, <1>11 DEF IndInv

\* RecheckStop preserves IndInv.
LEMMA RecheckStopInv == \A w \in Workers : IndInv /\ RecheckStop(w) => IndInv'
<1> SUFFICES ASSUME NEW w \in Workers, IndInv, RecheckStop(w) PROVE IndInv'
  BY Zenon
<1>1. OwnerType' /\ QueueType' /\ SubmitType' /\ CountType'
  BY DEF IndInv, RecheckStop, flags, stats, submitterVars, ownerVars, OwnerType, QueueType,
     SubmitType, CountType
<1>2. SleepType'
  BY Zenon DEF IndInv, RecheckStop, WGoto, SleepType
<1>3. WorkerType'
  BY Zenon DEF IndInv, RecheckStop, WGoto, WorkerType, WorkerPlaces
<1>4. Active'
  BY Zenon DEF IndInv, RecheckStop, WGoto, stats, Active, WorkerType, Running
<1>5. NotStarted'
  BY SMTT(30) DEF IndInv, RecheckStop, WGoto, ownerVars, NotStarted, OwnerType, WorkerType
<1>6. Mutex'
  BY SMTT(30), NoneApart DEF IndInv, RecheckStop, WGoto, submitterVars, Mutex, SleepType, SubmitType,
     WorkerType
<1>7. Sleepers'
  BY NoneApart DEF IndInv, RecheckStop, WGoto, submitterVars, Sleepers, SubmitType,
     SleepType, WorkerType
<1>8. Announced'
  BY Zenon DEF IndInv, RecheckStop, WGoto, Announced, SleepType, WorkerType
<1>9. Woken'
  <2>1. \A v \in Workers : wpc'[v] = "sleep" => wpc[v] = "sleep"
    BY DEF IndInv, WorkerType, WGoto, RecheckStop
  <2>2. \A r, v : Due(r, v)' = Due(r, v)
    BY Zenon DEF Due, submitterVars, RecheckStop
  <2> QED  BY Zenon, <2>1, <2>2 DEF IndInv, Woken, RecheckStop, flags
<1>10. Batches'
  BY ZenonT(40) DEF IndInv, RecheckStop, WGoto, Batches, WorkerType
<1>11. PendingExact'
  <2>1. \A v \in Workers : Taken(v)' = Taken(v)
    BY DEF IndInv, WorkerType, Batches, Taken, WGoto, RecheckStop
  <2>2. \A v : Uncounted(v)' = Uncounted(v)
    BY ZenonT(40) DEF Uncounted, submitterVars, RecheckStop
  <2> QED  BY Zenon, <2>1, <2>2, PendingSame DEF IndInv, RecheckStop
<1> QED  BY <1>1, <1>2, <1>3, <1>4, <1>5, <1>6, <1>7, <1>8, <1>9, <1>10, <1>11 DEF IndInv

\* Wait preserves IndInv.
LEMMA WaitInv == \A w \in Workers : IndInv /\ Wait(w) => IndInv'
<1> SUFFICES ASSUME NEW w \in Workers, IndInv, Wait(w) PROVE IndInv'
  BY Zenon
<1>1. OwnerType' /\ QueueType' /\ SubmitType' /\ CountType'
  BY DEF IndInv, Wait, flags, stats, submitterVars, ownerVars, OwnerType, QueueType,
     SubmitType, CountType
<1>2. SleepType'
  BY ZenonT(40) DEF IndInv, Wait, WGoto, SleepType
<1>3. WorkerType'
  BY Zenon DEF IndInv, Wait, WGoto, WorkerType, WorkerPlaces
<1>4. Active'
  BY ZenonT(40) DEF IndInv, Wait, WGoto, stats, Active, WorkerType, Running
<1>5. NotStarted'
  BY Zenon DEF IndInv, Wait, WGoto, ownerVars, NotStarted, OwnerType, WorkerType
<1>6. Mutex'
  <2>1. \A v \in Workers : cv_mutex'[v] = v <=> wpc'[v] = "sleep"
    BY NoneApart DEF IndInv, Mutex, SleepType, WorkerType, WGoto, Wait
  <2>2. \A v \in Workers : cv_mutex[v] # None => cv_mutex'[v] = cv_mutex[v]
    BY Zenon DEF IndInv, SleepType, Wait
  <2> QED  BY SMTT(30), <2>1, <2>2, NoneApart DEF IndInv, Mutex, SubmitType, Wait, submitterVars
<1>7. Sleepers'
  BY SMTT(30), NoneApart DEF IndInv, Wait, WGoto, submitterVars, Sleepers, SleepType, SubmitType,
     WorkerType
<1>8. Announced'
  BY DEF IndInv, Wait, WGoto, Announced, SleepType, WorkerType
<1>9. Woken'
  <2>1. \A v \in Workers : wpc'[v] = "sleep" => wpc[v] = "sleep" \/ ~Ready(queue[v])
    BY DEF IndInv, WorkerType, WGoto, Wait
  <2>2. \A r, v : Due(r, v)' = Due(r, v)
    BY Zenon DEF Due, submitterVars, Wait
  <2> QED  BY ZenonT(40), <2>1, <2>2 DEF IndInv, Woken, Wait, flags
<1>10. Batches'
  BY Zenon DEF IndInv, Wait, WGoto, Batches, WorkerType
<1>11. PendingExact'
  <2>1. \A v \in Workers : Taken(v)' = Taken(v)
    BY DEF IndInv, WorkerType, Batches, Taken, WGoto, Wait
  <2>2. \A v : Uncounted(v)' = Uncounted(v)
    BY ZenonT(40) DEF Uncounted, submitterVars, Wait
  <2> QED  BY Zenon, <2>1, <2>2, PendingSame DEF IndInv, Wait
<1> QED  BY <1>1, <1>2, <1>3, <1>4, <1>5, <1>6, <1>7, <1>8, <1>9, <1>10, <1>11 DEF IndInv

\* Sleep preserves IndInv.
LEMMA SleepInv == \A w \in Workers : IndInv /\ Sleep(w) => IndInv'
<1> SUFFICES ASSUME NEW w \in Workers, IndInv, Sleep(w) PROVE IndInv'
  BY Zenon
<1>1. OwnerType' /\ QueueType' /\ SubmitType' /\ CountType'
  BY DEF IndInv, Sleep, flags, stats, submitterVars, ownerVars, OwnerType, QueueType,
     SubmitType, CountType
<1>2. SleepType'
  BY DEF IndInv, Sleep, WGoto, SleepType
<1>3. WorkerType'
  BY DEF IndInv, Sleep, WGoto, WorkerType, WorkerPlaces
<1>4. Active'
  BY Zenon DEF IndInv, Sleep, WGoto, stats, Active, WorkerType, Running
<1>5. NotStarted'
  BY Zenon DEF IndInv, Sleep, WGoto, ownerVars, NotStarted, OwnerType, WorkerType
<1>6. Mutex'
  BY SMTT(30), NoneApart DEF IndInv, Sleep, WGoto, submitterVars, Mutex, SleepType, SubmitType,
     WorkerType
<1>7. Sleepers'
  BY NoneApart DEF IndInv, Sleep, WGoto, submitterVars, Sleepers, SleepType, SubmitType,
     WorkerType
<1>8. Announced'
  BY Zenon DEF IndInv, Sleep, WGoto, Announced, SleepType, WorkerType
<1>9. Woken'
  BY DEF IndInv, Sleep, WGoto, flags, submitterVars, Woken, OwnerType, SleepType, SubmitType,
     QueueType, WorkerType, Due
<1>10. Batches'
  BY DEF IndInv, Sleep, WGoto, Batches, WorkerType
<1>11. PendingExact'
  <2>1. \A v \in Workers : Taken(v)' = Taken(v)
    BY DEF IndInv, WorkerType, Batches, Taken, WGoto, Sleep
  <2>2. \A v : Uncounted(v)' = Uncounted(v)
    BY ZenonT(40) DEF Uncounted, submitterVars, Sleep
  <2> QED  BY ZenonT(40), <2>1, <2>2, PendingSame DEF IndInv, Sleep
<1> QED  BY <1>1, <1>2, <1>3, <1>4, <1>5, <1>6, <1>7, <1>8, <1>9, <1>10, <1>11 DEF IndInv

\* NotifyProducers preserves IndInv.
LEMMA NotifyProducersInv == \A w \in Workers : IndInv /\ NotifyProducers(w) => IndInv'
<1> SUFFICES ASSUME NEW w \in Workers, IndInv, NotifyProducers(w) PROVE IndInv'
  BY Zenon
<1>1. OwnerType' /\ QueueType' /\ SubmitType' /\ CountType'
  BY DEF IndInv, NotifyProducers, flags, stats, submitterVars, ownerVars, OwnerType,
     QueueType, SubmitType, CountType
<1>2. SleepType'
  BY DEF IndInv, NotifyProducers, WGoto, SleepType
<1>3. WorkerType'
  BY DEF IndInv, NotifyProducers, WGoto, WorkerType, WorkerPlaces
<1>4. Active'
  BY Zenon DEF IndInv, NotifyProducers, WGoto, stats, Active, WorkerType, Running
<1>5. NotStarted'
  BY Zenon DEF IndInv, NotifyProducers, WGoto, ownerVars, NotStarted, OwnerType, WorkerType
<1>6. Mutex'
  BY Zenon, NoneApart DEF IndInv, NotifyProducers, WGoto, submitterVars, Mutex, SleepType,
     SubmitType, WorkerType
<1>7. Sleepers'
  BY SMTT(30), NoneApart DEF IndInv, NotifyProducers, WGoto, submitterVars, Sleepers, SubmitType,
     SleepType, WorkerType
<1>8. Announced'
  BY SMTT(30) DEF IndInv, NotifyProducers, WGoto, Announced, SleepType, WorkerType
<1>9. Woken'
  BY DEF IndInv, NotifyProducers, WGoto, flags, submitterVars, Woken, OwnerType, SubmitType,
     QueueType, SleepType, WorkerType, Due
<1>10. Batches'
  BY DEF IndInv, NotifyProducers, WGoto, Batches, WorkerType
<1>11. PendingExact'
  <2>1. \A v \in Workers : Taken(v)' = Taken(v)
    BY DEF IndInv, WorkerType, Batches, Taken, WGoto, NotifyProducers
  <2>2. \A v : Uncounted(v)' = Uncounted(v)
    BY Zenon DEF Uncounted, submitterVars, NotifyProducers
  <2> QED  BY ZenonT(40), <2>1, <2>2, PendingSame DEF IndInv, NotifyProducers
<1> QED  BY <1>1, <1>2, <1>3, <1>4, <1>5, <1>6, <1>7, <1>8, <1>9, <1>10, <1>11 DEF IndInv

\* Account preserves IndInv.
LEMMA AccountInv ==
  ASSUME Counting
  PROVE  \A w \in Workers : IndInv /\ Account(w) => IndInv'
<1> SUFFICES ASSUME NEW w \in Workers, IndInv, Account(w) PROVE IndInv'
  BY Zenon
<1>1. OwnerType' /\ QueueType' /\ SleepType' /\ SubmitType'
  BY DEF IndInv, Account, flags, submitterVars, ownerVars, OwnerType, QueueType, SleepType,
     SubmitType
<1>2. WorkerType'
  BY DEF IndInv, Account, WGoto, WorkerType, WorkerPlaces
<1>3. CountType'
  BY DEF IndInv, Account, CountType, WorkerType
<1>4. Active'
  <2>1. Running' = Running \cup {w} /\ w \notin Running
    BY DEF IndInv, Account, WGoto, WorkerType, Running
  <2>2. Cardinality(Running \cup {w}) = Cardinality(Running) + 1
    BY ZenonT(40), <2>1, RunningFinite DEF Counting, OneMore
  <2> QED  BY Zenon, <2>1, <2>2 DEF IndInv, Active, Account
<1>5. NotStarted'
  BY Zenon DEF IndInv, Account, WGoto, ownerVars, NotStarted, OwnerType, WorkerType
<1>6. Mutex'
  BY Zenon, NoneApart DEF IndInv, Account, WGoto, submitterVars, Mutex, SleepType, SubmitType,
     WorkerType
<1>7. Sleepers'
  BY NoneApart DEF IndInv, Account, WGoto, submitterVars, Sleepers, SubmitType, SleepType,
     WorkerType
<1>8. Announced'
  BY Zenon DEF IndInv, Account, WGoto, Announced, SleepType, WorkerType
<1>9. Woken'
  BY DEF IndInv, Account, WGoto, flags, submitterVars, Woken, OwnerType, SubmitType,
     QueueType, SleepType, WorkerType, Due
<1>10. Batches'
  BY DEF IndInv, Account, WGoto, Batches, WorkerType
<1>11. PendingExact'
  <2>1. \A v : Uncounted(v)' = Uncounted(v)
    BY Zenon DEF Uncounted, submitterVars, Account
  <2>2. /\ pending'[w] = pending[w] - Taken(w) /\ queue' = queue /\ Taken(w)' = 0
        /\ \A v \in Workers : v # w => pending'[v] = pending[v] /\ Taken(v)' = Taken(v)
    BY DEF IndInv, CountType, WorkerType, Batches, Taken, WGoto, Account
  <2> DEFINE p == pending[w]  l == Len(queue[w])  k == Taken(w)  n == Uncounted(w)
  <2>3. p = l + k - n /\ l \in Nat /\ k \in Nat /\ n \in Nat
    BY UncountedType DEF IndInv, PendingExact, QueueType, WorkerType, Taken
  <2> HIDE DEF p, l, k, n
  <2>4. p - k = l + 0 - n
    BY <2>3
  <2>5. pending'[w] = Len(queue'[w]) + Taken(w)' - Uncounted(w)'
    BY Zenon, <2>1, <2>2, <2>4 DEF p, l, k, n
  <2> QED  BY ZenonT(40), <2>1, <2>2, <2>5, PendingStep DEF IndInv
<1> QED  BY ZenonT(40), <1>1, <1>2, <1>3, <1>4, <1>5, <1>6, <1>7, <1>8, <1>9, <1>10, <1>11
    DEF IndInv

\* RunTask preserves IndInv.
LEMMA RunTaskInv == \A w \in Workers : IndInv /\ RunTask(w) => IndInv'
<1> SUFFICES ASSUME NEW w \in Workers, IndInv, RunTask(w) PROVE IndInv'
  BY Zenon
<1>1. OwnerType' /\ QueueType' /\ SleepType' /\ SubmitType' /\ CountType' /\ Active' /\
    NotStarted' /\ Mutex' /\ Sleepers' /\ Announced' /\ Woken'
  BY DEF IndInv, RunTask, flags, data, stats, submitterVars, ownerVars, OwnerType, QueueType,
     SleepType, SubmitType, CountType, Active, NotStarted, Mutex, Sleepers, Announced, Woken,
     Due, Running
<1>2. WorkerType'
  <2>1. batch[w] \in Seq(Tasks) /\ batch[w] # <<>> /\ Len(batch[w]) <= BatchSize
    BY DEF IndInv, WorkerType, RunTask
  <2>2. /\ Tail(batch[w]) \in Seq(Tasks) /\ Head(batch[w]) \in Tasks
        /\ Len(Tail(batch[w])) = Len(batch[w]) - 1 /\ Len(batch[w]) \in Nat
    BY Zenon, <2>1, SeqTail
  <2>3. Len(Tail(batch[w])) <= BatchSize
    BY SMTT(30), <2>1, <2>2, PoolAssumption
  <2> QED  BY <2>2, <2>3 DEF IndInv, WorkerType, RunTask
<1>3. Batches'
  BY DEF IndInv, RunTask, Batches, WorkerType
<1>4. PendingExact'
  <2>1. \A v \in Workers : Taken(v)' = Taken(v)
    BY DEF IndInv, WorkerType, Batches, Taken, WGoto, RunTask
  <2>2. \A v : Uncounted(v)' = Uncounted(v)
    BY ZenonT(40) DEF Uncounted, submitterVars, RunTask
  <2> QED  BY ZenonT(40), <2>1, <2>2, PendingSame DEF IndInv, RunTask, data
<1> QED  BY ZenonT(40), <1>1, <1>2, <1>3, <1>4 DEF IndInv

\* FinishBatch preserves IndInv.
LEMMA FinishBatchInv ==
  ASSUME Counting
  PROVE  \A w \in Workers : IndInv /\ FinishBatch(w) => IndInv'
<1> SUFFICES ASSUME NEW w \in Workers, IndInv, FinishBatch(w) PROVE IndInv'
  BY Zenon
<1>1. OwnerType' /\ QueueType' /\ SleepType' /\ SubmitType'
  BY DEF IndInv, FinishBatch, flags, data, submitterVars, ownerVars, OwnerType, QueueType,
     SleepType, SubmitType
<1>2. WorkerType'
  BY DEF IndInv, FinishBatch, WGoto, WorkerType, WorkerPlaces
<1>3. CountType'
  BY DEF IndInv, FinishBatch, data, CountType, WorkerType
<1>4. Active'
  <2>1. Running' = Running \ {w} /\ w \in Running
    BY SMTT(30) DEF IndInv, FinishBatch, WGoto, WorkerType, Running
  <2>2. Cardinality(Running \ {w}) = Cardinality(Running) - 1
    BY ZenonT(40), <2>1, RunningFinite DEF Counting, OneLess
  <2> QED  BY ZenonT(40), <2>1, <2>2 DEF IndInv, Active, FinishBatch
<1>5. NotStarted'
  BY Zenon DEF IndInv, FinishBatch, WGoto, ownerVars, NotStarted, OwnerType, WorkerType
<1>6. Mutex'
  BY ZenonT(40), NoneApart DEF IndInv, FinishBatch, WGoto, data, submitterVars, Mutex, SleepType,
     SubmitType, WorkerType
<1>7. Sleepers'
  BY NoneApart DEF IndInv, FinishBatch, WGoto, data, submitterVars, Sleepers, SubmitType,
     SleepType, WorkerType
<1>8. Announced'
  BY Zenon DEF IndInv, FinishBatch, WGoto, data, Announced, SleepType, WorkerType
<1>9. Woken'
  BY DEF IndInv, FinishBatch, WGoto, flags, data, submitterVars, Woken, OwnerType,
     SubmitType, QueueType, SleepType, WorkerType, Due
<1>10. Batches'
  BY DEF IndInv, FinishBatch, WGoto, Batches, WorkerType
<1>11. PendingExact'
  <2>1. \A v \in Workers : Taken(v)' = Taken(v)
    BY DEF IndInv, WorkerType, Batches, Taken, WGoto, FinishBatch
  <2>2. \A v : Uncounted(v)' = Uncounted(v)
    BY Zenon DEF Uncounted, submitterVars, FinishBatch
  <2> QED  BY ZenonT(40), <2>1, <2>2, PendingSame DEF IndInv, FinishBatch, data
<1> QED  BY SMTT(30), <1>1, <1>2, <1>3, <1>4, <1>5, <1>6, <1>7, <1>8, <1>9, <1>10, <1>11 DEF IndInv

\* A step that leaves the queues and the threads alone: nothing but the flags
\* and the phase can have changed.
LEMMA ThreadsKept ==
  ASSUME IndInv, UNCHANGED <<data, stats, submitterVars, workerVars>>
  PROVE  /\ QueueType' /\ SleepType' /\ SubmitType' /\ WorkerType' /\ CountType' /\ Active'
         /\ Mutex' /\ Sleepers' /\ Announced' /\ Batches' /\ PendingExact'
<1> USE DEF data, stats, submitterVars, workerVars
<1>1. QueueType' /\ SleepType' /\ CountType'
  BY Zenon DEF IndInv, QueueType, SleepType, CountType
<1>2. SubmitType' /\ WorkerType'
  BY Zenon DEF IndInv, SubmitType, WorkerType
<1>3. Active'
  BY Zenon DEF IndInv, Active, Running
<1>4. Mutex' /\ Announced'
  BY Zenon DEF IndInv, Mutex, Announced
<1>5. Sleepers'
  <2>1. Sleepers
    BY Zenon DEF IndInv
  <2>2. waiting' = waiting /\ wpc' = wpc /\ spc' = spc /\ idx' = idx
    OBVIOUS
  <2> QED  BY ZenonT(40), <2>1, <2>2 DEF Sleepers
<1>6. Batches'
  BY Zenon DEF IndInv, Batches
<1>7. PendingExact'
  BY Zenon DEF IndInv, PendingExact, Taken, Uncounted
<1> QED  BY Zenon, <1>1, <1>2, <1>3, <1>4, <1>5, <1>6, <1>7

\* The same for a step that may also wake sleepers.
LEMMA OthersKept ==
  ASSUME IndInv,
         UNCHANGED <<queue, pending, is_waiting, cv_mutex, stats, submitterVars, workerVars>>
  PROVE  /\ QueueType' /\ SubmitType' /\ WorkerType' /\ CountType' /\ Active' /\ Mutex'
         /\ Announced' /\ Batches' /\ PendingExact'
<1> USE DEF stats, submitterVars, workerVars
<1>1. QueueType' /\ CountType'
  BY Zenon DEF IndInv, QueueType, CountType
<1>2. SubmitType' /\ WorkerType'
  BY Zenon DEF IndInv, SubmitType, WorkerType
<1>3. Active'
  BY Zenon DEF IndInv, Active, Running
<1>4. Mutex' /\ Announced' /\ Batches'
  BY Zenon DEF IndInv, Mutex, Announced, Batches
<1>5. PendingExact'
  BY Zenon DEF IndInv, PendingExact, Taken, Uncounted
<1> QED  BY Zenon, <1>1, <1>2, <1>3, <1>4, <1>5

\* SpuriousWake preserves IndInv.
LEMMA SpuriousWakeInv == \A w \in Workers : IndInv /\ SpuriousWake(w) => IndInv'
<1> SUFFICES ASSUME NEW w \in Workers, IndInv, SpuriousWake(w) PROVE IndInv'
  BY Zenon
<1>0. UNCHANGED <<queue, pending, is_waiting, cv_mutex, stats, submitterVars, workerVars>>
  BY Zenon DEF SpuriousWake
<1>1. /\ QueueType' /\ SubmitType' /\ WorkerType' /\ CountType' /\ Active' /\ Mutex'
      /\ Announced' /\ Batches' /\ PendingExact'
  BY Zenon, <1>0, OthersKept
<1>5. OwnerType' /\ NotStarted'
  BY Zenon DEF IndInv, SpuriousWake, flags, ownerVars, workerVars, OwnerType, NotStarted
<1>2. SleepType'
  BY Zenon DEF IndInv, SpuriousWake, SleepType
<1>3. Sleepers'
  BY SMTT(30), NoneApart
     DEF IndInv, SpuriousWake, submitterVars, workerVars, Sleepers, SubmitType,
     SleepType, WorkerType
<1>4. Woken'
  BY DEF IndInv, SpuriousWake, flags, submitterVars, workerVars, Woken, OwnerType,
     SubmitType, QueueType, SleepType, WorkerType, Due
<1> QED  BY Zenon, <1>1, <1>2, <1>3, <1>4, <1>5 DEF IndInv

-----------------------------------------------------------------------------
(* The thread that starts, stops and joins the pool.                       *)

\* Start preserves IndInv.
LEMMA StartInv == IndInv /\ Start => IndInv'
<1> SUFFICES ASSUME IndInv, Start PROVE IndInv'
  BY SMTT(30)
<1>1. QueueType' /\ SleepType' /\ SubmitType' /\ CountType'
  BY DEF IndInv, Start, data, stats, submitterVars, QueueType, SleepType, SubmitType, CountType
<1>2. OwnerType'
  BY Zenon DEF IndInv, Start, OwnerType
<1>3. WorkerType'
  BY DEF IndInv, Start, WorkerType, WorkerPlaces
<1>4. Active'
  <2>1. Running = {} /\ Running' = {}
    BY DEF IndInv, NotStarted, Start, Running
  <2> QED  BY Zenon, <2>1 DEF IndInv, Active, Start, stats
<1>5. NotStarted'
  BY SMTT(30) DEF IndInv, Start, NotStarted, OwnerType, WorkerType
<1>6. Mutex'
  BY ZenonT(40), NoneApart DEF IndInv, NotStarted, Start, data, submitterVars, Mutex
<1>7. Sleepers'
  BY ZenonT(40) DEF IndInv, NotStarted, Start, data, submitterVars, Sleepers
<1>8. Announced'
  BY DEF IndInv, Start, data, Announced, SleepType, WorkerType
<1>9. Woken'
  <2>1. \A w \in Workers : wpc'[w] = "pop" /\ w \notin waiting'[w]
    BY DEF IndInv, NotStarted, Start, data, Sleepers
  <2> QED  BY SMTT(30), <2>1 DEF Woken
<1>10. Batches'
  BY DEF IndInv, Start, Batches, WorkerType
<1>11. PendingExact'
  <2>1. \A v \in Workers : Taken(v)' = Taken(v)
    BY DEF IndInv, WorkerType, Batches, Taken, WGoto, NotStarted, Start
  <2>2. \A v : Uncounted(v)' = Uncounted(v)
    BY Zenon DEF Uncounted, submitterVars, Start
  <2> QED  BY Zenon, <2>1, <2>2, PendingSame DEF IndInv, Start, data
<1> QED  BY SMTT(30), <1>1, <1>2, <1>3, <1>4, <1>5, <1>6, <1>7, <1>8, <1>9, <1>10, <1>11 DEF IndInv

\* StartFails preserves IndInv.
LEMMA StartFailsInv == IndInv /\ StartFails => IndInv'
<1> SUFFICES ASSUME IndInv, StartFails PROVE IndInv'
  BY Zenon
<1>0. UNCHANGED <<data, stats, submitterVars, workerVars>>
  BY Zenon DEF StartFails
<1>1. /\ QueueType' /\ SleepType' /\ SubmitType' /\ WorkerType' /\ CountType' /\ Active'
      /\ Mutex' /\ Sleepers' /\ Announced' /\ Batches' /\ PendingExact'
  BY Zenon, <1>0, ThreadsKept
<1>2. OwnerType'
  BY DEF IndInv, StartFails, ownerVars, OwnerType
<1>3. NotStarted'
  BY Zenon DEF IndInv, StartFails, ownerVars, workerVars, NotStarted
<1>4. Woken'
  BY Zenon DEF IndInv, StartFails, data, submitterVars, workerVars, Woken, Due
<1> QED  BY Zenon, <1>1, <1>2, <1>3, <1>4 DEF IndInv

\* Stop preserves IndInv.
LEMMA StopInv == IndInv /\ Stop => IndInv'
<1> SUFFICES ASSUME IndInv, Stop PROVE IndInv'
  BY Zenon
<1>0. UNCHANGED <<data, stats, submitterVars, workerVars>>
  BY Zenon DEF Stop
<1>1. /\ QueueType' /\ SleepType' /\ SubmitType' /\ WorkerType' /\ CountType' /\ Active'
      /\ Mutex' /\ Sleepers' /\ Announced' /\ Batches' /\ PendingExact'
  BY Zenon, <1>0, ThreadsKept
<1>2. OwnerType'
  BY Zenon DEF IndInv, Stop, OwnerType
<1>3. NotStarted'
  BY Zenon DEF IndInv, Stop, workerVars, NotStarted, OwnerType, WorkerType
<1>4. Woken'
  BY Zenon DEF Stop, Woken
<1> QED  BY Zenon, <1>1, <1>2, <1>3, <1>4 DEF IndInv

\* RequestStop preserves IndInv.
LEMMA RequestStopInv == IndInv /\ RequestStop => IndInv'
<1> SUFFICES ASSUME IndInv, RequestStop PROVE IndInv'
  BY Zenon
<1>0. UNCHANGED <<data, stats, submitterVars, workerVars>>
  BY Zenon DEF RequestStop
<1>1. /\ QueueType' /\ SleepType' /\ SubmitType' /\ WorkerType' /\ CountType' /\ Active'
      /\ Mutex' /\ Sleepers' /\ Announced' /\ Batches' /\ PendingExact'
  BY Zenon, <1>0, ThreadsKept
<1>2. OwnerType'
  BY DEF IndInv, RequestStop, OwnerType
<1>3. NotStarted'
  BY DEF RequestStop, NotStarted
<1>4. Woken'
  BY Zenon DEF IndInv, RequestStop, data, submitterVars, workerVars, Woken, Due
<1> QED  BY Zenon, <1>1, <1>2, <1>3, <1>4 DEF IndInv

\* NotifyWorker preserves IndInv.
LEMMA NotifyWorkerInv == \A w \in Workers : IndInv /\ NotifyWorker(w) => IndInv'
<1> SUFFICES ASSUME NEW w \in Workers, IndInv, NotifyWorker(w) PROVE IndInv'
  BY Zenon
<1>0. UNCHANGED <<queue, pending, is_waiting, cv_mutex, stats, submitterVars, workerVars>>
  BY Zenon DEF NotifyWorker
<1>1. /\ QueueType' /\ SubmitType' /\ WorkerType' /\ CountType' /\ Active' /\ Mutex'
      /\ Announced' /\ Batches' /\ PendingExact'
  BY Zenon, <1>0, OthersKept
<1>2. OwnerType'
  BY DEF IndInv, NotifyWorker, flags, OwnerType
<1>3. SleepType'
  BY DEF IndInv, NotifyWorker, SleepType
<1>4. NotStarted'
  BY ZenonT(40) DEF IndInv, NotifyWorker, workerVars, NotStarted, OwnerType, WorkerType
<1>5. Sleepers'
  BY SMTT(30), NoneApart
     DEF IndInv, NotifyWorker, submitterVars, workerVars, Sleepers, SubmitType,
     SleepType, WorkerType
<1>6. Woken'
  BY SMTT(30) DEF IndInv, NotifyWorker, flags, submitterVars, workerVars, Woken, OwnerType,
     SubmitType, QueueType, SleepType, WorkerType, Due
<1> QED  BY SMTT(30), <1>1, <1>2, <1>3, <1>4, <1>5, <1>6 DEF IndInv

\* Join preserves IndInv.
LEMMA JoinInv == IndInv /\ Join => IndInv'
<1> SUFFICES ASSUME IndInv, Join PROVE IndInv'
  BY Zenon
<1>0. UNCHANGED <<data, stats, submitterVars, workerVars>>
  BY Zenon DEF Join
<1>1. /\ QueueType' /\ SleepType' /\ SubmitType' /\ WorkerType' /\ CountType' /\ Active'
      /\ Mutex' /\ Sleepers' /\ Announced' /\ Batches' /\ PendingExact'
  BY Zenon, <1>0, ThreadsKept
<1>2. OwnerType'
  BY DEF IndInv, Join, flags, OwnerType
<1>3. NotStarted'
  BY DEF Join, NotStarted
<1>4. Woken'
  BY Zenon DEF IndInv, Join, flags, data, submitterVars, workerVars, Woken, Due
<1> QED  BY Zenon, <1>1, <1>2, <1>3, <1>4 DEF IndInv

-----------------------------------------------------------------------------
(* The inductive invariant.                                                *)

\* IndInv holds at first.
LEMMA InitInv ==
  ASSUME Counting
  PROVE  Init => IndInv
<1> SUFFICES ASSUME Init PROVE IndInv
  OBVIOUS
<1>1. 0 \in Workers /\ 0 \in 0 .. ThreadCount /\ 0 \in 0 .. BatchSize
  BY PoolAssumption DEF Workers
<1>2. OwnerType /\ QueueType /\ SleepType
  <2>1. OwnerType /\ SleepType
    BY Zenon DEF Init, OwnerType, SleepType
  <2>2. <<>> \in Seq(Cell) /\ Len(<<>>) <= Capacity
    BY PoolAssumption
  <2> QED  BY <2>1, <2>2 DEF Init, QueueType
<1>3. SubmitType
  BY <1>1 DEF Init, SubmitType, SubmitPlaces
<1>4. WorkerType /\ CountType
  BY <1>1, PoolAssumption DEF Init, WorkerType, WorkerPlaces, CountType
<1>5. Running = {}
  BY DEF Init, Running
<1>6. Active
  BY Zenon, <1>5 DEF Counting, EmptySize, Init, Active
<1>7. NotStarted /\ Mutex /\ Sleepers /\ Announced /\ Woken /\ Batches
  BY NoneApart DEF Init, NotStarted, Mutex, Sleepers, Announced, Woken, Batches
<1>8. PendingExact
  <2>1. \A w \in Workers : {s \in Submitters :
            idx[s] = w /\ spc[s] \in {"publish", "count", "slow_publish", "slow_count"}} = {}
    BY DEF Init
  <2>2. \A w \in Workers : Uncounted(w) = 0
    BY ZenonT(40), <2>1 DEF Counting, EmptySize, Uncounted
  <2>3. \A w \in Workers : pending[w] = 0 /\ Len(queue[w]) = 0 /\ Taken(w) = 0
    BY DEF Init, Taken
  <2> QED  BY <2>2, <2>3 DEF PendingExact
<1> QED  BY SMTT(30), <1>2, <1>3, <1>4, <1>6, <1>7, <1>8 DEF IndInv

\* A step that changes nothing preserves IndInv.
LEMMA StutterInv == IndInv /\ UNCHANGED vars => IndInv'
<1> SUFFICES ASSUME IndInv, UNCHANGED vars PROVE IndInv'
  BY Zenon
<1>1. /\ QueueType' /\ SleepType' /\ SubmitType' /\ WorkerType' /\ CountType' /\ Active'
      /\ Mutex' /\ Sleepers' /\ Announced' /\ Batches' /\ PendingExact'
  BY Zenon, ThreadsKept DEF vars
<1>2. OwnerType' /\ NotStarted'
  BY Zenon DEF IndInv, vars, flags, workerVars, ownerVars, OwnerType, NotStarted
<1>3. Woken'
  BY Zenon DEF IndInv, vars, flags, data, submitterVars, workerVars, Woken, Due
<1> QED  BY Zenon, <1>1, <1>2, <1>3 DEF IndInv

\* Every step preserves IndInv.
LEMMA NextInv ==
  ASSUME Counting
  PROVE  IndInv /\ [Next]_vars => IndInv'
<1> SUFFICES ASSUME IndInv, [Next]_vars PROVE IndInv'
  BY Zenon
<1>1. CASE OwnerNext
  BY ZenonT(40), <1>1, StartInv, StartFailsInv, StopInv, RequestStopInv, NotifyWorkerInv, JoinInv
  DEF OwnerNext
<1>2. CASE \E s \in Submitters : InSubmit(s)
  BY ZenonT(40), <1>2, TryPushInv, PublishInv, CountInv, CheckWaitingInv, NotifyInv, SlowLockInv,
     SlowTryInv, SlowWaitInv, SlowFinishInv DEF InSubmit
<1>3. CASE \E s \in Submitters : \E t \in Tasks : Submit(s, t)
  BY ZenonT(40), <1>3, SubmitInv
<1>4. CASE \E w \in Workers : WorkerMain(w)
  BY ZenonT(40), <1>4, PopOneInv, PopEndInv, IdleInv, RecheckInv, RecheckStopInv, WaitInv,
     SleepInv, NotifyProducersInv, AccountInv, RunTaskInv, FinishBatchInv DEF WorkerMain
<1>5. CASE \E w \in Workers : SpuriousWake(w)
  BY Zenon, <1>5, SpuriousWakeInv
<1>6. CASE UNCHANGED vars
  BY Zenon, <1>6, StutterInv
<1> QED  BY ZenonT(40), <1>1, <1>2, <1>3, <1>4, <1>5, <1>6 DEF Next

-----------------------------------------------------------------------------
(* The statistics.                                                         *)

\* The sets that are counted are finite.
LEMMA CountedFinite ==
  ASSUME Counting
  PROVE  /\ IsFiniteSet(Returning) /\ Cardinality(Returning) \in Nat
         /\ IsFiniteSet(Done) /\ Cardinality(Done) \in Nat
<1>1. IsFiniteSet(Returning)
  <2>1. Returning \in SUBSET Submitters /\ IsFiniteSet(Submitters)
    BY Zenon, PoolAssumption DEF Returning
  <2> QED  BY Zenon, <2>1 DEF Counting, SubsetSize
<1>2. IsFiniteSet(Done)
  <2>1. IsFiniteSet(Workers) /\ IsFiniteSet(1 .. BatchSize)
    BY PoolAssumption DEF Counting, IntervalSize, Workers
  <2>2. IsFiniteSet(Workers \X (1 .. BatchSize))
    BY Zenon, <2>1 DEF Counting, ProductSize
  <2>3. Done \in SUBSET (Workers \X (1 .. BatchSize))
    BY Zenon DEF Done
  <2> QED  BY Zenon, <2>2, <2>3 DEF Counting, SubsetSize
<1> QED  BY Zenon, <1>1, <1>2 DEF Counting, SizeIsNat

\* A step that counts nothing as submitted.
LEMMA SubmittedSame ==
  ASSUME SubmittedExact, UNCHANGED <<accepted, submitted_tasks_>>,
         \A r \in Submitters : spc'[r] \in {"check", "notify"} <=> spc[r] \in {"check", "notify"}
  PROVE  SubmittedExact'
<1>1. Returning' = Returning
  BY Zenon DEF Returning
<1> QED  BY Zenon, <1>1 DEF SubmittedExact

\* A step that neither begins, runs nor ends a batch.
LEMMA CompletedSame ==
  ASSUME Shrinks, CompletedExact, UNCHANGED <<ran, completed_tasks_>>,
         \A x \in Workers : /\ wpc'[x] = "run" <=> wpc[x] = "run"
                            /\ wpc[x] = "run" => count'[x] = count[x] /\ batch'[x] = batch[x]
  PROVE  Shrinks' /\ CompletedExact'
<1>1. Shrinks'
  BY Zenon DEF Shrinks
<1>2. Done' = Done
  <2>1. \A p \in Workers \X (1 .. BatchSize) : p[1] \in Workers
    BY SMTT(30)
  <2>2. \A p \in Workers \X (1 .. BatchSize) :
          (wpc'[p[1]] = "run" /\ p[2] <= count'[p[1]] - Len(batch'[p[1]])) <=>
          (wpc[p[1]] = "run" /\ p[2] <= count[p[1]] - Len(batch[p[1]]))
    BY Zenon, <2>1
  <2> QED  BY Zenon, <2>2 DEF Done
<1> QED  BY Zenon, <1>1, <1>2 DEF CompletedExact

\* Count: the task is counted, the submitter is about to return.
LEMMA CountSubmitted ==
  ASSUME Counting, NEW s \in Submitters, IndInv, SubmittedExact, Count(s)
  PROVE  SubmittedExact'
<1>1. /\ spc[s] = "count" /\ spc' = [spc EXCEPT ![s] = "check"] /\ accepted' = accepted
      /\ submitted_tasks_' = submitted_tasks_ + 1
  BY Zenon DEF Count, CountPending, Goto
<1>2. spc \in [Submitters -> SubmitPlaces]
  BY Zenon DEF IndInv, SubmitType
<1>3. Returning' = Returning \cup {s} /\ s \notin Returning
  BY SMTT(30), <1>1, <1>2 DEF Returning
<1>4. Cardinality(Returning') = Cardinality(Returning) + 1
  BY Zenon, <1>3, CountedFinite DEF Counting, OneMore
<1>5. /\ IsFiniteSet(accepted') /\ Cardinality(accepted') = Cardinality(accepted)
      /\ IsFiniteSet(accepted) /\ Cardinality(accepted) \in Nat /\ Cardinality(Returning) \in Nat
      /\ submitted_tasks_ = Cardinality(accepted) + Cardinality(Returning)
  BY Zenon, <1>1, CountedFinite DEF Counting, SizeIsNat, SubmittedExact
<1>6. submitted_tasks_' = Cardinality(accepted') + Cardinality(Returning')
  BY SMTT(30), <1>1, <1>4, <1>5
<1> QED  BY Zenon, <1>5, <1>6 DEF SubmittedExact

\* Submit returns true: one more task is accepted.
LEMMA AcceptOne ==
  ASSUME Counting, NEW s \in Submitters, IndInv, HeldOnce, SubmittedExact, ReturnTrue(s)
  PROVE  /\ IsFiniteSet(accepted') /\ Cardinality(accepted') = Cardinality(accepted) + 1
         /\ Cardinality(accepted) \in Nat
<1>1. accepted' = accepted \cup {task[s]} /\ task[s] \notin accepted /\ IsFiniteSet(accepted)
  BY Zenon DEF ReturnTrue, HeldOnce, SubmittedExact
<1>2. /\ IsFiniteSet(accepted \cup {task[s]})
      /\ Cardinality(accepted \cup {task[s]}) = Cardinality(accepted) + 1
  BY Zenon, <1>1 DEF Counting, OneMore
<1> QED  BY Zenon, <1>1, <1>2 DEF Counting, SizeIsNat

\* Submit returns from the fast path, which has counted its task,
LEMMA ReturnSubmitted ==
  ASSUME Counting, NEW s \in Submitters, IndInv, HeldOnce, SubmittedExact, ReturnTrue(s),
         spc[s] \in {"check", "notify"}, submitted_tasks_' = submitted_tasks_
  PROVE  SubmittedExact'
<1>1. spc' = [spc EXCEPT ![s] = "out"] /\ spc \in [Submitters -> SubmitPlaces]
  BY Zenon DEF ReturnTrue, Goto, IndInv, SubmitType
<1>2. Returning' = Returning \ {s} /\ s \in Returning
  BY SMTT(30), <1>1 DEF Returning
<1>3. Cardinality(Returning') = Cardinality(Returning) - 1 /\ Cardinality(Returning) \in Nat
  BY Zenon, <1>2, CountedFinite DEF Counting, OneLess
<1>4. /\ IsFiniteSet(accepted') /\ Cardinality(accepted') = Cardinality(accepted) + 1
      /\ Cardinality(accepted) \in Nat
  BY Zenon, AcceptOne
<1>5. submitted_tasks_' = Cardinality(accepted') + Cardinality(Returning')
  BY SMTT(30), <1>3, <1>4 DEF SubmittedExact
<1> QED  BY Zenon, <1>4, <1>5 DEF SubmittedExact

\* and from the slow path, which counts it now.
LEMMA SlowFinishSubmitted ==
  ASSUME Counting, NEW s \in Submitters, IndInv, HeldOnce, SubmittedExact, SlowFinish(s)
  PROVE  SubmittedExact'
<1>1. /\ spc[s] = "slow_count" /\ spc' = [spc EXCEPT ![s] = "out"] /\ ReturnTrue(s)
      /\ submitted_tasks_' = submitted_tasks_ + 1 /\ spc \in [Submitters -> SubmitPlaces]
  BY Zenon DEF SlowFinish, CountPending, ReturnTrue, Goto, IndInv, SubmitType
<1>2. Returning' = Returning
  BY SMTT(30), <1>1 DEF Returning
<1>3. Cardinality(Returning') = Cardinality(Returning) /\ Cardinality(Returning) \in Nat
  BY Zenon, <1>2, CountedFinite
<1>4. /\ IsFiniteSet(accepted') /\ Cardinality(accepted') = Cardinality(accepted) + 1
      /\ Cardinality(accepted) \in Nat
  BY Zenon, <1>1, AcceptOne
<1>5. submitted_tasks_' = Cardinality(accepted') + Cardinality(Returning')
  BY SMTT(30), <1>1, <1>3, <1>4 DEF SubmittedExact
<1> QED  BY Zenon, <1>4, <1>5 DEF SubmittedExact

\* Account: the batch is begun, none of its tasks has run.
LEMMA AccountCompleted ==
  ASSUME NEW w \in Workers, IndInv, Shrinks, CompletedExact, Account(w)
  PROVE  Shrinks' /\ CompletedExact'
<1>1. /\ wpc[w] = "account" /\ wpc' = [wpc EXCEPT ![w] = "run"]
      /\ UNCHANGED <<ran, completed_tasks_, batch, count>>
  BY Zenon DEF Account, WGoto
<1>2. /\ wpc \in [Workers -> WorkerPlaces] /\ batch \in [Workers -> Seq(Tasks)]
      /\ count \in [Workers -> 0 .. BatchSize] /\ count[w] = Len(batch[w]) /\ BatchSize \in Nat
  BY SMTT(30), <1>1, PoolAssumption DEF IndInv, WorkerType, Batches
<1>3. Len(batch[w]) \in Nat
  BY <1>2
<1>4. Shrinks'
  BY SMTT(30), <1>1, <1>2, <1>3 DEF Shrinks
<1>5. Done' = Done
  BY SMTT(30), <1>1, <1>2, <1>3 DEF Done
<1> QED  BY Zenon, <1>1, <1>4, <1>5 DEF CompletedExact

\* RunTask: one task more has run, and it had not run before.
LEMMA RunTaskCompleted ==
  ASSUME Counting, NEW w \in Workers, IndInv, OneSpot, Shrinks, CompletedExact, RunTask(w)
  PROVE  Shrinks' /\ CompletedExact'
<1>1. /\ wpc[w] = "run" /\ batch[w] # <<>> /\ ran' = ran \cup {Head(batch[w])}
      /\ batch' = [batch EXCEPT ![w] = Tail(@)] /\ UNCHANGED <<wpc, count, completed_tasks_>>
  BY Zenon DEF RunTask, stats
<1>2. /\ batch \in [Workers -> Seq(Tasks)] /\ count \in [Workers -> 0 .. BatchSize]
      /\ BatchSize \in Nat
  BY SMTT(30), PoolAssumption DEF IndInv, WorkerType
<1>3. PICK n, c : n = Len(batch[w]) /\ c = count[w]
  BY Zenon
<1>4. /\ n \in Nat /\ n >= 1 /\ c \in 0 .. BatchSize /\ n <= c
      /\ Len(batch'[w]) = n - 1 /\ count'[w] = c
      /\ \A x \in Workers : x # w => batch'[x] = batch[x]
  BY SMTT(30), <1>1, <1>2, <1>3 DEF Shrinks
<1>5. Shrinks'
  <2>1. n - 1 <= c
    BY SMTT(30), <1>4
  <2> QED  BY Zenon, <1>1, <1>4, <2>1 DEF Shrinks
<1>6. PICK z : z = <<w, c - n + 1>>
  BY Zenon
<1>7. Done' = Done \cup {z} /\ z \notin Done
  <2>1. z \in Workers \X (1 .. BatchSize) /\ z[1] = w /\ z[2] = c - n + 1
    BY SMTT(30), <1>2, <1>4, <1>6
  <2>2. z \notin Done /\ z \in Done'
    BY SMTT(30), <1>1, <1>3, <1>4, <2>1 DEF Done
  <2>3. ASSUME NEW p \in Workers \X (1 .. BatchSize)
        PROVE  p \in Done' <=> p \in Done \/ p = z
    <3>1. CASE p[1] # w
      BY SMTT(30), <1>1, <1>4, <1>6, <3>1 DEF Done
    <3>2. CASE p[1] = w
      <4>1. p[2] \in 1 .. BatchSize /\ (p = z <=> p[2] = c - n + 1)
        BY SMTT(30), <1>6, <3>2
      <4>2. p \in Done <=> p[2] <= c - n
        BY SMTT(30), <1>1, <1>3, <3>2 DEF Done
      <4>3. p \in Done' <=> p[2] <= c - (n - 1)
        BY SMTT(30), <1>1, <1>4, <3>2 DEF Done
      <4> QED  BY SMTT(30), <1>2, <1>4, <4>1, <4>2, <4>3
    <3> QED  BY Zenon, <3>1, <3>2
  <2>4. Done \subseteq Workers \X (1 .. BatchSize) /\ Done' \subseteq Workers \X (1 .. BatchSize)
    BY Zenon DEF Done
  <2> QED  BY Zenon, <2>1, <2>2, <2>3, <2>4
<1>8. Head(batch[w]) \notin ran
  <2>1. Head(batch[w]) \in Tasks /\ Head(batch[w]) = batch[w][1] /\ 1 \in DOMAIN batch[w]
    BY SMTT(30), <1>1, <1>2
  <2>2. PICK k, a, i : OnlyAt(Head(batch[w]), k, a, i)
    BY Zenon, <2>1 DEF OneSpot
  <2>3. Lies(Head(batch[w]), "batch", w, 1)
    BY Zenon, <2>1 DEF Lies
  <2>4. Head(batch[w]) \in ran => Lies(Head(batch[w]), "ran", None, 0)
    BY Zenon DEF Lies
  <2>5. k = "batch" /\ (Head(batch[w]) \in ran => k = "ran")
    BY Zenon, <2>2, <2>3, <2>4 DEF OnlyAt
  <2> QED  BY SMTT(30), <2>5
<1>9. /\ IsFiniteSet(ran) /\ Cardinality(ran) = completed_tasks_ + Cardinality(Done)
      /\ Cardinality(ran) \in Nat /\ Cardinality(Done) \in Nat /\ completed_tasks_ \in Nat
  BY Zenon, CountedFinite DEF Counting, SizeIsNat, CompletedExact, IndInv, CountType
<1>10. IsFiniteSet(ran') /\ Cardinality(ran') = Cardinality(ran) + 1
  BY Zenon, <1>1, <1>8, <1>9 DEF Counting, OneMore
<1>11. Cardinality(Done') = Cardinality(Done) + 1
  BY Zenon, <1>7, CountedFinite DEF Counting, OneMore
<1>12. Cardinality(ran') = completed_tasks_' + Cardinality(Done')
  BY SMTT(30), <1>1, <1>9, <1>10, <1>11
<1> QED  BY Zenon, <1>5, <1>10, <1>12 DEF CompletedExact

\* FinishBatch: the tasks of the batch are completed.
LEMMA FinishBatchCompleted ==
  ASSUME Counting, NEW w \in Workers, IndInv, Shrinks, CompletedExact, FinishBatch(w)
  PROVE  Shrinks' /\ CompletedExact'
<1>1. /\ wpc[w] = "run" /\ batch[w] = <<>> /\ wpc' = [wpc EXCEPT ![w] = "pop"]
      /\ completed_tasks_' = completed_tasks_ + count[w] /\ UNCHANGED <<batch, count, ran>>
  BY Zenon DEF FinishBatch, WGoto
<1>2. /\ wpc \in [Workers -> WorkerPlaces] /\ count \in [Workers -> 0 .. BatchSize]
      /\ BatchSize \in Nat /\ completed_tasks_ \in Nat
  BY SMTT(30), PoolAssumption DEF IndInv, WorkerType, CountType
<1>3. PICK c : c = count[w]
  BY Zenon
<1>4. c \in 0 .. BatchSize /\ c \in Nat
  BY SMTT(30), <1>2, <1>3
<1>5. Shrinks'
  BY SMTT(30), <1>1, <1>2 DEF Shrinks
<1>6. /\ Done' = Done \ ({w} \X (1 .. c)) /\ Done \cap ({w} \X (1 .. c)) = {w} \X (1 .. c)
  <2>1. Len(batch[w]) = 0
    BY <1>1
  <2>2. ASSUME NEW p \in Workers \X (1 .. BatchSize)
        PROVE  /\ p \in Done' <=> p \in Done /\ p \notin {w} \X (1 .. c)
               /\ p \in {w} \X (1 .. c) => p \in Done
    <3>1. CASE p[1] # w
      BY SMTT(30), <1>1, <1>2, <3>1 DEF Done
    <3>2. CASE p[1] = w
      <4>1. p[2] \in 1 .. BatchSize /\ (p \in {w} \X (1 .. c) <=> p[2] <= c)
        BY SMTT(30), <1>4, <3>2
      <4>2. p \in Done <=> p[2] <= c
        BY SMTT(30), <1>1, <1>3, <1>4, <2>1, <3>2, <4>1 DEF Done
      <4>3. p \notin Done'
        BY SMTT(30), <1>1, <1>2, <3>2 DEF Done
      <4> QED  BY Zenon, <4>1, <4>2, <4>3
    <3> QED  BY Zenon, <3>1, <3>2
  <2>3. /\ Done \subseteq Workers \X (1 .. BatchSize) /\ Done' \subseteq Workers \X (1 .. BatchSize)
    BY Zenon DEF Done
  <2>4. {w} \X (1 .. c) \subseteq Workers \X (1 .. BatchSize)
    BY SMTT(30), <1>2, <1>4
  <2> QED  BY Zenon, <2>2, <2>3, <2>4
<1>7. Cardinality({w} \X (1 .. c)) = c
  <2>1. /\ IsFiniteSet({w}) /\ Cardinality({w}) = 1
        /\ IsFiniteSet(1 .. c) /\ Cardinality(1 .. c) = c
    <3>1. /\ 1 \in Int /\ c \in Int /\ (1 > c => c = 0) /\ c - 1 + 1 = c
      BY SMTT(30), <1>4
    <3>2. /\ IsFiniteSet(1 .. c) /\ Cardinality(1 .. c) = IF 1 > c THEN 0 ELSE c - 1 + 1
      BY Zenon, <3>1 DEF Counting, IntervalSize
    <3> QED  BY Zenon, <3>1, <3>2 DEF Counting, SingletonSize
  <2>2. Cardinality({w} \X (1 .. c)) = Cardinality({w}) * Cardinality(1 .. c)
    BY Zenon, <2>1 DEF Counting, ProductSize
  <2> QED  BY SMTT(30), <1>4, <2>1, <2>2
<1>8. Cardinality(Done') = Cardinality(Done) - c
  <2>1. Cardinality(Done \ ({w} \X (1 .. c))) =
          Cardinality(Done) - Cardinality(Done \cap ({w} \X (1 .. c)))
    BY Zenon, CountedFinite DEF Counting, DifferenceSize
  <2> QED  BY Zenon, <1>6, <1>7, <2>1
<1>9. /\ IsFiniteSet(ran) /\ Cardinality(ran) = completed_tasks_ + Cardinality(Done)
      /\ Cardinality(Done) \in Nat
  BY Zenon, CountedFinite DEF CompletedExact
<1>10. Cardinality(ran) = completed_tasks_' + Cardinality(Done')
  BY SMTT(30), <1>1, <1>2, <1>3, <1>4, <1>8, <1>9
<1> QED  BY Zenon, <1>1, <1>5, <1>9, <1>10 DEF CompletedExact

\* At first nothing is counted.
LEMMA InitTally ==
  ASSUME Counting
  PROVE  Init => Tally
<1> SUFFICES ASSUME Init PROVE Tally
  OBVIOUS
<1>1. Shrinks
  BY SMTT(30) DEF Init, Shrinks
<1>2. Returning = {} /\ accepted = {} /\ submitted_tasks_ = 0
  BY SMTT(30) DEF Init, Returning
<1>3. Done = {} /\ ran = {} /\ completed_tasks_ = 0
  BY SMTT(30) DEF Init, Done
<1>4. IsFiniteSet({}) /\ Cardinality({}) = 0 /\ 0 + 0 = 0
  BY DEF Counting, EmptySize
<1> QED  BY Zenon, <1>1, <1>2, <1>3, <1>4 DEF Tally, SubmittedExact, CompletedExact

\* What a step of a submitter does to the statistics.
LEMMA InSubmitTally ==
  ASSUME Counting, NEW s \in Submitters, IndInv, HeldOnce, Tally, InSubmit(s)
  PROVE  Tally'
<1>1. Shrinks' /\ CompletedExact'
  <2>1. UNCHANGED <<ran, completed_tasks_, wpc, count, batch>>
    BY Zenon DEF InSubmit, TryPush, Publish, Count, CheckWaiting, Notify, SlowLock, SlowTry, SlowWait,
       SlowFinish, CountPending, workerVars, stats
  <2> QED  BY Zenon, <2>1, CompletedSame DEF Tally
<1>2. SubmittedExact'
  <2>0. spc \in [Submitters -> SubmitPlaces] /\ SubmittedExact
    BY Zenon DEF IndInv, SubmitType, Tally
  <2>1. ASSUME UNCHANGED <<accepted, submitted_tasks_>>,
               NEW q, spc' = [spc EXCEPT ![s] = q],
               q \in {"check", "notify"} <=> spc[s] \in {"check", "notify"}
        PROVE  SubmittedExact'
    <3>1. \A r \in Submitters :
            spc'[r] \in {"check", "notify"} <=> spc[r] \in {"check", "notify"}
      BY SMTT(30), <2>0, <2>1
    <3> QED  BY Zenon, <2>0, <2>1, <3>1, SubmittedSame
  <2>2. CASE TryPush(s)
    <3>1. PICK q \in {"publish", "slow_lock", "try"} : spc' = [spc EXCEPT ![s] = q]
      BY Zenon, <2>2 DEF TryPush, Goto
    <3>2. /\ UNCHANGED <<accepted, submitted_tasks_>>
          /\ q \in {"check", "notify"} <=> spc[s] \in {"check", "notify"}
      BY SMTT(30), <2>2, <3>1 DEF TryPush, stats
    <3> QED  BY Zenon, <2>1, <3>1, <3>2
  <2>3. CASE Publish(s)
    <3>1. PICK q \in {"count", "slow_count"} : spc' = [spc EXCEPT ![s] = q]
      BY Zenon, <2>3 DEF Publish, Goto
    <3>2. /\ UNCHANGED <<accepted, submitted_tasks_>>
          /\ q \in {"check", "notify"} <=> spc[s] \in {"check", "notify"}
      BY SMTT(30), <2>3, <3>1 DEF Publish, stats
    <3> QED  BY Zenon, <2>1, <3>1, <3>2
  <2>4. CASE Count(s)
    BY Zenon, <2>0, <2>4, CountSubmitted
  <2>5. CASE CheckWaiting(s)
    <3>1. spc[s] = "check" /\ submitted_tasks_' = submitted_tasks_
      BY Zenon, <2>5 DEF CheckWaiting, stats
    <3>2. CASE is_waiting[idx[s]]
      <4>1. spc' = [spc EXCEPT ![s] = "notify"] /\ accepted' = accepted
        BY Zenon, <2>5, <3>2 DEF CheckWaiting, Goto
      <4> QED  BY Zenon, <2>1, <3>1, <4>1
    <3>3. CASE ~is_waiting[idx[s]]
      <4>1. ReturnTrue(s)
        BY Zenon, <2>5, <3>3 DEF CheckWaiting
      <4> QED  BY Zenon, <2>0, <3>1, <4>1, ReturnSubmitted
    <3> QED  BY Zenon, <3>2, <3>3
  <2>6. CASE Notify(s)
    <3>1. spc[s] = "notify" /\ submitted_tasks_' = submitted_tasks_ /\ ReturnTrue(s)
      BY Zenon, <2>6 DEF Notify, stats
    <3> QED  BY Zenon, <2>0, <3>1, ReturnSubmitted
  <2>7. CASE SlowLock(s)
    <3>1. /\ UNCHANGED <<accepted, submitted_tasks_>> /\ spc' = [spc EXCEPT ![s] = "slow_try"]
          /\ "slow_try" \in {"check", "notify"} <=> spc[s] \in {"check", "notify"}
      BY SMTT(30), <2>7 DEF SlowLock, Goto, stats
    <3> QED  BY Zenon, <2>1, <3>1
  <2>8. CASE SlowTry(s)
    <3>1. PICK q \in {"slow_publish", "slow_wait"} : spc' = [spc EXCEPT ![s] = q]
      BY Zenon, <2>8 DEF SlowTry, Goto
    <3>2. /\ UNCHANGED <<accepted, submitted_tasks_>>
          /\ q \in {"check", "notify"} <=> spc[s] \in {"check", "notify"}
      <4>1. UNCHANGED <<accepted, submitted_tasks_>> /\ spc[s] = "slow_try"
        BY Zenon, <2>8 DEF SlowTry, stats
      <4> QED  BY SMTT(30), <3>1, <4>1
    <3> QED  BY Zenon, <2>1, <3>1, <3>2
  <2>9. CASE SlowWait(s)
    <3>1. PICK q \in {"slow_asleep", "out"} : spc' = [spc EXCEPT ![s] = q]
      BY Zenon, <2>9 DEF SlowWait, ReturnFalse, Goto
    <3>2. /\ UNCHANGED <<accepted, submitted_tasks_>>
          /\ q \in {"check", "notify"} <=> spc[s] \in {"check", "notify"}
      BY SMTT(30), <2>9, <3>1 DEF SlowWait, ReturnFalse, stats
    <3> QED  BY Zenon, <2>1, <3>1, <3>2
  <2>10. CASE SlowFinish(s)
    BY Zenon, <2>0, <2>10, SlowFinishSubmitted
  <2> QED  BY Zenon, <2>2, <2>3, <2>4, <2>5, <2>6, <2>7, <2>8, <2>9, <2>10 DEF InSubmit
<1> QED  BY Zenon, <1>1, <1>2 DEF Tally

\* Submit preserves the tally.
LEMMA SubmitTally ==
  ASSUME NEW s \in Submitters, NEW t \in Tasks, IndInv, Tally, Submit(s, t)
  PROVE  Tally'
<1>1. UNCHANGED <<ran, completed_tasks_, wpc, count, batch, accepted, submitted_tasks_>>
  BY Zenon DEF Submit, workerVars, stats
<1>2. /\ spc[s] = "out" /\ spc' = [spc EXCEPT ![s] = "try"]
      /\ spc \in [Submitters -> SubmitPlaces]
  BY Zenon DEF Submit, Goto, IndInv, SubmitType
<1>3. \A r \in Submitters : spc'[r] \in {"check", "notify"} <=> spc[r] \in {"check", "notify"}
  BY SMTT(30), <1>2
<1>4. SubmittedExact'
  BY Zenon, <1>1, <1>3, SubmittedSame DEF Tally
<1>5. Shrinks' /\ CompletedExact'
  BY Zenon, <1>1, CompletedSame DEF Tally
<1> QED  BY Zenon, <1>4, <1>5 DEF Tally

\* What a step of a worker does to them.
LEMMA WorkerTally ==
  ASSUME Counting, NEW w \in Workers, IndInv, OneSpot, Tally, WorkerMain(w)
  PROVE  Tally'
<1>0. wpc \in [Workers -> WorkerPlaces] /\ Shrinks /\ CompletedExact /\ SubmittedExact
  BY Zenon DEF IndInv, WorkerType, Tally
<1>1. SubmittedExact'
  <2>1. UNCHANGED <<accepted, submitted_tasks_, spc>>
    BY Zenon DEF WorkerMain, PopOne, PopEnd, Idle, Recheck, RecheckStop, Wait, Sleep, NotifyProducers,
       Account, RunTask, FinishBatch, submitterVars, stats
  <2> QED  BY Zenon, <1>0, <2>1, SubmittedSame
<1>2. ASSUME wpc[w] # "run", NEW q, q # "run", wpc' = [wpc EXCEPT ![w] = q],
             UNCHANGED <<ran, completed_tasks_, batch>>,
             \A x \in Workers : x # w => count'[x] = count[x]
      PROVE  Shrinks' /\ CompletedExact'
  <2>1. \A x \in Workers : /\ wpc'[x] = "run" <=> wpc[x] = "run"
                           /\ wpc[x] = "run" => count'[x] = count[x] /\ batch'[x] = batch[x]
    BY SMTT(30), <1>0, <1>2
  <2> QED  BY Zenon, <1>0, <1>2, <2>1, CompletedSame
<1>3. CASE PopOne(w)
  <2>1. /\ wpc[w] = "pop" /\ UNCHANGED <<wpc, count, ran, completed_tasks_>>
        /\ batch' = [batch EXCEPT ![w] = Append(@, queue[w][1].value)]
    BY Zenon, <1>3 DEF PopOne, stats
  <2>2. batch \in [Workers -> Seq(Tasks)]
    BY Zenon DEF IndInv, WorkerType
  <2>3. \A x \in Workers : wpc[x] = "run" => batch'[x] = batch[x]
    BY SMTT(30), <2>1, <2>2
  <2>4. Shrinks' /\ CompletedExact'
    BY Zenon, <1>0, <2>1, <2>3, CompletedSame
  <2> QED  BY Zenon, <1>1, <2>4 DEF Tally
<1>4. CASE PopEnd(w)
  <2>1. /\ wpc[w] = "pop" /\ UNCHANGED <<ran, completed_tasks_, batch>>
        /\ count' = [count EXCEPT ![w] = Len(batch[w])]
        /\ wpc' = [wpc EXCEPT ![w] = IF batch[w] = <<>> THEN "idle" ELSE "notify"]
    BY Zenon, <1>4 DEF PopEnd, stats, WGoto
  <2>2. count \in [Workers -> 0 .. BatchSize]
    BY Zenon DEF IndInv, WorkerType
  <2>3. \A x \in Workers : x # w => count'[x] = count[x]
    BY SMTT(30), <2>1, <2>2
  <2>4. (IF batch[w] = <<>> THEN "idle" ELSE "notify") # "run" /\ wpc[w] # "run"
    BY SMTT(30), <2>1
  <2>5. Shrinks' /\ CompletedExact'
    BY Zenon, <1>2, <2>1, <2>3, <2>4
  <2> QED  BY Zenon, <1>1, <2>5 DEF Tally
<1>5. CASE Idle(w) \/ Recheck(w) \/ RecheckStop(w) \/ Wait(w) \/ Sleep(w) \/ NotifyProducers(w)
  <2>1. PICK q \in {"exited", "recheck", "pop", "recheck_stop", "wait", "sleep", "asleep", "account"} :
          wpc' = [wpc EXCEPT ![w] = q]
    BY Zenon, <1>5 DEF Idle, Recheck, RecheckStop, Wait, Sleep, NotifyProducers, WGoto
  <2>2. q # "run" /\ wpc[w] # "run" /\ UNCHANGED <<ran, completed_tasks_, batch, count>>
    <3>1. wpc[w] \in {"idle", "recheck", "recheck_stop", "wait", "asleep", "sleep", "notify"}
      BY Zenon, <1>5 DEF Idle, Recheck, RecheckStop, Wait, Sleep, NotifyProducers
    <3>2. UNCHANGED <<ran, completed_tasks_, batch, count>>
      BY Zenon, <1>5 DEF Idle, Recheck, RecheckStop, Wait, Sleep, NotifyProducers, stats
    <3> QED  BY SMTT(30), <2>1, <3>1, <3>2
  <2>3. Shrinks' /\ CompletedExact'
    BY Zenon, <1>2, <2>1, <2>2
  <2> QED  BY Zenon, <1>1, <2>3 DEF Tally
<1>6. CASE Account(w)
  BY Zenon, <1>0, <1>1, <1>6, AccountCompleted DEF Tally
<1>7. CASE RunTask(w)
  BY Zenon, <1>0, <1>1, <1>7, RunTaskCompleted DEF Tally
<1>8. CASE FinishBatch(w)
  BY Zenon, <1>0, <1>1, <1>8, FinishBatchCompleted DEF Tally
<1> QED  BY Zenon, <1>3, <1>4, <1>5, <1>6, <1>7, <1>8 DEF WorkerMain

\* Every step preserves the tally.
LEMMA NextTally ==
  ASSUME Counting
  PROVE  IndInv /\ HeldOnce /\ OneSpot /\ Tally /\ [Next]_vars => Tally'
<1> SUFFICES ASSUME IndInv, HeldOnce, OneSpot, Tally, [Next]_vars PROVE Tally'
  OBVIOUS
<1>1. ASSUME UNCHANGED <<submitterVars, stats, ran, batch, count>>,
             \A w \in Workers : wpc'[w] = "run" <=> wpc[w] = "run"
      PROVE  Tally'
  <2>1. UNCHANGED <<accepted, spc, submitted_tasks_, completed_tasks_, ran, batch, count>>
    BY Zenon, <1>1 DEF submitterVars, stats
  <2>2. SubmittedExact'
    BY Zenon, <2>1, SubmittedSame DEF Tally
  <2>3. Shrinks' /\ CompletedExact'
    BY Zenon, <1>1, <2>1, CompletedSame DEF Tally
  <2> QED  BY Zenon, <2>2, <2>3 DEF Tally
<1>2. CASE UNCHANGED vars
  <2>1. UNCHANGED <<submitterVars, stats, wpc, ran, batch, count>>
    BY Zenon, <1>2 DEF vars, workerVars
  <2> QED  BY Zenon, <1>1, <2>1
<1>3. CASE Start
  <2>1. UNCHANGED <<submitterVars, stats, ran, batch, count>>
    BY Zenon, <1>3 DEF Start
  <2>2. \A w \in Workers : wpc'[w] = "pop" /\ wpc[w] = "none"
    BY SMTT(30), <1>3 DEF Start, IndInv, NotStarted
  <2>3. \A w \in Workers : wpc'[w] = "run" <=> wpc[w] = "run"
    BY SMTT(30), <2>2
  <2> QED  BY Zenon, <1>1, <2>1, <2>3
<1>4. CASE StartFails \/ Stop \/ RequestStop \/ (\E w \in Workers : NotifyWorker(w)) \/ Join
  <2>1. UNCHANGED <<submitterVars, stats, wpc, ran, batch, count>>
    BY Zenon, <1>4 DEF StartFails, Stop, RequestStop, NotifyWorker, Join, workerVars
  <2> QED  BY Zenon, <1>1, <2>1
<1>5. ASSUME NEW s \in Submitters, InSubmit(s) PROVE Tally'
  BY Zenon, <1>5, InSubmitTally
<1>6. ASSUME NEW s \in Submitters, NEW t \in Tasks, Submit(s, t) PROVE Tally'
  BY Zenon, <1>6, SubmitTally
<1>7. ASSUME NEW w \in Workers, WorkerMain(w) PROVE Tally'
  BY Zenon, <1>7, WorkerTally
<1>8. ASSUME NEW w \in Workers, SpuriousWake(w) PROVE Tally'
  <2>1. UNCHANGED <<submitterVars, stats, wpc, ran, batch, count>>
    BY Zenon, <1>8 DEF SpuriousWake, workerVars
  <2> QED  BY Zenon, <1>1, <2>1
<1> QED  BY Zenon, <1>2, <1>3, <1>4, <1>5, <1>6, <1>7, <1>8 DEF Next, OwnerNext

\* The tally is what CountersExact says.
LEMMA TallyExact ==
  ASSUME Counting
  PROVE  IndInv /\ Tally => CountersExact
<1> SUFFICES ASSUME IndInv, Tally PROVE CountersExact
  OBVIOUS
<1>1. PendingExact
  BY Zenon DEF IndInv
<1>2. submitted_tasks_ =
        Cardinality(accepted) + Cardinality({s \in Submitters : spc[s] \in {"check", "notify"}})
  BY Zenon DEF Tally, SubmittedExact, Returning
<1>3. ASSUME \A w \in Workers : wpc[w] # "run" PROVE completed_tasks_ = Cardinality(ran)
  <2>1. Done = {}
    <3>1. \A p \in Workers \X (1 .. BatchSize) : p[1] \in Workers
      BY SMTT(30)
    <3> QED  BY Zenon, <1>3, <3>1 DEF Done
  <2>2. Cardinality(Done) = 0
    BY Zenon, <2>1 DEF Counting, EmptySize
  <2>3. Cardinality(ran) = completed_tasks_ + Cardinality(Done) /\ completed_tasks_ \in Nat
    BY Zenon DEF Tally, CompletedExact, IndInv, CountType
  <2> QED  BY SMTT(30), <2>2, <2>3
<1> QED  BY Zenon, <1>1, <1>2, <1>3 DEF CountersExact

\* The inductive invariant gives the types.
LEMMA IndInvTypes ==
  ASSUME Counting
  PROVE  IndInv => TypeOK
<1> SUFFICES ASSUME IndInv PROVE TypeOK
  OBVIOUS
<1>1. active_workers_ \in 0 .. ThreadCount
  BY ZenonT(40), RunningFinite DEF IndInv, Active
<1> QED  BY <1>1 DEF IndInv, OwnerType, QueueType, SleepType, SubmitType, SubmitPlaces,
                     WorkerType, WorkerPlaces, CountType, TypeOK

-----------------------------------------------------------------------------
(* What holds in every state.                                              *)

\* The definitions of the standard module, spelled out: the prover takes the
\* operators of FiniteSets for new ones where the theorems are instantiated.
Finite(S) == \E seq \in Seq(S) : \A s \in S : \E n \in 1 .. Len(seq) : seq[n] = s

Size(S) ==
  LET CS[T \in SUBSET S] == IF T = {} THEN 0 ELSE 1 + CS[T \ {CHOOSE x : x \in T}]
  IN  CS[S]

\* IsFiniteSet and Cardinality are Finite and Size, ...
LEMMA SizeBefore == \A S : (IsFiniteSet(S) <=> Finite(S)) /\ Cardinality(S) = Size(S)
BY Zenon DEF IsFiniteSet, Finite, Cardinality, Size

LOCAL INSTANCE FiniteSetTheorems

\* ... also as the theorems about finite sets have them.
LEMMA SizeAfter == \A S : (IsFiniteSet(S) <=> Finite(S)) /\ Cardinality(S) = Size(S)
BY Zenon DEF IsFiniteSet, Finite, Cardinality, Size

\* The facts about sizes hold.
LEMMA CountingHolds == Counting
<1>1. \A S : IsFiniteSet(S) => Cardinality(S) \in Nat
  BY FS_CardinalityType
<1>2. \A S : IsFiniteSet(S) =>
        \A T \in SUBSET S : IsFiniteSet(T) /\ Cardinality(T) <= Cardinality(S)
  BY FS_Subset
<1>3. \A S, x : IsFiniteSet(S) =>
        /\ IsFiniteSet(S \cup {x})
        /\ Cardinality(S \cup {x}) = IF x \in S THEN Cardinality(S) ELSE Cardinality(S) + 1
  BY FS_AddElement
<1>4. \A S, x : IsFiniteSet(S) =>
        /\ IsFiniteSet(S \ {x})
        /\ Cardinality(S \ {x}) = IF x \in S THEN Cardinality(S) - 1 ELSE Cardinality(S)
  BY FS_RemoveElement
<1>5. IsFiniteSet({}) /\ Cardinality({}) = 0
  BY FS_EmptySet
<1>6. \A x : IsFiniteSet({x}) /\ Cardinality({x}) = 1
  BY Zenon, FS_Singleton
<1>7. \A a, b \in Int : IsFiniteSet(a .. b) /\ Cardinality(a .. b) = IF a > b THEN 0 ELSE b - a + 1
  BY FS_Interval
<1>8. \A S, T : IsFiniteSet(S) /\ IsFiniteSet(T) =>
        IsFiniteSet(S \X T) /\ Cardinality(S \X T) = Cardinality(S) * Cardinality(T)
  BY FS_Product
<1>9. \A S, T : IsFiniteSet(S) =>
        IsFiniteSet(S \ T) /\ Cardinality(S \ T) = Cardinality(S) - Cardinality(S \cap T)
  BY FS_Difference
<1>11. SizeIsNat
  BY Zenon, <1>1, SizeBefore, SizeAfter DEF SizeIsNat
<1>12. SubsetSize
  BY Zenon, <1>2, SizeBefore, SizeAfter DEF SubsetSize
<1>13. OneMore
  BY Zenon, <1>3, SizeBefore, SizeAfter DEF OneMore
<1>14. OneLess
  BY Zenon, <1>4, SizeBefore, SizeAfter DEF OneLess
<1>15. EmptySize
  BY Zenon, <1>5, SizeBefore, SizeAfter DEF EmptySize
<1>16. SingletonSize
  BY Zenon, <1>6, SizeBefore, SizeAfter DEF SingletonSize
<1>17. IntervalSize
  BY Zenon, <1>7, SizeBefore, SizeAfter DEF IntervalSize
<1>18. ProductSize
  BY Zenon, <1>8, SizeBefore, SizeAfter DEF ProductSize
<1>19. DifferenceSize
  BY Zenon, <1>9, SizeBefore, SizeAfter DEF DifferenceSize
<1> QED  BY Zenon, <1>11, <1>12, <1>13, <1>14, <1>15, <1>16, <1>17, <1>18, <1>19 DEF Counting

\* The inductive invariant holds in every state of the pool (all actions of
\* thread_pool.cpp).
THEOREM Invariance == Spec => []IndInv
<1>1. Init => IndInv
  BY Zenon, InitInv, CountingHolds
<1>2. IndInv /\ [Next]_vars => IndInv'
  BY Zenon, NextInv, CountingHolds
<1> QED  BY <1>1, <1>2, PTL DEF Spec

\* Types, with the bounds of the queues, the batches and the active workers.
THEOREM ThreadPoolTypeOK == Spec => []TypeOK
<1>1. IndInv => TypeOK
  BY Zenon, IndInvTypes, CountingHolds
<1> QED  BY Invariance, <1>1, PTL

\* The handshake of is_waiting, the mutex and the shared condition variable
\* loses no wake-up that nobody is left to make good (Submit and WorkerMain).
THEOREM ThreadPoolNoLostWakeup == Spec => []NoLostWakeup
<1>1. IndInv => NoLostWakeup
  <2> SUFFICES ASSUME IndInv, NEW w \in Workers, accepting_tasks_, w \in waiting[w],
                      Ready(queue[w])
               PROVE  \E s \in Submitters : idx[s] = w /\ spc[s] \notin {"out", "try", "publish"}
    BY ZenonT(40) DEF NoLostWakeup
  <2>1. PICK s \in Submitters : Due(s, w)
    BY Zenon DEF IndInv, Woken
  <2> QED  BY ZenonT(40), <2>1 DEF Due
<1> QED  BY Invariance, <1>1, PTL

\* pending counts what is in a queue, whichever queue Submit ends up with.
THEOREM ThreadPoolPendingExact == Spec => []PendingExact
<1>1. IndInv => PendingExact
  BY DEF IndInv
<1> QED  BY Invariance, <1>1, PTL

\* A task is held by one submitter at most, and lies in one spot.
THEOREM TasksHold == Spec => [](HeldOnce /\ OneSpot)
BY InitTasks, NextTasks, Invariance, PTL DEF Spec

\* A task is never duplicated or dropped (ThreadPool::Submit and WorkerMain,
\* thread_pool.cpp): from the caller through a Submit, a queue and a batch to
\* its execution it is in exactly one place, for any number of threads.
THEOREM ThreadPoolTaskInOnePlace == Spec => []TaskInOnePlace
<1>1. OneSpot => TaskInOnePlace
  BY Zenon, OneSpotOnePlace, CountingHolds
<1> QED  BY <1>1, TasksHold, PTL

\* The statistics count the tasks accepted and run.
THEOREM TallyHolds == Spec => []Tally
<1>1. Init => Tally
  BY Zenon, InitTally, CountingHolds
<1>2. IndInv /\ HeldOnce /\ OneSpot /\ Tally /\ [Next]_vars => Tally'
  BY Zenon, NextTally, CountingHolds
<1> QED  BY <1>1, <1>2, Invariance, TasksHold, PTL DEF Spec

\* pending, submitted_tasks_ and completed_tasks_ (relaxed atomics of
\* thread_pool.cpp) are exact up to the threads that have yet to count.
THEOREM ThreadPoolCountersExact == Spec => []CountersExact
<1>1. IndInv /\ Tally => CountersExact
  BY Zenon, TallyExact, CountingHolds
<1> QED  BY <1>1, Invariance, TallyHolds, PTL
=============================================================================
