-------------------------- MODULE AsyncLoggerProofs --------------------------
(***************************************************************************)
(* Proofs about the asynchronous logger for any number of threads and      *)
(* entries, any capacity of the ring and any options: its counters and the *)
(* summary of dropped entries are exact, a change of the log file is not   *)
(* lost, a Shutdown that no thread races with leaves nothing behind, and   *)
(* the entries of a thread are written once each and in order.             *)
(***************************************************************************)
EXTENDS AsyncLogger, FiniteSetTheorems, SequenceTheorems, TLAPS

\* A cell that is not filled belongs to a thread that is about to fill it.
Writers ==
  \A i \in DOMAIN cells : cells[i].writer # None =>
    cells[i].writer \in Threads /\ submit[cells[i].writer].at = "publish"

\* What the places of the worker say about its locals.
Worker ==
  /\ worker.batch # <<>> => worker.at \in {"pop", "write"}
  /\ worker.at = "write" => worker.drained = Len(worker.batch)
  /\ worker.at \in {"start", "open", "top", "idle"} => ~worker.draining
  /\ worker.at = "done" => worker.draining /\ ~dirty
  /\ worker.draining => stop_requested

\* The course of a Shutdown that began while no thread was inside Submit.
Closing ==
  /\ closer = "idle" <=> accepting_logs_
  /\ stop_requested => ~accepting_logs_
  /\ closer = "closed" => worker.at = "done"
  /\ quiet => ~accepting_logs_ /\ \A t \in Threads : submit[t].at = "idle"
  /\ quiet /\ worker.draining /\ worker.at \in {"summary", "flush", "done"} => cells = <<>>
  /\ quiet /\ worker.draining /\ worker.at \in {"flush", "done"} =>
       dropped_for_summary_ = 0 /\ pending_drop_summary_ = 0

\* The parts of TypeOK.
QueueType == cells \in Seq(Cell) /\ Len(cells) <= Capacity

SubmitType ==
  /\ submit \in [Threads -> [at : {"idle", "push", "publish", "count", "drop"}, n : Nat]]
  /\ \A t \in Threads : submit[t].n <= MaxLogs[t] /\ (submit[t].at # "idle" => submit[t].n > 0)

Places == {"start", "open", "top", "pop", "write", "summary", "flush", "idle", "done"}

WorkerRecord ==
  [at : Places, batch : Seq(Entries), limit : Nat \ {0}, drained : Nat, draining : BOOLEAN]

WorkerType ==
  /\ worker \in WorkerRecord
  /\ Len(worker.batch) <= worker.limit

OptionsType ==
  options \in [queue_capacity : 1 .. Capacity, max_batch_size : Nat \ {0}, min_level : 0 .. Off]

CountType ==
  /\ inflight_count_ \in Int
  /\ submit_calls_ \in Nat /\ filtered_by_level_ \in Nat /\ enqueued_ \in Nat /\ consumed_ \in Nat
  /\ dropped_ \in Nat
  /\ dropped_for_summary_ \in Nat /\ pending_drop_summary_ \in Nat /\ reported \in Nat
  /\ requests \in Nat

FlagType ==
  /\ accepting_logs_ \in BOOLEAN /\ stop_requested \in BOOLEAN /\ flush_requested_ \in BOOLEAN
  /\ reopen_requested_ \in BOOLEAN /\ path_changed \in BOOLEAN /\ file_ \in BOOLEAN
  /\ dirty \in BOOLEAN /\ quiet \in BOOLEAN
  /\ setter \in {"idle", "flag"} /\ closer \in {"idle", "stop", "join", "closed"}

Types == QueueType /\ SubmitType /\ WorkerType /\ OptionsType /\ CountType /\ FlagType

IndInv ==
  Types /\ Writers /\ Worker /\ Closing /\ CountersExact /\ DropsReported /\ LatestPathOpened

-----------------------------------------------------------------------------

\* The larger of two numbers,
LEMMA MaxOfTwo ==
  ASSUME NEW a \in Int, NEW b \in Int
  PROVE  Max({a, b}) = IF a >= b THEN a ELSE b
BY DEF Max

\* and the smaller.
LEMMA MinOfTwo ==
  ASSUME NEW a \in Int, NEW b \in Int
  PROVE  Min({a, b}) = IF a <= b THEN a ELSE b
BY DEF Min

\* Options are clamped to what the ring and the worker can do.
LEMMA ClampedType ==
  ASSUME NEW o \in Options
  PROVE  Clamped(o) \in [queue_capacity : 1 .. Capacity, max_batch_size : Nat \ {0},
                         min_level : 0 .. Off]
<1>1. o \in [queue_capacity : Nat, max_batch_size : Nat, min_level : 0 .. Off]
  BY LoggerAssumption
<1>2. Min({o.queue_capacity, Capacity}) \in 0 .. Capacity
  BY <1>1, LoggerAssumption, MinOfTwo
<1> DEFINE m == Min({o.queue_capacity, Capacity})
<1> HIDE DEF m
<1>3. Max({1, m}) \in 1 .. Capacity
  <2>1. m \in 0 .. Capacity /\ Capacity \in Nat \ {0}
    BY <1>2, LoggerAssumption DEF m
  <2> QED  BY <2>1, MaxOfTwo
<1>4. Max({1, o.max_batch_size}) \in Nat \ {0}
  BY <1>1, MaxOfTwo
<1> QED  BY Zenon, <1>1, <1>3, <1>4 DEF Clamped, m

\* A count of threads is a number.
LEMMA InType == ASSUME NEW P PROVE In(P) \in Nat
<1>1. IsFiniteSet({t \in Threads : submit[t].at \in P})
  BY LoggerAssumption, FS_Subset
<1> QED  BY <1>1, FS_CardinalityType DEF Uncounted, Submitting, In

\* A thread enters some places ...
LEMMA Enter ==
  ASSUME NEW t \in Threads, NEW P, submit[t].at \notin P,
         \A u \in Threads : u # t => submit'[u].at = submit[u].at, submit'[t].at \in P
  PROVE  In(P)' = In(P) + 1
<1> DEFINE S == {u \in Threads : submit[u].at \in P}
<1>1. IsFiniteSet(S) /\ t \notin S
  BY LoggerAssumption, FS_Subset
<1>2. {u \in Threads : submit'[u].at \in P} = S \cup {t}
  OBVIOUS
<1> HIDE DEF S
<1>3. Cardinality(S \cup {t}) = Cardinality(S) + 1
  BY Zenon, <1>1, FS_AddElement
<1> QED  BY Zenon, <1>2, <1>3 DEF In, S

\* ... leaves them ...
LEMMA Leave ==
  ASSUME NEW t \in Threads, NEW P, submit[t].at \in P,
         \A u \in Threads : u # t => submit'[u].at = submit[u].at, submit'[t].at \notin P
  PROVE  In(P)' = In(P) - 1
<1> DEFINE S == {u \in Threads : submit[u].at \in P}
<1>1. IsFiniteSet(S) /\ t \in S
  BY LoggerAssumption, FS_Subset
<1>2. {u \in Threads : submit'[u].at \in P} = S \ {t}
  OBVIOUS
<1> HIDE DEF S
<1>3. Cardinality(S \ {t}) = Cardinality(S) - 1
  BY Zenon, <1>1, FS_RemoveElement
<1> QED  BY Zenon, <1>2, <1>3 DEF In, S

\* ... or stays inside or outside.
LEMMA Stay ==
  ASSUME NEW t \in Threads, NEW P, (submit[t].at \in P) = (submit'[t].at \in P),
         \A u \in Threads : u # t => submit'[u].at = submit[u].at
  PROVE  In(P)' = In(P)
<1>1. {u \in Threads : submit'[u].at \in P} = {u \in Threads : submit[u].at \in P}
  OBVIOUS
<1> QED  BY <1>1 DEF Uncounted, Submitting, In

-----------------------------------------------------------------------------

\* Publication keeps the number of cells.
LEMMA PublishedType ==
  ASSUME NEW q \in Seq(Cell), NEW p
  PROVE  Published(q, p) \in Seq(Cell) /\ Len(Published(q, p)) = Len(q)
<1>1. Len(q) \in Nat /\ DOMAIN q = 1 .. Len(q) /\ \A i \in 1 .. Len(q) : q[i] \in Cell
  OBVIOUS
<1>2. \A c \in Cell : [c EXCEPT !.writer = None] \in Cell
  BY DEF Cell
<1>3. Published(q, p) \in [1 .. Len(q) -> Cell]
  BY <1>1, <1>2 DEF Published
<1> HIDE DEF Published
<1> QED  BY <1>1, <1>3

\* The worker with another batch,
LEMMA WithEntries ==
  ASSUME NEW w \in WorkerRecord, NEW b \in Seq(Entries)
  PROVE  [w EXCEPT !.batch = b] \in WorkerRecord
BY Zenon DEF WorkerRecord

\* at another place with it,
LEMMA WithBatch ==
  ASSUME NEW w \in WorkerRecord, NEW p \in Places, NEW b \in Seq(Entries)
  PROVE  [w EXCEPT !.batch = b, !.at = p] \in WorkerRecord
BY Zenon DEF WorkerRecord

\* or there with another limit.
LEMMA WithLimit ==
  ASSUME NEW w \in WorkerRecord, NEW p \in Places, NEW n \in Nat \ {0}
  PROVE  [w EXCEPT !.at = p, !.limit = n] \in WorkerRecord
BY Zenon DEF WorkerRecord

\* The parts of the types are TypeOK.
LEMMA TypesOK == Types <=> TypeOK
BY SMTT(30)
  DEF Types, TypeOK, QueueType, SubmitType, WorkerType, WorkerRecord, Places, OptionsType, CountType,
   FlagType

\* IndInv holds at first.
LEMMA InitInv == Init => IndInv
<1> SUFFICES ASSUME Init PROVE IndInv
  OBVIOUS
<1>1. QueueType /\ SubmitType
  BY LoggerAssumption DEF Init, QueueType, SubmitType
<1>2. WorkerType /\ OptionsType
  <2>1. Default \in [queue_capacity : 1 .. Capacity, max_batch_size : Nat \ {0},
                     min_level : 0 .. Off]
    BY LoggerAssumption
  <2>2. OptionsType
    BY <2>1 DEF Init, OptionsType
  <2>3. WorkerType
    BY <2>1 DEF Init, WorkerType, WorkerRecord, Places
  <2> QED  BY <2>2, <2>3
<1>3. CountType
  BY DEF Init, CountType
<1>7. FlagType
  BY Zenon DEF Init, FlagType
<1>4. Uncounted = 0 /\ Submitting = 0
  <2>1. {t \in Threads : submit[t].at \in {"publish", "count"}} = {}
    BY DEF Init
  <2>2. {t \in Threads : submit[t].at \in {"push", "publish", "count", "drop"}} = {}
    BY DEF Init
  <2> QED  BY <2>1, <2>2, FS_EmptySet DEF Uncounted, Submitting, In
<1>5. CountersExact
  BY <1>4 DEF Init, CountersExact, Held
<1>6. Writers /\ Worker /\ Closing /\ DropsReported /\ LatestPathOpened
  BY DEF Init, Writers, Worker, Closing, DropsReported, LatestPathOpened
<1> QED
  BY <1>1, <1>2, <1>3, <1>5, <1>6, <1>7 DEF IndInv, Types

\* Submit preserves IndInv.
LEMMA SubmitInv == \A t \in Threads, l \in Levels : IndInv /\ Submit(t, l) => IndInv'
<1>0. SUFFICES ASSUME NEW t \in Threads, NEW l \in Levels, IndInv, Submit(t, l) PROVE IndInv'
  OBVIOUS
<1> USE DEF IndInv, Types, queueVars, statVars, pathVars, dropVars, fileVars, closeVars
<1>a. Uncounted \in Nat /\ Submitting \in Nat /\ Held \in Nat /\ CountType
  BY <1>0, InType DEF Uncounted, Submitting, Held, QueueType, WorkerType, WorkerRecord
<1>b. CountersExact
  BY <1>0
<1>1. SubmitType'
  <2>1. PICK p \in {"idle", "drop", "push"} :
          submit' = [submit EXCEPT ![t] = [n |-> @.n + 1, at |-> p]]
    BY Zenon, <1>0 DEF Submit
  <2>2. submit[t].n \in Nat /\ submit[t].n + 1 <= MaxLogs[t]
    <3>1. submit[t].n < MaxLogs[t]
      BY <1>0 DEF Submit
    <3>2. MaxLogs[t] \in Nat
      BY SMTT(30), <1>0, LoggerAssumption
    <3> QED  BY SMTT(30), <1>0, <3>1, <3>2 DEF SubmitType
  <2> QED  BY SMTT(30), <1>0, <2>1, <2>2 DEF SubmitType
<1>2. CountType'
  BY SMTT(30), <1>0 DEF CountType, Submit
<1>3. Writers'
  BY <1>0 DEF Writers, Submit, QueueType, SubmitType
<1>4. Closing'
  BY <1>0 DEF Closing, Submit
<1>5. CountersExact'
  <2>1. /\ \A u \in Threads : u # t => submit'[u].at = submit[u].at
        /\ submit[t].at = "idle" /\ submit'[t].at \in {"idle", "drop", "push"}
    BY <1>0 DEF Submit, SubmitType
  <2>2. CASE submit'[t].at = "idle"
    <3>1. /\ inflight_count_' = inflight_count_ /\ Held' = Held
          /\ enqueued_' = enqueued_ /\ consumed_' = consumed_ /\ dropped_' = dropped_
      BY <1>0, <2>2 DEF Submit, Held, SubmitType, CountType
    <3>2. accepting_logs_' => /\ accepting_logs_ /\ submit_calls_' = submit_calls_ + 1
                              /\ filtered_by_level_' = filtered_by_level_ + 1
      BY <1>0, <2>2 DEF Submit, Held, SubmitType, CountType
    <3>3. Uncounted' = Uncounted
      BY <1>0, <2>1, <2>2, Stay DEF Uncounted
    <3>4. Submitting' = Submitting
      BY SMTT(30), <1>0, <2>1, <2>2, Stay DEF Submitting
    <3> QED  BY SMTT(30), <1>a, <1>b, <3>1, <3>2, <3>3, <3>4 DEF CountType, CountersExact
  <2>3. CASE submit'[t].at # "idle"
    <3>1. /\ inflight_count_' = inflight_count_ /\ Held' = Held
          /\ enqueued_' = enqueued_ /\ consumed_' = consumed_ /\ dropped_' = dropped_
      BY <1>0, <2>3 DEF Submit, Held, SubmitType, CountType
    <3>2. accepting_logs_' => /\ accepting_logs_ /\ submit_calls_' = submit_calls_ + 1
                              /\ filtered_by_level_' = filtered_by_level_
      BY <1>0, <2>3 DEF Submit, Held, SubmitType, CountType
    <3>3. Uncounted' = Uncounted
      BY SMTT(30), <1>0, <2>1, <2>3, Stay DEF Uncounted
    <3>4. Submitting' = Submitting + 1
      BY SMTT(30), <1>0, <2>1, <2>3, Enter DEF Submitting
    <3> QED  BY SMTT(30), <1>a, <1>b, <3>1, <3>2, <3>3, <3>4 DEF CountType, CountersExact
  <2> QED  BY <2>2, <2>3
<1>6. DropsReported'
  BY SMTT(30), <1>0 DEF DropsReported, Submit, CountType
<1>7. QueueType' /\ WorkerType' /\ OptionsType'
      /\ FlagType' /\ Worker' /\ LatestPathOpened'
  BY <1>0 DEF Submit, QueueType, WorkerType, OptionsType, FlagType, Worker, LatestPathOpened
<1> QED  BY <1>1, <1>2, <1>3, <1>4, <1>5, <1>6, <1>7

\* TryPush preserves IndInv.
LEMMA TryPushInv == \A t \in Threads : IndInv /\ TryPush(t) => IndInv'
<1>0. SUFFICES ASSUME NEW t \in Threads, IndInv, TryPush(t) PROVE IndInv'
  OBVIOUS
<1> USE DEF IndInv, Types, queueVars, statVars, pathVars, dropVars, fileVars, closeVars
<1>a. Uncounted \in Nat /\ Submitting \in Nat /\ Held \in Nat /\ CountType
  BY <1>0, InType DEF Uncounted, Submitting, Held, QueueType, WorkerType, WorkerRecord
<1>b. CountersExact
  BY <1>0
<1>1. QueueType'
  <2>1. <<t, submit[t].n>> \in Entries
    <3>1. submit[t].n \in 1 .. MaxLogs[t]
      BY <1>0, LoggerAssumption DEF TryPush, SubmitType
    <3> QED  BY <1>0, <3>1 DEF Entries
  <2>2. [value |-> <<t, submit[t].n>>, writer |-> t] \in Cell
    BY <1>0, <2>1 DEF Cell
  <2>3. cells' = cells \/ (cells' = Append(cells, [value |-> <<t, submit[t].n>>, writer |-> t])
                          /\ Len(cells) # Capacity)
    BY <1>0 DEF TryPush, Full, Reserved
  <2>4. Capacity \in Nat /\ Len(cells) \in Nat
    BY <1>0, LoggerAssumption DEF QueueType
  <2>5. Append(cells, [value |-> <<t, submit[t].n>>, writer |-> t]) \in Seq(Cell)
        /\ Len(Append(cells, [value |-> <<t, submit[t].n>>, writer |-> t])) = Len(cells) + 1
    BY <1>0, <2>2 DEF QueueType
  <2> QED  BY SMTT(30), <1>0, <2>3, <2>4, <2>5 DEF QueueType
<1>2. SubmitType'
  BY SMTT(30), <1>0 DEF SubmitType, TryPush, Goto, Full, Reserved, Cell
<1>3. Writers'
  <2>1. \A u \in Threads : u # t => submit'[u].at = submit[u].at
    BY <1>0 DEF TryPush, Goto, SubmitType
  <2>2. CASE Full(cells)
    <3>1. submit[t].at = "push" /\ cells' = cells
      BY <1>0, <2>2 DEF TryPush
    <3> QED  BY SMTT(30), <1>0, <2>1, <3>1 DEF Writers
  <2>3. CASE ~Full(cells)
    <3>1. /\ submit[t].at = "push" /\ submit'[t].at = "publish"
          /\ cells' = Append(cells, [value |-> <<t, submit[t].n>>, writer |-> t])
      BY <1>0, <2>3 DEF TryPush, Goto, SubmitType, Reserved
    <3>2. /\ DOMAIN cells' = 1 .. Len(cells) + 1 /\ DOMAIN cells = 1 .. Len(cells)
          /\ \A i \in 1 .. Len(cells) : cells'[i] = cells[i]
          /\ cells'[Len(cells) + 1].writer = t
      BY <1>0, <3>1 DEF QueueType
    <3> QED  BY SMTT(30), <1>0, <2>1, <3>1, <3>2 DEF Writers, QueueType
  <2> QED  BY <1>0, <2>2, <2>3
<1>4. Closing'
  BY <1>0 DEF Closing, TryPush, Goto, Full, Reserved, Cell
<1>5. CountersExact'
  <2>1. \A u \in Threads : u # t => submit'[u].at = submit[u].at
    BY <1>0 DEF TryPush, Goto, SubmitType
  <2>2. ASSUME Full(cells), submit[t].at = "push", submit'[t].at = "drop" PROVE CountersExact'
    <3>1. /\ inflight_count_' = inflight_count_ /\ Held' = Held
          /\ enqueued_' = enqueued_ /\ consumed_' = consumed_ /\ dropped_' = dropped_
      BY SMTT(30), <1>0, <2>2 DEF TryPush, Held
    <3>2. accepting_logs_' => /\ accepting_logs_ /\ submit_calls_' = submit_calls_
                              /\ filtered_by_level_' = filtered_by_level_
      BY <1>0, <2>2 DEF TryPush, Held
    <3>3. Uncounted' = Uncounted
      BY SMTT(30), <1>0, <2>1, <2>2, Stay DEF Uncounted
    <3>4. Submitting' = Submitting
      BY SMTT(30), <1>0, <2>1, <2>2, Stay DEF Submitting
    <3> QED  BY SMTT(30), <1>a, <1>b, <3>1, <3>2, <3>3, <3>4 DEF CountType, CountersExact
  <2>3. ASSUME ~Full(cells) PROVE Len(cells') = Len(cells) + 1 /\ Len(cells) \in Nat
    BY <1>0, <2>3 DEF TryPush, Reserved, QueueType
  <2>4. Len(worker.batch) \in Nat
    BY <1>0 DEF WorkerType, WorkerRecord
  <2>5. ASSUME ~Full(cells), submit[t].at = "push", submit'[t].at = "publish" PROVE CountersExact'
    <3>1. /\ inflight_count_' = inflight_count_ /\ Held' = Held + 1
          /\ enqueued_' = enqueued_ /\ consumed_' = consumed_ /\ dropped_' = dropped_
      BY SMTT(30), <1>0, <2>3, <2>4, <2>5 DEF TryPush, Held, queueVars, statVars, closeVars
    <3>2. accepting_logs_' => /\ accepting_logs_ /\ submit_calls_' = submit_calls_
                              /\ filtered_by_level_' = filtered_by_level_
      BY SMTT(30), <1>0, <2>3, <2>4, <2>5 DEF TryPush, Held, queueVars, statVars, closeVars
    <3>3. Uncounted' = Uncounted + 1
      BY SMTT(30), <1>0, <2>1, <2>5, Enter DEF Uncounted
    <3>4. Submitting' = Submitting
      BY SMTT(30), <1>0, <2>1, <2>5, Stay DEF Submitting
    <3> QED  BY SMTT(30), <1>a, <1>b, <3>1, <3>2, <3>3, <3>4 DEF CountType, CountersExact
  <2> QED  BY SMTT(30), <1>0, <2>2, <2>5 DEF TryPush, Goto, SubmitType
<1>6. WorkerType' /\ OptionsType' /\ CountType'
      /\ FlagType' /\ Worker' /\ DropsReported' /\ LatestPathOpened'
  BY SMTT(30), <1>0
    DEF TryPush, Goto, Full, Reserved, Cell, WorkerType, OptionsType, CountType, FlagType,
     Worker, DropsReported, LatestPathOpened
<1> QED  BY <1>1, <1>2, <1>3, <1>4, <1>5, <1>6

\* Publish preserves IndInv.
LEMMA PublishInv == \A t \in Threads : IndInv /\ Publish(t) => IndInv'
<1>0. SUFFICES ASSUME NEW t \in Threads, IndInv, Publish(t) PROVE IndInv'
  OBVIOUS
<1> USE DEF IndInv, Types, queueVars, statVars, pathVars, dropVars, fileVars, closeVars
<1>a. Uncounted \in Nat /\ Submitting \in Nat /\ Held \in Nat /\ CountType
  BY <1>0, InType DEF Uncounted, Submitting, Held, QueueType, WorkerType, WorkerRecord
<1>b. CountersExact
  BY <1>0
<1>1. QueueType'
  BY <1>0, PublishedType DEF QueueType, Publish
<1>2. SubmitType'
  BY <1>0 DEF SubmitType, Publish, Goto, Published, Cell
<1>3. Writers'
  BY <1>0 DEF Writers, Publish, Goto, Published, Cell, QueueType, SubmitType
<1>4. Closing'
  BY <1>0 DEF Closing, Publish, Goto, Published, Cell
<1>5. CountersExact'
  <2>1. /\ \A u \in Threads : u # t => submit'[u].at = submit[u].at
        /\ submit[t].at = "publish" /\ submit'[t].at = "count"
    BY SMTT(30), <1>0 DEF Publish, Goto, SubmitType
  <2>2. CountersExact'
    <3>1. /\ inflight_count_' = inflight_count_ /\ Held' = Held
          /\ enqueued_' = enqueued_ /\ consumed_' = consumed_ /\ dropped_' = dropped_
      BY <1>0, PublishedType DEF Publish, QueueType, Held
    <3>2. accepting_logs_' => /\ accepting_logs_ /\ submit_calls_' = submit_calls_
                              /\ filtered_by_level_' = filtered_by_level_
      BY SMTT(30), <1>0, PublishedType DEF Publish, QueueType, Held
    <3>3. Uncounted' = Uncounted
      BY SMTT(30), <1>0, <2>1, Stay DEF Uncounted
    <3>4. Submitting' = Submitting
      BY SMTT(30), <1>0, <2>1, Stay DEF Submitting
    <3> QED  BY <1>a, <1>b, <3>1, <3>2, <3>3, <3>4 DEF CountType, CountersExact
  <2> QED  BY <2>2
<1>6. WorkerType' /\ OptionsType' /\ CountType'
      /\ FlagType' /\ Worker' /\ DropsReported' /\ LatestPathOpened'
  BY <1>0 DEF Publish, Goto, Published, Cell, WorkerType, OptionsType, CountType, FlagType,
     Worker, DropsReported, LatestPathOpened
<1> QED  BY <1>1, <1>2, <1>3, <1>4, <1>5, <1>6

\* CountInflight preserves IndInv.
LEMMA CountInflightInv == \A t \in Threads : IndInv /\ CountInflight(t) => IndInv'
<1>0. SUFFICES ASSUME NEW t \in Threads, IndInv, CountInflight(t) PROVE IndInv'
  OBVIOUS
<1> USE DEF IndInv, Types, queueVars, statVars, pathVars, dropVars, fileVars, closeVars
<1>a. Uncounted \in Nat /\ Submitting \in Nat /\ Held \in Nat /\ CountType
  BY <1>0, InType DEF Uncounted, Submitting, Held, QueueType, WorkerType, WorkerRecord
<1>b. CountersExact
  BY <1>0
<1>1. SubmitType'
  BY <1>0 DEF SubmitType, CountInflight, Goto
<1>2. CountType'
  BY <1>0 DEF CountType, CountInflight, Goto
<1>3. Writers'
  BY <1>0 DEF Writers, CountInflight, Goto, QueueType, SubmitType
<1>4. Closing'
  BY <1>0 DEF Closing, CountInflight, Goto
<1>5. CountersExact'
  <2>1. /\ \A u \in Threads : u # t => submit'[u].at = submit[u].at
        /\ submit[t].at = "count" /\ submit'[t].at = "idle"
    BY <1>0 DEF CountInflight, Goto, SubmitType
  <2>2. CountersExact'
    <3>1. /\ inflight_count_' = inflight_count_ + 1 /\ Held' = Held
          /\ enqueued_' = enqueued_ + 1 /\ consumed_' = consumed_ /\ dropped_' = dropped_
      BY <1>0 DEF CountInflight, Held
    <3>2. accepting_logs_' => /\ accepting_logs_ /\ submit_calls_' = submit_calls_
                              /\ filtered_by_level_' = filtered_by_level_
      BY <1>0 DEF CountInflight, Held
    <3>3. Uncounted' = Uncounted - 1
      BY SMTT(30), <1>0, <2>1, Leave DEF Uncounted
    <3>4. Submitting' = Submitting - 1
      BY SMTT(30), <1>0, <2>1, Leave DEF Submitting
    <3> QED  BY SMTT(30), <1>a, <1>b, <3>1, <3>2, <3>3, <3>4 DEF CountType, CountersExact
  <2> QED  BY <2>2
<1>6. DropsReported'
  BY <1>0 DEF DropsReported, CountInflight, Goto, CountType
<1>7. QueueType' /\ WorkerType' /\ OptionsType'
      /\ FlagType' /\ Worker' /\ LatestPathOpened'
  BY SMTT(30), <1>0 DEF CountInflight, Goto, QueueType, WorkerType, OptionsType, FlagType, Worker,
     LatestPathOpened
<1> QED  BY SMTT(30), <1>1, <1>2, <1>3, <1>4, <1>5, <1>6, <1>7

\* Drop preserves IndInv.
LEMMA DropInv == \A t \in Threads : IndInv /\ Drop(t) => IndInv'
<1>0. SUFFICES ASSUME NEW t \in Threads, IndInv, Drop(t) PROVE IndInv'
  OBVIOUS
<1> USE DEF IndInv, Types, queueVars, statVars, pathVars, dropVars, fileVars, closeVars
<1>a. Uncounted \in Nat /\ Submitting \in Nat /\ Held \in Nat /\ CountType
  BY <1>0, InType DEF Uncounted, Submitting, Held, QueueType, WorkerType, WorkerRecord
<1>b. CountersExact
  BY <1>0
<1>1. SubmitType'
  BY <1>0 DEF SubmitType, Drop, Goto
<1>2. CountType'
  BY <1>0 DEF CountType, Drop, Goto
<1>3. Writers'
  BY <1>0 DEF Writers, Drop, Goto, QueueType, SubmitType
<1>4. Closing'
  BY <1>0 DEF Closing, Drop, Goto
<1>5. CountersExact'
  <2>1. /\ \A u \in Threads : u # t => submit'[u].at = submit[u].at
        /\ submit[t].at = "drop" /\ submit'[t].at = "idle"
    BY <1>0 DEF Drop, Goto, SubmitType
  <2>2. CountersExact'
    <3>1. /\ inflight_count_' = inflight_count_ /\ Held' = Held
          /\ enqueued_' = enqueued_ /\ consumed_' = consumed_ /\ dropped_' = dropped_ + 1
      BY <1>0 DEF Drop, Held
    <3>2. accepting_logs_' => /\ accepting_logs_ /\ submit_calls_' = submit_calls_
                              /\ filtered_by_level_' = filtered_by_level_
      BY <1>0 DEF Drop, Held
    <3>3. Uncounted' = Uncounted
      BY <1>0, <2>1, Stay DEF Uncounted
    <3>4. Submitting' = Submitting - 1
      BY <1>0, <2>1, Leave DEF Submitting
    <3> QED  BY SMTT(30), <1>a, <1>b, <3>1, <3>2, <3>3, <3>4 DEF CountType, CountersExact
  <2> QED  BY <2>2
<1>6. DropsReported'
  BY <1>0 DEF DropsReported, Drop, Goto, CountType
<1>7. QueueType' /\ WorkerType' /\ OptionsType'
      /\ FlagType' /\ Worker' /\ LatestPathOpened'
  BY <1>0 DEF Drop, Goto, QueueType, WorkerType, OptionsType, FlagType, Worker, LatestPathOpened
<1> QED  BY <1>1, <1>2, <1>3, <1>4, <1>5, <1>6, <1>7

\* SetLogFile preserves IndInv.
LEMMA SetLogFileInv == IndInv /\ SetLogFile => IndInv'
<1>0. SUFFICES ASSUME IndInv, SetLogFile PROVE IndInv'
  OBVIOUS
<1> USE DEF IndInv, Types, queueVars, statVars, pathVars, dropVars, fileVars, closeVars
<1>1. CountType'
  BY <1>0 DEF CountType, SetLogFile, Request
<1>2. FlagType'
  BY <1>0 DEF FlagType, SetLogFile, Request
<1>3. LatestPathOpened'
  BY SMTT(30), <1>0 DEF LatestPathOpened, SetLogFile, Request, FlagType
<1>4. QueueType' /\ SubmitType' /\ WorkerType' /\ OptionsType'
      /\ Writers' /\ Worker' /\ Closing' /\ CountersExact' /\ DropsReported'
  BY <1>0 DEF SetLogFile, Request, QueueType, SubmitType, WorkerType, OptionsType, Writers,
     Worker, Closing, CountersExact, DropsReported, Uncounted, Submitting, In, Held
<1> QED  BY <1>1, <1>2, <1>3, <1>4

\* InitLogger preserves IndInv.
LEMMA InitLoggerInv == \A o \in Options : IndInv /\ InitLogger(o) => IndInv'
<1>0. SUFFICES ASSUME NEW o \in Options, IndInv, InitLogger(o) PROVE IndInv'
  OBVIOUS
<1> USE DEF IndInv, Types, queueVars, statVars, pathVars, dropVars, fileVars, closeVars
<1>1. OptionsType'
  BY SMTT(30), <1>0, ClampedType DEF OptionsType, InitLogger
<1>2. CountType'
  BY <1>0 DEF CountType, InitLogger, Request
<1>3. FlagType'
  BY SMTT(30), <1>0 DEF FlagType, InitLogger, Request
<1>4. LatestPathOpened'
  BY SMTT(30), <1>0 DEF LatestPathOpened, InitLogger, Request, FlagType
<1>5. QueueType' /\ SubmitType' /\ WorkerType' /\ Writers'
      /\ Worker' /\ Closing' /\ CountersExact' /\ DropsReported'
  BY <1>0 DEF InitLogger, Request, QueueType, SubmitType, WorkerType, Writers, Worker, Closing,
     CountersExact, DropsReported, Uncounted, Submitting, In, Held
<1> QED  BY SMTT(30), <1>1, <1>2, <1>3, <1>4, <1>5

\* RequestReopen preserves IndInv.
LEMMA RequestReopenInv == IndInv /\ RequestReopen => IndInv'
<1>0. SUFFICES ASSUME IndInv, RequestReopen PROVE IndInv'
  OBVIOUS
<1> USE DEF IndInv, Types, queueVars, statVars, pathVars, dropVars, fileVars, closeVars
<1>1. FlagType'
  BY <1>0 DEF FlagType, RequestReopen
<1>2. LatestPathOpened'
  BY SMTT(30), <1>0 DEF LatestPathOpened, RequestReopen, FlagType
<1>3. QueueType' /\ SubmitType' /\ WorkerType' /\ OptionsType' /\ CountType'
      /\ Writers' /\ Worker' /\ Closing' /\ CountersExact' /\ DropsReported'
  BY <1>0 DEF RequestReopen, QueueType, SubmitType, WorkerType, OptionsType, CountType, Writers,
     Worker, Closing, CountersExact, DropsReported, Uncounted, Submitting, In, Held
<1> QED  BY <1>1, <1>2, <1>3

\* SetLogLevel preserves IndInv.
LEMMA SetLogLevelInv == \A l \in 0 .. Off : IndInv /\ SetLogLevel(l) => IndInv'
<1>0. SUFFICES ASSUME NEW l \in 0 .. Off, IndInv, SetLogLevel(l) PROVE IndInv'
  OBVIOUS
<1> USE DEF IndInv, Types, queueVars, statVars, pathVars, dropVars, fileVars, closeVars
<1>1. OptionsType'
  BY <1>0 DEF OptionsType, SetLogLevel, Request
<1>2. CountType'
  BY <1>0 DEF CountType, SetLogLevel, Request
<1>3. QueueType' /\ SubmitType' /\ WorkerType' /\ FlagType' /\ Writers'
      /\ Worker' /\ Closing' /\ CountersExact' /\ DropsReported' /\ LatestPathOpened'
  BY <1>0 DEF SetLogLevel, Request, QueueType, SubmitType, WorkerType, FlagType, Writers,
     Worker, Closing, CountersExact, DropsReported, LatestPathOpened, Uncounted, Submitting, In,
     Held
<1> QED  BY <1>1, <1>2, <1>3

\* Flush preserves IndInv.
LEMMA FlushInv == IndInv /\ Flush => IndInv'
<1>0. SUFFICES ASSUME IndInv, Flush PROVE IndInv'
  OBVIOUS
<1> USE DEF IndInv, Types, queueVars, statVars, pathVars, dropVars, fileVars, closeVars
<1>1. CountType'
  BY <1>0 DEF CountType, Flush, Request
<1>2. FlagType'
  BY SMTT(30), <1>0 DEF FlagType, Flush, Request
<1>3. QueueType' /\ SubmitType' /\ WorkerType' /\ OptionsType' /\ Writers'
      /\ Worker' /\ Closing' /\ CountersExact' /\ DropsReported' /\ LatestPathOpened'
  BY <1>0 DEF Flush, Request, QueueType, SubmitType, WorkerType, OptionsType, Writers, Worker,
     Closing, CountersExact, DropsReported, LatestPathOpened, Uncounted, Submitting, In, Held
<1> QED  BY <1>1, <1>2, <1>3

\* Open preserves IndInv.
LEMMA OpenInv == IndInv /\ Open => IndInv'
<1>0. SUFFICES ASSUME IndInv, Open PROVE IndInv'
  OBVIOUS
<1> USE DEF IndInv, Types, queueVars, statVars, pathVars, dropVars, fileVars, closeVars
<1>1. WorkerType'
  BY <1>0 DEF WorkerType, Open, WGoto, WorkerRecord, Places
<1>2. FlagType'
  BY Zenon, <1>0 DEF FlagType, Open, WGoto
<1>3. Worker'
  BY <1>0 DEF Worker, Open, WGoto, WorkerType, WorkerRecord, Places
<1>4. Closing'
  BY <1>0 DEF Closing, Open, WGoto
<1>5. CountersExact'
  BY <1>0 DEF CountersExact, Open, WGoto, CountType, WorkerType, WorkerRecord, QueueType, Held,
     Uncounted, Submitting, In
<1>6. LatestPathOpened'
  BY <1>0 DEF LatestPathOpened, Open, WGoto, FlagType
<1>7. QueueType' /\ SubmitType' /\ OptionsType'
      /\ CountType' /\ Writers' /\ DropsReported'
  BY SMTT(30), <1>0 DEF Open, WGoto, QueueType, SubmitType, OptionsType, CountType, Writers, DropsReported
<1> QED  BY SMTT(30), <1>1, <1>2, <1>3, <1>4, <1>5, <1>6, <1>7

\* CheckReopen preserves IndInv.
LEMMA CheckReopenInv == IndInv /\ CheckReopen => IndInv'
<1>0. SUFFICES ASSUME IndInv, CheckReopen PROVE IndInv'
  OBVIOUS
<1> USE DEF IndInv, Types, queueVars, statVars, pathVars, dropVars, fileVars, closeVars
<1>1. WorkerType'
  <2>1. PICK p \in Places : worker' = [worker EXCEPT !.at = p, !.limit = options.max_batch_size]
    BY Zenon, <1>0 DEF CheckReopen, Places
  <2>2. worker.batch = <<>> /\ options.max_batch_size \in Nat \ {0}
    BY <1>0 DEF CheckReopen, OptionsType, Worker
  <2>3. worker' \in WorkerRecord
    BY Zenon, <1>0, <2>1, <2>2, WithLimit DEF WorkerType
  <2>4. worker'.batch = worker.batch /\ worker'.limit = options.max_batch_size
    BY <1>0, <2>1 DEF WorkerType, WorkerRecord
  <2> QED  BY <2>2, <2>3, <2>4 DEF WorkerType
<1>2. FlagType'
  BY ZenonT(40), <1>0 DEF FlagType, CheckReopen
<1>3. Worker'
  BY <1>0 DEF Worker, CheckReopen, WorkerType, WorkerRecord, Places
<1>4. Closing'
  BY <1>0 DEF Closing, CheckReopen
<1>5. CountersExact'
  BY <1>0 DEF CountersExact, CheckReopen, CountType, WorkerType, WorkerRecord, QueueType, Held,
     Uncounted, Submitting, In
<1>6. LatestPathOpened'
  BY <1>0 DEF LatestPathOpened, CheckReopen, FlagType
<1>7. QueueType' /\ SubmitType' /\ OptionsType'
      /\ CountType' /\ Writers' /\ DropsReported'
  BY <1>0 DEF CheckReopen, QueueType, SubmitType, OptionsType, CountType, Writers, DropsReported
<1> QED  BY <1>1, <1>2, <1>3, <1>4, <1>5, <1>6, <1>7

\* PopOne preserves IndInv.
LEMMA PopOneInv == IndInv /\ PopOne => IndInv'
<1>0. SUFFICES ASSUME IndInv, PopOne PROVE IndInv'
  OBVIOUS
<1> USE DEF IndInv, Types, queueVars, statVars, pathVars, dropVars, fileVars, closeVars
<1>1. QueueType'
  <2>1. cells # <<>> /\ cells' = Tail(cells)
    BY <1>0 DEF PopOne, Ready
  <2>2. Tail(cells) \in Seq(Cell) /\ Len(Tail(cells)) = Len(cells) - 1 /\ Len(cells) \in Nat
    BY <1>0, <2>1 DEF QueueType
  <2> QED  BY <1>0, <2>1, <2>2, LoggerAssumption DEF QueueType
<1>2. WorkerType'
  <2>1. cells[1].value \in Entries
    <3>1. cells # <<>>
      BY <1>0 DEF PopOne, Ready
    <3>2. cells[1] \in Cell
      BY <1>0, <3>1 DEF QueueType
    <3> QED  BY <1>0, <3>2 DEF Cell
  <2>2. Append(worker.batch, cells[1].value) \in Seq(Entries)
        /\ Len(Append(worker.batch, cells[1].value)) = Len(worker.batch) + 1
    BY <1>0, <2>1 DEF WorkerType, WorkerRecord, Places
  <2>3. worker' = [worker EXCEPT !.batch = Append(worker.batch, cells[1].value)]
        /\ Len(worker.batch) < worker.limit
    BY <1>0 DEF PopOne
  <2>4. worker' \in WorkerRecord
    BY Zenon, <1>0, <2>2, <2>3, WithEntries DEF WorkerType
  <2>5. worker'.batch = Append(worker.batch, cells[1].value) /\ worker'.limit = worker.limit
    BY <1>0, <2>3 DEF WorkerType, WorkerRecord
  <2>6. Len(worker.batch) \in Nat /\ worker.limit \in Nat
    BY <1>0 DEF WorkerType, WorkerRecord
  <2> QED  BY SMTT(30), <2>2, <2>3, <2>4, <2>5, <2>6 DEF WorkerType
<1>3. Writers'
  BY <1>0 DEF Writers, PopOne, Ready, Cell, QueueType, SubmitType
<1>4. Worker'
  BY <1>0 DEF Worker, PopOne, Ready, Cell, WorkerType, WorkerRecord, Places
<1>5. Closing'
  BY <1>0 DEF Closing, PopOne, Ready, Cell
<1>6. CountersExact'
  BY <1>0 DEF CountersExact, PopOne, Ready, Cell, CountType, WorkerType, WorkerRecord,
     QueueType, Held, Uncounted, Submitting, In
<1>7. LatestPathOpened'
  BY <1>0 DEF LatestPathOpened, PopOne, Ready, Cell, FlagType
<1>8. SubmitType' /\ OptionsType' /\ CountType' /\ FlagType' /\ DropsReported'
  BY <1>0 DEF PopOne, Ready, Cell, SubmitType, OptionsType, CountType, FlagType, DropsReported
<1> QED  BY SMTT(30), <1>1, <1>2, <1>3, <1>4, <1>5, <1>6, <1>7, <1>8

\* PopEnd preserves IndInv.
LEMMA PopEndInv == IndInv /\ PopEnd => IndInv'
<1>0. SUFFICES ASSUME IndInv, PopEnd PROVE IndInv'
  OBVIOUS
<1> USE DEF IndInv, Types, queueVars, statVars, pathVars, dropVars, fileVars, closeVars
<1>1. WorkerType'
  <2>1. Len(worker.batch) \in Nat
    BY <1>0 DEF WorkerType, WorkerRecord, Places
  <2> QED  BY Zenon, <1>0, <2>1 DEF WorkerType, WorkerRecord, Places, PopEnd
<1>2. Worker'
  BY SMTT(30), <1>0 DEF Worker, PopEnd, Ready, WorkerType, WorkerRecord, Places
<1>3. Closing'
  <2>1. /\ UNCHANGED <<closer, accepting_logs_, stop_requested, quiet, submit, cells>>
        /\ worker'.at \in {"write", "summary"} /\ worker'.draining = worker.draining
        /\ worker'.at = "summary" => worker.batch = <<>>
        /\ worker.at = "pop"
    BY <1>0 DEF PopEnd, WorkerType, WorkerRecord, Places
  <2>2. ASSUME quiet, worker'.at = "summary" PROVE cells = <<>>
    <3>1. Len(worker.batch) # worker.limit
      BY <1>0, <2>1, <2>2 DEF WorkerType, WorkerRecord, Places
    <3>2. ~Ready(cells)
      BY <1>0, <3>1 DEF PopEnd
    <3>3. SUFFICES ASSUME cells # <<>> PROVE FALSE
      OBVIOUS
    <3>4. cells[1].writer # None /\ 1 \in DOMAIN cells
      BY <1>0, <3>2, <3>3 DEF Ready, QueueType
    <3> QED  BY <1>0, <2>2, <3>4 DEF Writers, Closing
  <2> QED  BY <1>0, <2>1, <2>2 DEF Closing
<1>4. CountersExact'
  BY <1>0 DEF CountersExact, PopEnd, Ready, CountType, WorkerType, WorkerRecord, QueueType,
     Held, Uncounted, Submitting, In
<1>5. LatestPathOpened'
  BY <1>0 DEF LatestPathOpened, PopEnd, Ready, FlagType
<1>6. QueueType' /\ SubmitType' /\ OptionsType'
      /\ CountType' /\ FlagType' /\ Writers' /\ DropsReported'
  BY <1>0 DEF PopEnd, Ready, QueueType, SubmitType, OptionsType, CountType, FlagType, Writers,
     DropsReported
<1> QED  BY SMTT(30), <1>1, <1>2, <1>3, <1>4, <1>5, <1>6

\* WriteBatch preserves IndInv.
LEMMA WriteBatchInv == IndInv /\ WriteBatch => IndInv'
<1>0. SUFFICES ASSUME IndInv, WriteBatch PROVE IndInv'
  OBVIOUS
<1> USE DEF IndInv, Types, queueVars, statVars, pathVars, dropVars, fileVars, closeVars
<1>a. Uncounted \in Nat /\ Submitting \in Nat /\ Held \in Nat /\ CountType
  BY <1>0, InType DEF Uncounted, Submitting, Held, QueueType, WorkerType, WorkerRecord
<1>b. CountersExact
  BY <1>0
<1>1. WorkerType'
  <2>1. PICK p \in Places : worker' = [worker EXCEPT !.batch = <<>>, !.at = p]
    BY Zenon, <1>0 DEF WriteBatch, Places
  <2>2. worker' \in WorkerRecord
    <3>1. worker \in WorkerRecord /\ <<>> \in Seq(Entries)
      BY <1>0 DEF WorkerType
    <3> QED  BY Zenon, <2>1, <3>1, WithBatch
  <2>3. worker'.batch = <<>>
    BY <1>0, <2>1 DEF WorkerType, WorkerRecord
  <2>4. worker'.limit \in Nat /\ Len(<<>>) = 0
    BY <2>2 DEF WorkerRecord
  <2> QED  BY <2>2, <2>3, <2>4 DEF WorkerType
<1>2. CountType'
  <2>1. worker.drained \in Nat
    BY <1>0 DEF WorkerType, WorkerRecord
  <2> QED  BY <1>0, <2>1 DEF WriteBatch, Subtracted, CountType
<1>3. FlagType'
  BY <1>0 DEF FlagType, WriteBatch, WriteBuffer, Subtracted
<1>4. Worker'
  BY SMTT(30), <1>0 DEF Worker, WriteBatch, WriteBuffer, Subtracted, WorkerType, WorkerRecord, Places
<1>5. Closing'
  <2>1. /\ UNCHANGED <<closer, accepting_logs_, stop_requested, quiet, submit, cells, dropVars>>
        /\ worker.at = "write" /\ worker'.at \in {"pop", "summary"}
        /\ worker'.draining = worker.draining 
        /\ worker'.at = "summary" => ~worker.draining
    BY <1>0 DEF WriteBatch, WorkerType, WorkerRecord, Places
  <2> QED  BY <1>0, <2>1 DEF Closing
<1>6. CountersExact'
  <2>1. PICK d \in Nat : d = worker.drained /\ d = Len(worker.batch)
    BY <1>0 DEF WriteBatch, Worker, WorkerType, WorkerRecord
  <2>2. d \in Nat /\ submit' = submit
    BY <1>0, <2>1 DEF WriteBatch
  <2>3. CountersExact'
    <3>1. inflight_count_' = inflight_count_ - d /\ consumed_' = consumed_ + d
      BY <1>0, <2>1 DEF WriteBatch, Subtracted
    <3>2. Held' = Held - d
      BY <1>0, <2>1 DEF WriteBatch, WorkerType, WorkerRecord, QueueType, Held
    <3>3. /\ enqueued_' = enqueued_ /\ dropped_' = dropped_ /\ submit_calls_' = submit_calls_
          /\ filtered_by_level_' = filtered_by_level_ /\ accepting_logs_' = accepting_logs_
      BY <1>0 DEF WriteBatch
    <3>4. Uncounted' = Uncounted /\ Submitting' = Submitting
      BY <2>2 DEF In, Uncounted, Submitting
    <3> QED  BY SMTT(30), <1>a, <1>b, <2>2, <3>1, <3>2, <3>3, <3>4 DEF CountType, CountersExact
  <2> QED  BY <2>3
<1>7. DropsReported'
  BY <1>0 DEF DropsReported, WriteBatch, WriteBuffer, Subtracted, CountType
<1>8. LatestPathOpened'
  BY <1>0 DEF LatestPathOpened, WriteBatch, WriteBuffer, Subtracted, FlagType
<1>9. QueueType' /\ SubmitType' /\ OptionsType' /\ Writers'
  BY SMTT(30), <1>0
    DEF WriteBatch, WriteBuffer, Subtracted, QueueType, SubmitType, OptionsType, Writers
<1> QED  BY SMTT(30), <1>1, <1>2, <1>3, <1>4, <1>5, <1>6, <1>7, <1>8, <1>9

\* EmitDropSummaryIfNeeded preserves IndInv.
LEMMA EmitDropSummaryIfNeededInv == IndInv /\ EmitDropSummaryIfNeeded => IndInv'
<1>0. SUFFICES ASSUME IndInv, EmitDropSummaryIfNeeded PROVE IndInv'
  OBVIOUS
<1> USE DEF IndInv, Types, queueVars, statVars, pathVars, dropVars, fileVars, closeVars
<1>1. WorkerType'
  BY <1>0 DEF WorkerType, EmitDropSummaryIfNeeded, WGoto, WorkerRecord, Places
<1>2. CountType'
  BY <1>0 DEF CountType, EmitDropSummaryIfNeeded, WGoto
<1>3. FlagType'
  BY <1>0 DEF FlagType, EmitDropSummaryIfNeeded, WGoto
<1>4. Worker'
  BY <1>0 DEF Worker, EmitDropSummaryIfNeeded, WGoto, WorkerType, WorkerRecord, Places
<1>5. Closing'
  BY <1>0 DEF Closing, EmitDropSummaryIfNeeded, WGoto
<1>6. CountersExact'
  BY <1>0 DEF CountersExact, EmitDropSummaryIfNeeded, WGoto, CountType, WorkerType,
     WorkerRecord, QueueType, Held, Uncounted, Submitting, In
<1>7. DropsReported'
  BY <1>0 DEF DropsReported, EmitDropSummaryIfNeeded, WGoto, CountType
<1>8. LatestPathOpened'
  BY <1>0 DEF LatestPathOpened, EmitDropSummaryIfNeeded, WGoto, FlagType
<1>9. QueueType' /\ SubmitType' /\ OptionsType' /\ Writers'
  BY SMTT(30), <1>0 DEF EmitDropSummaryIfNeeded, WGoto, QueueType, SubmitType, OptionsType, Writers
<1> QED  BY <1>1, <1>2, <1>3, <1>4, <1>5, <1>6, <1>7, <1>8, <1>9

\* FlushFile preserves IndInv.
LEMMA FlushFileInv == IndInv /\ FlushFile => IndInv'
<1>0. SUFFICES ASSUME IndInv, FlushFile PROVE IndInv'
  OBVIOUS
<1> USE DEF IndInv, Types, queueVars, statVars, pathVars, dropVars, fileVars, closeVars
<1>1. WorkerType'
  BY Zenon, <1>0 DEF WorkerType, FlushFile, AfterFlush, WorkerRecord, Places
<1>2. FlagType'
  BY Zenon, <1>0 DEF FlagType, FlushFile, AfterFlush
<1>3. Worker'
  BY <1>0 DEF Worker, FlushFile, AfterFlush, WorkerType, WorkerRecord, Places
<1>4. Closing'
  BY <1>0 DEF Closing, FlushFile, AfterFlush
<1>5. CountersExact'
  BY <1>0 DEF CountersExact, FlushFile, AfterFlush, CountType, WorkerType, WorkerRecord,
     QueueType, Held, Uncounted, Submitting, In
<1>6. LatestPathOpened'
  BY <1>0 DEF LatestPathOpened, FlushFile, AfterFlush, FlagType
<1>7. QueueType' /\ SubmitType' /\ OptionsType'
      /\ CountType' /\ Writers' /\ DropsReported'
  BY SMTT(30), <1>0
    DEF FlushFile, AfterFlush, QueueType, SubmitType, OptionsType, CountType, Writers,
     DropsReported
<1> QED  BY <1>1, <1>2, <1>3, <1>4, <1>5, <1>6, <1>7

\* NoFlush preserves IndInv.
LEMMA NoFlushInv == IndInv /\ NoFlush => IndInv'
<1>0. SUFFICES ASSUME IndInv, NoFlush PROVE IndInv'
  OBVIOUS
<1> USE DEF IndInv, Types, queueVars, statVars, pathVars, dropVars, fileVars, closeVars
<1>1. WorkerType'
  BY Zenon, <1>0 DEF WorkerType, NoFlush, AfterFlush, WorkerRecord, Places
<1>2. Worker'
  BY <1>0 DEF Worker, NoFlush, AfterFlush, WorkerType, WorkerRecord, Places
<1>3. Closing'
  BY <1>0 DEF Closing, NoFlush, AfterFlush
<1>4. CountersExact'
  BY <1>0 DEF CountersExact, NoFlush, AfterFlush, CountType, WorkerType, WorkerRecord,
     QueueType, Held, Uncounted, Submitting, In
<1>5. LatestPathOpened'
  BY <1>0 DEF LatestPathOpened, NoFlush, AfterFlush, FlagType
<1>6. QueueType' /\ SubmitType' /\ OptionsType'
      /\ CountType' /\ FlagType' /\ Writers' /\ DropsReported'
  BY SMTT(30), <1>0 DEF NoFlush, AfterFlush, QueueType, SubmitType, OptionsType, CountType, FlagType,
     Writers, DropsReported
<1> QED  BY <1>1, <1>2, <1>3, <1>4, <1>5, <1>6

\* CheckStop preserves IndInv.
LEMMA CheckStopInv == IndInv /\ CheckStop => IndInv'
<1>0. SUFFICES ASSUME IndInv, CheckStop PROVE IndInv'
  OBVIOUS
<1> USE DEF IndInv, Types, queueVars, statVars, pathVars, dropVars, fileVars, closeVars
<1>1. WorkerType'
  BY ZenonT(40), <1>0 DEF WorkerType, CheckStop, WorkerRecord, Places
<1>2. Worker'
  BY <1>0 DEF Worker, CheckStop, WorkerType, WorkerRecord, Places
<1>3. Closing'
  BY <1>0 DEF Closing, CheckStop
<1>4. CountersExact'
  BY <1>0 DEF CountersExact, CheckStop, CountType, WorkerType, WorkerRecord, QueueType, Held,
     Uncounted, Submitting, In
<1>5. LatestPathOpened'
  BY <1>0 DEF LatestPathOpened, CheckStop, FlagType
<1>6. QueueType' /\ SubmitType' /\ OptionsType'
      /\ CountType' /\ FlagType' /\ Writers' /\ DropsReported'
  BY <1>0 DEF CheckStop, QueueType, SubmitType, OptionsType, CountType, FlagType, Writers,
     DropsReported
<1> QED  BY <1>1, <1>2, <1>3, <1>4, <1>5, <1>6

\* Shutdown preserves IndInv.
LEMMA ShutdownInv == IndInv /\ accepting_logs_ /\ Shutdown => IndInv'
<1> SUFFICES ASSUME IndInv, accepting_logs_, Shutdown PROVE IndInv'
  BY Zenon
<1>0. /\ accepting_logs_' = FALSE /\ closer' = "stop"
      /\ quiet' = \A t \in Threads : submit[t].at = "idle"
      /\ UNCHANGED <<queueVars, options, flush_requested_, pathVars, statVars, dropVars, submit,
                     worker, fileVars, stop_requested>>
  BY Zenon DEF Shutdown
<1>1. FlagType'
  BY ZenonT(40), <1>0 DEF FlagType, IndInv, Types, pathVars, fileVars
<1>2. Worker'
  BY SMTT(30), <1>0 DEF IndInv, Types, Worker, queueVars, dropVars, fileVars, pathVars,
     WorkerType, WorkerRecord, Places
<1>3. Closing'
  <2>1. UNCHANGED <<cells, submit, worker, stop_requested, dropVars>>
    BY Zenon, <1>0 DEF queueVars
  <2> QED  BY SMTT(30), <1>0, <2>1 DEF IndInv, Closing, Worker, dropVars
<1>4. CountersExact'
  BY ZenonT(40), <1>0 DEF IndInv, CountersExact, queueVars, statVars, dropVars, Held, Uncounted,
     Submitting, In
<1>5. QueueType' /\ SubmitType' /\ WorkerType' /\ OptionsType' /\ CountType'
  <2>1. QueueType' /\ OptionsType' /\ CountType'
    BY ZenonT(40), <1>0 DEF IndInv, Types, queueVars, statVars, pathVars, dropVars, fileVars,
       QueueType, OptionsType, CountType
  <2>2. SubmitType' /\ WorkerType'
    BY Zenon, <1>0 DEF IndInv, Types, queueVars, SubmitType, WorkerType
  <2> QED  BY Zenon, <2>1, <2>2
<1>6. Writers' /\ DropsReported' /\ LatestPathOpened'
  BY ZenonT(40), <1>0 DEF IndInv, queueVars, statVars, pathVars, dropVars, fileVars, Writers,
     DropsReported, LatestPathOpened
<1> QED  BY ZenonT(40), <1>1, <1>2, <1>3, <1>4, <1>5, <1>6 DEF IndInv, Types

\* RequestStop preserves IndInv.
LEMMA RequestStopInv == IndInv /\ RequestStop => IndInv'
<1>0. SUFFICES ASSUME IndInv, RequestStop PROVE IndInv'
  OBVIOUS
<1> USE DEF IndInv, Types, queueVars, statVars, pathVars, dropVars, fileVars, closeVars
<1>1. FlagType'
  BY SMTT(30), <1>0 DEF FlagType, RequestStop
<1>2. Worker'
  BY SMTT(30), <1>0 DEF Worker, RequestStop, WorkerType, WorkerRecord, Places
<1>3. Closing'
  BY SMTT(30), <1>0 DEF Closing, RequestStop
<1>4. QueueType' /\ SubmitType' /\ WorkerType' /\ OptionsType'
      /\ CountType' /\ Writers' /\ CountersExact' /\ DropsReported' /\ LatestPathOpened'
  BY SMTT(30), <1>0
    DEF RequestStop, QueueType, SubmitType, WorkerType, OptionsType, CountType, Writers,
     CountersExact, DropsReported, LatestPathOpened, Uncounted, Submitting, In, Held
<1> QED  BY SMTT(30), <1>1, <1>2, <1>3, <1>4

\* Join preserves IndInv.
LEMMA JoinInv == IndInv /\ Join => IndInv'
<1>0. SUFFICES ASSUME IndInv, Join PROVE IndInv'
  OBVIOUS
<1> USE DEF IndInv, Types, queueVars, statVars, pathVars, dropVars, fileVars, closeVars
<1>1. FlagType'
  BY Zenon, <1>0 DEF FlagType, Join, CloseFile
<1>2. Worker'
  BY SMTT(30), <1>0 DEF Worker, Join, CloseFile, WorkerType, WorkerRecord, Places
<1>3. Closing'
  BY SMTT(30), <1>0 DEF Closing, Join, CloseFile
<1>4. QueueType' /\ SubmitType' /\ WorkerType' /\ OptionsType'
      /\ CountType' /\ Writers' /\ CountersExact' /\ DropsReported' /\ LatestPathOpened'
  BY SMTT(30), <1>0 DEF Join, CloseFile, QueueType, SubmitType, WorkerType, OptionsType, CountType,
     Writers, CountersExact, DropsReported, LatestPathOpened, Uncounted, Submitting, In, Held
<1> QED  BY <1>1, <1>2, <1>3, <1>4

\* Every step preserves IndInv.
LEMMA NextInv == IndInv /\ [Next]_vars => IndInv'
<1> SUFFICES ASSUME IndInv, [Next]_vars PROVE IndInv'
  BY SMTT(30)
<1>1. CASE UNCHANGED vars
  <2> USE <1>1 DEF vars, queueVars, statVars, pathVars, dropVars, fileVars, closeVars
  <2>1. QueueType' /\ SubmitType' /\ WorkerType' /\ OptionsType' /\ CountType'
    BY SMTT(30) DEF IndInv, Types, QueueType, SubmitType, WorkerType, OptionsType, CountType
  <2>2. FlagType' /\ Writers'
    BY SMTT(30) DEF IndInv, Types, FlagType, Writers
  <2>3. Worker' /\ Closing'
    BY SMTT(30) DEF IndInv, Worker, Closing
  <2>4. CountersExact' /\ DropsReported' /\ LatestPathOpened'
    BY DEF IndInv, CountersExact, Uncounted, Submitting, In, Held, DropsReported,
       LatestPathOpened
  <2> QED  BY SMTT(30), <2>1, <2>2, <2>3, <2>4 DEF IndInv, Types
<1> QED
  BY ZenonT(40), <1>1, SubmitInv, TryPushInv, PublishInv, CountInflightInv, DropInv, SetLogFileInv,
     InitLoggerInv, RequestReopenInv, SetLogLevelInv, FlushInv, OpenInv, CheckReopenInv,
     PopOneInv, PopEndInv, WriteBatchInv, EmitDropSummaryIfNeededInv, FlushFileInv, NoFlushInv,
     CheckStopInv, ShutdownInv, RequestStopInv, JoinInv
     DEF Next, InSubmit, Configure, WorkerLoop, Shutdown

\* The inductive invariant holds in every state of the logger (all actions of
\* async_logger.cpp).
THEOREM Invariance == Spec => []IndInv
<1> QED  BY InitInv, NextInv, PTL DEF Spec

\* The queue never outgrows the ring, nor a batch the limit it is popped with.
THEOREM LoggerTypeCorrect == Spec => []TypeOK
<1>1. IndInv => TypeOK
  BY TypesOK DEF IndInv
<1> QED  BY <1>1, Invariance, PTL

\* Although Submit counts an entry after the worker may have taken it, and
\* inflight_count_ is below zero meanwhile, the counters are exact up to the
\* threads that are about to count, for any number of threads.
THEOREM LoggerCountersExact == Spec => []CountersExact
<1>1. IndInv => CountersExact
  BY DEF IndInv
<1> QED  BY <1>1, Invariance, PTL

\* Every dropped entry is told once, is held back or waits to be collected.
THEOREM LoggerDropsReported == Spec => []DropsReported
<1>1. IndInv => DropsReported
  BY DEF IndInv
<1> QED  BY <1>1, Invariance, PTL

\* A change of the log file that races with the worker's opening of a file
\* leaves a request behind.
THEOREM LoggerLatestPathOpened == Spec => []LatestPathOpened
<1>1. IndInv => LatestPathOpened
  BY DEF IndInv
<1> QED  BY <1>1, Invariance, PTL

\* A Shutdown that no Submit overlaps returns with an empty queue, everything
\* enqueued written and flushed and every drop told, whatever the number of
\* threads, the capacity and the options.
THEOREM LoggerShutdownDrains == Spec => []ShutdownDrains
<1>1. IndInv => ShutdownDrains
  <2>0. SUFFICES ASSUME IndInv, quiet, closer = "closed"
        PROVE  cells = <<>> /\ consumed_ = enqueued_ /\ ~dirty /\ reported = dropped_
    BY DEF ShutdownDrains
  <2>1. worker.at = "done" /\ worker.draining /\ ~dirty /\ worker.batch = <<>>
    BY SMTT(30), <2>0 DEF IndInv, Closing, Worker
  <2>2. cells = <<>> /\ dropped_for_summary_ = 0 /\ pending_drop_summary_ = 0
    BY <2>0, <2>1 DEF IndInv, Closing
  <2>3. Uncounted = 0
    <3>1. {t \in Threads : submit[t].at \in {"publish", "count"}} = {}
      BY <2>0 DEF IndInv, Closing
    <3> QED  BY <3>1, FS_EmptySet DEF Uncounted, In
  <2>4. Held = 0
    BY <2>1, <2>2 DEF Held
  <2>5. consumed_ = enqueued_
    BY <2>0, <2>3, <2>4 DEF IndInv, CountersExact, Types, CountType
  <2>6. reported = dropped_
    BY <2>0, <2>2 DEF IndInv, DropsReported, Types, CountType
  <2> QED  BY <2>1, <2>2, <2>5, <2>6
<1> QED  BY <1>1, Invariance, PTL

-----------------------------------------------------------------------------
(* The order of the entries.                                               *)

\* Entry n of thread t is not beyond the one t logged last, and is not the one
\* that t is about to push.
Behind(t, n) == n <= submit[t].n /\ (submit[t].at = "push" => n < submit[t].n)

LogInOrder == log \in [Threads -> Nat] /\ \A t \in Threads : Behind(t, log[t])

BatchInOrder ==
  \A i \in DOMAIN worker.batch : Behind(worker.batch[i][1], worker.batch[i][2])

\* The entries of a thread in the queue go on where the batch and the log stop.
CellsInOrder ==
  \A j \in DOMAIN cells :
    /\ log[cells[j].value[1]] < cells[j].value[2]
    /\ Behind(cells[j].value[1], cells[j].value[2])
    /\ \A i \in 1 .. j - 1 :
         cells[i].value[1] = cells[j].value[1] => cells[i].value[2] < cells[j].value[2]
    /\ \A i \in DOMAIN worker.batch :
         worker.batch[i][1] = cells[j].value[1] => worker.batch[i][2] < cells[j].value[2]

OrderInv == LogInOrder /\ WrittenOnceInOrder /\ BatchInOrder /\ CellsInOrder

\* A set of naturals has a least element, and a greatest one if it is bounded.
LEMMA LeastNat ==
  ASSUME NEW T \in SUBSET Nat, T # {}
  PROVE  \E x \in T : \A y \in T : ~(y < x)
<1> DEFINE R == OpToRel(<, Nat)
<1>1. IsWellFoundedOn(R, Nat)
  BY Zenon, NatLessThanWellFounded
<1>2. \A x \in Nat, y \in Nat : <<y, x>> \in R <=> y < x
  BY SMTT(30) DEF OpToRel
<1> HIDE DEF R
<1>3. \E x \in T : \A y \in T : ~ (<<y, x>> \in R)
  BY Zenon, <1>1, WFMin
<1> QED  BY Zenon, <1>2, <1>3

\* Max of a bounded set of numbers.
LEMMA MaxNat ==
  ASSUME NEW S \in SUBSET Nat, S # {}, NEW m \in Nat, \A y \in S : y <= m
  PROVE  Max(S) \in S /\ \A y \in S : Max(S) >= y
<1> DEFINE T == {b \in Nat : \A y \in S : y <= b}
<1>1. T # {} /\ T \in SUBSET Nat
  OBVIOUS
<1>2. PICK b \in T : \A y \in T : ~(y < b)
  BY Zenon, <1>1, LeastNat
<1>3. b \in S
  <2>1. CASE b = 0
    <3>1. PICK x \in S : TRUE
      BY Zenon
    <3>2. x = 0
      BY SMTT(30), <1>2, <2>1
    <3> QED  BY Zenon, <2>1, <3>2
  <2>2. CASE b # 0
    <3>1. SUFFICES ASSUME b \notin S PROVE FALSE
      OBVIOUS
    <3>2. b - 1 \in Nat /\ b - 1 < b
      BY SMTT(30), <1>2, <2>2
    <3>3. \A y \in S : y <= b - 1
      BY SMTT(30), <1>2, <2>2, <3>1
    <3> QED  BY Zenon, <1>2, <3>2, <3>3
  <2> QED  BY Zenon, <2>1, <2>2
<1>4. \A y \in S : b >= y
  BY SMTT(30), <1>2
<1>5. \E x \in S : \A y \in S : x >= y
  BY Zenon, <1>3, <1>4
<1> QED  BY Zenon, <1>5 DEF Max

\* An entry is a thread and the number of one of its calls of Submit.
LEMMA EntryParts ==
  ASSUME NEW e \in Entries
  PROVE  e[1] \in Threads /\ e[2] \in Nat /\ e[2] <= MaxLogs[e[1]] /\ e = <<e[1], e[2]>>
         /\ e[2] >= 1
<1>1. PICK t \in Threads : e \in {t} \X (1 .. MaxLogs[t])
  BY Zenon DEF Entries
<1>2. MaxLogs[t] \in Nat
  BY Zenon, LoggerAssumption
<1> QED  BY SMTT(30), <1>1, <1>2

\* What the queue and the batch hold.
LEMMA OrderTypes ==
  ASSUME IndInv
  PROVE  /\ cells \in Seq(Cell) /\ worker.batch \in Seq(Entries)
         /\ \A i \in DOMAIN cells : /\ cells[i].value[1] \in Threads
                                    /\ cells[i].value[2] \in Nat
         /\ \A i \in DOMAIN worker.batch : /\ worker.batch[i] \in Entries
                                           /\ worker.batch[i][1] \in Threads
                                           /\ worker.batch[i][2] \in Nat
<1>1. cells \in Seq(Cell) /\ worker.batch \in Seq(Entries)
  BY Zenon DEF IndInv, Types, QueueType, WorkerType, WorkerRecord
<1>2. /\ \A i \in DOMAIN cells : cells[i] \in Cell
      /\ \A i \in DOMAIN worker.batch : worker.batch[i] \in Entries
  BY SMTT(30), <1>1
<1>3. \A i \in DOMAIN cells : cells[i].value \in Entries
  BY Zenon, <1>2 DEF Cell
<1> QED  BY Zenon, <1>1, <1>2, <1>3, EntryParts

\* A step that moves no entry, and no thread but forward.
LEMMA OrderKept ==
  ASSUME IndInv, OrderInv, log' = log, worker'.batch = worker.batch,
         DOMAIN cells' = DOMAIN cells,
         \A i \in DOMAIN cells : cells'[i].value = cells[i].value,
         \A t \in Threads, n \in Nat : Behind(t, n) => Behind(t, n)'
  PROVE  OrderInv'
<1>0. /\ \A i \in DOMAIN cells : cells[i].value[1] \in Threads /\ cells[i].value[2] \in Nat
      /\ \A i \in DOMAIN worker.batch : worker.batch[i][1] \in Threads /\ worker.batch[i][2] \in Nat
  BY Zenon, OrderTypes
<1>1. LogInOrder'
  <2>1. ASSUME NEW t \in Threads PROVE Behind(t, log[t])'
    <3>1. PICK n : n = log[t]
      BY Zenon
    <3>2. n \in Nat /\ Behind(t, n)
      BY Zenon, <3>1 DEF OrderInv, LogInOrder
    <3>3. Behind(t, n)'
      BY Zenon, <3>2
    <3>4. log'[t] = n
      BY Zenon, <3>1
    <3> QED  BY Zenon, <3>3, <3>4 DEF Behind
  <2> QED  BY Zenon, <2>1 DEF OrderInv, LogInOrder
<1>2. WrittenOnceInOrder'
  BY Zenon DEF OrderInv, WrittenOnceInOrder
<1>3. ASSUME NEW t \in Threads, NEW n \in Nat, Behind(t, n)
      PROVE  /\ n <= submit'[t].n /\ (submit'[t].at = "push" => n < submit'[t].n)
  BY Zenon, <1>3 DEF Behind
<1>4. BatchInOrder'
  BY Zenon, <1>0, <1>3 DEF OrderInv, BatchInOrder, Behind
<1>5. ASSUME NEW j \in DOMAIN cells
      PROVE  /\ log'[cells'[j].value[1]] < cells'[j].value[2]
             /\ Behind(cells[j].value[1], cells[j].value[2])'
             /\ \A i \in 1 .. j - 1 : cells'[i].value[1] = cells'[j].value[1] =>
                                        cells'[i].value[2] < cells'[j].value[2]
             /\ \A i \in DOMAIN worker'.batch :
                  worker'.batch[i][1] = cells'[j].value[1] => worker'.batch[i][2] < cells'[j].value[2]
  <2>1. cells'[j].value = cells[j].value
    BY Zenon, <1>5
  <2>2. \A i \in 1 .. j - 1 : i \in DOMAIN cells
    BY SMTT(30), OrderTypes
  <2>3. /\ log[cells[j].value[1]] < cells[j].value[2]
        /\ Behind(cells[j].value[1], cells[j].value[2])
        /\ \A i \in 1 .. j - 1 :
             cells[i].value[1] = cells[j].value[1] => cells[i].value[2] < cells[j].value[2]
        /\ \A i \in DOMAIN worker.batch :
             worker.batch[i][1] = cells[j].value[1] => worker.batch[i][2] < cells[j].value[2]
    BY Zenon DEF OrderInv, CellsInOrder
  <2>4. Behind(cells[j].value[1], cells[j].value[2])'
    BY Zenon, <1>0, <1>3, <2>1, <2>3 DEF Behind
  <2> QED  BY Zenon, <2>1, <2>2, <2>3, <2>4
<1>6. CellsInOrder'
  BY Zenon, <1>5 DEF CellsInOrder
<1> QED  BY Zenon, <1>1, <1>2, <1>4, <1>6 DEF OrderInv

\* An entry is numbered when Submit is called; the numbers before it are behind.
LEMMA SubmitOrder ==
  ASSUME IndInv, OrderInv, NEW t \in Threads, NEW l \in Levels, Submit(t, l)
  PROVE  OrderInv'
<1>1. log' = log /\ worker'.batch = worker.batch /\ cells' = cells
  BY Zenon DEF Submit, fileVars, queueVars
<1>2. submit \in [Threads -> [at : {"idle", "push", "publish", "count", "drop"}, n : Nat]]
  BY Zenon DEF IndInv, Types, SubmitType
<1>3. PICK p : submit' = [submit EXCEPT ![t] = [n |-> submit[t].n + 1, at |-> p]]
  BY ZenonT(40) DEF Submit
<1>4. ASSUME NEW u \in Threads, NEW n \in Nat, Behind(u, n) PROVE Behind(u, n)'
  BY SMTT(30), <1>2, <1>3, <1>4 DEF Behind
<1> QED  BY Zenon, <1>1, <1>4, OrderKept

\* A thread that moves on inside Submit, other than to TryPush.
LEMMA GotoOrder ==
  ASSUME IndInv, OrderInv, NEW t \in Threads, NEW p, p # "push", Goto(t, p),
         log' = log, worker' = worker, DOMAIN cells' = DOMAIN cells,
         \A i \in DOMAIN cells : cells'[i].value = cells[i].value
  PROVE  OrderInv'
<1>1. submit \in [Threads -> [at : {"idle", "push", "publish", "count", "drop"}, n : Nat]]
  BY Zenon DEF IndInv, Types, SubmitType
<1>2. ASSUME NEW u \in Threads, NEW n \in Nat, Behind(u, n) PROVE Behind(u, n)'
  BY SMTT(30), <1>1, <1>2 DEF Behind, Goto
<1>3. worker'.batch = worker.batch
  BY Zenon
<1> QED  BY Zenon, <1>2, <1>3, OrderKept

\* The entry put at the end of the queue comes after all of its thread.
LEMMA TryPushOrder ==
  ASSUME IndInv, OrderInv, NEW t \in Threads, TryPush(t)
  PROVE  OrderInv'
<1>1. CASE Full(cells)
  <2>1. Goto(t, "drop") /\ log' = log /\ worker' = worker /\ cells' = cells
    BY Zenon, <1>1 DEF TryPush, fileVars
  <2>2. "drop" # "push"
    OBVIOUS
  <2> QED  BY Zenon, <2>1, <2>2, GotoOrder
<1>2. CASE ~Full(cells)
  <2>1. PICK n, b : n = submit[t].n /\ b = worker.batch
    BY Zenon
  <2>2. /\ cells' = Append(cells, [value |-> <<t, n>>, writer |-> t])
        /\ submit' = [submit EXCEPT ![t].at = "publish"]
        /\ submit[t].at = "push" /\ log' = log /\ worker'.batch = b
    BY Zenon, <1>2, <2>1 DEF TryPush, Goto, fileVars, Reserved
  <2>3. submit \in [Threads -> [at : {"idle", "push", "publish", "count", "drop"}, n : Nat]]
    BY Zenon DEF IndInv, Types, SubmitType
  <2>4. \A u \in Threads : /\ submit'[u].n = submit[u].n
                           /\ u # t => submit'[u].at = submit[u].at
                           /\ submit'[t].at = "publish"
    BY SMTT(30), <2>2, <2>3
  <2>5. /\ log \in [Threads -> Nat]
        /\ \A u \in Threads : /\ log[u] <= submit[u].n
                              /\ submit[u].at = "push" => log[u] < submit[u].n
    BY Zenon DEF OrderInv, LogInOrder, Behind
  <2>6. \A i \in DOMAIN b :
          /\ b[i][1] \in Threads /\ b[i][2] \in Nat /\ b[i][2] <= submit[b[i][1]].n
          /\ submit[b[i][1]].at = "push" => b[i][2] < submit[b[i][1]].n
    BY Zenon, <2>1, OrderTypes DEF OrderInv, BatchInOrder, Behind
  <2>7. \A j \in DOMAIN cells :
          /\ cells[j].value[1] \in Threads /\ cells[j].value[2] \in Nat
          /\ cells[j].value[2] <= submit[cells[j].value[1]].n
          /\ submit[cells[j].value[1]].at = "push" =>
               cells[j].value[2] < submit[cells[j].value[1]].n
    BY Zenon, OrderTypes DEF OrderInv, CellsInOrder, Behind
  <2>8. LogInOrder'
    BY Zenon, <2>2, <2>4, <2>5 DEF LogInOrder, Behind
  <2>9. WrittenOnceInOrder'
    BY Zenon, <2>1, <2>2 DEF OrderInv, WrittenOnceInOrder
  <2>10. BatchInOrder'
    BY Zenon, <2>2, <2>4, <2>6 DEF BatchInOrder, Behind
  <2>11. PICK k \in Nat : k = Len(cells)
    BY Zenon, OrderTypes, LenProperties
  <2>12. /\ DOMAIN cells = 1 .. k /\ DOMAIN cells' = 1 .. k + 1
         /\ \A j \in 1 .. k : cells'[j] = cells[j]
         /\ cells'[k + 1] = [value |-> <<t, n>>, writer |-> t]
    BY SMTT(30), <2>2, <2>11, OrderTypes
  <2>13. ASSUME NEW j \in 1 .. k
         PROVE  /\ log'[cells'[j].value[1]] < cells'[j].value[2]
                /\ Behind(cells[j].value[1], cells[j].value[2])'
                /\ \A i \in 1 .. j - 1 : cells'[i].value[1] = cells'[j].value[1] =>
                                           cells'[i].value[2] < cells'[j].value[2]
                /\ \A i \in DOMAIN worker'.batch : worker'.batch[i][1] = cells'[j].value[1] =>
                                                     worker'.batch[i][2] < cells'[j].value[2]
    <3>1. j \in DOMAIN cells /\ cells'[j] = cells[j]
      BY Zenon, <2>12
    <3>2. \A i \in 1 .. j - 1 : cells'[i] = cells[i]
      <4>1. \A i \in 1 .. j - 1 : i \in 1 .. k
        OBVIOUS
      <4> QED  BY Zenon, <4>1, <2>12
    <3>3. /\ log[cells[j].value[1]] < cells[j].value[2]
          /\ \A i \in 1 .. j - 1 :
               cells[i].value[1] = cells[j].value[1] => cells[i].value[2] < cells[j].value[2]
          /\ \A i \in DOMAIN b : b[i][1] = cells[j].value[1] => b[i][2] < cells[j].value[2]
      BY Zenon, <2>1, <3>1 DEF OrderInv, CellsInOrder
    <3>4. Behind(cells[j].value[1], cells[j].value[2])'
      BY ZenonT(40), <2>4, <2>7, <3>1 DEF Behind
    <3> QED  BY Zenon, <2>2, <3>1, <3>2, <3>3, <3>4
  <2>14. /\ cells'[k + 1].value[1] = t /\ cells'[k + 1].value[2] = n
         /\ n \in Nat /\ n = submit'[t].n
    BY SMTT(30), <2>1, <2>3, <2>4, <2>12
  <2>15. /\ log'[t] < n
         /\ \A i \in 1 .. k : cells'[i].value[1] = t => cells'[i].value[2] < n
         /\ \A i \in DOMAIN worker'.batch : worker'.batch[i][1] = t => worker'.batch[i][2] < n
    <3>1. log'[t] < n
      BY Zenon, <2>1, <2>2, <2>5
    <3>2. ASSUME NEW i \in 1 .. k, cells'[i].value[1] = t PROVE cells'[i].value[2] < n
      <4>1. i \in DOMAIN cells /\ cells'[i] = cells[i]
        BY Zenon, <2>12
      <4>2. cells[i].value[1] = t
        BY Zenon, <3>2, <4>1
      <4>3. cells[i].value[2] < n
        BY Zenon, <2>1, <2>2, <2>7, <4>1, <4>2
      <4> QED  BY Zenon, <4>1, <4>3
    <3>3. ASSUME NEW i \in DOMAIN b, b[i][1] = t PROVE b[i][2] < n
      BY Zenon, <2>1, <2>2, <2>6, <3>3
    <3> QED  BY Zenon, <2>2, <3>1, <3>2, <3>3
  <2>16. Behind(cells[k + 1].value[1], cells[k + 1].value[2])'
    <3>1. n <= n /\ "publish" # "push"
      BY <2>14
    <3> QED  BY Zenon, <2>4, <2>14, <3>1 DEF Behind
  <2>17. /\ log'[cells'[k + 1].value[1]] < cells'[k + 1].value[2]
         /\ \A i \in 1 .. (k + 1) - 1 : cells'[i].value[1] = cells'[k + 1].value[1] =>
                                          cells'[i].value[2] < cells'[k + 1].value[2]
         /\ \A i \in DOMAIN worker'.batch : worker'.batch[i][1] = cells'[k + 1].value[1] =>
                                              worker'.batch[i][2] < cells'[k + 1].value[2]
    <3>1. (k + 1) - 1 = k
      OBVIOUS
    <3> QED  BY Zenon, <2>14, <2>15, <3>1
  <2>18. \A j \in 1 .. k + 1 : j \in 1 .. k \/ j = k + 1
    OBVIOUS
  <2>19. CellsInOrder'
    BY Zenon, <2>12, <2>13, <2>16, <2>17, <2>18 DEF CellsInOrder
  <2> QED  BY Zenon, <2>8, <2>9, <2>10, <2>19 DEF OrderInv
<1> QED  BY Zenon, <1>1, <1>2

\* The rest of Submit leaves the entries where they are.
LEMMA InSubmitOrder ==
  ASSUME IndInv, OrderInv, NEW t \in Threads, InSubmit(t)
  PROVE  OrderInv'
<1>0. "count" # "push" /\ "idle" # "push"
  OBVIOUS
<1>1. CASE TryPush(t)
  BY Zenon, <1>1, TryPushOrder
<1>2. CASE Publish(t)
  <2>1. /\ Goto(t, "count") /\ log' = log /\ worker' = worker
        /\ cells' = [i \in DOMAIN cells |-> IF cells[i].writer = t
                       THEN [cells[i] EXCEPT !.writer = None] ELSE cells[i]]
    BY Zenon, <1>2 DEF Publish, fileVars, Published
  <2>2. \A i \in DOMAIN cells : cells[i] \in Cell
    BY SMTT(30), OrderTypes
  <2>3. DOMAIN cells' = DOMAIN cells
    BY Zenon, <2>1
  <2>4. ASSUME NEW i \in DOMAIN cells PROVE cells'[i].value = cells[i].value
    BY SMTT(30), <2>1, <2>2 DEF Cell
  <2> QED  BY Zenon, <1>0, <2>1, <2>3, <2>4, GotoOrder
<1>3. CASE CountInflight(t)
  <2>1. Goto(t, "idle") /\ log' = log /\ worker' = worker /\ cells' = cells
    BY Zenon, <1>3 DEF CountInflight, fileVars
  <2> QED  BY Zenon, <1>0, <2>1, GotoOrder
<1>4. CASE Drop(t)
  <2>1. Goto(t, "idle") /\ log' = log /\ worker' = worker /\ cells' = cells
    BY Zenon, <1>4 DEF Drop, fileVars, queueVars
  <2> QED  BY Zenon, <1>0, <2>1, GotoOrder
<1> QED  BY Zenon, <1>1, <1>2, <1>3, <1>4 DEF InSubmit

\* The first cell of the queue goes to the end of the batch.
LEMMA PopOneOrder ==
  ASSUME IndInv, OrderInv, PopOne
  PROVE  OrderInv'
<1>1. PICK b, q, e : b = worker.batch /\ q = cells /\ e = cells[1].value
  BY Zenon
<1>2. worker \in WorkerRecord /\ b \in Seq(Entries) /\ q \in Seq(Cell) /\ q # <<>>
  BY Zenon, <1>1, OrderTypes DEF IndInv, Types, WorkerType, PopOne, Ready
<1>3. cells' = Tail(q) /\ worker' = [worker EXCEPT !.batch = Append(b, e)]
      /\ log' = log /\ submit' = submit
  BY Zenon, <1>1 DEF PopOne, fileVars
<1>4. worker'.batch = Append(b, e)
  BY Zenon, <1>2, <1>3 DEF WorkerRecord
<1>5. PICK k \in Nat, m \in Nat : k = Len(b) /\ m = Len(q)
  BY Zenon, <1>2, LenProperties
<1>6. /\ DOMAIN b = 1 .. k /\ DOMAIN worker'.batch = 1 .. k + 1
      /\ \A i \in 1 .. k : worker'.batch[i] = b[i]
      /\ worker'.batch[k + 1] = e
  BY SMTT(30), <1>2, <1>4, <1>5
<1>7. /\ DOMAIN q = 1 .. m /\ m >= 1 /\ DOMAIN cells' = 1 .. m - 1
      /\ \A i \in 1 .. m - 1 : cells'[i] = q[i + 1]
  BY SMTT(30), <1>2, <1>3, <1>5
<1>8. /\ \A i \in 1 .. k + 1 : i \in 1 .. k \/ i = k + 1
      /\ \A i \in 1 .. k : \A j \in 1 .. i - 1 : j \in 1 .. k
      /\ (k + 1) - 1 = k /\ 1 \in 1 .. m
      /\ \A j \in 1 .. m - 1 : j + 1 \in 1 .. m /\ 1 \in 1 .. (j + 1) - 1
      /\ \A j \in 1 .. m - 1 : \A i \in 1 .. j - 1 : i + 1 \in 1 .. (j + 1) - 1 /\ i \in 1 .. m - 1
  BY SMTT(30), <1>7
<1>9. \A j \in 1 .. m :
        /\ log[q[j].value[1]] < q[j].value[2]
        /\ Behind(q[j].value[1], q[j].value[2])
        /\ \A i \in 1 .. j - 1 : q[i].value[1] = q[j].value[1] => q[i].value[2] < q[j].value[2]
        /\ \A i \in 1 .. k : b[i][1] = q[j].value[1] => b[i][2] < q[j].value[2]
  BY Zenon, <1>1, <1>6, <1>7 DEF OrderInv, CellsInOrder
<1>10. q[1].value = e
  BY Zenon, <1>1
<1>11. /\ log[e[1]] < e[2] /\ Behind(e[1], e[2])
       /\ \A i \in 1 .. k : b[i][1] = e[1] => b[i][2] < e[2]
  BY Zenon, <1>8, <1>9, <1>10
<1>12. LogInOrder'
  BY Zenon, <1>3 DEF OrderInv, LogInOrder, Behind
<1>13. BatchInOrder'
  <2>1. \A i \in 1 .. k : Behind(b[i][1], b[i][2])
    BY Zenon, <1>1, <1>6 DEF OrderInv, BatchInOrder
  <2>2. \A i \in 1 .. k + 1 : Behind(worker'.batch[i][1], worker'.batch[i][2])
    BY Zenon, <1>6, <1>8, <1>11, <2>1
  <2> QED  BY Zenon, <1>3, <1>6, <2>2 DEF BatchInOrder, Behind
<1>14. WrittenOnceInOrder'
  <2>1. \A i \in 1 .. k :
          /\ log[b[i][1]] < b[i][2]
          /\ \A j \in 1 .. i - 1 : b[j][1] = b[i][1] => b[j][2] < b[i][2]
    BY Zenon, <1>1, <1>6 DEF OrderInv, WrittenOnceInOrder
  <2>2. ASSUME NEW i \in 1 .. k
        PROVE  /\ log'[worker'.batch[i][1]] < worker'.batch[i][2]
               /\ \A j \in 1 .. i - 1 : worker'.batch[j][1] = worker'.batch[i][1] =>
                                          worker'.batch[j][2] < worker'.batch[i][2]
    BY Zenon, <1>3, <1>6, <1>8, <2>1
  <2>3. /\ log'[worker'.batch[k + 1][1]] < worker'.batch[k + 1][2]
        /\ \A j \in 1 .. (k + 1) - 1 : worker'.batch[j][1] = worker'.batch[k + 1][1] =>
                                         worker'.batch[j][2] < worker'.batch[k + 1][2]
    BY Zenon, <1>3, <1>6, <1>8, <1>11
  <2> QED  BY Zenon, <1>6, <1>8, <2>2, <2>3 DEF WrittenOnceInOrder
<1>15. ASSUME NEW j \in 1 .. m - 1
       PROVE  /\ log'[cells'[j].value[1]] < cells'[j].value[2]
              /\ Behind(cells[j].value[1], cells[j].value[2])'
              /\ \A i \in 1 .. j - 1 : cells'[i].value[1] = cells'[j].value[1] =>
                                         cells'[i].value[2] < cells'[j].value[2]
              /\ \A i \in DOMAIN worker'.batch : worker'.batch[i][1] = cells'[j].value[1] =>
                                                   worker'.batch[i][2] < cells'[j].value[2]
  <2>1. cells'[j] = q[j + 1] /\ j + 1 \in 1 .. m /\ 1 \in 1 .. (j + 1) - 1
    BY Zenon, <1>7, <1>8
  <2>2. PICK c : c = q[j + 1].value
    BY Zenon
  <2>3. /\ log[c[1]] < c[2] /\ Behind(c[1], c[2])
        /\ \A i \in 1 .. (j + 1) - 1 : q[i].value[1] = c[1] => q[i].value[2] < c[2]
        /\ \A i \in 1 .. k : b[i][1] = c[1] => b[i][2] < c[2]
    BY Zenon, <1>9, <2>1, <2>2
  <2>4. cells'[j].value = c
    BY Zenon, <2>1, <2>2
  <2>5. Behind(cells[j].value[1], cells[j].value[2])'
    BY Zenon, <1>3, <2>3, <2>4 DEF Behind
  <2>6. ASSUME NEW i \in 1 .. j - 1, cells'[i].value[1] = c[1] PROVE cells'[i].value[2] < c[2]
    <3>1. cells'[i] = q[i + 1] /\ i + 1 \in 1 .. (j + 1) - 1
      BY Zenon, <1>7, <1>8
    <3> QED  BY Zenon, <2>3, <2>6, <3>1
  <2>7. e[1] = c[1] => e[2] < c[2]
    BY Zenon, <1>10, <2>1, <2>3
  <2>8. ASSUME NEW i \in 1 .. k + 1, worker'.batch[i][1] = c[1] PROVE worker'.batch[i][2] < c[2]
    BY Zenon, <1>6, <1>8, <2>3, <2>7, <2>8
  <2> QED  BY Zenon, <1>3, <1>6, <2>3, <2>4, <2>5, <2>6, <2>8
<1>16. CellsInOrder'
  BY Zenon, <1>7, <1>15 DEF CellsInOrder
<1> QED  BY Zenon, <1>12, <1>13, <1>14, <1>16 DEF OrderInv

\* The highest entry written of a thread is in the batch, or was written before.
LEMMA WriteBatchOrder ==
  ASSUME IndInv, OrderInv, WriteBatch
  PROVE  OrderInv'
<1>1. PICK b : b = worker.batch
  BY Zenon
<1>2. worker \in WorkerRecord /\ \A i \in DOMAIN b : b[i] \in Entries
  BY Zenon, <1>1, OrderTypes DEF IndInv, Types, WorkerType
<1>3. /\ log' = [t \in Threads |-> Max({log[t]} \cup
               {n \in 1 .. MaxLogs[t] : \E i \in DOMAIN b : b[i] = <<t, n>>})]
      /\ cells' = cells /\ submit' = submit
  BY Zenon, <1>1 DEF WriteBatch, WriteBuffer
<1>4. worker'.batch = <<>>
  <2>1. PICK a : worker' = [worker EXCEPT !.batch = <<>>, !.at = a]
    BY Zenon DEF WriteBatch
  <2> QED  BY Zenon, <1>2, <2>1 DEF WorkerRecord
<1>5. DOMAIN worker'.batch = {}
  BY SMTT(30), <1>4
<1>6. ASSUME NEW t \in Threads
      PROVE  /\ log'[t] \in Nat
             /\ log'[t] = log[t] \/ \E i \in DOMAIN b : b[i][1] = t /\ b[i][2] = log'[t]
  <2>1. PICK S : S = {log[t]} \cup {n \in 1 .. MaxLogs[t] : \E i \in DOMAIN b : b[i] = <<t, n>>}
    BY Zenon
  <2>2. log[t] \in Nat /\ MaxLogs[t] \in Nat
    BY Zenon, LoggerAssumption DEF OrderInv, LogInOrder
  <2>3. S \in SUBSET Nat /\ S # {} /\ log[t] + MaxLogs[t] \in Nat
        /\ \A y \in S : y <= log[t] + MaxLogs[t]
    BY SMTT(30), <2>1, <2>2
  <2>4. Max(S) \in S
    BY Zenon, <2>3, MaxNat
  <2>5. log'[t] = Max(S)
    BY Zenon, <1>3, <2>1
  <2>6. log'[t] \in Nat /\ (log'[t] = log[t] \/ \E i \in DOMAIN b : b[i] = <<t, log'[t]>>)
    BY Zenon, <2>1, <2>3, <2>4, <2>5
  <2>7. ASSUME NEW i \in DOMAIN b, b[i] = <<t, log'[t]>> PROVE b[i][1] = t /\ b[i][2] = log'[t]
    BY SMTT(30), <2>7
  <2> QED  BY Zenon, <2>6, <2>7
<1>7. LogInOrder'
  <2>1. ASSUME NEW t \in Threads PROVE Behind(t, log'[t])
    <3>1. CASE log'[t] = log[t]
      BY Zenon, <3>1 DEF OrderInv, LogInOrder
    <3>2. ASSUME NEW i \in DOMAIN b, b[i][1] = t, b[i][2] = log'[t] PROVE Behind(t, log'[t])
      BY Zenon, <1>1, <3>2 DEF OrderInv, BatchInOrder
    <3> QED  BY Zenon, <1>6, <3>1, <3>2
  <2>2. log' \in [Threads -> Nat]
    <3>1. PICK f : f = log'
      BY Zenon
    <3>2. f = [t \in Threads |-> f[t]] /\ \A t \in Threads : f[t] \in Nat
      BY Zenon, <1>3, <1>6, <3>1
    <3>3. f \in [Threads -> Nat]
      BY Zenon, <3>2
    <3> QED  BY Zenon, <3>1, <3>3
  <2> QED  BY Zenon, <1>3, <2>1, <2>2 DEF LogInOrder, Behind
<1>8. WrittenOnceInOrder' /\ BatchInOrder'
  BY Zenon, <1>5 DEF WrittenOnceInOrder, BatchInOrder
<1>9. ASSUME NEW j \in DOMAIN cells
      PROVE  /\ log'[cells[j].value[1]] < cells[j].value[2]
             /\ Behind(cells[j].value[1], cells[j].value[2])
             /\ \A i \in 1 .. j - 1 :
                  cells[i].value[1] = cells[j].value[1] => cells[i].value[2] < cells[j].value[2]
  <2>1. PICK c : c = cells[j].value
    BY Zenon
  <2>2. /\ c[1] \in Threads /\ log[c[1]] < c[2] /\ Behind(c[1], c[2])
        /\ \A i \in 1 .. j - 1 : cells[i].value[1] = c[1] => cells[i].value[2] < c[2]
        /\ \A i \in DOMAIN b : b[i][1] = c[1] => b[i][2] < c[2]
    BY Zenon, <1>1, <2>1, OrderTypes DEF OrderInv, CellsInOrder
  <2>3. log'[c[1]] < c[2]
    BY Zenon, <1>6, <2>2
  <2> QED  BY Zenon, <2>1, <2>2, <2>3
<1>10. CellsInOrder'
  BY Zenon, <1>3, <1>5, <1>9 DEF CellsInOrder, Behind
<1> QED  BY Zenon, <1>7, <1>8, <1>10 DEF OrderInv

\* OrderInv holds at first.
LEMMA InitOrder == Init => OrderInv
<1>0. SUFFICES ASSUME Init PROVE OrderInv
  OBVIOUS
<1>1. DOMAIN cells = {} /\ DOMAIN worker.batch = {}
  <2>1. cells = <<>> /\ worker.batch = <<>>
    BY Zenon, <1>0 DEF Init
  <2> QED  BY SMTT(30), <2>1
<1>2. LogInOrder
  BY SMTT(30), <1>0 DEF Init, LogInOrder, Behind
<1>3. WrittenOnceInOrder /\ BatchInOrder /\ CellsInOrder
  BY Zenon, <1>1 DEF WrittenOnceInOrder, BatchInOrder, CellsInOrder
<1> QED  BY Zenon, <1>2, <1>3 DEF OrderInv

\* Every other step touches neither the entries nor the threads that log.
LEMMA OthersOrder ==
  ASSUME IndInv, OrderInv,
         log' = log /\ cells' = cells /\ submit' = submit /\ worker'.batch = worker.batch
  PROVE  OrderInv'
<1>1. \A t \in Threads, n \in Nat : Behind(t, n) => Behind(t, n)'
  BY Zenon DEF Behind
<1> QED  BY Zenon, <1>1, OrderKept

\* WorkerLoop preserves OrderInv.
LEMMA WorkerLoopOrder ==
  ASSUME IndInv, OrderInv, WorkerLoop
  PROVE  OrderInv'
<1>0. worker \in WorkerRecord
  BY Zenon DEF IndInv, Types, WorkerType
<1>1. CASE PopOne
  BY Zenon, <1>1, PopOneOrder
<1>2. CASE WriteBatch
  BY Zenon, <1>2, WriteBatchOrder
<1>3. CASE Open \/ EmitDropSummaryIfNeeded
  <2>1. PICK a : worker' = [worker EXCEPT !.at = a]
    BY Zenon, <1>3 DEF Open, EmitDropSummaryIfNeeded, WGoto
  <2>2. worker'.batch = worker.batch
    BY Zenon, <1>0, <2>1 DEF WorkerRecord
  <2> QED  BY ZenonT(40), <1>3, <2>2, OthersOrder
           DEF Open, EmitDropSummaryIfNeeded, queueVars
<1>4. CASE CheckReopen
  <2>1. PICK a, l : worker' = [worker EXCEPT !.at = a, !.limit = l]
    BY Zenon, <1>4 DEF CheckReopen
  <2>2. worker'.batch = worker.batch
    BY Zenon, <1>0, <2>1 DEF WorkerRecord
  <2> QED  BY Zenon, <1>4, <2>2, OthersOrder DEF CheckReopen, queueVars, fileVars
<1>5. CASE PopEnd
  <2>1. PICK a, d : worker' = [worker EXCEPT !.drained = d, !.at = a]
    BY Zenon, <1>5 DEF PopEnd
  <2>2. worker'.batch = worker.batch
    BY Zenon, <1>0, <2>1 DEF WorkerRecord
  <2> QED  BY Zenon, <1>5, <2>2, OthersOrder DEF PopEnd, queueVars, fileVars
<1>6. CASE FlushFile \/ NoFlush
  <2>1. PICK a : worker' = [worker EXCEPT !.drained = 0, !.at = a]
    BY Zenon, <1>6 DEF FlushFile, NoFlush, AfterFlush
  <2>2. worker'.batch = worker.batch
    BY Zenon, <1>0, <2>1 DEF WorkerRecord
  <2> QED  BY ZenonT(40), <1>6, <2>2, OthersOrder DEF FlushFile, NoFlush, queueVars, fileVars
<1>7. CASE CheckStop
  <2>1. \/ worker' = [worker EXCEPT !.at = "pop", !.draining = TRUE]
        \/ worker' = [worker EXCEPT !.at = "top"]
    BY Zenon, <1>7 DEF CheckStop
  <2>2. worker'.batch = worker.batch
    BY Zenon, <1>0, <2>1 DEF WorkerRecord
  <2> QED  BY Zenon, <1>7, <2>2, OthersOrder DEF CheckStop, queueVars, fileVars
<1> QED  BY Zenon, <1>1, <1>2, <1>3, <1>4, <1>5, <1>6, <1>7 DEF WorkerLoop

\* Every step preserves OrderInv.
LEMMA NextOrder == IndInv /\ OrderInv /\ [Next]_vars => OrderInv'
<1>0. SUFFICES ASSUME IndInv, OrderInv, [Next]_vars PROVE OrderInv'
  OBVIOUS
<1>1. ASSUME NEW t \in Threads, InSubmit(t) PROVE OrderInv'
  BY Zenon, <1>0, <1>1, InSubmitOrder
<1>2. ASSUME NEW t \in Threads, NEW l \in Levels, Submit(t, l) PROVE OrderInv'
  BY Zenon, <1>0, <1>2, SubmitOrder
<1>3. CASE WorkerLoop
  BY Zenon, <1>0, <1>3, WorkerLoopOrder
<1>4. CASE Configure \/ RequestReopen
  <2>1. log' = log /\ cells' = cells /\ submit' = submit /\ worker' = worker
    <3>1. CASE SetLogFile \/ RequestReopen \/ Flush
      BY ZenonT(40), <3>1 DEF SetLogFile, RequestReopen, Flush, queueVars, fileVars
    <3>2. CASE (\E o \in Options : InitLogger(o)) \/ (\E l \in 0 .. Off : SetLogLevel(l))
      BY ZenonT(40), <3>2 DEF InitLogger, SetLogLevel, queueVars, fileVars
    <3> QED  BY Zenon, <1>4, <3>1, <3>2 DEF Configure
  <2> QED  BY Zenon, <1>0, <2>1, OthersOrder
<1>5. CASE Shutdown \/ RequestStop \/ Join \/ vars' = vars
  <2>1. log' = log /\ cells' = cells /\ submit' = submit /\ worker' = worker
    <3>1. CASE Shutdown
      BY ZenonT(40), <3>1 DEF Shutdown, vars, queueVars, fileVars
    <3>2. CASE RequestStop
      BY ZenonT(40), <3>2 DEF RequestStop, queueVars, fileVars
    <3>3. CASE Join
      BY ZenonT(40), <3>3 DEF Join, queueVars
    <3>4. CASE vars' = vars
      BY ZenonT(40), <3>4 DEF vars, queueVars, fileVars
    <3> QED  BY Zenon, <1>5, <3>1, <3>2, <3>3, <3>4
  <2> QED  BY Zenon, <1>0, <2>1, OthersOrder
<1> QED  BY Zenon, <1>0, <1>1, <1>2, <1>3, <1>4, <1>5 DEF Next

\* Although a thread may be overtaken by others anywhere inside Submit, and the
\* worker takes a cell at a time while the queue is filled behind it, no entry is
\* written twice and the entries of a thread are written in the order of its
\* calls, for any number of threads and entries and any size of ring and batch.
THEOREM LoggerWrittenOnceInOrder == Spec => []WrittenOnceInOrder
<1>1. OrderInv => WrittenOnceInOrder
  BY Zenon DEF OrderInv
<1> QED  BY <1>1, Invariance, InitOrder, NextOrder, PTL DEF Spec
=============================================================================
