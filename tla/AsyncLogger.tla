----------------------------- MODULE AsyncLogger -----------------------------
(***************************************************************************)
(* The asynchronous logger (src/src/common/async_logger.cpp): any thread   *)
(* may log (Submit), change the configuration (Init, SetLogFile,           *)
(* SetLogLevel), ask for a flush or shut the logger down; one worker       *)
(* thread takes entries from an MpscRingQueue in batches and writes them.  *)
(* The queue is a sequence of cells, which is what MpscRingQueue is        *)
(* checked to implement.                                                   *)
(*                                                                         *)
(* An entry is its thread and number; its text, time and place in the      *)
(* source are left out.  Of the log file's name only matters whether the   *)
(* file opened last is still the one asked for.  Whether                   *)
(* kDropSummaryInterval or FlushInterval has passed is arbitrary.          *)
(*                                                                         *)
(* The claim of a cell, its publication and the count of the entry are     *)
(* steps of their own, and so is each move of the worker.  What a thread   *)
(* does between two of them is one step: the four loads at the beginning   *)
(* of Submit (async_logger.cpp:358-370), the two counters of a drop        *)
(* (373-374, 398-399) and of an enqueued entry (392-393), and the          *)
(* worker's two counters with its write (510-515).  Between two counters   *)
(* of a pair the code's are off by the second.                             *)
(***************************************************************************)
EXTENDS Integers, Sequences, FiniteSets, FiniteSetsExt

CONSTANTS
  Threads,      \* threads that log
  MaxLogs,      \* thread -> bound on its calls of Submit
  Capacity,     \* kRingCapacity
  WordSize,     \* a size_t is read modulo this
  Off,          \* LogLevel::kOff, above every level an entry has
  MaxRequests,  \* bound on the calls of SetLogFile, Init, SetLogLevel and Flush
  Default,      \* queue_capacity, max_batch_size and min_level before Init ...
  Options,      \* ... and those of the LoggerOptions it is called with
  None

ASSUME LoggerAssumption ==
  /\ IsFiniteSet(Threads) /\ None \notin Threads
  /\ MaxLogs \in [Threads -> Nat] /\ Capacity \in Nat \ {0}
  /\ WordSize \in Nat /\ WordSize > Capacity + Cardinality(Threads)
  /\ Off \in Nat /\ MaxRequests \in Nat
  /\ \A o \in Options \cup {Default} :
       o \in [queue_capacity : Nat, max_batch_size : Nat, min_level : 0 .. Off]
  /\ Default.queue_capacity \in 1 .. Capacity /\ Default.max_batch_size > 0

Levels == 0 .. Off - 1
Entries == UNION {{t} \X (1 .. MaxLogs[t]) : t \in Threads}

INSTANCE QueueCells WITH Producers <- Threads, Values <- Entries

VARIABLES
  cells, inflight_count_,        \* queue_ and its approximate length
  options,                       \* queue_capacity_soft_, max_batch_size_, min_level_
  accepting_logs_, stop_requested,
  flush_requested_, reopen_requested_,
  path_changed,                  \* pending_log_path_ is not the file opened last
  setter,                        \* inside SetLogFile or Init: "flag" before the request
  submit_calls_, filtered_by_level_, enqueued_, consumed_, dropped_,
  dropped_for_summary_, pending_drop_summary_,
  submit,                        \* thread -> its place in Submit, its entry
  worker,                        \* the worker's place and locals
  file_,                         \* a file is open
  dirty,                         \* it has bytes that are not flushed
  log, reported,                 \* history: the highest entry written of a thread,
                                 \* the drops told
  closer, quiet,                 \* the first Shutdown's place; history: see there
  requests                       \* counts for MaxRequests

queueVars == <<cells, inflight_count_>>
statVars == <<submit_calls_, filtered_by_level_, enqueued_, consumed_, dropped_>>
pathVars == <<reopen_requested_, path_changed, setter, requests>>
dropVars == <<dropped_for_summary_, pending_drop_summary_>>
fileVars == <<file_, dirty, log, reported>>
closeVars == <<accepting_logs_, stop_requested, closer, quiet>>
vars == <<queueVars, options, flush_requested_, pathVars, statVars, dropVars, submit, worker,
          fileVars, closeVars>>

\* The constructor has started the worker.
Init ==
  /\ cells = <<>> /\ inflight_count_ = 0 /\ options = Default
  /\ accepting_logs_ = TRUE /\ stop_requested = FALSE
  /\ flush_requested_ = FALSE /\ reopen_requested_ = FALSE /\ path_changed = TRUE
  /\ setter = "idle"
  /\ submit_calls_ = 0 /\ filtered_by_level_ = 0 /\ enqueued_ = 0 /\ consumed_ = 0
  /\ dropped_ = 0
  /\ dropped_for_summary_ = 0 /\ pending_drop_summary_ = 0
  /\ submit = [t \in Threads |-> [at |-> "idle", n |-> 0]]
  /\ worker = [at |-> "start", batch |-> <<>>, limit |-> Default.max_batch_size,
               drained |-> 0, draining |-> FALSE]
  /\ file_ = FALSE /\ dirty = FALSE /\ log = [t \in Threads |-> 0] /\ reported = 0
  /\ closer = "idle" /\ quiet = FALSE /\ requests = 0

-----------------------------------------------------------------------------
(* Submit.                                                                 *)

Goto(t, place) == submit' = [submit EXCEPT ![t].at = place]

\* The call is counted in any case.  It returns at once after Shutdown and below
\* the minimum level; a soft limit below the capacity of the ring drops the entry.
Submit(t, level) ==
  /\ submit[t].at = "idle" /\ submit[t].n < MaxLogs[t]
  /\ LET filtered == accepting_logs_ /\ level < options.min_level
         over == /\ options.queue_capacity < Capacity
                 /\ inflight_count_ % WordSize >= options.queue_capacity
     IN
     /\ submit_calls_' = submit_calls_ + 1
     /\ filtered_by_level_' = filtered_by_level_ + IF filtered THEN 1 ELSE 0
     /\ submit' = [submit EXCEPT
          ![t] = [n |-> @.n + 1,
                  at |-> IF ~accepting_logs_ \/ filtered THEN "idle"
                         ELSE IF over THEN "drop" ELSE "push"]]
  /\ UNCHANGED <<queueVars, options, flush_requested_, pathVars, enqueued_, consumed_, dropped_,
                 dropVars, worker, fileVars, closeVars>>

\* TryPush reserves a cell, or returns false at the hard limit, ...
TryPush(t) ==
  /\ submit[t].at = "push"
  /\ IF Full(cells)
     THEN Goto(t, "drop") /\ UNCHANGED cells
     ELSE /\ cells' = Reserved(cells, t, <<t, submit[t].n>>)
          /\ Goto(t, "publish")
  /\ UNCHANGED <<inflight_count_, options, flush_requested_, pathVars, statVars, dropVars, worker,
                 fileVars, closeVars>>

\* ... fills the cell and returns true; the entry is counted afterwards.
Publish(t) ==
  /\ submit[t].at = "publish"
  /\ cells' = Published(cells, t)
  /\ Goto(t, "count")
  /\ UNCHANGED <<inflight_count_, options, flush_requested_, pathVars, statVars, dropVars, worker,
                 fileVars, closeVars>>

CountInflight(t) ==
  /\ submit[t].at = "count"
  /\ inflight_count_' = inflight_count_ + 1
  /\ enqueued_' = enqueued_ + 1
  /\ Goto(t, "idle")
  /\ UNCHANGED <<cells, options, flush_requested_, pathVars, submit_calls_, filtered_by_level_,
                 consumed_, dropped_, dropVars, worker, fileVars, closeVars>>

Drop(t) ==
  /\ submit[t].at = "drop"
  /\ dropped_' = dropped_ + 1
  /\ dropped_for_summary_' = dropped_for_summary_ + 1
  /\ Goto(t, "idle")
  /\ UNCHANGED <<queueVars, options, flush_requested_, pathVars, submit_calls_,
                 filtered_by_level_, enqueued_, consumed_, pending_drop_summary_, worker,
                 fileVars, closeVars>>

InSubmit(t) == TryPush(t) \/ Publish(t) \/ CountInflight(t) \/ Drop(t)

-----------------------------------------------------------------------------
(* Init, SetLogFile, SetLogLevel, Flush.                                   *)

Request == requests < MaxRequests /\ requests' = requests + 1

\* The path is stored under its mutex, ...
SetLogFile ==
  /\ setter = "idle" /\ Request
  /\ path_changed' = TRUE /\ setter' = "flag"
  /\ UNCHANGED <<queueVars, options, flush_requested_, reopen_requested_, statVars, dropVars,
                 submit, worker, fileVars, closeVars>>

Clamped(o) ==
  [o EXCEPT !.queue_capacity = Max({1, Min({@, Capacity})}), !.max_batch_size = Max({1, @})]

\* ... by Init after the parameters, and not at all after Shutdown; ...
InitLogger(o) ==
  /\ setter = "idle" /\ accepting_logs_ /\ Request
  /\ options' = Clamped(o)
  /\ path_changed' = TRUE /\ setter' = "flag"
  /\ UNCHANGED <<queueVars, flush_requested_, reopen_requested_, statVars, dropVars, submit,
                 worker, fileVars, closeVars>>

\* Faulty variant: the worker is told only if it has a file to close.
RequestReopen_IfOpen ==
  /\ setter = "flag"
  /\ reopen_requested_' = (reopen_requested_ \/ file_) /\ setter' = "idle"
  /\ UNCHANGED <<queueVars, options, flush_requested_, path_changed, requests, statVars, dropVars,
                 submit, worker, fileVars, closeVars>>

\* ... then the worker is told.
RequestReopen ==
  /\ setter = "flag"
  /\ reopen_requested_' = TRUE /\ setter' = "idle"
  /\ UNCHANGED <<queueVars, options, flush_requested_, path_changed, requests, statVars, dropVars,
                 submit, worker, fileVars, closeVars>>

SetLogLevel(level) ==
  /\ Request
  /\ options' = [options EXCEPT !.min_level = level]
  /\ UNCHANGED <<queueVars, flush_requested_, reopen_requested_, path_changed, setter, statVars,
                 dropVars, submit, worker, fileVars, closeVars>>

Flush ==
  /\ Request
  /\ flush_requested_' = TRUE
  /\ UNCHANGED <<queueVars, options, reopen_requested_, path_changed, setter, statVars, dropVars,
                 submit, worker, fileVars, closeVars>>

-----------------------------------------------------------------------------
(* WorkerLoop.                                                             *)

WGoto(place) == worker' = [worker EXCEPT !.at = place]

\* OpenFile(CurrentLogPath()): the file in use is flushed and closed; without a
\* file everything goes to stderr.
Open ==
  /\ worker.at \in {"start", "open"}
  /\ file_' \in BOOLEAN /\ path_changed' = FALSE /\ dirty' = FALSE
  /\ WGoto(IF worker.at = "start" THEN "top" ELSE "pop")
  /\ UNCHANGED <<queueVars, options, flush_requested_, reopen_requested_, setter, requests,
                 statVars, dropVars, submit, log, reported, closeVars>>

\* The top of the loop.  The size of a batch may have been changed.
CheckReopen ==
  /\ worker.at = "top"
  /\ reopen_requested_' = FALSE
  /\ worker' = [worker EXCEPT !.at = IF reopen_requested_ THEN "open" ELSE "pop",
                              !.limit = options.max_batch_size]
  /\ UNCHANGED <<queueVars, options, flush_requested_, path_changed, setter, requests, statVars,
                 dropVars, submit, fileVars, closeVars>>

\* Faulty variant: the batch is filled from its end.
PopOne_Reversed ==
  /\ worker.at = "pop" /\ Ready(cells) /\ Len(worker.batch) < worker.limit
  /\ worker' = [worker EXCEPT !.batch = <<cells[1].value>> \o @]
  /\ cells' = Tail(cells)
  /\ UNCHANGED <<inflight_count_, options, flush_requested_, pathVars, statVars, dropVars, submit,
                 fileVars, closeVars>>

\* One element of PopBatch ...
PopOne ==
  /\ worker.at = "pop" /\ Ready(cells) /\ Len(worker.batch) < worker.limit
  /\ worker' = [worker EXCEPT !.batch = Append(@, cells[1].value)]
  /\ cells' = Tail(cells)
  /\ UNCHANGED <<inflight_count_, options, flush_requested_, pathVars, statVars, dropVars, submit,
                 fileVars, closeVars>>

\* ... and its end: the batch is full or nothing more is visible.
PopEnd ==
  /\ worker.at = "pop" /\ (~Ready(cells) \/ Len(worker.batch) = worker.limit)
  /\ worker' = [worker EXCEPT
       !.drained = Len(worker.batch),
       !.at = IF worker.batch # <<>> THEN "write" ELSE "summary"]
  /\ UNCHANGED <<queueVars, options, flush_requested_, pathVars, statVars, dropVars, submit,
                 fileVars, closeVars>>

\* Faulty variant: the last drain does not subtract.
Subtracted_NotDraining ==
  IF worker.draining THEN inflight_count_ ELSE inflight_count_ - worker.drained

\* The worker may subtract an entry that its thread has not counted yet: below
\* zero the size_t reads as a huge number, until CountInflight.
Subtracted == inflight_count_ - worker.drained

\* FormatBatch and WriteBuffer: into the buffer of the file; without a file, and
\* what fwrite does not take, to stderr.
WriteBuffer(batch) ==
  /\ log' = [t \in Threads |-> Max({log[t]} \cup
               {n \in 1 .. MaxLogs[t] : \E i \in DOMAIN batch : batch[i] = <<t, n>>})]
  /\ dirty' = file_

\* The batch is subtracted, counted and written.
WriteBatch ==
  /\ worker.at = "write"
  /\ inflight_count_' = Subtracted
  /\ consumed_' = consumed_ + worker.drained
  /\ WriteBuffer(worker.batch)
  /\ worker' = [worker EXCEPT !.batch = <<>>, !.at = IF worker.draining THEN "pop" ELSE "summary"]
  /\ UNCHANGED <<cells, options, flush_requested_, pathVars, submit_calls_, filtered_by_level_,
                 enqueued_, dropped_, dropVars, submit, file_, reported, closeVars>>

\* Faulty variant: drops held back since the last summary are forgotten.
EmitDropSummary_Overwrites ==
  /\ worker.at = "summary"
  /\ dropped_for_summary_' = 0
  /\ LET pending == dropped_for_summary_ IN
       \/ /\ reported' = reported + pending
          /\ pending_drop_summary_' = 0
       \/ /\ ~worker.draining /\ pending > 0
          /\ pending_drop_summary_' = pending
          /\ UNCHANGED reported
  /\ dirty' = (dirty \/ (file_ /\ reported' > reported))
  /\ WGoto("flush")
  /\ UNCHANGED <<queueVars, options, flush_requested_, pathVars, statVars, submit, file_, log,
                 closeVars>>

\* EmitDropSummaryIfNeeded; without force_emit it may hold the drops back.
EmitDropSummaryIfNeeded ==
  /\ worker.at = "summary"
  /\ dropped_for_summary_' = 0
  /\ LET pending == pending_drop_summary_ + dropped_for_summary_ IN
       \/ /\ reported' = reported + pending
          /\ pending_drop_summary_' = 0
       \/ /\ ~worker.draining /\ pending > 0
          /\ pending_drop_summary_' = pending
          /\ UNCHANGED reported
  /\ dirty' = (dirty \/ (file_ /\ reported' > reported))
  /\ WGoto("flush")
  /\ UNCHANGED <<queueVars, options, flush_requested_, pathVars, statVars, submit, file_, log,
                 closeVars>>

AfterFlush ==
  worker' = [worker EXCEPT !.drained = 0,
                           !.at = CASE worker.draining -> "done"
                                    [] ~worker.draining /\ worker.drained = 0 -> "idle"
                                    [] OTHER -> "top"]

\* Faulty variant: the interval is forgotten.
FlushFile_OnRequest ==
  /\ worker.at = "flush" /\ (flush_requested_ \/ worker.draining)
  /\ dirty' = FALSE
  /\ flush_requested_' = (flush_requested_ /\ worker.draining)
  /\ AfterFlush
  /\ UNCHANGED <<queueVars, options, pathVars, statVars, dropVars, submit, file_, log, reported,
                 closeVars>>

\* fflush on request, when the interval has passed, and at the very end ...
FlushFile ==
  /\ worker.at = "flush"
  /\ dirty' = FALSE
  /\ flush_requested_' = (flush_requested_ /\ worker.draining)
  /\ AfterFlush
  /\ UNCHANGED <<queueVars, options, pathVars, statVars, dropVars, submit, file_, log, reported,
                 closeVars>>

\* ... otherwise not.
NoFlush ==
  /\ worker.at = "flush" /\ ~flush_requested_ /\ ~worker.draining
  /\ AfterFlush
  /\ UNCHANGED <<queueVars, options, flush_requested_, pathVars, statVars, dropVars, submit,
                 fileVars, closeVars>>

\* Faulty variant: the worker leaves without the last drain.
CheckStop_NoDrain ==
  /\ worker.at = "idle"
  /\ worker' = IF stop_requested THEN [worker EXCEPT !.at = "summary", !.draining = TRUE]
                                 ELSE [worker EXCEPT !.at = "top"]
  /\ UNCHANGED <<queueVars, options, flush_requested_, pathVars, statVars, dropVars, submit,
                 fileVars, closeVars>>

\* Nothing was popped: begin the last drain if a stop was requested, else spin
\* or sleep for a bounded time and go round again.
CheckStop ==
  /\ worker.at = "idle"
  /\ worker' = IF stop_requested THEN [worker EXCEPT !.at = "pop", !.draining = TRUE]
                                 ELSE [worker EXCEPT !.at = "top"]
  /\ UNCHANGED <<queueVars, options, flush_requested_, pathVars, statVars, dropVars, submit,
                 fileVars, closeVars>>

WorkerLoop == Open \/ CheckReopen \/ PopOne \/ PopEnd \/ WriteBatch
              \/ EmitDropSummaryIfNeeded \/ FlushFile \/ NoFlush \/ CheckStop

-----------------------------------------------------------------------------
(* Shutdown.                                                               *)

\* Only the first call (of the program, of atexit, of the destructor) goes on; any
\* other returns at once.  quiet: no thread was inside Submit at this moment.
Shutdown ==
  \/ /\ accepting_logs_
     /\ accepting_logs_' = FALSE /\ closer' = "stop"
     /\ quiet' = \A t \in Threads : submit[t].at = "idle"
     /\ UNCHANGED <<queueVars, options, flush_requested_, pathVars, statVars, dropVars, submit,
                    worker, fileVars, stop_requested>>
  \/ ~accepting_logs_ /\ UNCHANGED vars

\* Faulty variant: the worker is joined without being told to stop.
RequestStop_Missing ==
  /\ closer = "stop"
  /\ closer' = "join"
  /\ UNCHANGED <<queueVars, options, flush_requested_, pathVars, statVars, dropVars, submit, worker,
                 fileVars, accepting_logs_, stop_requested, quiet>>

RequestStop ==
  /\ closer = "stop"
  /\ stop_requested' = TRUE
  /\ closer' = "join"
  /\ UNCHANGED <<queueVars, options, flush_requested_, pathVars, statVars, dropVars, submit, worker,
                 fileVars, accepting_logs_, quiet>>

CloseFile == file_' = FALSE /\ dirty' = FALSE

\* join, then CloseFile.
Join ==
  /\ closer = "join" /\ worker.at = "done"
  /\ CloseFile
  /\ closer' = "closed"
  /\ UNCHANGED <<queueVars, options, flush_requested_, pathVars, statVars, dropVars, submit, worker,
                 log, reported, accepting_logs_, stop_requested, quiet>>

-----------------------------------------------------------------------------

Configure ==
  \/ SetLogFile \/ \E o \in Options : InitLogger(o)
  \/ \E l \in 0 .. Off : SetLogLevel(l)
  \/ Flush

Next ==
  \/ \E t \in Threads : InSubmit(t) \/ \E l \in Levels : Submit(t, l)
  \/ Configure \/ RequestReopen
  \/ WorkerLoop
  \/ Shutdown \/ RequestStop \/ Join

Spec == Init /\ [][Next]_vars

\* Every thread that is inside a function of the logger goes on, the worker
\* among them, and its clock advances: the flush interval passes again and
\* again.  Nothing makes a thread log, change the configuration or shut down.
Fairness ==
  /\ \A t \in Threads : WF_vars(InSubmit(t))
  /\ WF_vars(RequestReopen)
  /\ WF_vars(WorkerLoop) /\ SF_vars(FlushFile)
  /\ WF_vars(RequestStop) /\ WF_vars(Join)

FairSpec == Spec /\ Fairness

-----------------------------------------------------------------------------
(* Properties.                                                             *)

\* A queue never holds more than kRingCapacity cells and a batch never more
\* entries than the limit it was popped with.
TypeOK ==
  /\ cells \in Seq(Cell) /\ Len(cells) <= Capacity
  /\ inflight_count_ \in Int
  /\ options \in [queue_capacity : 1 .. Capacity, max_batch_size : Nat \ {0}, min_level : 0 .. Off]
  /\ accepting_logs_ \in BOOLEAN /\ stop_requested \in BOOLEAN /\ flush_requested_ \in BOOLEAN
  /\ reopen_requested_ \in BOOLEAN /\ path_changed \in BOOLEAN /\ file_ \in BOOLEAN
  /\ dirty \in BOOLEAN /\ quiet \in BOOLEAN
  /\ setter \in {"idle", "flag"} /\ closer \in {"idle", "stop", "join", "closed"}
  /\ submit_calls_ \in Nat /\ filtered_by_level_ \in Nat /\ enqueued_ \in Nat /\ consumed_ \in Nat
  /\ dropped_ \in Nat
  /\ dropped_for_summary_ \in Nat /\ pending_drop_summary_ \in Nat /\ reported \in Nat
  /\ requests \in Nat
  /\ submit \in [Threads -> [at : {"idle", "push", "publish", "count", "drop"}, n : Nat]]
  /\ \A t \in Threads : submit[t].n <= MaxLogs[t] /\ (submit[t].at # "idle" => submit[t].n > 0)
  /\ worker \in [at : {"start", "open", "top", "pop", "write", "summary", "flush", "idle", "done"},
                 batch : Seq(Entries), limit : Nat \ {0}, drained : Nat, draining : BOOLEAN]
  /\ Len(worker.batch) <= worker.limit

In(places) == Cardinality({t \in Threads : submit[t].at \in places})
Uncounted == In({"publish", "count"})
Submitting == In({"push", "publish", "count", "drop"})
Held == Len(cells) + Len(worker.batch)

\* The relaxed counters are exact up to what their threads are about to add:
\* inflight_count_ is the number of entries in the queue and in the worker's
\* batch; what was enqueued is consumed or there; and while the logger accepts
\* entries every call is filtered, enqueued, dropped or under way.
CountersExact ==
  /\ inflight_count_ + Uncounted = Held
  /\ enqueued_ + Uncounted = consumed_ + Held
  /\ accepting_logs_ =>
       submit_calls_ = filtered_by_level_ + enqueued_ + dropped_ + Submitting

\* Every dropped entry is told once: it is in a summary that was written, or
\* held back, or waiting to be collected.
DropsReported == dropped_ = reported + pending_drop_summary_ + dropped_for_summary_

\* Nothing is written twice, and the entries of a thread are written in the
\* order in which it logged them: each batch goes on where the log stops.
WrittenOnceInOrder ==
  \A i \in DOMAIN worker.batch :
    /\ log[worker.batch[i][1]] < worker.batch[i][2]
    /\ \A j \in 1 .. i - 1 :
         worker.batch[j][1] = worker.batch[i][1] => worker.batch[j][2] < worker.batch[i][2]

\* A Shutdown that begins while no thread is inside Submit leaves nothing behind
\* when it returns: the queue is empty, what was enqueued is written and
\* flushed, and all drops are told.
ShutdownDrains ==
  quiet /\ closer = "closed" =>
    /\ cells = <<>> /\ consumed_ = enqueued_ /\ ~dirty
    /\ reported = dropped_

\* A change of the log file is not lost: unless a request is pending or on its
\* way, the worker's last attempt to open a file was for the latest path.
LatestPathOpened ==
  path_changed => reopen_requested_ \/ setter = "flag" \/ worker.at \in {"start", "open"}

\* Once logging stops, all that was enqueued gets written and flushed although
\* nobody asks for a flush, unless the logger is shut down first.
EntriesReachDisk == <>[](~accepting_logs_ \/ (consumed_ = enqueued_ /\ ~dirty))

\* Shutdown returns: threads still inside Submit do not keep the worker alive.
ShutdownReturns == (closer = "stop") ~> (closer = "closed")
=============================================================================
