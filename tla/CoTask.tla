------------------------------- MODULE CoTask -------------------------------
(***************************************************************************)
(* Coroutine tasks (src/src/coroutine/task.h, both Task<T> and Task<void>): *)
(* a chain of coroutines in which number k co_awaits number k - 1.  Number *)
(* 1 is suspended on an RPC and resumed by the dispatcher thread; the main *)
(* thread starts the chain, then blocks in SyncWait on its last task and   *)
(* destroys it.  What a thread does to a task that others can see is one   *)
(* step each: the two looks at the future, the store and the load of the   *)
(* continuation, the publication of the result, the destruction.           *)
(*                                                                         *)
(* The code has undefined behaviour where the final awaiter reads a frame  *)
(* that is already destroyed, or resumes a coroutine that is not suspended.*)
(* Both threads are then at "undefined", and nothing more is said of them. *)
(***************************************************************************)
EXTENDS Naturals

CONSTANT Depth   \* length of the chain

ASSUME DepthAssumption == Depth \in Nat \ {0}

Coroutines == 1 .. Depth
Threads == {"main", "dispatcher"}

VARIABLES
  at,            \* thread -> the coroutine it runs and its place in it
  rpc,           \* the waiter of coroutine 1: "unbound", "bound", "resumed"
  ready,         \* completion_future of each coroutine
  continuation,  \* coroutine -> promise.continuation is set (to the next one)
  destroyed      \* coroutines whose frame has been destroyed

vars == <<at, rpc, ready, continuation, destroyed>>

Place(k, step) == [k |-> k, step |-> step]

Init ==
  /\ at = [t \in Threads |-> Place(IF t = "main" THEN 1 ELSE 0,
                                   IF t = "main" THEN "start" ELSE "out")]
  /\ rpc = "unbound"
  /\ ready = [k \in Coroutines |-> FALSE]
  /\ continuation = [k \in Coroutines |-> FALSE]
  /\ destroyed = {}

In(t, k, step) == at[t] = Place(k, step)
Goto(t, k, step) == at' = [at EXCEPT ![t] = Place(k, step)]

\* Coroutine k is suspended: the thread returns to whoever called or resumed
\* it.  For the main thread that is the body of coroutine k + 1, which has
\* just got the Task as a return value, or SyncWait.
LeaveCoroutine(t, k) ==
  IF t = "dispatcher" THEN Goto(t, 0, "out")
  ELSE IF k = Depth THEN Goto(t, 0, "get")
  ELSE Goto(t, k + 1, "await_ready")

\* Coroutine k waits in its co_await, and no thread runs it.
Suspended(k) ==
  continuation[k - 1] /\ ~ready[k] /\ \A t \in Threads : at[t].k # k

\* Anything may happen from here on.
UndefinedBehaviour == at' = [t \in Threads |-> Place(0, "undefined")]

-----------------------------------------------------------------------------

\* The chain starts eagerly (initial_suspend never suspends), so the first
\* coroutine that can suspend is the one on the RPC.  It does so unless its
\* call has already been settled (or has failed) when it is bound.
StartRpc ==
  /\ In("main", 1, "start")
  /\ \/ rpc' = "bound" /\ LeaveCoroutine("main", 1)
     \/ rpc' = "resumed" /\ Goto("main", 1, "publish")
  /\ UNCHANGED <<ready, continuation, destroyed>>

\* The dispatcher resumes the RPC's coroutine, which runs to its end.
ResumeRpc ==
  /\ rpc = "bound" /\ at["dispatcher"].step = "out"
  /\ rpc' = "resumed"
  /\ Goto("dispatcher", 1, "publish")
  /\ UNCHANGED <<ready, continuation, destroyed>>

AwaitReady(t, k) ==
  /\ In(t, k, "await_ready")
  /\ Goto(t, k, IF ready[k - 1] THEN "await_resume" ELSE "await_suspend")
  /\ UNCHANGED <<rpc, ready, continuation, destroyed>>

\* await_suspend stores the continuation in the awaited task ...
SetContinuation(t, k) ==
  /\ In(t, k, "await_suspend")
  /\ continuation' = [continuation EXCEPT ![k - 1] = TRUE]
  /\ Goto(t, k, "recheck")
  /\ UNCHANGED <<rpc, ready, destroyed>>

\* Faulty variant: go on without a second look at the future.
Recheck_GoesOn(t, k) ==
  /\ In(t, k, "recheck")
  /\ Goto(t, k, "await_resume")
  /\ UNCHANGED <<rpc, ready, continuation, destroyed>>

\* ... and returns whether the task is still not ready.
Recheck(t, k) ==
  /\ In(t, k, "recheck")
  /\ IF ready[k - 1] THEN Goto(t, k, "await_resume") ELSE LeaveCoroutine(t, k)
  /\ UNCHANGED <<rpc, ready, continuation, destroyed>>

\* Faulty variant: co_return publishes the result, as a plain return_value
\* that sets the promise would, before the coroutine has reached its end.
AwaitResume_Publishes(t, k) ==
  /\ In(t, k, "await_resume") /\ ready[k - 1]
  /\ destroyed' = destroyed \cup {k - 1}
  /\ ready' = [ready EXCEPT ![k] = TRUE]
  /\ Goto(t, k, "publish")
  /\ UNCHANGED <<rpc, continuation>>

\* await_resume takes the result; the awaited Task, a temporary, is destroyed
\* at the end of the expression; co_return keeps the result of this one for
\* the final awaiter.
AwaitResume(t, k) ==
  /\ In(t, k, "await_resume") /\ ready[k - 1]
  /\ destroyed' = destroyed \cup {k - 1}
  /\ Goto(t, k, "publish")
  /\ UNCHANGED <<rpc, ready, continuation>>

\* FinalAwaiter::await_suspend publishes the result ...
PublishCompletion(t, k) ==
  /\ In(t, k, "publish")
  /\ ready' = [ready EXCEPT ![k] = TRUE]
  /\ Goto(t, k, "final")
  /\ UNCHANGED <<rpc, continuation, destroyed>>

\* ... and then reads the continuation: the thread goes on inside the awaiting
\* coroutine (symmetric transfer) or leaves.  The store by the other thread is
\* not ordered with this read, which may miss it.  The awaiting coroutine need
\* not be suspended: at its second look it finds the result, which has been
\* published, and goes on by itself.
ReadContinuation(t, k) ==
  /\ In(t, k, "final")
  /\ \/ k \notin destroyed /\ LeaveCoroutine(t, k)
     \/ /\ k \notin destroyed /\ continuation[k] /\ Suspended(k + 1)
        /\ Goto(t, k + 1, "await_resume")
     \/ /\ k \in destroyed \/ (continuation[k] /\ ~Suspended(k + 1))
        /\ UndefinedBehaviour
  /\ UNCHANGED <<rpc, ready, continuation, destroyed>>

\* SyncWait: Get blocks until the last task is ready; its Task is destroyed.
Get ==
  /\ In("main", 0, "get") /\ ready[Depth]
  /\ Goto("main", 0, "reset")
  /\ UNCHANGED <<rpc, ready, continuation, destroyed>>

Reset ==
  /\ In("main", 0, "reset")
  /\ destroyed' = destroyed \cup {Depth}
  /\ Goto("main", 0, "returned")
  /\ UNCHANGED <<rpc, ready, continuation>>

RunCoroutine(t, k) ==
  AwaitReady(t, k) \/ SetContinuation(t, k) \/ Recheck(t, k) \/ AwaitResume(t, k)
  \/ PublishCompletion(t, k) \/ ReadContinuation(t, k)

Next ==
  \/ StartRpc \/ ResumeRpc \/ Get \/ Reset
  \/ \E t \in Threads, k \in Coroutines : RunCoroutine(t, k)

Spec == Init /\ [][Next]_vars

-----------------------------------------------------------------------------
(* Properties.                                                             *)

Steps == {"out", "start", "await_ready", "await_suspend", "recheck", "await_resume",
          "publish", "final", "get", "reset", "returned", "undefined"}

TypeOK ==
  /\ at \in [Threads -> [k: 0 .. Depth, step: Steps]]
  /\ rpc \in {"unbound", "bound", "resumed"}
  /\ ready \in [Coroutines -> BOOLEAN]
  /\ continuation \in [Coroutines -> BOOLEAN]
  /\ destroyed \subseteq Coroutines

\* A coroutine gets past its co_await only when the awaited task has completed,
\* so await_resume never blocks the thread that resumed it.
AwaitResumeNeverBlocks ==
  \A t \in Threads : at[t].step = "await_resume" => ready[at[t].k - 1]

\* The frames that the next step of a thread at place p reads or writes.
Uses(p) ==
  CASE p.step \in {"await_ready", "await_suspend", "recheck", "await_resume"} -> {p.k - 1, p.k}
    [] p.step \in {"start", "publish", "final"} -> {p.k}
    [] p.step \in {"get", "reset"} -> {Depth}
    [] OTHER -> {}

\* The Task that owns a frame destroys it as soon as the result is published,
\* from whichever thread it is on.  No thread is then still at work in the
\* frame, nor about to look into it, except for one read: the final awaiter's
\* read of the continuation, with which undefined behaviour begins.
FramesOutliveTheirUse ==
  \A t \in Threads : at[t].step # "final" => Uses(at[t]) \cap destroyed = {}
=============================================================================
