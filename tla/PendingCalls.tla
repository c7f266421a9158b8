---------------------------- MODULE PendingCalls ----------------------------
(***************************************************************************)
(* The table of in-flight calls of the RPC client (src/src/client/         *)
(* pending_calls.{h,cpp}): request_id -> Slot under one mutex, three kinds *)
(* of waiter (the promise of CallAsync, the coroutine of CallCo, a thread  *)
(* in WaitAndPop), and the three operations that settle waiters: Complete, *)
(* FailAll and FailTimedOut.  Everything done under mutex_ is one step.    *)
(* The settling operations take waiters out of the table under the lock    *)
(* and wake them after releasing it: the promises and handles a thread has *)
(* taken but not yet woken are the locals async_waiters and                *)
(* coroutine_waiters of that thread, so another operation can run between  *)
(* the taking and every single wake-up.                                    *)
(*                                                                         *)
(* A request id has one owner, the call that generated it, which follows   *)
(* the protocol of RpcClient::CallAsync and CallCo: Add, send, then bind.  *)
(***************************************************************************)

CONSTANTS
  Ids,        \* request ids
  Threads,    \* threads that settle calls: dispatchers and callers of Close
  Results,    \* the values of RpcCallResult that tell two settlements apart
  NoResult,   \* Slot::result before it is written
  NullOpt,    \* std::nullopt, what WaitAndPop returns on a timeout
  Fallback,   \* "coroutine waiter resumed without result"
  NoId        \* no coroutine is running on a thread

ASSUME PendingAssumption ==
  /\ {NoResult, NullOpt, Fallback} \cap Results = {}
  /\ Fallback \notin {NoResult, NullOpt}
  /\ NoId \notin Ids

VARIABLES
  slots,              \* slots_: a function whose domain is the set of keys
  async_waiters,      \* thread -> <<id, result>> of the promises it has taken
  coroutine_waiters,  \* thread -> ids of the handles it has taken
  running,            \* thread -> id of the coroutine it is inside resume() of
  caller,             \* id -> where the owner of the request stands
  outcome,            \* id -> what the owner's call returned
  first               \* id -> history: the first result written to its slot

vars == <<slots, async_waiters, coroutine_waiters, running, caller, outcome,
          first>>
locals == <<async_waiters, coroutine_waiters, running>>

Slot == [done: BOOLEAN, result: Results \cup {NoResult},
         async_promise: BOOLEAN,    \* async_promise.has_value()
         async_bound: BOOLEAN,
         coroutine_bound: BOOLEAN,  \* and coroutine_handle is set
         expired: BOOLEAN]          \* now >= deadline

\* A Slot as try_emplace makes it.  The default deadline is the epoch of the
\* clock, so a slot that nobody has bound yet counts as expired.
NewSlot == [done |-> FALSE, result |-> NoResult, async_promise |-> FALSE,
            async_bound |-> FALSE, coroutine_bound |-> FALSE,
            expired |-> TRUE]

CallerStates == {"idle", "added", "future", "suspended", "cv_wait", "popping",
                 "timed_out", "returned"}

Init ==
  /\ slots = [id \in {} |-> NewSlot]
  /\ async_waiters = [t \in Threads |-> {}]
  /\ coroutine_waiters = [t \in Threads |-> {}]
  /\ running = [t \in Threads |-> NoId]
  /\ caller = [id \in Ids |-> "idle"]
  /\ outcome = [id \in Ids |-> NoResult]
  /\ first = [id \in Ids |-> NoResult]

-----------------------------------------------------------------------------
(* The table.                                                              *)

Pending(id) == id \in DOMAIN slots

Erase(id) == slots' = [k \in DOMAIN slots \ {id} |-> slots[k]]

\* Faulty variant: a later settlement replaces the result of a finished slot.
Settled_Overwrites(slot, r) == [slot EXCEPT !.done = TRUE, !.result = r]

\* "if (!slot.done) { slot.done = true; slot.result = r; }"
Settled(slot, r) ==
  [slot EXCEPT !.done = TRUE, !.result = IF slot.done THEN @ ELSE r]

\* Faulty variant: the handle is taken but stays bound.
Unbound_KeepsHandle(slot) == [slot EXCEPT !.async_promise = FALSE]

\* The slot after its waiters have been taken out of it.
Unbound(slot) ==
  [slot EXCEPT !.async_promise = FALSE, !.coroutine_bound = FALSE]

Return(id, r) ==
  /\ caller' = [caller EXCEPT ![id] = "returned"]
  /\ outcome' = [outcome EXCEPT ![id] = r]

Move(id, from, to) ==
  /\ caller[id] = from
  /\ caller' = [caller EXCEPT ![id] = to]

-----------------------------------------------------------------------------
(* The owner of a request.                                                 *)

Add(id) ==
  /\ ~Pending(id)
  /\ Move(id, "idle", "added")
  /\ slots' = [k \in DOMAIN slots \cup {id} |->
                 IF k = id THEN NewSlot ELSE slots[k]]
  /\ UNCHANGED <<locals, outcome, first>>

\* A rejected bind falls back to Remove and an error (CallAsync does).
BindAsync(id) ==
  /\ caller[id] = "added"
  /\ IF ~Pending(id) \/ slots[id].async_bound \/ slots[id].coroutine_bound
     THEN Erase(id) /\ Return(id, Fallback)
     ELSE IF slots[id].done
     THEN Erase(id) /\ Return(id, slots[id].result)
     ELSE /\ slots' = [slots EXCEPT ![id].async_promise = TRUE,
                                    ![id].async_bound = TRUE,
                                    ![id].expired = FALSE]
          /\ Move(id, "added", "future")
          /\ UNCHANGED outcome
  /\ UNCHANGED <<locals, first>>

\* await_suspend: kBound suspends, kAlreadyDone goes on to TryPop, the two
\* rejections return the error without touching the table.
BindCoroutine(id) ==
  /\ caller[id] = "added"
  /\ IF ~Pending(id) \/ slots[id].async_bound \/ slots[id].coroutine_bound
     THEN UNCHANGED slots /\ Return(id, Fallback)
     ELSE IF slots[id].done
     THEN Move(id, "added", "popping") /\ UNCHANGED <<slots, outcome>>
     ELSE /\ slots' = [slots EXCEPT ![id].coroutine_bound = TRUE,
                                    ![id].expired = FALSE]
          /\ Move(id, "added", "suspended")
          /\ UNCHANGED outcome
  /\ UNCHANGED <<locals, first>>

\* The request could not be written to the socket: the owner settles its own
\* slot with Complete (there is no waiter to wake yet) and goes on to TryPop.
SendFailed(id, r) ==
  /\ Pending(id)
  /\ Move(id, "added", "popping")
  /\ slots' = [slots EXCEPT ![id] = Settled(@, r)]
  /\ first' = [first EXCEPT ![id] = IF slots[id].done THEN @ ELSE r]
  /\ UNCHANGED <<locals, outcome>>

\* TryPop by the owner: await_resume, or the tail of a failed send.  If a
\* thread is inside resume() of this coroutine, it gets its control back.
TryPop(id) ==
  /\ caller[id] = "popping"
  /\ IF Pending(id) /\ slots[id].done
     THEN Erase(id) /\ Return(id, slots[id].result)
     ELSE UNCHANGED slots /\ Return(id, Fallback)
  /\ running' = [t \in Threads |-> IF running[t] = id THEN NoId ELSE running[t]]
  /\ UNCHANGED <<async_waiters, coroutine_waiters, first>>

\* WaitAndPop up to the point where the thread blocks on the slot's cv.  Its
\* slot is there: nobody else erases it, so that the nullopt for a request id
\* that is not in the table is never returned.
WaitAndPop(id) ==
  /\ caller[id] = "added"
  /\ Pending(id)
  /\ IF slots[id].done
     THEN Erase(id) /\ Return(id, slots[id].result)
     ELSE Move(id, "added", "cv_wait") /\ UNCHANGED <<slots, outcome>>
  /\ UNCHANGED <<locals, first>>

\* The thread in WaitAndPop was notified, or its timeout ran out, and it finds
\* done: it looks the slot up again, takes the result and erases the slot.
WaitWake(id) ==
  /\ caller[id] = "cv_wait"
  /\ Pending(id) /\ slots[id].done
  /\ Erase(id)
  /\ Return(id, slots[id].result)
  /\ UNCHANGED <<locals, first>>

\* wait_for times out and the slot is not done: nullopt, and the slot stays
\* until the owner removes it.
WaitTimeout(id) ==
  /\ Pending(id) /\ ~slots[id].done
  /\ Move(id, "cv_wait", "timed_out")
  /\ outcome' = [outcome EXCEPT ![id] = NullOpt]
  /\ UNCHANGED <<slots, locals, first>>

Remove(id) ==
  /\ Move(id, "timed_out", "returned")
  /\ Erase(id)
  /\ UNCHANGED <<locals, outcome, first>>

\* The clock reaches the deadline of a bound slot.
DeadlinePasses(id) ==
  /\ Pending(id) /\ ~slots[id].expired
  /\ slots' = [slots EXCEPT ![id].expired = TRUE]
  /\ UNCHANGED <<locals, caller, outcome, first>>

-----------------------------------------------------------------------------
(* The threads that settle calls.                                          *)

\* The thread has no waiter of an earlier operation left to wake.
Free(t) ==
  async_waiters[t] = {} /\ coroutine_waiters[t] = {} /\ running[t] = NoId

\* Faulty variant: the slot is erased for every kind of waiter.
Complete_AlwaysErases(t, id, r) ==
  /\ Free(t)
  /\ Pending(id) /\ ~slots[id].done
  /\ first' = [first EXCEPT ![id] = r]
  /\ Erase(id)
  /\ async_waiters' = [async_waiters EXCEPT ![t] =
       IF slots[id].async_promise THEN {<<id, r>>} ELSE {}]
  /\ coroutine_waiters' = [coroutine_waiters EXCEPT ![t] =
       IF slots[id].coroutine_bound THEN {id} ELSE {}]
  /\ UNCHANGED <<running, caller, outcome>>

Complete(t, id, r) ==
  /\ Free(t)
  /\ Pending(id) /\ ~slots[id].done
  /\ first' = [first EXCEPT ![id] = r]
  /\ IF slots[id].async_promise
     THEN /\ Erase(id)
          /\ async_waiters' = [async_waiters EXCEPT ![t] = {<<id, r>>}]
          /\ UNCHANGED coroutine_waiters
     ELSE /\ slots' = [slots EXCEPT ![id] = Unbound(Settled(@, r))]
          /\ coroutine_waiters' = [coroutine_waiters EXCEPT ![t] =
               IF slots[id].coroutine_bound THEN {id} ELSE {}]
          /\ UNCHANGED async_waiters
  /\ UNCHANGED <<running, caller, outcome>>

\* Faulty variant: the handles are unbound but not collected.
FailSlots_DropsHandles(t, S, r) ==
  /\ slots' = [id \in DOMAIN slots |->
                 IF id \in S THEN Unbound(Settled(slots[id], r)) ELSE slots[id]]
  /\ async_waiters' = [async_waiters EXCEPT ![t] =
       {<<id, Settled(slots[id], r).result>> :
          id \in {k \in S : slots[k].async_promise}}]
  /\ first' = [id \in Ids |->
       IF id \in S /\ ~slots[id].done THEN r ELSE first[id]]
  /\ UNCHANGED <<coroutine_waiters, running, caller, outcome>>

\* Settles the slots of the set S with r and takes all their waiters.
FailSlots(t, S, r) ==
  /\ slots' = [id \in DOMAIN slots |->
                 IF id \in S THEN Unbound(Settled(slots[id], r)) ELSE slots[id]]
  /\ async_waiters' = [async_waiters EXCEPT ![t] =
       {<<id, Settled(slots[id], r).result>> :
          id \in {k \in S : slots[k].async_promise}}]
  /\ coroutine_waiters' = [coroutine_waiters EXCEPT ![t] =
       {id \in S : slots[id].coroutine_bound}]
  /\ first' = [id \in Ids |->
       IF id \in S /\ ~slots[id].done THEN r ELSE first[id]]
  /\ UNCHANGED <<running, caller, outcome>>

FailAll(t, r) ==
  /\ Free(t)
  /\ FailSlots(t, DOMAIN slots, r)

\* "slot.done || now < slot.deadline || (!async_bound && !coroutine_bound)"
TimedOut(slot) ==
  ~slot.done /\ slot.expired /\ (slot.async_bound \/ slot.coroutine_bound)

FailTimedOut(t, r) ==
  /\ Free(t)
  /\ FailSlots(t, {id \in DOMAIN slots : TimedOut(slots[id])}, r)

\* After the lock: set_value on one of the promises ...
SetValue(t, id, r) ==
  /\ <<id, r>> \in async_waiters[t]
  /\ running[t] = NoId
  /\ async_waiters' = [async_waiters EXCEPT ![t] = @ \ {<<id, r>>}]
  /\ Return(id, r)
  /\ UNCHANGED <<slots, coroutine_waiters, running, first>>

\* ... and, once no promise is left, resume() on one of the handles, which
\* runs the coroutine on this thread.
Resume(t, id) ==
  /\ async_waiters[t] = {}
  /\ running[t] = NoId
  /\ id \in coroutine_waiters[t]
  /\ coroutine_waiters' = [coroutine_waiters EXCEPT ![t] = @ \ {id}]
  /\ running' = [running EXCEPT ![t] = id]
  /\ caller' = [caller EXCEPT ![id] = "popping"]
  /\ UNCHANGED <<slots, async_waiters, outcome, first>>

-----------------------------------------------------------------------------

OwnerNext(id) ==
  \/ Add(id) \/ BindAsync(id) \/ BindCoroutine(id) \/ TryPop(id)
  \/ WaitAndPop(id) \/ WaitWake(id) \/ WaitTimeout(id) \/ Remove(id)
  \/ DeadlinePasses(id)
  \/ \E r \in Results : SendFailed(id, r)

SettlerNext(t) ==
  \/ \E id \in Ids, r \in Results : Complete(t, id, r) \/ SetValue(t, id, r)
  \/ \E r \in Results : FailAll(t, r) \/ FailTimedOut(t, r)
  \/ \E id \in Ids : Resume(t, id)

Next == (\E id \in Ids : OwnerNext(id)) \/ (\E t \in Threads : SettlerNext(t))

Spec == Init /\ [][Next]_vars

\* A thread that has taken waiters goes on to wake them, and a woken owner
\* goes on to take its result: both are straight-line code after an unlock or
\* a notify.  Nothing is assumed of the operations themselves.
Fairness ==
  /\ \A t \in Threads, id \in Ids :
       WF_vars(Resume(t, id) \/ \E r \in Results : SetValue(t, id, r))
  /\ \A id \in Ids : /\ WF_vars(TryPop(id)) /\ WF_vars(WaitWake(id) \/ Remove(id))
                     /\ WF_vars(BindAsync(id) \/ BindCoroutine(id))

FairSpec == Spec /\ Fairness

-----------------------------------------------------------------------------
(* Properties.                                                             *)

TypeOK ==
  /\ DOMAIN slots \subseteq Ids
  /\ slots \in [DOMAIN slots -> Slot]
  /\ async_waiters \in [Threads -> SUBSET (Ids \X Results)]
  /\ coroutine_waiters \in [Threads -> SUBSET Ids]
  /\ running \in [Threads -> Ids \cup {NoId}]
  /\ caller \in [Ids -> CallerStates]
  /\ outcome \in [Ids -> Results \cup {NoResult, NullOpt, Fallback}]
  /\ first \in [Ids -> Results \cup {NoResult}]

InSlot(id) ==
  Pending(id) /\ (slots[id].async_promise \/ slots[id].coroutine_bound)

\* The waiters of id that threads have taken and not yet woken.
Taken(id) ==
  {w \in Threads \X Results : <<id, w[2]>> \in async_waiters[w[1]]}
    \cup {<<t, NoResult>> : t \in {u \in Threads : id \in coroutine_waiters[u]}}

\* A waiter is neither lost nor woken twice, whatever the order in which the
\* dispatcher, a timeout sweep and a Close run: while a call waits, its
\* promise or handle is either in the slot or in the hands of exactly one
\* thread, once; when it does not wait, nobody holds one.  (Complete, FailAll
\* and FailTimedOut: "take the handle, release the lock, then resume".)
WaiterHeldOnce ==
  \A id \in Ids :
    IF caller[id] \in {"future", "suspended"}
    THEN IF InSlot(id) THEN Taken(id) = {} ELSE \E w \in Taken(id) : Taken(id) = {w}
    ELSE ~InSlot(id) /\ Taken(id) = {}

\* A call returns the first result that was written for its request id: a
\* late response, a timeout or the FailAll of a closing connection never
\* replaces it (pending_calls.cpp, FailAll: a finished request must not be
\* overwritten, Complete: a repeated response is ignored).
FirstResultWins ==
  \A id \in Ids : outcome[id] \in Results => outcome[id] = first[id]

\* The defensive error paths are dead: no owner finds its slot missing or
\* already bound when it binds, and no coroutine is resumed without a result
\* ("bind async waiter failed", "bind coroutine waiter failed", "coroutine
\* waiter resumed without result").
NoFallback ==
  \A id \in Ids : outcome[id] # Fallback

\* Once a result has been written for a request, the call returns, whichever
\* way its owner waits and whoever wrote it.
SettledReturns ==
  \A id \in Ids : first[id] # NoResult ~> caller[id] = "returned"
=============================================================================
