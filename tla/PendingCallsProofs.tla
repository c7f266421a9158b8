------------------------- MODULE PendingCallsProofs -------------------------
(***************************************************************************)
(* Proofs that the pending table neither loses nor doubles a waiter, that  *)
(* the first result wins and that its defensive error paths are dead, for  *)
(* any number of requests, settling threads and results.                   *)
(***************************************************************************)
EXTENDS PendingCalls, TLAPS

\* What the slot of a request looks like, for each place its owner can be at.
SlotInv(id) ==
  /\ caller[id] = "idle" => ~Pending(id)
  /\ caller[id] = "added" =>
       /\ Pending(id)
       /\ ~slots[id].async_promise /\ ~slots[id].async_bound
       /\ ~slots[id].coroutine_bound
  /\ caller[id] = "future" /\ Pending(id) =>
       /\ slots[id].done = ~slots[id].async_promise
       /\ ~slots[id].coroutine_bound
  /\ caller[id] = "suspended" =>
       /\ Pending(id)
       /\ slots[id].done = ~slots[id].coroutine_bound
       /\ ~slots[id].async_promise
  /\ caller[id] = "popping" => Pending(id) /\ slots[id].done
  /\ caller[id] \in {"cv_wait", "timed_out"} => Pending(id)
  /\ caller[id] = "returned" /\ Pending(id) => slots[id].done
  /\ caller[id] \notin {"future", "suspended"} /\ Pending(id) =>
       ~slots[id].async_promise /\ ~slots[id].coroutine_bound

\* Results: a finished slot holds the first result, and so does an outcome.
ResultInv(id) ==
  /\ Pending(id) /\ slots[id].done =>
       slots[id].result = first[id] /\ first[id] \in Results
  /\ outcome[id] \in Results => caller[id] = "returned" /\ outcome[id] = first[id]
  /\ outcome[id] # Fallback

\* A promise that a thread has taken: its owner waits for it, it carries the
\* first result, and the slot, if it is still there, is finished.
TakenPromiseInv(t, id, r) ==
  <<id, r>> \in async_waiters[t] =>
    /\ caller[id] = "future"
    /\ r = first[id]
    /\ Pending(id) => slots[id].done

TakenHandleInv(t, id) ==
  id \in coroutine_waiters[t] =>
    caller[id] = "suspended" /\ Pending(id) /\ slots[id].done

\* A waiter that is no longer in the slot has been taken by some thread ...
NotLost(id) ==
  /\ caller[id] = "future" /\ (Pending(id) => slots[id].done) =>
       \E t \in Threads, r \in Results : <<id, r>> \in async_waiters[t]
  /\ caller[id] = "suspended" /\ slots[id].done =>
       \E t \in Threads : id \in coroutine_waiters[t]

\* ... and by no other one.
NotDoubled(t, u, id) ==
  /\ (\E r \in Results : <<id, r>> \in async_waiters[t])
       /\ (\E r \in Results : <<id, r>> \in async_waiters[u]) => t = u
  /\ id \in coroutine_waiters[t] /\ id \in coroutine_waiters[u] => t = u

\* All that is said about one request.
CallInv(id) ==
  /\ SlotInv(id) /\ ResultInv(id) /\ NotLost(id)
  /\ \A t \in Threads :
       TakenHandleInv(t, id) /\ \A r \in Results : TakenPromiseInv(t, id, r)
  /\ \A t \in Threads, u \in Threads : NotDoubled(t, u, id)

IInv == TypeOK /\ \A id \in Ids : CallInv(id)

-----------------------------------------------------------------------------

\* IInv holds at first.
LEMMA InitIInv == Init => IInv
<1> SUFFICES ASSUME Init PROVE IInv
  OBVIOUS
<1>1. TypeOK
  BY DEF Init, TypeOK, CallerStates
<1>2. ASSUME NEW id \in Ids PROVE SlotInv(id) /\ ResultInv(id) /\ NotLost(id)
  BY PendingAssumption DEF Init, SlotInv, ResultInv, NotLost, Pending
<1> QED
  BY <1>1, <1>2 DEF Init, IInv, CallInv, TakenHandleInv, TakenPromiseInv,
                    NotDoubled

\* The changes that the operations make to a slot keep its type.
LEMMA SlotTypes ==
  ASSUME NEW s \in Slot
  PROVE  /\ \A r \in Results : Settled(s, r) \in Slot
         /\ Unbound(s) \in Slot
         /\ [s EXCEPT !.expired = TRUE] \in Slot
         /\ [s EXCEPT !.coroutine_bound = TRUE, !.expired = FALSE] \in Slot
         /\ [s EXCEPT !.async_promise = TRUE, !.async_bound = TRUE,
                      !.expired = FALSE] \in Slot
<1>1. ASSUME NEW r \in Results PROVE Settled(s, r) \in Slot
  BY Zenon DEF Slot, Settled
<1>2. Unbound(s) \in Slot
  BY Zenon DEF Slot, Unbound
<1>3. [s EXCEPT !.expired = TRUE] \in Slot
  BY Zenon DEF Slot
<1>4. [s EXCEPT !.coroutine_bound = TRUE, !.expired = FALSE] \in Slot
  BY Zenon DEF Slot
<1>5. [s EXCEPT !.async_promise = TRUE, !.async_bound = TRUE,
                !.expired = FALSE] \in Slot
  BY Zenon DEF Slot
<1> QED
  BY <1>1, <1>2, <1>3, <1>4, <1>5

\* What settling leaves in a slot.
LEMMA SettledFields ==
  ASSUME NEW s \in Slot, NEW r \in Results
  PROVE  /\ Settled(s, r).done
         /\ Settled(s, r).result = IF s.done THEN s.result ELSE r
         /\ Settled(s, r).async_promise = s.async_promise
         /\ Settled(s, r).coroutine_bound = s.coroutine_bound
         /\ Unbound(Settled(s, r)).done
         /\ Unbound(Settled(s, r)).result = IF s.done THEN s.result ELSE r
         /\ ~Unbound(Settled(s, r)).async_promise
         /\ ~Unbound(Settled(s, r)).coroutine_bound
         /\ Unbound(Settled(s, r)).async_bound = s.async_bound
  BY DEF Slot, Settled, Unbound

\* The table and the promises and handles in threads' hands, as far as the
\* request k goes, are as they were.
SlotKept(k) ==
  /\ Pending(k)' = Pending(k)
  /\ Pending(k) => slots'[k] = slots[k]

HandsKept(k) ==
  \A t \in Threads :
    /\ k \in coroutine_waiters'[t] <=> k \in coroutine_waiters[t]
    /\ \A r \in Results :
         <<k, r>> \in async_waiters'[t] <=> <<k, r>> \in async_waiters[t]

Kept(k) ==
  /\ SlotKept(k) /\ HandsKept(k)
  /\ caller'[k] = caller[k] /\ outcome'[k] = outcome[k] /\ first'[k] = first[k]

\* A step that leaves a request alone keeps what is said of it.
LEMMA KeptCallInv ==
  ASSUME NEW k \in Ids, CallInv(k), Kept(k)
  PROVE  CallInv(k)'
<1> USE DEF Kept, SlotKept, HandsKept, Pending
<1>1. SlotInv(k)'
  BY DEF CallInv, SlotInv
<1>2. ResultInv(k)'
  BY DEF CallInv, ResultInv
<1>3. NotLost(k)'
  BY Zenon DEF CallInv, NotLost, SlotInv
<1>4. ASSUME NEW t \in Threads PROVE TakenHandleInv(t, k)'
  BY DEF CallInv, TakenHandleInv
<1>5. ASSUME NEW t \in Threads, NEW r \in Results PROVE TakenPromiseInv(t, k, r)'
  BY DEF CallInv, TakenPromiseInv
<1>6. ASSUME NEW t \in Threads, NEW u \in Threads PROVE NotDoubled(t, u, k)'
  BY Zenon DEF CallInv, NotDoubled
<1> QED
  BY <1>1, <1>2, <1>3, <1>4, <1>5, <1>6 DEF CallInv

\* Add preserves IInv.
LEMMA AddIInv ==
  ASSUME IInv, NEW id \in Ids, Add(id)
  PROVE  IInv'
<1> USE PendingAssumption DEF Add, Move, Return, Erase, Pending, locals
<1>1. DOMAIN slots' \subseteq Ids /\ slots' \in [DOMAIN slots' -> Slot]
  BY DEF IInv, TypeOK, Slot, NewSlot
<1>2. TypeOK'
  BY <1>1 DEF IInv, TypeOK, Slot, CallerStates, CallInv, SlotInv, ResultInv
<1>3. ASSUME NEW k \in Ids, k # id PROVE CallInv(k)'
  <2>1. SlotKept(k)
    BY <1>3 DEF IInv, TypeOK, SlotKept
  <2>2. Kept(k)
    BY <1>3, <2>1 DEF IInv, TypeOK, Kept, HandsKept
  <2> QED
    BY <1>3, <2>2, KeptCallInv DEF IInv
<1>4. CallInv(id)'
  <2>1. TypeOK /\ CallInv(id)
    BY DEF IInv
  <2>2. SlotInv(id)'
    BY <2>1 DEF TypeOK, Slot, NewSlot, CallInv, SlotInv
  <2>3. ResultInv(id)'
    BY <2>1 DEF TypeOK, Slot, NewSlot, CallInv, SlotInv, ResultInv
  <2>4. NotLost(id)'
    BY <2>1 DEF TypeOK, Slot, NewSlot, CallInv, SlotInv, NotLost
  <2>5. ASSUME NEW t \in Threads
        PROVE  TakenHandleInv(t, id)' /\ \A r \in Results : TakenPromiseInv(t, id, r)'
    BY <2>1 DEF TypeOK, CallInv, SlotInv, TakenHandleInv, TakenPromiseInv
  <2>6. ASSUME NEW t \in Threads, NEW u \in Threads PROVE NotDoubled(t, u, id)'
    BY <2>1 DEF CallInv, NotDoubled
  <2> QED
    BY <2>2, <2>3, <2>4, <2>5, <2>6 DEF CallInv
<1> QED
  BY <1>2, <1>3, <1>4 DEF IInv

\* BindAsync preserves IInv.
LEMMA BindAsyncIInv ==
  ASSUME IInv, NEW id \in Ids, BindAsync(id)
  PROVE  IInv'
<1> USE PendingAssumption DEF BindAsync, Move, Return, Erase, Pending, locals
<1>1. DOMAIN slots' \subseteq Ids /\ slots' \in [DOMAIN slots' -> Slot]
  <2> DEFINE bound == [slots[id] EXCEPT !.async_promise = TRUE,
                                        !.async_bound = TRUE, !.expired = FALSE]
  <2>1. CASE Pending(id) /\ slots' = [slots EXCEPT ![id] = bound]
    <3>1. bound \in Slot
      BY Zenon, <2>1, SlotTypes DEF IInv, TypeOK
    <3> QED
      BY <2>1, <3>1 DEF IInv, TypeOK
  <2>2. CASE Erase(id)
    BY <2>2 DEF IInv, TypeOK
  <2> QED
    BY Zenon, <2>1, <2>2 DEF IInv, TypeOK
<1>2. TypeOK'
  BY ZenonT(40), <1>1 DEF IInv, TypeOK, Slot, CallerStates, CallInv, SlotInv, ResultInv
<1>3. ASSUME NEW k \in Ids, k # id PROVE CallInv(k)'
  <2>1. SlotKept(k)
    BY <1>3 DEF IInv, TypeOK, SlotKept
  <2>2. Kept(k)
    BY <1>3, <2>1 DEF IInv, TypeOK, Kept, HandsKept
  <2> QED
    BY <1>3, <2>2, KeptCallInv DEF IInv
<1>4. CallInv(id)'
  <2>1. TypeOK /\ CallInv(id)
    BY DEF IInv
  <2>2. SlotInv(id)'
    BY <2>1 DEF TypeOK, Slot, NewSlot, CallInv, SlotInv
  <2>3. ResultInv(id)'
    BY <2>1 DEF TypeOK, Slot, NewSlot, CallInv, SlotInv, ResultInv
  <2>4. NotLost(id)'
    BY <2>1 DEF TypeOK, Slot, NewSlot, CallInv, SlotInv, NotLost
  <2>5. ASSUME NEW t \in Threads
        PROVE  TakenHandleInv(t, id)' /\ \A r \in Results : TakenPromiseInv(t, id, r)'
    BY <2>1 DEF TypeOK, CallInv, SlotInv, TakenHandleInv, TakenPromiseInv
  <2>6. ASSUME NEW t \in Threads, NEW u \in Threads PROVE NotDoubled(t, u, id)'
    BY SMTT(30), <2>1 DEF CallInv, NotDoubled
  <2> QED
    BY <2>2, <2>3, <2>4, <2>5, <2>6 DEF CallInv
<1> QED
  BY <1>2, <1>3, <1>4 DEF IInv

\* BindCoroutine preserves IInv.
LEMMA BindCoroutineIInv ==
  ASSUME IInv, NEW id \in Ids, BindCoroutine(id)
  PROVE  IInv'
<1> USE PendingAssumption DEF BindCoroutine, Move, Return, Erase, Pending, locals
<1>1. DOMAIN slots' \subseteq Ids /\ slots' \in [DOMAIN slots' -> Slot]
  <2> DEFINE bound == [slots[id] EXCEPT !.coroutine_bound = TRUE,
                                        !.expired = FALSE]
  <2>1. CASE Pending(id) /\ slots' = [slots EXCEPT ![id] = bound]
    <3>1. bound \in Slot
      BY Zenon, <2>1, SlotTypes DEF IInv, TypeOK
    <3> QED
      BY <2>1, <3>1 DEF IInv, TypeOK
  <2>2. CASE UNCHANGED slots
    BY <2>2 DEF IInv, TypeOK
  <2> QED
    BY Zenon, <2>1, <2>2 DEF IInv, TypeOK
<1>2. TypeOK'
  BY ZenonT(40), <1>1 DEF IInv, TypeOK, Slot, CallerStates, CallInv, SlotInv, ResultInv
<1>3. ASSUME NEW k \in Ids, k # id PROVE CallInv(k)'
  <2>1. SlotKept(k)
    BY <1>3 DEF IInv, TypeOK, SlotKept
  <2>2. Kept(k)
    BY <1>3, <2>1 DEF IInv, TypeOK, Kept, HandsKept
  <2> QED
    BY <1>3, <2>2, KeptCallInv DEF IInv
<1>4. CallInv(id)'
  <2>1. TypeOK /\ CallInv(id)
    BY DEF IInv
  <2>2. SlotInv(id)'
    BY <2>1 DEF TypeOK, Slot, NewSlot, CallInv, SlotInv
  <2>3. ResultInv(id)'
    BY <2>1 DEF TypeOK, Slot, NewSlot, CallInv, SlotInv, ResultInv
  <2>4. NotLost(id)'
    BY <2>1 DEF TypeOK, Slot, NewSlot, CallInv, SlotInv, NotLost
  <2>5. ASSUME NEW t \in Threads
        PROVE  TakenHandleInv(t, id)' /\ \A r \in Results : TakenPromiseInv(t, id, r)'
    BY <2>1 DEF TypeOK, CallInv, SlotInv, TakenHandleInv, TakenPromiseInv
  <2>6. ASSUME NEW t \in Threads, NEW u \in Threads PROVE NotDoubled(t, u, id)'
    BY <2>1 DEF CallInv, NotDoubled
  <2> QED
    BY <2>2, <2>3, <2>4, <2>5, <2>6 DEF CallInv
<1> QED
  BY <1>2, <1>3, <1>4 DEF IInv

\* TryPop preserves IInv.
LEMMA TryPopIInv ==
  ASSUME IInv, NEW id \in Ids, TryPop(id)
  PROVE  IInv'
<1> USE PendingAssumption DEF TryPop, Move, Return, Erase, Pending, locals
<1>1. DOMAIN slots' \subseteq Ids /\ slots' \in [DOMAIN slots' -> Slot]
  BY DEF IInv, TypeOK, Slot, NewSlot
<1>2. TypeOK'
  BY ZenonT(40), <1>1 DEF IInv, TypeOK, Slot, CallerStates, CallInv, SlotInv, ResultInv
<1>3. ASSUME NEW k \in Ids, k # id PROVE CallInv(k)'
  <2>1. SlotKept(k)
    BY <1>3 DEF IInv, TypeOK, SlotKept
  <2>2. Kept(k)
    BY <1>3, <2>1 DEF IInv, TypeOK, Kept, HandsKept
  <2> QED
    BY <1>3, <2>2, KeptCallInv DEF IInv
<1>4. CallInv(id)'
  <2>1. TypeOK /\ CallInv(id)
    BY DEF IInv
  <2>2. SlotInv(id)'
    BY <2>1 DEF TypeOK, Slot, NewSlot, CallInv, SlotInv
  <2>3. ResultInv(id)'
    BY <2>1 DEF TypeOK, Slot, NewSlot, CallInv, SlotInv, ResultInv
  <2>4. NotLost(id)'
    BY <2>1 DEF TypeOK, Slot, NewSlot, CallInv, SlotInv, NotLost
  <2>5. ASSUME NEW t \in Threads
        PROVE  TakenHandleInv(t, id)' /\ \A r \in Results : TakenPromiseInv(t, id, r)'
    BY <2>1 DEF TypeOK, CallInv, SlotInv, TakenHandleInv, TakenPromiseInv
  <2>6. ASSUME NEW t \in Threads, NEW u \in Threads PROVE NotDoubled(t, u, id)'
    BY <2>1 DEF CallInv, NotDoubled
  <2> QED
    BY <2>2, <2>3, <2>4, <2>5, <2>6 DEF CallInv
<1> QED
  BY <1>2, <1>3, <1>4 DEF IInv

\* WaitAndPop preserves IInv.
LEMMA WaitAndPopIInv ==
  ASSUME IInv, NEW id \in Ids, WaitAndPop(id)
  PROVE  IInv'
<1> USE PendingAssumption DEF WaitAndPop, Move, Return, Erase, Pending, locals
<1>1. DOMAIN slots' \subseteq Ids /\ slots' \in [DOMAIN slots' -> Slot]
  BY DEF IInv, TypeOK, Slot, NewSlot
<1>2. TypeOK'
  BY ZenonT(40), <1>1 DEF IInv, TypeOK, Slot, CallerStates, CallInv, SlotInv, ResultInv
<1>3. ASSUME NEW k \in Ids, k # id PROVE CallInv(k)'
  <2>1. SlotKept(k)
    BY <1>3 DEF IInv, TypeOK, SlotKept
  <2>2. Kept(k)
    BY <1>3, <2>1 DEF IInv, TypeOK, Kept, HandsKept
  <2> QED
    BY <1>3, <2>2, KeptCallInv DEF IInv
<1>4. CallInv(id)'
  <2>1. TypeOK /\ CallInv(id)
    BY DEF IInv
  <2>2. SlotInv(id)'
    BY <2>1 DEF TypeOK, Slot, NewSlot, CallInv, SlotInv
  <2>3. ResultInv(id)'
    BY <2>1 DEF TypeOK, Slot, NewSlot, CallInv, SlotInv, ResultInv
  <2>4. NotLost(id)'
    BY <2>1 DEF TypeOK, Slot, NewSlot, CallInv, SlotInv, NotLost
  <2>5. ASSUME NEW t \in Threads
        PROVE  TakenHandleInv(t, id)' /\ \A r \in Results : TakenPromiseInv(t, id, r)'
    BY <2>1 DEF TypeOK, CallInv, SlotInv, TakenHandleInv, TakenPromiseInv
  <2>6. ASSUME NEW t \in Threads, NEW u \in Threads PROVE NotDoubled(t, u, id)'
    BY <2>1 DEF CallInv, NotDoubled
  <2> QED
    BY <2>2, <2>3, <2>4, <2>5, <2>6 DEF CallInv
<1> QED
  BY <1>2, <1>3, <1>4 DEF IInv

\* WaitWake preserves IInv.
LEMMA WaitWakeIInv ==
  ASSUME IInv, NEW id \in Ids, WaitWake(id)
  PROVE  IInv'
<1> USE PendingAssumption DEF WaitWake, Move, Return, Erase, Pending, locals
<1>1. DOMAIN slots' \subseteq Ids /\ slots' \in [DOMAIN slots' -> Slot]
  BY DEF IInv, TypeOK, Slot, NewSlot
<1>2. TypeOK'
  BY <1>1 DEF IInv, TypeOK, Slot, CallerStates, CallInv, SlotInv, ResultInv
<1>3. ASSUME NEW k \in Ids, k # id PROVE CallInv(k)'
  <2>1. SlotKept(k)
    BY <1>3 DEF IInv, TypeOK, SlotKept
  <2>2. Kept(k)
    BY <1>3, <2>1 DEF IInv, TypeOK, Kept, HandsKept
  <2> QED
    BY <1>3, <2>2, KeptCallInv DEF IInv
<1>4. CallInv(id)'
  <2>1. TypeOK /\ CallInv(id)
    BY DEF IInv
  <2>2. SlotInv(id)'
    BY <2>1 DEF TypeOK, Slot, NewSlot, CallInv, SlotInv
  <2>3. ResultInv(id)'
    BY <2>1 DEF TypeOK, Slot, NewSlot, CallInv, SlotInv, ResultInv
  <2>4. NotLost(id)'
    BY <2>1 DEF TypeOK, Slot, NewSlot, CallInv, SlotInv, NotLost
  <2>5. ASSUME NEW t \in Threads
        PROVE  TakenHandleInv(t, id)' /\ \A r \in Results : TakenPromiseInv(t, id, r)'
    BY <2>1 DEF TypeOK, CallInv, SlotInv, TakenHandleInv, TakenPromiseInv
  <2>6. ASSUME NEW t \in Threads, NEW u \in Threads PROVE NotDoubled(t, u, id)'
    BY SMTT(30), <2>1 DEF CallInv, NotDoubled
  <2> QED
    BY <2>2, <2>3, <2>4, <2>5, <2>6 DEF CallInv
<1> QED
  BY <1>2, <1>3, <1>4 DEF IInv

\* WaitTimeout preserves IInv.
LEMMA WaitTimeoutIInv ==
  ASSUME IInv, NEW id \in Ids, WaitTimeout(id)
  PROVE  IInv'
<1> USE PendingAssumption DEF WaitTimeout, Move, Return, Erase, Pending, locals
<1>1. DOMAIN slots' \subseteq Ids /\ slots' \in [DOMAIN slots' -> Slot]
  BY DEF IInv, TypeOK, Slot, NewSlot
<1>2. TypeOK'
  BY <1>1 DEF IInv, TypeOK, Slot, CallerStates, CallInv, SlotInv, ResultInv
<1>3. ASSUME NEW k \in Ids, k # id PROVE CallInv(k)'
  <2>1. SlotKept(k)
    BY <1>3 DEF IInv, TypeOK, SlotKept
  <2>2. Kept(k)
    BY <1>3, <2>1 DEF IInv, TypeOK, Kept, HandsKept
  <2> QED
    BY <1>3, <2>2, KeptCallInv DEF IInv
<1>4. CallInv(id)'
  <2>1. TypeOK /\ CallInv(id)
    BY DEF IInv
  <2>2. SlotInv(id)'
    BY <2>1 DEF TypeOK, Slot, NewSlot, CallInv, SlotInv
  <2>3. ResultInv(id)'
    BY <2>1 DEF TypeOK, Slot, NewSlot, CallInv, SlotInv, ResultInv
  <2>4. NotLost(id)'
    BY <2>1 DEF TypeOK, Slot, NewSlot, CallInv, SlotInv, NotLost
  <2>5. ASSUME NEW t \in Threads
        PROVE  TakenHandleInv(t, id)' /\ \A r \in Results : TakenPromiseInv(t, id, r)'
    BY <2>1 DEF TypeOK, CallInv, SlotInv, TakenHandleInv, TakenPromiseInv
  <2>6. ASSUME NEW t \in Threads, NEW u \in Threads PROVE NotDoubled(t, u, id)'
    BY <2>1 DEF CallInv, NotDoubled
  <2> QED
    BY <2>2, <2>3, <2>4, <2>5, <2>6 DEF CallInv
<1> QED
  BY <1>2, <1>3, <1>4 DEF IInv

\* Remove preserves IInv.
LEMMA RemoveIInv ==
  ASSUME IInv, NEW id \in Ids, Remove(id)
  PROVE  IInv'
<1> USE PendingAssumption DEF Remove, Move, Return, Erase, Pending, locals
<1>1. DOMAIN slots' \subseteq Ids /\ slots' \in [DOMAIN slots' -> Slot]
  BY DEF IInv, TypeOK, Slot, NewSlot
<1>2. TypeOK'
  BY <1>1 DEF IInv, TypeOK, Slot, CallerStates, CallInv, SlotInv, ResultInv
<1>3. ASSUME NEW k \in Ids, k # id PROVE CallInv(k)'
  <2>1. SlotKept(k)
    BY <1>3 DEF IInv, TypeOK, SlotKept
  <2>2. Kept(k)
    BY <1>3, <2>1 DEF IInv, TypeOK, Kept, HandsKept
  <2> QED
    BY <1>3, <2>2, KeptCallInv DEF IInv
<1>4. CallInv(id)'
  <2>1. TypeOK /\ CallInv(id)
    BY DEF IInv
  <2>2. SlotInv(id)'
    BY <2>1 DEF TypeOK, Slot, NewSlot, CallInv, SlotInv
  <2>3. ResultInv(id)'
    BY <2>1 DEF TypeOK, Slot, NewSlot, CallInv, SlotInv, ResultInv
  <2>4. NotLost(id)'
    BY <2>1 DEF TypeOK, Slot, NewSlot, CallInv, SlotInv, NotLost
  <2>5. ASSUME NEW t \in Threads
        PROVE  TakenHandleInv(t, id)' /\ \A r \in Results : TakenPromiseInv(t, id, r)'
    BY <2>1 DEF TypeOK, CallInv, SlotInv, TakenHandleInv, TakenPromiseInv
  <2>6. ASSUME NEW t \in Threads, NEW u \in Threads PROVE NotDoubled(t, u, id)'
    BY <2>1 DEF CallInv, NotDoubled
  <2> QED
    BY <2>2, <2>3, <2>4, <2>5, <2>6 DEF CallInv
<1> QED
  BY <1>2, <1>3, <1>4 DEF IInv

\* DeadlinePasses preserves IInv.
LEMMA DeadlinePassesIInv ==
  ASSUME IInv, NEW id \in Ids, DeadlinePasses(id)
  PROVE  IInv'
<1> USE PendingAssumption DEF DeadlinePasses, Move, Return, Erase, Pending, locals
<1>1. DOMAIN slots' \subseteq Ids /\ slots' \in [DOMAIN slots' -> Slot]
  <2>1. [slots[id] EXCEPT !.expired = TRUE] \in Slot
    BY Zenon, SlotTypes DEF IInv, TypeOK
  <2> QED
    BY <2>1 DEF IInv, TypeOK
<1>2. TypeOK'
  BY <1>1 DEF IInv, TypeOK, Slot, CallerStates, CallInv, SlotInv, ResultInv
<1>3. ASSUME NEW k \in Ids, k # id PROVE CallInv(k)'
  <2>1. SlotKept(k)
    BY <1>3 DEF IInv, TypeOK, SlotKept
  <2>2. Kept(k)
    BY <1>3, <2>1 DEF IInv, TypeOK, Kept, HandsKept
  <2> QED
    BY <1>3, <2>2, KeptCallInv DEF IInv
<1>4. CallInv(id)'
  <2>1. TypeOK /\ CallInv(id)
    BY DEF IInv
  <2>2. SlotInv(id)'
    BY <2>1 DEF TypeOK, Slot, NewSlot, CallInv, SlotInv
  <2>3. ResultInv(id)'
    BY <2>1 DEF TypeOK, Slot, NewSlot, CallInv, SlotInv, ResultInv
  <2>4. NotLost(id)'
    BY ZenonT(40), <2>1 DEF TypeOK, Slot, NewSlot, CallInv, SlotInv, NotLost
  <2>5. ASSUME NEW t \in Threads
        PROVE  TakenHandleInv(t, id)' /\ \A r \in Results : TakenPromiseInv(t, id, r)'
    BY <2>1 DEF TypeOK, Slot, CallInv, TakenHandleInv, TakenPromiseInv
  <2>6. ASSUME NEW t \in Threads, NEW u \in Threads PROVE NotDoubled(t, u, id)'
    BY SMTT(30), <2>1 DEF CallInv, NotDoubled
  <2> QED
    BY <2>2, <2>3, <2>4, <2>5, <2>6 DEF CallInv
<1> QED
  BY <1>2, <1>3, <1>4 DEF IInv

\* SendFailed preserves IInv.
LEMMA SendFailedIInv ==
  ASSUME IInv, NEW id \in Ids, NEW res \in Results, SendFailed(id, res)
  PROVE  IInv'
<1> USE PendingAssumption DEF SendFailed, Move, Pending, locals
<1>1. Settled(slots[id], res) \in Slot
  BY Zenon, SlotTypes DEF IInv, TypeOK
<1>2. TypeOK'
  BY <1>1 DEF IInv, TypeOK, CallerStates
<1>3. ASSUME NEW k \in Ids, k # id PROVE CallInv(k)'
  <2>1. Kept(k)
    BY <1>3 DEF IInv, TypeOK, Kept, SlotKept, HandsKept
  <2> QED
    BY <1>3, <2>1, KeptCallInv DEF IInv
<1>4. CallInv(id)'
  <2>1. TypeOK /\ CallInv(id)
    BY DEF IInv
  <2>f. /\ slots[id] \in Slot /\ slots' = [slots EXCEPT ![id] = Settled(slots[id], res)]
        /\ slots'[id] = Settled(slots[id], res)
    BY <2>1 DEF TypeOK
  <2>2. SlotInv(id)'
    BY <2>1, <2>f, SettledFields DEF TypeOK, CallInv, SlotInv
  <2>3. ResultInv(id)'
    BY <2>1, <2>f, SettledFields DEF TypeOK, CallInv, SlotInv, ResultInv
  <2>4. NotLost(id)'
    BY <2>1 DEF TypeOK, NotLost
  <2>5. ASSUME NEW t \in Threads
        PROVE  TakenHandleInv(t, id)' /\ \A r \in Results : TakenPromiseInv(t, id, r)'
    BY <2>1 DEF TypeOK, CallInv, SlotInv, TakenHandleInv, TakenPromiseInv
  <2>6. ASSUME NEW t \in Threads, NEW u \in Threads PROVE NotDoubled(t, u, id)'
    BY <2>1 DEF CallInv, NotDoubled
  <2> QED
    BY <2>2, <2>3, <2>4, <2>5, <2>6 DEF CallInv
<1> QED
  BY <1>2, <1>3, <1>4 DEF IInv

\* SetValue preserves IInv.
LEMMA SetValueIInv ==
  ASSUME IInv, NEW th \in Threads, NEW id \in Ids, NEW res \in Results,
         SetValue(th, id, res)
  PROVE  IInv'
<1> USE DEF SetValue, Return, Pending
<1>1. TypeOK'
  BY DEF IInv, TypeOK, CallerStates
<1>2. ASSUME NEW k \in Ids, k # id PROVE CallInv(k)'
  <2>1. Kept(k)
    BY <1>2 DEF IInv, TypeOK, Kept, SlotKept, HandsKept
  <2> QED
    BY <1>2, <2>1, KeptCallInv DEF IInv
<1>3. CallInv(id)'
  <2>1. TypeOK /\ CallInv(id)
    BY DEF IInv
  <2>2. caller[id] = "future" /\ res = first[id] /\ (Pending(id) => slots[id].done)
    BY <2>1 DEF CallInv, TakenPromiseInv
  <2>3. SlotInv(id)'
    BY <2>1, <2>2 DEF TypeOK, Slot, CallInv, SlotInv
  <2>4. ResultInv(id)'
    BY <2>1, <2>2, PendingAssumption DEF TypeOK, CallInv, ResultInv
  <2>5. NotLost(id)'
    BY <2>1 DEF TypeOK, NotLost
  <2>6. ASSUME NEW t \in Threads, NEW r \in Results
        PROVE  <<id, r>> \notin async_waiters'[t]
    BY Zenon, <2>1, <2>2 DEF TypeOK, CallInv, TakenPromiseInv, NotDoubled
  <2>7. ASSUME NEW t \in Threads PROVE id \notin coroutine_waiters'[t]
    BY <2>1, <2>2 DEF CallInv, TakenHandleInv
  <2> QED
    BY Zenon, <2>3, <2>4, <2>5, <2>6, <2>7
    DEF CallInv, TakenHandleInv, TakenPromiseInv, NotDoubled
<1> QED
  BY <1>1, <1>2, <1>3 DEF IInv

\* Resume preserves IInv.
LEMMA ResumeIInv ==
  ASSUME IInv, NEW th \in Threads, NEW id \in Ids, Resume(th, id)
  PROVE  IInv'
<1> USE DEF Resume, Pending
<1>1. TypeOK'
  BY DEF IInv, TypeOK, CallerStates
<1>2. ASSUME NEW k \in Ids, k # id PROVE CallInv(k)'
  <2>1. Kept(k)
    BY <1>2 DEF IInv, TypeOK, Kept, SlotKept, HandsKept
  <2> QED
    BY <1>2, <2>1, KeptCallInv DEF IInv
<1>3. CallInv(id)'
  <2>1. TypeOK /\ CallInv(id)
    BY DEF IInv
  <2>2. caller[id] = "suspended" /\ Pending(id) /\ slots[id].done
    BY <2>1 DEF CallInv, TakenHandleInv
  <2>3. SlotInv(id)'
    BY Zenon, <2>1, <2>2 DEF TypeOK, Slot, CallInv, SlotInv
  <2>4. ResultInv(id)'
    BY <2>1, <2>2 DEF TypeOK, CallInv, ResultInv
  <2>5. NotLost(id)'
    BY <2>1 DEF TypeOK, NotLost
  <2>6. ASSUME NEW t \in Threads, NEW r \in Results
        PROVE  <<id, r>> \notin async_waiters'[t]
    BY <2>1, <2>2 DEF CallInv, TakenPromiseInv
  <2>7. ASSUME NEW t \in Threads PROVE id \notin coroutine_waiters'[t]
    BY <2>1, <2>2 DEF TypeOK, CallInv, TakenHandleInv, NotDoubled
  <2> QED
    BY Zenon, <2>3, <2>4, <2>5, <2>6, <2>7
    DEF CallInv, TakenHandleInv, TakenPromiseInv, NotDoubled
<1> QED
  BY <1>1, <1>2, <1>3 DEF IInv

\* Complete preserves IInv.
LEMMA CompleteIInv ==
  ASSUME IInv, NEW th \in Threads, NEW id \in Ids, NEW res \in Results,
         Complete(th, id, res)
  PROVE  IInv'
<1> USE DEF Complete, Erase, Free, Pending
<1>1. Unbound(Settled(slots[id], res)) \in Slot
  BY Zenon, SlotTypes DEF IInv, TypeOK
<1>2. TypeOK'
  BY <1>1 DEF IInv, TypeOK
<1>3. ASSUME NEW k \in Ids, k # id PROVE CallInv(k)'
  <2>1. SlotKept(k)
    BY <1>3 DEF IInv, TypeOK, SlotKept
  <2>2. HandsKept(k)
    BY <1>3 DEF IInv, TypeOK, HandsKept
  <2>3. Kept(k)
    BY <1>3, <2>1, <2>2 DEF IInv, TypeOK, Kept
  <2> QED
    BY <1>3, <2>3, KeptCallInv DEF IInv
<1>4. CallInv(id)'
  <2>1. TypeOK /\ CallInv(id)
    BY DEF IInv
  <2>2. ASSUME NEW t \in Threads
        PROVE  /\ id \notin coroutine_waiters[t]
               /\ \A r \in Results : <<id, r>> \notin async_waiters[t]
    BY <2>1 DEF CallInv, TakenHandleInv, TakenPromiseInv
  <2>3. slots[id] \in Slot
    BY <2>1 DEF TypeOK
  <2>4. CASE slots[id].async_promise
    <3>1. caller[id] = "future"
      BY <2>1, <2>4 DEF TypeOK, CallerStates, CallInv, SlotInv
    <3>2. ~Pending(id)' /\ <<id, res>> \in async_waiters'[th]
      BY SMTT(30), <2>1, <2>4 DEF TypeOK
    <3>3. SlotInv(id)' /\ ResultInv(id)' /\ NotLost(id)'
      BY <2>1, <2>4, <3>1, <3>2 DEF TypeOK, CallInv, SlotInv, ResultInv, NotLost
    <3>4. ASSUME NEW t \in Threads
          PROVE  /\ id \notin coroutine_waiters'[t]
                 /\ \A r \in Results :
                      <<id, r>> \in async_waiters'[t] => t = th /\ r = res
      BY <2>1, <2>2, <2>4 DEF TypeOK
    <3>5. first'[id] = res /\ caller'[id] = "future"
      BY <2>1, <3>1 DEF TypeOK
    <3> QED
      BY ZenonT(40), <3>2, <3>3, <3>4, <3>5
      DEF CallInv, TakenHandleInv, TakenPromiseInv, NotDoubled
  <2>5. CASE ~slots[id].async_promise
    <3>1. Pending(id)' /\ slots'[id] = Unbound(Settled(slots[id], res))
      BY <2>1, <2>5 DEF TypeOK
    <3>2. /\ slots'[id].done /\ slots'[id].result = res
          /\ ~slots'[id].async_promise /\ ~slots'[id].coroutine_bound
          /\ slots'[id].async_bound = slots[id].async_bound
      BY <2>3, <3>1, SettledFields
    <3>3. first'[id] = res /\ caller' = caller /\ outcome' = outcome
      BY <2>1 DEF TypeOK
    <3>4. SlotInv(id)'
      BY ZenonT(40), <2>1, <2>5, <3>1, <3>2, <3>3 DEF TypeOK, CallInv, SlotInv
    <3>5. ResultInv(id)'
      BY <2>1, <3>1, <3>2, <3>3, PendingAssumption
      DEF TypeOK, CallInv, SlotInv, ResultInv
    <3>6. slots[id].coroutine_bound <=> caller[id] = "suspended"
      BY Zenon, <2>1 DEF CallInv, SlotInv
    <3>7. ASSUME NEW t \in Threads
          PROVE  /\ id \in coroutine_waiters'[t] <=>
                      t = th /\ slots[id].coroutine_bound
                 /\ \A r \in Results : <<id, r>> \notin async_waiters'[t]
      BY <2>1, <2>2, <2>5 DEF TypeOK
    <3>8. caller[id] # "future"
      BY ZenonT(40), <2>1, <2>5 DEF CallInv, SlotInv
    <3> QED
      BY Zenon, <3>1, <3>2, <3>3, <3>4, <3>5, <3>6, <3>7, <3>8
      DEF CallInv, NotLost, TakenHandleInv, TakenPromiseInv, NotDoubled
  <2> QED
    BY <2>4, <2>5
<1> QED
  BY <1>2, <1>3, <1>4 DEF IInv

\* FailAll and FailTimedOut, for the set of slots S that they settle.
LEMMA FailSlotsIInv ==
  ASSUME IInv, NEW th \in Threads, NEW res \in Results, NEW S \in SUBSET DOMAIN slots,
         Free(th), FailSlots(th, S, res)
  PROVE  IInv'
<1> USE DEF FailSlots, Pending
<1>1. ASSUME NEW k \in DOMAIN slots
      PROVE  /\ slots[k] \in Slot /\ k \in Ids
             /\ Unbound(Settled(slots[k], res)) \in Slot
             /\ Settled(slots[k], res) \in Slot
             /\ Settled(slots[k], res).result = IF slots[k].done THEN slots[k].result ELSE res
  <2>1. slots[k] \in Slot /\ k \in Ids
    BY DEF IInv, TypeOK
  <2>2. Settled(slots[k], res) \in Slot
    BY Zenon, <2>1, SlotTypes
  <2>3. Unbound(Settled(slots[k], res)) \in Slot
    BY Zenon, <2>2, SlotTypes
  <2> QED
    BY <2>1, <2>2, <2>3, SettledFields
<1>2. TypeOK'
  <2>1. DOMAIN slots' \subseteq Ids /\ slots' \in [DOMAIN slots' -> Slot]
    BY <1>1 DEF IInv, TypeOK
  <2>2. ASSUME NEW k \in S, slots[k].async_promise
        PROVE  <<k, Settled(slots[k], res).result>> \in Ids \X Results
    BY SMTT(30), <1>1, <2>2 DEF IInv, TypeOK, CallInv, ResultInv
  <2>3. async_waiters' \in [Threads -> SUBSET (Ids \X Results)]
    BY <2>2 DEF IInv, TypeOK
  <2>4. coroutine_waiters' \in [Threads -> SUBSET Ids]
    BY <1>1 DEF IInv, TypeOK
  <2>5. first' \in [Ids -> Results \cup {NoResult}]
    BY DEF IInv, TypeOK
  <2> QED
    BY <2>1, <2>3, <2>4, <2>5 DEF IInv, TypeOK
<1>3. ASSUME NEW k \in Ids, k \notin S PROVE CallInv(k)'
  <2>1. SlotKept(k)
    BY <1>3 DEF IInv, TypeOK, SlotKept
  <2>2. HandsKept(k)
    BY <1>3 DEF IInv, TypeOK, Free, HandsKept
  <2>3. Kept(k)
    BY <1>3, <2>1, <2>2 DEF IInv, TypeOK, Kept
  <2> QED
    BY <1>3, <2>3, KeptCallInv DEF IInv
<1>4. ASSUME NEW k \in Ids, k \in S, slots[k].done PROVE CallInv(k)'
  <2>1. TypeOK /\ CallInv(k) /\ slots[k] \in Slot
    BY <1>1, <1>4 DEF IInv
  <2>2. ~slots[k].async_promise /\ ~slots[k].coroutine_bound
    BY Zenon, <1>4, <2>1 DEF TypeOK, CallerStates, CallInv, SlotInv
  <2>3. HandsKept(k)
    BY <1>4, <2>1, <2>2 DEF TypeOK, Free, HandsKept
  <2>4. /\ Pending(k)' /\ slots'[k].done /\ slots'[k].result = slots[k].result
        /\ ~slots'[k].async_promise /\ ~slots'[k].coroutine_bound
        /\ slots'[k].async_bound = slots[k].async_bound
    BY <1>4, <2>1, SettledFields
  <2>5. caller' = caller /\ outcome' = outcome /\ first'[k] = first[k]
    BY <1>4
  <2>6. SlotInv(k)' /\ ResultInv(k)'
    BY Zenon, <1>4, <2>1, <2>2, <2>4, <2>5 DEF CallInv, SlotInv, ResultInv
  <2>7. NotLost(k)'
    BY Zenon, <1>4, <2>1, <2>3, <2>4, <2>5 DEF CallInv, NotLost, HandsKept
  <2> QED
    BY ZenonT(40), <1>4, <2>1, <2>3, <2>4, <2>5, <2>6, <2>7
    DEF CallInv, HandsKept, TakenHandleInv, TakenPromiseInv, NotDoubled
<1>5. ASSUME NEW k \in Ids, k \in S, ~slots[k].done PROVE CallInv(k)'
  <2>1. TypeOK /\ CallInv(k) /\ slots[k] \in Slot
    BY SMTT(30), <1>1, <1>5 DEF IInv
  <2>2. ASSUME NEW t \in Threads
        PROVE  /\ k \notin coroutine_waiters[t]
               /\ \A r \in Results : <<k, r>> \notin async_waiters[t]
    BY SMTT(30), <1>5, <2>1 DEF CallInv, TakenHandleInv, TakenPromiseInv
  <2>3. /\ slots[k].async_promise <=> caller[k] = "future"
        /\ slots[k].coroutine_bound <=> caller[k] = "suspended"
    BY SMTT(30), <1>5, <2>1 DEF TypeOK, Slot, CallInv, SlotInv
  <2>4. /\ Pending(k)' /\ slots'[k].done /\ slots'[k].result = res
        /\ ~slots'[k].async_promise /\ ~slots'[k].coroutine_bound
        /\ slots'[k].async_bound = slots[k].async_bound
    BY <1>5, <2>1, SettledFields
  <2>5. caller' = caller /\ outcome' = outcome /\ first'[k] = res
    BY <1>5
  <2>6. ASSUME NEW t \in Threads
        PROVE  /\ k \in coroutine_waiters'[t] <=>
                    t = th /\ caller[k] = "suspended"
               /\ \A r \in Results : <<k, r>> \in async_waiters'[t] <=>
                    t = th /\ r = res /\ caller[k] = "future"
    BY SMTT(30), <1>1, <1>5, <2>1, <2>2, <2>3 DEF TypeOK
  <2>7. SlotInv(k)'
    BY Zenon, <1>5, <2>1, <2>4, <2>5 DEF CallInv, SlotInv
  <2>8. ResultInv(k)'
    BY <1>5, <2>1, <2>4, <2>5, PendingAssumption DEF CallInv, SlotInv, ResultInv
  <2> QED
    BY ZenonT(40), <2>4, <2>5, <2>6, <2>7, <2>8
    DEF CallInv, NotLost, TakenHandleInv, TakenPromiseInv, NotDoubled
<1> QED
  BY SMTT(30), <1>2, <1>3, <1>4, <1>5 DEF IInv

\* Every step preserves IInv.
LEMMA NextIInv == IInv /\ [Next]_vars => IInv'
<1> SUFFICES ASSUME IInv, [Next]_vars PROVE IInv'
  OBVIOUS
<1>1. ASSUME NEW id \in Ids, OwnerNext(id) PROVE IInv'
  BY <1>1, AddIInv, BindAsyncIInv, BindCoroutineIInv, TryPopIInv, WaitAndPopIInv,
     WaitWakeIInv, WaitTimeoutIInv, RemoveIInv, DeadlinePassesIInv, SendFailedIInv
  DEF OwnerNext
<1>2. ASSUME NEW t \in Threads, NEW r \in Results, FailAll(t, r) PROVE IInv'
  BY <1>2, FailSlotsIInv DEF FailAll
<1>3. ASSUME NEW t \in Threads, NEW r \in Results, FailTimedOut(t, r) PROVE IInv'
  BY <1>3, FailSlotsIInv DEF FailTimedOut
<1>4. ASSUME NEW t \in Threads, SettlerNext(t) PROVE IInv'
  BY <1>2, <1>3, <1>4, CompleteIInv, SetValueIInv, ResumeIInv DEF SettlerNext
<1>5. CASE UNCHANGED vars
  <2>1. TypeOK'
    BY SMTT(30), <1>5 DEF IInv, TypeOK, vars
  <2>2. ASSUME NEW k \in Ids PROVE CallInv(k)'
    BY <1>5, KeptCallInv DEF IInv, vars, Kept, SlotKept, HandsKept, Pending
  <2> QED
    BY <2>1, <2>2 DEF IInv
<1> QED
  BY <1>1, <1>4, <1>5 DEF Next

\* The inductive invariant holds in every reachable state of the table.
THEOREM PendingCallsIInv == Spec => []IInv
<1> QED
  BY InitIInv, NextIInv, PTL DEF Spec

\* The table, the hands of the settling threads and the state of every call
\* have their types, for any set of requests and threads.
THEOREM PendingCallsTypeOK == Spec => []TypeOK
<1>1. IInv => TypeOK
  BY DEF IInv
<1> QED
  BY <1>1, PendingCallsIInv, PTL

\* No waiter is lost and none is woken twice: between the moment Complete,
\* FailAll or FailTimedOut takes a promise or handle out of its slot and the
\* moment it is woken, exactly one thread holds it.
THEOREM PendingCallsWaiterHeldOnce == Spec => []WaiterHeldOnce
<1>1. ASSUME IInv PROVE WaiterHeldOnce
  <2> SUFFICES ASSUME NEW id \in Ids
      PROVE  IF caller[id] \in {"future", "suspended"}
             THEN IF InSlot(id) THEN Taken(id) = {}
                                ELSE \E w \in Taken(id) : Taken(id) = {w}
             ELSE ~InSlot(id) /\ Taken(id) = {}
    BY Zenon DEF WaiterHeldOnce
  <2>1. TypeOK /\ CallInv(id) /\ (Pending(id) => slots[id] \in Slot)
    BY <1>1 DEF IInv, TypeOK, Pending
  <2>2. CASE caller[id] \notin {"future", "suspended"}
    <3>1. ~InSlot(id)
      BY <2>1, <2>2 DEF CallInv, SlotInv, InSlot
    <3>2. Taken(id) = {}
      BY <2>1, <2>2 DEF CallInv, TakenHandleInv, TakenPromiseInv, Taken
    <3> QED
      BY SMTT(30), <2>2, <3>1, <3>2
  <2>3. CASE caller[id] \in {"future", "suspended"} /\ InSlot(id)
    <3>1. Pending(id) /\ ~slots[id].done
      BY <2>1, <2>3 DEF CallInv, SlotInv, InSlot, Slot
    <3>2. Taken(id) = {}
      BY <2>1, <3>1 DEF CallInv, TakenHandleInv, TakenPromiseInv, Taken
    <3> QED
      BY SMTT(30), <2>3, <3>2
  <2>4. CASE caller[id] = "future" /\ ~InSlot(id)
    <3>1. Pending(id) => slots[id].done
      BY <2>1, <2>4 DEF CallInv, SlotInv, InSlot, Slot
    <3>2. PICK t \in Threads, r \in Results : <<id, r>> \in async_waiters[t]
      BY SMTT(30), <2>1, <2>4, <3>1 DEF CallInv, NotLost
    <3>3. Taken(id) = {<<t, r>>}
      BY <2>1, <2>4, <3>2
      DEF CallInv, TakenHandleInv, TakenPromiseInv, NotDoubled, Taken
    <3> QED
      BY SMTT(30), <2>4, <3>3
  <2>5. CASE caller[id] = "suspended" /\ ~InSlot(id)
    <3>1. Pending(id) /\ slots[id].done
      BY <2>1, <2>5 DEF CallInv, SlotInv, InSlot, Slot
    <3>2. PICK t \in Threads : id \in coroutine_waiters[t]
      BY <2>1, <2>5, <3>1 DEF CallInv, NotLost
    <3>3. Taken(id) = {<<t, NoResult>>}
      BY <2>1, <2>5, <3>2
      DEF CallInv, TakenPromiseInv, NotDoubled, Taken
    <3> QED
      BY <2>5, <3>3
  <2> QED
    BY <2>2, <2>3, <2>4, <2>5
<1> QED
  BY <1>1, PendingCallsIInv, PTL

\* A call returns the first result written for its request id, whichever of
\* the response, the timeout sweep and the closing connection came first.
THEOREM PendingCallsFirstResultWins == Spec => []FirstResultWins
<1>1. IInv => FirstResultWins
  BY DEF IInv, CallInv, ResultInv, FirstResultWins
<1> QED
  BY <1>1, PendingCallsIInv, PTL

\* The error paths of BindAsync, BindCoroutine and await_resume that guard
\* against a missing slot or a second binding are never taken.
THEOREM PendingCallsNoFallback == Spec => []NoFallback
<1>1. IInv => NoFallback
  BY Zenon DEF IInv, CallInv, ResultInv, NoFallback
<1> QED
  BY <1>1, PendingCallsIInv, PTL

=============================================================================
