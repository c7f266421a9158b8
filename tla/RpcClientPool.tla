--------------------------- MODULE RpcClientPool ----------------------------
(***************************************************************************)
(* The client pool (src/src/client/rpc_client_pool.cpp) with its load      *)
(* balancers (load_balancer.cpp): the choice of a channel, the retries of  *)
(* Call, and the health of the channels, which concurrent calls update     *)
(* with one atomic store after another.  The call on a channel is that of  *)
(* RpcClient and appears here by the time it is in the table of pending    *)
(* calls and by its outcome.  The counters of GetStats, which nothing      *)
(* depends on, are left out.                                               *)
(***************************************************************************)
EXTENDS Naturals, FiniteSets, FiniteSetsExt

CONSTANTS
  N,            \* number of endpoints
  Threads,      \* threads that call, and threads or coroutines that finish a call
  MaxFailures,  \* options_.max_consecutive_failures
  Kinds,        \* "sync" is Call, "async" CallAsync and CallCo, "warmup" Warmup
  MaxSlots,     \* bound: failed_slots is counted up to here
  Period        \* the balancer's counter is kept modulo a multiple of every 1..N

ASSUME RpcClientPoolAssumption ==
  /\ N \in Nat \ {0} /\ MaxFailures \in Nat \ {0} /\ MaxSlots \in Nat
  /\ IsFiniteSet(Threads)
  /\ Kinds \subseteq {"sync", "async", "warmup"}
  /\ Period \in Nat \ {0} /\ \A n \in 1 .. N : Period % n = 0

Channels == 1 .. N

VARIABLES
  round_robin,           \* options_.strategy; otherwise least inflight
  healthy,
  consecutive_failures,  \* kept at MaxFailures once it is there
  next_index,            \* next_index_ or tie_breaker_, of the one balancer there is
  failed_slots,          \* slots that failed calls have left in a channel's table
  call                   \* what each thread is doing

vars == <<round_robin, healthy, consecutive_failures, next_index, failed_slots, call>>

\* at: place in the code; i: channel looked at; ch: channel in use; tries and
\* attempted: of this Call; candidates: healthy_candidates; left, min_inflight and
\* ties: of LeastInflightBalancer::Select, left being the candidates its current
\* pass has yet to read; reachable: outcome; unhealthy: history, the channels this
\* Call has seen unhealthy and not tried.
Idle == [at |-> "idle", kind |-> "sync", i |-> 1, ch |-> 1, tries |-> 0, attempted |-> {},
         candidates |-> {}, left |-> {}, min_inflight |-> 0, ties |-> {},
         reachable |-> TRUE, unhealthy |-> {}]

Init ==
  /\ round_robin \in BOOLEAN
  /\ healthy = [c \in Channels |-> TRUE]
  /\ consecutive_failures = [c \in Channels |-> 0]
  /\ next_index = 0 /\ failed_slots = [c \in Channels |-> 0]
  /\ call = [t \in Threads |-> Idle]

Become(t, r) == call' = [call EXCEPT ![t] = r]

Begin(t, kind, place) ==
  /\ kind \in Kinds /\ call[t].at = "idle"
  /\ Become(t, [Idle EXCEPT !.kind = kind, !.at = place])
  /\ UNCHANGED <<round_robin, healthy, consecutive_failures, next_index, failed_slots>>

Warmup(t) == Begin(t, "warmup", "call")     \* from the first channel on
Call(t) == Begin(t, "sync", "collect")
CallAsync(t) == Begin(t, "async", "collect")

-----------------------------------------------------------------------------
(* SelectChannel.                                                          *)

\* Faulty variant: channels tried before are candidates again.
Collect_Repeats(t) == LET r == call[t] IN
  /\ r.at = "collect"
  /\ Become(t, [r EXCEPT
       !.candidates = IF healthy[r.i] THEN @ \cup {r.i} ELSE @,
       !.unhealthy = IF healthy[r.i] \/ r.kind # "sync" THEN @ ELSE (@ \cup {r.i}) \ r.attempted,
       !.at = IF r.i = N THEN "select" ELSE @,
       !.i = (@ % N) + 1])
  /\ UNCHANGED <<round_robin, healthy, consecutive_failures, next_index, failed_slots>>

\* One iteration of the loop over the channels.
Collect(t) == LET r == call[t] IN
  /\ r.at = "collect"
  /\ Become(t, [r EXCEPT
       !.candidates = IF healthy[r.i] /\ r.i \notin r.attempted THEN @ \cup {r.i} ELSE @,
       !.unhealthy = IF healthy[r.i] \/ r.kind # "sync" THEN @ ELSE (@ \cup {r.i}) \ r.attempted,
       !.at = IF r.i = N THEN "select" ELSE @,
       !.i = (@ % N) + 1])
  /\ UNCHANGED <<round_robin, healthy, consecutive_failures, next_index, failed_slots>>

Nth(set, k) == CHOOSE c \in set : Cardinality({d \in set : d < c}) = k

\* Call counts the attempt and remembers the channel.
Chosen(r, c) ==
  IF r.kind = "sync"
    THEN [Idle EXCEPT !.at = "call", !.ch = c, !.tries = r.tries + 1,
                      !.attempted = r.attempted \cup {c}, !.unhealthy = r.unhealthy \ {c}]
    ELSE [Idle EXCEPT !.kind = r.kind, !.at = "call", !.ch = c]

\* One tick of the balancer's counter picks from the set.
RoundRobin(t, set) ==
  /\ Become(t, Chosen(call[t], Nth(set, next_index % Cardinality(set))))
  /\ next_index' = (next_index + 1) % Period

\* More calls than there can be: the largest size_t.
Unread == Cardinality(Threads) + MaxSlots + 1

\* Faulty variant: without candidates the last channel is used.
Select_FallsBackToLast(t) == LET r == call[t] IN
  /\ r.at = "select"
  /\ \/ r.candidates = {} /\ Become(t, Chosen(r, N)) /\ UNCHANGED next_index
     \/ r.candidates # {} /\ round_robin /\ RoundRobin(t, r.candidates)
     \/ /\ r.candidates # {} /\ ~round_robin
        /\ Become(t, [r EXCEPT !.at = "least", !.left = r.candidates, !.min_inflight = Unread])
        /\ UNCHANGED next_index
  /\ UNCHANGED <<round_robin, healthy, consecutive_failures, failed_slots>>

\* Without candidates the first channel is used, tried before or not.
Select(t) == LET r == call[t] IN
  /\ r.at = "select"
  /\ \/ r.candidates = {} /\ Become(t, Chosen(r, 1)) /\ UNCHANGED next_index
     \/ r.candidates # {} /\ round_robin /\ RoundRobin(t, r.candidates)
     \/ /\ r.candidates # {} /\ ~round_robin
        /\ Become(t, [r EXCEPT !.at = "least", !.left = r.candidates, !.min_inflight = Unread])
        /\ UNCHANGED next_index
  /\ UNCHANGED <<round_robin, healthy, consecutive_failures, failed_slots>>

-----------------------------------------------------------------------------
(* LeastInflightBalancer::Select, which reads one counter at a time.       *)

\* RpcClient::GetInflightCount: the slots in the channel's table.
Inflight(c) ==
  Cardinality({t \in Threads : call[t].at = "sent" /\ call[t].ch = c}) + failed_slots[c]

\* A pass has read its next candidate; after the last one the thread goes to place.
Read(r, place) ==
  IF r.left = {Min(r.left)} THEN [r EXCEPT !.at = place, !.left = r.candidates]
                            ELSE [r EXCEPT !.left = @ \ {Min(@)}]

\* First pass: the least count.
Least(t) == LET r == call[t] IN
  /\ r.at = "least"
  /\ Become(t, [Read(r, "ties") EXCEPT !.min_inflight = Min({@, Inflight(Min(r.left))})])
  /\ UNCHANGED <<round_robin, healthy, consecutive_failures, next_index, failed_slots>>

\* Faulty variant: the ties are taken as they are, without a third pass.
Ties_NoThirdPass(t) == LET r == call[t]
                           ties == IF Inflight(Min(r.left)) = r.min_inflight
                                     THEN r.ties \cup {Min(r.left)} ELSE r.ties IN
  /\ r.at = "ties"
  /\ Become(t, [Read(r, "pick") EXCEPT !.ties = ties])
  /\ UNCHANGED <<round_robin, healthy, consecutive_failures, next_index, failed_slots>>

\* Second pass: the candidates that have the least count.  The counts may have
\* changed; if none has it any more a third pass begins.
Ties(t) == LET r == call[t]
               ties == IF Inflight(Min(r.left)) = r.min_inflight
                         THEN r.ties \cup {Min(r.left)} ELSE r.ties IN
  /\ r.at = "ties"
  /\ Become(t, LET s == [Read(r, IF ties = {} THEN "again" ELSE "pick") EXCEPT !.ties = ties]
               IN  IF s.at = "again" THEN [s EXCEPT !.min_inflight = Unread] ELSE s)
  /\ UNCHANGED <<round_robin, healthy, consecutive_failures, next_index, failed_slots>>

\* Third pass: the least count and its candidates at once.  The first count it
\* reads is below the largest, so the ties are not empty and lines 54-56 of
\* load_balancer.cpp change nothing.
Again(t) == LET r == call[t]
                c == Min(r.left) IN
  /\ r.at = "again"
  /\ Become(t, [Read(r, "pick") EXCEPT
       !.min_inflight = Min({@, Inflight(c)}),
       !.ties = CASE Inflight(c) < r.min_inflight -> {c}
                  [] Inflight(c) = r.min_inflight -> @ \cup {c}
                  [] OTHER -> @])
  /\ UNCHANGED <<round_robin, healthy, consecutive_failures, next_index, failed_slots>>

Pick(t) ==
  /\ call[t].at = "pick"
  /\ RoundRobin(t, call[t].ties)
  /\ UNCHANGED <<round_robin, healthy, consecutive_failures, failed_slots>>

-----------------------------------------------------------------------------
(* The call on the channel (Connect, for Warmup) and what is recorded.     *)

\* PendingCalls::Add, once the channel is connected.
Send(t) ==
  /\ call[t].at = "call" /\ call[t].kind # "warmup"
  /\ Become(t, [call[t] EXCEPT !.at = "sent"])
  /\ UNCHANGED <<round_robin, healthy, consecutive_failures, next_index, failed_slots>>

\* The call is over, or the channel cannot connect.  Errors other than those of
\* IsConnectionError count as answers; one from before the request is in the
\* table appears as if it had been there.  A call that FailAll or FailTimedOut ends
\* leaves its slot in the table; such slots are counted only for the balancer that
\* reads the counts.
CallReturns(t) == LET r == call[t] IN
  /\ \E reachable \in BOOLEAN :
       /\ \/ r.at = "sent"
          \/ r.at = "call" /\ (r.kind = "warmup" \/ ~reachable)
       /\ Become(t, [r EXCEPT !.at = "count", !.reachable = reachable])
  /\ \/ UNCHANGED failed_slots
     \/ /\ r.at = "sent" /\ ~round_robin /\ failed_slots[r.ch] < MaxSlots
        /\ failed_slots' = [failed_slots EXCEPT ![r.ch] = @ + 1]
  /\ UNCHANGED <<round_robin, healthy, consecutive_failures, next_index>>

\* The next attempt of Call keeps what it has tried.
Retry(r) == [r EXCEPT !.at = "collect", !.ch = 1, !.reachable = TRUE]

\* Where a thread goes once the outcome is recorded.
Recorded(r) ==
  CASE r.kind = "warmup" /\ r.ch < N -> [r EXCEPT !.at = "call", !.ch = @ + 1]
    [] r.kind = "sync" /\ ~r.reachable /\ r.tries < N ->
         Retry(r)
    [] r.kind = "sync" /\ ~r.reachable /\ r.tries = N -> [r EXCEPT !.at = "all_failed"]
    [] OTHER -> Idle

\* RecordReachability: the count first; below the limit the flag is left alone.
Count(t) == LET r == call[t] IN
  /\ r.at = "count"
  /\ consecutive_failures' = [consecutive_failures EXCEPT ![r.ch] =
       IF r.reachable THEN 0
       ELSE IF r.kind = "warmup" THEN MaxFailures ELSE Min({@ + 1, MaxFailures})]
  /\ Become(t, IF r.reachable \/ consecutive_failures'[r.ch] = MaxFailures
                 THEN [r EXCEPT !.at = "flag"] ELSE Recorded(r))
  /\ UNCHANGED <<round_robin, healthy, next_index, failed_slots>>

Flag(t) == LET r == call[t] IN
  /\ r.at = "flag"
  /\ healthy' = [healthy EXCEPT ![r.ch] = r.reachable]
  /\ Become(t, Recorded(r))
  /\ UNCHANGED <<round_robin, consecutive_failures, next_index, failed_slots>>

\* Call returns "all channels failed".
AllFailed(t) ==
  /\ call[t].at = "all_failed"
  /\ Become(t, Idle)
  /\ UNCHANGED <<round_robin, healthy, consecutive_failures, next_index, failed_slots>>

-----------------------------------------------------------------------------

Step(t) ==
  \/ Warmup(t) \/ Call(t) \/ CallAsync(t)
  \/ Collect(t) \/ Select(t) \/ Least(t) \/ Ties(t) \/ Again(t) \/ Pick(t)
  \/ Send(t) \/ CallReturns(t) \/ Count(t) \/ Flag(t) \/ AllFailed(t)

Next == \E t \in Threads : Step(t)

Spec == Init /\ [][Next]_vars

\* Assumed of the program: it keeps calling, in whichever threads.  Assumed of a
\* channel: its calls return, which is CallsReturn of the module RpcClient.
FairSpec == Spec /\ WF_vars(Next)

-----------------------------------------------------------------------------
(* Properties.                                                             *)

TypeOK ==
  /\ round_robin \in BOOLEAN /\ failed_slots \in [Channels -> 0 .. MaxSlots]
  /\ healthy \in [Channels -> BOOLEAN]
  /\ consecutive_failures \in [Channels -> 0 .. MaxFailures]
  /\ next_index \in 0 .. Period - 1
  /\ \A t \in Threads : LET r == call[t] IN
       /\ r.at \in {"idle", "collect", "select", "least", "ties", "again", "pick",
                   "call", "sent", "count", "flag", "all_failed"}
       /\ r.i \in Channels /\ r.ch \in Channels /\ r.tries \in 0 .. N
       /\ r.min_inflight \in 0 .. Unread
       /\ r.candidates \cup r.left \cup r.attempted \cup r.unhealthy \subseteq Channels

\* LeastInflightBalancer::Select always has a tie to pick, and only among the
\* candidates it was given, although calls start and end between the moments it
\* reads the count of the same channel: the modulus of line 61 is never zero.
SelectsACandidate ==
  \A t \in Threads : call[t].at = "pick" =>
    /\ call[t].ties # {}
    /\ call[t].ties \subseteq call[t].candidates

\* Call gives up only when each channel was tried or was unhealthy when it was
\* considered, although other calls change the health of channels meanwhile.
FailsOnlyAfterTrying ==
  \A t \in Threads : call[t].at = "all_failed" =>
    call[t].attempted \cup call[t].unhealthy = Channels

\* The fallback to the first channel revives a pool without healthy channels once
\* the calls to that endpoint no longer fail: the pool has a healthy channel again
\* and again.
PoolRecovers ==
  <>[](\A t \in Threads : call[t].ch = 1 => call[t].reachable) =>
    []<>(\E c \in Channels : healthy[c])
=============================================================================
