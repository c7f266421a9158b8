------------------------ MODULE RpcClientPoolProofs ------------------------
(***************************************************************************)
(* Proofs about the client pool for any number of endpoints and threads    *)
(* and any limits, under both strategies: the balancer always has a        *)
(* candidate to return, and Call gives up only when every channel was      *)
(* tried or seen unhealthy.                                                *)
(*                                                                         *)
(* What a call knows lies in its own locals, so the invariant speaks of    *)
(* one call at a time (GoodCall), whatever the others do to the health of  *)
(* the channels and to their counts meanwhile.                             *)
(***************************************************************************)
EXTENDS RpcClientPool, FiniteSetTheorems, TLAPS

Places ==
  {"idle", "collect", "select", "least", "ties", "again", "pick", "call", "sent", "count",
   "flag", "all_failed"}

Calls ==
  [at: Places, kind: {"sync", "async", "warmup"}, i: Channels, ch: Channels, tries: 0 .. N,
   attempted: SUBSET Channels, candidates: SUBSET Channels, left: SUBSET Channels,
   min_inflight: 0 .. Unread, ties: SUBSET Channels, reachable: BOOLEAN,
   unhealthy: SUBSET Channels]

\* Inside SelectChannel, and in the passes of its least-inflight balancer.
Passes == {"least", "ties", "again"}
Selecting == {"collect", "select", "pick"} \cup Passes

\* The channels a call has an answer for.
Seen(r) == r.candidates \cup r.attempted \cup r.unhealthy

\* The course of one call.  SelectChannel begins with no candidates and makes one
\* of every channel that is healthy and has not been tried.
SelectInv(r) ==
  /\ r.at # "collect" => r.i = 1
  /\ r.at \notin Selecting => r.candidates = {}
  /\ r.at \in Selecting => r.tries < N
  /\ r.candidates \cap r.attempted = {}
  /\ r.kind = "sync" /\ r.at = "collect" => 1 .. r.i - 1 \subseteq Seen(r)
  /\ r.kind = "sync" /\ r.at = "select" => Channels \subseteq Seen(r)

\* The balancer has something to read in each pass, and a tie to pick from.
BalancerInv(r) ==
  /\ r.ties \subseteq r.candidates
  /\ r.at \in Passes => r.left # {} /\ r.left \subseteq r.candidates
  /\ r.at = "again" => r.ties # {} \/ r.min_inflight = Unread
  /\ r.at = "pick" => r.ties # {}

\* Every attempt of Call tries another channel, until there is none left.
AttemptInv(r) ==
  /\ r.kind = "sync" =>
       r.attempted \cup r.unhealthy = Channels \/ Cardinality(r.attempted) = r.tries
  /\ r.at = "all_failed" => r.kind = "sync" /\ r.tries = N

GoodCall(r) == r \in Calls /\ SelectInv(r) /\ BalancerInv(r) /\ AttemptInv(r)

HealthInv ==
  /\ round_robin \in BOOLEAN /\ failed_slots \in [Channels -> 0 .. MaxSlots]
  /\ healthy \in [Channels -> BOOLEAN]
  /\ consecutive_failures \in [Channels -> 0 .. MaxFailures]
  /\ next_index \in 0 .. Period - 1

PoolInv == HealthInv /\ call \in [Threads -> {r \in Calls : GoodCall(r)}]

-----------------------------------------------------------------------------
(* Least elements, and the candidate a number stands for.                  *)

\* A set of numbers has a least element.
LEMMA LeastNat ==
  ASSUME NEW T \in SUBSET Nat, T # {}
  PROVE  \E x \in T : \A y \in T : x <= y
<1> DEFINE R == OpToRel(<, Nat)
<1>1. IsWellFoundedOn(R, Nat)
  BY Zenon, NatLessThanWellFounded
<1>2. \A x \in Nat, y \in Nat : <<y, x>> \in R <=> y < x
  BY SMTT(30) DEF OpToRel
<1> HIDE DEF R
<1>3. \E x \in T : \A y \in T : ~ (<<y, x>> \in R)
  BY Zenon, <1>1, WFMin
<1>4. PICK x \in T : \A y \in T : ~(y < x)
  BY Zenon, <1>2, <1>3
<1>5. \A y \in T : x <= y
  BY <1>4
<1> QED
  BY Zenon, <1>5

\* Min, of candidates or counts.
LEMMA MinOf ==
  ASSUME NEW T \in SUBSET Nat, T # {}
  PROVE  Min(T) \in T /\ \A y \in T : Min(T) <= y
  BY Zenon, LeastNat DEF Min

\* The smaller of two numbers.
LEMMA MinPair ==
  ASSUME NEW a \in Nat, NEW b \in Nat
  PROVE  Min({a, b}) \in {a, b} /\ Min({a, b}) <= a /\ Min({a, b}) <= b
<1>1. {a, b} \in SUBSET Nat /\ {a, b} # {}
  OBVIOUS
<1> QED
  BY Zenon, <1>1, MinOf

\* The candidates have their numbers, from 0 on: by the least number without one.
LEMMA NthIn ==
  ASSUME NEW S \in SUBSET Nat, IsFiniteSet(S), NEW k \in Nat, k < Cardinality(S)
  PROVE  Nth(S, k) \in S
<1> DEFINE Below(c) == {d \in S : d < c}
           Bad == {n \in Nat : n < Cardinality(S) /\ ~\E c \in S : Cardinality(Below(c)) = n}
<1>1. Bad = {}
  <2> SUFFICES ASSUME Bad # {} PROVE FALSE
    BY Zenon
  <2>1. Bad \in SUBSET Nat
    BY Zenon
  <2>2. PICK n \in Bad : \A m \in Bad : n <= m
    BY Zenon, <2>1, LeastNat
  <2>3. /\ n \in Nat /\ n < Cardinality(S) /\ Cardinality(S) \in Nat
        /\ ~\E c \in S : Cardinality(Below(c)) = n
    BY Zenon, <2>2, FS_CardinalityType
  <2>4. ASSUME n = 0 PROVE FALSE
    <3>1. S # {}
      BY <2>3, <2>4, FS_EmptySet
    <3>2. PICK c \in S : \A d \in S : c <= d
      BY Zenon, <3>1, LeastNat
    <3>3. Below(c) = {}
      <4>1. \A d \in S : ~(d < c)
        BY <3>2
      <4> QED
        BY Zenon, <4>1
    <3>4. Cardinality(Below(c)) = 0
      BY Zenon, <3>3, FS_EmptySet
    <3> QED
      BY Zenon, <2>3, <2>4, <3>4
  <2>5. ASSUME n # 0 PROVE FALSE
    <3>1. n - 1 \in Nat /\ n - 1 < Cardinality(S) /\ n - 1 < n /\ ~(n <= n - 1) /\ n - 1 + 1 = n
      BY <2>3, <2>5
    <3>2. n - 1 \notin Bad
      BY Zenon, <2>2, <3>1
    <3>3. PICK c \in S : Cardinality(Below(c)) = n - 1
      BY Zenon, <3>1, <3>2
    <3>4. Below(c) \in SUBSET S /\ IsFiniteSet(Below(c)) /\ c \notin Below(c)
      <4>1. Below(c) \in SUBSET S
        BY Zenon
      <4>2. c \notin Below(c)
        OBVIOUS
      <4> QED
        BY Zenon, <4>1, <4>2, FS_Subset
    <3>5. IsFiniteSet(Below(c) \cup {c}) /\ Cardinality(Below(c) \cup {c}) = n
      BY Zenon, <3>1, <3>3, <3>4, FS_AddElement
    <3> DEFINE Above == {d \in S : c < d}
    <3>6. Above # {}
      <4> SUFFICES ASSUME Above = {} PROVE FALSE
        BY Zenon
      <4>1. S = Below(c) \cup {c}
        <5>1. \A d \in S : d < c \/ d = c \/ c < d
          OBVIOUS
        <5>2. \A d \in S : ~(c < d)
          BY Zenon
        <5> QED
          BY Zenon, <5>1, <5>2
      <4>2. Cardinality(S) = n
        BY Zenon, <3>5, <4>1
      <4> QED
        BY <2>3, <4>2
    <3>7. Above \in SUBSET Nat
      BY Zenon
    <3>8. PICK e \in Above : \A d \in Above : e <= d
      BY Zenon, <3>6, <3>7, LeastNat
    <3>9. e \in S /\ Below(e) = Below(c) \cup {c}
      <4>1. e \in S /\ c < e /\ \A d \in S : c < d => e <= d
        BY Zenon, <3>8
      <4>2. \A d \in S : d < e <=> d < c \/ d = c
        BY <4>1
      <4> QED
        BY Zenon, <4>1, <4>2
    <3>10. Cardinality(Below(e)) = n
      BY Zenon, <3>5, <3>9
    <3> QED
      BY Zenon, <2>3, <3>9, <3>10
  <2> QED
    BY Zenon, <2>4, <2>5
<1>2. k \notin Bad
  BY Zenon, <1>1
<1>3. \E c \in S : Cardinality(Below(c)) = k
  BY Zenon, <1>2
<1> QED
  BY Zenon, <1>3 DEF Nth

\* A channel from a set of channels, for any value of the balancer's counter.
LEMMA TickPicks ==
  ASSUME HealthInv, NEW S \in SUBSET Channels, S # {}
  PROVE  /\ Nth(S, next_index % Cardinality(S)) \in S
         /\ (next_index + 1) % Period \in 0 .. Period - 1
<1>1. IsFiniteSet(Channels) /\ Channels \subseteq Nat
  BY FS_Interval, RpcClientPoolAssumption DEF Channels
<1>2. IsFiniteSet(S) /\ S \in SUBSET Nat
  BY Zenon, <1>1, FS_Subset
<1>3. Cardinality(S) \in Nat /\ Cardinality(S) # 0
  BY Zenon, <1>2, FS_CardinalityType, FS_EmptySet
<1>4. next_index \in Nat /\ Period \in Nat \ {0}
  BY RpcClientPoolAssumption DEF HealthInv
<1>5. next_index % Cardinality(S) \in Nat /\ next_index % Cardinality(S) < Cardinality(S)
  BY <1>3, <1>4
<1> QED
  BY <1>2, <1>4, <1>5, NthIn

\* GetInflightCount of a channel is below the largest size_t.
LEMMA InflightBound ==
  ASSUME HealthInv, NEW c \in Channels
  PROVE  Inflight(c) \in Nat /\ Unread \in Nat /\ Inflight(c) < Unread
<1> DEFINE S == {t \in Threads : call[t].at = "sent" /\ call[t].ch = c}
<1>1. IsFiniteSet(Threads) /\ S \in SUBSET Threads
  BY Zenon, RpcClientPoolAssumption
<1>2. /\ Cardinality(S) \in Nat /\ Cardinality(Threads) \in Nat
      /\ Cardinality(S) <= Cardinality(Threads)
  BY Zenon, <1>1, FS_Subset, FS_CardinalityType
<1>3. failed_slots[c] \in 0 .. MaxSlots /\ MaxSlots \in Nat
  BY RpcClientPoolAssumption DEF HealthInv
<1>4. Inflight(c) = Cardinality(S) + failed_slots[c]
  BY Zenon DEF Inflight
<1> HIDE DEF S
<1> QED
  BY <1>2, <1>3, <1>4 DEF Unread

-----------------------------------------------------------------------------
(* The steps.                                                              *)

\* A thread's step leaves the calls of the others alone.
LEMMA BecomeGood ==
  ASSUME PoolInv, NEW t \in Threads, NEW s, GoodCall(s), Become(t, s), HealthInv'
  PROVE  PoolInv'
<1>1. s \in {r \in Calls : GoodCall(r)}
  BY Zenon DEF GoodCall
<1> DEFINE G == {r \in Calls : GoodCall(r)}
<1>2. call \in [Threads -> G] /\ call' = [call EXCEPT ![t] = s]
  BY Zenon DEF PoolInv, Become
<1>3. call' \in [Threads -> G]
  BY Zenon, <1>1, <1>2
<1> QED
  BY Zenon, <1>3 DEF PoolInv

\* What the invariant says of one call.
LEMMA GoodOf == ASSUME PoolInv, NEW t \in Threads PROVE GoodCall(call[t])
  BY Zenon DEF PoolInv

\* The state other than the calls.
LEMMA HealthKept ==
  ASSUME HealthInv, UNCHANGED <<round_robin, healthy, consecutive_failures, next_index, failed_slots>>
  PROVE  HealthInv'
  BY Zenon DEF HealthInv

\* The bounds the calls start from.
LEMMA Numbers ==
  /\ N \in Nat /\ 1 \in Channels /\ N \in Channels /\ 0 \in 0 .. N
  /\ 0 \in 0 .. Unread /\ Unread \in 0 .. Unread /\ Cardinality({}) = 0 /\ 0 < N
<1>1. Cardinality(Threads) \in Nat
  BY Zenon, FS_CardinalityType, RpcClientPoolAssumption
<1>2. Cardinality({}) = 0
  BY Zenon, FS_EmptySet
<1> QED
  BY <1>1, <1>2, RpcClientPoolAssumption DEF Channels, Unread

\* A call that has just begun, or is about to use its first channel.
LEMMA FreshCall ==
  ASSUME NEW s \in Calls, s.at \in {"idle", "collect", "call"}, s.i = 1, s.tries = 0,
         s.attempted = {}, s.candidates = {}, s.ties = {}, s.unhealthy = {}
  PROVE  GoodCall(s)
<1>1. SelectInv(s)
  BY Numbers DEF SelectInv, Selecting, Passes, Seen
<1>2. BalancerInv(s)
  BY DEF BalancerInv, Passes
<1>3. AttemptInv(s)
  BY Numbers DEF AttemptInv
<1> QED
  BY Zenon, <1>1, <1>2, <1>3 DEF GoodCall

\* Between two calls.
LEMMA IdleGood == GoodCall(Idle) /\ Idle \in Calls
<1>1. /\ Idle.at = "idle" /\ Idle.i = 1 /\ Idle.tries = 0 /\ Idle.attempted = {}
      /\ Idle.candidates = {} /\ Idle.ties = {} /\ Idle.unhealthy = {}
  BY DEF Idle
<1>2. Idle \in Calls
  BY Zenon, Numbers DEF Idle, Calls, Places
<1> QED
  BY Zenon, <1>1, <1>2, FreshCall

\* Warmup, Call and CallAsync start with nothing tried.
LEMMA BeginGood ==
  ASSUME PoolInv, NEW t \in Threads, Warmup(t) \/ Call(t) \/ CallAsync(t)
  PROVE  PoolInv'
<1>1. PICK kind \in {"sync", "async", "warmup"}, place \in {"collect", "call"} : Begin(t, kind, place)
  BY DEF Warmup, Call, CallAsync
<1>2. PICK s : s = [Idle EXCEPT !.kind = kind, !.at = place]
  BY Zenon
<1>3. GoodCall(s)
  <2>1. place \in Places
    BY DEF Places
  <2>2. s \in Calls
    BY Zenon, <1>2, <2>1, IdleGood DEF Calls
  <2>3. /\ s.at \in {"idle", "collect", "call"} /\ s.i = 1 /\ s.tries = 0 /\ s.attempted = {}
        /\ s.candidates = {} /\ s.ties = {} /\ s.unhealthy = {}
    BY <1>2 DEF Idle
  <2> QED
    BY Zenon, <2>2, <2>3, FreshCall
<1>4. HealthInv'
  BY Zenon, <1>1, HealthKept DEF Begin, PoolInv
<1> QED
  BY Zenon, <1>1, <1>2, <1>3, <1>4, BecomeGood DEF Begin

\* Collect: a channel becomes a candidate, or is seen tried or unhealthy.
LEMMA CollectGood ==
  ASSUME PoolInv, NEW t \in Threads, Collect(t)
  PROVE  PoolInv'
<1> DEFINE r == call[t]
<1>1. GoodCall(r) /\ r \in Calls /\ r.at = "collect"
  BY Zenon, GoodOf DEF GoodCall, Collect
<1>2. PICK cs, us, place, j :
        /\ cs = IF healthy[r.i] /\ r.i \notin r.attempted THEN r.candidates \cup {r.i} ELSE r.candidates
        /\ us = IF healthy[r.i] \/ r.kind # "sync" THEN r.unhealthy
                ELSE (r.unhealthy \cup {r.i}) \ r.attempted
        /\ place = IF r.i = N THEN "select" ELSE "collect"
        /\ j = (r.i % N) + 1
  BY Zenon
<1>3. PICK s : s = [r EXCEPT !.candidates = cs, !.unhealthy = us, !.at = place, !.i = j]
  BY Zenon
<1>4. Become(t, s)
  BY <1>1, <1>2, <1>3 DEF Collect
<1>5. /\ s.candidates = cs /\ s.unhealthy = us /\ s.at = place /\ s.i = j
      /\ s.kind = r.kind /\ s.attempted = r.attempted /\ s.tries = r.tries
      /\ s.ties = r.ties /\ s.left = r.left
  BY Zenon, <1>1, <1>3 DEF Calls
<1>6. /\ r.i \in Channels /\ r.attempted \subseteq Channels /\ r.candidates \subseteq Channels
      /\ r.unhealthy \subseteq Channels
  BY Zenon, <1>1 DEF Calls
<1>7. j \in Channels /\ (r.i = N => j = 1) /\ (r.i # N => j = r.i + 1)
  BY <1>2, <1>6, Numbers DEF Channels
<1>8. cs \subseteq Channels /\ us \subseteq Channels /\ place \in Places
  BY <1>2, <1>6 DEF Places
<1>9. s \in Calls
  BY Zenon, <1>1, <1>3, <1>7, <1>8 DEF Calls
<1>10. /\ r.candidates \subseteq cs /\ cs \cap r.attempted = {}
       /\ r.kind = "sync" => r.i \in cs \cup r.attempted \cup us
       /\ r.unhealthy \ r.attempted \subseteq us
  BY <1>1, <1>2 DEF GoodCall, SelectInv
<1>11. SelectInv(s)
  <2>1. r.tries < N
    BY <1>1 DEF GoodCall, SelectInv, Selecting
  <2>2. ASSUME r.kind = "sync" PROVE 1 .. r.i \subseteq Seen(s)
    <3>1. 1 .. r.i - 1 \subseteq Seen(r)
      BY Zenon, <1>1, <2>2 DEF GoodCall, SelectInv
    <3>2. Seen(r) \subseteq Seen(s) /\ r.i \in Seen(s)
      BY Zenon, <1>5, <1>10, <2>2 DEF Seen
    <3>3. 1 .. r.i = (1 .. r.i - 1) \cup {r.i}
      BY <1>6 DEF Channels
    <3> QED
      BY Zenon, <3>1, <3>2, <3>3
  <2>3. CASE r.i = N
    BY <1>2, <1>5, <1>7, <1>10, <2>1, <2>2, <2>3 DEF SelectInv, Selecting, Channels
  <2>4. CASE r.i # N
    <3>1. j - 1 = r.i
      BY <1>6, <1>7, <2>4 DEF Channels
    <3> QED
      BY <1>2, <1>5, <1>10, <2>1, <2>2, <2>4, <3>1 DEF SelectInv, Selecting
  <2> QED
    BY Zenon, <2>3, <2>4
<1>12. BalancerInv(s)
  <2>1. r.ties \subseteq cs
    BY Zenon, <1>1, <1>10 DEF GoodCall, BalancerInv
  <2> QED
    BY <1>2, <1>5, <2>1 DEF BalancerInv, Passes
<1>13. AttemptInv(s)
  <2>1. r.attempted \cup r.unhealthy = Channels => r.attempted \cup us = Channels
    BY Zenon, <1>6, <1>8, <1>10
  <2>2. place # "all_failed"
    BY <1>2
  <2> QED
    BY Zenon, <1>1, <1>5, <2>1, <2>2 DEF GoodCall, AttemptInv
<1>14. GoodCall(s)
  BY Zenon, <1>9, <1>11, <1>12, <1>13 DEF GoodCall
<1>15. HealthInv'
  BY Zenon, HealthKept DEF Collect, PoolInv
<1> QED
  BY Zenon, <1>4, <1>14, <1>15, BecomeGood

\* SelectChannel returns a candidate, or the first channel when it has none.
LEMMA ChosenGood ==
  ASSUME NEW r, GoodCall(r), NEW c \in Channels, r.at \in Selecting,
         \/ c \in r.candidates
         \/ r.kind = "sync" => r.attempted \cup r.unhealthy = Channels
  PROVE  GoodCall(Chosen(r, c))
<1>1. r \in Calls /\ r.tries < N /\ r.candidates \cap r.attempted = {}
  BY Zenon DEF GoodCall, SelectInv
<1>2. r.kind \in {"sync", "async", "warmup"} /\ "call" \in Places
  BY <1>1 DEF Calls, Places
<1>3. CASE r.kind # "sync"
  <2>1. PICK s : s = [Idle EXCEPT !.kind = r.kind, !.at = "call", !.ch = c]
    BY Zenon
  <2>2. s \in Calls
    BY Zenon, <1>2, <2>1, IdleGood DEF Calls
  <2>3. /\ s.at = "call" /\ s.i = 1 /\ s.tries = 0 /\ s.attempted = {}
        /\ s.candidates = {} /\ s.ties = {} /\ s.unhealthy = {}
    BY <2>1 DEF Idle
  <2> QED
    BY Zenon, <1>3, <2>1, <2>2, <2>3, FreshCall DEF Chosen
<1>4. CASE r.kind = "sync"
  <2>1. PICK n, as, us : n = r.tries + 1 /\ as = r.attempted \cup {c} /\ us = r.unhealthy \ {c}
    BY Zenon
  <2>2. PICK s : s = [Idle EXCEPT !.at = "call", !.ch = c, !.tries = n, !.attempted = as,
                                  !.unhealthy = us]
    BY Zenon
  <2>3. r.tries \in 0 .. N /\ r.attempted \subseteq Channels /\ r.unhealthy \subseteq Channels
    BY Zenon, <1>1 DEF Calls
  <2>4. n \in 0 .. N /\ as \subseteq Channels /\ us \subseteq Channels
    BY <1>1, <2>1, <2>3, Numbers
  <2>5. s \in Calls
    BY Zenon, <1>2, <2>2, <2>4, IdleGood DEF Calls
  <2>6. /\ s.at = "call" /\ s.i = 1 /\ s.tries = n /\ s.attempted = as /\ s.kind = "sync"
        /\ s.candidates = {} /\ s.ties = {} /\ s.unhealthy = us
    BY <2>2 DEF Idle
  <2>7. SelectInv(s)
    BY <2>6 DEF SelectInv, Selecting, Passes
  <2>8. BalancerInv(s)
    BY <2>6 DEF BalancerInv, Passes
  <2>9. as \cup us = Channels \/ Cardinality(as) = n
    <3>1. CASE r.attempted \cup r.unhealthy = Channels
      BY Zenon, <2>1, <3>1
    <3>2. CASE Cardinality(r.attempted) = r.tries /\ c \in r.candidates
      <4>1. IsFiniteSet(Channels)
        BY FS_Interval, Numbers DEF Channels
      <4>2. IsFiniteSet(r.attempted) /\ c \notin r.attempted
        BY Zenon, <1>1, <2>3, <3>2, <4>1, FS_Subset
      <4>3. Cardinality(as) = Cardinality(r.attempted) + 1
        BY Zenon, <2>1, <4>2, FS_AddElement
      <4> QED
        BY Zenon, <2>1, <3>2, <4>3
    <3> QED
      BY Zenon, <1>4, <3>1, <3>2 DEF GoodCall, AttemptInv
  <2>10. s.at # "all_failed"
    BY <2>6
  <2>11. AttemptInv(s)
    BY Zenon, <2>6, <2>9, <2>10 DEF AttemptInv
  <2>12. s = Chosen(r, c)
    BY Zenon, <1>4, <2>1, <2>2 DEF Chosen
  <2> QED
    BY Zenon, <2>5, <2>7, <2>8, <2>11, <2>12 DEF GoodCall
<1> QED
  BY Zenon, <1>3, <1>4

\* The counter's tick picks from the candidates, or from those with the least count.
LEMMA RoundRobinGood ==
  ASSUME PoolInv, NEW t \in Threads, NEW S, S # {}, S \subseteq call[t].candidates,
         call[t].at \in Selecting, RoundRobin(t, S),
         UNCHANGED <<round_robin, healthy, consecutive_failures, failed_slots>>
  PROVE  PoolInv'
<1> DEFINE r == call[t]
<1>1. GoodCall(r) /\ r \in Calls
  BY Zenon, GoodOf DEF GoodCall
<1>2. r.candidates \subseteq Channels
  BY Zenon, <1>1 DEF Calls
<1>3. S \in SUBSET Channels /\ HealthInv
  BY Zenon, <1>2 DEF PoolInv
<1>4. PICK c : c = Nth(S, next_index % Cardinality(S))
  BY Zenon
<1>5. c \in S /\ (next_index + 1) % Period \in 0 .. Period - 1
  BY Zenon, <1>3, <1>4, TickPicks
<1>6. GoodCall(Chosen(r, c))
  BY Zenon, <1>1, <1>3, <1>5, ChosenGood
<1>7. Become(t, Chosen(r, c)) /\ next_index' = (next_index + 1) % Period
  BY Zenon, <1>4 DEF RoundRobin
<1>8. HealthInv'
  BY Zenon, <1>3, <1>5, <1>7 DEF HealthInv
<1> QED
  BY Zenon, <1>6, <1>7, <1>8, BecomeGood

\* Select: a channel is chosen, or the passes of the balancer begin.
LEMMA SelectGood ==
  ASSUME PoolInv, NEW t \in Threads, Select(t)
  PROVE  PoolInv'
<1> DEFINE r == call[t]
<1>1. GoodCall(r) /\ r \in Calls /\ r.at = "select" /\ "select" \in Selecting
  BY GoodOf DEF GoodCall, Select, Selecting
<1>2. CASE r.candidates = {} /\ Become(t, Chosen(r, 1)) /\ UNCHANGED next_index
  <2>1. r.attempted \subseteq Channels /\ r.unhealthy \subseteq Channels
    BY Zenon, <1>1 DEF Calls
  <2>2. r.kind = "sync" => r.attempted \cup r.unhealthy = Channels
    BY Zenon, <1>1, <1>2, <2>1 DEF GoodCall, SelectInv, Seen
  <2>3. GoodCall(Chosen(r, 1))
    BY Zenon, <1>1, <2>2, ChosenGood, Numbers
  <2>4. HealthInv'
    BY Zenon, <1>2, HealthKept DEF Select, PoolInv
  <2> QED
    BY Zenon, <1>2, <2>3, <2>4, BecomeGood
<1>3. CASE r.candidates # {} /\ RoundRobin(t, r.candidates)
  BY Zenon, <1>1, <1>3, RoundRobinGood DEF Select
<1>4. CASE /\ r.candidates # {} /\ UNCHANGED next_index
           /\ Become(t, [r EXCEPT !.at = "least", !.left = r.candidates, !.min_inflight = Unread])
  <2>1. PICK s : s = [r EXCEPT !.at = "least", !.left = r.candidates, !.min_inflight = Unread]
    BY Zenon
  <2>2. "least" \in Places /\ "least" \in Selecting
    BY DEF Places, Selecting, Passes
  <2>3. s \in Calls
    BY Zenon, <1>1, <2>1, <2>2, Numbers DEF Calls
  <2>4. /\ s.at = "least" /\ s.left = r.candidates /\ s.candidates = r.candidates /\ s.i = r.i
        /\ s.kind = r.kind /\ s.attempted = r.attempted /\ s.tries = r.tries /\ s.ties = r.ties
        /\ s.unhealthy = r.unhealthy
    BY Zenon, <1>1, <2>1 DEF Calls
  <2>5. SelectInv(s)
    BY Zenon, <1>1, <2>2, <2>4 DEF GoodCall, SelectInv
  <2>6. BalancerInv(s)
    BY <1>1, <1>4, <2>4 DEF GoodCall, BalancerInv
  <2>7. AttemptInv(s)
    BY <1>1, <2>4 DEF GoodCall, AttemptInv
  <2>8. HealthInv'
    BY Zenon, <1>4, HealthKept DEF Select, PoolInv
  <2> QED
    BY Zenon, <1>4, <2>1, <2>3, <2>5, <2>6, <2>7, <2>8, BecomeGood DEF GoodCall
<1> QED
  BY Zenon, <1>2, <1>3, <1>4 DEF Select

\* Pick: the ties are candidates.
LEMMA PickGood ==
  ASSUME PoolInv, NEW t \in Threads, Pick(t)
  PROVE  PoolInv'
<1>1. GoodCall(call[t]) /\ call[t].at = "pick" /\ "pick" \in Selecting
  BY GoodOf DEF Pick, Selecting
<1>2. call[t].ties # {} /\ call[t].ties \subseteq call[t].candidates
  BY Zenon, <1>1 DEF GoodCall, BalancerInv
<1> QED
  BY Zenon, <1>1, <1>2, RoundRobinGood DEF Pick

\* A pass has read one count: it goes on, or goes over to the next place.
SamePass(s, q) ==
  /\ s.at = q.at /\ s.left = q.left /\ s.candidates = q.candidates /\ s.i = q.i
  /\ s.kind = q.kind /\ s.attempted = q.attempted /\ s.tries = q.tries
  /\ s.unhealthy = q.unhealthy

\* What a pass leaves of the call.
LEMMA ReadParts ==
  ASSUME NEW r, GoodCall(r), r.at \in Passes, NEW place \in Passes \cup {"pick"}
  PROVE  LET q == Read(r, place) IN
         /\ q \in Calls /\ q.at \in {r.at, place} /\ q.left # {} /\ q.left \subseteq r.candidates
         /\ q.candidates = r.candidates /\ q.i = r.i /\ q.kind = r.kind
         /\ q.attempted = r.attempted /\ q.tries = r.tries /\ q.unhealthy = r.unhealthy
         /\ q.ties = r.ties /\ q.min_inflight = r.min_inflight
<1>1. r \in Calls /\ r.left # {} /\ r.left \subseteq r.candidates /\ r.candidates \subseteq Channels
  BY Zenon DEF GoodCall, BalancerInv, Calls
<1>2. place \in Places
  BY DEF Passes, Places
<1>3. CASE r.left = {Min(r.left)}
  <2>1. PICK q : q = [r EXCEPT !.at = place, !.left = r.candidates]
    BY Zenon
  <2>2. /\ q \in Calls /\ q.at = place /\ q.left = r.candidates
        /\ q.candidates = r.candidates /\ q.i = r.i /\ q.kind = r.kind
        /\ q.attempted = r.attempted /\ q.tries = r.tries /\ q.unhealthy = r.unhealthy
        /\ q.ties = r.ties /\ q.min_inflight = r.min_inflight
    BY ZenonT(40), <1>1, <1>2, <2>1 DEF Calls
  <2>3. q = Read(r, place)
    BY Zenon, <1>3, <2>1 DEF Read
  <2> QED
    BY Zenon, <1>1, <2>2, <2>3
<1>4. CASE r.left # {Min(r.left)}
  <2>1. PICK ls : ls = r.left \ {Min(r.left)}
    BY Zenon
  <2>2. ls # {} /\ ls \subseteq r.candidates /\ ls \subseteq Channels
    <3>1. r.left \in SUBSET Nat
      BY <1>1 DEF Channels
    <3>2. Min(r.left) \in r.left
      BY Zenon, <1>1, <3>1, MinOf
    <3> QED
      BY Zenon, <1>1, <1>4, <2>1, <3>2
  <2>3. PICK q : q = [r EXCEPT !.left = ls]
    BY Zenon
  <2>4. /\ q \in Calls /\ q.at = r.at /\ q.left = ls
        /\ q.candidates = r.candidates /\ q.i = r.i /\ q.kind = r.kind
        /\ q.attempted = r.attempted /\ q.tries = r.tries /\ q.unhealthy = r.unhealthy
        /\ q.ties = r.ties /\ q.min_inflight = r.min_inflight
    BY ZenonT(40), <1>1, <2>2, <2>3 DEF Calls
  <2>5. q = Read(r, place)
    BY Zenon, <1>4, <2>1, <2>3 DEF Read
  <2> QED
    BY Zenon, <2>2, <2>4, <2>5
<1> QED
  BY Zenon, <1>3, <1>4

\* No more than the minimum and the ties change in a pass.
LEMMA PassGood ==
  ASSUME PoolInv, NEW t \in Threads, call[t].at \in Passes, NEW place \in Passes \cup {"pick"},
         NEW s \in Calls, SamePass(s, Read(call[t], place)), Become(t, s),
         s.ties \subseteq call[t].candidates,
         s.at = "again" => s.ties # {} \/ s.min_inflight = Unread,
         s.at = "pick" => s.ties # {},
         UNCHANGED <<round_robin, healthy, consecutive_failures, next_index, failed_slots>>
  PROVE  PoolInv'
<1> DEFINE r == call[t]
<1>1. GoodCall(r)
  BY Zenon, GoodOf
<1>2. /\ s.at \in {r.at, place} /\ s.left # {} /\ s.left \subseteq r.candidates
      /\ s.candidates = r.candidates /\ s.i = r.i /\ s.kind = r.kind
      /\ s.attempted = r.attempted /\ s.tries = r.tries /\ s.unhealthy = r.unhealthy
  <2>1. PICK q : q = Read(r, place)
    BY Zenon
  <2>2. /\ q.at \in {r.at, place} /\ q.left # {} /\ q.left \subseteq r.candidates
        /\ q.candidates = r.candidates /\ q.i = r.i /\ q.kind = r.kind
        /\ q.attempted = r.attempted /\ q.tries = r.tries /\ q.unhealthy = r.unhealthy
    BY Zenon, <1>1, <2>1, ReadParts
  <2>3. SamePass(s, q)
    BY Zenon, <2>1
  <2> QED
    BY Zenon, <2>2, <2>3 DEF SamePass
<1>3. s.at \in Selecting /\ s.at # "collect" /\ s.at # "select" /\ s.at # "all_failed"
  BY <1>2 DEF Passes, Selecting
<1>4. r.at \in Selecting /\ r.at # "collect"
  BY DEF Passes, Selecting
<1>5. SelectInv(s)
  BY Zenon, <1>1, <1>2, <1>3, <1>4 DEF GoodCall, SelectInv
<1>6. BalancerInv(s)
  BY Zenon, <1>2 DEF BalancerInv
<1>7. AttemptInv(s)
  BY Zenon, <1>1, <1>2, <1>3 DEF GoodCall, AttemptInv
<1>8. HealthInv'
  BY Zenon, HealthKept DEF PoolInv
<1> QED
  BY Zenon, <1>5, <1>6, <1>7, <1>8, BecomeGood DEF GoodCall

\* The three passes of LeastInflightBalancer::Select.
LEMMA LeastGood ==
  ASSUME PoolInv, NEW t \in Threads, Least(t) \/ Ties(t) \/ Again(t)
  PROVE  PoolInv'
<1> DEFINE r == call[t]
<1>1. GoodCall(r) /\ r \in Calls /\ r.at \in Passes
  BY GoodOf DEF GoodCall, Least, Ties, Again, Passes
<1>2. /\ r.left # {} /\ r.left \subseteq r.candidates /\ r.candidates \subseteq Channels
      /\ r.ties \subseteq r.candidates /\ r.min_inflight \in 0 .. Unread
  BY Zenon, <1>1 DEF GoodCall, BalancerInv, Calls
<1>3. PICK c : c = Min(r.left)
  BY Zenon
<1>4. c \in r.left /\ c \in r.candidates /\ c \in Channels
  <2>1. r.left \in SUBSET Nat
    BY <1>2 DEF Channels
  <2> QED
    BY Zenon, <1>2, <1>3, <2>1, MinOf
<1>5. PICK n \in Nat : n = Inflight(c) /\ n < Unread /\ Unread \in Nat
  BY Zenon, <1>4, InflightBound DEF PoolInv
<1>6. PICK m \in 0 .. Unread : m = Min({r.min_inflight, n})
  <2>1. r.min_inflight \in Nat
    BY <1>2, <1>5
  <2>2. Min({r.min_inflight, n}) \in {r.min_inflight, n}
    BY Zenon, <2>1, MinPair
  <2>3. n \in 0 .. Unread
    BY <1>5
  <2> QED
    BY Zenon, <1>2, <2>2, <2>3
<1>7. UNCHANGED <<round_robin, healthy, consecutive_failures, next_index, failed_slots>>
  BY Zenon DEF Least, Ties, Again
<1>8. CASE Least(t)
  <2>1. PICK q, s : q = Read(r, "ties") /\ s = [q EXCEPT !.min_inflight = m]
    BY Zenon
  <2>2. "ties" \in Passes /\ r.at = "least"
    BY <1>8 DEF Least, Passes
  <2>3. q \in Calls /\ q.at \in {"least", "ties"} /\ q.ties = r.ties /\ q.min_inflight = r.min_inflight
    BY Zenon, <1>1, <2>1, <2>2, ReadParts
  <2>4. s \in Calls /\ SamePass(s, q) /\ s.ties = r.ties
    BY ZenonT(40), <2>1, <2>3 DEF Calls, SamePass
  <2>5. Become(t, s)
    BY Zenon, <1>3, <1>5, <1>6, <1>8, <2>1, <2>3 DEF Least
  <2>6. s.at # "again" /\ s.at # "pick"
    BY <2>3, <2>4 DEF SamePass
  <2> QED
    BY Zenon, <1>1, <1>2, <1>7, <2>1, <2>2, <2>4, <2>5, <2>6, PassGood
<1>9. CASE Ties(t)
  <2>1. PICK ts : ts = IF Inflight(c) = r.min_inflight THEN r.ties \cup {c} ELSE r.ties
    BY Zenon
  <2>2. ts \subseteq r.candidates /\ ts \subseteq Channels
    BY Zenon, <1>2, <1>4, <2>1
  <2>3. PICK place : place = IF ts = {} THEN "again" ELSE "pick"
    BY Zenon
  <2>4. /\ place \in Passes \cup {"pick"} /\ r.at = "ties"
        /\ place = "again" \/ (place = "pick" /\ ts # {})
    BY <1>9, <2>3 DEF Passes, Ties
  <2>5. PICK q, s0 : q = Read(r, place) /\ s0 = [q EXCEPT !.ties = ts]
    BY Zenon
  <2>6. q \in Calls /\ q.at \in {"ties", place}
    BY Zenon, <1>1, <2>4, <2>5, ReadParts
  <2>7. s0 \in Calls /\ SamePass(s0, q) /\ s0.ties = ts
    BY ZenonT(40), <2>2, <2>5, <2>6 DEF Calls, SamePass
  <2>8. PICK s : s = IF s0.at = "again" THEN [s0 EXCEPT !.min_inflight = Unread] ELSE s0
    BY Zenon
  <2>9. /\ s \in Calls /\ SamePass(s, q) /\ s.ties = ts
        /\ s.at = "again" => s.min_inflight = Unread
    BY ZenonT(40), <2>7, <2>8, Numbers DEF Calls, SamePass
  <2>10. Become(t, s)
    BY Zenon, <1>3, <1>9, <2>1, <2>3, <2>5, <2>8 DEF Ties
  <2>11. s.at = "pick" => ts # {}
    BY <2>4, <2>6, <2>9 DEF SamePass
  <2> QED
    BY Zenon, <1>1, <1>7, <2>2, <2>4, <2>5, <2>9, <2>10, <2>11, PassGood
<1>10. CASE Again(t)
  <2>1. PICK ts : ts = CASE Inflight(c) < r.min_inflight -> {c}
                         [] Inflight(c) = r.min_inflight -> r.ties \cup {c}
                         [] OTHER -> r.ties
    BY Zenon
  <2>2. r.at = "again" /\ (r.ties # {} \/ r.min_inflight = Unread)
    BY Zenon, <1>1, <1>10 DEF Again, GoodCall, BalancerInv
  <2>3. r.min_inflight \in Nat
    BY <1>2, <1>5
  <2>4. ts # {} /\ ts \subseteq r.candidates /\ ts \subseteq Channels
    <3>1. CASE n < r.min_inflight
      <4>1. ts = {c}
        BY <1>5, <2>1, <2>3, <3>1
      <4> QED
        BY Zenon, <1>4, <4>1
    <3>2. CASE n = r.min_inflight
      <4>1. ts = r.ties \cup {c}
        BY <1>5, <2>1, <2>3, <3>2
      <4> QED
        BY Zenon, <1>2, <1>4, <4>1
    <3>3. CASE ~(n < r.min_inflight) /\ n # r.min_inflight
      <4>1. ts = r.ties
        BY Zenon, <1>5, <2>1, <3>3
      <4>2. r.min_inflight # Unread
        BY Zenon, <1>5, <3>3
      <4> QED
        BY Zenon, <1>2, <2>2, <4>1, <4>2
    <3> QED
      BY Zenon, <3>1, <3>2, <3>3
  <2>5. PICK q, s : q = Read(r, "pick") /\ s = [q EXCEPT !.min_inflight = m, !.ties = ts]
    BY Zenon
  <2>6. q \in Calls /\ q.ties = r.ties /\ q.min_inflight = r.min_inflight
    BY Zenon, <1>1, <2>5, ReadParts
  <2>7. s \in Calls /\ SamePass(s, q) /\ s.ties = ts
    BY ZenonT(40), <2>4, <2>5, <2>6 DEF Calls, SamePass
  <2>8. Become(t, s)
    BY Zenon, <1>3, <1>5, <1>6, <1>10, <2>1, <2>5, <2>6 DEF Again
  <2> QED
    BY Zenon, <1>1, <1>7, <2>4, <2>5, <2>7, <2>8, PassGood
<1> QED
  BY Zenon, <1>8, <1>9, <1>10

\* A call outside SelectChannel goes on, with the channels it has tried.
LEMMA OutsideGood ==
  ASSUME NEW r, GoodCall(r), r.at \notin Selecting, NEW s \in Calls,
         s.at \in {"call", "sent", "count", "flag", "collect", "all_failed"}, s.i = r.i,
         s.candidates = r.candidates, s.ties = r.ties, s.kind = r.kind, s.tries = r.tries,
         s.attempted = r.attempted, s.unhealthy = r.unhealthy,
         s.at = "collect" => r.tries < N,
         s.at = "all_failed" => r.kind = "sync" /\ r.tries = N
  PROVE  GoodCall(s)
<1>1. r.i = 1 /\ r.candidates = {} /\ r.ties = {}
  BY DEF GoodCall, SelectInv, BalancerInv, Selecting
<1>2. s.at \in Selecting => s.at = "collect"
  BY DEF Selecting, Passes
<1>3. s.at \notin Passes /\ s.at # "pick" /\ s.at # "again" /\ s.at # "select"
  BY DEF Passes
<1>4. 1 .. s.i - 1 = {}
  BY <1>1
<1>5. SelectInv(s)
  BY Zenon, <1>1, <1>2, <1>3, <1>4 DEF SelectInv
<1>6. BalancerInv(s)
  BY Zenon, <1>1, <1>3 DEF BalancerInv
<1>7. AttemptInv(s)
  BY Zenon DEF GoodCall, AttemptInv
<1> QED
  BY Zenon, <1>5, <1>6, <1>7 DEF GoodCall

\* The call is sent, and returns.
LEMMA SendGood ==
  ASSUME PoolInv, NEW t \in Threads, Send(t) \/ CallReturns(t)
  PROVE  PoolInv'
<1> DEFINE r == call[t]
<1>1. GoodCall(r) /\ r \in Calls /\ r.at \in {"call", "sent"}
  BY Zenon, GoodOf DEF GoodCall, Send, CallReturns
<1>2. PICK place \in {"sent", "count"}, b \in BOOLEAN :
        Become(t, [r EXCEPT !.at = place, !.reachable = b])
  <2>1. CASE Send(t)
    <3>1. [r EXCEPT !.at = "sent"] = [r EXCEPT !.at = "sent", !.reachable = r.reachable]
      BY Zenon, <1>1 DEF Calls
    <3>2. r.reachable \in BOOLEAN
      BY Zenon, <1>1 DEF Calls
    <3> QED
      BY Zenon, <2>1, <3>1, <3>2 DEF Send
  <2>2. CASE CallReturns(t)
    BY Zenon, <2>2 DEF CallReturns
  <2> QED
    BY Zenon, <2>1, <2>2
<1>3. PICK s : s = [r EXCEPT !.at = place, !.reachable = b]
  BY Zenon
<1>4. place \in Places /\ r.at \notin Selecting
  BY <1>1, <1>2 DEF Places, Selecting, Passes
<1>5. s \in Calls
  BY ZenonT(40), <1>1, <1>3, <1>4 DEF Calls
<1>6. /\ s.at = place /\ s.i = r.i
      /\ s.candidates = r.candidates /\ s.ties = r.ties /\ s.kind = r.kind /\ s.tries = r.tries
      /\ s.attempted = r.attempted /\ s.unhealthy = r.unhealthy
  BY Zenon, <1>1, <1>3 DEF Calls
<1>7. /\ s.at \in {"call", "sent", "count", "flag", "collect", "all_failed"}
      /\ s.at # "collect" /\ s.at # "all_failed"
  BY <1>2, <1>6
<1>8. GoodCall(s)
  BY Zenon, <1>1, <1>4, <1>5, <1>6, <1>7, OutsideGood
<1>9. HealthInv'
  <2>1. r.ch \in Channels
    BY Zenon, <1>1 DEF Calls
  <2>2. failed_slots \in [Channels -> 0 .. MaxSlots] /\ MaxSlots \in Nat
    BY Zenon, RpcClientPoolAssumption DEF PoolInv, HealthInv
  <2>3. failed_slots' \in [Channels -> 0 .. MaxSlots]
    <3>1. CASE UNCHANGED failed_slots
      BY Zenon, <2>2, <3>1
    <3>2. CASE /\ failed_slots[r.ch] < MaxSlots
               /\ failed_slots' = [failed_slots EXCEPT ![r.ch] = @ + 1]
      BY <2>1, <2>2, <3>2
    <3> QED
      BY Zenon, <3>1, <3>2 DEF Send, CallReturns
  <2> QED
    BY Zenon, <2>3 DEF Send, CallReturns, PoolInv, HealthInv
<1> QED
  BY Zenon, <1>2, <1>3, <1>8, <1>9, BecomeGood

\* Once the outcome is recorded: the next channel, the next attempt or the end.
LEMMA RecordedGood ==
  ASSUME NEW r, GoodCall(r), r.at \in {"count", "flag"}
  PROVE  GoodCall(Recorded(r))
<1>1. /\ r \in Calls /\ r.ch \in Channels /\ r.tries \in 0 .. N /\ r.reachable \in BOOLEAN
      /\ r.at \notin Selecting /\ {"call", "collect", "all_failed"} \subseteq Places
  BY DEF GoodCall, Calls, Selecting, Passes, Places
<1>2. ASSUME NEW place \in {"call", "collect", "all_failed"}, NEW c \in Channels, NEW b \in BOOLEAN,
             NEW s, s = [r EXCEPT !.at = place, !.ch = c, !.reachable = b],
             place = "collect" => r.tries < N,
             place = "all_failed" => r.kind = "sync" /\ r.tries = N
      PROVE  GoodCall(s)
  <2>1. s \in Calls
    BY ZenonT(40), <1>1, <1>2 DEF Calls
  <2>2. /\ s.at = place /\ s.i = r.i
        /\ s.candidates = r.candidates /\ s.ties = r.ties /\ s.kind = r.kind /\ s.tries = r.tries
        /\ s.attempted = r.attempted /\ s.unhealthy = r.unhealthy
    BY Zenon, <1>1, <1>2 DEF Calls
  <2>3. s.at \in {"call", "sent", "count", "flag", "collect", "all_failed"}
    BY Zenon, <2>2
  <2> QED
    BY Zenon, <1>1, <1>2, <2>1, <2>2, <2>3, OutsideGood
<1>3. CASE r.kind = "warmup" /\ r.ch < N
  <2>1. r.ch + 1 \in Channels
    BY <1>1, <1>3, Numbers DEF Channels
  <2>2. PICK s : s = [r EXCEPT !.at = "call", !.ch = r.ch + 1, !.reachable = r.reachable]
    BY Zenon
  <2>3. GoodCall(s)
    BY Zenon, <1>1, <1>2, <2>1, <2>2
  <2>4. s = [r EXCEPT !.at = "call", !.ch = r.ch + 1]
    BY Zenon, <1>1, <2>2 DEF Calls
  <2>5. s = Recorded(r)
    BY <1>3, <2>4 DEF Recorded
  <2> QED
    BY Zenon, <2>3, <2>5
<1>4. CASE r.kind = "sync" /\ ~r.reachable /\ r.tries < N
  <2>1. PICK s : s = [r EXCEPT !.at = "collect", !.ch = 1, !.reachable = TRUE]
    BY Zenon
  <2>2. GoodCall(s)
    BY Zenon, <1>2, <1>4, <2>1, Numbers
  <2>3. s = Recorded(r)
    BY <1>1, <1>4, <2>1, Numbers DEF Recorded, Retry
  <2> QED
    BY Zenon, <2>2, <2>3
<1>5. CASE r.kind = "sync" /\ ~r.reachable /\ r.tries = N
  <2>1. PICK s : s = [r EXCEPT !.at = "all_failed", !.ch = r.ch, !.reachable = r.reachable]
    BY Zenon
  <2>2. GoodCall(s)
    BY Zenon, <1>1, <1>2, <1>5, <2>1
  <2>3. s = [r EXCEPT !.at = "all_failed"]
    BY Zenon, <1>1, <2>1 DEF Calls
  <2>4. s = Recorded(r)
    BY <1>5, <2>3, Numbers DEF Recorded
  <2> QED
    BY Zenon, <2>2, <2>4
<1>6. CASE /\ ~(r.kind = "warmup" /\ r.ch < N)
           /\ ~(r.kind = "sync" /\ ~r.reachable /\ r.tries < N)
           /\ ~(r.kind = "sync" /\ ~r.reachable /\ r.tries = N)
  BY Zenon, <1>6, IdleGood DEF Recorded
<1> QED
  BY Zenon, <1>3, <1>4, <1>5, <1>6

\* RecordReachability: the count,
LEMMA CountGood ==
  ASSUME PoolInv, NEW t \in Threads, Count(t)
  PROVE  PoolInv'
<1> DEFINE r == call[t]
<1>1. /\ GoodCall(r) /\ r \in Calls /\ r.at = "count" /\ r.ch \in Channels
      /\ r.at \notin Selecting /\ "flag" \in Places
  BY GoodOf DEF GoodCall, Count, Calls, Selecting, Passes, Places
<1>2. PICK s : s = [r EXCEPT !.at = "flag"]
  BY Zenon
<1>3. GoodCall(s)
  <2>1. s \in Calls
    BY ZenonT(40), <1>1, <1>2 DEF Calls
  <2>2. /\ s.at = "flag" /\ s.i = r.i
        /\ s.candidates = r.candidates /\ s.ties = r.ties /\ s.kind = r.kind /\ s.tries = r.tries
        /\ s.attempted = r.attempted /\ s.unhealthy = r.unhealthy
    BY Zenon, <1>1, <1>2 DEF Calls
  <2>3. /\ s.at \in {"call", "sent", "count", "flag", "collect", "all_failed"}
        /\ s.at # "collect" /\ s.at # "all_failed"
    BY <2>2
  <2> QED
    BY Zenon, <1>1, <2>1, <2>2, <2>3, OutsideGood
<1>4. GoodCall(Recorded(r))
  BY <1>1, RecordedGood
<1>5. Become(t, s) \/ Become(t, Recorded(r))
  BY Zenon, <1>2 DEF Count
<1>6. HealthInv'
  <2>1. /\ consecutive_failures \in [Channels -> 0 .. MaxFailures] /\ MaxFailures \in Nat
        /\ consecutive_failures[r.ch] + 1 \in Nat
    BY <1>1, RpcClientPoolAssumption DEF PoolInv, HealthInv
  <2>2. PICK n : /\ n = IF r.reachable THEN 0
                        ELSE IF r.kind = "warmup" THEN MaxFailures
                        ELSE Min({consecutive_failures[r.ch] + 1, MaxFailures})
                 /\ consecutive_failures' = [consecutive_failures EXCEPT ![r.ch] = n]
    BY Zenon DEF Count
  <2>3. n \in 0 .. MaxFailures
    <3>1. PICK k : k = Min({consecutive_failures[r.ch] + 1, MaxFailures})
      BY Zenon
    <3>2. k \in {consecutive_failures[r.ch] + 1, MaxFailures} /\ k <= MaxFailures
      BY Zenon, <2>1, <3>1, MinPair
    <3>3. n \in {0, MaxFailures, k}
      BY Zenon, <2>2, <3>1
    <3> QED
      BY <2>1, <3>2, <3>3
  <2>4. consecutive_failures' \in [Channels -> 0 .. MaxFailures]
    BY Zenon, <2>1, <2>2, <2>3
  <2> QED
    BY Zenon, <2>4 DEF Count, PoolInv, HealthInv
<1> QED
  BY Zenon, <1>3, <1>4, <1>5, <1>6, BecomeGood

\* and the flag.
LEMMA FlagGood ==
  ASSUME PoolInv, NEW t \in Threads, Flag(t)
  PROVE  PoolInv'
<1> DEFINE r == call[t]
<1>1. /\ GoodCall(r) /\ r.at = "flag" /\ r.ch \in Channels /\ r.reachable \in BOOLEAN
  BY Zenon, GoodOf DEF GoodCall, Flag, Calls
<1>2. GoodCall(Recorded(r)) /\ Become(t, Recorded(r))
  BY Zenon, <1>1, RecordedGood DEF Flag
<1>3. healthy' \in [Channels -> BOOLEAN]
  BY Zenon, <1>1 DEF Flag, PoolInv, HealthInv
<1>4. HealthInv'
  BY Zenon, <1>3 DEF Flag, PoolInv, HealthInv
<1> QED
  BY Zenon, <1>2, <1>4, BecomeGood

\* Every step of the pool.
LEMMA NextGood == PoolInv /\ [Next]_vars => PoolInv'
<1> SUFFICES ASSUME PoolInv, [Next]_vars PROVE PoolInv'
  OBVIOUS
<1>1. ASSUME NEW t \in Threads, AllFailed(t) PROVE PoolInv'
  <2>1. HealthInv'
    BY Zenon, <1>1, HealthKept DEF AllFailed, PoolInv
  <2> QED
    BY Zenon, <1>1, <2>1, IdleGood, BecomeGood DEF AllFailed
<1>2. CASE UNCHANGED vars
  BY Zenon, <1>2 DEF vars, PoolInv, HealthInv
<1>3. ASSUME NEW t \in Threads, Step(t) PROVE PoolInv'
  BY Zenon, <1>1, <1>3, BeginGood, CollectGood, SelectGood, LeastGood, PickGood, SendGood,
     CountGood, FlagGood DEF Step
<1> QED
  BY Zenon, <1>2, <1>3 DEF Next

\* At first no thread calls.
LEMMA InitGood == Init => PoolInv
<1> SUFFICES ASSUME Init PROVE PoolInv
  OBVIOUS
<1>1. HealthInv
  BY RpcClientPoolAssumption DEF Init, HealthInv
<1>2. Idle \in {r \in Calls : GoodCall(r)}
  BY Zenon, IdleGood
<1> QED
  BY Zenon, <1>1, <1>2 DEF Init, PoolInv

-----------------------------------------------------------------------------
(* The theorems.                                                           *)

\* The invariant of the pool in every reachable state.
THEOREM PoolInvHolds == Spec => []PoolInv
  BY InitGood, NextGood, PTL DEF Spec

\* The pool keeps its types: the counter of the balancer, the counts of failures and
\* of slots stay within their bounds, and a call makes at most N attempts.
THEOREM ClientPoolTypeOK == Spec => []TypeOK
<1>1. ASSUME PoolInv PROVE TypeOK
  <2>1. ASSUME NEW t \in Threads
        PROVE  LET r == call[t] IN
               /\ r.at \in Places /\ r.i \in Channels /\ r.ch \in Channels /\ r.tries \in 0 .. N
               /\ r.min_inflight \in 0 .. Unread
               /\ r.candidates \cup r.left \cup r.attempted \cup r.unhealthy \subseteq Channels
    <3>1. call[t] \in Calls
      BY Zenon, <1>1, GoodOf DEF GoodCall
    <3> QED
      BY Zenon, <3>1 DEF Calls
  <2> QED
    BY Zenon, <1>1, <2>1 DEF TypeOK, PoolInv, HealthInv, Places
<1> QED
  BY <1>1, PoolInvHolds, PTL

\* SelectsACandidate: the least-inflight balancer returns one of the candidates it
\* was given, whatever calls start and end between its reads.
THEOREM ClientPoolSelectsACandidate == Spec => []SelectsACandidate
<1>1. ASSUME PoolInv PROVE SelectsACandidate
  BY Zenon, <1>1, GoodOf DEF SelectsACandidate, GoodCall, BalancerInv
<1> QED
  BY <1>1, PoolInvHolds, PTL

\* FailsOnlyAfterTrying: Call returns "all channels failed" only when it has tried, or
\* seen unhealthy, each of any number of channels.
THEOREM ClientPoolFailsOnlyAfterTrying == Spec => []FailsOnlyAfterTrying
<1>1. ASSUME PoolInv PROVE FailsOnlyAfterTrying
  <2> SUFFICES ASSUME NEW t \in Threads, call[t].at = "all_failed"
               PROVE  call[t].attempted \cup call[t].unhealthy = Channels
    BY Zenon DEF FailsOnlyAfterTrying
  <2> DEFINE r == call[t]
  <2>1. /\ r.attempted \subseteq Channels /\ r.unhealthy \subseteq Channels
        /\ r.attempted \cup r.unhealthy = Channels \/ Cardinality(r.attempted) = N
    BY Zenon, <1>1, GoodOf DEF GoodCall, Calls, AttemptInv
  <2>2. IsFiniteSet(Channels) /\ Cardinality(Channels) = N
    BY FS_Interval, Numbers DEF Channels
  <2>3. Cardinality(r.attempted) = N => r.attempted = Channels
    BY Zenon, <2>1, <2>2, FS_Subset
  <2> QED
    BY Zenon, <2>1, <2>3
<1> QED
  BY <1>1, PoolInvHolds, PTL
=============================================================================
