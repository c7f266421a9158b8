-------------------------- MODULE MC_PendingCalls --------------------------
(* A small instance of PendingCalls: three requests, two settling threads.  *)
EXTENDS PendingCalls, TLC

CONSTANTS a, b, c, t1, t2

ThreeIds == {a, b, c}
TwoThreads == {t1, t2}
OkOrErr == {"ok", "err"}
=============================================================================
