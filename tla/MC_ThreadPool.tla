---------------------------- MODULE MC_ThreadPool ----------------------------
(* Small instances of ThreadPool.                                            *)
EXTENDS ThreadPool, TLC

CONSTANTS s1, s2, t1, t2, t3

TwoSubmitters == {s1, s2}
ThreeTasks == {t1, t2, t3}
=============================================================================
