---------------------------- MODULE MC_RpcClient ----------------------------
(* Small instances of RpcClient.                                           *)
EXTENDS RpcClient, TLC

CONSTANTS i1, i2, c1

TwoThreads == [o \in {i1, i2, c1} |-> IF o = i2 THEN "second" ELSE "main"]
OneThreadNoClose == [o \in {i1, i2} |-> "main"]
=============================================================================
