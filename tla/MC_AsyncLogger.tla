---------------------------- MODULE MC_AsyncLogger ----------------------------
(* Small instances of AsyncLogger.                                           *)
EXTENDS AsyncLogger, TLC

CONSTANTS t1, t2

TwoThreads == {t1, t2}

Option(soft, batch, level) ==
  [queue_capacity |-> soft, max_batch_size |-> batch, min_level |-> level]

TwoAndOne == t1 :> 2 @@ t2 :> 1

DefaultOptions == Option(1, 2, 0)
OneOption == {Option(3, 0, 0)}   \* clamped to 2 and 1
=============================================================================
