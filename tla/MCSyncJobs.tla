----------------------------- MODULE MCSyncJobs -----------------------------
(* Instances of SyncJobs for TLC: the workers, the jobs and what the       *)
(* environment may do to them in each run.                                 *)
EXTENDS SyncJobs

CONSTANTS w1, w2, j1

TwoWorkers == {w1, w2}
OneWorker == {w1}
OneJob == {j1}

OnlyStops == {"stop"}
NoDisturbances == {}
=============================================================================
