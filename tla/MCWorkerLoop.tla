---------------------------- MODULE MCWorkerLoop ----------------------------
(* Instances of WorkerLoop for TLC.                                        *)
EXTENDS WorkerLoop

CONSTANTS j1, j2
=============================================================================
