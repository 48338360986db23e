------------------------------- MODULE Outbox -------------------------------
(***************************************************************************)
(* What the delivery of an outbox promises, whoever carries it out: a job  *)
(* is open until it is settled, SAP is called only for an open job and at  *)
(* most MaxTotalAttempts times, a settled job stays settled, and only an   *)
(* operator opens a dead job again, with a fresh budget.  Where the answer *)
(* to the write that settled a job can be lost, its writer may take it for *)
(* unwritten and undo it.  SyncJobs is shown to implement this.            *)
(***************************************************************************)
EXTENDS Naturals

CONSTANTS
  Jobs,
  MaxTotalAttempts,
  AnswersLost         \* whether a write may succeed and report an error

VARIABLES
  phase,   \* absent, open, synced or dead
  calls    \* SAP calls since the job was opened

vars == <<phase, calls>>

Init ==
  /\ phase = [j \in Jobs |-> "absent"]
  /\ calls = [j \in Jobs |-> 0]

Moves(j, from, to) ==
  /\ phase[j] = from
  /\ phase' = [phase EXCEPT ![j] = to]

Open(j) == Moves(j, "absent", "open") /\ UNCHANGED calls

Call(j) ==
  /\ phase[j] = "open"
  /\ calls[j] < MaxTotalAttempts
  /\ calls' = [calls EXCEPT ![j] = calls[j] + 1]
  /\ UNCHANGED phase

\* A job is synced on the answer to a call of its own.
Sync(j) == Moves(j, "open", "synced") /\ calls[j] > 0 /\ UNCHANGED calls

Die(j) == Moves(j, "open", "dead") /\ UNCHANGED calls

Reopen(j) == Moves(j, "dead", "open") /\ calls' = [calls EXCEPT ![j] = 0]

\* The writer of a synced job believes that it failed.
Undo(j) ==
  /\ AnswersLost
  /\ Moves(j, "synced", "open") \/ Moves(j, "synced", "dead")
  /\ UNCHANGED calls

Next ==
  \E j \in Jobs :
    Open(j) \/ Call(j) \/ Sync(j) \/ Die(j) \/ Reopen(j) \/ Undo(j)

Spec == Init /\ [][Next]_vars
=============================================================================
