--------------------------- MODULE SyncJobsProofs ---------------------------
(***************************************************************************)
(* Theorems about SyncJobs for any number of jobs and workers and any      *)
(* values of the limits and times.                                         *)
(***************************************************************************)
EXTENDS SyncJobs, TLAPS

-----------------------------------------------------------------------------
(* What the operations on a row return.                                    *)

\* LockJob returns a row.
LEMMA LockJobInRows ==
  ASSUME NEW row \in Rows
  PROVE  LockJob(row) \in Rows
<1>1. row.attempts \in 0..AttemptsCap /\ AttemptsCap \in Nat
  BY LimitsAssumption DEF Rows, AttemptsCap
<1>2. LockJob(row).attempts \in 0..AttemptsCap
  BY <1>1 DEF LockJob, Rows
<1>3. 0 \in 0..StaleAfter
  BY TimesAssumption
<1>4. QED
  BY <1>2, <1>3 DEF Rows, LockJob, Statuses

\* MarkSynced returns a row.
LEMMA MarkSyncedInRows ==
  ASSUME NEW row \in Rows
  PROVE  MarkSynced(row) \in Rows
BY DEF Rows, MarkSynced, Statuses

\* MarkFailed returns a row, for any status and any delay it may be given.
LEMMA MarkFailedInRows ==
  ASSUME NEW row \in Rows, NEW status \in Statuses, NEW delay \in 0..MaxRetryDelay
  PROVE  MarkFailed(row, status, delay) \in Rows
<1>1. delay \in 0..Longest /\ 0 \in 0..RecoveryWindow
  BY TimesAssumption DEF Longest
<1>2. QED
  BY <1>1 DEF Rows, MarkFailed

\* The admin command's UPDATE returns a row.
LEMMA ReplayedRowInRows ==
  ASSUME NEW row \in Rows
  PROVE  ReplayedRow(row) \in Rows
<1>1. 0 \in 0..AttemptsCap /\ 0 \in 0..Longest
  BY LimitsAssumption, TimesAssumption DEF AttemptsCap, Longest
<1>2. QED
  BY <1>1 DEF Rows, ReplayedRow, Statuses

\* An age that is capped stays below its cap.
LEMMA OlderInRange ==
  ASSUME NEW cap \in Nat, NEW age \in 0..cap \cup {Null}
  PROVE  Older(age, cap) \in 0..cap \cup {Null}
BY DEF Older

\* A row is a row one tick later.
LEMMA AgedRowInRows ==
  ASSUME NEW row \in Rows
  PROVE  AgedRow(row) \in Rows
<1>1. Remaining(row.dueIn, 1) \in 0..Longest
  BY TimesAssumption DEF Rows, Remaining, Longest
<1>2. Older(row.lockAge, StaleAfter) \in 0..StaleAfter \cup {Null}
  BY OlderInRange, TimesAssumption DEF Rows
<1>3. Older(row.waitAge, RecoveryWindow) \in 0..RecoveryWindow \cup {Null}
  BY OlderInRange, TimesAssumption DEF Rows
<1>4. QED
  BY <1>1, <1>2, <1>3 DEF Rows, AgedRow

\* What is left of a retry delay is within the cap of the delays.
LEMMA RemainingInRange ==
  ASSUME NEW delay \in 0..MaxRetryDelay, NEW age \in Nat
  PROVE  Remaining(delay, age) \in 0..MaxRetryDelay
BY TimesAssumption DEF Remaining

\* What a tick leaves of a delivery.
LEMMA AgedDeliveryFields ==
  ASSUME NEW d \in Deliveries
  PROVE  /\ AgedDelivery(d).pc = d.pc
         /\ AgedDelivery(d).job = d.job
         /\ AgedDelivery(d).attempts = d.attempts
         /\ AgedDelivery(d).reply = d.reply
         /\ d.pc # "idle" => /\ AgedDelivery(d).hold = d.hold + 1
                            /\ AgedDelivery(d).waitAge = Older(d.waitAge, RecoveryWindow)
BY DEF AgedDelivery, Deliveries

\* A busy worker one tick later: the guard of Tick bounds its hold.
LEMMA AgedDeliveryInDeliveries ==
  ASSUME NEW d \in Deliveries, d.age <= d.hold, d.pc # "idle" => d.hold < MaxHold
  PROVE  /\ AgedDelivery(d) \in Deliveries
         /\ AgedDelivery(d).age <= AgedDelivery(d).hold
         /\ AgedDelivery(d).pc = d.pc
         /\ AgedDelivery(d).job = d.job
<1>1. CASE d.pc = "idle"
  BY <1>1 DEF AgedDelivery
<1>2. CASE d.pc # "idle"
  <2>1. d.hold + 1 \in 0..MaxHold /\ d.age + 1 \in 0..MaxHold
    BY <1>2, TimesAssumption DEF Deliveries
  <2>2. Older(d.waitAge, RecoveryWindow) \in 0..RecoveryWindow \cup {Null}
    BY OlderInRange, TimesAssumption DEF Deliveries
  <2>3. AgedDelivery(d) \in Deliveries
    BY <1>2, <2>1, <2>2 DEF AgedDelivery, Deliveries
  <2>4. AgedDelivery(d).age <= AgedDelivery(d).hold
    BY <1>2, TimesAssumption DEF AgedDelivery, Deliveries
  <2>5. QED
    BY <1>2, <2>3, <2>4 DEF AgedDelivery, Deliveries
<1>3. QED
  BY <1>1, <1>2

\* The state of a worker between two deliveries.
LEMMA FreeInDeliveries ==
  /\ Free \in Deliveries
  /\ Free.pc = "idle"
  /\ Free.age <= Free.hold
<1>1. 0 \in 0..AttemptsCap /\ 0 \in 0..MaxHold
  BY LimitsAssumption, TimesAssumption DEF AttemptsCap
<1>2. QED
  BY <1>1 DEF Free, Deliveries

-----------------------------------------------------------------------------
(* Type correctness.                                                       *)

\* A worker that ends its delivery, or dies, keeps the workers well typed.
LEMMA FreedWorker ==
  ASSUME WorkersOK, NEW w \in Workers, worker' = [worker EXCEPT ![w] = Free]
  PROVE  WorkersOK'
BY FreeInDeliveries DEF WorkersOK, Busy

\* One step of a worker preserves the types.
LEMMA WorkerStepTyped ==
  ASSUME TypeOK, NEW w \in Workers, WorkerStep(w)
  PROVE  TypeOK'
<1> USE DEF TypeOK
<1>1. ASSUME NEW j \in Jobs, ClaimDue(w, j) PROVE TypeOK'
  <2>1. LockJob(job[j]) \in Rows
    BY LockJobInRows
  <2>2. job' \in [Jobs -> Rows]
    BY <1>1, <2>1 DEF ClaimDue
  <2>3. WorkersOK'
    <3>1. 0 \in 0..MaxHold
      BY TimesAssumption
    <3>2. [Free EXCEPT !.pc = "claimed", !.job = j, !.attempts = LockJob(job[j]).attempts,
                       !.waitAge = job[j].waitAge] \in Deliveries
      BY <2>1, FreeInDeliveries DEF Deliveries, Rows
    <3>3. QED
      BY <1>1, <3>1, <3>2 DEF ClaimDue, WorkersOK, Busy, Free
  <2>4. QED
    BY <1>1, <2>2, <2>3 DEF ClaimDue
<1>2. ASSUME NEW j \in Jobs, ClaimLost(w, j) PROVE TypeOK'
  BY <1>2, LockJobInRows DEF ClaimLost, WorkersOK, Busy
<1>3. CASE GiveUp(w)
  <2>1. worker[w].job \in Jobs
    BY <1>3 DEF GiveUp, WorkersOK, Busy
  <2>2. MarkFailed(job[worker[w].job], "DEAD", 0) \in Rows
    BY <2>1, MarkFailedInRows, TimesAssumption DEF Statuses
  <2>3. QED
    BY <1>3, <2>2, FreedWorker DEF GiveUp
<1>4. CASE GiveUpFails(w)
  BY <1>4, FreedWorker DEF GiveUpFails
<1>5. CASE Dispatch(w)
  <2>1. worker[w].job \in Jobs
    BY <1>5 DEF Dispatch, WorkersOK, Busy
  <2>2. WorkersOK'
    <3>1. [worker[w] EXCEPT !.pc = "posting", !.waitAge = Null] \in Deliveries
      <4>1. worker[w] \in Deliveries
        BY DEF WorkersOK
      <4>2. QED
        BY <4>1 DEF Deliveries
    <3>2. QED
      BY <1>5, <2>1, <3>1 DEF Dispatch, WorkersOK, Busy, Deliveries
  <2>3. QED
    BY <1>5, <2>1, <2>2 DEF Dispatch
<1>6. ASSUME NEW reply \in Failures \cup {"accepted"}, Reply(w, reply) PROVE TypeOK'
  <2>1. WorkersOK'
    <3>1. [worker[w] EXCEPT !.pc = "replied", !.reply = reply] \in Deliveries
      <4>1. worker[w] \in Deliveries
        BY DEF WorkersOK
      <4>2. QED
        BY <4>1 DEF Deliveries
    <3>2. QED
      BY <1>6, <3>1 DEF Reply, WorkersOK, Busy, Deliveries
  <2>2. QED
    BY <1>6, <2>1 DEF Reply
<1>7. CASE HandleDeliveryFailure(w)
  <2>1. /\ worker[w].job \in Jobs
        /\ worker[w].age \in Nat
    BY <1>7, TimesAssumption DEF HandleDeliveryFailure, WorkersOK, Busy, Deliveries
  <2>2. FailureState(worker[w].attempts, worker[w].reply) \in Statuses
    BY DEF FailureState, Statuses
  <2>3. ASSUME NEW delay \in IF FailureState(worker[w].attempts, worker[w].reply) = "DEAD"
                             THEN {0} ELSE RetryDelays(worker[w].reply, worker[w].attempts)
        PROVE  MarkFailed(job[worker[w].job],
                          FailureState(worker[w].attempts, worker[w].reply),
                          Remaining(delay, worker[w].age)) \in Rows
    <3>1. delay \in 0..MaxRetryDelay
      BY <2>3, TimesAssumption DEF RetryDelays
    <3>2. QED
      BY <2>1, <2>2, <3>1, RemainingInRange, MarkFailedInRows
  <2>4. job' \in [Jobs -> Rows]
    <3>1. PICK delay \in IF FailureState(worker[w].attempts, worker[w].reply) = "DEAD"
                         THEN {0} ELSE RetryDelays(worker[w].reply, worker[w].attempts) :
            job' = [job EXCEPT ![worker[w].job] =
                      MarkFailed(job[worker[w].job],
                                 FailureState(worker[w].attempts, worker[w].reply),
                                 Remaining(delay, worker[w].age))]
      BY <1>7, Zenon DEF HandleDeliveryFailure
    <3>2. MarkFailed(job[worker[w].job], FailureState(worker[w].attempts, worker[w].reply),
                     Remaining(delay, worker[w].age)) \in Rows
      BY <2>3, Zenon
    <3>3. QED
      BY <3>1, <3>2
  <2>5. QED
    BY <1>7, <2>4, FreedWorker DEF HandleDeliveryFailure
<1>8. CASE HandleDeliveryFailureFails(w)
  BY <1>8, FreedWorker DEF HandleDeliveryFailureFails
<1>9. CASE PersistDeliverySuccess(w)
  <2>1. worker[w].job \in Jobs
    BY <1>9 DEF PersistDeliverySuccess, WorkersOK, Busy
  <2>2. QED
    BY <1>9, <2>1, MarkSyncedInRows, FreedWorker DEF PersistDeliverySuccess
<1>10. CASE PersistFails(w)
  <2>1. WorkersOK'
    BY <1>10 DEF PersistFails, WorkersOK, Busy, Deliveries
  <2>2. QED
    BY <1>10, <2>1 DEF PersistFails
<1>11. CASE PersistAckLost(w)
  <2>1. worker[w].job \in Jobs
    BY <1>11 DEF PersistAckLost, WorkersOK, Busy
  <2>2. WorkersOK'
    BY <1>11 DEF PersistAckLost, WorkersOK, Busy, Deliveries
  <2>3. QED
    BY <1>11, <2>1, <2>2, MarkSyncedInRows DEF PersistAckLost
<1>12. CASE MarkUnsaved(w)
  <2>1. /\ worker[w].job \in Jobs
        /\ worker[w].age \in Nat
    BY <1>12, TimesAssumption DEF MarkUnsaved, WorkersOK, Busy, Deliveries
  <2>2. UnsavedState(worker[w].attempts) \in Statuses
    BY DEF UnsavedState, Statuses
  <2>3. ASSUME NEW delay \in RetryDelays("none", worker[w].attempts)
        PROVE  MarkFailed(job[worker[w].job], UnsavedState(worker[w].attempts),
                          Remaining(delay, worker[w].age)) \in Rows
    <3>1. delay \in 0..MaxRetryDelay
      BY <2>3 DEF RetryDelays
    <3>2. QED
      BY <2>1, <2>2, <3>1, RemainingInRange, MarkFailedInRows
  <2>4. job' \in [Jobs -> Rows]
    BY <1>12, <2>3 DEF MarkUnsaved
  <2>5. QED
    BY <1>12, <2>4, FreedWorker DEF MarkUnsaved
<1>13. CASE MarkUnsavedFails(w)
  BY <1>13, FreedWorker DEF MarkUnsavedFails
<1>14. CASE Start(w) \/ Stop(w) \/ Exit(w)
  BY <1>14 DEF Start, Stop, Exit, WorkersOK, Busy
<1>15. CASE Crash(w)
  BY <1>15, FreedWorker DEF Crash
<1>16. QED
  BY <1>1, <1>2, <1>3, <1>4, <1>5, <1>6, <1>7, <1>8, <1>9, <1>10, <1>11, <1>12, <1>13,
     <1>14, <1>15 DEF WorkerStep

\* Every step preserves the types.
LEMMA StepTyped == TypeOK /\ [Next]_vars => TypeOK'
<1> SUFFICES ASSUME TypeOK, [Next]_vars PROVE TypeOK'
  OBVIOUS
<1> USE DEF TypeOK
<1>1. ASSUME NEW w \in Workers, WorkerStep(w) PROVE TypeOK'
  BY <1>1, WorkerStepTyped
<1>2. ASSUME NEW j \in Jobs, Schedule(j) PROVE TypeOK'
  <2>1. ASSUME NEW delay \in 0..HardwareDelay
        PROVE  [NoRow EXCEPT !.status = "PENDING", !.dueIn = delay] \in Rows
    <3>1. delay \in 0..Longest /\ 0 \in 0..AttemptsCap
      BY TimesAssumption, LimitsAssumption DEF Longest, AttemptsCap
    <3>2. QED
      BY <3>1 DEF NoRow, Rows, Statuses
  <2>2. QED
    BY <1>2, <2>1, Zenon DEF Schedule, WorkersOK, Busy
<1>3. ASSUME NEW j \in Jobs, SapAccepts(j) PROVE TypeOK'
  BY <1>3 DEF SapAccepts, WorkersOK, Busy
<1>4. ASSUME NEW j \in Jobs, Replay(j) PROVE TypeOK'
  BY <1>4, ReplayedRowInRows DEF Replay, WorkersOK, Busy
<1>5. CASE Tick
  <2>1. job' \in [Jobs -> Rows]
    BY <1>5, AgedRowInRows DEF Tick
  <2>2. WorkersOK'
    <3>1. ASSUME NEW w \in Workers
          PROVE  /\ AgedDelivery(worker[w]) \in Deliveries
                 /\ AgedDelivery(worker[w]).age <= AgedDelivery(worker[w]).hold
                 /\ AgedDelivery(worker[w]).pc = worker[w].pc
                 /\ AgedDelivery(worker[w]).job = worker[w].job
      BY <1>5, AgedDeliveryInDeliveries DEF Tick, WorkersOK, Busy
    <3>2. QED
      BY <1>5, <3>1 DEF Tick, WorkersOK, Busy
  <2>3. QED
    BY <1>5, <2>1, <2>2 DEF Tick
<1>6. CASE UNCHANGED vars
  BY <1>6 DEF vars, WorkersOK, Busy
<1>7. QED
  BY <1>1, <1>2, <1>3, <1>4, <1>5, <1>6 DEF Next

LEMMA InitTyped == Init => TypeOK
<1> SUFFICES ASSUME Init PROVE TypeOK
  OBVIOUS
<1>1. NoRow \in Rows
  <2>1. 0 \in 0..Longest /\ 0 \in 0..AttemptsCap
    BY TimesAssumption, LimitsAssumption DEF Longest, AttemptsCap
  <2>2. QED
    BY <2>1 DEF NoRow, Rows, Statuses
<1>2. QED
  BY <1>1, FreeInDeliveries DEF Init, TypeOK, WorkersOK, Busy

\* The tables and the workers' state keep their types in every behaviour:
\* no row gets a status, a due time, an attempt count or a lock that the code
\* cannot write, and a delivery never outlasts MaxHold.
THEOREM TypeCorrect == Spec => []TypeOK
BY InitTyped, StepTyped, PTL DEF Spec

-----------------------------------------------------------------------------
(* SYNCED is never a lie.  This needs no bound on deliveries: the proof    *)
(* holds for workers that stall beyond the lease and overlap.              *)

\* What makes SyncedIsTrue inductive: a worker has a success in hand only for
\* an order that SAP has taken, whoever else works on the job.
SyncInv ==
  /\ SyncedIsTrue
  /\ \A w \in Workers : worker[w].reply = "accepted" => worker[w].job \in accepted

\* Steps that sync no row and bring no success.
LEMMA NothingSynced ==
  ASSUME SyncInv, UNCHANGED sapIds, accepted \subseteq accepted',
         \A j \in Jobs : job'[j].status = "SYNCED" => job[j].status = "SYNCED",
         \A w \in Workers : worker'[w].reply = "accepted" =>
           worker[w].reply = "accepted" /\ worker'[w].job = worker[w].job
  PROVE  SyncInv'
<1>1. SyncedIsTrue'
  BY DEF SyncInv, SyncedIsTrue
<1>2. QED
  BY <1>1 DEF SyncInv

\* MarkFailed never writes SYNCED.
LEMMA MarkFailedStatus ==
  ASSUME NEW row \in Rows, NEW status, NEW delay
  PROVE  MarkFailed(row, status, delay).status = status
BY DEF MarkFailed, Rows

\* A row that MarkSynced was applied to, for an order that SAP has taken.
LEMMA RowSynced ==
  ASSUME TypeOK, SyncInv, NEW w \in Workers,
         worker[w].pc = "replied", worker[w].reply = "accepted",
         job' = [job EXCEPT ![worker[w].job] = MarkSynced(job[worker[w].job])],
         sapIds' = sapIds \cup {worker[w].job},
         UNCHANGED accepted,
         \A v \in Workers : worker'[v].reply = "accepted" =>
           worker[v].reply = "accepted" /\ worker'[v].job = worker[v].job
  PROVE  SyncInv'
<1>1. worker[w].job \in Jobs /\ worker[w].job \in accepted
  BY DEF SyncInv, TypeOK, WorkersOK, Busy
<1>2. \A j \in Jobs : j # worker[w].job => job'[j] = job[j]
  BY <1>1 DEF TypeOK
<1>3. SyncedIsTrue'
  BY <1>1, <1>2 DEF SyncInv, SyncedIsTrue
<1>4. QED
  BY <1>3 DEF SyncInv

\* One step of a worker keeps SYNCED true.
LEMMA WorkerStepKeepsSynced ==
  ASSUME TypeOK, SyncInv, NEW w \in Workers, WorkerStep(w)
  PROVE  SyncInv'
<1> USE DEF TypeOK
<1>1. ASSUME NEW j \in Jobs, ClaimDue(w, j) PROVE SyncInv'
  <2>1. LockJob(job[j]).status = "PROCESSING"
    BY DEF LockJob, Rows
  <2>2. QED
    BY <1>1, <2>1, NothingSynced DEF ClaimDue, Free, WorkersOK
<1>2. ASSUME NEW j \in Jobs, ClaimLost(w, j) PROVE SyncInv'
  <2>1. LockJob(job[j]).status = "PROCESSING"
    BY DEF LockJob, Rows
  <2>2. QED
    BY <1>2, <2>1, NothingSynced DEF ClaimLost
<1>3. CASE GiveUp(w)
  <2>1. worker[w].job \in Jobs
    BY <1>3 DEF GiveUp, WorkersOK, Busy
  <2>2. QED
    BY <1>3, <2>1, NothingSynced, MarkFailedStatus DEF GiveUp, Free, WorkersOK
<1>4. CASE GiveUpFails(w)
  BY <1>4, NothingSynced DEF GiveUpFails, Free, WorkersOK
<1>5. CASE Dispatch(w)
  BY <1>5, NothingSynced DEF Dispatch, WorkersOK, Deliveries
<1>6. ASSUME NEW reply \in Failures \cup {"accepted"}, Reply(w, reply) PROVE SyncInv'
  <2>1. /\ UNCHANGED <<job, sapIds, accepted>>
        /\ worker'[w].reply = reply
        /\ worker'[w].job = worker[w].job
        /\ \A v \in Workers : v # w => worker'[v] = worker[v]
    BY <1>6 DEF Reply, WorkersOK, Deliveries
  <2>2. reply = "accepted" => worker[w].job \in accepted
    BY <1>6 DEF Reply, MayReply
  <2>3. QED
    BY <2>1, <2>2 DEF SyncInv, SyncedIsTrue
<1>7. CASE HandleDeliveryFailure(w)
  <2>1. worker[w].job \in Jobs
    BY <1>7 DEF HandleDeliveryFailure, WorkersOK, Busy
  <2>2. FailureState(worker[w].attempts, worker[w].reply) # "SYNCED"
    BY DEF FailureState
  <2>3. QED
    BY <1>7, <2>1, <2>2, NothingSynced, MarkFailedStatus
    DEF HandleDeliveryFailure, Free, WorkersOK
<1>8. CASE HandleDeliveryFailureFails(w)
  BY <1>8, NothingSynced DEF HandleDeliveryFailureFails, Free, WorkersOK
<1>9. CASE PersistDeliverySuccess(w)
  BY <1>9, RowSynced DEF PersistDeliverySuccess, Free, WorkersOK
<1>10. CASE PersistFails(w)
  BY <1>10, NothingSynced DEF PersistFails, WorkersOK, Deliveries
<1>11. CASE PersistAckLost(w)
  BY <1>11, RowSynced DEF PersistAckLost, WorkersOK, Deliveries
<1>12. CASE MarkUnsaved(w)
  <2>1. worker[w].job \in Jobs
    BY <1>12 DEF MarkUnsaved, WorkersOK, Busy
  <2>2. UnsavedState(worker[w].attempts) # "SYNCED"
    BY DEF UnsavedState
  <2>3. QED
    BY <1>12, <2>1, <2>2, NothingSynced, MarkFailedStatus DEF MarkUnsaved, Free, WorkersOK
<1>13. CASE MarkUnsavedFails(w)
  BY <1>13, NothingSynced DEF MarkUnsavedFails, Free, WorkersOK
<1>14. CASE Start(w) \/ Stop(w) \/ Exit(w)
  BY <1>14, NothingSynced DEF Start, Stop, Exit
<1>15. CASE Crash(w)
  BY <1>15, NothingSynced DEF Crash, Free, WorkersOK
<1>16. QED
  BY <1>1, <1>2, <1>3, <1>4, <1>5, <1>6, <1>7, <1>8, <1>9, <1>10, <1>11, <1>12, <1>13,
     <1>14, <1>15 DEF WorkerStep

\* Every step keeps SYNCED true.
LEMMA StepKeepsSynced ==
  ASSUME TypeOK, SyncInv, [Next]_vars
  PROVE  SyncInv'
<1> USE DEF TypeOK
<1>1. ASSUME NEW w \in Workers, WorkerStep(w) PROVE SyncInv'
  BY <1>1, WorkerStepKeepsSynced
<1>2. ASSUME NEW j \in Jobs, Schedule(j) PROVE SyncInv'
  BY <1>2, NothingSynced DEF Schedule, NoRow
<1>3. ASSUME NEW j \in Jobs, SapAccepts(j) PROVE SyncInv'
  BY <1>3, NothingSynced DEF SapAccepts
<1>4. ASSUME NEW j \in Jobs, Replay(j) PROVE SyncInv'
  <2>1. ReplayedRow(job[j]).status = "PENDING"
    BY DEF ReplayedRow, Rows
  <2>2. QED
    BY <1>4, <2>1, NothingSynced DEF Replay
<1>5. CASE Tick
  <2>1. \A j \in Jobs : job'[j].status = job[j].status
    BY <1>5 DEF Tick, AgedRow, Rows
  <2>2. \A w \in Workers : worker'[w].reply = worker[w].reply /\ worker'[w].job = worker[w].job
    BY <1>5, AgedDeliveryFields DEF Tick, WorkersOK
  <2>3. QED
    BY <1>5, <2>1, <2>2, NothingSynced DEF Tick
<1>6. CASE UNCHANGED vars
  BY <1>6, NothingSynced DEF vars
<1>7. QED
  BY <1>1, <1>2, <1>3, <1>4, <1>5, <1>6 DEF Next

\* A row says SYNCED, and an order carries a SAP id, only if SAP has taken the
\* order: MarkSynced follows an acceptance even when the worker's lease was
\* taken over, its process was stopped, or its answers were lost.
THEOREM SyncedSafe == Spec => []SyncedIsTrue
<1>1. Init => SyncInv
  BY DEF Init, SyncInv, SyncedIsTrue, NoRow, Free
<1>2. TypeOK /\ SyncInv /\ [Next]_vars => SyncInv'
  BY StepKeepsSynced
<1>3. SyncInv => SyncedIsTrue
  BY DEF SyncInv
<1>4. QED
  BY <1>1, <1>2, <1>3, TypeCorrect, PTL DEF Spec
=============================================================================
