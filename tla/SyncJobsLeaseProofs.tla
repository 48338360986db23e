------------------------ MODULE SyncJobsLeaseProofs -------------------------
(***************************************************************************)
(* The lease, the attempt budget, what a step of SyncJobs may never do,    *)
(* and that SyncJobs implements the Outbox.                                *)
(*                                                                         *)
(* The lease is safe when every delivery is shorter than it: MaxHold <     *)
(* StaleAfter, that is, the SAP timeout and the writes around the call end *)
(* within the two minutes after which a claim is stale.  The code does not *)
(* enforce this, so it is a hypothesis of the theorems that need it and    *)
(* not an assumption of the specification.                                 *)
(***************************************************************************)
EXTENDS SyncJobsProofs

\* What makes OneClaimant inductive: a busy worker's row is still PROCESSING
\* under its own claim, and is as old as the worker's hold.
LeaseInv == HolderOwnsRow /\ OneClaimant

\* What makes AttemptBudget inductive: every SAP call was paid for by a claim,
\* and a worker that has not called yet has one claim to spend.
BudgetInv ==
  /\ AttemptBudget
  /\ \A j \in Jobs : calls[j] <= job[j].attempts
  /\ \A j \in Jobs : job[j].status = "NOT_SCHEDULED" => calls[j] = 0
  /\ \A w \in Workers : worker[w].pc = "claimed" => calls[worker[w].job] < worker[w].attempts

-----------------------------------------------------------------------------
\* No claim query can return a row that a worker is busy with.
LEMMA HeldNotClaimable ==
  ASSUME MaxHold < StaleAfter, TypeOK, HolderOwnsRow, NEW w \in Workers, Busy(w)
  PROVE  ~Claimable(job[worker[w].job])
<1>1. worker[w].hold \in 0..MaxHold
  BY DEF TypeOK, WorkersOK, Deliveries
<1>2. worker[w].hold # StaleAfter
  BY <1>1, TimesAssumption
<1>3. QED
  BY <1>2 DEF HolderOwnsRow, Claimable

\* A delivery that ends, and writes to no row but its own, leaves the other
\* leases alone.
LEMMA EndedDelivery ==
  ASSUME TypeOK, LeaseInv, NEW w \in Workers,
         worker' = [worker EXCEPT ![w] = Free],
         \A j \in Jobs : job'[j] = job[j] \/ (Busy(w) /\ j = worker[w].job)
  PROVE  LeaseInv'
<1>1. \A v \in Workers : Busy(v)' => v # w /\ Busy(v) /\ worker'[v] = worker[v]
  BY DEF TypeOK, WorkersOK, Busy, Free
<1>2. \A v \in Workers : Busy(v)' => job'[worker[v].job] = job[worker[v].job]
  BY <1>1 DEF LeaseInv, OneClaimant, TypeOK, WorkersOK
<1>3. HolderOwnsRow'
  BY <1>1, <1>2 DEF LeaseInv, HolderOwnsRow
<1>4. OneClaimant'
  BY <1>1 DEF LeaseInv, OneClaimant
<1>5. QED
  BY <1>3, <1>4 DEF LeaseInv

\* A worker that goes on with its delivery keeps its lease.
LEMMA ContinuedDelivery ==
  ASSUME TypeOK, LeaseInv, NEW w \in Workers, Busy(w), Busy(w)',
         worker[w].pc # "unsaved",
         \A v \in Workers : v # w => worker'[v] = worker[v],
         worker'[w].job = worker[w].job,
         worker'[w].attempts = worker[w].attempts,
         worker'[w].hold = worker[w].hold,
         UNCHANGED job
  PROVE  LeaseInv'
<1>1. HolderOwnsRow'
  BY DEF LeaseInv, HolderOwnsRow, Busy
<1>2. OneClaimant'
  BY DEF LeaseInv, OneClaimant, Busy
<1>3. QED
  BY <1>1, <1>2 DEF LeaseInv

\* A row that no worker is busy with may change.
LEMMA FreeRowChanges ==
  ASSUME TypeOK, LeaseInv, NEW j \in Jobs,
         \A w \in Workers : Busy(w) => worker[w].job # j,
         \A i \in Jobs : i # j => job'[i] = job[i],
         UNCHANGED worker
  PROVE  LeaseInv'
<1>1. HolderOwnsRow'
  BY DEF LeaseInv, HolderOwnsRow, Busy, TypeOK, WorkersOK
<1>2. OneClaimant'
  BY DEF LeaseInv, OneClaimant, Busy
<1>3. QED
  BY <1>1, <1>2 DEF LeaseInv

\* One step of a worker preserves the leases.
LEMMA WorkerStepKeepsLeases ==
  ASSUME MaxHold < StaleAfter, TypeOK, LeaseInv, NEW w \in Workers, WorkerStep(w)
  PROVE  LeaseInv'
<1>1. ASSUME NEW j \in Jobs, ClaimDue(w, j) PROVE LeaseInv'
  <2>1. \A v \in Workers : Busy(v) => worker[v].job # j
    BY <1>1, HeldNotClaimable DEF ClaimDue, LeaseInv
  <2>2. /\ worker'[w].pc = "claimed"
        /\ worker'[w].job = j
        /\ worker'[w].attempts = LockJob(job[j]).attempts
        /\ worker'[w].hold = 0
        /\ \A v \in Workers : v # w => worker'[v] = worker[v]
    BY <1>1 DEF ClaimDue, TypeOK, WorkersOK, Free
  <2>3. /\ job'[j] = LockJob(job[j])
        /\ \A i \in Jobs : i # j => job'[i] = job[i]
    BY <1>1 DEF ClaimDue, TypeOK
  <2>4. LockJob(job[j]).status = "PROCESSING" /\ LockJob(job[j]).lockAge = 0
    BY DEF LockJob, TypeOK, Rows
  <2>5. HolderOwnsRow'
    BY <2>1, <2>2, <2>3, <2>4 DEF LeaseInv, HolderOwnsRow, Busy, TypeOK, WorkersOK
  <2>6. OneClaimant'
    BY <2>1, <2>2 DEF LeaseInv, OneClaimant, Busy
  <2>7. QED
    BY <2>5, <2>6 DEF LeaseInv
<1>2. ASSUME NEW j \in Jobs, ClaimLost(w, j) PROVE LeaseInv'
  <2>1. \A v \in Workers : Busy(v) => worker[v].job # j
    BY <1>2, HeldNotClaimable DEF ClaimLost, LeaseInv
  <2>2. QED
    BY <1>2, <2>1, FreeRowChanges DEF ClaimLost, TypeOK
<1>3. CASE GiveUp(w)
  BY <1>3, EndedDelivery DEF GiveUp, Busy, TypeOK
<1>4. CASE GiveUpFails(w)
  BY <1>4, EndedDelivery DEF GiveUpFails
<1>5. CASE Dispatch(w)
  BY <1>5, ContinuedDelivery DEF Dispatch, Busy, TypeOK, WorkersOK, Deliveries
<1>6. ASSUME NEW reply \in Failures \cup {"accepted"}, Reply(w, reply) PROVE LeaseInv'
  BY <1>6, ContinuedDelivery DEF Reply, Busy, TypeOK, WorkersOK, Deliveries
<1>7. CASE HandleDeliveryFailure(w)
  BY <1>7, EndedDelivery DEF HandleDeliveryFailure, Busy, TypeOK
<1>8. CASE HandleDeliveryFailureFails(w)
  BY <1>8, EndedDelivery DEF HandleDeliveryFailureFails
<1>9. CASE PersistDeliverySuccess(w)
  BY <1>9, EndedDelivery DEF PersistDeliverySuccess, Busy, TypeOK
<1>10. CASE PersistFails(w)
  BY <1>10, ContinuedDelivery DEF PersistFails, Busy, TypeOK, WorkersOK, Deliveries
<1>11. CASE PersistAckLost(w)
  <2>1. worker[w].job \in Jobs /\ Busy(w)
    BY <1>11 DEF PersistAckLost, TypeOK, WorkersOK, Busy
  <2>2. /\ worker'[w].pc = "unsaved"
        /\ worker'[w].job = worker[w].job
        /\ worker'[w].attempts = worker[w].attempts
        /\ \A v \in Workers : v # w => worker'[v] = worker[v]
    BY <1>11 DEF PersistAckLost, TypeOK, WorkersOK, Deliveries
  <2>3. /\ job'[worker[w].job].status = "SYNCED"
        /\ job'[worker[w].job].attempts = job[worker[w].job].attempts
        /\ \A i \in Jobs : i # worker[w].job => job'[i] = job[i]
    BY <1>11, <2>1 DEF PersistAckLost, MarkSynced, TypeOK, Rows
  <2>4. HolderOwnsRow'
    BY <2>1, <2>2, <2>3
    DEF LeaseInv, HolderOwnsRow, OneClaimant, Busy, TypeOK, WorkersOK
  <2>5. OneClaimant'
    BY <2>1, <2>2 DEF LeaseInv, OneClaimant, Busy
  <2>6. QED
    BY <2>4, <2>5 DEF LeaseInv
<1>12. CASE MarkUnsaved(w)
  BY <1>12, EndedDelivery DEF MarkUnsaved, Busy, TypeOK
<1>13. CASE MarkUnsavedFails(w)
  BY <1>13, EndedDelivery DEF MarkUnsavedFails
<1>14. CASE Start(w) \/ Stop(w) \/ Exit(w)
  BY <1>14 DEF Start, Stop, Exit, LeaseInv, HolderOwnsRow, OneClaimant, Busy
<1>15. CASE Crash(w)
  BY <1>15, EndedDelivery DEF Crash
<1>16. QED
  BY <1>1, <1>2, <1>3, <1>4, <1>5, <1>6, <1>7, <1>8, <1>9, <1>10, <1>11, <1>12, <1>13,
     <1>14, <1>15 DEF WorkerStep

\* A row and a worker that holds it grow older together.
LEMMA TickKeepsLeases ==
  ASSUME MaxHold < StaleAfter, TypeOK, LeaseInv, Tick
  PROVE  LeaseInv'
<1>1. ASSUME NEW w \in Workers
      PROVE  /\ Busy(w)' <=> Busy(w)
             /\ worker'[w].pc = worker[w].pc
             /\ worker'[w].job = worker[w].job
             /\ worker'[w].attempts = worker[w].attempts
             /\ Busy(w) => worker'[w].hold = worker[w].hold + 1
  BY AgedDeliveryFields DEF Tick, TypeOK, WorkersOK, Busy
<1>2. ASSUME NEW j \in Jobs
      PROVE  /\ job'[j].status = job[j].status
             /\ job'[j].attempts = job[j].attempts
             /\ job'[j].lockAge = Older(job[j].lockAge, StaleAfter)
  BY DEF Tick, AgedRow, TypeOK, Rows
<1>3. ASSUME NEW w \in Workers, Busy(w), job[worker[w].job].lockAge = worker[w].hold
      PROVE  job'[worker[w].job].lockAge = worker[w].hold + 1
  <2>1. worker[w].job \in Jobs
    BY <1>3 DEF TypeOK, WorkersOK
  <2>2. worker[w].hold \in Nat /\ worker[w].hold # StaleAfter /\ worker[w].hold # Null
    BY TimesAssumption, EnvironmentAssumption DEF TypeOK, WorkersOK, Deliveries
  <2>3. QED
    BY <1>2, <1>3, <2>1, <2>2 DEF Older
<1>4. HolderOwnsRow'
  BY <1>1, <1>2, <1>3 DEF LeaseInv, HolderOwnsRow, TypeOK, WorkersOK
<1>5. OneClaimant'
  BY <1>1 DEF LeaseInv, OneClaimant
<1>6. QED
  BY <1>4, <1>5 DEF LeaseInv

\* Every step preserves the leases.
LEMMA StepKeepsLeases ==
  ASSUME MaxHold < StaleAfter, TypeOK, LeaseInv, [Next]_vars
  PROVE  LeaseInv'
<1>1. ASSUME NEW w \in Workers, WorkerStep(w) PROVE LeaseInv'
  BY <1>1, WorkerStepKeepsLeases
<1>2. ASSUME NEW j \in Jobs, Schedule(j) PROVE LeaseInv'
  <2>1. \A w \in Workers : Busy(w) => worker[w].job # j
    BY <1>2 DEF Schedule, LeaseInv, HolderOwnsRow
  <2>2. QED
    BY <1>2, <2>1, FreeRowChanges DEF Schedule, TypeOK
<1>3. ASSUME NEW j \in Jobs, SapAccepts(j) PROVE LeaseInv'
  BY <1>3 DEF SapAccepts, LeaseInv, HolderOwnsRow, OneClaimant, Busy
<1>4. ASSUME NEW j \in Jobs, Replay(j) PROVE LeaseInv'
  <2>1. \A w \in Workers : Busy(w) => worker[w].job # j
    BY <1>4 DEF Replay, LeaseInv, HolderOwnsRow
  <2>2. QED
    BY <1>4, <2>1, FreeRowChanges DEF Replay, TypeOK
<1>5. CASE Tick
  BY <1>5, TickKeepsLeases
<1>6. CASE UNCHANGED vars
  BY <1>6 DEF vars, LeaseInv, HolderOwnsRow, OneClaimant, Busy
<1>7. QED
  BY <1>1, <1>2, <1>3, <1>4, <1>5, <1>6 DEF Next

\* The leases hold in every state.
LEMMA LeasesKept ==
  ASSUME MaxHold < StaleAfter
  PROVE  Spec => []LeaseInv
<1>1. Init => LeaseInv
  BY DEF Init, LeaseInv, HolderOwnsRow, OneClaimant, Busy, Free
<1>2. TypeOK /\ LeaseInv /\ [Next]_vars => LeaseInv'
  BY StepKeepsLeases
<1>3. QED
  BY <1>1, <1>2, TypeCorrect, PTL DEF Spec

\* The lease that ClaimDue takes is exclusive, whatever crashes, stops and
\* lost answers do to it, as long as a delivery is shorter than the lease.
THEOREM ClaimExclusive ==
  ASSUME MaxHold < StaleAfter
  PROVE  Spec => []OneClaimant
<1>1. LeaseInv => OneClaimant
  BY DEF LeaseInv
<1>2. QED
  BY <1>1, LeasesKept, PTL

\* The writes that end a delivery land on its own claim, although MarkSynced
\* and MarkFailed do not check the lease, as long as a delivery is shorter
\* than the lease.
THEOREM LeaseSafe ==
  ASSUME MaxHold < StaleAfter
  PROVE  Spec => []HolderOwnsRow
<1>1. LeaseInv => HolderOwnsRow
  BY DEF LeaseInv
<1>2. QED
  BY <1>1, LeasesKept, PTL

-----------------------------------------------------------------------------
(* The attempt budget.                                                     *)

\* Steps that make no call, take no claim and lower no attempt count.
LEMMA NothingSpent ==
  ASSUME TypeOK, BudgetInv, UNCHANGED calls,
         \A j \in Jobs : /\ job'[j].attempts = job[j].attempts
                         /\ job'[j].status = "NOT_SCHEDULED" => job[j].status = "NOT_SCHEDULED",
         \A w \in Workers : worker'[w].pc = "claimed" =>
           /\ worker[w].pc = "claimed"
           /\ worker'[w].job = worker[w].job
           /\ worker'[w].attempts = worker[w].attempts
  PROVE  BudgetInv'
<1>1. AttemptBudget'
  BY DEF BudgetInv, AttemptBudget
<1>2. \A j \in Jobs : calls'[j] <= job'[j].attempts
  BY DEF BudgetInv
<1>3. \A j \in Jobs : job'[j].status = "NOT_SCHEDULED" => calls'[j] = 0
  BY DEF BudgetInv
<1>4. \A w \in Workers : worker'[w].pc = "claimed" => calls'[worker'[w].job] < worker'[w].attempts
  BY DEF BudgetInv
<1>5. QED
  BY <1>1, <1>2, <1>3, <1>4 DEF BudgetInv

\* A claim pays for one more call.
LEMMA LockJobPays ==
  ASSUME NEW row \in Rows, NEW n \in Nat, n <= row.attempts, n <= MaxTotalAttempts
  PROVE  n < LockJob(row).attempts
BY LimitsAssumption DEF LockJob, Rows, AttemptsCap

\* One step of a worker keeps within the budget.
LEMMA WorkerStepKeepsBudget ==
  ASSUME TypeOK, LeaseInv, BudgetInv, NEW w \in Workers, WorkerStep(w)
  PROVE  BudgetInv'
<1>1. ASSUME NEW j \in Jobs, ClaimDue(w, j) \/ ClaimLost(w, j) PROVE BudgetInv'
  <2>1. /\ job' = [job EXCEPT ![j] = LockJob(job[j])]
        /\ UNCHANGED calls
    BY <1>1 DEF ClaimDue, ClaimLost
  <2>2. calls[j] < LockJob(job[j]).attempts
    BY LockJobPays DEF BudgetInv, AttemptBudget, TypeOK
  <2>3. LockJob(job[j]).status = "PROCESSING"
    BY DEF LockJob, TypeOK, Rows
  <2>4. \A i \in Jobs : /\ calls'[i] <= job'[i].attempts
                        /\ job'[i].status = "NOT_SCHEDULED" => calls'[i] = 0
    <3>1. LockJob(job[j]).attempts \in 0..AttemptsCap
      BY LockJobInRows DEF TypeOK, Rows
    <3>2. calls[j] <= LockJob(job[j]).attempts
      BY <2>2, <3>1 DEF TypeOK
    <3>3. QED
      BY <2>1, <2>3, <3>2 DEF BudgetInv, TypeOK
  <2>5. \A v \in Workers : \/ worker'[v] = worker[v]
                           \/ /\ worker'[v].job = j
                              /\ worker'[v].attempts = LockJob(job[j]).attempts
    <3>1. CASE ClaimDue(w, j)
      BY <3>1 DEF ClaimDue, Free, TypeOK, WorkersOK
    <3>2. CASE ClaimLost(w, j)
      BY <3>2 DEF ClaimLost
    <3>3. QED
      BY <1>1, <3>1, <3>2
  <2>6. \A v \in Workers : worker'[v].pc = "claimed" => calls'[worker'[v].job] < worker'[v].attempts
    BY <2>1, <2>2, <2>5 DEF BudgetInv
  <2>7. QED
    BY <2>1, <2>4, <2>6 DEF BudgetInv, AttemptBudget
<1>2. CASE GiveUp(w)
  BY <1>2, NothingSpent DEF GiveUp, MarkFailed, Free, TypeOK, WorkersOK, Rows
<1>3. CASE GiveUpFails(w)
  BY <1>3, NothingSpent DEF GiveUpFails, Free, TypeOK, WorkersOK
<1>4. CASE Dispatch(w)
  <2>1. worker[w].job \in Jobs /\ Busy(w)
    BY <1>4 DEF Dispatch, TypeOK, WorkersOK, Busy
  <2> DEFINE j == worker[w].job
  <2>2. /\ calls'[j] = calls[j] + 1
        /\ \A i \in Jobs : i # j => calls'[i] = calls[i]
        /\ UNCHANGED job
    BY <1>4, <2>1 DEF Dispatch, TypeOK
  <2>3. /\ calls[j] < worker[w].attempts
        /\ worker[w].attempts = job[j].attempts
        /\ job[j].status # "NOT_SCHEDULED"
    BY <1>4, <2>1 DEF Dispatch, BudgetInv, LeaseInv, HolderOwnsRow
  <2>4. worker[w].attempts \in Nat /\ worker[w].attempts <= MaxTotalAttempts
    BY <1>4, LimitsAssumption
    DEF Dispatch, MustGiveUp, TypeOK, WorkersOK, Deliveries, AttemptsCap
  <2>5. /\ calls'[j] <= MaxTotalAttempts
        /\ calls'[j] <= job'[j].attempts
    BY <2>1, <2>2, <2>3, <2>4, LimitsAssumption DEF TypeOK
  <2>6. \A v \in Workers : worker'[v].pc = "claimed" =>
          v # w /\ worker'[v] = worker[v] /\ worker[v].job \in Jobs \ {j}
    BY <1>4, <2>1 DEF Dispatch, TypeOK, WorkersOK, Busy, LeaseInv, OneClaimant, Deliveries
  <2>7. QED
    BY <2>2, <2>3, <2>5, <2>6 DEF BudgetInv, AttemptBudget
<1>5. ASSUME NEW reply \in Failures \cup {"accepted"}, Reply(w, reply) PROVE BudgetInv'
  BY <1>5, NothingSpent DEF Reply, TypeOK, WorkersOK, Deliveries
<1>6. CASE HandleDeliveryFailure(w)
  BY <1>6, NothingSpent
  DEF HandleDeliveryFailure, MarkFailed, FailureState, Free, TypeOK, WorkersOK, Rows
<1>7. CASE HandleDeliveryFailureFails(w)
  BY <1>7, NothingSpent DEF HandleDeliveryFailureFails, Free, TypeOK, WorkersOK
<1>8. CASE PersistDeliverySuccess(w)
  BY <1>8, NothingSpent DEF PersistDeliverySuccess, MarkSynced, Free, TypeOK, WorkersOK, Rows
<1>9. CASE PersistFails(w)
  BY <1>9, NothingSpent DEF PersistFails, TypeOK, WorkersOK, Deliveries
<1>10. CASE PersistAckLost(w)
  BY <1>10, NothingSpent DEF PersistAckLost, MarkSynced, TypeOK, WorkersOK, Deliveries, Rows
<1>11. CASE MarkUnsaved(w)
  BY <1>11, NothingSpent
  DEF MarkUnsaved, MarkFailed, UnsavedState, Free, TypeOK, WorkersOK, Rows
<1>12. CASE MarkUnsavedFails(w)
  BY <1>12, NothingSpent DEF MarkUnsavedFails, Free, TypeOK, WorkersOK
<1>13. CASE Start(w) \/ Stop(w) \/ Exit(w)
  BY <1>13, NothingSpent DEF Start, Stop, Exit
<1>14. CASE Crash(w)
  BY <1>14, NothingSpent DEF Crash, Free, TypeOK, WorkersOK
<1>15. QED
  BY <1>1, <1>2, <1>3, <1>4, <1>5, <1>6, <1>7, <1>8, <1>9, <1>10, <1>11, <1>12, <1>13,
     <1>14 DEF WorkerStep

\* Every step keeps within the budget.
LEMMA StepKeepsBudget ==
  ASSUME TypeOK, LeaseInv, BudgetInv, [Next]_vars
  PROVE  BudgetInv'
<1>1. ASSUME NEW w \in Workers, WorkerStep(w) PROVE BudgetInv'
  BY <1>1, WorkerStepKeepsBudget
<1>2. ASSUME NEW j \in Jobs, Schedule(j) PROVE BudgetInv'
  <2>1. calls[j] = 0 /\ UNCHANGED <<calls, worker>>
    BY <1>2 DEF Schedule, BudgetInv
  <2>2. /\ job'[j].attempts = 0 /\ job'[j].status = "PENDING"
        /\ \A i \in Jobs : i # j => job'[i] = job[i]
    BY <1>2 DEF Schedule, NoRow, TypeOK
  <2>3. QED
    BY <2>1, <2>2 DEF BudgetInv, AttemptBudget
<1>3. ASSUME NEW j \in Jobs, SapAccepts(j) PROVE BudgetInv'
  BY <1>3, NothingSpent DEF SapAccepts
<1>4. ASSUME NEW j \in Jobs, Replay(j) PROVE BudgetInv'
  <2>1. /\ calls'[j] = 0
        /\ \A i \in Jobs : i # j => calls'[i] = calls[i] /\ job'[i] = job[i]
        /\ UNCHANGED worker
    BY <1>4 DEF Replay, TypeOK
  <2>2. job'[j].attempts = 0 /\ job'[j].status = "PENDING"
    BY <1>4 DEF Replay, ReplayedRow, TypeOK, Rows
  <2>3. \A w \in Workers : worker[w].pc = "claimed" => worker[w].job \in Jobs \ {j}
    BY <1>4 DEF Replay, LeaseInv, HolderOwnsRow, Busy, TypeOK, WorkersOK
  <2>4. QED
    BY <2>1, <2>2, <2>3, LimitsAssumption DEF BudgetInv, AttemptBudget
<1>5. CASE Tick
  <2>1. \A j \in Jobs : job'[j].attempts = job[j].attempts /\ job'[j].status = job[j].status
    BY <1>5 DEF Tick, AgedRow, TypeOK, Rows
  <2>2. \A w \in Workers : /\ worker'[w].pc = worker[w].pc
                           /\ worker'[w].job = worker[w].job
                           /\ worker'[w].attempts = worker[w].attempts
    BY <1>5, AgedDeliveryFields DEF Tick, TypeOK, WorkersOK
  <2>3. QED
    BY <1>5, <2>1, <2>2, NothingSpent DEF Tick
<1>6. CASE UNCHANGED vars
  BY <1>6, NothingSpent DEF vars
<1>7. QED
  BY <1>1, <1>2, <1>3, <1>4, <1>5, <1>6 DEF Next

\* SAP_MAX_ATTEMPTS is a hard limit on the calls made for a job, under any
\* mixture of crashes, shutdowns, failed writes and lost answers, as long as
\* a delivery is shorter than the lease.
THEOREM BudgetSafe ==
  ASSUME MaxHold < StaleAfter
  PROVE  Spec => []AttemptBudget
<1>1. Init => BudgetInv
  BY LimitsAssumption DEF Init, BudgetInv, AttemptBudget, NoRow, Free
<1>2. TypeOK /\ LeaseInv /\ BudgetInv /\ [Next]_vars => BudgetInv'
  BY StepKeepsBudget
<1>3. BudgetInv => AttemptBudget
  BY DEF BudgetInv
<1>4. QED
  BY <1>1, <1>2, <1>3, TypeCorrect, LeasesKept, PTL DEF Spec


-----------------------------------------------------------------------------
(* The recovery window.  No bound on deliveries is needed: workers that    *)
(* stall beyond the lease and write over each other do not restart it.     *)

\* An age does not shrink with time.
LEMMA OlderGrows ==
  ASSUME NEW cap \in Nat, NEW age \in 0..cap
  PROVE  Older(age, cap) >= age
BY DEF Older

\* No step makes a row wait anew.
LEMMA StepKeepsWindow ==
  ASSUME TypeOK, [Next]_vars, NEW j \in Jobs, job[j].waitAge # Null, job'[j].waitAge # Null
  PROVE  job'[j].waitAge >= job[j].waitAge
<1>1. job[j] \in Rows /\ job[j].waitAge \in 0..RecoveryWindow /\ job[j].waitAge >= job[j].waitAge
  BY TimesAssumption DEF TypeOK, Rows
<1>2. ASSUME NEW w \in Workers, WorkerStep(w) PROVE job'[j].waitAge \in {job[j].waitAge, Null}
  <2>1. ASSUME NEW i \in Jobs, ClaimDue(w, i) \/ ClaimLost(w, i)
        PROVE  job'[j].waitAge = job[j].waitAge
    <3>1. job' = [job EXCEPT ![i] = LockJob(job[i])]
      BY <2>1 DEF ClaimDue, ClaimLost
    <3>2. LockJob(job[i]).waitAge = job[i].waitAge
      BY DEF LockJob, TypeOK, Rows
    <3>3. QED
      BY <3>1, <3>2 DEF TypeOK
  <2>2. CASE GiveUp(w)
    BY <2>2, <1>1 DEF GiveUp, MarkFailed, TypeOK, Rows
  <2>3. CASE HandleDeliveryFailure(w)
    BY <2>3, <1>1 DEF HandleDeliveryFailure, MarkFailed, TypeOK, Rows
  <2>4. CASE PersistDeliverySuccess(w) \/ PersistAckLost(w)
    <3>1. job' = [job EXCEPT ![worker[w].job] = MarkSynced(job[worker[w].job])]
      BY <2>4 DEF PersistDeliverySuccess, PersistAckLost
    <3>2. QED
      BY <3>1, <1>1 DEF MarkSynced, TypeOK, Rows
  <2>5. CASE MarkUnsaved(w)
    BY <2>5, <1>1 DEF MarkUnsaved, MarkFailed, TypeOK, Rows
  <2>6. CASE UNCHANGED job
    BY <2>6
  <2>7. QED
    BY <1>2, <2>1, <2>2, <2>3, <2>4, <2>5, <2>6
    DEF WorkerStep, GiveUpFails, Dispatch, Reply, HandleDeliveryFailureFails, PersistFails,
        MarkUnsavedFails, Start, Stop, Exit, Crash
<1>3. ASSUME NEW i \in Jobs, Schedule(i) \/ SapAccepts(i) \/ Replay(i)
      PROVE  job'[j].waitAge \in {job[j].waitAge, Null}
  <2>1. CASE Schedule(i)
    BY <1>1, <2>1 DEF Schedule, NoRow, TypeOK
  <2>2. CASE SapAccepts(i)
    BY <2>2 DEF SapAccepts
  <2>3. CASE Replay(i)
    BY <1>1, <2>3 DEF Replay, ReplayedRow, TypeOK, Rows
  <2>4. QED
    BY <1>3, <2>1, <2>2, <2>3
<1>4. CASE Tick
  <2>1. job'[j].waitAge = Older(job[j].waitAge, RecoveryWindow)
    BY <1>1, <1>4 DEF Tick, AgedRow, Rows
  <2>2. QED
    BY <1>1, <2>1, OlderGrows, TimesAssumption
<1>5. CASE UNCHANGED vars
  BY <1>1, <1>5 DEF vars
<1>6. QED
  BY <1>1, <1>2, <1>3, <1>4, <1>5 DEF Next

\* The recovery window is measured from the moment the job started to wait,
\* for any number of workers and any length of a delivery: MarkFailed keeps
\* waiting_since when the job goes on waiting and no claim touches it.
THEOREM WindowSafe == Spec => WindowNeverRestarts
<1>1. TypeOK /\ [Next]_vars =>
        [\A j \in Jobs : job[j].waitAge # Null /\ job'[j].waitAge # Null =>
           job'[j].waitAge >= job[j].waitAge]_vars
  BY StepKeepsWindow
<1>2. QED
  BY <1>1, TypeCorrect, PTL DEF Spec, WindowNeverRestarts

-----------------------------------------------------------------------------
(* Deliveries and the rows they were claimed from.                         *)

\* The copy of the row that deliver decides from is not stale, an answer was
\* preceded by a call, a row is SYNCED before its writer knows only after a
\* lost answer, and a cancelled call belongs to a cancelled worker.
DeliveryOK(w) ==
  LET d == worker[w] IN
  /\ d.pc = "claimed" => job[d.job].waitAge = d.waitAge
  /\ d.pc \in {"posting", "replied", "unsaved"} => calls[d.job] > 0
  /\ d.pc = "unsaved" /\ job[d.job].status = "SYNCED" => "ackloss" \in Disturbances
  /\ d.reply # "none" => d.pc \in {"replied", "unsaved"}
  /\ d.reply = "cancelled" => ctx[w] = "cancelled"

\* What DispatchAllowed, DeadJustified and the refinement need besides the
\* leases and the budget.
DeliveryInv ==
  /\ \A j \in Jobs : job[j].status = "PROCESSING" => job[j].dueIn = 0
  /\ \A w \in Workers : DeliveryOK(w)

\* A delivery does not notice what happens to other rows and workers.
LEMMA DeliveryFrame ==
  ASSUME NEW v \in Workers, DeliveryOK(v), worker'[v] = worker[v], ctx'[v] = ctx[v],
         Busy(v) => /\ job'[worker[v].job] = job[worker[v].job]
                    /\ calls'[worker[v].job] = calls[worker[v].job]
  PROVE  DeliveryOK(v)'
BY DEF DeliveryOK, Busy

\* A step of a worker that changes at most the row of its own delivery.
LEMMA OwnRowOnly ==
  ASSUME TypeOK, LeaseInv, DeliveryInv, NEW w \in Workers,
         \A v \in Workers \ {w} : worker'[v] = worker[v] /\ ctx'[v] = ctx[v],
         \A j \in Jobs : \/ job'[j] = job[j] /\ calls'[j] = calls[j]
                         \/ Busy(w) /\ j = worker[w].job,
         \A j \in Jobs : job'[j] = job[j] \/ job'[j].status # "PROCESSING",
         DeliveryOK(w)'
  PROVE  DeliveryInv'
<1>1. ASSUME NEW v \in Workers \ {w} PROVE DeliveryOK(v)'
  <2>1. Busy(v) => /\ job'[worker[v].job] = job[worker[v].job]
                   /\ calls'[worker[v].job] = calls[worker[v].job]
    BY DEF LeaseInv, OneClaimant, TypeOK, WorkersOK
  <2>2. QED
    BY <2>1, DeliveryFrame DEF DeliveryInv
<1>2. QED
  BY <1>1 DEF DeliveryInv

\* A worker between two deliveries.
LEMMA FreeDelivery ==
  ASSUME NEW w \in Workers, worker'[w] = Free
  PROVE  DeliveryOK(w)'
BY DEF DeliveryOK, Free

\* A delivery that ends with at most one write, to its own row.
LEMMA DeliveryEnds ==
  ASSUME TypeOK, LeaseInv, DeliveryInv, NEW w \in Workers, Busy(w),
         worker' = [worker EXCEPT ![w] = Free], UNCHANGED <<ctx, calls>>,
         \A j \in Jobs : job'[j] = job[j] \/ (j = worker[w].job /\ job'[j].status # "PROCESSING")
  PROVE  DeliveryInv'
<1>1. worker'[w] = Free /\ \A v \in Workers \ {w} : worker'[v] = worker[v]
  BY DEF TypeOK, WorkersOK
<1>2. QED
  BY <1>1, FreeDelivery, OwnRowOnly

\* One step of a worker keeps the deliveries and their rows in agreement.
LEMMA WorkerStepKeepsDeliveries ==
  ASSUME MaxHold < StaleAfter, TypeOK, LeaseInv, DeliveryInv, NEW w \in Workers, WorkerStep(w)
  PROVE  DeliveryInv'
<1>1. ASSUME NEW j \in Jobs, ClaimDue(w, j) \/ ClaimLost(w, j) PROVE DeliveryInv'
  <2>1. /\ job' = [job EXCEPT ![j] = LockJob(job[j])]
        /\ UNCHANGED <<calls, ctx>>
        /\ Claimable(job[j])
    BY <1>1 DEF ClaimDue, ClaimLost
  <2>2. LockJob(job[j]).dueIn = job[j].dueIn /\ LockJob(job[j]).waitAge = job[j].waitAge
    BY DEF LockJob, TypeOK, Rows
  <2>3. job[j].dueIn = 0
    BY <2>1 DEF Claimable, DeliveryInv
  <2>4. \A i \in Jobs : job'[i].status = "PROCESSING" => job'[i].dueIn = 0
    BY <2>1, <2>2, <2>3 DEF TypeOK, DeliveryInv
  <2>5. ASSUME NEW v \in Workers, worker'[v] = worker[v] PROVE DeliveryOK(v)'
    <3>1. Busy(v) => worker[v].job \in Jobs \ {j}
      BY <2>1, HeldNotClaimable DEF LeaseInv, TypeOK, WorkersOK
    <3>2. QED
      BY <2>1, <2>5, <3>1, DeliveryFrame DEF DeliveryInv, TypeOK
  <2>6. CASE ClaimDue(w, j)
    <3>1. /\ worker'[w].pc = "claimed"
          /\ worker'[w].job = j
          /\ worker'[w].waitAge = job[j].waitAge
          /\ worker'[w].reply = "none"
          /\ \A v \in Workers : v # w => worker'[v] = worker[v]
      BY <2>6 DEF ClaimDue, TypeOK, WorkersOK, Free
    <3>2. job'[j].waitAge = job[j].waitAge
      BY <2>1, <2>2 DEF TypeOK
    <3>3. DeliveryOK(w)'
      BY <3>1, <3>2 DEF DeliveryOK
    <3>4. QED
      BY <2>4, <2>5, <3>1, <3>3 DEF DeliveryInv
  <2>7. CASE ClaimLost(w, j)
    BY <2>4, <2>5, <2>7 DEF DeliveryInv, ClaimLost
  <2>8. QED
    BY <1>1, <2>6, <2>7
<1>2. CASE GiveUp(w)
  <2>1. \A j \in Jobs : MarkFailed(job[j], "DEAD", 0).status = "DEAD"
    BY MarkFailedStatus DEF TypeOK
  <2>2. QED
    BY <1>2, <2>1, DeliveryEnds DEF GiveUp, Busy, TypeOK
<1>3. CASE GiveUpFails(w)
  BY <1>3, DeliveryEnds DEF GiveUpFails, Busy
<1>4. CASE Dispatch(w)
  <2>1. worker[w].job \in Jobs /\ Busy(w)
    BY <1>4 DEF Dispatch, TypeOK, WorkersOK, Busy
  <2>2. /\ worker'[w].pc = "posting"
        /\ worker'[w].job = worker[w].job
        /\ worker'[w].reply = worker[w].reply
        /\ \A v \in Workers \ {w} : worker'[v] = worker[v]
        /\ UNCHANGED <<job, ctx>>
    BY <1>4 DEF Dispatch, TypeOK, WorkersOK, Deliveries
  <2>3. /\ calls'[worker[w].job] > 0
        /\ \A j \in Jobs : j # worker[w].job => calls'[j] = calls[j]
    BY <1>4, <2>1 DEF Dispatch, TypeOK
  <2>4. worker[w].reply = "none"
    BY <1>4 DEF Dispatch, DeliveryInv, DeliveryOK
  <2>5. DeliveryOK(w)'
    BY <2>2, <2>3, <2>4 DEF DeliveryOK
  <2>6. QED
    BY <2>1, <2>2, <2>3, <2>5, OwnRowOnly
<1>5. ASSUME NEW reply \in Failures \cup {"accepted"}, Reply(w, reply) PROVE DeliveryInv'
  <2>1. /\ worker'[w].pc = "replied"
        /\ worker'[w].job = worker[w].job
        /\ worker'[w].reply = reply
        /\ \A v \in Workers \ {w} : worker'[v] = worker[v]
        /\ UNCHANGED <<job, ctx, calls>>
        /\ worker[w].pc = "posting"
    BY <1>5 DEF Reply, TypeOK, WorkersOK, Deliveries
  <2>2. reply = "cancelled" => ctx[w] = "cancelled"
    BY <1>5 DEF Reply, MayReply
  <2>3. DeliveryOK(w)'
    BY <2>1, <2>2 DEF DeliveryOK, DeliveryInv
  <2>4. QED
    BY <2>1, <2>3, OwnRowOnly
<1>6. CASE HandleDeliveryFailure(w)
  <2>1. FailureState(worker[w].attempts, worker[w].reply) # "PROCESSING"
    BY DEF FailureState
  <2>2. ASSUME NEW j \in Jobs
        PROVE  job'[j] = job[j] \/ (j = worker[w].job /\ job'[j].status # "PROCESSING")
    BY <1>6, <2>1, MarkFailedStatus DEF HandleDeliveryFailure, TypeOK
  <2>3. QED
    BY <1>6, <2>2, DeliveryEnds DEF HandleDeliveryFailure, Busy
<1>7. CASE HandleDeliveryFailureFails(w)
  BY <1>7, DeliveryEnds DEF HandleDeliveryFailureFails, Busy
<1>8. CASE PersistDeliverySuccess(w)
  <2>1. \A j \in Jobs : MarkSynced(job[j]).status = "SYNCED"
    BY DEF MarkSynced, TypeOK, Rows
  <2>2. QED
    BY <1>8, <2>1, DeliveryEnds DEF PersistDeliverySuccess, Busy, TypeOK
<1>9. CASE PersistFails(w)
  <2>1. /\ worker'[w].pc = "unsaved"
        /\ worker'[w].job = worker[w].job
        /\ worker'[w].reply = "accepted"
        /\ \A v \in Workers \ {w} : worker'[v] = worker[v]
        /\ UNCHANGED <<job, ctx, calls>>
        /\ worker[w].pc = "replied"
    BY <1>9 DEF PersistFails, TypeOK, WorkersOK, Deliveries
  <2>2. job[worker[w].job].status = "PROCESSING"
    BY <2>1 DEF LeaseInv, HolderOwnsRow, Busy
  <2>3. DeliveryOK(w)'
    BY <2>1, <2>2 DEF DeliveryOK, DeliveryInv
  <2>4. QED
    BY <2>1, <2>3, OwnRowOnly
<1>10. CASE PersistAckLost(w)
  <2>1. worker[w].job \in Jobs /\ Busy(w)
    BY <1>10 DEF PersistAckLost, TypeOK, WorkersOK, Busy
  <2>2. /\ worker'[w].pc = "unsaved"
        /\ worker'[w].job = worker[w].job
        /\ worker'[w].reply = "accepted"
        /\ \A v \in Workers \ {w} : worker'[v] = worker[v]
        /\ UNCHANGED <<ctx, calls>>
        /\ worker[w].pc = "replied"
        /\ "ackloss" \in Disturbances
    BY <1>10 DEF PersistAckLost, TypeOK, WorkersOK, Deliveries
  <2>3. /\ job'[worker[w].job].status = "SYNCED"
        /\ \A j \in Jobs : j # worker[w].job => job'[j] = job[j]
    BY <1>10, <2>1 DEF PersistAckLost, MarkSynced, TypeOK, Rows
  <2>4. DeliveryOK(w)'
    BY <2>2 DEF DeliveryOK, DeliveryInv
  <2>5. QED
    BY <2>1, <2>2, <2>3, <2>4, OwnRowOnly
<1>11. CASE MarkUnsaved(w)
  <2>1. UnsavedState(worker[w].attempts) # "PROCESSING"
    BY DEF UnsavedState
  <2>2. ASSUME NEW j \in Jobs
        PROVE  job'[j] = job[j] \/ (j = worker[w].job /\ job'[j].status # "PROCESSING")
    BY <1>11, <2>1, MarkFailedStatus DEF MarkUnsaved, TypeOK
  <2>3. QED
    BY <1>11, <2>2, DeliveryEnds DEF MarkUnsaved, Busy
<1>12. CASE MarkUnsavedFails(w)
  BY <1>12, DeliveryEnds DEF MarkUnsavedFails, Busy
<1>13. CASE Start(w) \/ Stop(w) \/ Exit(w)
  <2>1. /\ UNCHANGED <<job, worker, calls>>
        /\ \A v \in Workers \ {w} : ctx'[v] = ctx[v]
    BY <1>13 DEF Start, Stop, Exit, TypeOK
  <2>2. worker[w].reply # "cancelled"
    BY <1>13 DEF Start, Stop, Exit, Busy, DeliveryInv, DeliveryOK
  <2>3. DeliveryOK(w)'
    BY <2>1, <2>2 DEF DeliveryOK, DeliveryInv
  <2>4. QED
    BY <2>1, <2>3, OwnRowOnly
<1>14. CASE Crash(w)
  <2>1. /\ UNCHANGED <<job, calls>>
        /\ worker'[w] = Free
        /\ \A v \in Workers \ {w} : worker'[v] = worker[v] /\ ctx'[v] = ctx[v]
    BY <1>14 DEF Crash, TypeOK, WorkersOK
  <2>2. QED
    BY <2>1, FreeDelivery, OwnRowOnly
<1>15. QED
  BY <1>1, <1>2, <1>3, <1>4, <1>5, <1>6, <1>7, <1>8, <1>9, <1>10, <1>11, <1>12, <1>13,
     <1>14 DEF WorkerStep

\* Every step keeps the deliveries and their rows in agreement.
LEMMA StepKeepsDeliveries ==
  ASSUME MaxHold < StaleAfter, TypeOK, LeaseInv, DeliveryInv, [Next]_vars
  PROVE  DeliveryInv'
<1>1. ASSUME NEW w \in Workers, WorkerStep(w) PROVE DeliveryInv'
  BY <1>1, WorkerStepKeepsDeliveries
<1>2. ASSUME NEW j \in Jobs, Schedule(j) \/ Replay(j) PROVE DeliveryInv'
  <2>1. /\ job'[j].status # "PROCESSING"
        /\ \A i \in Jobs : i # j => job'[i] = job[i] /\ calls'[i] = calls[i]
        /\ UNCHANGED <<worker, ctx>>
    <3>1. CASE Schedule(j)
      BY <3>1 DEF Schedule, NoRow, TypeOK
    <3>2. CASE Replay(j)
      BY <3>2 DEF Replay, ReplayedRow, TypeOK, Rows
    <3>3. QED
      BY <1>2, <3>1, <3>2
  <2>2. \A w \in Workers : Busy(w) => worker[w].job \in Jobs \ {j}
    BY <1>2 DEF Schedule, Replay, LeaseInv, HolderOwnsRow, TypeOK, WorkersOK
  <2>3. \A w \in Workers : DeliveryOK(w)'
    BY <2>1, <2>2, DeliveryFrame DEF DeliveryInv
  <2>4. QED
    BY <2>1, <2>3 DEF DeliveryInv
<1>3. ASSUME NEW j \in Jobs, SapAccepts(j) PROVE DeliveryInv'
  BY <1>3 DEF SapAccepts, DeliveryInv, DeliveryOK
<1>4. CASE Tick
  <2>1. ASSUME NEW j \in Jobs
        PROVE  /\ job'[j].status = job[j].status
               /\ job'[j].waitAge = Older(job[j].waitAge, RecoveryWindow)
               /\ job[j].dueIn = 0 => job'[j].dueIn = 0
    <3>1. /\ job'[j].status = job[j].status
          /\ job'[j].waitAge = Older(job[j].waitAge, RecoveryWindow)
          /\ job'[j].dueIn = Remaining(job[j].dueIn, 1)
      BY <1>4 DEF Tick, AgedRow, TypeOK, Rows
    <3>2. Remaining(0, 1) = 0
      BY DEF Remaining
    <3>3. QED
      BY <3>1, <3>2
  <2>2. ASSUME NEW w \in Workers
        PROVE  /\ worker'[w].pc = worker[w].pc
               /\ worker'[w].job = worker[w].job
               /\ worker'[w].reply = worker[w].reply
               /\ Busy(w) => worker'[w].waitAge = Older(worker[w].waitAge, RecoveryWindow)
    BY <1>4, AgedDeliveryFields DEF Tick, TypeOK, WorkersOK, Busy
  <2>3. ASSUME NEW w \in Workers PROVE DeliveryOK(w)'
    <3>1. DeliveryOK(w) /\ UNCHANGED <<ctx, calls>>
      BY <1>4 DEF Tick, DeliveryInv
    <3>2. CASE Busy(w)
      <4>1. worker[w].job \in Jobs
        BY <3>2 DEF TypeOK, WorkersOK
      <4>2. QED
        BY <2>1, <2>2, <3>1, <3>2, <4>1 DEF DeliveryOK
    <3>3. CASE ~Busy(w)
      BY <2>2, <3>1, <3>3 DEF DeliveryOK, Busy
    <3>4. QED
      BY <3>2, <3>3
  <2>4. QED
    BY <2>1, <2>3 DEF DeliveryInv
<1>5. CASE UNCHANGED vars
  BY <1>5 DEF vars, DeliveryInv, DeliveryOK
<1>6. QED
  BY <1>1, <1>2, <1>3, <1>4, <1>5 DEF Next

\* Everything the promises rest on, in every state.
LEMMA Agreement ==
  ASSUME MaxHold < StaleAfter
  PROVE  Spec => [](TypeOK /\ LeaseInv /\ BudgetInv /\ DeliveryInv)
<1>1. Init => LeaseInv /\ BudgetInv /\ DeliveryInv
  BY LimitsAssumption
  DEF Init, LeaseInv, HolderOwnsRow, OneClaimant, BudgetInv, AttemptBudget, DeliveryInv,
      DeliveryOK, Busy, NoRow, Free
<1>2. TypeOK /\ LeaseInv /\ BudgetInv /\ DeliveryInv /\ [Next]_vars =>
        LeaseInv' /\ BudgetInv' /\ DeliveryInv'
  BY StepKeepsLeases, StepKeepsBudget, StepKeepsDeliveries
<1>3. QED
  BY <1>1, <1>2, TypeCorrect, PTL DEF Spec

-----------------------------------------------------------------------------
(* What a step may never do.                                               *)

\* Only Dispatch calls SAP, and the row of its job allows it at that moment.
LEMMA CallAllowed ==
  ASSUME TypeOK, LeaseInv, DeliveryInv, [Next]_vars,
         NEW j \in Jobs, calls'[j] > calls[j]
  PROVE  /\ job[j].status = "PROCESSING"
         /\ job[j].dueIn = 0
         /\ job[j].waitAge # RecoveryWindow
         /\ job[j].attempts <= MaxTotalAttempts
<1>1. calls[j] \in Nat /\ ~(calls[j] > calls[j]) /\ ~(0 > calls[j])
  BY DEF TypeOK
<1>2. ~UNCHANGED calls
  BY <1>1
<1>3. ASSUME NEW i \in Jobs PROVE ~Replay(i)
  BY <1>1 DEF Replay, TypeOK
<1>4. PICK w \in Workers : Dispatch(w)
  BY <1>2, <1>3
  DEF Next, WorkerStep, ClaimDue, ClaimLost, GiveUp, GiveUpFails, Reply, HandleDeliveryFailure,
      HandleDeliveryFailureFails, PersistDeliverySuccess, PersistFails, PersistAckLost,
      MarkUnsaved, MarkUnsavedFails, Start, Stop, Exit, Crash, Schedule, SapAccepts, Tick, vars
<1>5. worker[w].job = j /\ Busy(w)
  BY <1>1, <1>4 DEF Dispatch, Busy, TypeOK
<1>6. /\ job[j].status = "PROCESSING"
      /\ job[j].attempts = worker[w].attempts
  BY <1>4, <1>5 DEF Dispatch, LeaseInv, HolderOwnsRow
<1>7. job[j].waitAge = worker[w].waitAge /\ job[j].dueIn = 0
  BY <1>4, <1>5, <1>6 DEF Dispatch, DeliveryInv, DeliveryOK
<1>8. worker[w].attempts <= MaxTotalAttempts
  BY <1>4, LimitsAssumption
  DEF Dispatch, MustGiveUp, TypeOK, WorkersOK, Deliveries, AttemptsCap
<1>9. worker[w].waitAge # RecoveryWindow
  BY <1>4 DEF Dispatch, MustGiveUp, RecoveryWindowExpired
<1>10. QED
  BY <1>6, <1>7, <1>8, <1>9

\* deliver decides to call SAP from the copy of the row that ClaimDue
\* returned, and the row itself still allows it when the call is made: it is
\* claimed, due, within its attempts and its recovery window is open.
THEOREM DispatchSafe ==
  ASSUME MaxHold < StaleAfter
  PROVE  Spec => DispatchAllowed
<1>1. TypeOK /\ LeaseInv /\ BudgetInv /\ DeliveryInv /\ [Next]_vars =>
        [\A j \in Jobs : calls'[j] > calls[j] =>
           /\ job[j].status = "PROCESSING"
           /\ job[j].dueIn = 0
           /\ job[j].waitAge # RecoveryWindow
           /\ job[j].attempts <= MaxTotalAttempts]_vars
  BY CallAllowed
<1>2. QED
  BY <1>1, Agreement, PTL DEF Spec, DispatchAllowed

\* A row that turns DEAD was written by the worker that held it, which had a
\* reason to.
LEMMA DeathJustified ==
  ASSUME TypeOK, LeaseInv, DeliveryInv, [Next]_vars,
         NEW j \in Jobs, job[j].status # "DEAD", job'[j].status = "DEAD"
  PROVE  \/ job[j].attempts >= MaxTotalAttempts
         \/ job[j].waitAge = RecoveryWindow
         \/ \E w \in Workers : worker[w].job = j /\ worker[w].reply = "rejected"
<1> DEFINE Justified ==
      \/ job[j].attempts >= MaxTotalAttempts
      \/ job[j].waitAge = RecoveryWindow
      \/ \E w \in Workers : worker[w].job = j /\ worker[w].reply = "rejected"
<1>1. ASSUME NEW w \in Workers, WorkerStep(w) PROVE Justified
  <2>1. ASSUME NEW i \in Jobs PROVE ~ClaimDue(w, i) /\ ~ClaimLost(w, i)
    <3>1. LockJob(job[i]).status = "PROCESSING"
      BY DEF LockJob, TypeOK, Rows
    <3>2. QED
      BY <3>1 DEF ClaimDue, ClaimLost, TypeOK
  <2>2. CASE GiveUp(w)
    <3>1. worker[w].job = j /\ Busy(w)
      BY <2>2 DEF GiveUp, TypeOK, Busy
    <3>2. job[j].attempts = worker[w].attempts /\ job[j].waitAge = worker[w].waitAge
      BY <2>2, <3>1 DEF GiveUp, LeaseInv, HolderOwnsRow, DeliveryInv, DeliveryOK
    <3>3. worker[w].attempts > MaxTotalAttempts => worker[w].attempts >= MaxTotalAttempts
      BY LimitsAssumption DEF TypeOK, WorkersOK, Deliveries, AttemptsCap
    <3>4. QED
      BY <2>2, <3>2, <3>3 DEF GiveUp, MustGiveUp, RecoveryWindowExpired
  <2>3. CASE HandleDeliveryFailure(w)
    <3>1. worker[w].job = j /\ Busy(w)
      BY <2>3 DEF HandleDeliveryFailure, TypeOK, Busy
    <3>2. FailureState(worker[w].attempts, worker[w].reply) = "DEAD"
      BY <2>3, <3>1, MarkFailedStatus DEF HandleDeliveryFailure, TypeOK
    <3>3. job[j].attempts = worker[w].attempts
      BY <3>1 DEF LeaseInv, HolderOwnsRow
    <3>4. worker[w].reply \in {"transient", "throttled", "rejected"}
      BY <2>3 DEF HandleDeliveryFailure, Failures, CanWrite, DeliveryInv, DeliveryOK
    <3>5. QED
      BY <3>1, <3>2, <3>3, <3>4 DEF FailureState, IsRetryable
  <2>4. ~PersistDeliverySuccess(w) /\ ~PersistAckLost(w)
    <3>1. \A i \in Jobs : MarkSynced(job[i]).status = "SYNCED"
      BY DEF MarkSynced, TypeOK, Rows
    <3>2. QED
      BY <3>1 DEF PersistDeliverySuccess, PersistAckLost, TypeOK
  <2>5. CASE MarkUnsaved(w)
    <3>1. worker[w].job = j /\ Busy(w)
      BY <2>5 DEF MarkUnsaved, TypeOK, Busy
    <3>2. UnsavedState(worker[w].attempts) = "DEAD"
      BY <2>5, <3>1, MarkFailedStatus DEF MarkUnsaved, TypeOK
    <3>3. job[j].attempts = worker[w].attempts
      BY <3>1 DEF LeaseInv, HolderOwnsRow
    <3>4. QED
      BY <3>2, <3>3 DEF UnsavedState
  <2>6. ~UNCHANGED job
    OBVIOUS
  <2>7. QED
    BY <1>1, <2>1, <2>2, <2>3, <2>4, <2>5, <2>6
    DEF WorkerStep, GiveUpFails, Dispatch, Reply, HandleDeliveryFailureFails, PersistFails,
        MarkUnsavedFails, Start, Stop, Exit, Crash
<1>2. ASSUME NEW i \in Jobs PROVE ~Schedule(i) /\ ~SapAccepts(i) /\ ~Replay(i)
  <2>1. ~Schedule(i)
    BY DEF Schedule, NoRow, TypeOK
  <2>2. ~SapAccepts(i)
    BY DEF SapAccepts
  <2>3. ~Replay(i)
    BY DEF Replay, ReplayedRow, TypeOK, Rows
  <2>4. QED
    BY <2>1, <2>2, <2>3
<1>3. ~Tick
  <2>1. AgedRow(job[j]).status = job[j].status
    BY DEF AgedRow, TypeOK, Rows
  <2>2. QED
    BY <2>1 DEF Tick
<1>4. QED
  BY <1>1, <1>2, <1>3 DEF Next, vars

\* A job dies only because SAP refused it for good, its attempts are used up
\* or its recovery window is over: a cancelled call, a failed write and a
\* crash never kill it, since handleDeliveryFailure writes under the context
\* that the cancellation has closed.
THEOREM DeathSafe ==
  ASSUME MaxHold < StaleAfter
  PROVE  Spec => DeadJustified
<1>1. TypeOK /\ LeaseInv /\ BudgetInv /\ DeliveryInv /\ [Next]_vars =>
        [\A j \in Jobs : job[j].status # "DEAD" /\ job'[j].status = "DEAD" =>
           \/ job[j].attempts >= MaxTotalAttempts
           \/ job[j].waitAge = RecoveryWindow
           \/ \E w \in Workers : worker[w].job = j /\ worker[w].reply = "rejected"]_vars
  BY DeathJustified
<1>2. QED
  BY <1>1, Agreement, PTL DEF Spec, DeadJustified

-----------------------------------------------------------------------------
(* The refinement: every step of SyncJobs is a step of the Outbox or       *)
(* leaves its state alone.                                                 *)

\* The refinement mapping.
PhaseMap == [j \in Jobs |-> Phase(job[j].status)]

OpenStatuses == {"PENDING", "PROCESSING", "WAITING"}

\* The phase of every status of a row.
LEMMA PhaseOfStatus ==
  /\ Phase("NOT_SCHEDULED") = "absent"
  /\ \A status \in OpenStatuses : Phase(status) = "open"
  /\ Phase("SYNCED") = "synced"
  /\ Phase("DEAD") = "dead"
BY DEF Phase, OpenStatuses

\* A step that leaves every row in its phase and makes no call.
LEMMA PhasesKept ==
  ASSUME \A j \in Jobs : Phase(job'[j].status) = Phase(job[j].status), UNCHANGED calls
  PROVE  UNCHANGED Promise!vars
BY DEF Promise!vars

\* A step that changes one row changes the phase of that row.
LEMMA PhaseMoves ==
  ASSUME NEW j \in Jobs, \A i \in Jobs : i # j => job'[i] = job[i]
  PROVE  PhaseMap' = [PhaseMap EXCEPT ![j] = Phase(job'[j].status)]
BY DEF PhaseMap

\* A step of a worker that ends in MarkFailed: the job stays open or dies,
\* and a job that was synced already is opened by the writer that lost the
\* answer.
LEMMA FailureRefines ==
  ASSUME TypeOK, LeaseInv, DeliveryInv, NEW w \in Workers, Busy(w), UNCHANGED calls,
         \A i \in Jobs : i # worker[w].job => job'[i] = job[i],
         job'[worker[w].job].status \in {"PENDING", "WAITING", "DEAD"}
  PROVE  Promise!Next \/ UNCHANGED Promise!vars
<1> DEFINE j == worker[w].job
<1>1. j \in Jobs
  BY DEF TypeOK, WorkersOK
<1>2. PhaseMap' = [PhaseMap EXCEPT ![j] = Phase(job'[j].status)]
  BY <1>1, PhaseMoves
<1>3. Phase(job'[j].status) \in {"open", "dead"}
  BY PhaseOfStatus DEF OpenStatuses
<1>4. CASE job[j].status = "PROCESSING"
  <2>1. Phase(job[j].status) = "open"
    BY <1>4, PhaseOfStatus DEF OpenStatuses
  <2>2. CASE Phase(job'[j].status) = "open"
    BY <2>1, <2>2, PhasesKept
  <2>3. CASE Phase(job'[j].status) = "dead"
    <3>1. Promise!Die(j)
      BY <1>1, <1>2, <2>1, <2>3 DEF Promise!Die, Promise!Moves, PhaseMap
    <3>2. QED
      BY <1>1, <3>1 DEF Promise!Next
  <2>4. QED
    BY <1>3, <2>2, <2>3
<1>5. CASE job[j].status = "SYNCED" /\ worker[w].pc = "unsaved"
  <2>1. Phase(job[j].status) = "synced" /\ "ackloss" \in Disturbances
    BY <1>5, PhaseOfStatus DEF DeliveryInv, DeliveryOK
  <2>2. Promise!Undo(j)
    BY <1>1, <1>2, <1>3, <2>1 DEF Promise!Undo, Promise!Moves, PhaseMap
  <2>3. QED
    BY <1>1, <2>2 DEF Promise!Next
<1>6. QED
  BY <1>4, <1>5 DEF LeaseInv, HolderOwnsRow

\* A step of a worker that applies MarkSynced to a row it holds.
LEMMA SuccessRefines ==
  ASSUME TypeOK, LeaseInv, DeliveryInv, NEW w \in Workers, worker[w].pc = "replied",
         UNCHANGED calls,
         job' = [job EXCEPT ![worker[w].job] = MarkSynced(job[worker[w].job])]
  PROVE  Promise!Next
<1> DEFINE j == worker[w].job
<1>1. j \in Jobs /\ Busy(w)
  BY DEF TypeOK, WorkersOK, Busy
<1>2. /\ job'[j].status = "SYNCED"
      /\ \A i \in Jobs : i # j => job'[i] = job[i]
  BY <1>1 DEF MarkSynced, TypeOK, Rows
<1>3. PhaseMap' = [PhaseMap EXCEPT ![j] = "synced"]
  BY <1>1, <1>2, PhaseMoves, PhaseOfStatus
<1>4. Phase(job[j].status) = "open"
  BY <1>1, PhaseOfStatus DEF LeaseInv, HolderOwnsRow, OpenStatuses
<1>5. calls[j] > 0
  BY DEF DeliveryInv, DeliveryOK
<1>6. Promise!Sync(j)
  BY <1>1, <1>3, <1>4, <1>5 DEF Promise!Sync, Promise!Moves, PhaseMap
<1>7. QED
  BY <1>1, <1>6 DEF Promise!Next

\* One step of a worker is a step of the Outbox.
LEMMA WorkerStepRefines ==
  ASSUME TypeOK, LeaseInv, BudgetInv, DeliveryInv, NEW w \in Workers, WorkerStep(w)
  PROVE  Promise!Next \/ UNCHANGED Promise!vars
<1>1. ASSUME NEW j \in Jobs, ClaimDue(w, j) \/ ClaimLost(w, j)
      PROVE  UNCHANGED Promise!vars
  <2>1. /\ job' = [job EXCEPT ![j] = LockJob(job[j])]
        /\ UNCHANGED calls
        /\ job[j].status \in OpenStatuses
    BY <1>1 DEF ClaimDue, ClaimLost, Claimable, OpenStatuses
  <2>2. LockJob(job[j]).status \in OpenStatuses
    BY DEF LockJob, TypeOK, Rows, OpenStatuses
  <2>3. QED
    BY <2>1, <2>2, PhaseOfStatus, PhasesKept DEF TypeOK
<1>2. CASE GiveUp(w)
  <2>1. worker[w].job \in Jobs /\ Busy(w)
    BY <1>2 DEF GiveUp, TypeOK, WorkersOK, Busy
  <2>2. /\ job'[worker[w].job].status = "DEAD"
        /\ \A i \in Jobs : i # worker[w].job => job'[i] = job[i]
    BY <1>2, <2>1, MarkFailedStatus DEF GiveUp, TypeOK
  <2>3. QED
    BY <1>2, <2>1, <2>2, FailureRefines DEF GiveUp
<1>3. CASE Dispatch(w)
  <2>1. worker[w].job \in Jobs /\ Busy(w)
    BY <1>3 DEF Dispatch, TypeOK, WorkersOK, Busy
  <2>2. job[worker[w].job].status = "PROCESSING"
    BY <1>3, <2>1 DEF Dispatch, LeaseInv, HolderOwnsRow
  <2>3. /\ calls[worker[w].job] < worker[w].attempts
        /\ worker[w].attempts <= MaxTotalAttempts
    BY <1>3, LimitsAssumption
    DEF Dispatch, MustGiveUp, BudgetInv, TypeOK, WorkersOK, Deliveries, AttemptsCap
  <2>4. calls[worker[w].job] < MaxTotalAttempts
    BY <2>1, <2>3, LimitsAssumption DEF TypeOK, WorkersOK, Deliveries, AttemptsCap
  <2>5. Phase(job[worker[w].job].status) = "open"
    BY <2>2, PhaseOfStatus DEF OpenStatuses
  <2>6. Promise!Call(worker[w].job)
    BY <1>3, <2>1, <2>4, <2>5 DEF Dispatch, Promise!Call
  <2>7. QED
    BY <2>1, <2>6 DEF Promise!Next
<1>4. CASE HandleDeliveryFailure(w)
  <2>1. worker[w].job \in Jobs /\ Busy(w)
    BY <1>4 DEF HandleDeliveryFailure, TypeOK, WorkersOK, Busy
  <2>2. FailureState(worker[w].attempts, worker[w].reply) \in {"PENDING", "WAITING", "DEAD"}
    BY DEF FailureState
  <2>3. /\ job'[worker[w].job].status \in {"PENDING", "WAITING", "DEAD"}
        /\ \A i \in Jobs : i # worker[w].job => job'[i] = job[i]
    BY <1>4, <2>1, <2>2, MarkFailedStatus DEF HandleDeliveryFailure, TypeOK
  <2>4. QED
    BY <1>4, <2>1, <2>3, FailureRefines DEF HandleDeliveryFailure
<1>5. CASE PersistDeliverySuccess(w) \/ PersistAckLost(w)
  BY <1>5, SuccessRefines DEF PersistDeliverySuccess, PersistAckLost
<1>6. CASE MarkUnsaved(w)
  <2>1. worker[w].job \in Jobs /\ Busy(w)
    BY <1>6 DEF MarkUnsaved, TypeOK, WorkersOK, Busy
  <2>2. UnsavedState(worker[w].attempts) \in {"PENDING", "DEAD"}
    BY DEF UnsavedState
  <2>3. /\ job'[worker[w].job].status \in {"PENDING", "WAITING", "DEAD"}
        /\ \A i \in Jobs : i # worker[w].job => job'[i] = job[i]
    BY <1>6, <2>1, <2>2, MarkFailedStatus DEF MarkUnsaved, TypeOK
  <2>4. QED
    BY <1>6, <2>1, <2>3, FailureRefines DEF MarkUnsaved
<1>7. CASE UNCHANGED <<job, calls>>
  BY <1>7, PhasesKept
<1>8. QED
  BY <1>1, <1>2, <1>3, <1>4, <1>5, <1>6, <1>7
  DEF WorkerStep, GiveUpFails, Reply, HandleDeliveryFailureFails, PersistFails,
      MarkUnsavedFails, Start, Stop, Exit, Crash

\* Every step is a step of the Outbox or leaves its state alone.
LEMMA StepRefines ==
  ASSUME TypeOK, LeaseInv, BudgetInv, DeliveryInv, [Next]_vars
  PROVE  [Promise!Next]_(Promise!vars)
<1>1. ASSUME NEW w \in Workers, WorkerStep(w) PROVE Promise!Next \/ UNCHANGED Promise!vars
  BY <1>1, WorkerStepRefines
<1>2. ASSUME NEW j \in Jobs, Schedule(j) PROVE Promise!Next
  <2>1. /\ job'[j].status = "PENDING"
        /\ \A i \in Jobs : i # j => job'[i] = job[i]
    BY <1>2 DEF Schedule, NoRow, TypeOK
  <2>2. PhaseMap' = [PhaseMap EXCEPT ![j] = "open"]
    BY <2>1, PhaseMoves, PhaseOfStatus DEF OpenStatuses
  <2>3. Promise!Open(j)
    BY <1>2, <2>2, PhaseOfStatus DEF Schedule, Promise!Open, Promise!Moves, PhaseMap
  <2>4. QED
    BY <2>3 DEF Promise!Next
<1>3. ASSUME NEW j \in Jobs, SapAccepts(j) PROVE UNCHANGED Promise!vars
  BY <1>3, PhasesKept DEF SapAccepts
<1>4. ASSUME NEW j \in Jobs, Replay(j) PROVE Promise!Next
  <2>1. /\ job'[j].status = "PENDING"
        /\ \A i \in Jobs : i # j => job'[i] = job[i]
    BY <1>4 DEF Replay, ReplayedRow, TypeOK, Rows
  <2>2. PhaseMap' = [PhaseMap EXCEPT ![j] = "open"]
    BY <2>1, PhaseMoves, PhaseOfStatus DEF OpenStatuses
  <2>3. Promise!Reopen(j)
    BY <1>4, <2>2, PhaseOfStatus DEF Replay, Promise!Reopen, Promise!Moves, PhaseMap
  <2>4. QED
    BY <2>3 DEF Promise!Next
<1>5. CASE Tick
  <2>1. \A j \in Jobs : AgedRow(job[j]).status = job[j].status
    BY DEF AgedRow, TypeOK, Rows
  <2>2. QED
    BY <1>5, <2>1, PhasesKept DEF Tick
<1>6. CASE UNCHANGED vars
  BY <1>6, PhasesKept DEF vars
<1>7. QED
  BY <1>1, <1>2, <1>3, <1>4, <1>5, <1>6 DEF Next

\* Any number of workers, stopped, crashed and restarted, with failing writes
\* and lost answers, implement the Outbox: no call for a settled job, no more
\* calls than the limit, SYNCED only after a call, and nobody but the operator
\* and a writer that lost its answer leaves a settled state.
THEOREM OutboxImplemented ==
  ASSUME MaxHold < StaleAfter
  PROVE  Spec => ImplementsOutbox
<1>1. Init => Promise!Init
  BY PhaseOfStatus DEF Init, NoRow, Promise!Init
<1>2. TypeOK /\ LeaseInv /\ BudgetInv /\ DeliveryInv /\ [Next]_vars =>
        [Promise!Next]_(Promise!vars)
  BY StepRefines
<1>3. QED
  BY <1>1, <1>2, Agreement, PTL DEF Spec, ImplementsOutbox, Promise!Spec
=============================================================================
