-------------------------- MODULE OrderSyncProofs ---------------------------
(***************************************************************************)
(* Theorems about the whole service, for any number of processes, open     *)
(* requests and orders.                                                    *)
(*                                                                         *)
(* The components' own proofs do most of the work: every step of the       *)
(* service is a step of SyncJobs, or none, and one that WebhooksProofs     *)
(* calls a step of a service, so the components' invariants hold.  What is *)
(* proved here is how they meet: the hooks of a process, its worker and    *)
(* its requests; jobs and the orders they belong to; and the time between  *)
(* a webhook and the SAP call.                                             *)
(***************************************************************************)
EXTENDS OrderSync, TLAPS

IntakeProofs == INSTANCE WebhooksProofs WITH jobs <- [o \in Orders |-> JobStatus(o)]

DeliveryProofs == INSTANCE SyncJobsLeaseProofs WITH Jobs <- Orders, Workers <- Processes

-----------------------------------------------------------------------------
(* The components' theorems apply: what OrderSync's instances define is    *)
(* what the instances of their proofs define.                              *)

LEMMA SameDelivery ==
  /\ Delivery!TypeOK <=> DeliveryProofs!TypeOK
  /\ Delivery!Init => DeliveryProofs!Init
  /\ Delivery!Next => DeliveryProofs!Next
  /\ DeliveryProofs!Next => Delivery!Next
<1> USE DEF
  Delivery!AllDisturbances, Delivery!vars, Delivery!AttemptsCap,
  Delivery!Longest, Delivery!Statuses, Delivery!Rows, Delivery!NoRow,
  Delivery!Claimable, Delivery!LockJob, Delivery!MarkSynced,
  Delivery!MarkFailed, Delivery!ReplayedRow, Delivery!Failures,
  Delivery!Deliveries, Delivery!Free, Delivery!Busy, Delivery!Backoff,
  Delivery!RetryDelays, Delivery!Remaining, Delivery!IsRetryable,
  Delivery!RecoveryWindowExpired, Delivery!FailureState,
  Delivery!UnsavedState, Delivery!CanWrite, Delivery!MayFail, Delivery!Init,
  Delivery!Schedule, Delivery!ClaimDue, Delivery!ClaimLost,
  Delivery!MustGiveUp, Delivery!GiveUp, Delivery!GiveUpFails,
  Delivery!Dispatch, Delivery!SapAccepts, Delivery!MayReply, Delivery!Reply,
  Delivery!HandleDeliveryFailure, Delivery!HandleDeliveryFailureFails,
  Delivery!PersistDeliverySuccess, Delivery!PersistFails,
  Delivery!PersistAckLost, Delivery!MarkUnsaved, Delivery!MarkUnsavedFails,
  Delivery!Start, Delivery!Stop, Delivery!Exit, Delivery!Crash,
  Delivery!Replay, Delivery!Older, Delivery!AgedRow, Delivery!AgedDelivery,
  Delivery!Tick, Delivery!WorkerStep, Delivery!Next, Delivery!Spec,
  Delivery!WorkersOK, Delivery!TypeOK, DeliveryProofs!AllDisturbances,
  DeliveryProofs!vars, DeliveryProofs!AttemptsCap, DeliveryProofs!Longest,
  DeliveryProofs!Statuses, DeliveryProofs!Rows, DeliveryProofs!NoRow,
  DeliveryProofs!Claimable, DeliveryProofs!LockJob,
  DeliveryProofs!MarkSynced, DeliveryProofs!MarkFailed,
  DeliveryProofs!ReplayedRow, DeliveryProofs!Failures,
  DeliveryProofs!Deliveries, DeliveryProofs!Free, DeliveryProofs!Busy,
  DeliveryProofs!Backoff, DeliveryProofs!RetryDelays,
  DeliveryProofs!Remaining, DeliveryProofs!IsRetryable,
  DeliveryProofs!RecoveryWindowExpired, DeliveryProofs!FailureState,
  DeliveryProofs!UnsavedState, DeliveryProofs!CanWrite,
  DeliveryProofs!MayFail, DeliveryProofs!Init, DeliveryProofs!Schedule,
  DeliveryProofs!ClaimDue, DeliveryProofs!ClaimLost,
  DeliveryProofs!MustGiveUp, DeliveryProofs!GiveUp,
  DeliveryProofs!GiveUpFails, DeliveryProofs!Dispatch,
  DeliveryProofs!SapAccepts, DeliveryProofs!MayReply, DeliveryProofs!Reply,
  DeliveryProofs!HandleDeliveryFailure,
  DeliveryProofs!HandleDeliveryFailureFails,
  DeliveryProofs!PersistDeliverySuccess, DeliveryProofs!PersistFails,
  DeliveryProofs!PersistAckLost, DeliveryProofs!MarkUnsaved,
  DeliveryProofs!MarkUnsavedFails, DeliveryProofs!Start,
  DeliveryProofs!Stop, DeliveryProofs!Exit, DeliveryProofs!Crash,
  DeliveryProofs!Replay, DeliveryProofs!Older, DeliveryProofs!AgedRow,
  DeliveryProofs!AgedDelivery, DeliveryProofs!Tick,
  DeliveryProofs!WorkerStep, DeliveryProofs!Next, DeliveryProofs!Spec,
  DeliveryProofs!WorkersOK, DeliveryProofs!TypeOK
<1> QED
  BY Zenon

LEMMA SameSpec == Delivery!Spec => DeliveryProofs!Spec
BY SameDelivery, PTL DEF Delivery!Spec, DeliveryProofs!Spec, Delivery!vars, DeliveryProofs!vars

LEMMA SameIntake ==
  /\ Intake!TypeOK <=> IntakeProofs!TypeOK
  /\ Intake!Init => IntakeProofs!Init
  /\ \A t \in Slots, wh \in Webhooks : Intake!Receive(t, wh) => IntakeProofs!Receive(t, wh)
  /\ \A t \in Slots : Intake!Statement(t) => IntakeProofs!Statement(t)
  /\ \A t \in Slots : Intake!Abort(t) => IntakeProofs!Abort(t)
  /\ \A t \in Slots : Intake!Commit(t) => IntakeProofs!Commit(t)
  /\ \A t \in Slots : Intake!CommitLost(t) => IntakeProofs!CommitLost(t)
<1> USE DEF
  Intake!Items, Intake!Payloads, Intake!StoredPrice, Intake!StoredItems,
  Intake!Listings, Intake!SameHardwareOverride, Intake!SameItem,
  Intake!Unmatched, Intake!Rounds, Intake!Matches, Intake!SameOrderPayload,
  Intake!ItemSKUs, Intake!InCatalog, Intake!HasHardware,
  Intake!PaymentStatuses, Intake!ShopWebhooks, Intake!PaymentWebhooks,
  Intake!EventKeys, Intake!LockKeys, Intake!JobStatuses, Intake!EventRows,
  Intake!OrderRows, Intake!PaymentRows, Intake!Writes, Intake!NoWrites,
  Intake!Transactions, Intake!NoTransaction, Intake!Key, Intake!OrderKey,
  Intake!PaymentKey, Intake!IsTerminal, Intake!Wants, Intake!Holder,
  Intake!Blocked, Intake!Runs, Intake!Goes, Intake!Fails, Intake!Finishes,
  Intake!Processed, Intake!ScheduledJob, Intake!MarkPaidAndSchedule,
  Intake!Tables, Intake!RecordNew, Intake!RecordDuplicate,
  Intake!DuplicatePayment, Intake!FindNoPayment, Intake!FindPayment,
  Intake!FindNoOrder, Intake!FindOrder, Intake!UpsertedPayment,
  Intake!MayOverwrite, Intake!PaymentFinalized, Intake!CompletePayment,
  Intake!UpsertPayment, Intake!CanCancelJob, Intake!CancelledJob,
  Intake!CancelPayment, Intake!NewOrder, Intake!CreateOrder,
  Intake!OrderExists, Intake!CompareOrder, Intake!ReconcileNothing,
  Intake!ReconcilePayment, Intake!Released, Intake!Installed, Intake!Marked,
  Intake!Install, Intake!Ends, Intake!StatusCode, Intake!Answered,
  Intake!Commit, Intake!CommitLost, Intake!Rollback, Intake!Min,
  Intake!Bijection, Intake!Injection, Intake!Surjection, Intake!IsInjective,
  Intake!Abort, Intake!Statement, Intake!Receive, Intake!Init,
  IntakeProofs!Items, IntakeProofs!Payloads, IntakeProofs!StoredPrice,
  IntakeProofs!StoredItems, IntakeProofs!Listings,
  IntakeProofs!SameHardwareOverride, IntakeProofs!SameItem,
  IntakeProofs!Unmatched, IntakeProofs!Rounds, IntakeProofs!Matches,
  IntakeProofs!SameOrderPayload, IntakeProofs!ItemSKUs,
  IntakeProofs!InCatalog, IntakeProofs!HasHardware,
  IntakeProofs!PaymentStatuses, IntakeProofs!ShopWebhooks,
  IntakeProofs!PaymentWebhooks, IntakeProofs!EventKeys,
  IntakeProofs!LockKeys, IntakeProofs!JobStatuses, IntakeProofs!EventRows,
  IntakeProofs!OrderRows, IntakeProofs!PaymentRows, IntakeProofs!Writes,
  IntakeProofs!NoWrites, IntakeProofs!Transactions,
  IntakeProofs!NoTransaction, IntakeProofs!Key, IntakeProofs!OrderKey,
  IntakeProofs!PaymentKey, IntakeProofs!IsTerminal, IntakeProofs!Wants,
  IntakeProofs!Holder, IntakeProofs!Blocked, IntakeProofs!Runs,
  IntakeProofs!Goes, IntakeProofs!Fails, IntakeProofs!Finishes,
  IntakeProofs!Processed, IntakeProofs!ScheduledJob,
  IntakeProofs!MarkPaidAndSchedule, IntakeProofs!Tables,
  IntakeProofs!RecordNew, IntakeProofs!RecordDuplicate,
  IntakeProofs!DuplicatePayment, IntakeProofs!FindNoPayment,
  IntakeProofs!FindPayment, IntakeProofs!FindNoOrder,
  IntakeProofs!FindOrder, IntakeProofs!UpsertedPayment,
  IntakeProofs!MayOverwrite, IntakeProofs!PaymentFinalized,
  IntakeProofs!CompletePayment, IntakeProofs!UpsertPayment,
  IntakeProofs!CanCancelJob, IntakeProofs!CancelledJob,
  IntakeProofs!CancelPayment, IntakeProofs!NewOrder,
  IntakeProofs!CreateOrder, IntakeProofs!OrderExists,
  IntakeProofs!CompareOrder, IntakeProofs!ReconcileNothing,
  IntakeProofs!ReconcilePayment, IntakeProofs!Released,
  IntakeProofs!Installed, IntakeProofs!Marked, IntakeProofs!Install,
  IntakeProofs!Ends, IntakeProofs!StatusCode, IntakeProofs!Answered,
  IntakeProofs!Commit, IntakeProofs!CommitLost, IntakeProofs!Rollback,
  IntakeProofs!Min, IntakeProofs!Bijection, IntakeProofs!Injection,
  IntakeProofs!Surjection, IntakeProofs!IsInjective, IntakeProofs!Abort,
  IntakeProofs!Statement, IntakeProofs!Receive, IntakeProofs!Init
<1>1. Intake!TypeOK <=> IntakeProofs!TypeOK
  BY DEF Intake!TypeOK, IntakeProofs!TypeOK
<1>2. Intake!Init => IntakeProofs!Init
  BY Zenon
<1>3. \A t \in Slots, wh \in Webhooks : Intake!Receive(t, wh) => IntakeProofs!Receive(t, wh)
  BY Zenon
<1>4. ASSUME NEW t \in Slots, Intake!Statement(t) PROVE IntakeProofs!Statement(t)
  BY <1>4, Zenon
<1>5. \A t \in Slots : Intake!Abort(t) => IntakeProofs!Abort(t)
  BY Zenon
<1>6. \A t \in Slots : Intake!Commit(t) => IntakeProofs!Commit(t)
  BY Zenon
<1>7. \A t \in Slots : Intake!CommitLost(t) => IntakeProofs!CommitLost(t)
  BY Zenon
<1> QED
  BY ONLY <1>1, <1>2, <1>3, <1>4, <1>5, <1>6, <1>7, Zenon

\* The components' assumptions, as their theorems name them.
LEMMA DeliveryFits ==
  /\ MaxAttempts \in Nat \ {0} /\ MaxTotalAttempts \in Nat \ {0}
  /\ StaleAfter \in Nat \ {0} /\ RecoveryWindow \in Nat \ {0}
  /\ HardwareDelay \in Nat /\ BaseDelay \in Nat /\ MaxRetryDelay \in Nat /\ MaxHold \in Nat
  /\ Disturbances \subseteq DeliveryProofs!AllDisturbances
  /\ Null \notin Nat
  /\ Null \notin Orders
BY DeliveryAssumption DEF Delivery!AllDisturbances, DeliveryProofs!AllDisturbances

LEMMA IntakeFits ==
  /\ Catalog \subseteq SKUs
  /\ Fractions \in Nat \ {0}
  /\ Webhooks \subseteq IntakeProofs!ShopWebhooks \cup IntakeProofs!PaymentWebhooks
  /\ Null \notin Stamps /\ Null \notin Slots /\ Null \notin Webhooks
  /\ Null \notin IntakeProofs!EventRows \cup IntakeProofs!OrderRows
                 \cup IntakeProofs!PaymentRows \cup IntakeProofs!JobStatuses
                 \cup IntakeProofs!LockKeys
BY IntakeAssumption DEF Intake!ShopWebhooks, IntakeProofs!ShopWebhooks,
  Intake!PaymentWebhooks, IntakeProofs!PaymentWebhooks, Intake!Payloads, IntakeProofs!Payloads,
  Intake!Items, IntakeProofs!Items, Intake!PaymentStatuses, IntakeProofs!PaymentStatuses,
  Intake!EventRows, IntakeProofs!EventRows, Intake!OrderRows, IntakeProofs!OrderRows,
  Intake!PaymentRows, IntakeProofs!PaymentRows, Intake!JobStatuses, IntakeProofs!JobStatuses,
  Intake!LockKeys, IntakeProofs!LockKeys, Intake!EventKeys, IntakeProofs!EventKeys

LEMMA DeliveryKeeps ==
  DeliveryProofs!TypeOK /\ [DeliveryProofs!Next]_(DeliveryProofs!vars) => DeliveryProofs!TypeOK'
BY DeliveryFits, DeliveryProofs!StepTyped

LEMMA IntakeKeeps ==
  IntakeProofs!TypeOK /\ IntakeProofs!IntakeInv /\ IntakeProofs!LocksInv
  /\ IntakeProofs!ServiceStep =>
    IntakeProofs!TypeOK' /\ IntakeProofs!IntakeInv' /\ IntakeProofs!LocksInv'
BY IntakeFits, IntakeProofs!ServiceKeeps

LEMMA IntakeAgrees ==
  IntakeProofs!TypeOK /\ IntakeProofs!IntakeInv /\ IntakeProofs!OneAtATime
  /\ IntakeProofs!AgreeInv /\ IntakeProofs!ServiceStep => IntakeProofs!AgreeInv'
BY IntakeFits, IntakeProofs!ServiceAgrees

LEMMA IntakeKeepsItems ==
  ASSUME IntakeProofs!TypeOK, IntakeProofs!IntakeInv, IntakeProofs!ServiceStep,
         NEW o \in Orders, orders[o] # Null
  PROVE  orders'[o] # Null /\ orders'[o].items = orders[o].items
BY IntakeFits, IntakeProofs!ServiceKeepsItems

LEMMA IntakeStaysIdle ==
  ASSUME IntakeProofs!TypeOK, NEW t \in Slots,
         IntakeProofs!Statement(t) \/ IntakeProofs!Abort(t),
         NEW u \in Slots, tx[u].pc = "idle"
  PROVE  tx'[u].pc = "idle"
BY IntakeFits, IntakeProofs!IdleStays

LEMMA NothingYet ==
  Intake!Init /\ Delivery!Init =>
    /\ IntakeProofs!TypeOK /\ IntakeProofs!IntakeInv /\ IntakeProofs!LocksInv
    /\ IntakeProofs!AgreeInv
    /\ DeliveryProofs!TypeOK
<1>1. Intake!Init => /\ IntakeProofs!TypeOK /\ IntakeProofs!IntakeInv
                     /\ IntakeProofs!LocksInv /\ IntakeProofs!AgreeInv
  BY SameIntake, IntakeFits, IntakeProofs!NothingTaken, IntakeProofs!NothingLocked,
     IntakeProofs!NothingToAgree
<1>2. Delivery!Init => DeliveryProofs!TypeOK
  BY SameDelivery, DeliveryFits, DeliveryProofs!InitTyped
<1>3. QED
  BY <1>1, <1>2

-----------------------------------------------------------------------------
(* The invariant.                                                          *)

Scheduled(o) == job[o].status # "NOT_SCHEDULED"

Hardware(o) == Intake!HasHardware(orders[o].items)

\* Where a process is in its hooks says what its worker and its requests do.
ProcessOK(p) ==
  /\ proc[p] \in {"down", "listening", "draining", "closing"} => ctx[p] = "down"
  /\ proc[p] = "running" => ctx[p] = "live"
  /\ proc[p] \in {"stopping", "overrun"} => ctx[p] \in {"cancelled", "down"}
  /\ ctx[p] = "down" => worker[p] = Delivery!Free
  /\ worker[p].pc = "idle" => worker[p] = Delivery!Free
  /\ proc[p] \in {"down", "closing"} => \A t \in Slots : Home[t] = p => tx[t].pc = "idle"
  /\ proc[p] = "overrun" => "crash" \in Disturbances

\* Nobody works on, and SAP has no request of, a job that is not there.
SentOK ==
  /\ \A o \in sent : Scheduled(o)
  /\ \A p \in Processes : Delivery!Busy(p) => Scheduled(worker[p].job)

\* A hardware order has waited, or its first due time sees to it that it
\* will; from the first claim on it has waited.
WaitOK(o) ==
  Scheduled(o) /\ Hardware(o) =>
    \/ since[o] = HardwareDelay
    \/ job[o].status = "PENDING" /\ since[o] + job[o].dueIn >= HardwareDelay

BusyWaited(p) ==
  Delivery!Busy(p) /\ Hardware(worker[p].job) => since[worker[p].job] = HardwareDelay

ServiceInv ==
  /\ IntakeProofs!TypeOK /\ IntakeProofs!IntakeInv /\ IntakeProofs!LocksInv
  /\ DeliveryProofs!TypeOK
  /\ proc \in [Processes -> Phases]
  /\ age \in [Slots -> 0..HardwareDelay]
  /\ since \in [Orders -> 0..HardwareDelay]
  /\ \A p \in Processes : ProcessOK(p) /\ BusyWaited(p)
  /\ SentOK
  /\ \A o \in Orders : WaitOK(o)

-----------------------------------------------------------------------------
(* What the workers do to the jobs.                                        *)

\* A job that a worker may touch, in its present state.
Ripe(o) ==
  /\ Scheduled(o)
  /\ \/ job[o].status # "PENDING"
     \/ job[o].dueIn = 0
     \/ \E p \in Processes : Delivery!Busy(p) /\ worker[p].job = o

\* A step that schedules no job and lets no time pass.
Delivers ==
  /\ \A o \in Orders : job'[o] # job[o] => Ripe(o) /\ Scheduled(o)'
  /\ \A p \in Processes : Delivery!Busy(p)' => Ripe(worker'[p].job)
  /\ \A o \in sent' : o \in sent \/ Ripe(o)
  /\ \A o \in Orders : calls'[o] > calls[o] => Ripe(o)

LEMMA DeliveryTypes ==
  ASSUME DeliveryProofs!TypeOK
  PROVE  /\ job \in [Orders -> Delivery!Rows]
         /\ worker \in [Processes -> Delivery!Deliveries]
         /\ \A p \in Processes : Delivery!Busy(p) => worker[p].job \in Orders
         /\ ctx \in [Processes -> {"down", "live", "cancelled"}]
         /\ sent \in SUBSET Orders
         /\ calls \in [Orders -> Nat]
<1>1. Delivery!TypeOK
  BY SameDelivery
<1>2. QED
  BY <1>1 DEF Delivery!TypeOK, Delivery!WorkersOK

\* A ripe job of a hardware order has waited.
LEMMA RipeWaited ==
  ASSUME ServiceInv, NEW o \in Orders, Ripe(o), Hardware(o)
  PROVE  since[o] = HardwareDelay
<1>1. /\ job[o].dueIn \in Nat
      /\ since[o] \in 0..HardwareDelay
      /\ HardwareDelay \in Nat
      /\ WaitOK(o)
      /\ \A p \in Processes : BusyWaited(p)
  BY DeliveryTypes, DeliveryFits DEF ServiceInv, Delivery!Rows, Delivery!Longest
<1>2. QED
  BY <1>1 DEF Ripe, WaitOK, BusyWaited

\* The worker p takes up a job that is ripe, or goes on with its own.
LEMMA WorkerDelivers ==
  ASSUME DeliveryProofs!TypeOK, SentOK, NEW p \in Processes, NEW o \in Orders, NEW row, NEW d,
         Ripe(o), row.status # "NOT_SCHEDULED", d.pc # "idle" => d.job = o,
         job' = job \/ job' = [job EXCEPT ![o] = row],
         worker' = worker \/ worker' = [worker EXCEPT ![p] = d],
         sent' = sent \/ sent' = sent \cup {o},
         calls' = calls \/ calls' = [calls EXCEPT ![o] = calls[o] + 1]
  PROVE  Delivers
<1>1. \A q \in Processes : Delivery!Busy(q) => Ripe(worker[q].job)
  BY DEF SentOK, Ripe
<1>2. ASSUME NEW x \in Orders, job'[x] # job[x] PROVE Ripe(x) /\ Scheduled(x)'
  BY <1>2, DeliveryTypes DEF Scheduled
<1>3. ASSUME NEW q \in Processes, Delivery!Busy(q)' PROVE Ripe(worker'[q].job)
  BY <1>1, <1>3, DeliveryTypes DEF Delivery!Busy
<1>4. ASSUME NEW x \in Orders, calls'[x] > calls[x] PROVE Ripe(x)
  BY <1>4, DeliveryTypes
<1>5. QED
  BY <1>2, <1>3, <1>4 DEF Delivers

\* The steps of the running workers.
Working ==
  /\ Delivers
  /\ UNCHANGED ctx
  /\ \A p \in Processes :
       worker'[p] # worker[p] =>
         ctx[p] # "down" /\ (worker'[p].pc = "idle" => worker'[p] = Delivery!Free)

LEMMA ClaimWorks ==
  ASSUME DeliveryProofs!TypeOK, SentOK, NEW p \in Processes, NEW o \in Orders,
         Delivery!ClaimDue(p, o) \/ Delivery!ClaimLost(p, o)
  PROVE  Working
<1> DEFINE row == Delivery!LockJob(job[o])
           d == [Delivery!Free EXCEPT !.pc = "claimed", !.job = o, !.attempts = row.attempts,
                                      !.waitAge = job[o].waitAge]
<1>1. /\ job' = [job EXCEPT ![o] = row]
      /\ worker' = worker \/ worker' = [worker EXCEPT ![p] = d]
      /\ ctx[p] = "live"
      /\ Delivery!Claimable(job[o])
      /\ UNCHANGED <<ctx, sent, calls>>
  BY Zenon DEF Delivery!ClaimDue, Delivery!ClaimLost, Delivery!CanWrite
<1>2. Ripe(o)
  BY <1>1 DEF Delivery!Claimable, Ripe, Scheduled
<1>3. row.status # "NOT_SCHEDULED" /\ d.job = o /\ d.pc = "claimed"
  <2>1. job[o] \in Delivery!Rows
    BY DeliveryTypes
  <2>2. QED
    BY <2>1 DEF Delivery!LockJob, Delivery!Rows, Delivery!Free
<1>4. Delivers
  <2> HIDE DEF row, d
  <2>1. QED
    BY <1>1, <1>2, <1>3, WorkerDelivers
<1>5. QED
  BY <1>1, <1>3, <1>4, DeliveryTypes DEF Working

LEMMA WorkerWorks ==
  ASSUME DeliveryProofs!TypeOK, SentOK, NEW p \in Processes, ProcessOK(p), WorkerStep(p)
  PROVE  Working
<1> DEFINE o == worker[p].job
<1>1. worker[p].pc # "idle"
  BY Zenon DEF WorkerStep, Dispatch, Reply, PersistDeliverySuccess, PersistFails, Settle,
    Delivery!Dispatch, Delivery!Reply, Delivery!PersistDeliverySuccess, Delivery!PersistAckLost,
    Delivery!PersistFails, Delivery!GiveUp, Delivery!GiveUpFails,
    Delivery!HandleDeliveryFailure, Delivery!HandleDeliveryFailureFails,
    Delivery!MarkUnsaved, Delivery!MarkUnsavedFails
<1>2. /\ o \in Orders
      /\ job[o] \in Delivery!Rows
      /\ worker[p] \in Delivery!Deliveries
      /\ Ripe(o)
      /\ ctx[p] # "down"
  BY <1>1, DeliveryTypes DEF SentOK, Ripe, Delivery!Busy, ProcessOK, Delivery!Free
<1>3. ASSUME NEW row, row.status # "NOT_SCHEDULED",
             NEW d, d.pc # "idle" => d.job = o, d.pc = "idle" => d = Delivery!Free,
             job' = job \/ job' = [job EXCEPT ![o] = row],
             worker' = [worker EXCEPT ![p] = d],
             sent' = sent \/ sent' = sent \cup {o},
             calls' = calls \/ calls' = [calls EXCEPT ![o] = calls[o] + 1],
             UNCHANGED ctx
      PROVE  Working
  <2>1. Delivers
    BY <1>2, <1>3, WorkerDelivers
  <2>2. QED
    BY <1>2, <1>3, <2>1, DeliveryTypes DEF Working
<1>4. /\ job[o].status # "NOT_SCHEDULED"
      /\ Delivery!MarkSynced(job[o]).status # "NOT_SCHEDULED"
      /\ \A status, delay : status # "NOT_SCHEDULED" =>
           Delivery!MarkFailed(job[o], status, delay).status # "NOT_SCHEDULED"
      /\ \A attempts, reply : Delivery!FailureState(attempts, reply) # "NOT_SCHEDULED"
      /\ \A attempts : Delivery!UnsavedState(attempts) # "NOT_SCHEDULED"
  BY <1>2 DEF Ripe, Scheduled, Delivery!Rows, Delivery!MarkSynced, Delivery!MarkFailed,
    Delivery!FailureState, Delivery!UnsavedState
<1>5. /\ Delivery!Free.pc = "idle"
      /\ \A pc : LET d == [worker[p] EXCEPT !.pc = pc] IN d.job = o /\ d.pc = pc
      /\ \A pc, reply : LET d == [worker[p] EXCEPT !.pc = pc, !.reply = reply] IN
           d.job = o /\ d.pc = pc
      /\ LET d == [worker[p] EXCEPT !.pc = "posting", !.waitAge = Null] IN
           d.job = o /\ d.pc = "posting"
  BY <1>2 DEF Delivery!Free, Delivery!Deliveries
<1> HIDE DEF o
<1> DEFINE FailedRow(status, delay) == Delivery!MarkFailed(job[o], status, delay)
<1>6. ASSUME NEW status, status # "NOT_SCHEDULED", NEW delay,
             job' = [job EXCEPT ![o] = FailedRow(status, delay)],
             worker' = [worker EXCEPT ![p] = Delivery!Free],
             UNCHANGED <<ctx, sent, calls>>
      PROVE  Working
  <2>1. FailedRow(status, delay).status # "NOT_SCHEDULED"
    BY <1>4, <1>6
  <2> HIDE DEF FailedRow
  <2>2. QED
    BY <1>3, <1>5, <1>6, <2>1
<1>7. CASE Dispatch(p)
  BY <1>3, <1>4, <1>5, <1>7 DEF o, Dispatch, Delivery!Dispatch
<1>8. ASSUME NEW reply, Reply(p, reply) PROVE Working
  <2> DEFINE d == [worker[p] EXCEPT !.pc = "replied", !.reply = reply]
  <2>1. d.job = o /\ d.pc = "replied"
    BY <1>5
  <2>2. worker' = [worker EXCEPT ![p] = d] /\ UNCHANGED <<job, ctx, sent, calls>>
    BY <1>8 DEF Reply, Delivery!Reply
  <2> HIDE DEF d
  <2>3. QED
    BY <1>3, <1>4, <2>1, <2>2
<1>9. CASE PersistDeliverySuccess(p) \/ PersistFails(p)
  <2> DEFINE row == Delivery!MarkSynced(job[o])
             d == [worker[p] EXCEPT !.pc = "unsaved"]
  <2>1. row.status # "NOT_SCHEDULED" /\ d.job = o /\ d.pc = "unsaved"
    BY <1>4, <1>5
  <2>2. CASE Delivery!PersistDeliverySuccess(p)
    <3>1. /\ job' = [job EXCEPT ![o] = row]
          /\ worker' = [worker EXCEPT ![p] = Delivery!Free]
          /\ UNCHANGED <<ctx, sent, calls>>
      BY <2>2 DEF o, Delivery!PersistDeliverySuccess
    <3> HIDE DEF row
    <3>2. QED
      BY <1>3, <1>5, <2>1, <3>1
  <2>3. CASE Delivery!PersistAckLost(p)
    <3>1. /\ job' = [job EXCEPT ![o] = row]
          /\ worker' = [worker EXCEPT ![p] = d]
          /\ UNCHANGED <<ctx, sent, calls>>
      BY <2>3 DEF o, Delivery!PersistAckLost
    <3> HIDE DEF row, d
    <3>2. QED
      BY <1>3, <2>1, <3>1
  <2>4. CASE Delivery!PersistFails(p)
    <3>1. worker' = [worker EXCEPT ![p] = d] /\ UNCHANGED <<job, ctx, sent, calls>>
      BY <2>4 DEF Delivery!PersistFails
    <3> HIDE DEF d
    <3>2. QED
      BY <1>3, <1>4, <2>1, <3>1
  <2>5. QED
    BY <1>9, <2>2, <2>3, <2>4 DEF PersistDeliverySuccess, PersistFails
<1>10. CASE Settle(p)
  <2>1. CASE Delivery!GiveUp(p)
    BY <1>6, <2>1 DEF o, Delivery!GiveUp
  <2>2. CASE Delivery!HandleDeliveryFailure(p)
    <3>1. PICK delay :
            /\ job' = [job EXCEPT ![o] =
                 Delivery!MarkFailed(job[o],
                   Delivery!FailureState(worker[p].attempts, worker[p].reply),
                   Delivery!Remaining(delay, worker[p].age))]
            /\ worker' = [worker EXCEPT ![p] = Delivery!Free]
            /\ UNCHANGED <<ctx, sent, calls>>
      BY <2>2, Zenon DEF o, Delivery!HandleDeliveryFailure
    <3>2. QED
      BY <1>4, <1>6, <3>1, Zenon
  <2>3. CASE Delivery!MarkUnsaved(p)
    <3>1. PICK delay :
            /\ job' = [job EXCEPT ![o] =
                 Delivery!MarkFailed(job[o], Delivery!UnsavedState(worker[p].attempts),
                                     Delivery!Remaining(delay, worker[p].age))]
            /\ worker' = [worker EXCEPT ![p] = Delivery!Free]
            /\ UNCHANGED <<ctx, sent, calls>>
      BY <2>3, Zenon DEF o, Delivery!MarkUnsaved
    <3>2. QED
      BY <1>4, <1>6, <3>1, Zenon
  <2>4. CASE \/ Delivery!GiveUpFails(p) \/ Delivery!HandleDeliveryFailureFails(p)
             \/ Delivery!MarkUnsavedFails(p)
    BY <1>3, <1>4, <1>5, <2>4 DEF Delivery!GiveUpFails, Delivery!HandleDeliveryFailureFails,
      Delivery!MarkUnsavedFails
  <2>5. QED
    BY <1>10, <2>1, <2>2, <2>3, <2>4 DEF Settle
<1>11. QED
  BY <1>7, <1>8, <1>9, <1>10, Zenon DEF WorkerStep

\* SAP and the operator.
LEMMA OutsideWorks ==
  ASSUME DeliveryProofs!TypeOK, SentOK, NEW o \in Orders, Outside(o)
  PROVE  Working
<1>1. \A p \in Processes : Delivery!Busy(p) => Ripe(worker[p].job)
  BY DEF SentOK, Ripe
<1>2. CASE Delivery!SapAccepts(o)
  BY <1>1, <1>2, DeliveryTypes DEF Delivery!SapAccepts, Working, Delivers, Delivery!Busy
<1>3. CASE Delivery!Replay(o)
  <2>1. /\ job' = [job EXCEPT ![o] = Delivery!ReplayedRow(job[o])]
        /\ calls' = [calls EXCEPT ![o] = 0]
        /\ UNCHANGED <<worker, ctx, sent>>
    BY <1>3 DEF Delivery!Replay
  <2>2. Ripe(o) /\ Delivery!ReplayedRow(job[o]).status = "PENDING"
    BY <1>3, DeliveryTypes DEF Delivery!Replay, Delivery!ReplayedRow, Delivery!Rows, Ripe,
      Scheduled
  <2>3. QED
    BY <1>1, <2>1, <2>2, DeliveryTypes DEF Working, Delivers, Scheduled, Delivery!Busy
<1>4. QED
  BY <1>2, <1>3 DEF Outside

\* Steps that leave the jobs alone and start no delivery.
LEMMA RestDelivers ==
  ASSUME DeliveryProofs!TypeOK, SentOK, UNCHANGED <<job, sent, calls>>,
         \A p \in Processes : worker'[p] \in {worker[p], Delivery!Free}
  PROVE  Delivers
<1>1. ASSUME NEW p \in Processes, Delivery!Busy(p)' PROVE Ripe(worker'[p].job)
  BY <1>1 DEF SentOK, Ripe, Delivery!Busy, Delivery!Free
<1>2. QED
  BY <1>1, DeliveryTypes DEF Delivers

\* A job that is there has an order.
LEMMA ScheduledStored ==
  ASSUME ServiceInv, NEW o \in Orders, Scheduled(o)
  PROVE  orders[o] # Null
<1>1. JobStatus(o) # Null
  BY DeliveryTypes, IntakeFits DEF ServiceInv, Scheduled, JobStatus, Delivery!Rows,
    Delivery!Statuses, IntakeProofs!JobStatuses
<1>2. IntakeProofs!RowsOK(o)
  BY DEF ServiceInv, IntakeProofs!IntakeInv
<1>3. QED
  BY <1>1, <1>2 DEF IntakeProofs!RowsOK

\* What the workers keep.
LEMMA DeliversKeeps ==
  ASSUME ServiceInv, Delivers, DeliveryProofs!TypeOK', UNCHANGED <<orders, since>>
  PROVE  /\ SentOK'
         /\ \A o \in Orders : WaitOK(o)'
         /\ \A p \in Processes : BusyWaited(p)'
<1>1. ASSUME NEW o \in Orders, Scheduled(o) PROVE Scheduled(o)'
  BY <1>1 DEF Delivers, Scheduled
<1>2. \A p \in Processes : Delivery!Busy(p)' => worker'[p].job \in Orders
  <2>1. Delivery!TypeOK'
    BY SameDelivery, PTL
  <2>2. QED
    BY <2>1 DEF Delivery!TypeOK, Delivery!WorkersOK
<1>3. sent' \subseteq Orders
  BY DEF DeliveryProofs!TypeOK
<1>4. SentOK'
  <2>1. ASSUME NEW o \in sent' PROVE Scheduled(o)'
    BY <1>1, <1>3 DEF Delivers, Ripe, ServiceInv, SentOK
  <2>2. ASSUME NEW p \in Processes, Delivery!Busy(p)' PROVE Scheduled(worker[p].job)'
    BY <1>1, <1>2, <2>2 DEF Delivers, Ripe
  <2>3. QED
    BY <2>1, <2>2 DEF SentOK
<1>5. ASSUME NEW o \in Orders PROVE WaitOK(o)'
  <2>1. CASE job'[o] = job[o]
    BY <2>1 DEF ServiceInv, WaitOK, Scheduled, Hardware
  <2>2. CASE job'[o] # job[o]
    BY <2>2, RipeWaited DEF Delivers, WaitOK, Hardware
  <2>3. QED
    BY <2>1, <2>2
<1>6. ASSUME NEW p \in Processes PROVE BusyWaited(p)'
  BY <1>2, RipeWaited DEF Delivers, BusyWaited, Hardware
<1>7. QED
  BY <1>4, <1>5, <1>6

\* What a step of a transaction keeps that schedules no job.
LEMMA IntakeStepKeeps ==
  ASSUME ServiceInv, IntakeProofs!ServiceStep, UNCHANGED <<deliveryVars, since>>
  PROVE  /\ SentOK'
         /\ \A o \in Orders : WaitOK(o)'
         /\ \A p \in Processes : BusyWaited(p)'
<1>1. UNCHANGED <<job, worker, sent, since>>
  BY DEF deliveryVars
<1>2. ASSUME NEW o \in Orders, Scheduled(o) PROVE Hardware(o)' = Hardware(o)
  BY <1>2, ScheduledStored, IntakeKeepsItems DEF ServiceInv, Hardware
<1>3. \A p \in Processes : Delivery!Busy(p) => worker[p].job \in Orders
  BY DeliveryTypes DEF ServiceInv
<1>4. SentOK'
  BY <1>1 DEF ServiceInv, SentOK, Scheduled, Delivery!Busy
<1>5. ASSUME NEW o \in Orders PROVE WaitOK(o)'
  BY <1>1, <1>2 DEF ServiceInv, WaitOK, Scheduled
<1>6. ASSUME NEW p \in Processes PROVE BusyWaited(p)'
  BY <1>1, <1>2, <1>3 DEF ServiceInv, SentOK, BusyWaited, Delivery!Busy
<1>7. QED
  BY <1>4, <1>5, <1>6

\* A commit that schedules a job is that of an order it has written.
LEMMA CommitOrder ==
  ASSUME IntakeProofs!IntakeInv, NEW t \in Slots, CommitJob(t)
  PROVE  tx[t].wh.order \in Orders /\ tx[t].w.order # Null
<1>1. IntakeProofs!FlowOK(t) /\ IntakeProofs!BundleOK(t)
  BY DEF IntakeProofs!IntakeInv, IntakeProofs!SlotInv
<1>2. tx[t].wh \in Webhooks
  BY <1>1 DEF CommitJob, IntakeProofs!FlowOK
<1>3. tx[t].w.job # Null
  BY IntakeFits DEF CommitJob, IntakeProofs!JobStatuses
<1>4. QED
  BY <1>1, <1>2, <1>3, IntakeFits DEF IntakeProofs!BundleOK, IntakeProofs!ShopWebhooks,
    IntakeProofs!PaymentWebhooks

\* What the commit that schedules a job keeps: the job of a hardware order is
\* due when HardwareDelay ticks have passed since its transaction began.
LEMMA CommitKeeps ==
  ASSUME ServiceInv, IntakeProofs!ServiceStep, NEW t \in Slots, CommitJob(t)
  PROVE  /\ since' \in [Orders -> 0..HardwareDelay]
         /\ SentOK'
         /\ \A o \in Orders : WaitOK(o)'
         /\ \A p \in Processes : BusyWaited(p)'
<1>1. PICK c \in Orders : c = tx[t].wh.order /\ tx[t].w.order # Null
  BY CommitOrder DEF ServiceInv
<1>2. /\ job[c].status = "NOT_SCHEDULED"
      /\ UNCHANGED <<worker, sent>>
      /\ \E delay \in 0..HardwareDelay :
           job' = [job EXCEPT ![c] = [Delivery!NoRow EXCEPT !.status = "PENDING",
                                                            !.dueIn = delay]]
  BY <1>1, Zenon DEF CommitJob, Delivery!Schedule
<1>3. orders' = [orders EXCEPT ![c] = tx[t].w.order]
  BY <1>1 DEF CommitJob, Intake!Commit, Intake!CommitLost, Intake!Install, Intake!Installed
<1>4. /\ job'[c].status = "PENDING"
      /\ job'[c].dueIn = Delivery!Remaining(SyncDelay(tx[t].w.order.items), age[t])
      /\ \A o \in Orders \ {c} : job'[o] = job[o]
  BY <1>1, <1>2, DeliveryTypes DEF ServiceInv, CommitJob, Delivery!NoRow
<1>5. /\ since' = [since EXCEPT ![c] = age[t]]
      /\ age[t] \in 0..HardwareDelay
      /\ HardwareDelay \in Nat
  BY <1>1, DeliveryFits DEF CommitJob, ServiceInv
<1>6. orders'[c] = tx[t].w.order
  BY <1>1, <1>3 DEF ServiceInv, IntakeProofs!TypeOK
<1>7. WaitOK(c)'
  BY <1>1, <1>4, <1>5, <1>6 DEF ServiceInv, WaitOK, Hardware, SyncDelay, Delivery!Remaining
<1>8. ASSUME NEW o \in Orders, Scheduled(o)
      PROVE  /\ o # c
             /\ Scheduled(o)'
             /\ Hardware(o)' = Hardware(o)
             /\ since'[o] = since[o]
  <2>1. o # c
    BY <1>2, <1>8 DEF Scheduled
  <2>2. orders'[o].items = orders[o].items
    BY <1>8, ScheduledStored, IntakeKeepsItems DEF ServiceInv
  <2>3. QED
    BY <1>4, <1>5, <1>8, <2>1, <2>2 DEF Scheduled, Hardware, ServiceInv
<1>9. ASSUME NEW o \in Orders, o # c PROVE WaitOK(o)'
  BY <1>4, <1>8, <1>9 DEF ServiceInv, WaitOK, Scheduled
<1>10. SentOK'
  BY <1>2, <1>8, DeliveryTypes DEF ServiceInv, SentOK, Delivery!Busy
<1>11. ASSUME NEW p \in Processes PROVE BusyWaited(p)'
  BY <1>2, <1>8, DeliveryTypes DEF ServiceInv, SentOK, BusyWaited, Delivery!Busy
<1>12. QED
  BY <1>5, <1>7, <1>9, <1>10, <1>11 DEF ServiceInv

\* What the clock keeps: what is left of a due time and what has passed of
\* the delay add up.
LEMMA TickKeeps ==
  ASSUME ServiceInv, Tick
  PROVE  /\ age' \in [Slots -> 0..HardwareDelay]
         /\ since' \in [Orders -> 0..HardwareDelay]
         /\ SentOK'
         /\ \A o \in Orders : WaitOK(o)'
         /\ \A p \in Processes : BusyWaited(p)'
         /\ \A o \in Orders : Scheduled(o)' <=> Scheduled(o)
<1>1. HardwareDelay \in Nat
  BY DeliveryFits
<1>2. age' \in [Slots -> 0..HardwareDelay] /\ since' \in [Orders -> 0..HardwareDelay]
  BY <1>1 DEF ServiceInv, Tick, Older
<1>3. UNCHANGED <<orders, sent>>
  BY DEF Tick, intakeVars, Delivery!Tick
<1>4. ASSUME NEW o \in Orders
      PROVE  /\ job'[o].status = job[o].status
             /\ job[o].dueIn \in Nat
             /\ job'[o].dueIn = Delivery!Remaining(job[o].dueIn, 1)
  <2>1. job[o] \in Delivery!Rows
    BY DeliveryTypes DEF ServiceInv
  <2>2. job'[o] = Delivery!AgedRow(job[o])
    BY DEF Tick, Delivery!Tick
  <2>3. QED
    BY <2>1, <2>2, DeliveryFits DEF Delivery!AgedRow, Delivery!Rows, Delivery!Longest
<1>5. ASSUME NEW o \in Orders, Scheduled(o)
      PROVE  /\ since[o] \in 0..HardwareDelay
             /\ since'[o] = Older(since[o])
  BY <1>5, DeliveryTypes, IntakeFits DEF ServiceInv, Tick, Scheduled, JobStatus,
    Delivery!Rows, Delivery!Statuses, IntakeProofs!JobStatuses
<1>6. ASSUME NEW p \in Processes
      PROVE  worker'[p].pc = worker[p].pc /\ worker'[p].job = worker[p].job
  <2>1. worker[p] \in Delivery!Deliveries
    BY DeliveryTypes DEF ServiceInv
  <2>2. worker'[p] = Delivery!AgedDelivery(worker[p])
    BY DEF Tick, Delivery!Tick
  <2>3. QED
    BY <2>1, <2>2 DEF Delivery!AgedDelivery, Delivery!Deliveries
<1>7. ASSUME NEW o \in Orders PROVE WaitOK(o)'
  BY <1>1, <1>3, <1>4, <1>5 DEF ServiceInv, WaitOK, Scheduled, Hardware, Older,
    Delivery!Remaining
<1>8. ASSUME NEW p \in Processes PROVE BusyWaited(p)'
  BY <1>3, <1>5, <1>6, DeliveryTypes DEF ServiceInv, SentOK, BusyWaited, Hardware, Older,
    Delivery!Busy
<1>9. SentOK'
  BY <1>3, <1>4, <1>6, DeliveryTypes DEF ServiceInv, SentOK, Scheduled, Delivery!Busy
<1>10. QED
  BY <1>2, <1>4, <1>7, <1>8, <1>9 DEF Scheduled

-----------------------------------------------------------------------------
(* The steps of the service are steps of its components.                   *)

LEMMA StepDelivers ==
  ASSUME ServiceInv, [Next]_vars
  PROVE  [Delivery!Next]_(Delivery!vars)
<1>1. Delivery!vars = deliveryVars /\ Delivery!vars' = deliveryVars'
  BY DEF Delivery!vars, deliveryVars
<1>2. ASSUME NEW t \in Slots, NEW wh \in Webhooks, Receive(t, wh) PROVE UNCHANGED deliveryVars
  BY <1>2 DEF Receive
<1>3. ASSUME NEW t \in Slots, Statement(t) \/ Abort(t) PROVE UNCHANGED deliveryVars
  BY <1>3 DEF Statement, Abort
<1>4. ASSUME NEW t \in Slots, CommitJob(t) PROVE Delivery!Next
  <2>1. Delivery!Schedule(tx[t].wh.order) /\ tx[t].wh.order \in Orders
    BY <1>4, CommitOrder DEF ServiceInv, CommitJob
  <2>2. QED
    BY <2>1 DEF Delivery!Next
<1>5. ASSUME NEW p \in Processes, NEW o \in Orders, ClaimDue(p, o) \/ ClaimLost(p, o)
      PROVE  Delivery!Next
  BY <1>5 DEF ClaimDue, ClaimLost, Delivery!Next, Delivery!WorkerStep
<1>6. ASSUME NEW p \in Processes, WorkerStep(p) PROVE Delivery!Next
  <2>1. Delivery!WorkerStep(p)
    BY <1>6, Zenon DEF WorkerStep, Dispatch, Reply, PersistDeliverySuccess, PersistFails, Settle,
      Delivery!WorkerStep
  <2>2. QED
    BY <2>1 DEF Delivery!Next
<1>7. ASSUME NEW p \in Processes, Lifecycle(p) PROVE Delivery!Next \/ UNCHANGED deliveryVars
  <2>1. Delivery!WorkerStep(p) \/ UNCHANGED deliveryVars
    BY <1>7, Zenon DEF Lifecycle, Listen, StartWorker, StopWorker, WorkerExits, Shutdown,
      ClosePool, StopDeadline, Delivery!WorkerStep
  <2>2. QED
    BY <2>1 DEF Delivery!Next
<1>8. ASSUME NEW p \in Processes, ProcessEnds(p) \/ Crash(p)
      PROVE  Delivery!Next \/ UNCHANGED deliveryVars
  <2>1. CASE ctx[p] # "down"
    <3>1. "crash" \in Disturbances
      BY <1>8, <2>1 DEF ProcessEnds, Crash, ServiceInv, ProcessOK
    <3>2. Delivery!Crash(p)
      BY <1>8, <2>1, <3>1 DEF ProcessEnds, Crash, Dies, Delivery!Crash
    <3>3. QED
      BY <3>2 DEF Delivery!Next, Delivery!WorkerStep
  <2>2. CASE ctx[p] = "down"
    <3>1. worker[p] = Delivery!Free
      BY <2>2 DEF ServiceInv, ProcessOK
    <3>2. QED
      BY <1>8, <2>2, <3>1, DeliveryTypes DEF ServiceInv, ProcessEnds, Crash, Dies, deliveryVars
  <2>3. QED
    BY <2>1, <2>2
<1>9. ASSUME NEW o \in Orders, Outside(o) PROVE Delivery!Next
  BY <1>9 DEF Outside, Delivery!Next
<1>10. CASE Tick
  BY <1>10 DEF Tick, Delivery!Next
<1>11. CASE UNCHANGED vars
  BY <1>1, <1>11 DEF vars
<1>12. QED
  BY <1>1, <1>2, <1>3, <1>4, <1>5, <1>6, <1>7, <1>8, <1>9, <1>10, <1>11 DEF Next

\* The intake sees a job change its status.
LEMMA JobsSeen ==
  ASSUME DeliveryProofs!TypeOK, DeliveryProofs!TypeOK', UNCHANGED intakeVars,
         \A o \in Orders : Scheduled(o)' <=> Scheduled(o)
  PROVE  IntakeProofs!ServiceStep
<1>1. \A o \in Orders : job[o].status \in Delivery!Statuses /\ job'[o].status \in Delivery!Statuses
  <2>1. Delivery!TypeOK /\ Delivery!TypeOK'
    BY SameDelivery, PTL
  <2>2. QED
    BY <2>1 DEF Delivery!TypeOK, Delivery!Rows
<1>2. \A o \in Orders : JobStatus(o)' = Null <=> JobStatus(o) = Null
  BY <1>1, IntakeFits DEF JobStatus, Scheduled, Delivery!Statuses, IntakeProofs!JobStatuses
<1>3. \A o \in Orders :
        JobStatus(o)' \in (IntakeProofs!JobStatuses \ {"CANCELLED"}) \cup {Null}
  BY <1>1 DEF JobStatus, Delivery!Statuses, IntakeProofs!JobStatuses
<1>4. IntakeProofs!JobsMove
  BY <1>2, <1>3 DEF IntakeProofs!JobsMove, intakeVars
<1>5. QED
  BY <1>4 DEF IntakeProofs!ServiceStep

\* A process that dies drops its transactions.
LEMMA CrashDrops ==
  ASSUME ServiceInv, NEW p \in Processes, ProcessEnds(p) \/ Crash(p)
  PROVE  IntakeProofs!ServiceStep
<1> DEFINE S == {t \in Slots : Home[t] = p}
<1>1. lock \in [IntakeProofs!LockKeys -> Slots \cup {Null}]
  BY DEF ServiceInv, IntakeProofs!TypeOK
<1>2. Null \notin Slots
  BY IntakeFits
<1>3. Intake!NoTransaction = IntakeProofs!NoTransaction
  BY DEF Intake!NoTransaction, IntakeProofs!NoTransaction, Intake!NoWrites, IntakeProofs!NoWrites
<1>4. lock' = [k \in IntakeProofs!LockKeys |-> IF lock[k] \in S THEN Null ELSE lock[k]]
  BY <1>1, <1>2 DEF ProcessEnds, Crash, Dies
<1>5. tx' = [t \in Slots |-> IF t \in S THEN IntakeProofs!NoTransaction ELSE tx[t]]
  BY <1>3 DEF ProcessEnds, Crash, Dies
<1>6. /\ UNCHANGED <<events, orders, payments, acked>>
      /\ \A o \in Orders : JobStatus(o)' = JobStatus(o)
  BY DEF ProcessEnds, Crash, Dies, JobStatus
<1>7. IntakeProofs!Dropped(S)
  BY <1>4, <1>5, <1>6 DEF IntakeProofs!Dropped, IntakeProofs!Tables
<1>8. QED
  BY <1>7 DEF IntakeProofs!ServiceStep

LEMMA StepServes ==
  ASSUME ServiceInv, DeliveryProofs!TypeOK', [Next]_vars
  PROVE  IntakeProofs!ServiceStep
<1>1. ASSUME NEW t \in Slots, NEW wh \in Webhooks, Receive(t, wh)
      PROVE  IntakeProofs!ServiceStep
  BY <1>1, SameIntake DEF Receive, IntakeProofs!ServiceStep, IntakeProofs!Next
<1>2. ASSUME NEW t \in Slots, Statement(t) \/ Abort(t) PROVE IntakeProofs!ServiceStep
  BY <1>2, SameIntake DEF Statement, Abort, IntakeProofs!ServiceStep, IntakeProofs!Next
<1>3. ASSUME NEW t \in Slots, CommitJob(t) PROVE IntakeProofs!ServiceStep
  BY <1>3, SameIntake DEF CommitJob, IntakeProofs!ServiceStep, IntakeProofs!Next,
    IntakeProofs!Statement
<1>4. ASSUME Delivers, UNCHANGED intakeVars PROVE IntakeProofs!ServiceStep
  BY <1>4, JobsSeen DEF ServiceInv, Delivers, Ripe, Scheduled
<1>5. ASSUME NEW p \in Processes, NEW o \in Orders, ClaimDue(p, o) \/ ClaimLost(p, o)
      PROVE  IntakeProofs!ServiceStep
  BY <1>4, <1>5, ClaimWorks DEF ServiceInv, Working, ClaimDue, ClaimLost
<1>6. ASSUME NEW p \in Processes, WorkerStep(p) PROVE IntakeProofs!ServiceStep
  <2>1. UNCHANGED intakeVars
    BY <1>6, Zenon DEF WorkerStep, Dispatch, Reply, PersistDeliverySuccess, PersistFails, Settle
  <2>2. QED
    BY <1>4, <1>6, <2>1, WorkerWorks DEF ServiceInv, Working
<1>7. ASSUME NEW p \in Processes, Lifecycle(p) PROVE IntakeProofs!ServiceStep
  <2>1. UNCHANGED intakeVars /\ UNCHANGED job
    BY <1>7, Zenon DEF Lifecycle, Listen, StartWorker, StopWorker, WorkerExits, Shutdown,
      ClosePool, StopDeadline, Moves, deliveryVars, Delivery!Start, Delivery!Stop, Delivery!Exit
  <2>2. QED
    BY <2>1, JobsSeen DEF ServiceInv, Scheduled
<1>8. ASSUME NEW p \in Processes, ProcessEnds(p) \/ Crash(p) PROVE IntakeProofs!ServiceStep
  BY <1>8, CrashDrops
<1>9. ASSUME NEW o \in Orders, Outside(o) PROVE IntakeProofs!ServiceStep
  BY <1>4, <1>9, OutsideWorks DEF ServiceInv, Working, Outside
<1>10. CASE Tick
  BY <1>10, TickKeeps, JobsSeen DEF ServiceInv, Tick
<1>11. CASE UNCHANGED vars
  BY <1>11, JobsSeen DEF ServiceInv, vars, deliveryVars, Scheduled
<1>12. QED
  BY <1>1, <1>2, <1>3, <1>5, <1>6, <1>7, <1>8, <1>9, <1>10, <1>11 DEF Next

-----------------------------------------------------------------------------
(* The invariant is preserved.                                             *)

\* Steps that move no process keep what its phase says, if they start no
\* transaction and no delivery of a process that cannot have one.
LEMMA ProcessKept ==
  ASSUME NEW p \in Processes, ProcessOK(p), proc'[p] = proc[p], ctx'[p] = ctx[p],
         worker'[p] # worker[p] =>
           ctx[p] # "down" /\ (worker'[p].pc = "idle" => worker'[p] = Delivery!Free),
         proc[p] \in {"down", "closing"} =>
           \A t \in Slots : Home[t] = p /\ tx[t].pc = "idle" => tx'[t].pc = "idle"
  PROVE  ProcessOK(p)'
BY DEF ProcessOK

\* The hooks of the process q.
LEMMA LifecycleKeepsProcess ==
  ASSUME ServiceInv, NEW q \in Processes, Lifecycle(q), NEW p \in Processes
  PROVE  ProcessOK(p)'
<1>1. UNCHANGED <<worker, tx>>
  BY Zenon DEF Lifecycle, Listen, StartWorker, StopWorker, WorkerExits, Shutdown, ClosePool,
    StopDeadline, Moves, intakeVars, deliveryVars, Delivery!Start, Delivery!Stop, Delivery!Exit
<1>2. /\ ProcessOK(p)
      /\ proc \in [Processes -> Phases]
      /\ ctx \in [Processes -> {"down", "live", "cancelled"}]
  BY DeliveryTypes DEF ServiceInv
<1>3. CASE Listen(q) \/ Shutdown(q) \/ ClosePool(q) \/ StopDeadline(q)
  <2>1. CASE p = q
    BY <1>1, <1>2, <1>3, <2>1 DEF Listen, Shutdown, ClosePool, StopDeadline, Moves, deliveryVars,
      ProcessOK
  <2>2. CASE p # q
    BY <1>1, <1>2, <1>3, <2>2 DEF Listen, Shutdown, ClosePool, StopDeadline, Moves, deliveryVars,
      ProcessOK
  <2>3. QED
    BY <2>1, <2>2
<1>4. CASE StartWorker(q) \/ StopWorker(q)
  BY <1>1, <1>2, <1>4 DEF StartWorker, StopWorker, Moves, Delivery!Start, Delivery!Stop,
    ProcessOK
<1>5. CASE WorkerExits(q)
  <2>1. worker[q] = Delivery!Free
    BY <1>5 DEF ServiceInv, ProcessOK, WorkerExits, Delivery!Exit, Delivery!Busy
  <2>2. QED
    BY <1>1, <1>2, <1>5, <2>1 DEF WorkerExits, Delivery!Exit, ProcessOK
<1>6. QED
  BY <1>3, <1>4, <1>5 DEF Lifecycle

LEMMA StepKeepsProcess ==
  ASSUME ServiceInv, [Next]_vars, NEW p \in Processes
  PROVE  ProcessOK(p)'
<1>1. ProcessOK(p)
  BY DEF ServiceInv
<1>2. ASSUME NEW t \in Slots, NEW wh \in Webhooks, Receive(t, wh) PROVE ProcessOK(p)'
  <2>1. /\ proc[Home[t]] \notin {"down", "closing"}
        /\ UNCHANGED <<worker, ctx, proc>>
        /\ \A u \in Slots \ {t} : tx'[u] = tx[u]
    BY <1>2 DEF Receive, Serving, deliveryVars, Intake!Receive, ServiceInv, IntakeProofs!TypeOK
  <2>2. QED
    BY <1>1, <2>1, ProcessKept
<1>3. ASSUME NEW t \in Slots, Statement(t) \/ Abort(t) \/ CommitJob(t) PROVE ProcessOK(p)'
  <2>1. UNCHANGED <<worker, ctx, proc>>
    BY <1>3, Zenon DEF Statement, Abort, CommitJob, deliveryVars, Delivery!Schedule
  <2>2. IntakeProofs!Statement(t) \/ IntakeProofs!Abort(t)
    BY <1>3, SameIntake DEF Statement, Abort, CommitJob, IntakeProofs!Statement
  <2>3. \A u \in Slots : tx[u].pc = "idle" => tx'[u].pc = "idle"
    BY <2>2, IntakeStaysIdle DEF ServiceInv
  <2>4. proc'[p] = proc[p] /\ ctx'[p] = ctx[p] /\ worker'[p] = worker[p]
    BY <2>1
  <2>5. QED
    BY <1>1, <2>3, <2>4, ProcessKept, Zenon
<1>4. ASSUME Working, UNCHANGED <<tx, proc>> PROVE ProcessOK(p)'
  BY <1>1, <1>4, ProcessKept DEF Working
<1>5. ASSUME NEW q \in Processes, NEW o \in Orders, ClaimDue(q, o) \/ ClaimLost(q, o)
      PROVE  ProcessOK(p)'
  BY <1>4, <1>5, ClaimWorks DEF ServiceInv, ClaimDue, ClaimLost, intakeVars
<1>6. ASSUME NEW q \in Processes, WorkerStep(q) PROVE ProcessOK(p)'
  <2>1. UNCHANGED <<tx, proc>>
    BY <1>6, Zenon DEF WorkerStep, Dispatch, Reply, PersistDeliverySuccess, PersistFails, Settle,
      intakeVars
  <2>2. QED
    BY <1>4, <1>6, <2>1, WorkerWorks DEF ServiceInv
<1>7. ASSUME NEW q \in Processes, Lifecycle(q) PROVE ProcessOK(p)'
  BY <1>7, LifecycleKeepsProcess
<1>8. ASSUME NEW q \in Processes, ProcessEnds(q) \/ Crash(q) PROVE ProcessOK(p)'
  <2>1. CASE p = q
    <3>1. /\ proc'[p] = "down"
          /\ ctx'[p] = "down"
          /\ worker'[p] = Delivery!Free
          /\ \A t \in Slots : Home[t] = p => tx'[t].pc = "idle"
      BY <1>8, <2>1, DeliveryTypes DEF ServiceInv, ProcessEnds, Crash, Dies,
        Intake!NoTransaction
    <3>2. QED
      BY <3>1 DEF ProcessOK
  <2>2. CASE p # q
    <3>1. /\ proc'[p] = proc[p]
          /\ ctx'[p] = ctx[p]
          /\ worker'[p] = worker[p]
          /\ \A t \in Slots : Home[t] = p => tx'[t] = tx[t]
      BY <1>8, <2>2, DeliveryTypes DEF ServiceInv, ProcessEnds, Crash, Dies
    <3>2. QED
      BY <1>1, <3>1, ProcessKept
  <2>3. QED
    BY <2>1, <2>2
<1>9. ASSUME NEW o \in Orders, Outside(o) PROVE ProcessOK(p)'
  BY <1>4, <1>9, OutsideWorks DEF ServiceInv, Outside, intakeVars
<1>10. CASE Tick
  <2>1. UNCHANGED <<tx, ctx, proc>> /\ worker'[p] = Delivery!AgedDelivery(worker[p])
    BY <1>10 DEF Tick, intakeVars, Delivery!Tick
  <2>2. worker[p] \in Delivery!Deliveries
    BY DeliveryTypes DEF ServiceInv
  <2>3. worker[p].pc # "idle" => worker'[p].pc # "idle"
    BY <2>1, <2>2 DEF Delivery!AgedDelivery, Delivery!Deliveries
  <2>4. worker[p].pc = "idle" => worker'[p] = worker[p]
    BY <2>1 DEF Delivery!AgedDelivery
  <2>5. ctx[p] = "down" => worker[p].pc = "idle"
    BY <1>1 DEF ProcessOK, Delivery!Free
  <2>6. worker'[p] # worker[p] =>
          ctx[p] # "down" /\ (worker'[p].pc = "idle" => worker'[p] = Delivery!Free)
    BY <2>3, <2>4, <2>5
  <2>7. QED
    BY <1>1, <2>1, <2>6, ProcessKept
<1>11. CASE UNCHANGED vars
  BY <1>1, <1>11, ProcessKept DEF vars, intakeVars, deliveryVars
<1>12. QED
  BY <1>2, <1>3, <1>5, <1>6, <1>7, <1>8, <1>9, <1>10, <1>11 DEF Next

\* The phases and the clocks of a step that is not a tick.
LEMMA StepTimes ==
  ASSUME ServiceInv, [Next]_vars
  PROVE  /\ proc' \in [Processes -> Phases]
         /\ age' \in [Slots -> 0..HardwareDelay]
<1>1. /\ proc \in [Processes -> Phases]
      /\ age \in [Slots -> 0..HardwareDelay]
      /\ 0 \in 0..HardwareDelay
  BY DeliveryFits DEF ServiceInv
<1>2. CASE \/ \E t \in Slots, wh \in Webhooks : Receive(t, wh)
           \/ \E t \in Slots : Statement(t) \/ CommitJob(t) \/ Abort(t)
  BY <1>1, <1>2 DEF Receive, Statement, CommitJob, Abort
<1>3. CASE \/ \E p \in Processes, o \in Orders : ClaimDue(p, o) \/ ClaimLost(p, o)
           \/ \E p \in Processes : WorkerStep(p)
           \/ \E o \in Orders : Outside(o)
           \/ UNCHANGED vars
  <2>1. UNCHANGED <<proc, age>>
    BY <1>3, Zenon DEF ClaimDue, ClaimLost, WorkerStep, Dispatch, Reply, PersistDeliverySuccess,
      PersistFails, Settle, Outside, vars
  <2>2. QED
    BY <1>1, <2>1
<1>4. CASE \E p \in Processes : Lifecycle(p) \/ ProcessEnds(p) \/ Crash(p)
  <2>1. /\ UNCHANGED age
        /\ \/ UNCHANGED proc
           \/ \E p \in Processes, to \in Phases : proc' = [proc EXCEPT ![p] = to]
    BY <1>4, Zenon DEF Lifecycle, Listen, StartWorker, StopWorker, WorkerExits, Shutdown,
      ClosePool, StopDeadline, Moves, ProcessEnds, Crash, Dies, Phases
  <2>2. QED
    BY <1>1, <2>1
<1>5. CASE Tick
  BY <1>1, <1>5, TickKeeps DEF Tick
<1>6. QED
  BY <1>2, <1>3, <1>4, <1>5 DEF Next

\* What the jobs and their clocks keep.
LEMMA StepWaits ==
  ASSUME ServiceInv, [Next]_vars, DeliveryProofs!TypeOK', IntakeProofs!ServiceStep
  PROVE  /\ since' \in [Orders -> 0..HardwareDelay]
         /\ SentOK'
         /\ \A o \in Orders : WaitOK(o)'
         /\ \A p \in Processes : BusyWaited(p)'
<1> DEFINE Kept == /\ since' \in [Orders -> 0..HardwareDelay]
                   /\ SentOK'
                   /\ \A o \in Orders : WaitOK(o)'
                   /\ \A p \in Processes : BusyWaited(p)'
<1> SUFFICES Kept
  OBVIOUS
<1>1. ASSUME UNCHANGED <<deliveryVars, since>> PROVE Kept
  BY <1>1, IntakeStepKeeps DEF ServiceInv
<1>2. ASSUME Delivers, UNCHANGED <<orders, since>> PROVE Kept
  BY <1>2, DeliversKeeps DEF ServiceInv
<1>3. ASSUME NEW t \in Slots, CommitJob(t) PROVE Kept
  BY <1>3, CommitKeeps
<1>4. ASSUME Tick PROVE Kept
  BY <1>4, TickKeeps
<1> HIDE DEF Kept
<1>5. ASSUME NEW t \in Slots, NEW wh \in Webhooks, Receive(t, wh) PROVE Kept
  BY <1>1, <1>5 DEF Receive
<1>6. ASSUME NEW t \in Slots, Statement(t) \/ Abort(t) PROVE Kept
  BY <1>1, <1>6 DEF Statement, Abort
<1>7. ASSUME NEW p \in Processes, NEW o \in Orders, ClaimDue(p, o) \/ ClaimLost(p, o)
      PROVE  Kept
  BY <1>2, <1>7, ClaimWorks DEF ServiceInv, Working, ClaimDue, ClaimLost, intakeVars
<1>8. ASSUME NEW p \in Processes, WorkerStep(p) PROVE Kept
  <2>1. UNCHANGED <<orders, since>>
    BY <1>8, Zenon DEF WorkerStep, Dispatch, Reply, PersistDeliverySuccess, PersistFails, Settle,
      intakeVars
  <2>2. QED
    BY <1>2, <1>8, <2>1, WorkerWorks DEF ServiceInv, Working
<1>9. ASSUME NEW p \in Processes, Lifecycle(p) PROVE Kept
  <2>1. UNCHANGED <<job, worker, sent, calls, orders, since>>
    BY <1>9, Zenon DEF Lifecycle, Listen, StartWorker, StopWorker, WorkerExits, Shutdown,
      ClosePool, StopDeadline, Moves, intakeVars, deliveryVars, Delivery!Start, Delivery!Stop, Delivery!Exit
  <2>2. QED
    BY <1>2, <2>1, RestDelivers DEF ServiceInv
<1>10. ASSUME NEW p \in Processes, ProcessEnds(p) \/ Crash(p) PROVE Kept
  <2>1. /\ UNCHANGED <<job, sent, calls, orders, since>>
        /\ \A q \in Processes : worker'[q] \in {worker[q], Delivery!Free}
    BY <1>10, DeliveryTypes DEF ServiceInv, ProcessEnds, Crash, Dies
  <2>2. QED
    BY <1>2, <2>1, RestDelivers DEF ServiceInv
<1>11. ASSUME NEW o \in Orders, Outside(o) PROVE Kept
  BY <1>2, <1>11, OutsideWorks DEF ServiceInv, Working, Outside, intakeVars
<1>12. CASE UNCHANGED vars
  BY <1>1, <1>12 DEF vars
<1>13. QED
  BY <1>5, <1>6, <1>3, <1>7, <1>8, <1>9, <1>10, <1>11, <1>4, <1>12, Zenon DEF Next

LEMMA StepKeeps == ServiceInv /\ [Next]_vars => ServiceInv'
<1> SUFFICES ASSUME ServiceInv, [Next]_vars PROVE ServiceInv'
  OBVIOUS
<1>1. DeliveryProofs!TypeOK'
  <2>1. [DeliveryProofs!Next]_(DeliveryProofs!vars)
    BY StepDelivers, SameDelivery DEF Delivery!vars, DeliveryProofs!vars
  <2>2. QED
    BY <2>1, DeliveryKeeps DEF ServiceInv
<1>2. IntakeProofs!ServiceStep
  BY <1>1, StepServes
<1>3. IntakeProofs!TypeOK' /\ IntakeProofs!IntakeInv' /\ IntakeProofs!LocksInv'
  BY <1>2, IntakeKeeps DEF ServiceInv
<1>4. QED
  BY <1>1, <1>2, <1>3, StepKeepsProcess, StepTimes, StepWaits DEF ServiceInv

LEMMA NothingServed == Init => ServiceInv
<1> SUFFICES ASSUME Init PROVE ServiceInv
  OBVIOUS
<1>1. /\ IntakeProofs!TypeOK /\ IntakeProofs!IntakeInv /\ IntakeProofs!LocksInv
      /\ DeliveryProofs!TypeOK
  BY NothingYet DEF Init
<1>2. /\ proc \in [Processes -> Phases]
      /\ age \in [Slots -> 0..HardwareDelay]
      /\ since \in [Orders -> 0..HardwareDelay]
  BY DeliveryFits DEF Init, Phases
<1>3. ASSUME NEW p \in Processes PROVE ProcessOK(p) /\ BusyWaited(p)
  BY DEF Init, Delivery!Init, Intake!Init, Intake!NoTransaction, Delivery!Free, Delivery!Busy,
    ProcessOK, BusyWaited
<1>4. \A o \in Orders : ~Scheduled(o)
  BY DEF Init, Delivery!Init, Delivery!NoRow, Scheduled
<1>5. SentOK
  BY DEF Init, Delivery!Init, Delivery!Free, Delivery!Busy, SentOK
<1>6. QED
  BY <1>1, <1>2, <1>3, <1>4, <1>5 DEF ServiceInv, WaitOK

LEMMA ServiceSafe == Spec => []ServiceInv
BY NothingServed, StepKeeps, PTL DEF Spec

-----------------------------------------------------------------------------
(* Theorems.                                                               *)

\* The whole service keeps its types: no interleaving of webhooks, worker,
\* hooks and crashes leads to a row, transaction or phase the code cannot
\* have.
THEOREM TypeCorrect == Spec => []TypeOK
<1>1. ServiceInv => TypeOK
  BY SameIntake, SameDelivery DEF ServiceInv, TypeOK
<1>2. QED
  BY <1>1, ServiceSafe, PTL

\* What the service does to the jobs is what SyncJobs says its workers do:
\* any number of processes, started and stopped by their hooks, killed, and
\* fed by webhook transactions, implement the specification of the delivery.
\* So every safety property of SyncJobs is one of the service.
THEOREM DeliveryImplemented == Spec => Delivery!Spec
<1>1. Init => Delivery!Init
  BY DEF Init
<1>2. ServiceInv /\ [Next]_vars => [Delivery!Next]_(Delivery!vars)
  BY StepDelivers
<1>3. QED
  BY <1>1, <1>2, ServiceSafe, PTL DEF Spec, Delivery!Spec

\* A worker that is cancelled or gone claims nothing, and leaves the row of
\* its job as it is when it ends.
LEMMA CancelledIsHarmless ==
  ASSUME DeliveryProofs!TypeOK, [Delivery!Next]_(Delivery!vars), NEW p \in Processes,
         ctx[p] # "live"
  PROVE  /\ worker'[p].pc # "idle" => worker'[p].job = worker[p].job
         /\ Delivery!Busy(p) /\ worker'[p].pc = "idle" =>
              job'[worker[p].job] = job[worker[p].job]
<1> DEFINE Harmless == \/ worker'[p].pc # "idle" /\ worker'[p].job = worker[p].job
                       \/ worker'[p].pc = "idle" /\ (UNCHANGED job \/ ~Delivery!Busy(p))
<1> SUFFICES Harmless
  OBVIOUS
<1>1. /\ worker \in [Processes -> Delivery!Deliveries]
      /\ worker[p] \in Delivery!Deliveries
  BY DeliveryTypes
<1>2. ASSUME worker'[p] = worker[p] PROVE Harmless
  BY <1>2 DEF Delivery!Busy
<1>3. ASSUME worker'[p].pc # "idle", worker'[p].job = worker[p].job PROVE Harmless
  BY <1>3
<1>4. ASSUME worker' = [worker EXCEPT ![p] = Delivery!Free], UNCHANGED job PROVE Harmless
  BY <1>1, <1>4 DEF Delivery!Free
<1> HIDE DEF Harmless
<1>5. ASSUME NEW w \in Processes, Delivery!WorkerStep(w), w # p PROVE Harmless
  <2>1. worker'[p] = worker[p]
    BY <1>1, <1>5 DEF Delivery!WorkerStep, Delivery!ClaimDue, Delivery!ClaimLost, Delivery!GiveUp,
      Delivery!GiveUpFails, Delivery!Dispatch, Delivery!Reply, Delivery!HandleDeliveryFailure,
      Delivery!HandleDeliveryFailureFails, Delivery!PersistDeliverySuccess,
      Delivery!PersistFails, Delivery!PersistAckLost, Delivery!MarkUnsaved,
      Delivery!MarkUnsavedFails, Delivery!Start, Delivery!Stop, Delivery!Exit, Delivery!Crash
  <2>2. QED
    BY <1>2, <2>1
<1>6. CASE Delivery!WorkerStep(p)
  <2>1. ~Delivery!CanWrite(p)
    BY DEF Delivery!CanWrite
  <2>2. CASE \/ Delivery!GiveUpFails(p) \/ Delivery!HandleDeliveryFailureFails(p)
             \/ Delivery!MarkUnsavedFails(p) \/ Delivery!Crash(p)
    BY <1>4, <2>2, Zenon DEF Delivery!GiveUpFails, Delivery!HandleDeliveryFailureFails,
      Delivery!MarkUnsavedFails, Delivery!Crash
  <2>3. CASE Delivery!Start(p) \/ Delivery!Stop(p) \/ Delivery!Exit(p)
    BY <1>2, <2>3 DEF Delivery!Start, Delivery!Stop, Delivery!Exit
  <2>4. CASE Delivery!Dispatch(p)
    <3>1. worker'[p] = [worker[p] EXCEPT !.pc = "posting", !.waitAge = Null]
      BY <1>1, <2>4 DEF Delivery!Dispatch
    <3>2. worker'[p].pc # "idle" /\ worker'[p].job = worker[p].job
      BY <1>1, <3>1 DEF Delivery!Deliveries
    <3>3. QED
      BY <1>3, <3>2
  <2>5. ASSUME NEW reply, Delivery!Reply(p, reply) PROVE Harmless
    <3>1. worker'[p] = [worker[p] EXCEPT !.pc = "replied", !.reply = reply]
      BY <1>1, <2>5 DEF Delivery!Reply
    <3>2. worker'[p].pc # "idle" /\ worker'[p].job = worker[p].job
      BY <1>1, <3>1 DEF Delivery!Deliveries
    <3>3. QED
      BY <1>3, <3>2
  <2>6. CASE Delivery!PersistFails(p)
    <3>1. worker'[p] = [worker[p] EXCEPT !.pc = "unsaved"]
      BY <1>1, <2>6 DEF Delivery!PersistFails
    <3>2. worker'[p].pc # "idle" /\ worker'[p].job = worker[p].job
      BY <1>1, <3>1 DEF Delivery!Deliveries
    <3>3. QED
      BY <1>3, <3>2
  <2>7. QED
    BY <1>6, <2>1, <2>2, <2>3, <2>4, <2>5, <2>6, Zenon DEF Delivery!WorkerStep,
      Delivery!ClaimDue, Delivery!ClaimLost, Delivery!GiveUp, Delivery!HandleDeliveryFailure,
      Delivery!PersistDeliverySuccess, Delivery!PersistAckLost, Delivery!MarkUnsaved
<1>7. ASSUME NEW o \in Orders, Delivery!Schedule(o) \/ Delivery!SapAccepts(o) \/ Delivery!Replay(o)
      PROVE  Harmless
  BY <1>2, <1>7 DEF Delivery!Schedule, Delivery!SapAccepts, Delivery!Replay
<1>8. CASE Delivery!Tick
  <2>1. worker'[p] = Delivery!AgedDelivery(worker[p])
    BY <1>8 DEF Delivery!Tick
  <2>2. CASE worker[p].pc = "idle"
    BY <1>2, <2>1, <2>2 DEF Delivery!AgedDelivery
  <2>3. CASE worker[p].pc # "idle"
    BY <1>1, <2>1, <2>3 DEF Harmless, Delivery!AgedDelivery, Delivery!Deliveries
  <2>4. QED
    BY <2>2, <2>3
<1>9. CASE UNCHANGED Delivery!vars
  BY <1>2, <1>9 DEF Delivery!vars
<1>10. QED
  BY <1>5, <1>6, <1>7, <1>8, <1>9 DEF Delivery!Next

\* A process that has closed its pool begins no transaction.
LEMMA ClosedTakesNothing ==
  ASSUME ServiceInv, [Next]_vars, NEW p \in Processes, PoolClosed(p), NEW t \in Slots,
         Home[t] = p, tx[t].pc = "idle"
  PROVE  tx'[t].pc = "idle"
<1>1. ASSUME UNCHANGED tx PROVE tx'[t].pc = "idle"
  BY <1>1
<1>2. ASSUME NEW u \in Slots, NEW wh \in Webhooks, Receive(u, wh) PROVE tx'[t].pc = "idle"
  <2>1. u # t
    BY <1>2 DEF Receive, Serving, PoolClosed
  <2>2. QED
    BY <1>2, <2>1 DEF Receive, Intake!Receive, ServiceInv, IntakeProofs!TypeOK
<1>3. ASSUME NEW u \in Slots, Statement(u) \/ Abort(u) \/ CommitJob(u)
      PROVE  tx'[t].pc = "idle"
  <2>1. IntakeProofs!Statement(u) \/ IntakeProofs!Abort(u)
    BY <1>3, SameIntake DEF Statement, Abort, CommitJob, IntakeProofs!Statement
  <2>2. QED
    BY <2>1, IntakeStaysIdle DEF ServiceInv
<1>4. ASSUME NEW q \in Processes, ProcessEnds(q) \/ Crash(q) PROVE tx'[t].pc = "idle"
  BY <1>4 DEF ProcessEnds, Crash, Dies, Intake!NoTransaction
<1>5. ASSUME \/ \E q \in Processes, o \in Orders : ClaimDue(q, o) \/ ClaimLost(q, o)
             \/ \E q \in Processes : WorkerStep(q) \/ Lifecycle(q)
             \/ \E o \in Orders : Outside(o)
             \/ Tick
             \/ UNCHANGED vars
      PROVE  UNCHANGED tx
  BY <1>5, Zenon DEF ClaimDue, ClaimLost, WorkerStep, Dispatch, Reply, PersistDeliverySuccess,
    PersistFails, Settle, Lifecycle, Listen, StartWorker, StopWorker, WorkerExits, Shutdown,
    ClosePool, StopDeadline, Moves, Outside, Tick, vars, intakeVars
<1>6. QED
  BY <1>1, <1>2, <1>3, <1>4, <1>5, Zenon DEF Next

\* RegisterLifecycle's order of stops, for any number of processes: in time,
\* the pool is closed on nobody; past the stop deadline it is closed on open
\* requests and on a worker that was cancelled long before, which claims
\* nothing any more and leaves the row of its job to the next claimant.
THEOREM PoolSafe == Spec => ClosedPoolIsQuiet
<1> DEFINE Quiet(p) ==
      PoolClosed(p) =>
        /\ proc[p] = "closing" =>
             ~Delivery!Busy(p) /\ \A t \in Slots : Home[t] = p => tx[t].pc = "idle"
        /\ \A t \in Slots : Home[t] = p /\ tx[t].pc = "idle" => tx'[t].pc = "idle"
        /\ worker'[p].pc # "idle" => worker'[p].job = worker[p].job
        /\ Delivery!Busy(p) /\ worker'[p].pc = "idle" =>
             job'[worker[p].job] = job[worker[p].job]
<1>1. ASSUME ServiceInv, [Next]_vars, NEW p \in Processes PROVE Quiet(p)
  <2> SUFFICES ASSUME PoolClosed(p) PROVE Quiet(p)
    OBVIOUS
  <2>1. /\ ctx[p] # "live"
        /\ proc[p] = "closing" =>
             ~Delivery!Busy(p) /\ \A t \in Slots : Home[t] = p => tx[t].pc = "idle"
    BY <1>1 DEF ServiceInv, ProcessOK, PoolClosed, Delivery!Busy, Delivery!Free
  <2>2. \A t \in Slots : Home[t] = p /\ tx[t].pc = "idle" => tx'[t].pc = "idle"
    BY <1>1, ClosedTakesNothing
  <2>3. [Delivery!Next]_(Delivery!vars)
    BY <1>1, StepDelivers
  <2>4. QED
    BY <1>1, <2>1, <2>2, <2>3, CancelledIsHarmless DEF ServiceInv
<1>2. ServiceInv /\ [Next]_vars => [\A p \in Processes : Quiet(p)]_vars
  BY <1>1
<1>3. QED
  BY <1>2, ServiceSafe, PTL DEF Spec, ClosedPoolIsQuiet

\* SAP sees only orders that are PAID by a completed, linked payment, and
\* they stay so while requests for them are under way: a job is there only
\* with such an order, and no transaction ever finds a job to cancel.
THEOREM PaidSafe == Spec => []OnlyPaidSent
<1>1. ServiceInv => OnlyPaidSent
  <2> SUFFICES ASSUME ServiceInv PROVE OnlyPaidSent
    OBVIOUS
  <2>1. IntakeProofs!PaidIffScheduled /\ IntakeProofs!CancelledIsQuiet
    BY IntakeFits, IntakeProofs!RowsConsistent, IntakeProofs!RowsQuiet DEF ServiceInv
  <2>2. ASSUME NEW o \in sent
        PROVE  Intake!FindStatus(o).status = "PAID" /\ Intake!FindStatus(o).payment = "COMPLETED"
    <3>1. o \in Orders /\ Scheduled(o)
      BY DeliveryTypes DEF ServiceInv, SentOK
    <3>2. JobStatus(o) \notin {Null, "NOT_SCHEDULED", "CANCELLED"}
      BY <3>1, DeliveryTypes, IntakeFits DEF ServiceInv, JobStatus, Scheduled, Delivery!Rows,
        Delivery!Statuses, IntakeProofs!JobStatuses
    <3>3. IntakeProofs!FindStatus(o).sync \notin {"NOT_SCHEDULED", "CANCELLED"}
      BY <3>1, <3>2 DEF IntakeProofs!FindStatus
    <3>4. /\ IntakeProofs!FindStatus(o).status = "PAID"
          /\ IntakeProofs!FindStatus(o).payment = "COMPLETED"
      BY <2>1, <3>1, <3>3 DEF IntakeProofs!PaidIffScheduled
    <3>5. QED
      BY <3>4 DEF Intake!FindStatus, IntakeProofs!FindStatus
  <2>3. QED
    BY <2>1, <2>2 DEF OnlyPaidSent, IntakeProofs!CancelledIsQuiet
<1>2. QED
  BY <1>1, ServiceSafe, PTL

\* The intake keeps its promises while workers, hooks and crashes that take
\* several transactions at once interfere: the outbox is consistent, a
\* cancelled order has no job, a request answered with a 2xx has taken effect,
\* and no shop webhook is part of a deadlock.
THEOREM IntakeInService ==
  Spec => [](/\ Intake!PaidIffScheduled
             /\ Intake!CancelledIsQuiet
             /\ Intake!AckedTookEffect
             /\ Intake!OnlyPaymentsDeadlock)
<1>1. ServiceInv => /\ IntakeProofs!PaidIffScheduled /\ IntakeProofs!CancelledIsQuiet
                    /\ IntakeProofs!AckedTookEffect /\ IntakeProofs!OnlyPaymentsDeadlock
  BY IntakeFits, IntakeProofs!RowsConsistent, IntakeProofs!RowsQuiet, IntakeProofs!AckedHolds,
     IntakeProofs!CirclesArePayments DEF ServiceInv
<1>2. /\ IntakeProofs!PaidIffScheduled => Intake!PaidIffScheduled
      /\ IntakeProofs!CancelledIsQuiet => Intake!CancelledIsQuiet
  BY Zenon DEF IntakeProofs!PaidIffScheduled, Intake!PaidIffScheduled,
    IntakeProofs!CancelledIsQuiet, Intake!CancelledIsQuiet, IntakeProofs!FindStatus,
    Intake!FindStatus
<1>3. IntakeProofs!AckedTookEffect => Intake!AckedTookEffect
  BY Zenon DEF IntakeProofs!AckedTookEffect, Intake!AckedTookEffect, IntakeProofs!Key,
    Intake!Key, IntakeProofs!StoredItems, Intake!StoredItems, IntakeProofs!StoredPrice,
    Intake!StoredPrice, IntakeProofs!ToBag, Intake!ToBag, IntakeProofs!Range, Intake!Range,
    IntakeProofs!Cardinality, Intake!Cardinality
<1>4. IntakeProofs!OnlyPaymentsDeadlock => Intake!OnlyPaymentsDeadlock
  BY Zenon DEF IntakeProofs!OnlyPaymentsDeadlock, Intake!OnlyPaymentsDeadlock,
    IntakeProofs!Deadlocked, Intake!Deadlocked, IntakeProofs!Holder, Intake!Holder,
    IntakeProofs!Blocked, Intake!Blocked, IntakeProofs!Wants, Intake!Wants, IntakeProofs!Key,
    Intake!Key, IntakeProofs!OrderKey, Intake!OrderKey, IntakeProofs!PaymentKey,
    Intake!PaymentKey
<1>5. QED
  BY <1>1, <1>2, <1>3, <1>4, ServiceSafe, PTL

\* SAP is called for ripe jobs only.
LEMMA CallsAreRipe ==
  ASSUME ServiceInv, [Next]_vars, NEW o \in Orders, calls'[o] > calls[o]
  PROVE  Ripe(o)
<1>1. calls' # calls
  BY DeliveryTypes DEF ServiceInv
<1>2. ~ \E t \in Slots, wh \in Webhooks : Receive(t, wh)
  BY <1>1 DEF Receive, deliveryVars
<1>3. ~ \E t \in Slots : Statement(t) \/ CommitJob(t) \/ Abort(t)
  BY <1>1, Zenon DEF Statement, CommitJob, Abort, deliveryVars, Delivery!Schedule
<1>4. ~ \E p \in Processes : Lifecycle(p) \/ ProcessEnds(p) \/ Crash(p)
  BY <1>1, Zenon DEF Lifecycle, Listen, StartWorker, StopWorker, WorkerExits, Shutdown,
    ClosePool, StopDeadline, ProcessEnds, Crash, Dies, deliveryVars, Delivery!Start, Delivery!Stop, Delivery!Exit
<1>5. ~Tick /\ ~UNCHANGED vars
  BY <1>1 DEF Tick, Delivery!Tick, vars, deliveryVars
<1>6. Working
  <2>1. DeliveryProofs!TypeOK /\ SentOK /\ \A p \in Processes : ProcessOK(p)
    BY DEF ServiceInv
  <2>2. QED
    BY <1>2, <1>3, <1>4, <1>5, <2>1, ClaimWorks, WorkerWorks, OutsideWorks, Zenon
    DEF Next, ClaimDue, ClaimLost
<1>7. QED
  BY <1>6 DEF Working, Delivers

\* HARDWARE_SYNC_DELAY_SECONDS is kept from the webhook that completed the
\* order on, whichever came second, for every retry, stale claim, replay and
\* restart, and however long the transaction that scheduled the job took.
THEOREM HardwareSafe == Spec => HardwareWaits
<1>1. ServiceInv /\ [Next]_vars =>
        [\A o \in Orders : calls'[o] > calls[o] /\ Intake!HasHardware(orders[o].items) =>
           since[o] = HardwareDelay]_vars
  BY CallsAreRipe, RipeWaited DEF Hardware
<1>2. QED
  BY <1>1, ServiceSafe, PTL DEF Spec, HardwareWaits

\* What one webhook of an order at a time gives the whole service: order and
\* payment are reconciled, whatever the workers, crashes and the webhooks of
\* other orders do meanwhile.
THEOREM SerialReconciled == Spec /\ []IntakeProofs!OneAtATime => []Reconciled
<1>1. Init => IntakeProofs!AgreeInv
  BY NothingYet DEF Init
<1>2. /\ ServiceInv /\ ServiceInv' /\ [Next]_vars
      /\ IntakeProofs!OneAtATime /\ IntakeProofs!AgreeInv
      => IntakeProofs!AgreeInv'
  BY StepServes, IntakeAgrees DEF ServiceInv
<1>3. IntakeProofs!AgreeInv => Reconciled
  <2>1. IntakeProofs!AgreeInv => IntakeProofs!Reconciled
    BY IntakeFits, IntakeProofs!AgreementReconciles
  <2>2. QED
    BY <2>1 DEF Reconciled, Intake!Reconciled, IntakeProofs!Reconciled
<1>4. QED
  BY <1>1, <1>2, <1>3, ServiceSafe, PTL DEF Spec

\* The leases of the delivery hold in the service, too: one process at a time
\* works on a job, its writes land on its own claim, SAP_MAX_ATTEMPTS bounds
\* the calls, and jobs move as the Outbox says, if a delivery is shorter than
\* the lease.
THEOREM LeasesInService ==
  ASSUME MaxHold < StaleAfter
  PROVE  Spec => /\ [](Delivery!OneClaimant /\ Delivery!HolderOwnsRow /\ Delivery!AttemptBudget)
                 /\ Delivery!ImplementsOutbox
<1>1. DeliveryProofs!Spec => /\ []DeliveryProofs!OneClaimant
                             /\ []DeliveryProofs!HolderOwnsRow
                             /\ []DeliveryProofs!AttemptBudget
                             /\ DeliveryProofs!ImplementsOutbox
  BY DeliveryFits, DeliveryProofs!ClaimExclusive, DeliveryProofs!LeaseSafe,
     DeliveryProofs!BudgetSafe, DeliveryProofs!OutboxImplemented
<1>2. /\ DeliveryProofs!OneClaimant => Delivery!OneClaimant
      /\ DeliveryProofs!HolderOwnsRow => Delivery!HolderOwnsRow
      /\ DeliveryProofs!AttemptBudget => Delivery!AttemptBudget
  BY DEF DeliveryProofs!OneClaimant, Delivery!OneClaimant, DeliveryProofs!HolderOwnsRow,
    Delivery!HolderOwnsRow, DeliveryProofs!AttemptBudget, Delivery!AttemptBudget,
    DeliveryProofs!Busy, Delivery!Busy
<1>3. DeliveryProofs!ImplementsOutbox => Delivery!ImplementsOutbox
  BY DEF DeliveryProofs!ImplementsOutbox, Delivery!ImplementsOutbox,
    DeliveryProofs!Phase, Delivery!Phase, DeliveryProofs!Promise!Spec,
    Delivery!Promise!Spec, DeliveryProofs!Promise!Init, Delivery!Promise!Init,
    DeliveryProofs!Promise!Next, Delivery!Promise!Next, DeliveryProofs!Promise!vars,
    Delivery!Promise!vars, DeliveryProofs!Promise!Moves, Delivery!Promise!Moves,
    DeliveryProofs!Promise!Open, Delivery!Promise!Open, DeliveryProofs!Promise!Call,
    Delivery!Promise!Call, DeliveryProofs!Promise!Sync, Delivery!Promise!Sync,
    DeliveryProofs!Promise!Die, Delivery!Promise!Die, DeliveryProofs!Promise!Reopen,
    Delivery!Promise!Reopen, DeliveryProofs!Promise!Undo, Delivery!Promise!Undo
<1>4. QED
  BY <1>1, <1>2, <1>3, DeliveryImplemented, SameSpec, PTL
=============================================================================
