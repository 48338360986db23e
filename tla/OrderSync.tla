------------------------------ MODULE OrderSync -----------------------------
(***************************************************************************)
(* The whole service: processes that take webhooks in (module Webhooks),   *)
(* deliver jobs to SAP (module SyncJobs) and are started and stopped by    *)
(* the hooks of internal/app/lifecycle.go, over one database.              *)
(*                                                                         *)
(* The components meet in the rows: the commit of a webhook transaction    *)
(* that marked its order PAID schedules the order's job, due at a time     *)
(* that counts from the start of the transaction and depends on what the   *)
(* order contains; ClaimDue passes over the jobs of cancelled orders; and  *)
(* MarkSynced, which writes sap_id, waits for a transaction that has       *)
(* locked the order.                                                       *)
(***************************************************************************)
EXTENDS Naturals

CONSTANTS
  Emails, SKUs, Catalog, Fractions, Orders, EventIds, Stamps, Webhooks, Slots,
  MaxAttempts, MaxTotalAttempts, HardwareDelay, BaseDelay, MaxRetryDelay, StaleAfter,
  RecoveryWindow, MaxHold, Disturbances, Null,
  Processes,   \* the service's processes, each with one worker
  Home         \* the process that serves each slot

ASSUME HomeAssumption == Home \in [Slots -> Processes]

VARIABLES
  events, orders, payments, lock, tx, acked,
  job, worker, ctx, sent, accepted, sapIds, calls,
  proc,    \* how far each process is in its hooks
  age,     \* ticks since each open transaction began, up to HardwareDelay
  since    \* ticks since the transaction that scheduled a job began

intakeVars == <<events, orders, payments, lock, tx, acked>>
deliveryVars == <<job, worker, ctx, sent, accepted, sapIds, calls>>
vars == <<intakeVars, deliveryVars, proc, age, since>>

-----------------------------------------------------------------------------
(* The two components share sync_jobs: Delivery has the rows, and Intake   *)
(* sees their status.                                                      *)

JobStatus(o) == IF job[o].status = "NOT_SCHEDULED" THEN Null ELSE job[o].status

Intake == INSTANCE Webhooks WITH jobs <- [o \in Orders |-> JobStatus(o)]

Delivery == INSTANCE SyncJobs WITH Jobs <- Orders, Workers <- Processes

\* What the components assume of their constants.
ASSUME IntakeAssumption ==
  /\ Catalog \subseteq SKUs
  /\ Fractions \in Nat \ {0}
  /\ Webhooks \subseteq Intake!ShopWebhooks \cup Intake!PaymentWebhooks
  /\ Null \notin Stamps
  /\ Null \notin Slots
  /\ Null \notin Webhooks
  /\ Null \notin Intake!EventRows \cup Intake!OrderRows \cup Intake!PaymentRows
                 \cup Intake!JobStatuses \cup Intake!LockKeys

ASSUME DeliveryAssumption ==
  /\ {MaxAttempts, MaxTotalAttempts, StaleAfter, RecoveryWindow} \subseteq Nat \ {0}
  /\ {HardwareDelay, BaseDelay, MaxRetryDelay, MaxHold} \subseteq Nat
  /\ Disturbances \subseteq Delivery!AllDisturbances
  /\ Null \notin Nat
  /\ Null \notin Orders

Phases == {"down", "listening", "running", "stopping", "draining", "closing", "overrun"}

Older(n) == IF n = HardwareDelay THEN n ELSE n + 1

Init ==
  /\ Delivery!Init
  /\ Intake!Init
  /\ proc = [p \in Processes |-> "down"]
  /\ age = [t \in Slots |-> 0]
  /\ since = [o \in Orders |-> 0]

-----------------------------------------------------------------------------
(* Intake.                                                                 *)

\* Requests are served from the moment the listener is open until Shutdown
\* closes it, also while the worker is not running yet or any more.
Serving(p) == proc[p] \in {"listening", "running", "stopping"}

Receive(t, wh) ==
  /\ Serving(Home[t])
  /\ UNCHANGED <<deliveryVars, proc, since>>
  /\ Intake!Receive(t, wh)
  /\ age' = [age EXCEPT ![t] = 0]

\* Every step of a transaction that commits no job.
Statement(t) ==
  /\ UNCHANGED <<deliveryVars, proc, age, since>>
  /\ Intake!Statement(t)

Abort(t) ==
  /\ UNCHANGED <<deliveryVars, proc, age, since>>
  /\ Intake!Abort(t)

\* The delay is the same for every order.
FaultySyncDelayNone(items) == 0

\* The delay that MarkPaidAndSchedule asks for.
SyncDelay(items) == IF Intake!HasHardware(items) THEN HardwareDelay ELSE 0

\* The commit of a transaction that scheduled its order's job.
CommitJob(t) ==
  LET o == tx[t].wh.order IN
  /\ tx[t].pc = "commit"
  /\ tx[t].w.job = "PENDING"
  /\ Delivery!Schedule(o)
  /\ job'[o].dueIn = Delivery!Remaining(SyncDelay(tx[t].w.order.items), age[t])
  /\ Intake!Commit(t) \/ Intake!CommitLost(t)
  /\ since' = [since EXCEPT ![o] = age[t]]
  /\ UNCHANGED <<proc, age>>

-----------------------------------------------------------------------------
(* Delivery.                                                               *)

ClaimDue(p, o) ==
  /\ Delivery!ClaimDue(p, o)
  /\ orders[o].status # "CANCELLED"
  /\ UNCHANGED <<intakeVars, proc, age, since>>

ClaimLost(p, o) ==
  /\ Delivery!ClaimLost(p, o)
  /\ orders[o].status # "CANCELLED"
  /\ UNCHANGED <<intakeVars, proc, age, since>>

\* MarkSynced updates the order's row, too.
PersistDeliverySuccess(p) ==
  /\ worker[p].pc = "replied"
  /\ lock[<<"order", worker[p].job>>] = Null
  /\ Delivery!PersistDeliverySuccess(p) \/ Delivery!PersistAckLost(p)
  /\ UNCHANGED <<intakeVars, proc, age, since>>

PersistFails(p) ==
  /\ Delivery!PersistFails(p)
  /\ UNCHANGED <<intakeVars, proc, age, since>>

Dispatch(p) ==
  /\ Delivery!Dispatch(p)
  /\ UNCHANGED <<intakeVars, proc, age, since>>

Reply(p, reply) ==
  /\ Delivery!Reply(p, reply)
  /\ UNCHANGED <<intakeVars, proc, age, since>>

\* The writes that end a delivery otherwise; they touch sync_jobs only.
Settle(p) ==
  /\ \/ Delivery!GiveUp(p) \/ Delivery!GiveUpFails(p)
     \/ Delivery!HandleDeliveryFailure(p) \/ Delivery!HandleDeliveryFailureFails(p)
     \/ Delivery!MarkUnsaved(p) \/ Delivery!MarkUnsavedFails(p)
  /\ UNCHANGED <<intakeVars, proc, age, since>>

\* SAP and the operator.
Outside(o) ==
  /\ Delivery!SapAccepts(o) \/ Delivery!Replay(o)
  /\ UNCHANGED <<intakeVars, proc, age, since>>

-----------------------------------------------------------------------------
(* The hooks of RegisterLifecycle.                                         *)

Moves(p, from, to) ==
  /\ proc[p] = from
  /\ proc' = [proc EXCEPT ![p] = to]
  /\ UNCHANGED <<intakeVars, age, since>>

\* OnStart: the migration has run and the listener is open.  A hook that
\* fails closes the pool and the process is down again.
Listen(p) == Moves(p, "down", "listening") /\ UNCHANGED deliveryVars

StartWorker(p) == Moves(p, "listening", "running") /\ Delivery!Start(p)

\* worker.Stop waits for the loop without cancelling it.
FaultyStopWorkerNoCancel(p) == Moves(p, "running", "stopping") /\ UNCHANGED deliveryVars

\* OnStop: worker.Stop cancels the loop ...
StopWorker(p) == Moves(p, "running", "stopping") /\ Delivery!Stop(p)

WorkerExits(p) ==
  /\ proc[p] \in {"stopping", "overrun"}
  /\ Delivery!Exit(p)
  /\ UNCHANGED <<intakeVars, proc, age, since>>

\* worker.Stop does not wait for the loop.
FaultyShutdownNoWait(p) == Moves(p, "stopping", "draining") /\ UNCHANGED deliveryVars

\* ... and waits for it; then Shutdown closes the listener ...
Shutdown(p) ==
  /\ ctx[p] = "down"
  /\ Moves(p, "stopping", "draining")
  /\ UNCHANGED deliveryVars

\* ... and waits for the open requests; then the pool is closed.
ClosePool(p) ==
  /\ \A t \in Slots : Home[t] = p => tx[t].pc = "idle"
  /\ Moves(p, "draining", "closing")
  /\ UNCHANGED deliveryVars

\* The stop deadline passes: worker.Stop or Shutdown returns an error, which
\* OnStop only collects.  The listener is closed, nobody is waited for, and
\* the pool is closed while the worker and open requests may be left.  It
\* rejects what begins from now on; a transaction keeps its connection.
StopDeadline(p) ==
  /\ "crash" \in Disturbances
  /\ proc[p] \in {"stopping", "draining"}
  /\ Moves(p, proc[p], "overrun")
  /\ UNCHANGED deliveryVars

\* The process is gone, with what it had in hand: PostgreSQL rolls back its
\* open transactions.
Dies(p) ==
  /\ proc' = [proc EXCEPT ![p] = "down"]
  /\ ctx' = [ctx EXCEPT ![p] = "down"]
  /\ worker' = [worker EXCEPT ![p] = Delivery!Free]
  /\ tx' = [t \in Slots |-> IF Home[t] = p THEN Intake!NoTransaction ELSE tx[t]]
  /\ lock' = [k \in DOMAIN lock |->
                IF lock[k] # Null /\ Home[lock[k]] = p THEN Null ELSE lock[k]]
  /\ UNCHANGED <<events, orders, payments, acked, job, sent, accepted, sapIds, calls, age, since>>

\* main returns: pool.Close has got all connections back, or fx does not wait
\* for a hook that is past its deadline.
ProcessEnds(p) == proc[p] \in {"closing", "overrun"} /\ Dies(p)

Crash(p) ==
  /\ "crash" \in Disturbances
  /\ proc[p] # "down"
  /\ Dies(p)

Tick ==
  /\ Delivery!Tick
  /\ age' = [t \in Slots |-> IF tx[t].pc = "idle" THEN 0 ELSE Older(age[t])]
  /\ since' = [o \in Orders |-> IF JobStatus(o) = Null THEN 0 ELSE Older(since[o])]
  /\ UNCHANGED <<intakeVars, proc>>

-----------------------------------------------------------------------------
Lifecycle(p) ==
  \/ Listen(p) \/ StartWorker(p)
  \/ StopWorker(p) \/ WorkerExits(p) \/ Shutdown(p) \/ ClosePool(p) \/ StopDeadline(p)

WorkerStep(p) ==
  \/ Dispatch(p)
  \/ \E reply \in Delivery!Failures \cup {"accepted"} : Reply(p, reply)
  \/ PersistDeliverySuccess(p) \/ PersistFails(p)
  \/ Settle(p)

Next ==
  \/ \E t \in Slots, wh \in Webhooks : Receive(t, wh)
  \/ \E t \in Slots : Statement(t) \/ CommitJob(t) \/ Abort(t)
  \/ \E p \in Processes, o \in Orders : ClaimDue(p, o) \/ ClaimLost(p, o)
  \/ \E p \in Processes : WorkerStep(p) \/ Lifecycle(p) \/ ProcessEnds(p) \/ Crash(p)
  \/ \E o \in Orders : Outside(o)
  \/ Tick

(* Time passes, a process that is down is started again and does not die   *)
(* every time before its worker runs, one that stops goes on stopping, a   *)
(* transaction that has begun ends, a delivery goes on by the timeout of   *)
(* its SAP call, and a claim that is possible again and again, or a write  *)
(* of DEAD, does not fail every time.                                      *)
Fairness ==
  /\ WF_vars(Tick)
  /\ \A t \in Slots : WF_vars(Statement(t) \/ CommitJob(t))
  /\ \A p \in Processes :
       /\ WF_vars(Listen(p) \/ WorkerExits(p) \/ Shutdown(p) \/ ClosePool(p) \/ ProcessEnds(p))
       /\ SF_vars(StartWorker(p))
       /\ WF_vars(WorkerStep(p))
  /\ \A o \in Orders :
       /\ SF_vars(\E p \in Processes : ClaimDue(p, o))
       /\ SF_vars(\E p \in Processes : worker[p].job = o /\ Delivery!GiveUp(p)
                                       /\ UNCHANGED <<intakeVars, proc, age, since>>)

Spec == Init /\ [][Next]_vars /\ Fairness

-----------------------------------------------------------------------------
(* Properties.                                                             *)

\* Both components keep their types, and ages stop at HardwareDelay.
TypeOK ==
  /\ Intake!TypeOK
  /\ Delivery!TypeOK
  /\ proc \in [Processes -> Phases]
  /\ age \in [Slots -> 0..HardwareDelay]
  /\ since \in [Orders -> 0..HardwareDelay]

\* SAP only ever sees orders that are paid for and stay so: an order that a
\* request was sent for is PAID, by a completed payment, and no transaction
\* is about to cancel a job, from the claim of ClaimDue to the last retry.
OnlyPaidSent ==
  /\ \A o \in sent :
       /\ Intake!FindStatus(o).status = "PAID"
       /\ Intake!FindStatus(o).payment = "COMPLETED"
  /\ \A t \in Slots : tx[t].w.job # "CANCELLED"

\* SAP is not called for a hardware order before HARDWARE_SYNC_DELAY_SECONDS
\* have passed since the webhook arrived that completed it, whichever of the
\* two webhooks that was and whatever became of the process meanwhile.
HardwareWaits ==
  [][\A o \in Orders : calls'[o] > calls[o] /\ Intake!HasHardware(orders[o].items) =>
       since[o] = HardwareDelay]_vars

PoolClosed(p) == proc[p] \in {"closing", "overrun"}

\* The order of the stops in RegisterLifecycle: a stop that keeps its deadline
\* closes the pool on nobody.  One that overruns it closes the pool on open
\* requests, which may still end, and on a worker, which by then can do no
\* harm: the process takes no webhook in, claims no job, and ends a delivery
\* without a trace in the row, so that the next claimant finds it as it was.
ClosedPoolIsQuiet ==
  [][\A p \in Processes : PoolClosed(p) =>
       /\ proc[p] = "closing" =>
            ~Delivery!Busy(p) /\ \A t \in Slots : Home[t] = p => tx[t].pc = "idle"
       /\ \A t \in Slots : Home[t] = p /\ tx[t].pc = "idle" => tx'[t].pc = "idle"
       /\ worker'[p].pc # "idle" => worker'[p].job = worker[p].job
       /\ Delivery!Busy(p) /\ worker'[p].pc = "idle" =>
            job'[worker[p].job] = job[worker[p].job]]_vars

\* "A completed payment triggers PAID and scheduling exactly once through
\* transactional repository operations" (docs/domain.md): with one webhook at
\* a time, an order and its payment are always reconciled.
Reconciled == Intake!Reconciled

\* The shop's order and a completed payment for it were both answered with a
\* 2xx.
Confirmed(o) ==
  /\ \E wh \in acked : wh.order = o /\ wh.type = "SHOP"
  /\ \E wh \in acked : wh.order = o /\ wh.type = "PAYMENT" /\ wh.body = "COMPLETED"

\* End to end: an order that shop and payment provider were told is taken in
\* reaches SAP or is DEAD for the operator to see, across crashes, stops and
\* restarts at any moment, and whichever webhook came first.  An order that is
\* confirmed remains so, and a replayed one is settled once more.
ConfirmedIsSettled ==
  \A o \in Orders : []<>(Confirmed(o) => job[o].status \in {"SYNCED", "DEAD"})
=============================================================================
