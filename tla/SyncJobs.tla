------------------------------ MODULE SyncJobs ------------------------------
(***************************************************************************)
(* Delivery of outbox jobs to SAP: the sync_jobs table, the workers that   *)
(* claim its rows (internal/sync/worker.go, sync_job_repository.go), the   *)
(* SAP endpoint they call and the operator who replays dead jobs.          *)
(*                                                                         *)
(* Several processes may run a worker against one database.  A claim is a  *)
(* lease: the row is PROCESSING with locked_at = NOW(), and any worker may *)
(* claim it again once locked_at is StaleAfter old.  Nothing in MarkSynced *)
(* or MarkFailed checks that the writer still holds the lease.             *)
(*                                                                         *)
(* Time is kept relative: a due_at is the number of ticks left until then, *)
(* locked_at and waiting_since are ages that stop growing at the only      *)
(* threshold the code compares them with.  So the model needs no bound on  *)
(* the clock.  Only Tick lets time pass.                                   *)
(***************************************************************************)
EXTENDS Naturals, FiniteSets

CONSTANTS
  Jobs,               \* the rows sync_jobs may hold, one per order
  Workers,            \* the worker processes
  MaxAttempts,        \* SAP_ATTEMPTS_BEFORE_WAITING
  MaxTotalAttempts,   \* SAP_MAX_ATTEMPTS
  HardwareDelay,      \* HARDWARE_SYNC_DELAY_SECONDS, in ticks
  BaseDelay,          \* the first retry delay (1s), in ticks
  MaxRetryDelay,      \* the cap of every retry delay (60s), in ticks
  StaleAfter,         \* the lease (2 minutes), in ticks
  RecoveryWindow,     \* SAP_RECOVERY_WINDOW_SECONDS, in ticks
  MaxHold,            \* ticks from a claim to the last write that follows it
  Disturbances,       \* what the environment may do, a subset of the set below
  Null                \* SQL's NULL

AllDisturbances == {"crash", "stop", "dbfail", "ackloss", "replay"}

ASSUME LimitsAssumption ==
  /\ MaxAttempts \in Nat \ {0}
  /\ MaxTotalAttempts \in Nat \ {0}

ASSUME TimesAssumption ==
  /\ HardwareDelay \in Nat
  /\ BaseDelay \in Nat
  /\ MaxRetryDelay \in Nat
  /\ StaleAfter \in Nat \ {0}
  /\ RecoveryWindow \in Nat \ {0}
  /\ MaxHold \in Nat

ASSUME EnvironmentAssumption ==
  /\ Disturbances \subseteq AllDisturbances
  /\ Null \notin Nat
  /\ Null \notin Jobs

VARIABLES
  job,        \* the sync_jobs table
  worker,     \* what each worker's drainDue is busy with
  ctx,        \* the context each worker process runs under
  sent,       \* jobs SAP may have a request of, the late ones included
  accepted,   \* jobs whose order SAP has taken
  sapIds,     \* jobs whose order row has its sap_id
  calls       \* SAP calls made for a job since it was scheduled or replayed

vars == <<job, worker, ctx, sent, accepted, sapIds, calls>>

-----------------------------------------------------------------------------
(* The rows.  attempts is capped one above the limit it is compared with.  *)
(* A definition whose name starts with Faulty is its successor with a bug  *)
(* somebody could write; no action uses it.                                *)

AttemptsCap == MaxTotalAttempts + 1

Longest == IF HardwareDelay > MaxRetryDelay THEN HardwareDelay ELSE MaxRetryDelay

Statuses == {"NOT_SCHEDULED", "PENDING", "PROCESSING", "SYNCED", "WAITING", "DEAD"}

Rows ==
  [status   : Statuses,
   dueIn    : 0..Longest,
   attempts : 0..AttemptsCap,
   lockAge  : 0..StaleAfter \cup {Null},
   waitAge  : 0..RecoveryWindow \cup {Null}]

NoRow ==
  [status |-> "NOT_SCHEDULED", dueIn |-> 0, attempts |-> 0,
   lockAge |-> Null, waitAge |-> Null]

\* The lease runs out while a delivery may still be under way.
FaultyClaimableTooSoon(row) ==
  \/ row.status \in {"PENDING", "WAITING"} /\ row.dueIn = 0
  \/ row.status = "PROCESSING" /\ row.lockAge = StaleAfter - 1

\* A claim that was orphaned is never taken up again.
FaultyClaimableNoStale(row) ==
  row.status \in {"PENDING", "WAITING"} /\ row.dueIn = 0

Claimable(row) ==
  \/ row.status \in {"PENDING", "WAITING"} /\ row.dueIn = 0
  \/ row.status = "PROCESSING" /\ row.lockAge = StaleAfter

LockJob(row) ==
  [row EXCEPT !.status   = "PROCESSING",
              !.lockAge  = 0,
              !.attempts = IF row.attempts < AttemptsCap THEN row.attempts + 1
                                                         ELSE row.attempts]

MarkSynced(row) ==
  [row EXCEPT !.status = "SYNCED", !.lockAge = Null, !.waitAge = Null]

\* waiting_since is set again on every retry.
FaultyMarkFailedRestarts(row, status, delay) ==
  [row EXCEPT !.status  = status,
              !.dueIn   = delay,
              !.lockAge = Null,
              !.waitAge = IF status = "WAITING" THEN 0 ELSE Null]

\* The due time is written as an instant, so delay is what is left of it.
MarkFailed(row, status, delay) ==
  [row EXCEPT !.status  = status,
              !.dueIn   = delay,
              !.lockAge = Null,
              !.waitAge = IF status # "WAITING"    THEN Null
                          ELSE IF row.waitAge = Null THEN 0
                          ELSE row.waitAge]

ReplayedRow(row) ==
  [row EXCEPT !.status = "PENDING", !.dueIn = 0, !.attempts = 0,
              !.lockAge = Null, !.waitAge = Null]

-----------------------------------------------------------------------------
(* The worker's decisions.                                                 *)

Failures == {"transient", "throttled", "rejected", "cancelled"}

Deliveries ==
  [pc       : {"idle", "claimed", "posting", "replied", "unsaved"},
   job      : Jobs \cup {Null},
   attempts : 0..AttemptsCap,
   waitAge  : 0..RecoveryWindow \cup {Null},
   hold     : 0..MaxHold,
   age      : 0..MaxHold,
   reply    : Failures \cup {"accepted", "none"}]

Free ==
  [pc |-> "idle", job |-> Null, attempts |-> 0, waitAge |-> Null,
   hold |-> 0, age |-> 0, reply |-> "none"]

Busy(w) == worker[w].pc # "idle"

\* RetryDelayMS doubles the first delay once per attempt after the first.
Backoff[n \in Nat] == IF n <= 1 THEN BaseDelay ELSE 2 * Backoff[n - 1]

\* A Retry-After longer than the cap is taken as it comes.
FaultyRetryDelaysUncapped(reply, attempts) ==
  IF reply = "throttled" THEN 0..(MaxRetryDelay + 1) ELSE 0..Backoff[attempts]

\* Full jitter; a 429 may carry a Retry-After of any length, capped.
RetryDelays(reply, attempts) ==
  {delay \in 0..MaxRetryDelay : reply = "throttled" \/ delay <= Backoff[attempts]}

\* What is left of a delay that started age ticks ago.
Remaining(delay, age) == IF delay > age THEN delay - age ELSE 0

IsRetryable(reply) == reply \in {"transient", "throttled"}

\* The window is not looked at.
FaultyRecoveryWindowOpen(waitAge) == FALSE

RecoveryWindowExpired(waitAge) == waitAge = RecoveryWindow

FailureState(attempts, reply) ==
  IF ~IsRetryable(reply) \/ attempts >= MaxTotalAttempts THEN "DEAD"
  ELSE IF attempts >= MaxAttempts THEN "WAITING"
  ELSE "PENDING"

UnsavedState(attempts) ==
  IF attempts >= MaxTotalAttempts THEN "DEAD" ELSE "PENDING"

\* The last write of a delivery runs under a context of its own.
FaultyCanWriteDetached(w) == ctx[w] # "down"

\* Every statement runs under the worker's context: once that is cancelled
\* the statement fails without reaching the table.
CanWrite(w) == ctx[w] = "live"

MayFail(w) == ctx[w] = "cancelled" \/ "dbfail" \in Disturbances

-----------------------------------------------------------------------------
Init ==
  /\ job = [j \in Jobs |-> NoRow]
  /\ worker = [w \in Workers |-> Free]
  /\ ctx = [w \in Workers |-> "down"]
  /\ sent = {}
  /\ accepted = {}
  /\ sapIds = {}
  /\ calls = [j \in Jobs |-> 0]

\* A webhook transaction commits the outbox row (ScheduleSync).  due_at counts
\* from the start of the transaction, so some of the delay may be over.
Schedule(j) ==
  /\ job[j].status = "NOT_SCHEDULED"
  /\ \E delay \in 0..HardwareDelay :
       job' = [job EXCEPT ![j] = [NoRow EXCEPT !.status = "PENDING", !.dueIn = delay]]
  /\ UNCHANGED <<worker, ctx, sent, accepted, sapIds, calls>>

\* ClaimDue: select a due or stale row, lock it, commit, return the job.
ClaimDue(w, j) ==
  /\ ~Busy(w)
  /\ CanWrite(w)
  /\ Claimable(job[j])
  /\ job' = [job EXCEPT ![j] = LockJob(job[j])]
  /\ worker' = [worker EXCEPT ![w] =
                  [Free EXCEPT !.pc       = "claimed",
                               !.job      = j,
                               !.attempts = LockJob(job[j]).attempts,
                               !.waitAge  = job[j].waitAge]]
  /\ UNCHANGED <<ctx, sent, accepted, sapIds, calls>>

\* ClaimDue again, when the commit reaches the database and its answer is
\* lost: the row is locked and nobody works on it.
ClaimLost(w, j) ==
  /\ "ackloss" \in Disturbances
  /\ ~Busy(w)
  /\ CanWrite(w)
  /\ Claimable(job[j])
  /\ job' = [job EXCEPT ![j] = LockJob(job[j])]
  /\ UNCHANGED <<worker, ctx, sent, accepted, sapIds, calls>>

\* The limit on the attempts is not looked at before the call.
FaultyMustGiveUpNoLimit(w) == RecoveryWindowExpired(worker[w].waitAge)

\* deliver returns without calling SAP.
MustGiveUp(w) ==
  \/ RecoveryWindowExpired(worker[w].waitAge)
  \/ worker[w].attempts > MaxTotalAttempts

GiveUp(w) ==
  /\ worker[w].pc = "claimed"
  /\ MustGiveUp(w)
  /\ CanWrite(w)
  /\ job' = [job EXCEPT ![worker[w].job] = MarkFailed(job[worker[w].job], "DEAD", 0)]
  /\ worker' = [worker EXCEPT ![w] = Free]
  /\ UNCHANGED <<ctx, sent, accepted, sapIds, calls>>

GiveUpFails(w) ==
  /\ worker[w].pc = "claimed"
  /\ MustGiveUp(w)
  /\ MayFail(w)
  /\ worker' = [worker EXCEPT ![w] = Free]
  /\ UNCHANGED <<job, ctx, sent, accepted, sapIds, calls>>

\* deliver posts the order to SAP; its now is the start of the retry delay.
Dispatch(w) ==
  /\ worker[w].pc = "claimed"
  /\ ~MustGiveUp(w)
  /\ worker' = [worker EXCEPT ![w] = [worker[w] EXCEPT !.pc = "posting", !.waitAge = Null]]
  /\ sent' = sent \cup {worker[w].job}
  /\ calls' = [calls EXCEPT ![worker[w].job] = calls[worker[w].job] + 1]
  /\ UNCHANGED <<job, ctx, accepted, sapIds>>

\* SAP takes the order, possibly long after the worker stopped waiting.
SapAccepts(j) ==
  /\ j \in sent \ accepted
  /\ accepted' = accepted \cup {j}
  /\ UNCHANGED <<job, worker, ctx, sent, sapIds, calls>>

\* What SyncOrder may return: success once SAP has the order, a cancellation
\* once the context is cancelled, any other failure at any time.
MayReply(w, reply) ==
  CASE reply = "accepted"  -> worker[w].job \in accepted
    [] reply = "cancelled" -> ctx[w] = "cancelled"
    [] OTHER               -> reply \in Failures

Reply(w, reply) ==
  /\ worker[w].pc = "posting"
  /\ MayReply(w, reply)
  /\ worker' = [worker EXCEPT ![w] = [worker[w] EXCEPT !.pc = "replied", !.reply = reply]]
  /\ UNCHANGED <<job, ctx, sent, accepted, sapIds, calls>>

HandleDeliveryFailure(w) ==
  /\ worker[w].pc = "replied"
  /\ worker[w].reply \in Failures
  /\ CanWrite(w)
  /\ LET d == worker[w] IN
     \E delay \in IF FailureState(d.attempts, d.reply) = "DEAD"
                  THEN {0} ELSE RetryDelays(d.reply, d.attempts) :
       job' = [job EXCEPT ![d.job] =
                 MarkFailed(job[d.job], FailureState(d.attempts, d.reply),
                            Remaining(delay, d.age))]
  /\ worker' = [worker EXCEPT ![w] = Free]
  /\ UNCHANGED <<ctx, sent, accepted, sapIds, calls>>

\* The failed MarkFailed is logged and forgotten.
HandleDeliveryFailureFails(w) ==
  /\ worker[w].pc = "replied"
  /\ worker[w].reply \in Failures
  /\ MayFail(w)
  /\ worker' = [worker EXCEPT ![w] = Free]
  /\ UNCHANGED <<job, ctx, sent, accepted, sapIds, calls>>

\* The error of SyncOrder is not looked at.
FaultyPersistAnyReply(w) ==
  /\ worker[w].pc = "replied"
  /\ CanWrite(w)
  /\ job' = [job EXCEPT ![worker[w].job] = MarkSynced(job[worker[w].job])]
  /\ sapIds' = sapIds \cup {worker[w].job}
  /\ worker' = [worker EXCEPT ![w] = Free]
  /\ UNCHANGED <<ctx, sent, accepted, calls>>

PersistDeliverySuccess(w) ==
  /\ worker[w].pc = "replied"
  /\ worker[w].reply = "accepted"
  /\ CanWrite(w)
  /\ job' = [job EXCEPT ![worker[w].job] = MarkSynced(job[worker[w].job])]
  /\ sapIds' = sapIds \cup {worker[w].job}
  /\ worker' = [worker EXCEPT ![w] = Free]
  /\ UNCHANGED <<ctx, sent, accepted, calls>>

\* MarkSynced reports an error; it may have been applied all the same.
PersistFails(w) ==
  /\ worker[w].pc = "replied"
  /\ worker[w].reply = "accepted"
  /\ MayFail(w)
  /\ worker' = [worker EXCEPT ![w].pc = "unsaved"]
  /\ UNCHANGED <<job, ctx, sent, accepted, sapIds, calls>>

PersistAckLost(w) ==
  /\ "ackloss" \in Disturbances
  /\ worker[w].pc = "replied"
  /\ worker[w].reply = "accepted"
  /\ CanWrite(w)
  /\ job' = [job EXCEPT ![worker[w].job] = MarkSynced(job[worker[w].job])]
  /\ sapIds' = sapIds \cup {worker[w].job}
  /\ worker' = [worker EXCEPT ![w].pc = "unsaved"]
  /\ UNCHANGED <<ctx, sent, accepted, calls>>

\* persistDeliverySuccess after a failed MarkSynced.
MarkUnsaved(w) ==
  /\ worker[w].pc = "unsaved"
  /\ CanWrite(w)
  /\ LET d == worker[w] IN
     \E delay \in RetryDelays("none", d.attempts) :
       job' = [job EXCEPT ![d.job] =
                 MarkFailed(job[d.job], UnsavedState(d.attempts), Remaining(delay, d.age))]
  /\ worker' = [worker EXCEPT ![w] = Free]
  /\ UNCHANGED <<ctx, sent, accepted, sapIds, calls>>

MarkUnsavedFails(w) ==
  /\ worker[w].pc = "unsaved"
  /\ MayFail(w)
  /\ worker' = [worker EXCEPT ![w] = Free]
  /\ UNCHANGED <<job, ctx, sent, accepted, sapIds, calls>>

-----------------------------------------------------------------------------
(* Processes, the operator and time.                                       *)

Start(w) ==
  /\ ctx[w] = "down"
  /\ ctx' = [ctx EXCEPT ![w] = "live"]
  /\ UNCHANGED <<job, worker, sent, accepted, sapIds, calls>>

\* Stop cancels the context; the delivery under way goes on and fails.
Stop(w) ==
  /\ "stop" \in Disturbances
  /\ ctx[w] = "live"
  /\ ctx' = [ctx EXCEPT ![w] = "cancelled"]
  /\ UNCHANGED <<job, worker, sent, accepted, sapIds, calls>>

\* The loop returns: its next claim fails and ctx.Done is ready.
Exit(w) ==
  /\ ctx[w] = "cancelled"
  /\ ~Busy(w)
  /\ ctx' = [ctx EXCEPT ![w] = "down"]
  /\ UNCHANGED <<job, worker, sent, accepted, sapIds, calls>>

\* The process dies, or ends past its stop deadline with a delivery in hand.
Crash(w) ==
  /\ "crash" \in Disturbances
  /\ ctx[w] # "down"
  /\ ctx' = [ctx EXCEPT ![w] = "down"]
  /\ worker' = [worker EXCEPT ![w] = Free]
  /\ UNCHANGED <<job, sent, accepted, sapIds, calls>>

\* The UPDATE of the admin command has lost its status = 'DEAD'.
FaultyReplayAny(j) ==
  /\ "replay" \in Disturbances
  /\ job[j].status # "NOT_SCHEDULED"
  /\ job' = [job EXCEPT ![j] = ReplayedRow(job[j])]
  /\ calls' = [calls EXCEPT ![j] = 0]
  /\ UNCHANGED <<worker, ctx, sent, accepted, sapIds>>

\* The admin command replays a dead job.
Replay(j) ==
  /\ "replay" \in Disturbances
  /\ job[j].status = "DEAD"
  /\ job' = [job EXCEPT ![j] = ReplayedRow(job[j])]
  /\ calls' = [calls EXCEPT ![j] = 0]
  /\ UNCHANGED <<worker, ctx, sent, accepted, sapIds>>

Older(age, cap) == IF age = Null \/ age = cap THEN age ELSE age + 1

AgedRow(row) ==
  [row EXCEPT !.dueIn   = Remaining(row.dueIn, 1),
              !.lockAge = Older(row.lockAge, StaleAfter),
              !.waitAge = Older(row.waitAge, RecoveryWindow)]

AgedDelivery(d) ==
  IF d.pc = "idle" THEN d
  ELSE [d EXCEPT !.waitAge = Older(d.waitAge, RecoveryWindow),
                 !.hold    = d.hold + 1,
                 !.age     = IF d.pc = "claimed" THEN d.age ELSE d.age + 1]

\* A delivery lasts at most MaxHold ticks: the SAP timeout and the database
\* round trips around it.  MaxHold >= StaleAfter models a worker that stalls.
Tick ==
  /\ \A w \in Workers : Busy(w) => worker[w].hold < MaxHold
  /\ job' = [j \in Jobs |-> AgedRow(job[j])]
  /\ worker' = [w \in Workers |-> AgedDelivery(worker[w])]
  /\ UNCHANGED <<ctx, sent, accepted, sapIds, calls>>

-----------------------------------------------------------------------------
WorkerStep(w) ==
  \/ \E j \in Jobs : ClaimDue(w, j) \/ ClaimLost(w, j)
  \/ GiveUp(w)
  \/ GiveUpFails(w)
  \/ Dispatch(w)
  \/ \E reply \in Failures \cup {"accepted"} : Reply(w, reply)
  \/ HandleDeliveryFailure(w)
  \/ HandleDeliveryFailureFails(w)
  \/ PersistDeliverySuccess(w)
  \/ PersistFails(w)
  \/ PersistAckLost(w)
  \/ MarkUnsaved(w)
  \/ MarkUnsavedFails(w)
  \/ Start(w)
  \/ Stop(w)
  \/ Exit(w)
  \/ Crash(w)

Next ==
  \/ \E w \in Workers : WorkerStep(w)
  \/ \E j \in Jobs : Schedule(j) \/ SapAccepts(j) \/ Replay(j)
  \/ Tick

Spec == Init /\ [][Next]_vars

(* The scheduler never abandons a running worker, an HTTP call ends by its *)
(* timeout, a dead process is started again, and time passes.  Claims take *)
(* the row that has waited longest, so no claimable row is passed over for *)
(* ever; and a fault does not hit every single attempt to write DEAD.      *)
Fairness ==
  /\ WF_vars(Tick)
  /\ \A w \in Workers :
       /\ WF_vars(Start(w))
       /\ WF_vars(Exit(w))
       /\ WF_vars(Dispatch(w))
       /\ WF_vars(\E reply \in Failures : Reply(w, reply))
       /\ WF_vars(HandleDeliveryFailure(w) \/ HandleDeliveryFailureFails(w))
       /\ WF_vars(PersistDeliverySuccess(w) \/ PersistFails(w) \/ PersistAckLost(w))
       /\ WF_vars(MarkUnsaved(w) \/ MarkUnsavedFails(w))
       /\ WF_vars(GiveUp(w) \/ GiveUpFails(w))
  /\ \A j \in Jobs :
       /\ SF_vars(\E w \in Workers : ClaimDue(w, j))
       /\ SF_vars(\E w \in Workers : worker[w].job = j /\ GiveUp(w))

FairSpec == Spec /\ Fairness

-----------------------------------------------------------------------------
(* Properties.                                                             *)

\* A delivery has a job, and its now is not earlier than its claim.
WorkersOK ==
  /\ worker \in [Workers -> Deliveries]
  /\ \A w \in Workers :
       /\ Busy(w) => worker[w].job \in Jobs
       /\ worker[w].age <= worker[w].hold

\* Every variable keeps the shape of the columns and fields it stands for.
TypeOK ==
  /\ job \in [Jobs -> Rows]
  /\ WorkersOK
  /\ ctx \in [Workers -> {"down", "live", "cancelled"}]
  /\ sent \subseteq Jobs
  /\ accepted \subseteq Jobs
  /\ sapIds \subseteq Jobs
  /\ calls \in [Jobs -> Nat]

\* One job is processed by one claimant at a time, whatever crashes, stops
\* and lost answers do to the lease taken by ClaimDue.
OneClaimant ==
  \A v, w \in Workers :
    Busy(v) /\ Busy(w) /\ worker[v].job = worker[w].job => v = w

\* While a worker delivers a job the row is its own: nobody else has claimed,
\* settled, replayed or rescheduled it, so the unfenced writes that end the
\* delivery land on the claim they belong to.  After a lost answer to
\* MarkSynced the row is SYNCED already.
HolderOwnsRow ==
  \A w \in Workers : Busy(w) =>
    LET row == job[worker[w].job] IN
    /\ row.attempts = worker[w].attempts
    /\ \/ row.status = "PROCESSING" /\ row.lockAge = worker[w].hold
       \/ row.status = "SYNCED" /\ worker[w].pc = "unsaved"

\* SAP_MAX_ATTEMPTS is a hard limit on the SAP calls made for a job since it
\* was scheduled or last replayed: restarts, stale claims and failed writes
\* never buy another call.
AttemptBudget == \A j \in Jobs : calls[j] <= MaxTotalAttempts

\* A row says SYNCED, and its order has a sap_id, only if SAP has the order.
SyncedIsTrue ==
  \A j \in Jobs :
    /\ job[j].status = "SYNCED" => j \in sapIds
    /\ j \in sapIds => j \in accepted

\* SAP is called for a row only while the row itself still allows it: it is
\* claimed, due, and its recovery window is open.  deliver decides this from
\* the copy that ClaimDue returned.
DispatchAllowed ==
  [][\A j \in Jobs : calls'[j] > calls[j] =>
       /\ job[j].status = "PROCESSING"
       /\ job[j].dueIn = 0
       /\ job[j].waitAge # RecoveryWindow
       /\ job[j].attempts <= MaxTotalAttempts]_vars

\* A job dies only because SAP refused it for good, its attempts are used up
\* or its recovery window is over: neither a shutdown nor a database error
\* in the middle of a delivery kills it.
DeadJustified ==
  [][\A j \in Jobs : job[j].status # "DEAD" /\ job'[j].status = "DEAD" =>
       \/ job[j].attempts >= MaxTotalAttempts
       \/ job[j].waitAge = RecoveryWindow
       \/ \E w \in Workers : worker[w].job = j /\ worker[w].reply = "rejected"]_vars

\* The recovery window is measured from the moment the job started to wait:
\* neither another claim nor a retry that leaves it waiting restarts it.
WindowNeverRestarts ==
  [][\A j \in Jobs : job[j].waitAge # Null /\ job'[j].waitAge # Null =>
       job'[j].waitAge >= job[j].waitAge]_vars

Phase(status) ==
  CASE status = "NOT_SCHEDULED"                      -> "absent"
    [] status \in {"PENDING", "PROCESSING", "WAITING"} -> "open"
    [] status = "SYNCED"                             -> "synced"
    [] status = "DEAD"                               -> "dead"

Promise == INSTANCE Outbox WITH
             phase <- [j \in Jobs |-> Phase(job[j].status)],
             AnswersLost <- "ackloss" \in Disturbances

\* The workers implement the outbox: no SAP call for a job that is settled,
\* no more calls than the limit, and SYNCED and DEAD are left by nobody but
\* the operator and a writer of SYNCED whose answer was lost.  It needs
\* deliveries shorter than the lease.
ImplementsOutbox == Promise!Spec

\* "ordinary cancellation errors become DEAD immediately" (docs/domain.md):
\* a delivery that ends with a cancelled SAP call leaves its job DEAD.
CancelledCallGoesDead ==
  [][\A w \in Workers :
       /\ worker[w].reply = "cancelled"
       /\ worker'[w].pc = "idle"
       /\ ctx'[w] # "down"
       => job'[worker[w].job].status = "DEAD"]_vars

\* Every scheduled job is settled in the end: an orphaned claim is taken up
\* again and no job is retried for ever.
Settles ==
  \A j \in Jobs :
    job[j].status \in {"PENDING", "PROCESSING", "WAITING"} ~>
      job[j].status \in {"SYNCED", "DEAD"}
=============================================================================
