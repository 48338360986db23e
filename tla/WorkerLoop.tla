----------------------------- MODULE WorkerLoop -----------------------------
(***************************************************************************)
(* When a worker looks for work: the loop of internal/sync/worker.go over  *)
(* the LISTEN connection that Watch opens (sync_job_repository.go), the    *)
(* timer it arms with NextWake, and the trigger of migrations/             *)
(* 001_initial.sql that notifies the channel sync_jobs.                    *)
(*                                                                         *)
(* SyncJobs says what a claim does; here a job is only the time until it   *)
(* can be claimed.  Other processes (webhooks, other workers, the admin    *)
(* command) may change that time at any moment.                            *)
(***************************************************************************)
EXTENDS Naturals, FiniteSetsExt

CONSTANTS
  Jobs,           \* rows of sync_jobs
  Horizon,        \* the longest time until a row can be claimed, in ticks
  MinReconnect,   \* listenerReconnectMinDelay, in ticks
  MaxReconnect,   \* SAP_LISTENER_RECONNECT_MAX_MS, in ticks
  QueriesFail,    \* whether the claim and the NextWake query may fail
  Restarts,       \* whether the process may die and start again
  Null            \* no time: no row to wait for, a timer that is not armed

ASSUME HorizonAssumption == Horizon \in Nat \ {0}
ASSUME ReconnectAssumption ==
  /\ MinReconnect \in Nat \ {0}
  /\ MaxReconnect \in Nat
  /\ MinReconnect <= MaxReconnect
ASSUME FaultsAssumption == {QueriesFail, Restarts} \subseteq BOOLEAN
ASSUME NullAssumption == Null \notin Nat

VARIABLES
  pc,         \* where the loop is
  held,       \* the job that deliver works on
  wake,       \* ticks until each row can be claimed
  listening,  \* the loop's wakeups channel is not nil
  conn,       \* the listener goroutine runs on a healthy connection
  notified,   \* a notification is on its way to that connection
  token,      \* the wakeups channel, of capacity one, holds a wakeup
  timer,      \* ticks until timerC fires
  delay       \* reconnectDelay

vars == <<pc, held, wake, listening, conn, notified, token, timer, delay>>

Times == 0..Horizon \cup {Null}
Longer(a, b) == IF a > b THEN a ELSE b

\* The trigger: a change of a row reaches the connections that listen.
Notify == notified' = conn

\* The loop has lost its listener: both channels become nil.
DropListener ==
  /\ listening' = FALSE
  /\ token' = FALSE

-----------------------------------------------------------------------------
Init ==
  /\ pc = "down"
  /\ held = Null
  /\ wake = [j \in Jobs |-> Null]
  /\ listening = FALSE
  /\ conn = FALSE
  /\ notified = FALSE
  /\ token = FALSE
  /\ timer = Null
  /\ delay = MinReconnect

Start ==
  /\ pc = "down"
  /\ pc' = "start"
  /\ delay' = MinReconnect
  /\ timer' = Null
  /\ UNCHANGED <<held, wake, listening, conn, notified, token>>

\* Watch: LISTEN on a connection of its own, with a goroutine behind it.
Watch ==
  /\ listening' = TRUE
  /\ conn' = TRUE
  /\ notified' = FALSE
  /\ token' = FALSE

WatchAtStart ==
  /\ pc = "start"
  /\ Watch
  /\ pc' = "drain"
  /\ UNCHANGED <<held, wake, timer, delay>>

WatchAtStartFails ==
  /\ pc = "start"
  /\ pc' = "drain"
  /\ UNCHANGED <<held, wake, listening, conn, notified, token, timer, delay>>

\* drainDue claims a row that is due; the claim is a lease and notifies.
Claim(j) ==
  /\ pc = "drain"
  /\ wake[j] = 0
  /\ wake' = [wake EXCEPT ![j] = Horizon]
  /\ Notify
  /\ pc' = "deliver"
  /\ held' = j
  /\ UNCHANGED <<listening, conn, token, timer, delay>>

\* deliver returns and its write took effect, whatever became of the row
\* meanwhile: the row is settled or waits for a retry.
Delivered ==
  /\ pc = "deliver"
  /\ \E time \in Times : wake' = [wake EXCEPT ![held] = time]
  /\ Notify
  /\ pc' = "drain"
  /\ held' = Null
  /\ UNCHANGED <<listening, conn, token, timer, delay>>

\* deliver returns and its write failed: the row keeps its lease.
DeliveredUnsaved ==
  /\ pc = "deliver"
  /\ pc' = "drain"
  /\ held' = Null
  /\ UNCHANGED <<wake, listening, conn, notified, token, timer, delay>>

\* drainDue ends when no row is due, or on the error of a claim.
Drained ==
  /\ pc = "drain"
  /\ \A j \in Jobs : wake[j] # 0
  /\ pc' = "arm"
  /\ UNCHANGED <<held, wake, listening, conn, notified, token, timer, delay>>

ClaimFails ==
  /\ QueriesFail
  /\ pc = "drain"
  /\ pc' = "arm"
  /\ UNCHANGED <<held, wake, listening, conn, notified, token, timer, delay>>

-----------------------------------------------------------------------------
(* Arming the timer.                                                       *)

Pending == {wake[j] : j \in Jobs} \ {Null}

\* The query leaves out the rows that can be claimed already.
FaultyNextWakeFuture ==
  IF Pending \ {0} = {} THEN Null ELSE Min(Pending \ {0})

\* The NextWake query: the earliest due time or end of a lease.
NextWake == IF Pending = {} THEN Null ELSE Min(Pending)

Arm(time) ==
  /\ timer' = time
  /\ pc' = "armed"
  /\ UNCHANGED <<held, wake, listening, conn, notified, token, delay>>

ArmNextWake == pc = "arm" /\ listening /\ Arm(NextWake)

ArmReconnect == pc = "arm" /\ ~listening /\ Arm(delay)

NextWakeFails == QueriesFail /\ pc = "arm" /\ listening /\ Arm(delay)

Select ==
  /\ pc = "armed"
  /\ pc' = "select"
  /\ UNCHANGED <<held, wake, listening, conn, notified, token, timer, delay>>

-----------------------------------------------------------------------------
(* The cases of select.                                                    *)

OnWakeup ==
  /\ pc = "select"
  /\ token
  /\ token' = FALSE
  /\ pc' = "drain"
  /\ UNCHANGED <<held, wake, listening, conn, notified, timer, delay>>

\* The goroutine is gone: its error or a closed channel.  A wakeup that is
\* still in the channel may be dropped with it.
OnListenerGone ==
  /\ pc = "select"
  /\ listening
  /\ ~conn
  /\ DropListener
  /\ pc' = "arm"
  /\ UNCHANGED <<held, wake, conn, notified, timer, delay>>

OnTimer ==
  /\ pc = "select"
  /\ listening
  /\ timer = 0
  /\ timer' = Null
  /\ pc' = "drain"
  /\ UNCHANGED <<held, wake, listening, conn, notified, token, delay>>

Reconnect ==
  /\ pc = "select"
  /\ ~listening
  /\ timer = 0
  /\ Watch
  /\ timer' = Null
  /\ delay' = MinReconnect
  /\ pc' = "arm"
  /\ UNCHANGED <<held, wake>>

\* The delay doubles without the cap.
FaultyReconnectUncapped ==
  /\ pc = "select"
  /\ ~listening
  /\ timer = 0
  /\ timer' = Null
  /\ delay' = 2 * delay
  /\ pc' = "arm"
  /\ UNCHANGED <<held, wake, listening, conn, notified, token>>

ReconnectFails ==
  /\ pc = "select"
  /\ ~listening
  /\ timer = 0
  /\ timer' = Null
  /\ delay' = IF 2 * delay > MaxReconnect THEN MaxReconnect ELSE 2 * delay
  /\ pc' = "arm"
  /\ UNCHANGED <<held, wake, listening, conn, notified, token>>

-----------------------------------------------------------------------------
(* The listener goroutine, the other processes, time.                      *)

\* The send has a default case and the channel no room: a wakeup is lost
\* unless the loop is waiting in its select.
FaultyForwardUnbuffered ==
  /\ conn
  /\ notified
  /\ notified' = FALSE
  /\ token' = (pc = "select")
  /\ UNCHANGED <<pc, held, wake, listening, conn, timer, delay>>

\* A notification becomes a wakeup, or joins the one in the channel.
Forward ==
  /\ conn
  /\ notified
  /\ notified' = FALSE
  /\ token' = TRUE
  /\ UNCHANGED <<pc, held, wake, listening, conn, timer, delay>>

\* WaitForNotification fails; notifications on their way are lost.
ConnBreaks ==
  /\ conn
  /\ conn' = FALSE
  /\ notified' = FALSE
  /\ UNCHANGED <<pc, held, wake, listening, token, timer, delay>>

\* Another process schedules, claims, settles, retries or replays a row.
Elsewhere(j) ==
  /\ \E time \in Times \ {wake[j]} : wake' = [wake EXCEPT ![j] = time]
  /\ Notify
  /\ UNCHANGED <<pc, held, listening, conn, token, timer, delay>>

Crash ==
  /\ Restarts
  /\ pc # "down"
  /\ pc' = "down"
  /\ held' = Null
  /\ DropListener
  /\ conn' = FALSE
  /\ notified' = FALSE
  /\ UNCHANGED <<wake, timer, delay>>

Sooner(time) == IF time \in {Null, 0} THEN time ELSE time - 1

Tick ==
  /\ wake' = [j \in Jobs |-> Sooner(wake[j])]
  /\ timer' = Sooner(timer)
  /\ <<wake', timer'>> # <<wake, timer>>
  /\ UNCHANGED <<pc, held, listening, conn, notified, token, delay>>

-----------------------------------------------------------------------------
Loop ==
  \/ WatchAtStart \/ WatchAtStartFails
  \/ \E j \in Jobs : Claim(j)
  \/ Delivered \/ DeliveredUnsaved
  \/ Drained
  \/ ClaimFails
  \/ ArmNextWake \/ ArmReconnect \/ NextWakeFails
  \/ Select
  \/ OnWakeup \/ OnListenerGone \/ OnTimer
  \/ Reconnect \/ ReconnectFails

Next ==
  \/ Start
  \/ Loop
  \/ Forward
  \/ ConnBreaks
  \/ \E j \in Jobs : Elsewhere(j)
  \/ Crash
  \/ Tick

Spec == Init /\ [][Next]_vars

(* The loop, the listener and the clock never stand still, and a claim     *)
(* that is possible again and again does not fail every time.              *)
Fairness ==
  /\ WF_vars(Start)
  /\ WF_vars(Loop)
  /\ WF_vars(Forward)
  /\ WF_vars(Tick)
  /\ \A j \in Jobs : SF_vars(Claim(j))

\* Nothing is assumed of Watch: it may fail every time.
FairSpec == Spec /\ Fairness

\* In the end the process stays up, Watch succeeds and its connection stays up.
ListenerFairSpec ==
  /\ FairSpec
  /\ SF_vars(Reconnect)
  /\ <>[][~ConnBreaks /\ ~Crash]_vars

-----------------------------------------------------------------------------
(* Properties.                                                             *)

\* Every variable keeps its type, and the goroutine runs only while the loop
\* reads its channels.
TypeOK ==
  /\ pc \in {"down", "start", "drain", "deliver", "arm", "armed", "select"}
  /\ held \in (IF pc = "deliver" THEN Jobs ELSE {Null})
  /\ wake \in [Jobs -> Times]
  /\ {listening, conn, notified, token} \subseteq BOOLEAN
  /\ conn => listening
  /\ notified => conn
  /\ token => listening
  /\ timer \in 0..Longer(Horizon, MaxReconnect) \cup {Null}
  /\ delay \in MinReconnect..MaxReconnect

\* No wakeup is lost: while the loop waits in its select on a healthy
\* listener, each row that will become claimable has a timer that fires by
\* then, or a wakeup or a notification that is still to be handled.  A failed
\* NextWake costs no more than the shortest reconnect delay, however long the
\* delay had grown while there was no listener.
NoLostWakeup ==
  pc = "select" /\ conn =>
    \A j \in Jobs : wake[j] # Null =>
      token \/ notified \/ (timer # Null /\ timer <= Longer(wake[j], MinReconnect))

\* "scheduled polling ensures notifications are not required for correctness"
\* (docs/architecture.md): a row that can be claimed is claimed in the end,
\* by this worker or by another process.
DueIsClaimed == \A j \in Jobs : wake[j] = 0 ~> wake[j] # 0
=============================================================================
