------------------------- MODULE WorkerLoopProofs ---------------------------
(***************************************************************************)
(* Theorems about WorkerLoop for any rows and any values of the delays.    *)
(***************************************************************************)
EXTENDS WorkerLoop, LeastNaturals

\* While there is a listener, the reconnect delay is the shortest one.
DelayInv ==
  /\ pc \in {"down", "start"} => ~listening
  /\ listening \/ pc = "start" => delay = MinReconnect

\* A row that will become claimable is looked at by then.
Covered(j) ==
  wake[j] # Null =>
    token \/ notified \/ (timer # Null /\ timer <= Longer(wake[j], MinReconnect))

\* What makes NoLostWakeup inductive: it holds from the moment the timer is
\* armed, when the loop has yet to reach its select.
WakeupInv ==
  pc \in {"armed", "select"} /\ conn => \A j \in Jobs : Covered(j)

-----------------------------------------------------------------------------
(* What NextWake and the clock return.                                     *)

\* NextWake returns the time of some row, and no row is earlier.
LEMMA NextWakeIsLeast ==
  ASSUME wake \in [Jobs -> Times]
  PROVE  /\ NextWake \in Times
         /\ \A j \in Jobs : wake[j] # Null => NextWake # Null /\ NextWake <= wake[j]
<1>1. Pending \subseteq 0..Horizon
  BY DEF Pending, Times
<1>2. CASE Pending = {}
  BY <1>2 DEF NextWake, Pending, Times
<1>3. CASE Pending # {}
  <2>1. \E x \in Pending : \A y \in Pending : x <= y
    <3>1. Pending \subseteq Nat
      BY <1>1, HorizonAssumption
    <3>2. QED
      BY <1>3, <3>1, LeastNatural
  <2>2. Min(Pending) \in Pending /\ \A y \in Pending : Min(Pending) <= y
    BY <2>1 DEF Min
  <2>3. NextWake = Min(Pending)
    BY <1>3 DEF NextWake
  <2>4. \A j \in Jobs : wake[j] # Null => wake[j] \in Pending
    BY DEF Pending
  <2>5. NextWake # Null
    BY <2>2, <2>3 DEF Pending
  <2>6. QED
    BY <1>1, <2>2, <2>3, <2>4, <2>5 DEF Times
<1>4. QED
  BY <1>2, <1>3

\* A time is a time one tick later.
LEMMA SoonerInRange ==
  ASSUME NEW limit \in Nat, NEW time \in 0..limit \cup {Null}
  PROVE  /\ Sooner(time) \in 0..limit \cup {Null}
         /\ Sooner(time) = Null <=> time = Null
BY NullAssumption DEF Sooner

\* A timer that covers a row still covers it one tick later.
LEMMA SoonerCovers ==
  ASSUME NEW time \in Nat, NEW until \in Nat, time <= Longer(until, MinReconnect)
  PROVE  Sooner(time) <= Longer(Sooner(until), MinReconnect)
BY ReconnectAssumption, NullAssumption DEF Sooner, Longer

-----------------------------------------------------------------------------
(* Type correctness.                                                       *)

\* The limit of the timer.
LEMMA TimerLimit ==
  /\ Longer(Horizon, MaxReconnect) \in Nat
  /\ Horizon <= Longer(Horizon, MaxReconnect)
  /\ MaxReconnect <= Longer(Horizon, MaxReconnect)
BY HorizonAssumption, ReconnectAssumption DEF Longer

\* Every step preserves the types.
LEMMA StepTyped == TypeOK /\ [Next]_vars => TypeOK'
<1> SUFFICES ASSUME TypeOK, [Next]_vars PROVE TypeOK'
  OBVIOUS
<1> USE DEF TypeOK
<1>1. CASE Start
  BY <1>1, ReconnectAssumption DEF Start
<1>2. CASE WatchAtStart
  BY <1>2 DEF WatchAtStart, Watch
<1>3. CASE WatchAtStartFails
  BY <1>3 DEF WatchAtStartFails
<1>4. ASSUME NEW j \in Jobs, Claim(j) PROVE TypeOK'
  BY <1>4, HorizonAssumption DEF Claim, Notify, Times
<1>5. CASE Delivered
  BY <1>5 DEF Delivered, Notify
<1>6. CASE DeliveredUnsaved
  BY <1>6 DEF DeliveredUnsaved
<1>7. CASE Drained \/ ClaimFails \/ Select
  BY <1>7 DEF Drained, ClaimFails, Select
<1>8. CASE ArmNextWake
  BY <1>8, NextWakeIsLeast, TimerLimit, HorizonAssumption DEF ArmNextWake, Arm, Times
<1>9. CASE ArmReconnect \/ NextWakeFails
  BY <1>9, TimerLimit, ReconnectAssumption DEF ArmReconnect, NextWakeFails, Arm
<1>10. CASE OnWakeup
  BY <1>10 DEF OnWakeup
<1>11. CASE OnListenerGone
  BY <1>11 DEF OnListenerGone, DropListener
<1>12. CASE OnTimer
  BY <1>12 DEF OnTimer
<1>13. CASE Reconnect
  <2>1. delay' \in MinReconnect..MaxReconnect
    BY <1>13, ReconnectAssumption DEF Reconnect
  <2>2. QED
    BY <1>13, <2>1 DEF Reconnect, Watch
<1>14. CASE ReconnectFails
  <2>1. delay' \in MinReconnect..MaxReconnect
    BY <1>14, ReconnectAssumption DEF ReconnectFails
  <2>2. QED
    BY <1>14, <2>1 DEF ReconnectFails
<1>15. CASE Forward
  BY <1>15 DEF Forward
<1>16. CASE ConnBreaks
  BY <1>16 DEF ConnBreaks
<1>17. ASSUME NEW j \in Jobs, Elsewhere(j) PROVE TypeOK'
  BY <1>17 DEF Elsewhere, Notify
<1>18. CASE Crash
  BY <1>18 DEF Crash, DropListener
<1>19. CASE Tick
  <2>1. wake' \in [Jobs -> Times]
    BY <1>19, SoonerInRange, HorizonAssumption DEF Tick, Times
  <2>2. timer' \in 0..Longer(Horizon, MaxReconnect) \cup {Null}
    BY <1>19, SoonerInRange, TimerLimit DEF Tick
  <2>3. QED
    BY <1>19, <2>1, <2>2 DEF Tick
<1>20. CASE UNCHANGED vars
  BY <1>20 DEF vars
<1>21. QED
  BY <1>1, <1>2, <1>3, <1>4, <1>5, <1>6, <1>7, <1>8, <1>9, <1>10, <1>11, <1>12, <1>13,
     <1>14, <1>15, <1>16, <1>17, <1>18, <1>19, <1>20 DEF Next, Loop

\* The loop, the listener and the timer keep their types: the goroutine runs
\* only while the loop reads its channels, and the reconnect delay stays
\* between its bounds however often Watch fails.
THEOREM TypeCorrect == Spec => []TypeOK
<1>1. Init => TypeOK
  <2>1. MinReconnect \in MinReconnect..MaxReconnect
    BY ReconnectAssumption
  <2>2. [j \in Jobs |-> Null] \in [Jobs -> Times]
    BY DEF Times
  <2>3. QED
    BY <2>1, <2>2 DEF Init, TypeOK
<1>2. QED
  BY <1>1, StepTyped, PTL DEF Spec

-----------------------------------------------------------------------------
(* No wakeup is lost.                                                      *)

\* Every step preserves DelayInv: a listener comes with the shortest delay.
LEMMA StepDelays == TypeOK /\ DelayInv /\ [Next]_vars => DelayInv'
<1> SUFFICES ASSUME TypeOK, DelayInv, [Next]_vars PROVE DelayInv'
  OBVIOUS
<1> USE DEF TypeOK, DelayInv
<1>1. CASE Start \/ WatchAtStart \/ WatchAtStartFails
  BY <1>1 DEF Start, WatchAtStart, WatchAtStartFails, Watch
<1>2. ASSUME NEW j \in Jobs, Claim(j) PROVE DelayInv'
  BY <1>2 DEF Claim
<1>3. CASE Delivered \/ DeliveredUnsaved \/ Drained \/ ClaimFails \/ Select
  BY <1>3 DEF Delivered, DeliveredUnsaved, Drained, ClaimFails, Select
<1>4. CASE ArmNextWake \/ ArmReconnect \/ NextWakeFails
  BY <1>4 DEF ArmNextWake, ArmReconnect, NextWakeFails, Arm
<1>5. CASE OnWakeup \/ OnListenerGone \/ OnTimer
  BY <1>5 DEF OnWakeup, OnListenerGone, OnTimer, DropListener
<1>6. CASE Reconnect \/ ReconnectFails
  BY <1>6 DEF Reconnect, ReconnectFails, Watch
<1>7. CASE Forward \/ ConnBreaks
  BY <1>7 DEF Forward, ConnBreaks
<1>8. ASSUME NEW j \in Jobs, Elsewhere(j) PROVE DelayInv'
  BY <1>8 DEF Elsewhere
<1>9. CASE Crash \/ Tick
  BY <1>9 DEF Crash, DropListener, Tick
<1>10. CASE UNCHANGED vars
  BY <1>10 DEF vars
<1>11. QED
  BY <1>1, <1>2, <1>3, <1>4, <1>5, <1>6, <1>7, <1>8, <1>9, <1>10 DEF Next, Loop

\* Every step preserves WakeupInv.  A change of a row leaves a notification
\* behind, arming looks at every row, and a tick brings timer and rows nearer
\* together.
LEMMA StepWakes ==
  TypeOK /\ DelayInv /\ WakeupInv /\ [Next]_vars => WakeupInv'
<1> SUFFICES ASSUME TypeOK, DelayInv, WakeupInv, [Next]_vars,
                    pc' \in {"armed", "select"}, conn',
                    NEW j \in Jobs
             PROVE  Covered(j)'
  BY DEF WakeupInv
<1> USE DEF TypeOK
<1>0. wake[j] # Null => wake[j] \in Nat
  BY HorizonAssumption DEF Times
<1>1. CASE ArmNextWake
  <2>1. timer' = NextWake /\ wake' = wake
    BY <1>1 DEF ArmNextWake, Arm
  <2>2. wake[j] # Null => NextWake # Null /\ NextWake <= wake[j]
    BY NextWakeIsLeast
  <2>3. NextWake \in Times
    BY NextWakeIsLeast
  <2>4. wake[j] # Null => NextWake <= Longer(wake[j], MinReconnect)
    BY <1>0, <2>2, <2>3, HorizonAssumption, ReconnectAssumption DEF Longer, Times
  <2>5. QED
    BY <2>1, <2>2, <2>4 DEF Covered
<1>2. CASE NextWakeFails
  <2>1. timer' = MinReconnect /\ wake' = wake
    BY <1>2 DEF NextWakeFails, Arm, DelayInv
  <2>2. wake[j] # Null => MinReconnect <= Longer(wake[j], MinReconnect)
    BY <1>0, ReconnectAssumption DEF Longer
  <2>3. MinReconnect # Null
    BY ReconnectAssumption, NullAssumption
  <2>4. QED
    BY <2>1, <2>2, <2>3 DEF Covered
<1>3. CASE Forward
  BY <1>3 DEF Forward, Covered
<1>4. ASSUME NEW i \in Jobs, Elsewhere(i) PROVE Covered(j)'
  BY <1>4 DEF Elsewhere, Notify, Covered
<1>5. CASE Tick
  <2>1. /\ pc \in {"armed", "select"} /\ conn
        /\ token' = token /\ notified' = notified
        /\ wake'[j] = Sooner(wake[j]) /\ timer' = Sooner(timer)
    BY <1>5 DEF Tick
  <2>2. Covered(j)
    BY <2>1 DEF WakeupInv
  <2>3. SUFFICES ASSUME wake'[j] # Null, ~token, ~notified
                 PROVE  timer' # Null /\ timer' <= Longer(wake'[j], MinReconnect)
    BY <2>1 DEF Covered
  <2>4. wake[j] # Null
    BY <2>1, <2>3 DEF Sooner
  <2>5. timer # Null /\ timer <= Longer(wake[j], MinReconnect)
    BY <2>2, <2>3, <2>4 DEF Covered
  <2>6. timer \in Nat
    BY <2>5, TimerLimit
  <2>7. Sooner(timer) # Null
    BY <2>6, NullAssumption DEF Sooner
  <2>8. Sooner(timer) <= Longer(Sooner(wake[j]), MinReconnect)
    BY <1>0, <2>4, <2>5, <2>6, SoonerCovers
  <2>9. QED
    BY <2>1, <2>7, <2>8
<1>6. CASE Select \/ UNCHANGED vars
  <2>1. Covered(j)
    BY <1>6 DEF Select, vars, WakeupInv
  <2>2. UNCHANGED <<wake, token, notified, timer>>
    BY <1>6 DEF Select, vars
  <2>3. QED
    BY <2>1, <2>2 DEF Covered
<1>7. CASE ArmReconnect
  BY <1>7 DEF ArmReconnect, Arm
<1>8. CASE ConnBreaks \/ Crash
  BY <1>8 DEF ConnBreaks, Crash
<1>9. CASE Start \/ WatchAtStart \/ WatchAtStartFails
  BY <1>9 DEF Start, WatchAtStart, WatchAtStartFails
<1>10. ASSUME NEW i \in Jobs, Claim(i) PROVE FALSE
  BY <1>10 DEF Claim
<1>11. CASE Delivered \/ DeliveredUnsaved \/ Drained \/ ClaimFails
  BY <1>11 DEF Delivered, DeliveredUnsaved, Drained, ClaimFails
<1>12. CASE OnWakeup \/ OnListenerGone \/ OnTimer \/ Reconnect \/ ReconnectFails
  BY <1>12 DEF OnWakeup, OnListenerGone, OnTimer, Reconnect, ReconnectFails
<1>13. QED
  BY <1>1, <1>2, <1>3, <1>4, <1>5, <1>6, <1>7, <1>8, <1>9, <1>10, <1>11, <1>12
  DEF Next, Loop

\* While the loop waits on a healthy listener, no row becomes claimable
\* unseen: the timer fires by then, or a wakeup or a notification is on its
\* way, whatever other processes write between the NextWake query and the
\* select.  A NextWake that fails delays a row by the shortest reconnect
\* delay at most, because a listener never keeps a delay that has grown.
THEOREM WakeupsKept == Spec => []NoLostWakeup
<1>1. Init => DelayInv /\ WakeupInv
  BY DEF Init, DelayInv, WakeupInv
<1>2. WakeupInv => NoLostWakeup
  BY DEF WakeupInv, Covered, NoLostWakeup
<1>3. QED
  BY <1>1, <1>2, TypeCorrect, StepDelays, StepWakes, PTL DEF Spec
=============================================================================
