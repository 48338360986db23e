------------------------------ MODULE Webhooks ------------------------------
(***************************************************************************)
(* Intake of shop and payment webhooks: every request runs one PostgreSQL  *)
(* transaction (internal/db/transaction.go) at the default READ COMMITTED  *)
(* level over webhook_events, orders, payments and sync_jobs               *)
(* (internal/shop/service.go, internal/payment/service.go and their        *)
(* repositories).                                                          *)
(*                                                                         *)
(* A step is a statement that can wait or that reads what another          *)
(* transaction may change, with the statements that follow it and only     *)
(* touch rows the transaction has locked already.  Each statement sees     *)
(* what is committed when it runs and the transaction's own writes:        *)
(*   SELECT ... FOR UPDATE  waits for a committed row's lock and finds     *)
(*                          nothing while the row is not committed;        *)
(*   INSERT ... DO NOTHING  waits only for an uncommitted row of that key; *)
(*   INSERT ... DO UPDATE   waits for both.                                *)
(***************************************************************************)
EXTENDS OrderPayload

CONSTANTS
  Orders,    \* order references
  EventIds,  \* event ids, scoped by type in the table's key
  Stamps,    \* timestamps of payment events
  Webhooks,  \* the requests that may arrive, any number of times
  Slots      \* transactions that can be open at once

PaymentStatuses == {"PENDING", "COMPLETED", "FAILED", "CANCELLED"}

\* A validated, normalized request; body is a payload or a payment status.
ShopWebhooks ==
  [type : {"SHOP"}, id : EventIds, order : Orders, body : Payloads, stamp : {Null}]
PaymentWebhooks ==
  [type : {"PAYMENT"}, id : EventIds, order : Orders, body : PaymentStatuses, stamp : Stamps]

ASSUME WebhooksAssumption ==
  /\ Webhooks \subseteq ShopWebhooks \cup PaymentWebhooks
  /\ Null \notin Stamps
  /\ Null \notin Slots
  /\ Null \notin Webhooks

VARIABLES
  events,    \* webhook_events, by type and id
  orders,    \* orders with their items, by reference
  payments,  \* payments, by reference
  jobs,      \* the status of each order's sync job
  lock,      \* the transaction that holds a row or an uncommitted key
  tx,        \* the open transactions
  acked      \* requests that were answered with a 2xx status

vars == <<events, orders, payments, jobs, lock, tx, acked>>

-----------------------------------------------------------------------------
EventKeys == {"SHOP", "PAYMENT"} \X EventIds
LockKeys == EventKeys \cup ({"order", "payment"} \X Orders)

JobStatuses == {"PENDING", "PROCESSING", "SYNCED", "WAITING", "DEAD", "CANCELLED"}

EventRows == [wh : Webhooks, processed : BOOLEAN]
OrderRows == [email : Emails, items : Seq(Items),
              status : {"PENDING", "PAID", "CANCELLED"}, paidAt : Stamps \cup {Null}]
PaymentRows == [status : PaymentStatuses, linked : BOOLEAN, paidAt : Stamps \cup {Null}]

\* What a transaction has written and not yet committed.
Writes ==
  [event : EventRows \cup {Null}, order : OrderRows \cup {Null},
   payment : PaymentRows \cup {Null}, job : JobStatuses \cup {Null}, marks : BOOLEAN]

NoWrites ==
  [event |-> Null, order |-> Null, payment |-> Null, job |-> Null, marks |-> FALSE]

Transactions ==
  [pc     : {"idle", "record", "duplicatePayment", "findPayment", "findOrder", "write",
             "create", "compare", "reconcile", "commit", "failed"},
   wh     : Webhooks \cup {Null},
   found  : BOOLEAN,
   answer : {"none", "created", "ok", "awaiting", "conflict", "finalized", "digital",
             "cannotCancel", "error"},
   w      : Writes]

NoTransaction ==
  [pc |-> "idle", wh |-> Null, found |-> FALSE, answer |-> "none", w |-> NoWrites]

ASSUME NullAssumption ==
  Null \notin EventRows \cup OrderRows \cup PaymentRows \cup JobStatuses \cup LockKeys

(* A definition whose name starts with Faulty is its successor with a bug  *)
(* somebody could write; no action uses it.                                *)

Key(wh) == <<wh.type, wh.id>>
OrderKey(wh) == <<"order", wh.order>>
PaymentKey(wh) == <<"payment", wh.order>>

\* A cancelled payment may be revived.
FaultyIsTerminalCompletedOnly(status) == status = "COMPLETED"

\* A completed payment may still be cancelled.
FaultyIsTerminalCancelledOnly(status) == status = "CANCELLED"

IsTerminal(status) == status \in {"COMPLETED", "CANCELLED"}

\* To close the gap between order and payment, the order's key is locked
\* even while there is no order.
FaultyWantsKeyOfNoOrder(t) ==
  LET wh == tx[t].wh IN
  CASE tx[t].pc = "record" /\ events[Key(wh)] = Null              -> Key(wh)
    [] tx[t].pc \in {"findPayment", "reconcile", "duplicatePayment"}
         /\ payments[wh.order] # Null                             -> PaymentKey(wh)
    [] tx[t].pc = "write"                                         -> PaymentKey(wh)
    [] tx[t].pc \in {"findOrder", "compare", "create"}            -> OrderKey(wh)
    [] OTHER                                                      -> Null

\* The row or key that the next statement of t locks, if any: a committed
\* row for SELECT ... FOR UPDATE, a free key for INSERT ... DO NOTHING,
\* either for INSERT ... DO UPDATE.
Wants(t) ==
  LET wh == tx[t].wh IN
  CASE tx[t].pc = "record" /\ events[Key(wh)] = Null              -> Key(wh)
    [] tx[t].pc = "duplicatePayment" /\ events[Key(wh)].wh = wh
         /\ payments[wh.order] # Null                             -> PaymentKey(wh)
    [] tx[t].pc \in {"findPayment", "reconcile"}
         /\ payments[wh.order] # Null                             -> PaymentKey(wh)
    [] tx[t].pc = "write"                                         -> PaymentKey(wh)
    [] tx[t].pc \in {"findOrder", "compare"}
         /\ orders[wh.order] # Null                               -> OrderKey(wh)
    [] tx[t].pc = "create" /\ orders[wh.order] = Null             -> OrderKey(wh)
    [] OTHER                                                      -> Null

Holder(t) == IF Wants(t) = Null THEN Null ELSE lock[Wants(t)]

Blocked(t) == Holder(t) \notin {Null, t}

\* The next statement of t runs: it waits for nobody and locks what it wants.
Runs(t) ==
  /\ ~Blocked(t)
  /\ lock' = IF Wants(t) = Null THEN lock ELSE [lock EXCEPT ![Wants(t)] = t]

Goes(t, pc) == tx' = [tx EXCEPT ![t].pc = pc]

Fails(t, answer) == tx' = [tx EXCEPT ![t].pc = "failed", ![t].answer = answer]

\* The handler's last writes: they are its own rows, so they cannot wait.
Finishes(t, answer, writes) ==
  tx' = [tx EXCEPT ![t].pc = "commit", ![t].answer = answer, ![t].w = writes]

\* MarkProcessed on the event this transaction inserted, if it did.
Processed(w) ==
  IF w.event = Null THEN w ELSE [w EXCEPT !.event.processed = TRUE]

\* The job starts in a status the table does not know.
FaultyScheduledJobUnknown(o) == IF jobs[o] = Null THEN "SCHEDULED" ELSE Null

\* The order is marked paid and its job is forgotten.
FaultyScheduledJobForgotten(o) == Null

\* ScheduleSync: INSERT ... ON CONFLICT (order_id) DO NOTHING.
ScheduledJob(o) == IF jobs[o] = Null THEN "PENDING" ELSE Null

\* MarkPaidAndSchedule in the writes of a transaction that holds the order.
MarkPaidAndSchedule(w, order, o, paidAt) ==
  [w EXCEPT !.order = [order EXCEPT !.status = "PAID", !.paidAt = paidAt],
            !.job   = ScheduledJob(o)]

Tables == <<events, orders, payments, jobs>>

-----------------------------------------------------------------------------
Init ==
  /\ events = [k \in EventKeys |-> Null]
  /\ orders = [o \in Orders |-> Null]
  /\ payments = [o \in Orders |-> Null]
  /\ jobs = [o \in Orders |-> Null]
  /\ lock = [k \in LockKeys |-> Null]
  /\ tx = [t \in Slots |-> NoTransaction]
  /\ acked = {}

\* A request arrives, for the first time or again, and begins its transaction.
Receive(t, wh) ==
  /\ tx[t].pc = "idle"
  /\ tx' = [tx EXCEPT ![t] = [NoTransaction EXCEPT !.pc = "record", !.wh = wh]]
  /\ UNCHANGED <<Tables, lock, acked>>

\* Events.Record inserts the event ...
RecordNew(t) ==
  /\ tx[t].pc = "record"
  /\ LET wh == tx[t].wh IN
     /\ events[Key(wh)] = Null
     /\ Runs(t)
     /\ tx' = [tx EXCEPT
          ![t].pc = IF wh.type = "SHOP" THEN "create" ELSE "findPayment",
          ![t].w.event = [wh |-> wh, processed |-> FALSE]]
  /\ UNCHANGED <<Tables, acked>>

\* ... or finds it there.
RecordDuplicate(t) ==
  /\ tx[t].pc = "record"
  /\ events[Key(tx[t].wh)] # Null
  /\ Runs(t)
  /\ Goes(t, IF tx[t].wh.type = "SHOP" THEN "compare" ELSE "duplicatePayment")
  /\ UNCHANGED <<Tables, acked>>

-----------------------------------------------------------------------------
(* processPayment                                                          *)

\* A repeated event id: the payload must be the same; answer with the state.
DuplicatePayment(t) ==
  /\ tx[t].pc = "duplicatePayment"
  /\ Runs(t)
  /\ LET wh == tx[t].wh IN
     IF events[Key(wh)].wh # wh THEN Fails(t, "conflict")
     ELSE IF payments[wh.order] = Null THEN Fails(t, "error")
     ELSE Finishes(t, "ok", tx[t].w)
  /\ UNCHANGED <<Tables, acked>>

\* Payments.Find: no row yet.
FindNoPayment(t) ==
  /\ tx[t].pc = "findPayment"
  /\ payments[tx[t].wh.order] = Null
  /\ Runs(t)
  /\ Goes(t, "findOrder")
  /\ UNCHANGED <<Tables, acked>>

\* Payments.Find: a terminal payment decides the request.
FindPayment(t) ==
  /\ tx[t].pc = "findPayment"
  /\ LET wh == tx[t].wh
         p  == payments[wh.order] IN
     /\ p # Null
     /\ Runs(t)
     /\ IF ~IsTerminal(p.status) THEN Goes(t, "findOrder")
        ELSE IF p.status # wh.body THEN Fails(t, "finalized")
        ELSE Finishes(t, "ok", Processed(tx[t].w))
  /\ UNCHANGED <<Tables, acked>>

\* Orders.FindID: no order, or one that is not committed.
FindNoOrder(t) ==
  /\ tx[t].pc = "findOrder"
  /\ orders[tx[t].wh.order] = Null
  /\ Runs(t)
  /\ tx' = [tx EXCEPT ![t].pc = "write", ![t].found = FALSE]
  /\ UNCHANGED <<Tables, acked>>

\* Orders.FindID, and the refusal to cancel a digital order.
FindOrder(t) ==
  /\ tx[t].pc = "findOrder"
  /\ LET wh == tx[t].wh IN
     /\ orders[wh.order] # Null
     /\ Runs(t)
     /\ IF wh.body = "CANCELLED" /\ ~HasHardware(orders[wh.order].items)
        THEN Fails(t, "digital")
        ELSE tx' = [tx EXCEPT ![t].pc = "write", ![t].found = TRUE]
  /\ UNCHANGED <<Tables, acked>>

\* The row that UpsertPayment and CancelPayment write over old.
UpsertedPayment(old, wh, found) ==
  [status |-> wh.body,
   linked |-> found \/ (old # Null /\ old.linked),
   paidAt |-> IF wh.body = "COMPLETED" THEN wh.stamp
              ELSE IF old = Null THEN Null
              ELSE old.paidAt]

\* The upserts have lost their WHERE clause.
FaultyMayOverwriteAlways(old) == TRUE

\* Their WHERE clause: they never write over a terminal payment.
MayOverwrite(old) == old # Null => ~IsTerminal(old.status)

PaymentFinalized(t) ==
  /\ tx[t].pc = "write"
  /\ Runs(t)
  /\ ~MayOverwrite(payments[tx[t].wh.order])
  /\ Fails(t, "finalized")
  /\ UNCHANGED <<Tables, acked>>

\* completePayment with the row that the upsert returned.
CompletePayment(w, o) == MarkPaidAndSchedule(w, orders[o], o, w.payment.paidAt)

\* Payments.Upsert, then completePayment when the order is there.
UpsertPayment(t) ==
  /\ tx[t].pc = "write"
  /\ LET wh  == tx[t].wh
         o   == wh.order
         w   == [Processed(tx[t].w) EXCEPT
                   !.payment = UpsertedPayment(payments[o], wh, tx[t].found)] IN
     /\ wh.body # "CANCELLED"
     /\ Runs(t)
     /\ MayOverwrite(payments[o])
     /\ IF wh.body # "COMPLETED" THEN Finishes(t, "ok", w)
        ELSE IF ~tx[t].found THEN Finishes(t, "awaiting", w)
        ELSE Finishes(t, "ok", CompletePayment(w, o))
  /\ UNCHANGED <<Tables, acked>>

\* Orders.Cancel refuses while the job is being delivered or has been.
CanCancelJob(o) == jobs[o] \in {Null, "PENDING", "WAITING", "DEAD"}

CancelledJob(o) == IF jobs[o] = Null THEN Null ELSE "CANCELLED"

\* Payments.Cancel, then Orders.Cancel when the order is there.
CancelPayment(t) ==
  /\ tx[t].pc = "write"
  /\ LET wh == tx[t].wh
         o  == wh.order
         w  == [Processed(tx[t].w) EXCEPT
                  !.payment = UpsertedPayment(payments[o], wh, tx[t].found)] IN
     /\ wh.body = "CANCELLED"
     /\ Runs(t)
     /\ MayOverwrite(payments[o])
     /\ IF ~tx[t].found THEN Finishes(t, "ok", w)
        ELSE IF ~CanCancelJob(o) THEN Fails(t, "cannotCancel")
        ELSE Finishes(t, "ok",
               [w EXCEPT !.order = [orders[o] EXCEPT !.status = "CANCELLED"],
                         !.job   = CancelledJob(o)])
  /\ UNCHANGED <<Tables, acked>>

-----------------------------------------------------------------------------
(* processShop                                                             *)

\* The rows that Orders.Create and AddItems insert.
NewOrder(wh) ==
  [email |-> wh.body.email, items |-> StoredItems(wh.body.items),
   status |-> "PENDING", paidAt |-> Null]

\* ON CONFLICT DO UPDATE instead of DO NOTHING.
FaultyCreateOverwrites(t) ==
  /\ tx[t].pc = "create"
  /\ LET wh == tx[t].wh IN
     /\ Runs(t)
     /\ tx' = [tx EXCEPT
          ![t].pc = "reconcile",
          ![t].w.order = NewOrder(wh)]
  /\ UNCHANGED <<Tables, acked>>

\* Orders.Create inserts the order, and AddItems its items ...
CreateOrder(t) ==
  /\ tx[t].pc = "create"
  /\ LET wh == tx[t].wh IN
     /\ orders[wh.order] = Null
     /\ Runs(t)
     /\ tx' = [tx EXCEPT
          ![t].pc = "reconcile",
          ![t].w.order = NewOrder(wh)]
  /\ UNCHANGED <<Tables, acked>>

\* ... or finds it there.
OrderExists(t) ==
  /\ tx[t].pc = "create"
  /\ orders[tx[t].wh.order] # Null
  /\ Runs(t)
  /\ Goes(t, "compare")
  /\ UNCHANGED <<Tables, acked>>

\* Orders.Find and sameOrderPayload, for a repeated event or a known order.
CompareOrder(t) ==
  /\ tx[t].pc = "compare"
  /\ Runs(t)
  /\ LET wh == tx[t].wh
         o  == orders[wh.order] IN
     IF o = Null THEN Fails(t, "conflict")
     ELSE \E listed \in Listings(o.items) :
            IF SameOrderPayload(o, listed, wh.body)
            THEN Finishes(t, "ok", Processed(tx[t].w))
            ELSE Fails(t, "conflict")
  /\ UNCHANGED <<Tables, acked>>

\* The payment that came first is not looked for.
FaultyReconcileSkipped(t) ==
  /\ tx[t].pc = "reconcile"
  /\ Runs(t)
  /\ Finishes(t, "created", Processed(tx[t].w))
  /\ UNCHANGED <<Tables, acked>>

\* reconcilePayment when Payments.Find sees no row.
ReconcileNothing(t) ==
  /\ tx[t].pc = "reconcile"
  /\ payments[tx[t].wh.order] = Null
  /\ Runs(t)
  /\ Finishes(t, "created", Processed(tx[t].w))
  /\ UNCHANGED <<Tables, acked>>

\* reconcilePayment with the payment that came first: link it, and cancel or
\* pay the order.  The order is this transaction's own.
ReconcilePayment(t) ==
  /\ tx[t].pc = "reconcile"
  /\ LET o  == tx[t].wh.order
         p  == payments[o]
         w  == [Processed(tx[t].w) EXCEPT !.payment = [p EXCEPT !.linked = TRUE]] IN
     /\ p # Null
     /\ Runs(t)
     /\ CASE p.status = "CANCELLED" ->
               Finishes(t, "created",
                 [w EXCEPT !.order.status = "CANCELLED", !.job = CancelledJob(o),
                           !.marks = TRUE])
          [] p.status = "COMPLETED" /\ p.paidAt # Null ->
               Finishes(t, "created",
                 [MarkPaidAndSchedule(w, w.order, o, p.paidAt) EXCEPT !.marks = TRUE])
          [] p.status = "COMPLETED" /\ p.paidAt = Null -> Fails(t, "error")
          [] OTHER -> Finishes(t, "created", w)
  /\ UNCHANGED <<Tables, acked>>

-----------------------------------------------------------------------------
(* The end of a transaction.                                               *)

Released(t) == [k \in LockKeys |-> IF lock[k] = t THEN Null ELSE lock[k]]

Installed(new, old) == IF new = Null THEN old ELSE new

\* MarkPaymentEventsProcessed: the payment events of the order.
Marked(k, o, marks) ==
  IF marks /\ events[k] # Null /\ k[1] = "PAYMENT" /\ events[k].wh.order = o
  THEN [events[k] EXCEPT !.processed = TRUE] ELSE events[k]

Install(t) ==
  LET wh == tx[t].wh
      w  == tx[t].w IN
  /\ events' = [k \in EventKeys |->
       IF k = Key(wh) THEN Installed(w.event, events[k]) ELSE Marked(k, wh.order, w.marks)]
  /\ orders' = [orders EXCEPT ![wh.order] = Installed(w.order, orders[wh.order])]
  /\ payments' = [payments EXCEPT ![wh.order] = Installed(w.payment, payments[wh.order])]
  /\ jobs' = [jobs EXCEPT ![wh.order] = Installed(w.job, jobs[wh.order])]

Ends(t) ==
  /\ lock' = Released(t)
  /\ tx' = [tx EXCEPT ![t] = NoTransaction]

\* The router's answer to the caller.
StatusCode(answer) ==
  CASE answer = "created"  -> 201
    [] answer = "ok"       -> 200
    [] answer = "awaiting" -> 202
    [] answer \in {"conflict", "finalized", "digital", "cannotCancel"} -> 409
    [] OTHER               -> 500

Answered(t) == acked' = IF StatusCode(tx[t].answer) < 300 THEN acked \cup {tx[t].wh} ELSE acked

Commit(t) ==
  /\ tx[t].pc = "commit"
  /\ Install(t)
  /\ Ends(t)
  /\ Answered(t)

\* The commit takes place and its answer is lost: the caller gets a 500.
CommitLost(t) ==
  /\ tx[t].pc = "commit"
  /\ Install(t)
  /\ Ends(t)
  /\ UNCHANGED acked

\* The handler returned an error: a 409, or a 500.
Rollback(t) ==
  /\ tx[t].pc = "failed"
  /\ Ends(t)
  /\ Answered(t)
  /\ UNCHANGED Tables

\* A statement fails, the caller goes away, the process dies, or PostgreSQL
\* picks the transaction as the victim of a deadlock.
Abort(t) ==
  /\ tx[t].pc \notin {"idle", "failed"}
  /\ Ends(t)
  /\ UNCHANGED <<Tables, acked>>

-----------------------------------------------------------------------------
(* The workers move a job that is committed (module SyncJobs).             *)
JobMoves(o, status) ==
  /\ jobs[o] \notin {Null, "CANCELLED", status}
  /\ \A t \in Slots : tx[t].w.job = "CANCELLED" => tx[t].wh.order # o
  /\ jobs' = [jobs EXCEPT ![o] = status]
  /\ UNCHANGED <<events, orders, payments, lock, tx, acked>>

Statement(t) ==
  \/ RecordNew(t)
  \/ RecordDuplicate(t)
  \/ DuplicatePayment(t)
  \/ FindNoPayment(t)
  \/ FindPayment(t)
  \/ FindNoOrder(t)
  \/ FindOrder(t)
  \/ PaymentFinalized(t)
  \/ UpsertPayment(t)
  \/ CancelPayment(t)
  \/ CreateOrder(t)
  \/ OrderExists(t)
  \/ CompareOrder(t)
  \/ ReconcileNothing(t)
  \/ ReconcilePayment(t)
  \/ Commit(t)
  \/ CommitLost(t)
  \/ Rollback(t)

Next ==
  \/ \E t \in Slots, wh \in Webhooks : Receive(t, wh)
  \/ \E t \in Slots : Statement(t) \/ Abort(t)
  \/ \E o \in Orders, status \in JobStatuses \ {"CANCELLED"} : JobMoves(o, status)

Spec == Init /\ [][Next]_vars

-----------------------------------------------------------------------------
(* Properties of the committed tables.                                     *)

\* Every table, lock and transaction keeps its shape.
TypeOK ==
  /\ events \in [EventKeys -> EventRows \cup {Null}]
  /\ orders \in [Orders -> OrderRows \cup {Null}]
  /\ payments \in [Orders -> PaymentRows \cup {Null}]
  /\ jobs \in [Orders -> JobStatuses \cup {Null}]
  /\ lock \in [LockKeys -> Slots \cup {Null}]
  /\ tx \in [Slots -> Transactions]
  /\ acked \subseteq Webhooks

\* GetOrderStatus: the row of FindStatus, which joins the payment by its
\* order_id, so one that is not linked does not show.
FindStatus(o) ==
  [status  |-> IF orders[o] = Null THEN "NONE" ELSE orders[o].status,
   payment |-> IF orders[o] # Null /\ payments[o] # Null /\ payments[o].linked
               THEN payments[o].status ELSE "NOT_RECEIVED",
   sync    |-> IF jobs[o] = Null THEN "NOT_SCHEDULED" ELSE jobs[o]]

PaymentStatus(o) == IF payments[o] = Null THEN "NONE" ELSE payments[o].status

\* The transactional outbox, as GET /api/orders/{orderId} shows it at any
\* moment: the order is PAID exactly when it has a job, and only with a
\* payment that is linked to it, shows as COMPLETED and gave it its paid_at.
PaidIffScheduled ==
  \A o \in Orders :
    /\ FindStatus(o).status = "PAID" <=> FindStatus(o).sync \notin {"NOT_SCHEDULED", "CANCELLED"}
    /\ FindStatus(o).status = "PAID" =>
         /\ FindStatus(o).payment = "COMPLETED"
         /\ orders[o].paidAt # Null
         /\ orders[o].paidAt = payments[o].paidAt

\* A cancelled order has a cancelled, linked payment, and it never had a job:
\* Orders.Cancel never meets a job, so it can neither overtake a delivery nor
\* be refused because of one.
CancelledIsQuiet ==
  /\ \A o \in Orders :
       FindStatus(o).status = "CANCELLED" =>
         FindStatus(o).payment = "CANCELLED" /\ jobs[o] = Null
  /\ \A t \in Slots : tx[t].answer # "cannotCancel" /\ tx[t].w.job # "CANCELLED"

\* COMPLETED and CANCELLED are terminal: once committed, neither the status
\* nor the paid_at of the payment ever changes, whatever transactions are
\* open at the same time.
TerminalIsFinal ==
  [][\A o \in Orders : PaymentStatus(o) \in {"COMPLETED", "CANCELLED"} =>
       /\ PaymentStatus(o)' = PaymentStatus(o)
       /\ payments'[o].paidAt = payments[o].paidAt]_vars

\* An order keeps the content it was created with, and once it is paid or
\* cancelled it stays so.
OrderNeverReverts ==
  [][\A o \in Orders : orders[o] # Null =>
       /\ orders'[o] # Null
       /\ orders'[o].email = orders[o].email
       /\ orders'[o].items = orders[o].items
       /\ orders[o].status # "PENDING" => orders'[o].status = orders[o].status]_vars

\* A request that was answered with a 2xx has taken effect for good: its
\* event id is stored and processed; the order has its email and, counted
\* with their repetitions, its items; or the payment has the terminal status
\* it asked for.
AckedTookEffect ==
  \A wh \in acked :
    /\ events[Key(wh)] # Null
    /\ events[Key(wh)].processed
    /\ wh.type = "SHOP" =>
         /\ orders[wh.order] # Null
         /\ orders[wh.order].email = wh.body.email
         /\ ToBag(orders[wh.order].items) = ToBag(StoredItems(wh.body.items))
    /\ wh.type = "PAYMENT" =>
         /\ events[Key(wh)].wh = wh
         /\ payments[wh.order] # Null
         /\ wh.body \in {"COMPLETED", "CANCELLED"} => payments[wh.order].status = wh.body

\* "webhook processing is idempotent" (docs/ngrok-live-interview.md): a
\* request that was answered with a 2xx is not refused after that when it
\* comes again, whatever happened since and in whatever order the items are
\* listed.
RetryNotRefused ==
  [][\A t \in Slots : tx[t].pc # "failed" /\ tx'[t].pc = "failed" => tx[t].wh \notin acked]_vars

\* Transactions that wait for one another in a circle.
Deadlocked(circle) == circle # {} /\ {Holder(t) : t \in circle} = circle /\ \A t \in circle : Blocked(t)

\* Payment webhooks may lock order and payment in either order, and
\* PostgreSQL must then abort one; the shop webhook, which creates the order
\* and then locks the payment, is never part of such a circle.
OnlyPaymentsDeadlock ==
  \A circle \in SUBSET Slots : Deadlocked(circle) =>
    \A t \in circle : tx[t].wh.type = "PAYMENT"

\* "A completed payment triggers PAID and scheduling exactly once through
\* transactional repository operations" (docs/domain.md): when the order and
\* its terminal payment are both stored, they have been reconciled.
Reconciled ==
  \A o \in Orders : orders[o] # Null /\ payments[o] # Null =>
    /\ payments[o].linked
    /\ payments[o].status = "COMPLETED" => orders[o].status = "PAID" /\ jobs[o] # Null
    /\ payments[o].status = "CANCELLED" => orders[o].status = "CANCELLED"

\* "Digital-only orders cannot be cancelled" (docs/domain.md).
DigitalNeverCancelled ==
  \A o \in Orders : FindStatus(o).status = "CANCELLED" => HasHardware(orders[o].items)

\* "A false override does not erase a catalog hardware classification"
\* (docs/domain.md): no cancellation is refused as digital while an item of
\* the order is hardware by the catalog.
CatalogHardwareCancellable ==
  \A t \in Slots : tx[t].answer = "digital" =>
    ~InCatalog({item.sku : item \in ToSet(orders[tx[t].wh.order].items)})
=============================================================================
