--------------------------- MODULE WebhooksProofs ---------------------------
(***************************************************************************)
(* Theorems about Webhooks for any orders, requests and number of open     *)
(* transactions.                                                           *)
(***************************************************************************)
EXTENDS Webhooks, OrderPayloadProofs

-----------------------------------------------------------------------------
(* The invariant.                                                          *)

\* Where a handler is says whose webhook it works on.
FlowOK(t) ==
  /\ tx[t].pc # "idle" => tx[t].wh \in Webhooks
  /\ tx[t].pc = "idle" => tx[t] = NoTransaction
  /\ tx[t].pc \in {"duplicatePayment", "findPayment", "findOrder", "write"} =>
       tx[t].wh.type = "PAYMENT"
  /\ tx[t].pc \in {"create", "compare", "reconcile"} => tx[t].wh.type = "SHOP"
  /\ tx[t].pc \in {"record", "duplicatePayment"} => tx[t].w.event = Null
  /\ tx[t].pc \notin {"reconcile", "commit", "failed"} =>
       tx[t].w.order = Null /\ tx[t].w.payment = Null
  /\ tx[t].pc = "reconcile" => tx[t].w.order = NewOrder(tx[t].wh) /\ tx[t].w.payment = Null
  /\ tx[t].pc = "failed" => tx[t].answer \notin {"created", "ok", "awaiting"}
  /\ tx[t].answer # "cannotCancel"

\* The order that FindID returned is locked, so it stays as it was read.
FoundOK(t) ==
  tx[t].found =>
    /\ tx[t].pc # "idle"
    /\ lock[OrderKey(tx[t].wh)] = t
    /\ orders[tx[t].wh.order] # Null

\* The event a transaction has inserted is the only one of its key.
EventWriteOK(t) ==
  tx[t].w.event # Null =>
    /\ lock[Key(tx[t].wh)] = t
    /\ events[Key(tx[t].wh)] = Null
    /\ tx[t].w.event.wh = tx[t].wh
    /\ tx[t].pc = "commit" => tx[t].w.event.processed

\* Every price is a number of whole cents already.
WholeCents(items) == StoredItems(items) = items

\* An order is written under its lock, over nothing or over a pending order
\* with the same content.
OrderWriteOK(t) ==
  tx[t].w.order # Null =>
    /\ lock[OrderKey(tx[t].wh)] = t
    /\ WholeCents(tx[t].w.order.items)
    /\ orders[tx[t].wh.order] # Null =>
         /\ orders[tx[t].wh.order].status = "PENDING"
         /\ orders[tx[t].wh.order].email = tx[t].w.order.email
         /\ orders[tx[t].wh.order].items = tx[t].w.order.items
         /\ tx[t].w.order.status # "PENDING"

\* A payment is written under its lock, over nothing, over a payment that is
\* not terminal or over one with the same outcome, and stays linked.
PaymentWriteOK(t) ==
  tx[t].w.payment # Null =>
    /\ lock[PaymentKey(tx[t].wh)] = t
    /\ tx[t].w.payment.status = "COMPLETED" => tx[t].w.payment.paidAt # Null
    /\ payments[tx[t].wh.order] # Null =>
         /\ IsTerminal(payments[tx[t].wh.order].status) =>
              /\ tx[t].w.payment.status = payments[tx[t].wh.order].status
              /\ tx[t].w.payment.paidAt = payments[tx[t].wh.order].paidAt
         /\ payments[tx[t].wh.order].linked => tx[t].w.payment.linked

\* What is written together: the order becomes PAID with a job and its linked
\* payment, CANCELLED with its linked payment and no job; and the payment of an
\* order that is there becomes COMPLETED or CANCELLED with the order.
BundleOK(t) ==
  /\ tx[t].w.job # Null =>
       tx[t].w.job = "PENDING" /\ tx[t].w.order # Null /\ tx[t].w.order.status = "PAID"
  /\ tx[t].w.order # Null /\ tx[t].w.order.status = "PAID" =>
       /\ tx[t].w.job # Null
       /\ tx[t].w.payment # Null
       /\ tx[t].w.payment.status = "COMPLETED"
       /\ tx[t].w.payment.linked
       /\ tx[t].w.payment.paidAt = tx[t].w.order.paidAt
  /\ tx[t].w.order # Null /\ tx[t].w.order.status = "CANCELLED" =>
       /\ tx[t].w.payment # Null
       /\ tx[t].w.payment.status = "CANCELLED"
       /\ tx[t].w.payment.linked
  /\ tx[t].w.payment # Null /\ (tx[t].found \/ tx[t].w.order # Null) =>
       /\ tx[t].w.payment.linked
       /\ tx[t].w.payment.status = "COMPLETED" =>
            tx[t].w.order # Null /\ tx[t].w.order.status = "PAID"
       /\ tx[t].w.payment.status = "CANCELLED" =>
            tx[t].w.order # Null /\ tx[t].w.order.status = "CANCELLED"

\* The payment that a payment webhook leaves behind.
PaymentEffect(wh, payment) ==
  /\ payment # Null
  /\ IsTerminal(wh.body) => payment.status = wh.body

\* The order that a shop webhook leaves behind: the one that it created, or
\* one that sameOrderPayload took for the same order.
ShopEffect(wh, order) ==
  /\ order # Null
  /\ order.email = wh.body.email
  /\ \/ order.items = StoredItems(wh.body.items)
     \/ \E listed \in Listings(order.items) : Matches(listed, wh.body.items)

\* A transaction that is about to commit leaves its event and the effect of
\* its webhook behind.
OutcomeOK(t) ==
  /\ tx[t].pc \in {"create", "reconcile", "findPayment", "findOrder", "write"} =>
       tx[t].w.event # Null
  /\ tx[t].pc \in {"duplicatePayment", "compare", "commit"} /\ tx[t].w.event = Null =>
       events[Key(tx[t].wh)] # Null
  /\ tx[t].pc = "commit" /\ tx[t].wh.type = "PAYMENT" =>
       /\ lock[PaymentKey(tx[t].wh)] = t
       /\ PaymentEffect(tx[t].wh, Installed(tx[t].w.payment, payments[tx[t].wh.order]))
       /\ tx[t].w.event = Null => events[Key(tx[t].wh)].wh = tx[t].wh
  /\ tx[t].pc = "commit" /\ tx[t].wh.type = "SHOP" =>
       /\ lock[OrderKey(tx[t].wh)] = t
       /\ ShopEffect(tx[t].wh, Installed(tx[t].w.order, orders[tx[t].wh.order]))

SlotInv(t) ==
  /\ FlowOK(t) /\ FoundOK(t)
  /\ EventWriteOK(t) /\ OrderWriteOK(t) /\ PaymentWriteOK(t) /\ BundleOK(t)
  /\ OutcomeOK(t)

\* The rows of an order agree with one another.
RowsOK(o) ==
  /\ orders[o] # Null => WholeCents(orders[o].items)
  /\ payments[o] # Null /\ payments[o].status = "COMPLETED" => payments[o].paidAt # Null
  /\ orders[o] = Null \/ orders[o].status \in {"PENDING", "CANCELLED"} => jobs[o] = Null
  /\ orders[o] # Null /\ orders[o].status = "PAID" =>
       /\ jobs[o] \notin {Null, "CANCELLED"}
       /\ payments[o] # Null
       /\ payments[o].status = "COMPLETED"
       /\ payments[o].linked
       /\ payments[o].paidAt = orders[o].paidAt
  /\ orders[o] # Null /\ orders[o].status = "CANCELLED" =>
       /\ payments[o] # Null
       /\ payments[o].status = "CANCELLED"
       /\ payments[o].linked

\* A stored event is processed, and a stored payment event has taken effect.
EventOK(k) ==
  events[k] # Null =>
    /\ events[k].processed
    /\ Key(events[k].wh) = k
    /\ events[k].wh.type = "PAYMENT" =>
         PaymentEffect(events[k].wh, payments[events[k].wh.order])

\* A request that was answered with a 2xx has stored its event and, from the
\* shop, its order.
AckedOK(wh) ==
  /\ events[Key(wh)] # Null
  /\ wh.type = "PAYMENT" => events[Key(wh)].wh = wh
  /\ wh.type = "SHOP" => ShopEffect(wh, orders[wh.order])

IntakeInv ==
  /\ \A t \in Slots : SlotInv(t)
  /\ \A o \in Orders : RowsOK(o)
  /\ \A k \in EventKeys : EventOK(k)
  /\ \A wh \in acked : AckedOK(wh)

-----------------------------------------------------------------------------
(* Shapes.                                                                 *)

Pcs == {"idle", "record", "duplicatePayment", "findPayment", "findOrder", "write",
        "create", "compare", "reconcile", "commit", "failed"}
Answers == {"none", "created", "ok", "awaiting", "conflict", "finalized", "digital",
            "cannotCancel", "error"}

\* What a webhook and its keys look like.
LEMMA WebhookShape ==
  ASSUME NEW wh \in Webhooks
  PROVE  /\ wh # Null
         /\ wh.id \in EventIds
         /\ wh.order \in Orders
         /\ wh.type \in {"SHOP", "PAYMENT"}
         /\ wh.type = "SHOP" => wh.body \in Payloads
         /\ wh.type = "PAYMENT" => wh.body \in PaymentStatuses /\ wh.stamp \in Stamps
         /\ Key(wh) \in EventKeys
BY WebhooksAssumption DEF ShopWebhooks, PaymentWebhooks, Key, EventKeys

\* Its three keys can be locked and differ.
LEMMA WebhookKeys ==
  ASSUME NEW wh \in Webhooks
  PROVE  /\ {Key(wh), OrderKey(wh), PaymentKey(wh)} \subseteq LockKeys
         /\ Null \notin LockKeys
         /\ Key(wh) # OrderKey(wh)
         /\ Key(wh) # PaymentKey(wh)
         /\ OrderKey(wh) # PaymentKey(wh)
BY WebhookShape, NullAssumption DEF Key, OrderKey, PaymentKey, EventKeys, LockKeys

\* An open transaction has a webhook.
LEMMA OpenHasWebhook ==
  ASSUME NEW t \in Slots, SlotInv(t), tx[t].pc # "idle"
  PROVE  tx[t].wh \in Webhooks
BY DEF SlotInv, FlowOK

\* What order_items stores are items.
LEMMA StoredItemsTyped ==
  ASSUME NEW items \in Seq(Items)
  PROVE  StoredItems(items) \in Seq(Items)
<1>1. \A price \in Nat : StoredPrice(price) \in Nat
  <2>1. SUFFICES ASSUME NEW price \in Nat PROVE StoredPrice(price) \in Nat
    OBVIOUS
  <2> DEFINE q == (2 * price + Fractions) \div (2 * Fractions)
  <2>2. q \in Nat
    BY FractionsAssumption
  <2>3. Fractions * q \in Nat
    <3> HIDE DEF q
    <3>1. QED
      BY <2>2, FractionsAssumption
  <2>4. QED
    BY <2>3 DEF StoredPrice
<1>2. \A i \in DOMAIN items : items[i] \in Items
  BY ElementOfSeq, LenProperties
<1>3. \A i \in DOMAIN items : [items[i] EXCEPT !.price = StoredPrice(items[i].price)] \in Items
  BY <1>1, <1>2 DEF Items
<1>4. DOMAIN items = 1..Len(items) /\ Len(items) \in Nat
  BY LenProperties
<1>5. StoredItems(items) \in [1..Len(items) -> Items]
  BY <1>3, <1>4 DEF StoredItems
<1>6. QED
  BY <1>4, <1>5, SeqDef

\* A price that was rounded to cents is not rounded again.
LEMMA StoredPriceStable ==
  ASSUME NEW price \in Nat
  PROVE  StoredPrice(StoredPrice(price)) = StoredPrice(price)
<1> DEFINE q == (2 * price + Fractions) \div (2 * Fractions)
           F == Fractions
<1>1. F \in Nat /\ F > 0 /\ q \in Nat
  BY FractionsAssumption
<1> HIDE DEF q, F
<1>2. (2 * (F * q) + F) \div (2 * F) = q
  <2>1. F * q \in Nat /\ 2 * F \in Nat /\ 2 * F > 0
    BY <1>1
  <2>2. 2 * (F * q) + F = (2 * F) * q + F
    BY <1>1
  <2>3. 0 <= F /\ F < 2 * F
    BY <1>1
  <2> DEFINE D == 2 * F
  <2>4. D \in Nat /\ D > 0 /\ F < D
    BY <2>1, <2>3
  <2> HIDE DEF D
  <2>5. (D * q + F) \div D = q
    BY <1>1, <2>4
  <2>6. QED
    BY <2>2, <2>5 DEF D
<1>3. StoredPrice(price) = F * q
  BY DEF StoredPrice, F, q
<1>4. StoredPrice(F * q) = F * ((2 * (F * q) + F) \div (2 * F))
  BY DEF StoredPrice, F
<1>5. QED
  BY <1>2, <1>3, <1>4

\* So what is stored is stored as it is.
LEMMA StoredIsWhole ==
  ASSUME NEW items \in Seq(Items)
  PROVE  WholeCents(StoredItems(items))
<1> DEFINE stored == StoredItems(items)
<1>1. DOMAIN stored = DOMAIN items
  BY DEF StoredItems
<1>2. \A i \in DOMAIN items : items[i] \in Items
  BY ElementOfSeq, LenProperties
<1>3. ASSUME NEW i \in DOMAIN items
      PROVE  [stored[i] EXCEPT !.price = StoredPrice(stored[i].price)] = stored[i]
  <2>1. stored[i] = [items[i] EXCEPT !.price = StoredPrice(items[i].price)]
    BY DEF StoredItems
  <2>2. stored[i].price = StoredPrice(items[i].price)
    BY <1>2, <2>1 DEF Items
  <2>3. StoredPrice(stored[i].price) = stored[i].price
    BY <1>2, <2>2, StoredPriceStable DEF Items
  <2>4. QED
    BY <1>2, <2>1, <2>2, <2>3 DEF Items
<1>4. StoredItems(stored) = [i \in DOMAIN items |-> stored[i]]
  BY <1>1, <1>3, Zenon DEF StoredItems
<1>5. stored = [i \in DOMAIN items |-> stored[i]]
  BY DEF StoredItems
<1>6. QED
  BY <1>4, <1>5 DEF WholeCents

\* A new order is a row with the content of its webhook.
LEMMA NewOrderTyped ==
  ASSUME NEW wh \in Webhooks, wh.type = "SHOP"
  PROVE  /\ NewOrder(wh) \in OrderRows
         /\ NewOrder(wh).status = "PENDING"
         /\ NewOrder(wh).email = wh.body.email
         /\ NewOrder(wh).items = StoredItems(wh.body.items)
         /\ WholeCents(NewOrder(wh).items)
<1>1. wh.body \in Payloads
  BY WebhookShape
<1>2. StoredItems(wh.body.items) \in Seq(Items)
  BY <1>1, StoredItemsTyped DEF Payloads
<1>3. QED
  BY <1>1, <1>2, StoredIsWhole DEF Payloads, NewOrder, OrderRows

\* The transaction t moves to pc and no other transaction moves.
Becomes(t, pc, found, answer, w) ==
  /\ tx' \in [Slots -> Transactions]
  /\ tx'[t].pc = pc
  /\ tx'[t].wh = tx[t].wh
  /\ tx'[t].found = found
  /\ tx'[t].answer = answer
  /\ tx'[t].w = w
  /\ \A u \in Slots \ {t} : tx'[u] = tx[u]

\* A slot that changes like this keeps its type.
LEMMA RecordBecomes ==
  ASSUME tx \in [Slots -> Transactions], NEW t \in Slots,
         NEW pc \in Pcs, NEW found \in BOOLEAN, NEW answer \in Answers, NEW w \in Writes,
         tx' = [tx EXCEPT ![t] = [pc |-> pc, wh |-> tx[t].wh, found |-> found,
                                  answer |-> answer, w |-> w]]
  PROVE  Becomes(t, pc, found, answer, w)
BY DEF Becomes, Transactions, Pcs, Answers

LEMMA GoesBecomes ==
  ASSUME tx \in [Slots -> Transactions], NEW t \in Slots, NEW pc \in Pcs, Goes(t, pc)
  PROVE  Becomes(t, pc, tx[t].found, tx[t].answer, tx[t].w)
BY DEF Becomes, Transactions, Pcs, Goes

LEMMA FailsBecomes ==
  ASSUME tx \in [Slots -> Transactions], NEW t \in Slots, NEW answer \in Answers,
         Fails(t, answer)
  PROVE  Becomes(t, "failed", tx[t].found, answer, tx[t].w)
<1> DEFINE row == [tx[t] EXCEPT !.pc = "failed", !.answer = answer]
<1>1. tx[t] \in Transactions
  OBVIOUS
<1>2. /\ row \in Transactions
      /\ row.pc = "failed" /\ row.wh = tx[t].wh /\ row.found = tx[t].found
      /\ row.answer = answer /\ row.w = tx[t].w
  BY <1>1 DEF Transactions, Answers
<1>3. tx' = [u \in Slots |-> IF u = t THEN row ELSE tx[u]]
  BY Zenon DEF Fails
<1> HIDE DEF row
<1>4. tx'[t] = row /\ tx' \in [Slots -> Transactions] /\ \A u \in Slots \ {t} : tx'[u] = tx[u]
  BY <1>2, <1>3
<1>5. QED
  BY <1>2, <1>4 DEF Becomes

LEMMA FinishesBecomes ==
  ASSUME tx \in [Slots -> Transactions], NEW t \in Slots, NEW answer \in Answers,
         NEW w \in Writes, Finishes(t, answer, w)
  PROVE  Becomes(t, "commit", tx[t].found, answer, w)
<1> DEFINE row == [tx[t] EXCEPT !.pc = "commit", !.answer = answer, !.w = w]
<1>1. tx[t] \in Transactions
  OBVIOUS
<1>2. /\ row \in Transactions
      /\ row.pc = "commit" /\ row.wh = tx[t].wh /\ row.found = tx[t].found
      /\ row.answer = answer /\ row.w = w
  BY <1>1 DEF Transactions, Answers
<1>3. tx' = [u \in Slots |-> IF u = t THEN row ELSE tx[u]]
  BY Zenon DEF Finishes
<1> HIDE DEF row
<1>4. tx'[t] = row /\ tx' \in [Slots -> Transactions] /\ \A u \in Slots \ {t} : tx'[u] = tx[u]
  BY <1>2, <1>3
<1>5. QED
  BY <1>2, <1>4 DEF Becomes

-----------------------------------------------------------------------------
(* Locks.                                                                  *)

\* A statement wants a key of its webhook or none.
LEMMA WantsKey ==
  ASSUME NEW t \in Slots, tx[t].wh \in Webhooks
  PROVE  Wants(t) \in {Null, Key(tx[t].wh), OrderKey(tx[t].wh), PaymentKey(tx[t].wh)}
BY DEF Wants

\* A statement that runs takes what it wants and nothing from anybody else.
LEMMA RunsLocks ==
  ASSUME lock \in [LockKeys -> Slots \cup {Null}],
         NEW t \in Slots, tx[t].wh \in Webhooks, Runs(t)
  PROVE  /\ lock' \in [LockKeys -> Slots \cup {Null}]
         /\ \A k \in LockKeys : lock[k] # Null => lock'[k] = lock[k]
         /\ Wants(t) # Null => lock'[Wants(t)] = t
         /\ \A k \in LockKeys : lock'[k] # lock[k] => k = Wants(t) /\ lock'[k] = t
<1>1. Wants(t) \in LockKeys \cup {Null}
  BY WantsKey, WebhookKeys
<1>2. CASE Wants(t) = Null
  BY <1>2 DEF Runs
<1>3. CASE Wants(t) # Null
  <2>1. lock[Wants(t)] \in {Null, t}
    BY <1>3 DEF Runs, Blocked, Holder
  <2>2. lock' = [lock EXCEPT ![Wants(t)] = t]
    BY <1>3 DEF Runs
  <2>3. QED
    BY <1>1, <1>3, <2>1, <2>2
<1>4. QED
  BY <1>2, <1>3

\* The end of a transaction frees its own keys only.
LEMMA ReleasedLocks ==
  ASSUME lock \in [LockKeys -> Slots \cup {Null}], NEW t \in Slots, lock' = Released(t)
  PROVE  /\ lock' \in [LockKeys -> Slots \cup {Null}]
         /\ \A k \in LockKeys : lock[k] # t => lock'[k] = lock[k]
         /\ \A k \in LockKeys : lock'[k] # t
BY WebhooksAssumption DEF Released

\* Nothing that u reads or writes under its locks changes.
KeptFor(u) ==
  /\ tx'[u] = tx[u]
  /\ \A k \in LockKeys : lock[k] = u => lock'[k] = u
  /\ \A o \in Orders : lock[<<"order", o>>] = u => orders'[o] = orders[o]
  /\ \A o \in Orders : lock[<<"payment", o>>] = u => payments'[o] = payments[o]
  /\ \A k \in EventKeys : lock[k] = u /\ events[k] = Null => events'[k] = Null
  /\ \A k \in EventKeys :
       events[k] # Null => events'[k] # Null /\ events'[k].wh = events[k].wh

\* So what the invariant says about u stays true.
LEMMA KeptSlot ==
  ASSUME NEW u \in Slots, SlotInv(u), KeptFor(u)
  PROVE  SlotInv(u)'
<1>1. CASE tx[u].pc = "idle"
  <2>1. tx[u] = NoTransaction /\ tx'[u] = NoTransaction
    BY <1>1 DEF SlotInv, FlowOK, KeptFor
  <2>2. QED
    BY <2>1 DEF NoTransaction, NoWrites, SlotInv, FlowOK, FoundOK, EventWriteOK,
      OrderWriteOK, PaymentWriteOK, BundleOK, OutcomeOK
<1>2. CASE tx[u].pc # "idle"
  <2>1. tx[u].wh \in Webhooks
    BY <1>2, OpenHasWebhook
  <2>2. /\ tx[u].wh.order \in Orders
        /\ Key(tx[u].wh) \in EventKeys /\ Key(tx[u].wh) \in LockKeys
        /\ OrderKey(tx[u].wh) \in LockKeys /\ PaymentKey(tx[u].wh) \in LockKeys
    BY <2>1, WebhookShape, WebhookKeys
  <2>3. tx'[u] = tx[u]
    BY DEF KeptFor
  <2>4. lock[OrderKey(tx[u].wh)] = u =>
          lock'[OrderKey(tx[u].wh)] = u /\ orders'[tx[u].wh.order] = orders[tx[u].wh.order]
    BY <2>2 DEF KeptFor, OrderKey
  <2>5. lock[PaymentKey(tx[u].wh)] = u =>
          /\ lock'[PaymentKey(tx[u].wh)] = u
          /\ payments'[tx[u].wh.order] = payments[tx[u].wh.order]
    BY <2>2 DEF KeptFor, PaymentKey
  <2>6. lock[Key(tx[u].wh)] = u /\ events[Key(tx[u].wh)] = Null =>
          lock'[Key(tx[u].wh)] = u /\ events'[Key(tx[u].wh)] = Null
    BY <2>2 DEF KeptFor
  <2>7. FlowOK(u)'
    BY <2>3 DEF SlotInv, FlowOK
  <2>8. FoundOK(u)'
    BY <2>3, <2>4 DEF SlotInv, FoundOK
  <2>9. EventWriteOK(u)'
    BY <2>3, <2>6 DEF SlotInv, EventWriteOK
  <2>10. OrderWriteOK(u)'
    BY <2>3, <2>4 DEF SlotInv, OrderWriteOK
  <2>11. PaymentWriteOK(u)'
    BY <2>3, <2>5 DEF SlotInv, PaymentWriteOK
  <2>12. BundleOK(u)'
    BY <2>3 DEF SlotInv, BundleOK
  <2>13. OutcomeOK(u)'
    <3>1. events[Key(tx[u].wh)] # Null =>
            /\ events'[Key(tx[u].wh)] # Null
            /\ events'[Key(tx[u].wh)].wh = events[Key(tx[u].wh)].wh
      BY <2>2 DEF KeptFor
    <3>2. QED
      BY <2>3, <2>4, <2>5, <3>1 DEF SlotInv, OutcomeOK
  <2>14. QED
    BY <2>7, <2>8, <2>9, <2>10, <2>11, <2>12, <2>13 DEF SlotInv
<1>3. QED
  BY <1>1, <1>2

-----------------------------------------------------------------------------
(* Statements.                                                             *)

\* A statement of t changes its own slot and takes locks, nothing else.
Ran(t) ==
  /\ Runs(t)
  /\ UNCHANGED <<events, orders, payments, jobs, acked>>

\* Every other transaction and the tables keep what the invariant says.
LEMMA RanKeeps ==
  ASSUME TypeOK, IntakeInv, NEW t \in Slots, tx[t].pc # "idle", Ran(t),
         NEW pc, NEW found, NEW answer, NEW w, Becomes(t, pc, found, answer, w),
         SlotInv(t)'
  PROVE  TypeOK' /\ IntakeInv'
<1>1. tx[t].wh \in Webhooks
  BY OpenHasWebhook DEF IntakeInv
<1>2. /\ lock' \in [LockKeys -> Slots \cup {Null}]
      /\ \A k \in LockKeys : lock[k] # Null => lock'[k] = lock[k]
  BY <1>1, RunsLocks DEF Ran, TypeOK
<1>3. TypeOK'
  BY <1>2 DEF TypeOK, Ran, Becomes
<1>4. ASSUME NEW u \in Slots, u # t PROVE SlotInv(u)'
  <2>1. KeptFor(u)
    BY <1>2, <1>4, WebhooksAssumption DEF KeptFor, Ran, Becomes
  <2>2. QED
    BY <2>1, KeptSlot DEF IntakeInv
<1>5. \A o \in Orders : RowsOK(o)'
  BY DEF IntakeInv, RowsOK, Ran
<1>6. /\ \A k \in EventKeys : EventOK(k)'
      /\ \A wh \in acked' : AckedOK(wh)'
  BY DEF IntakeInv, EventOK, AckedOK, Ran
<1>7. QED
  BY <1>3, <1>4, <1>5, <1>6 DEF IntakeInv

\* A transaction keeps the locks and rows under what it has written.
LEMMA RanOwn ==
  ASSUME TypeOK, NEW t \in Slots, SlotInv(t), tx[t].pc # "idle", Ran(t),
         NEW pc, pc \notin {"idle", "commit"}, NEW answer,
         Becomes(t, pc, tx[t].found, answer, tx[t].w)
  PROVE  /\ FoundOK(t)' /\ EventWriteOK(t)' /\ OrderWriteOK(t)'
         /\ PaymentWriteOK(t)' /\ BundleOK(t)'
<1>1. tx[t].wh \in Webhooks
  BY OpenHasWebhook
<1>2. {Key(tx[t].wh), OrderKey(tx[t].wh), PaymentKey(tx[t].wh)} \subseteq LockKeys
  BY <1>1, WebhookKeys
<1>3. \A k \in LockKeys : lock[k] = t => lock'[k] = t
  BY <1>1, RunsLocks, WebhooksAssumption DEF Ran, TypeOK
<1>4. /\ tx'[t].pc = pc /\ tx'[t].wh = tx[t].wh /\ tx'[t].found = tx[t].found
      /\ tx'[t].w = tx[t].w
  BY DEF Becomes
<1>5. UNCHANGED <<events, orders, payments, jobs>>
  BY DEF Ran
<1>6. FoundOK(t)'
  BY <1>2, <1>3, <1>4, <1>5 DEF SlotInv, FoundOK
<1>7. EventWriteOK(t)'
  BY <1>2, <1>3, <1>4, <1>5 DEF SlotInv, EventWriteOK
<1>8. OrderWriteOK(t)'
  BY <1>2, <1>3, <1>4, <1>5 DEF SlotInv, OrderWriteOK
<1>9. PaymentWriteOK(t)'
  BY <1>2, <1>3, <1>4, <1>5 DEF SlotInv, PaymentWriteOK
<1>10. BundleOK(t)'
  BY <1>4 DEF SlotInv, BundleOK
<1>11. QED
  BY <1>6, <1>7, <1>8, <1>9, <1>10

\* MarkProcessed changes the event only.
LEMMA ProcessedFields ==
  ASSUME NEW w \in Writes
  PROVE  /\ Processed(w) \in Writes
         /\ Processed(w).order = w.order
         /\ Processed(w).payment = w.payment
         /\ Processed(w).job = w.job
         /\ Processed(w).marks = w.marks
         /\ w.event = Null => Processed(w).event = Null
         /\ w.event # Null => /\ Processed(w).event # Null
                              /\ Processed(w).event.wh = w.event.wh
                              /\ Processed(w).event.processed = TRUE
<1>1. CASE w.event = Null
  BY <1>1 DEF Processed
<1>2. CASE w.event # Null
  <2>1. w.event \in EventRows
    BY <1>2 DEF Writes
  <2> DEFINE e == [w.event EXCEPT !.processed = TRUE]
  <2>2. e \in EventRows /\ e.wh = w.event.wh /\ e.processed = TRUE
    BY <2>1 DEF EventRows
  <2>3. e # Null
    BY <2>2, NullAssumption
  <2>4. Processed(w) = [w EXCEPT !.event = e]
    BY <1>2 DEF Processed
  <2> HIDE DEF e
  <2>5. QED
    BY <1>2, <2>2, <2>3, <2>4 DEF Writes
<1>3. QED
  BY <1>1, <1>2

\* The event that MarkProcessed leaves.
LEMMA ProcessedEvent ==
  ASSUME NEW w \in Writes, NEW event, event = Processed(w).event
  PROVE  /\ event = Null <=> w.event = Null
         /\ event # Null => event.wh = w.event.wh /\ event.processed
BY ProcessedFields

\* The conditions of OutcomeOK on what a handler is about to commit.
Committable(t, w, held) ==
  /\ w.event = Null => events[Key(tx[t].wh)] # Null
  /\ tx[t].wh.type = "PAYMENT" =>
       /\ held[PaymentKey(tx[t].wh)] = t
       /\ PaymentEffect(tx[t].wh, Installed(w.payment, payments[tx[t].wh.order]))
       /\ w.event = Null => events[Key(tx[t].wh)].wh = tx[t].wh
  /\ tx[t].wh.type = "SHOP" =>
       /\ held[OrderKey(tx[t].wh)] = t
       /\ ShopEffect(tx[t].wh, Installed(w.order, orders[tx[t].wh.order]))

\* A transaction that answers without a row of its own.
LEMMA FinishesPlain ==
  ASSUME TypeOK, IntakeInv, NEW t \in Slots, tx[t].pc # "idle", Ran(t),
         NEW answer \in Answers, answer # "cannotCancel",
         NEW w \in Writes, w \in {tx[t].w, Processed(tx[t].w)}, Finishes(t, answer, w),
         w.event # Null => w.event.processed,
         Committable(t, w, lock')
  PROVE  TypeOK' /\ IntakeInv'
<1>1. SlotInv(t) /\ tx[t].wh \in Webhooks /\ tx[t].w \in Writes
  BY OpenHasWebhook DEF IntakeInv, TypeOK, Transactions
<1>2. Becomes(t, "commit", tx[t].found, answer, w)
  BY FinishesBecomes DEF TypeOK
<1>3. /\ w.order = tx[t].w.order /\ w.payment = tx[t].w.payment /\ w.job = tx[t].w.job
      /\ w.event = Null <=> tx[t].w.event = Null
      /\ w.event # Null => w.event.wh = tx[t].w.event.wh
  BY <1>1, ProcessedFields
<1>4. {Key(tx[t].wh), OrderKey(tx[t].wh), PaymentKey(tx[t].wh)} \subseteq LockKeys
  BY <1>1, WebhookKeys
<1>5. \A k \in LockKeys : lock[k] = t => lock'[k] = t
  BY <1>1, RunsLocks, WebhooksAssumption DEF Ran, TypeOK
<1>6. /\ tx'[t].pc = "commit" /\ tx'[t].wh = tx[t].wh /\ tx'[t].found = tx[t].found
      /\ tx'[t].w = w /\ tx'[t].answer = answer
  BY <1>2 DEF Becomes
<1>7. UNCHANGED <<events, orders, payments, jobs>>
  BY DEF Ran
<1>8. SlotInv(t)'
  <2>1. FlowOK(t)'
    BY <1>1, <1>6 DEF FlowOK
  <2>2. FoundOK(t)'
    BY <1>1, <1>4, <1>5, <1>6, <1>7 DEF SlotInv, FoundOK
  <2>3. EventWriteOK(t)'
    BY <1>1, <1>3, <1>4, <1>5, <1>6, <1>7 DEF SlotInv, EventWriteOK
  <2>4. OrderWriteOK(t)'
    BY <1>1, <1>3, <1>4, <1>5, <1>6, <1>7 DEF SlotInv, OrderWriteOK
  <2>5. PaymentWriteOK(t)'
    BY <1>1, <1>3, <1>4, <1>5, <1>6, <1>7 DEF SlotInv, PaymentWriteOK
  <2>6. BundleOK(t)'
    BY <1>1, <1>3, <1>6 DEF SlotInv, BundleOK
  <2>7. OutcomeOK(t)'
    BY <1>6, <1>7 DEF OutcomeOK, Committable
  <2>8. QED
    BY <2>1, <2>2, <2>3, <2>4, <2>5, <2>6, <2>7 DEF SlotInv
<1>9. QED
  BY <1>2, <1>8, RanKeeps

\* A handler that returns an error keeps what it has written until it is
\* rolled back.
LEMMA FailsKeeps ==
  ASSUME TypeOK, IntakeInv, NEW t \in Slots, tx[t].pc # "idle", Ran(t),
         NEW answer \in Answers \ {"created", "ok", "awaiting", "cannotCancel"},
         Fails(t, answer)
  PROVE  TypeOK' /\ IntakeInv'
<1>1. Becomes(t, "failed", tx[t].found, answer, tx[t].w)
  BY FailsBecomes DEF TypeOK
<1>2. SlotInv(t) /\ tx[t].wh \in Webhooks
  BY OpenHasWebhook DEF IntakeInv
<1>3. FlowOK(t)'
  BY <1>1, <1>2 DEF FlowOK, Becomes
<1>4. OutcomeOK(t)'
  BY <1>1 DEF OutcomeOK, Becomes
<1>5. SlotInv(t)'
  BY <1>1, <1>2, <1>3, <1>4, RanOwn DEF SlotInv
<1>6. QED
  BY <1>1, <1>5, RanKeeps

\* The handler goes on to its next statement.
LEMMA GoesKeeps ==
  ASSUME TypeOK, IntakeInv, NEW t \in Slots, tx[t].pc # "idle", Ran(t),
         NEW pc \in Pcs \ {"idle", "record", "reconcile", "commit", "failed"}, Goes(t, pc),
         pc \in {"duplicatePayment", "findPayment", "findOrder", "write"} =>
           tx[t].wh.type = "PAYMENT",
         pc \in {"create", "compare"} => tx[t].wh.type = "SHOP",
         pc = "duplicatePayment" => tx[t].w.event = Null,
         pc \notin {"duplicatePayment", "compare"} => tx[t].w.event # Null,
         tx[t].w.event = Null => events[Key(tx[t].wh)] # Null,
         tx[t].w.order = Null, tx[t].w.payment = Null
  PROVE  TypeOK' /\ IntakeInv'
<1>1. Becomes(t, pc, tx[t].found, tx[t].answer, tx[t].w)
  BY GoesBecomes DEF TypeOK
<1>2. SlotInv(t) /\ tx[t].wh \in Webhooks
  BY OpenHasWebhook DEF IntakeInv
<1>3. FlowOK(t)'
  BY <1>1, <1>2 DEF FlowOK, Becomes, SlotInv
<1>4. OutcomeOK(t)'
  BY <1>1 DEF OutcomeOK, Becomes, Ran
<1>5. SlotInv(t)'
  BY <1>1, <1>2, <1>3, <1>4, RanOwn DEF SlotInv
<1>6. QED
  BY <1>1, <1>5, RanKeeps

-----------------------------------------------------------------------------
(* One lemma per statement.                                                *)

\* Receive starts a transaction with no writes and no locks.
LEMMA ReceiveKeeps ==
  ASSUME TypeOK, IntakeInv, NEW t \in Slots, NEW wh \in Webhooks, Receive(t, wh)
  PROVE  TypeOK' /\ IntakeInv'
<1> DEFINE T == [NoTransaction EXCEPT !.pc = "record", !.wh = wh]
<1>1. /\ T \in Transactions
      /\ T.pc = "record" /\ T.wh = wh /\ T.found = FALSE /\ T.answer = "none" /\ T.w = NoWrites
  BY DEF NoTransaction, NoWrites, Transactions, Writes
<1>2. tx' = [tx EXCEPT ![t] = T]
  BY DEF Receive
<1> HIDE DEF T
<1>3. /\ UNCHANGED <<events, orders, payments, jobs, lock, acked>>
      /\ tx' \in [Slots -> Transactions]
      /\ tx'[t] = T
      /\ \A u \in Slots \ {t} : tx'[u] = tx[u]
  BY <1>1, <1>2 DEF Receive, Tables, TypeOK
<1>4. TypeOK'
  BY <1>3 DEF TypeOK
<1>5. SlotInv(t)'
  <2>1. FlowOK(t)'
    BY <1>1, <1>3 DEF FlowOK, NoWrites
  <2>2. /\ FoundOK(t)' /\ EventWriteOK(t)' /\ OrderWriteOK(t)' /\ PaymentWriteOK(t)'
        /\ BundleOK(t)' /\ OutcomeOK(t)'
    BY <1>1, <1>3 DEF FoundOK, EventWriteOK, OrderWriteOK, PaymentWriteOK, BundleOK, OutcomeOK,
      NoWrites
  <2>3. QED
    BY <2>1, <2>2 DEF SlotInv
<1>6. ASSUME NEW u \in Slots, u # t PROVE SlotInv(u)'
  <2>1. KeptFor(u)
    BY <1>3, <1>6 DEF KeptFor
  <2>2. QED
    BY <2>1, KeptSlot DEF IntakeInv
<1>7. \A o \in Orders : RowsOK(o)'
  BY <1>3 DEF IntakeInv, RowsOK
<1>8. (\A k \in EventKeys : EventOK(k)') /\ (\A x \in acked' : AckedOK(x)')
  BY <1>3 DEF IntakeInv, EventOK, AckedOK
<1>9. QED
  BY <1>4, <1>5, <1>6, <1>7, <1>8 DEF IntakeInv

\* Record holds the key of the event that it inserts.
LEMMA RecordNewKeeps ==
  ASSUME TypeOK, IntakeInv, NEW t \in Slots, RecordNew(t)
  PROVE  TypeOK' /\ IntakeInv'
<1> DEFINE wh == tx[t].wh
           e == [wh |-> wh, processed |-> FALSE]
           w == [tx[t].w EXCEPT !.event = e]
           pc == IF wh.type = "SHOP" THEN "create" ELSE "findPayment"
<1>1. tx[t].pc = "record" /\ Ran(t) /\ events[Key(wh)] = Null
  BY DEF RecordNew, Ran, Tables
<1>2. SlotInv(t) /\ wh \in Webhooks /\ tx[t].w \in Writes
  BY <1>1, OpenHasWebhook DEF IntakeInv, TypeOK, Transactions
<1>3. e \in EventRows /\ e # Null /\ e.wh = wh
  <2>1. e \in EventRows /\ e.wh = wh
    BY <1>2 DEF EventRows
  <2>2. QED
    BY <2>1, NullAssumption
<1>4. /\ w \in Writes
      /\ w.event = e /\ w.order = tx[t].w.order /\ w.payment = tx[t].w.payment
      /\ w.job = tx[t].w.job
  BY <1>2, <1>3 DEF Writes
<1>5. Becomes(t, pc, tx[t].found, tx[t].answer, w)
  <2>1. tx' = [tx EXCEPT ![t].pc = pc, ![t].w.event = e]
    BY DEF RecordNew
  <2>2. tx[t] \in Transactions
    BY DEF TypeOK
  <2>3. pc \in Pcs
    BY DEF Pcs
  <2> HIDE DEF e, pc
  <2>4. QED
    BY <1>4, <2>1, <2>2, <2>3 DEF Becomes, TypeOK, Transactions, Pcs
<1>6. Key(wh) \in LockKeys /\ lock'[Key(wh)] = t
  <2>1. Wants(t) = Key(wh)
    BY <1>1 DEF Wants
  <2>2. QED
    BY <1>1, <1>2, <2>1, RunsLocks, WebhookKeys DEF Ran, TypeOK
<1>7. pc \in {"create", "findPayment"} /\ (pc = "create" <=> wh.type = "SHOP")
  OBVIOUS
<1>8. wh.type \in {"SHOP", "PAYMENT"}
  BY <1>2, WebhookShape
<1>9. /\ tx'[t].pc = pc /\ tx'[t].wh = wh /\ tx'[t].found = tx[t].found
      /\ tx'[t].answer = tx[t].answer /\ tx'[t].w = w
  BY <1>5 DEF Becomes
<1>10. tx[t].w.order = Null /\ tx[t].w.payment = Null /\ tx[t].w.job = Null
  BY <1>1, <1>2 DEF SlotInv, FlowOK, BundleOK
<1>11. UNCHANGED <<events, orders, payments, jobs>>
  BY <1>1 DEF Ran
<1>12. \A k \in LockKeys : lock[k] = t => lock'[k] = t
  BY <1>1, <1>2, RunsLocks, WebhooksAssumption DEF Ran, TypeOK
<1> HIDE DEF e, w, pc
<1>13. SlotInv(t)'
  <2>1. FlowOK(t)'
    BY <1>2, <1>4, <1>7, <1>8, <1>9, <1>10 DEF FlowOK, SlotInv
  <2>2. FoundOK(t)'
    BY <1>2, <1>7, <1>9, <1>11, <1>12, WebhookKeys DEF FoundOK, SlotInv
  <2>3. EventWriteOK(t)'
    BY <1>1, <1>3, <1>4, <1>6, <1>7, <1>9, <1>11 DEF EventWriteOK
  <2>4. OrderWriteOK(t)' /\ PaymentWriteOK(t)' /\ BundleOK(t)'
    BY <1>4, <1>9, <1>10 DEF OrderWriteOK, PaymentWriteOK, BundleOK
  <2>5. OutcomeOK(t)'
    BY <1>3, <1>4, <1>7, <1>9 DEF OutcomeOK
  <2>6. QED
    BY <2>1, <2>2, <2>3, <2>4, <2>5 DEF SlotInv
<1>14. QED
  BY <1>1, <1>5, <1>13, RanKeeps

\* A repeated event id takes no lock.
LEMMA RecordDuplicateKeeps ==
  ASSUME TypeOK, IntakeInv, NEW t \in Slots, RecordDuplicate(t)
  PROVE  TypeOK' /\ IntakeInv'
<1> DEFINE pc == IF tx[t].wh.type = "SHOP" THEN "compare" ELSE "duplicatePayment"
<1>1. tx[t].pc = "record" /\ Ran(t) /\ Goes(t, pc) /\ events[Key(tx[t].wh)] # Null
  BY DEF RecordDuplicate, Ran, Tables
<1>2. SlotInv(t) /\ tx[t].wh \in Webhooks
  BY <1>1, OpenHasWebhook DEF IntakeInv
<1>3. tx[t].w.order = Null /\ tx[t].w.payment = Null /\ tx[t].w.event = Null
  BY <1>1, <1>2 DEF SlotInv, FlowOK
<1>4. /\ pc \in {"compare", "duplicatePayment"}
      /\ pc = "compare" => tx[t].wh.type = "SHOP"
      /\ pc = "duplicatePayment" => tx[t].wh.type = "PAYMENT"
  BY <1>2, WebhookShape
<1> HIDE DEF pc
<1>5. pc \in Pcs \ {"idle", "record", "reconcile", "commit", "failed"}
  BY <1>4 DEF Pcs
<1>6. QED
  BY <1>1, <1>3, <1>4, <1>5, GoesKeeps

\* The repeated payment event answers with what is stored.
LEMMA DuplicatePaymentKeeps ==
  ASSUME TypeOK, IntakeInv, NEW t \in Slots, DuplicatePayment(t)
  PROVE  TypeOK' /\ IntakeInv'
<1>1. tx[t].pc = "duplicatePayment" /\ Ran(t)
  BY DEF DuplicatePayment, Ran, Tables
<1>2. \/ Fails(t, "conflict")
      \/ Fails(t, "error")
      \/ /\ Finishes(t, "ok", tx[t].w)
         /\ events[Key(tx[t].wh)].wh = tx[t].wh
         /\ payments[tx[t].wh.order] # Null
  BY DEF DuplicatePayment
<1>3. /\ tx[t].w \in Writes /\ tx[t].w.event = Null /\ tx[t].w.payment = Null
      /\ tx[t].wh.type = "PAYMENT" /\ events[Key(tx[t].wh)] # Null
  BY <1>1 DEF TypeOK, Transactions, IntakeInv, SlotInv, FlowOK, OutcomeOK
<1>4. CASE Fails(t, "conflict") \/ Fails(t, "error")
  BY <1>1, <1>4, FailsKeeps DEF Answers
<1>5. CASE /\ Finishes(t, "ok", tx[t].w)
           /\ events[Key(tx[t].wh)].wh = tx[t].wh
           /\ payments[tx[t].wh.order] # Null
  <2>1. tx[t].wh \in Webhooks
    BY <1>1, OpenHasWebhook DEF IntakeInv
  <2>2. lock'[PaymentKey(tx[t].wh)] = t
    <3>1. Wants(t) = PaymentKey(tx[t].wh)
      BY <1>1, <1>5 DEF Wants
    <3>2. QED
      BY <1>1, <2>1, <3>1, RunsLocks, WebhookKeys DEF Ran, TypeOK
  <2>3. PaymentEffect(tx[t].wh, payments[tx[t].wh.order])
    <3>1. EventOK(Key(tx[t].wh))
      BY <2>1, WebhookShape DEF IntakeInv
    <3>2. QED
      BY <1>3, <1>5, <3>1 DEF EventOK
  <2>4. Committable(t, tx[t].w, lock')
    BY <1>3, <1>5, <2>2, <2>3 DEF Committable, Installed
  <2>5. QED
    BY <1>1, <1>3, <1>5, <2>4, FinishesPlain DEF Answers
<1>6. QED
  BY <1>2, <1>4, <1>5

\* Payments.Find.
LEMMA FindPaymentKeeps ==
  ASSUME TypeOK, IntakeInv, NEW t \in Slots, FindNoPayment(t) \/ FindPayment(t)
  PROVE  TypeOK' /\ IntakeInv'
<1>1. tx[t].pc = "findPayment" /\ Ran(t)
  BY DEF FindNoPayment, FindPayment, Ran, Tables
<1>2. \/ Goes(t, "findOrder")
      \/ Fails(t, "finalized")
      \/ /\ Finishes(t, "ok", Processed(tx[t].w))
         /\ payments[tx[t].wh.order] # Null
         /\ payments[tx[t].wh.order].status = tx[t].wh.body
  BY DEF FindNoPayment, FindPayment
<1>3. /\ tx[t].w \in Writes /\ tx[t].w.order = Null /\ tx[t].w.payment = Null
      /\ tx[t].wh.type = "PAYMENT" /\ tx[t].w.event # Null
  BY <1>1 DEF TypeOK, Transactions, IntakeInv, SlotInv, FlowOK, OutcomeOK
<1>4. CASE Goes(t, "findOrder")
  BY <1>1, <1>3, <1>4, GoesKeeps DEF Pcs
<1>5. CASE Fails(t, "finalized")
  BY <1>1, <1>5, FailsKeeps DEF Answers
<1>6. CASE /\ Finishes(t, "ok", Processed(tx[t].w))
           /\ payments[tx[t].wh.order] # Null
           /\ payments[tx[t].wh.order].status = tx[t].wh.body
  <2>1. /\ Processed(tx[t].w) \in Writes
        /\ Processed(tx[t].w).payment = Null /\ Processed(tx[t].w).event # Null
        /\ Processed(tx[t].w).event.processed
    BY <1>3, ProcessedFields
  <2>2. tx[t].wh \in Webhooks
    BY <1>1, OpenHasWebhook DEF IntakeInv
  <2>3. lock'[PaymentKey(tx[t].wh)] = t
    <3>1. Wants(t) = PaymentKey(tx[t].wh)
      BY <1>1, <1>6 DEF Wants
    <3>2. QED
      BY <1>1, <2>2, <3>1, RunsLocks, WebhookKeys DEF Ran, TypeOK
  <2>4. Committable(t, Processed(tx[t].w), lock')
    BY <1>3, <1>6, <2>1, <2>3 DEF Committable, Installed, PaymentEffect
  <2>5. QED
    BY <1>1, <1>6, <2>1, <2>4, FinishesPlain DEF Answers
<1>7. QED
  BY <1>2, <1>4, <1>5, <1>6

\* Orders.FindID locks the order that it finds.
LEMMA FindOrderKeeps ==
  ASSUME TypeOK, IntakeInv, NEW t \in Slots, FindNoOrder(t) \/ FindOrder(t)
  PROVE  TypeOK' /\ IntakeInv'
<1>1. tx[t].pc = "findOrder" /\ Ran(t)
  BY DEF FindNoOrder, FindOrder, Ran, Tables
<1>2. SlotInv(t) /\ tx[t].wh \in Webhooks
  BY <1>1, OpenHasWebhook DEF IntakeInv
<1>3. CASE Fails(t, "digital")
  BY <1>1, <1>3, FailsKeeps DEF Answers
<1>4. ASSUME NEW found \in BOOLEAN, tx' = [tx EXCEPT ![t].pc = "write", ![t].found = found],
             found => orders[tx[t].wh.order] # Null /\ lock'[OrderKey(tx[t].wh)] = t
      PROVE  TypeOK' /\ IntakeInv'
  <2>1. Becomes(t, "write", found, tx[t].answer, tx[t].w)
    BY <1>4, Zenon DEF TypeOK, Becomes, Transactions
  <2>2. /\ tx'[t].pc = "write" /\ tx'[t].wh = tx[t].wh /\ tx'[t].found = found
        /\ tx'[t].answer = tx[t].answer /\ tx'[t].w = tx[t].w
    BY <2>1 DEF Becomes
  <2>3. UNCHANGED <<events, orders, payments, jobs>>
    BY <1>1 DEF Ran
  <2>4. \A k \in LockKeys : lock[k] = t => lock'[k] = t
    BY <1>1, <1>2, RunsLocks, WebhooksAssumption DEF Ran, TypeOK
  <2>5. FlowOK(t)'
    BY <1>1, <1>2, <2>2 DEF FlowOK, SlotInv
  <2>6. FoundOK(t)'
    BY <1>4, <2>2, <2>3 DEF FoundOK
  <2>7. EventWriteOK(t)'
    BY <1>1, <1>2, <2>2, <2>3, <2>4, WebhookKeys DEF EventWriteOK, SlotInv
  <2>8. tx[t].w.order = Null /\ tx[t].w.payment = Null
    BY <1>1, <1>2 DEF FlowOK, SlotInv
  <2>9. OrderWriteOK(t)' /\ PaymentWriteOK(t)' /\ BundleOK(t)'
    BY <1>2, <2>2, <2>8 DEF OrderWriteOK, PaymentWriteOK, BundleOK, SlotInv
  <2>10. SlotInv(t)'
    <3>1. OutcomeOK(t)'
      BY <1>1, <1>2, <2>2 DEF OutcomeOK, SlotInv
    <3>2. QED
      BY <2>5, <2>6, <2>7, <2>9, <3>1 DEF SlotInv
  <2>11. QED
    BY <1>1, <2>1, <2>10, RanKeeps
<1>5. CASE FindNoOrder(t)
  BY <1>4, <1>5 DEF FindNoOrder
<1>6. CASE FindOrder(t)
  <2>1. orders[tx[t].wh.order] # Null
    BY <1>6 DEF FindOrder
  <2>2. Wants(t) = OrderKey(tx[t].wh)
    BY <1>1, <2>1 DEF Wants
  <2>3. lock'[OrderKey(tx[t].wh)] = t
    BY <1>1, <1>2, <2>2, RunsLocks, WebhookKeys DEF Ran, TypeOK
  <2>4. \/ Fails(t, "digital")
        \/ tx' = [tx EXCEPT ![t].pc = "write", ![t].found = TRUE]
    BY <1>6 DEF FindOrder
  <2>5. QED
    BY <1>3, <1>4, <2>1, <2>3, <2>4
<1>7. QED
  BY <1>5, <1>6

\* The row of an upsert.
LEMMA UpsertedPaymentRow ==
  ASSUME NEW wh \in Webhooks, wh.type = "PAYMENT", NEW old \in PaymentRows \cup {Null},
         NEW found \in BOOLEAN
  PROVE  /\ UpsertedPayment(old, wh, found) \in PaymentRows
         /\ UpsertedPayment(old, wh, found) # Null
         /\ UpsertedPayment(old, wh, found).status = wh.body
         /\ wh.body = "COMPLETED" => UpsertedPayment(old, wh, found).paidAt # Null
         /\ found => UpsertedPayment(old, wh, found).linked
         /\ old # Null /\ old.linked => UpsertedPayment(old, wh, found).linked
<1> DEFINE paidAt == IF wh.body = "COMPLETED" THEN wh.stamp
                     ELSE IF old = Null THEN Null
                     ELSE old.paidAt
           linked == found \/ (old # Null /\ old.linked)
<1>1. wh.body \in PaymentStatuses /\ wh.stamp \in Stamps /\ wh.stamp # Null
  BY WebhookShape, WebhooksAssumption
<1>2. paidAt \in Stamps \cup {Null} /\ (wh.body = "COMPLETED" => paidAt # Null)
  BY <1>1 DEF PaymentRows
<1>3. linked \in BOOLEAN
  BY DEF PaymentRows
<1>4. UpsertedPayment(old, wh, found) = [status |-> wh.body, linked |-> linked, paidAt |-> paidAt]
  BY DEF UpsertedPayment
<1>5. (found => linked) /\ (old # Null /\ old.linked => linked)
  OBVIOUS
<1> HIDE DEF paidAt, linked
<1>6. UpsertedPayment(old, wh, found) \in PaymentRows
  BY <1>1, <1>2, <1>3, <1>4 DEF PaymentRows
<1>7. UpsertedPayment(old, wh, found) # Null
  BY <1>6, NullAssumption
<1>8. QED
  BY <1>2, <1>4, <1>5, <1>6, <1>7

\* The conditions of OrderWriteOK, PaymentWriteOK and BundleOK on what a
\* handler is about to commit.
RowsFit(t, w, held) ==
  /\ w.order # Null =>
       /\ held[OrderKey(tx[t].wh)] = t
       /\ WholeCents(w.order.items)
       /\ orders[tx[t].wh.order] # Null =>
            /\ orders[tx[t].wh.order].status = "PENDING"
            /\ orders[tx[t].wh.order].email = w.order.email
            /\ orders[tx[t].wh.order].items = w.order.items
            /\ w.order.status # "PENDING"
  /\ w.payment # Null =>
       /\ held[PaymentKey(tx[t].wh)] = t
       /\ w.payment.status = "COMPLETED" => w.payment.paidAt # Null
       /\ payments[tx[t].wh.order] # Null =>
            /\ IsTerminal(payments[tx[t].wh.order].status) =>
                 /\ w.payment.status = payments[tx[t].wh.order].status
                 /\ w.payment.paidAt = payments[tx[t].wh.order].paidAt
            /\ payments[tx[t].wh.order].linked => w.payment.linked
  /\ w.job # Null => w.job = "PENDING" /\ w.order # Null /\ w.order.status = "PAID"
  /\ w.order # Null /\ w.order.status = "PAID" =>
       /\ w.job # Null
       /\ w.payment # Null
       /\ w.payment.status = "COMPLETED"
       /\ w.payment.linked
       /\ w.payment.paidAt = w.order.paidAt
  /\ w.order # Null /\ w.order.status = "CANCELLED" =>
       /\ w.payment # Null
       /\ w.payment.status = "CANCELLED"
       /\ w.payment.linked
  /\ w.payment # Null /\ (tx[t].found \/ w.order # Null) =>
       /\ w.payment.linked
       /\ w.payment.status = "COMPLETED" => w.order # Null /\ w.order.status = "PAID"
       /\ w.payment.status = "CANCELLED" => w.order # Null /\ w.order.status = "CANCELLED"

\* A handler that ends with rows of its own: what they must be.
LEMMA FinishesRows ==
  ASSUME TypeOK, IntakeInv, NEW t \in Slots, tx[t].pc # "idle", Ran(t),
         NEW answer \in Answers, answer # "cannotCancel",
         NEW w \in Writes, Finishes(t, answer, w), w.event = Processed(tx[t].w).event,
         RowsFit(t, w, lock'),
         Committable(t, w, lock')
  PROVE  TypeOK' /\ IntakeInv'
<1>1. SlotInv(t) /\ tx[t].wh \in Webhooks /\ tx[t].w \in Writes
  BY OpenHasWebhook DEF IntakeInv, TypeOK, Transactions
<1>2. Becomes(t, "commit", tx[t].found, answer, w)
  BY FinishesBecomes DEF TypeOK
<1>3. /\ tx'[t].pc = "commit" /\ tx'[t].wh = tx[t].wh /\ tx'[t].found = tx[t].found
      /\ tx'[t].w = w /\ tx'[t].answer = answer
  BY <1>2 DEF Becomes
<1>4. UNCHANGED <<events, orders, payments, jobs>>
  BY DEF Ran
<1>5. \A k \in LockKeys : lock[k] = t => lock'[k] = t
  BY <1>1, RunsLocks, WebhooksAssumption DEF Ran, TypeOK
<1>6. {Key(tx[t].wh), OrderKey(tx[t].wh), PaymentKey(tx[t].wh)} \subseteq LockKeys
  BY <1>1, WebhookKeys
<1>7. /\ w.event = Null <=> tx[t].w.event = Null
      /\ w.event # Null => w.event.wh = tx[t].w.event.wh /\ w.event.processed
  BY <1>1, ProcessedEvent
<1>8. FlowOK(t)'
  BY <1>1, <1>3 DEF FlowOK
<1>9. FoundOK(t)'
  BY <1>1, <1>3, <1>4, <1>5, <1>6 DEF FoundOK, SlotInv
<1>10. EventWriteOK(t)'
  BY <1>1, <1>3, <1>4, <1>5, <1>6, <1>7 DEF EventWriteOK, SlotInv
<1>11. OrderWriteOK(t)'
  BY <1>3, <1>4 DEF OrderWriteOK, RowsFit
<1>12. PaymentWriteOK(t)'
  BY <1>3, <1>4 DEF PaymentWriteOK, RowsFit
<1>13. BundleOK(t)'
  BY <1>3 DEF BundleOK, RowsFit
<1>14. OutcomeOK(t)'
  BY <1>3, <1>4 DEF OutcomeOK, Committable
<1>15. SlotInv(t)'
  BY <1>8, <1>9, <1>10, <1>11, <1>12, <1>13, <1>14 DEF SlotInv
<1>16. QED
  BY <1>2, <1>15, RanKeeps

\* An order whose payment is not terminal has no job yet.
LEMMA PendingOrder ==
  ASSUME TypeOK, IntakeInv, NEW o \in Orders, MayOverwrite(payments[o])
  PROVE  /\ jobs[o] = Null
         /\ orders[o] # Null => orders[o].status = "PENDING" /\ WholeCents(orders[o].items)
<1>1. RowsOK(o)
  BY DEF IntakeInv
<1>2. orders[o] # Null => orders[o].status \in {"PENDING", "PAID", "CANCELLED"}
  BY DEF TypeOK, OrderRows
<1>3. payments[o] # Null => payments[o].status \notin {"COMPLETED", "CANCELLED"}
  BY DEF MayOverwrite, IsTerminal
<1>4. orders[o] # Null => orders[o].status = "PENDING"
  BY <1>1, <1>2, <1>3 DEF RowsOK
<1>5. QED
  BY <1>1, <1>4 DEF RowsOK

\* The upserts of a payment hold its lock, and the order's if it was found;
\* the order is then still pending.
LEMMA WriteKeeps ==
  ASSUME TypeOK, IntakeInv, NEW t \in Slots,
         PaymentFinalized(t) \/ UpsertPayment(t) \/ CancelPayment(t)
  PROVE  TypeOK' /\ IntakeInv'
<1> DEFINE wh == tx[t].wh
           o == wh.order
           p == UpsertedPayment(payments[o], wh, tx[t].found)
           w == [Processed(tx[t].w) EXCEPT !.payment = p]
           wPaid == CompletePayment(w, o)
           wCancelled == [w EXCEPT !.order = [orders[o] EXCEPT !.status = "CANCELLED"],
                                   !.job   = CancelledJob(o)]
<1>1. tx[t].pc = "write" /\ Ran(t)
  BY DEF PaymentFinalized, UpsertPayment, CancelPayment, Ran, Tables
<1>2. /\ SlotInv(t) /\ wh \in Webhooks /\ tx[t].w \in Writes /\ tx[t].found \in BOOLEAN
      /\ wh.type = "PAYMENT"
      /\ tx[t].w.order = Null /\ tx[t].w.payment = Null /\ tx[t].w.job = Null
      /\ tx[t].w.event # Null
  BY <1>1, OpenHasWebhook
  DEF IntakeInv, TypeOK, Transactions, SlotInv, FlowOK, BundleOK, OutcomeOK
<1>3. o \in Orders /\ payments[o] \in PaymentRows \cup {Null}
      /\ orders[o] \in OrderRows \cup {Null}
  BY <1>2, WebhookShape DEF TypeOK
<1>4. CASE PaymentFinalized(t)
  BY <1>1, <1>4, FailsKeeps DEF PaymentFinalized, Answers
<1>5. SUFFICES ASSUME UpsertPayment(t) \/ CancelPayment(t) PROVE TypeOK' /\ IntakeInv'
  BY <1>4
<1>6. MayOverwrite(payments[o])
  BY <1>5 DEF UpsertPayment, CancelPayment
<1>7. /\ jobs[o] = Null
      /\ orders[o] # Null => orders[o].status = "PENDING" /\ WholeCents(orders[o].items)
  BY <1>3, <1>6, PendingOrder
<1>8. lock'[PaymentKey(wh)] = t
  <2>1. Wants(t) = PaymentKey(wh)
    BY <1>1 DEF Wants
  <2>2. QED
    BY <1>1, <1>2, <2>1, RunsLocks, WebhookKeys DEF Ran, TypeOK
<1>9. tx[t].found => lock'[OrderKey(wh)] = t /\ orders[o] # Null
  <2>1. tx[t].found => lock[OrderKey(wh)] = t /\ orders[o] # Null
    BY <1>2 DEF SlotInv, FoundOK
  <2>2. OrderKey(wh) \in LockKeys
    BY <1>2, WebhookKeys
  <2>3. \A k \in LockKeys : lock[k] = t => lock'[k] = t
    BY <1>1, <1>2, RunsLocks, WebhooksAssumption DEF Ran, TypeOK
  <2>4. QED
    BY <2>1, <2>2, <2>3
<1>10. /\ p \in PaymentRows /\ p # Null /\ p.status = wh.body
       /\ p.status = "COMPLETED" => p.paidAt # Null
       /\ tx[t].found => p.linked
       /\ payments[o] # Null /\ payments[o].linked => p.linked
  BY <1>2, <1>3, UpsertedPaymentRow, Zenon
<1>11. payments[o] # Null => ~IsTerminal(payments[o].status)
  BY <1>6 DEF MayOverwrite
<1> HIDE DEF p
<1>12. /\ w \in Writes /\ w.event = Processed(tx[t].w).event
       /\ w.order = Null /\ w.payment = p /\ w.job = Null /\ w.event # Null
  <2> DEFINE pw == Processed(tx[t].w)
  <2>1. pw \in Writes /\ pw.order = Null /\ pw.job = Null /\ pw.event # Null
    BY <1>2, ProcessedFields
  <2>2. w = [pw EXCEPT !.payment = p]
    OBVIOUS
  <2> HIDE DEF pw, w
  <2>3. QED
    BY <1>10, <2>1, <2>2 DEF Writes, pw
<1> HIDE DEF w
<1>13. ASSUME NEW x, x.event # Null, x.payment = p PROVE Committable(t, x, lock')
  BY <1>2, <1>8, <1>10, <1>13 DEF Committable, Installed, PaymentEffect
<1>14. ASSUME NEW answer \in {"ok", "awaiting"}, Finishes(t, answer, w),
              tx[t].found => ~IsTerminal(wh.body)
       PROVE  TypeOK' /\ IntakeInv'
  <2>1. RowsFit(t, w, lock')
    BY <1>8, <1>10, <1>11, <1>12, <1>14 DEF RowsFit, IsTerminal
  <2>2. Committable(t, w, lock')
    BY <1>12, <1>13
  <2>3. QED
    BY <1>1, <1>12, <1>14, <2>1, <2>2, FinishesRows, Zenon DEF Answers
<1>15. ASSUME tx[t].found, wh.body = "COMPLETED", Finishes(t, "ok", wPaid)
       PROVE  TypeOK' /\ IntakeInv'
  <2> DEFINE row == [orders[o] EXCEPT !.status = "PAID", !.paidAt = p.paidAt]
  <2>1. /\ row \in OrderRows /\ row.status = "PAID" /\ row.paidAt = p.paidAt
        /\ row.email = orders[o].email /\ row.items = orders[o].items
    BY <1>3, <1>9, <1>10, <1>15 DEF OrderRows, PaymentRows
  <2>2. row # Null
    BY <2>1, NullAssumption
  <2>3. ScheduledJob(o) = "PENDING"
    BY <1>7 DEF ScheduledJob
  <2>4. wPaid = [w EXCEPT !.order = row, !.job = "PENDING"]
    BY <1>12, <2>3 DEF CompletePayment, MarkPaidAndSchedule
  <2>5. "PENDING" \in JobStatuses /\ "PENDING" # Null
    BY NullAssumption DEF JobStatuses
  <2> HIDE DEF row, wPaid
  <2>6. /\ wPaid \in Writes /\ wPaid.event = w.event /\ wPaid.order = row
        /\ wPaid.payment = p /\ wPaid.job = "PENDING"
    BY <1>12, <2>1, <2>4, <2>5, Zenon DEF Writes
  <2>7. Committable(t, wPaid, lock')
    BY <1>12, <1>13, <2>6
  <2>8. RowsFit(t, wPaid, lock')
    BY <1>7, <1>8, <1>9, <1>10, <1>11, <1>15, <2>1, <2>2, <2>5, <2>6 DEF RowsFit
  <2>9. QED
    BY <1>1, <1>12, <1>15, <2>6, <2>7, <2>8, FinishesRows, Zenon DEF Answers
<1>16. ASSUME tx[t].found, wh.body = "CANCELLED", Finishes(t, "ok", wCancelled)
       PROVE  TypeOK' /\ IntakeInv'
  <2> DEFINE row == [orders[o] EXCEPT !.status = "CANCELLED"]
  <2>1. /\ row \in OrderRows /\ row.status = "CANCELLED"
        /\ row.email = orders[o].email /\ row.items = orders[o].items
    BY <1>3, <1>9, <1>16 DEF OrderRows
  <2>2. row # Null
    BY <2>1, NullAssumption
  <2>3. CancelledJob(o) = Null
    BY <1>7 DEF CancelledJob
  <2>4. wCancelled = [w EXCEPT !.order = row, !.job = Null]
    BY <2>3
  <2> HIDE DEF row, wCancelled
  <2>5. /\ wCancelled \in Writes /\ wCancelled.event = w.event /\ wCancelled.order = row
        /\ wCancelled.payment = p /\ wCancelled.job = Null
    BY <1>12, <2>1, <2>4 DEF Writes
  <2>6. Committable(t, wCancelled, lock')
    BY <1>12, <1>13, <2>5
  <2>7. RowsFit(t, wCancelled, lock')
    BY <1>7, <1>8, <1>9, <1>10, <1>11, <1>16, <2>1, <2>2, <2>5 DEF RowsFit
  <2>8. QED
    BY <1>1, <1>12, <1>16, <2>5, <2>6, <2>7, FinishesRows, Zenon DEF Answers
<1>17. CASE UpsertPayment(t)
  <2>1. \/ Finishes(t, "ok", w) /\ ~IsTerminal(wh.body)
        \/ Finishes(t, "awaiting", w) /\ ~tx[t].found
        \/ tx[t].found /\ wh.body = "COMPLETED" /\ Finishes(t, "ok", wPaid)
    BY <1>17 DEF UpsertPayment, IsTerminal, w, p
  <2>2. QED
    BY <2>1, <1>14, <1>15
<1>18. CASE CancelPayment(t)
  <2>1. CanCancelJob(o)
    BY <1>7 DEF CanCancelJob
  <2>2. \/ Finishes(t, "ok", w) /\ ~tx[t].found
        \/ tx[t].found /\ wh.body = "CANCELLED" /\ Finishes(t, "ok", wCancelled)
    BY <1>18, <2>1 DEF CancelPayment, w, p
  <2>3. QED
    BY <2>2, <1>14, <1>16
<1>19. QED
  BY <1>5, <1>17, <1>18

\* Orders.Create holds the key of the order that it inserts.
LEMMA CreateOrderKeeps ==
  ASSUME TypeOK, IntakeInv, NEW t \in Slots, CreateOrder(t)
  PROVE  TypeOK' /\ IntakeInv'
<1> DEFINE wh == tx[t].wh
           w == [tx[t].w EXCEPT !.order = NewOrder(wh)]
<1>1. tx[t].pc = "create" /\ Ran(t) /\ orders[wh.order] = Null
  BY DEF CreateOrder, Ran, Tables
<1>2. /\ SlotInv(t) /\ wh \in Webhooks /\ tx[t].w \in Writes
      /\ wh.type = "SHOP"
      /\ tx[t].w.payment = Null /\ tx[t].w.job = Null
      /\ tx[t].answer # "cannotCancel"
      /\ tx[t].w.event # Null
  BY <1>1, OpenHasWebhook
  DEF IntakeInv, TypeOK, Transactions, SlotInv, FlowOK, BundleOK, OutcomeOK
<1>3. /\ NewOrder(wh) \in OrderRows /\ NewOrder(wh).status = "PENDING"
      /\ WholeCents(NewOrder(wh).items)
  BY <1>2, NewOrderTyped
<1>4. /\ w \in Writes
      /\ w.event = tx[t].w.event /\ w.order = NewOrder(wh) /\ w.payment = Null /\ w.job = Null
  BY <1>2, <1>3 DEF Writes
<1>5. Becomes(t, "reconcile", tx[t].found, tx[t].answer, w)
  <2>1. tx' = [tx EXCEPT ![t].pc = "reconcile", ![t].w.order = NewOrder(wh)]
    BY DEF CreateOrder
  <2>2. tx[t] \in Transactions
    BY DEF TypeOK
  <2>3. tx' = [tx EXCEPT ![t] = [tx[t] EXCEPT !.pc = "reconcile", !.w = w]]
    BY <2>1, <2>2 DEF TypeOK, Transactions
  <2> HIDE DEF w
  <2>4. QED
    BY <1>4, <2>2, <2>3 DEF Becomes, TypeOK, Transactions
<1>6. lock'[OrderKey(wh)] = t
  <2>1. Wants(t) = OrderKey(wh)
    BY <1>1 DEF Wants
  <2>2. QED
    BY <1>1, <1>2, <2>1, RunsLocks, WebhookKeys DEF Ran, TypeOK
<1>7. /\ tx'[t].pc = "reconcile" /\ tx'[t].wh = wh /\ tx'[t].found = tx[t].found
      /\ tx'[t].answer = tx[t].answer /\ tx'[t].w = w
  BY <1>5 DEF Becomes
<1>8. UNCHANGED <<events, orders, payments, jobs>>
  BY <1>1 DEF Ran
<1>9. \A k \in LockKeys : lock[k] = t => lock'[k] = t
  BY <1>1, <1>2, RunsLocks, WebhooksAssumption DEF Ran, TypeOK
<1> HIDE DEF w
<1>10. FlowOK(t)'
  BY <1>2, <1>4, <1>7 DEF FlowOK
<1>11. FoundOK(t)'
  BY <1>2, <1>7, <1>8, <1>9, WebhookKeys DEF FoundOK, SlotInv
<1>12. EventWriteOK(t)'
  BY <1>2, <1>4, <1>7, <1>8, <1>9, WebhookKeys DEF EventWriteOK, SlotInv
<1>13. OrderWriteOK(t)'
  BY <1>1, <1>3, <1>4, <1>6, <1>7, <1>8 DEF OrderWriteOK
<1>14. PaymentWriteOK(t)' /\ BundleOK(t)' /\ OutcomeOK(t)'
  BY <1>2, <1>3, <1>4, <1>7 DEF PaymentWriteOK, BundleOK, OutcomeOK
<1>15. SlotInv(t)'
  BY <1>10, <1>11, <1>12, <1>13, <1>14 DEF SlotInv
<1>16. QED
  BY <1>1, <1>5, <1>15, RanKeeps

\* The order was there already.
LEMMA OrderExistsKeeps ==
  ASSUME TypeOK, IntakeInv, NEW t \in Slots, OrderExists(t)
  PROVE  TypeOK' /\ IntakeInv'
<1>1. tx[t].pc = "create" /\ Ran(t) /\ Goes(t, "compare")
  BY DEF OrderExists, Ran, Tables
<1>2. /\ tx[t].wh.type = "SHOP" /\ tx[t].w.order = Null /\ tx[t].w.payment = Null
      /\ tx[t].w.event # Null
  BY <1>1 DEF IntakeInv, SlotInv, FlowOK, OutcomeOK
<1>3. QED
  BY <1>1, <1>2, GoesKeeps DEF Pcs

\* A repeated order is answered with what is stored, or refused.
LEMMA CompareOrderKeeps ==
  ASSUME TypeOK, IntakeInv, NEW t \in Slots, CompareOrder(t)
  PROVE  TypeOK' /\ IntakeInv'
<1> DEFINE wh == tx[t].wh
           o == wh.order
<1>1. tx[t].pc = "compare" /\ Ran(t)
  BY DEF CompareOrder, Ran, Tables
<1>2. \/ Fails(t, "conflict")
      \/ /\ Finishes(t, "ok", Processed(tx[t].w))
         /\ orders[o] # Null
         /\ \E listed \in Listings(orders[o].items) : SameOrderPayload(orders[o], listed, wh.body)
  BY DEF CompareOrder
<1>3. /\ tx[t].w \in Writes /\ wh \in Webhooks /\ wh.type = "SHOP" /\ tx[t].w.order = Null
      /\ tx[t].w.event = Null => events[Key(wh)] # Null
  BY <1>1, OpenHasWebhook DEF IntakeInv, TypeOK, Transactions, SlotInv, FlowOK, OutcomeOK
<1>4. CASE Fails(t, "conflict")
  BY <1>1, <1>4, FailsKeeps DEF Answers
<1>5. CASE /\ Finishes(t, "ok", Processed(tx[t].w))
           /\ orders[o] # Null
           /\ \E listed \in Listings(orders[o].items) :
                SameOrderPayload(orders[o], listed, wh.body)
  <2>1. Processed(tx[t].w) \in Writes /\ Processed(tx[t].w).order = Null
        /\ (Processed(tx[t].w).event = Null => tx[t].w.event = Null)
    BY <1>3, ProcessedFields
  <2>2. Processed(tx[t].w).event # Null => Processed(tx[t].w).event.processed
    BY <1>3, ProcessedFields
  <2>3. lock'[OrderKey(wh)] = t
    <3>1. Wants(t) = OrderKey(wh)
      BY <1>1, <1>5 DEF Wants
    <3>2. QED
      BY <1>1, <1>3, <3>1, RunsLocks, WebhookKeys DEF Ran, TypeOK
  <2>4. ShopEffect(wh, orders[o])
    BY <1>5 DEF ShopEffect, SameOrderPayload
  <2>5. Committable(t, Processed(tx[t].w), lock')
    BY <1>3, <2>1, <2>3, <2>4, Zenon DEF Committable, Installed
  <2>6. QED
    BY <1>1, <1>5, <2>1, <2>2, <2>5, FinishesPlain DEF Answers
<1>6. QED
  BY <1>2, <1>4, <1>5

\* reconcilePayment writes over the payment that it has locked, and over
\* the transaction's own order.
LEMMA ReconcileKeeps ==
  ASSUME TypeOK, IntakeInv, NEW t \in Slots, ReconcileNothing(t) \/ ReconcilePayment(t)
  PROVE  TypeOK' /\ IntakeInv'
<1> DEFINE wh == tx[t].wh
           o == wh.order
           p == payments[o]
           q == [p EXCEPT !.linked = TRUE]
           pw == Processed(tx[t].w)
           w == [pw EXCEPT !.payment = q]
<1>1. tx[t].pc = "reconcile" /\ Ran(t)
  BY Zenon DEF ReconcileNothing, ReconcilePayment, Ran, Tables
<1>2. /\ SlotInv(t) /\ wh \in Webhooks /\ tx[t].w \in Writes
      /\ wh.type = "SHOP"
      /\ tx[t].w.order = NewOrder(wh) /\ tx[t].w.payment = Null /\ tx[t].w.event # Null
  BY <1>1, OpenHasWebhook DEF IntakeInv, TypeOK, Transactions, SlotInv, FlowOK, OutcomeOK
<1>3. /\ NewOrder(wh) \in OrderRows /\ NewOrder(wh).status = "PENDING" /\ NewOrder(wh) # Null
      /\ NewOrder(wh).email = wh.body.email
      /\ NewOrder(wh).items = StoredItems(wh.body.items)
      /\ WholeCents(NewOrder(wh).items)
  BY <1>2, NewOrderTyped, NullAssumption
<1>4. orders[o] = Null /\ lock[OrderKey(wh)] = t /\ tx[t].w.job = Null
  BY <1>2, <1>3 DEF SlotInv, OrderWriteOK, BundleOK
<1>5. o \in Orders /\ jobs[o] = Null /\ p \in PaymentRows \cup {Null}
  <2>1. o \in Orders
    BY <1>2, WebhookShape
  <2>2. QED
    BY <1>4, <2>1 DEF IntakeInv, RowsOK, TypeOK
<1>6. lock'[OrderKey(wh)] = t
  BY <1>1, <1>2, <1>4, RunsLocks, WebhookKeys, WebhooksAssumption DEF Ran, TypeOK
<1>7. /\ pw \in Writes /\ pw.order = NewOrder(wh) /\ pw.payment = Null /\ pw.job = Null
      /\ pw.event # Null
  BY <1>2, <1>4, ProcessedFields
<1>8. ASSUME NEW x, x.event # Null, x.order # Null,
              x.order.email = NewOrder(wh).email, x.order.items = NewOrder(wh).items
       PROVE  Committable(t, x, lock')
  BY <1>2, <1>3, <1>6, <1>8 DEF Committable, Installed, ShopEffect
<1>9. CASE ReconcileNothing(t)
  <2>1. Finishes(t, "created", pw)
    BY <1>9 DEF ReconcileNothing
  <2> HIDE DEF pw
  <2>2. pw.event = Processed(tx[t].w).event
    BY DEF pw
  <2>3. Committable(t, pw, lock')
    BY <1>3, <1>7, <1>8, Zenon
  <2>4. RowsFit(t, pw, lock')
    BY <1>3, <1>4, <1>6, <1>7 DEF RowsFit
  <2>5. QED
    BY <1>1, <1>7, <2>1, <2>2, <2>3, <2>4, FinishesRows, Zenon DEF Answers
<1>10. CASE ReconcilePayment(t)
  <2>1. p # Null /\ p \in PaymentRows
    BY <1>5, <1>10, Zenon DEF ReconcilePayment
  <2>2. lock'[PaymentKey(wh)] = t
    <3>1. Wants(t) = PaymentKey(wh)
      BY <1>1, <2>1 DEF Wants
    <3>2. QED
      BY <1>1, <1>2, <3>1, RunsLocks, WebhookKeys DEF Ran, TypeOK
  <2>3. /\ q \in PaymentRows /\ q.status = p.status /\ q.paidAt = p.paidAt /\ q.linked
    BY <2>1 DEF PaymentRows
  <2>4. q # Null
    BY <2>3, NullAssumption
  <2>5. p.status = "COMPLETED" => p.paidAt # Null
    BY <1>5, <2>1 DEF IntakeInv, RowsOK
  <2>6. ScheduledJob(o) = "PENDING" /\ CancelledJob(o) = Null
    BY <1>5 DEF ScheduledJob, CancelledJob
  <2>7. "PENDING" \in JobStatuses /\ "PENDING" # Null
    BY NullAssumption, Zenon DEF JobStatuses
  <2> DEFINE cancelled == [NewOrder(wh) EXCEPT !.status = "CANCELLED"]
             paid == [NewOrder(wh) EXCEPT !.status = "PAID", !.paidAt = p.paidAt]
             wCancelled == [w EXCEPT !.order.status = "CANCELLED", !.job = CancelledJob(o),
                                     !.marks = TRUE]
             wPaid == [MarkPaidAndSchedule(w, w.order, o, p.paidAt) EXCEPT !.marks = TRUE]
  <2>8. \/ p.status = "CANCELLED" /\ Finishes(t, "created", wCancelled)
        \/ p.status = "COMPLETED" /\ Finishes(t, "created", wPaid)
        \/ Fails(t, "error")
        \/ p.status \notin {"CANCELLED", "COMPLETED"} /\ Finishes(t, "created", w)
    BY <1>10, Zenon DEF ReconcilePayment
  <2> HIDE DEF q
  <2>9. /\ w \in Writes /\ w.event = pw.event /\ w.order = NewOrder(wh) /\ w.payment = q
        /\ w.job = Null /\ w.event # Null
    <3> HIDE DEF pw
    <3>1. QED
      BY <1>7, <2>3 DEF Writes
  <2>10. w.event = Processed(tx[t].w).event
    BY <2>9
  <2> HIDE DEF w, pw
  <2>11. CASE Fails(t, "error")
    BY <1>1, <2>11, FailsKeeps, Zenon DEF Answers
  <2>12. CASE p.status \notin {"CANCELLED", "COMPLETED"} /\ Finishes(t, "created", w)
    <3>1. Committable(t, w, lock')
      BY <1>3, <1>8, <2>9, Zenon
    <3>2. RowsFit(t, w, lock')
      BY <1>3, <1>4, <1>6, <2>2, <2>3, <2>4, <2>5, <2>9, <2>12 DEF RowsFit
    <3>3. QED
      BY <1>1, <2>9, <2>10, <2>12, <3>1, <3>2, FinishesRows, Zenon DEF Answers
  <2>13. CASE p.status = "CANCELLED" /\ Finishes(t, "created", wCancelled)
    <3>1. /\ cancelled \in OrderRows /\ cancelled.status = "CANCELLED" /\ cancelled # Null
          /\ cancelled.email = NewOrder(wh).email /\ cancelled.items = NewOrder(wh).items
      <4>1. /\ cancelled \in OrderRows /\ cancelled.status = "CANCELLED"
            /\ cancelled.email = NewOrder(wh).email /\ cancelled.items = NewOrder(wh).items
        BY <1>3 DEF OrderRows
      <4>2. QED
        BY <4>1, NullAssumption
    <3>2. wCancelled = [w EXCEPT !.order = cancelled, !.job = Null, !.marks = TRUE]
      BY <2>6, <2>9
    <3> HIDE DEF cancelled, wCancelled
    <3>3. /\ wCancelled \in Writes /\ wCancelled.event = w.event /\ wCancelled.order = cancelled
          /\ wCancelled.payment = q /\ wCancelled.job = Null
      BY <2>9, <3>1, <3>2 DEF Writes
    <3>4. Committable(t, wCancelled, lock')
      BY <1>8, <2>9, <3>1, <3>3
    <3>5. RowsFit(t, wCancelled, lock')
      BY <1>3, <1>4, <1>6, <2>2, <2>3, <2>4, <2>5, <2>13, <3>1, <3>3 DEF RowsFit
    <3>6. QED
      BY <1>1, <2>10, <2>13, <3>3, <3>4, <3>5, FinishesRows, Zenon DEF Answers
  <2>14. CASE p.status = "COMPLETED" /\ Finishes(t, "created", wPaid)
    <3>1. /\ paid \in OrderRows /\ paid.status = "PAID" /\ paid.paidAt = p.paidAt /\ paid # Null
          /\ paid.email = NewOrder(wh).email /\ paid.items = NewOrder(wh).items
      <4>1. /\ paid \in OrderRows /\ paid.status = "PAID" /\ paid.paidAt = p.paidAt
            /\ paid.email = NewOrder(wh).email /\ paid.items = NewOrder(wh).items
        BY <1>3, <2>1 DEF OrderRows, PaymentRows
      <4>2. QED
        BY <4>1, NullAssumption
    <3>2. wPaid = [[w EXCEPT !.order = paid, !.job = "PENDING"] EXCEPT !.marks = TRUE]
      BY <2>6, <2>9 DEF MarkPaidAndSchedule
    <3> HIDE DEF paid, wPaid
    <3>3. /\ wPaid \in Writes /\ wPaid.event = w.event /\ wPaid.order = paid
          /\ wPaid.payment = q /\ wPaid.job = "PENDING"
      BY <2>7, <2>9, <3>1, <3>2 DEF Writes
    <3>4. Committable(t, wPaid, lock')
      BY <1>8, <2>9, <3>1, <3>3
    <3>5. RowsFit(t, wPaid, lock')
      BY <1>3, <1>4, <1>6, <2>2, <2>3, <2>4, <2>5, <2>7, <2>14, <3>1, <3>3 DEF RowsFit
    <3>6. QED
      BY <1>1, <2>10, <2>14, <3>3, <3>4, <3>5, FinishesRows, Zenon DEF Answers
  <2>15. QED
    BY <2>8, <2>11, <2>12, <2>13, <2>14, Zenon
<1>11. QED
  BY <1>9, <1>10

-----------------------------------------------------------------------------
(* The end of a transaction.                                               *)

\* A slot that is free again.
LEMMA EndsSlot ==
  ASSUME TypeOK, NEW t \in Slots, Ends(t)
  PROVE  /\ tx' \in [Slots -> Transactions]
         /\ lock' \in [LockKeys -> Slots \cup {Null}]
         /\ SlotInv(t)'
         /\ \A u \in Slots \ {t} : tx'[u] = tx[u]
         /\ \A u \in Slots \ {t} : \A k \in LockKeys : lock[k] = u => lock'[k] = u
<1>1. NoTransaction \in Transactions
  BY DEF NoTransaction, NoWrites, Transactions, Writes
<1>2. /\ tx' \in [Slots -> Transactions]
      /\ tx'[t] = NoTransaction
      /\ \A u \in Slots \ {t} : tx'[u] = tx[u]
  BY <1>1 DEF Ends, TypeOK
<1>3. /\ lock' \in [LockKeys -> Slots \cup {Null}]
      /\ \A k \in LockKeys : lock[k] # t => lock'[k] = lock[k]
  BY ReleasedLocks DEF Ends, TypeOK
<1>4. SlotInv(t)'
  BY <1>2 DEF NoTransaction, NoWrites, SlotInv, FlowOK, FoundOK, EventWriteOK,
    OrderWriteOK, PaymentWriteOK, BundleOK, OutcomeOK
<1>5. QED
  BY <1>2, <1>3, <1>4

\* The transactions in S are rolled back, as when the process that runs them
\* dies: they end and leave no writes behind.
Dropped(S) ==
  /\ lock' = [k \in LockKeys |-> IF lock[k] \in S THEN Null ELSE lock[k]]
  /\ tx' = [t \in Slots |-> IF t \in S THEN NoTransaction ELSE tx[t]]
  /\ UNCHANGED <<Tables, acked>>

LEMMA DroppedKeeps ==
  ASSUME TypeOK, IntakeInv, NEW S \in SUBSET Slots, Dropped(S)
  PROVE  TypeOK' /\ IntakeInv'
<1>1. UNCHANGED <<events, orders, payments, jobs, acked>>
  BY DEF Dropped, Tables
<1>2. NoTransaction \in Transactions
  BY DEF NoTransaction, NoWrites, Transactions, Writes
<1>3. /\ tx' \in [Slots -> Transactions]
      /\ \A t \in S : tx'[t] = NoTransaction
      /\ \A u \in Slots \ S : tx'[u] = tx[u]
  BY <1>2 DEF Dropped, TypeOK
<1>4. /\ lock' \in [LockKeys -> Slots \cup {Null}]
      /\ \A u \in Slots \ S : \A k \in LockKeys : lock[k] = u => lock'[k] = u
  BY DEF Dropped, TypeOK
<1>5. TypeOK'
  BY <1>1, <1>3, <1>4 DEF TypeOK
<1>6. ASSUME NEW t \in Slots PROVE SlotInv(t)'
  <2>1. CASE t \in S
    BY <1>3, <2>1 DEF NoTransaction, NoWrites, SlotInv, FlowOK, FoundOK, EventWriteOK,
      OrderWriteOK, PaymentWriteOK, BundleOK, OutcomeOK
  <2>2. CASE t \notin S
    <3>1. KeptFor(t)
      BY <1>1, <1>3, <1>4, <2>2 DEF KeptFor
    <3>2. QED
      BY <3>1, KeptSlot DEF IntakeInv
  <2>3. QED
    BY <2>1, <2>2
<1>7. \A o \in Orders : RowsOK(o)'
  BY <1>1 DEF IntakeInv, RowsOK
<1>8. (\A k \in EventKeys : EventOK(k)') /\ (\A wh \in acked' : AckedOK(wh)')
  BY <1>1 DEF IntakeInv, EventOK, AckedOK
<1>9. QED
  BY <1>5, <1>6, <1>7, <1>8 DEF IntakeInv

\* A single transaction that leaves no writes behind.
LEMMA EndsDropped ==
  ASSUME TypeOK, NEW t \in Slots, Ends(t), UNCHANGED <<Tables, acked>>
  PROVE  Dropped({t})
BY DEF Dropped, Ends, Released, TypeOK

LEMMA EndsKeeps ==
  ASSUME TypeOK, IntakeInv, NEW t \in Slots, Ends(t), UNCHANGED <<Tables, acked>>
  PROVE  TypeOK' /\ IntakeInv'
BY EndsDropped, DroppedKeeps

\* What a commit installs, row by row.
LEMMA InstallRows ==
  ASSUME TypeOK, NEW t \in Slots, tx[t].wh \in Webhooks, Install(t)
  PROVE  /\ events' \in [EventKeys -> EventRows \cup {Null}]
         /\ orders' \in [Orders -> OrderRows \cup {Null}]
         /\ payments' \in [Orders -> PaymentRows \cup {Null}]
         /\ jobs' \in [Orders -> JobStatuses \cup {Null}]
         /\ \A k \in EventKeys : k # Key(tx[t].wh) =>
              /\ events[k] = Null => events'[k] = Null
              /\ events[k] # Null => events'[k] # Null /\ events'[k].wh = events[k].wh
              /\ events[k] # Null /\ events[k].processed => events'[k].processed
         /\ events'[Key(tx[t].wh)] = Installed(tx[t].w.event, events[Key(tx[t].wh)])
         /\ \A o \in Orders \ {tx[t].wh.order} :
              orders'[o] = orders[o] /\ payments'[o] = payments[o] /\ jobs'[o] = jobs[o]
         /\ orders'[tx[t].wh.order] = Installed(tx[t].w.order, orders[tx[t].wh.order])
         /\ payments'[tx[t].wh.order] = Installed(tx[t].w.payment, payments[tx[t].wh.order])
         /\ jobs'[tx[t].wh.order] = Installed(tx[t].w.job, jobs[tx[t].wh.order])
<1> DEFINE wh == tx[t].wh
           w == tx[t].w
<1>1. wh.order \in Orders /\ Key(wh) \in EventKeys
  BY WebhookShape
<1>2. w \in Writes
  BY DEF TypeOK, Transactions
<1>3. /\ Installed(w.event, events[Key(wh)]) \in EventRows \cup {Null}
      /\ Installed(w.order, orders[wh.order]) \in OrderRows \cup {Null}
      /\ Installed(w.payment, payments[wh.order]) \in PaymentRows \cup {Null}
      /\ Installed(w.job, jobs[wh.order]) \in JobStatuses \cup {Null}
  BY <1>1, <1>2 DEF Installed, Writes, TypeOK
<1>4. ASSUME NEW k \in EventKeys
      PROVE  /\ Marked(k, wh.order, w.marks) \in EventRows \cup {Null}
             /\ events[k] = Null => Marked(k, wh.order, w.marks) = Null
             /\ events[k] # Null => /\ Marked(k, wh.order, w.marks) # Null
                                    /\ Marked(k, wh.order, w.marks).wh = events[k].wh
             /\ events[k] # Null /\ events[k].processed =>
                  Marked(k, wh.order, w.marks).processed
  <2>1. CASE Marked(k, wh.order, w.marks) = events[k]
    BY <2>1 DEF TypeOK
  <2>2. CASE events[k] # Null
             /\ Marked(k, wh.order, w.marks) = [events[k] EXCEPT !.processed = TRUE]
    <3>1. events[k] \in EventRows
      BY <2>2 DEF TypeOK
    <3> DEFINE e == [events[k] EXCEPT !.processed = TRUE]
    <3>2. e \in EventRows /\ e.wh = events[k].wh /\ e.processed
      BY <3>1 DEF EventRows
    <3>3. e # Null
      BY <3>2, NullAssumption
    <3> HIDE DEF e
    <3>4. Marked(k, wh.order, w.marks) = e
      BY <2>2 DEF e
    <3>5. QED
      BY <2>2, <3>2, <3>3, <3>4
  <2>3. QED
    BY <2>1, <2>2 DEF Marked
<1>5. \A k \in EventKeys :
        events'[k] = IF k = Key(wh) THEN Installed(w.event, events[k])
                     ELSE Marked(k, wh.order, w.marks)
  BY DEF Install
<1>6. events' \in [EventKeys -> EventRows \cup {Null}]
  <2>1. \A k \in EventKeys : (IF k = Key(wh) THEN Installed(w.event, events[k])
                              ELSE Marked(k, wh.order, w.marks)) \in EventRows \cup {Null}
    BY <1>3, <1>4
  <2>2. QED
    BY <2>1 DEF Install
<1>7. /\ orders' = [orders EXCEPT ![wh.order] = Installed(w.order, orders[wh.order])]
      /\ payments' = [payments EXCEPT ![wh.order] = Installed(w.payment, payments[wh.order])]
      /\ jobs' = [jobs EXCEPT ![wh.order] = Installed(w.job, jobs[wh.order])]
  BY DEF Install
<1>8. /\ orders' \in [Orders -> OrderRows \cup {Null}]
      /\ orders'[wh.order] = Installed(w.order, orders[wh.order])
      /\ \A o \in Orders \ {wh.order} : orders'[o] = orders[o]
  BY <1>1, <1>3, <1>7 DEF TypeOK
<1>9. /\ payments' \in [Orders -> PaymentRows \cup {Null}]
      /\ payments'[wh.order] = Installed(w.payment, payments[wh.order])
      /\ \A o \in Orders \ {wh.order} : payments'[o] = payments[o]
  BY <1>1, <1>3, <1>7 DEF TypeOK
<1>10. /\ jobs' \in [Orders -> JobStatuses \cup {Null}]
       /\ jobs'[wh.order] = Installed(w.job, jobs[wh.order])
       /\ \A o \in Orders \ {wh.order} : jobs'[o] = jobs[o]
  BY <1>1, <1>3, <1>7 DEF TypeOK
<1>11. QED
  BY <1>1, <1>4, <1>5, <1>6, <1>8, <1>9, <1>10

\* What a commit may not do to rows that are there.
LEMMA InstallMonotone ==
  ASSUME TypeOK, IntakeInv, NEW t \in Slots, tx[t].pc = "commit", Install(t), NEW o \in Orders
  PROVE  /\ orders[o] # Null =>
              /\ orders'[o] # Null
              /\ orders'[o].email = orders[o].email
              /\ orders'[o].items = orders[o].items
              /\ orders[o].status # "PENDING" => orders'[o].status = orders[o].status
         /\ payments[o] # Null =>
              /\ payments'[o] # Null
              /\ IsTerminal(payments[o].status) =>
                   /\ payments'[o].status = payments[o].status
                   /\ payments'[o].paidAt = payments[o].paidAt
<1>1. SlotInv(t) /\ tx[t].wh \in Webhooks
  BY OpenHasWebhook DEF IntakeInv
<1>2. CASE o # tx[t].wh.order
  BY <1>1, <1>2, InstallRows
<1>3. CASE o = tx[t].wh.order
  <2>1. /\ orders'[o] = Installed(tx[t].w.order, orders[o])
        /\ payments'[o] = Installed(tx[t].w.payment, payments[o])
    BY <1>1, <1>3, InstallRows
  <2>2. OrderWriteOK(t) /\ PaymentWriteOK(t)
    BY <1>1 DEF SlotInv
  <2>3. QED
    BY <1>3, <2>1, <2>2 DEF OrderWriteOK, PaymentWriteOK, Installed
<1>4. QED
  BY <1>2, <1>3

\* A stored event stays, and nobody else's becomes one.
LEMMA InstallEvents ==
  ASSUME TypeOK, IntakeInv, NEW t \in Slots, tx[t].pc = "commit", Install(t),
         NEW k \in EventKeys
  PROVE  /\ events[k] # Null =>
              /\ events'[k] # Null
              /\ events'[k].wh = events[k].wh
              /\ events[k].processed => events'[k].processed
         /\ events'[k] # Null /\ events[k] = Null =>
              k = Key(tx[t].wh) /\ tx[t].w.event # Null /\ events'[k] = tx[t].w.event
<1>1. SlotInv(t) /\ tx[t].wh \in Webhooks
  BY OpenHasWebhook DEF IntakeInv
<1>2. CASE k # Key(tx[t].wh)
  BY <1>1, <1>2, InstallRows
<1>3. CASE k = Key(tx[t].wh)
  <2>1. events'[k] = Installed(tx[t].w.event, events[k])
    BY <1>1, <1>3, InstallRows
  <2>2. tx[t].w.event # Null => events[k] = Null
    BY <1>1, <1>3 DEF SlotInv, EventWriteOK
  <2>3. QED
    BY <1>3, <2>1, <2>2 DEF Installed
<1>4. QED
  BY <1>2, <1>3

\* So the effect of a webhook stays.
LEMMA InstallEffects ==
  ASSUME TypeOK, IntakeInv, NEW t \in Slots, tx[t].pc = "commit", Install(t),
         NEW wh \in Webhooks
  PROVE  /\ PaymentEffect(wh, payments[wh.order]) => PaymentEffect(wh, payments'[wh.order])
         /\ ShopEffect(wh, orders[wh.order]) => ShopEffect(wh, orders'[wh.order])
<1>1. wh.order \in Orders
  BY WebhookShape
<1>2. PaymentEffect(wh, payments[wh.order]) => PaymentEffect(wh, payments'[wh.order])
  BY <1>1, InstallMonotone DEF PaymentEffect
<1>3. ShopEffect(wh, orders[wh.order]) => ShopEffect(wh, orders'[wh.order])
  BY <1>1, InstallMonotone DEF ShopEffect
<1>4. QED
  BY <1>2, <1>3

\* A commit leaves rows that agree, and touches no row that another
\* transaction has locked.
LEMMA InstallKeeps ==
  ASSUME TypeOK, IntakeInv, NEW t \in Slots, tx[t].pc = "commit", Install(t), Ends(t),
         acked' \subseteq acked \cup {tx[t].wh}
  PROVE  TypeOK' /\ IntakeInv'
<1> DEFINE wh == tx[t].wh
           o == wh.order
           w == tx[t].w
<1>1. SlotInv(t) /\ wh \in Webhooks /\ w \in Writes
  BY OpenHasWebhook DEF IntakeInv, TypeOK, Transactions
<1>2. o \in Orders /\ Key(wh) \in EventKeys
  BY <1>1, WebhookShape
<1>3. TypeOK'
  <2>1. acked' \subseteq Webhooks
    BY <1>1 DEF TypeOK
  <2>2. QED
    BY <1>1, <2>1, InstallRows, EndsSlot DEF TypeOK
<1>4. ASSUME NEW u \in Slots, u # t PROVE SlotInv(u)'
  <2>1. \A x \in Orders : lock[<<"order", x>>] = u => orders'[x] = orders[x]
    <3>1. w.order # Null => lock[<<"order", o>>] = t
      BY <1>1 DEF SlotInv, OrderWriteOK, OrderKey
    <3>2. QED
      BY <1>1, <1>4, <3>1, InstallRows DEF Installed
  <2>2. \A x \in Orders : lock[<<"payment", x>>] = u => payments'[x] = payments[x]
    <3>1. w.payment # Null => lock[<<"payment", o>>] = t
      BY <1>1 DEF SlotInv, PaymentWriteOK, PaymentKey
    <3>2. QED
      BY <1>1, <1>4, <3>1, InstallRows DEF Installed
  <2>3. \A k \in EventKeys : lock[k] = u /\ events[k] = Null => events'[k] = Null
    <3>1. w.event # Null => lock[Key(wh)] = t
      BY <1>1 DEF SlotInv, EventWriteOK
    <3>2. QED
      BY <1>1, <1>4, <3>1, InstallRows DEF Installed
  <2>4. KeptFor(u)
    BY <1>4, <2>1, <2>2, <2>3, EndsSlot, InstallEvents DEF KeptFor
  <2>5. QED
    BY <2>4, KeptSlot DEF IntakeInv
<1>5. ASSUME NEW x \in Orders, x # o PROVE RowsOK(x)'
  BY <1>1, <1>5, InstallRows DEF IntakeInv, RowsOK
<1>6. ASSUME NEW x \in Orders, x = o PROVE RowsOK(x)'
  <2>1. /\ orders'[x] = Installed(w.order, orders[x])
        /\ payments'[x] = Installed(w.payment, payments[x])
        /\ jobs'[x] = Installed(w.job, jobs[x])
    BY <1>1, <1>6, InstallRows
  <2>2. RowsOK(x) /\ OrderWriteOK(t) /\ PaymentWriteOK(t) /\ BundleOK(t)
    BY <1>1 DEF IntakeInv, SlotInv
  <2>3. "PENDING" # Null /\ "PENDING" # "CANCELLED"
    BY NullAssumption DEF JobStatuses
  <2>4. CASE w.order = Null
    <3>1. orders'[x] = orders[x] /\ jobs'[x] = jobs[x]
      BY <2>1, <2>2, <2>4 DEF Installed, BundleOK
    <3>2. CASE w.payment = Null
      BY <2>1, <2>2, <3>1, <3>2 DEF Installed, RowsOK
    <3>3. CASE w.payment # Null
      <4>1. payments'[x] = w.payment
        BY <2>1, <3>3 DEF Installed
      <4>2. w.payment.status = "COMPLETED" => w.payment.paidAt # Null
        BY <1>6, <2>2, <3>3 DEF PaymentWriteOK
      <4>3. payments[x] # Null /\ payments[x].status \in {"COMPLETED", "CANCELLED"} =>
              /\ w.payment.status = payments[x].status
              /\ w.payment.paidAt = payments[x].paidAt
        BY <1>6, <2>2, <3>3 DEF PaymentWriteOK, IsTerminal
      <4>4. payments[x] # Null /\ payments[x].linked => w.payment.linked
        BY <1>6, <2>2, <3>3 DEF PaymentWriteOK
      <4>5. QED
        BY <2>2, <3>1, <3>3, <4>1, <4>2, <4>3, <4>4 DEF RowsOK
    <3>4. QED
      BY <3>2, <3>3
  <2>5. CASE w.order # Null
    <3>1. orders'[x] = w.order /\ w.order.status \in {"PENDING", "PAID", "CANCELLED"}
      BY <1>1, <2>1, <2>5 DEF Installed, Writes, OrderRows
    <3>2. jobs[x] = Null
      BY <1>6, <2>2, <2>5 DEF OrderWriteOK, RowsOK
    <3>3. jobs'[x] = w.job
      BY <2>1, <3>2 DEF Installed
    <3>4. w.payment # Null => payments'[x] = w.payment
      BY <2>1 DEF Installed
    <3>5. w.payment = Null => payments'[x] = payments[x]
      BY <2>1 DEF Installed
    <3>6. payments'[x] # Null /\ payments'[x].status = "COMPLETED" => payments'[x].paidAt # Null
      BY <1>6, <2>2, <3>4, <3>5 DEF RowsOK, PaymentWriteOK
    <3>7. w.order.status # "PAID" => w.job = Null
      BY <2>2 DEF BundleOK
    <3>12. WholeCents(orders'[x].items)
      BY <2>2, <2>5, <3>1 DEF OrderWriteOK
    <3>8. CASE w.order.status = "PAID"
      BY <2>2, <2>3, <2>5, <3>1, <3>3, <3>4, <3>6, <3>8, <3>12 DEF RowsOK, BundleOK
    <3>9. CASE w.order.status = "CANCELLED"
      BY <2>2, <2>5, <3>1, <3>3, <3>4, <3>6, <3>7, <3>9, <3>12 DEF RowsOK, BundleOK
    <3>10. CASE w.order.status = "PENDING"
      BY <2>5, <3>1, <3>3, <3>6, <3>7, <3>10, <3>12 DEF RowsOK
    <3>11. QED
      BY <3>1, <3>8, <3>9, <3>10
  <2>6. QED
    BY <2>4, <2>5
<1>7. /\ PaymentWriteOK(t) /\ EventWriteOK(t) /\ OutcomeOK(t)
      /\ wh.type \in {"SHOP", "PAYMENT"}
      /\ wh.type = "PAYMENT" => PaymentEffect(wh, payments'[o])
      /\ wh.type = "SHOP" => ShopEffect(wh, orders'[o])
  <2>1. orders'[o] = Installed(w.order, orders[o]) /\ payments'[o] = Installed(w.payment, payments[o])
    BY <1>1, InstallRows
  <2>2. OutcomeOK(t)
    BY <1>1 DEF SlotInv
  <2>3. QED
    BY <1>1, <2>1, <2>2, WebhookShape DEF OutcomeOK, SlotInv
<1>8. ASSUME NEW k \in EventKeys, events'[k] # Null
      PROVE  /\ events'[k].processed
             /\ Key(events'[k].wh) = k
             /\ events'[k].wh.type = "PAYMENT" =>
                  PaymentEffect(events'[k].wh, payments'[events'[k].wh.order])
  <2>1. CASE events[k] # Null
    <3>1. events'[k].wh = events[k].wh /\ (events[k].processed => events'[k].processed)
      BY <2>1, InstallEvents
    <3>2. EventOK(k) /\ events[k].wh \in Webhooks
      BY <2>1 DEF IntakeInv, TypeOK, EventRows
    <3>3. QED
      BY <2>1, <3>1, <3>2, InstallEffects DEF EventOK
  <2>2. CASE events[k] = Null
    <3>1. k = Key(wh) /\ w.event # Null /\ events'[k] = w.event
      BY <1>8, <2>2, InstallEvents
    <3>2. QED
      BY <1>7, <3>1 DEF EventWriteOK
  <2>3. QED
    BY <2>1, <2>2
<1>9. \A k \in EventKeys : EventOK(k)'
  BY <1>8 DEF EventOK
<1>10. ASSUME NEW x \in acked'
       PROVE  /\ events'[Key(x)] # Null
              /\ x.type = "PAYMENT" => events'[Key(x)].wh = x
              /\ x.type = "SHOP" => ShopEffect(x, orders'[x.order])
  <2>1. CASE x \in acked
    <3>1. x \in Webhooks /\ AckedOK(x) /\ Key(x) \in EventKeys
      BY <2>1, WebhookShape DEF TypeOK, IntakeInv
    <3>2. QED
      BY <3>1, InstallEvents, InstallEffects DEF AckedOK
  <2>2. CASE x = wh
    <3>1. events'[Key(wh)] = Installed(w.event, events[Key(wh)])
      BY <1>1, InstallRows
    <3>2. QED
      BY <1>7, <2>2, <3>1 DEF Installed, OutcomeOK, EventWriteOK
  <2>3. QED
    BY <2>1, <2>2
<1>11. \A x \in acked' : AckedOK(x)'
  BY <1>10 DEF AckedOK
<1>12. QED
  BY <1>3, <1>4, <1>5, <1>6, <1>9, <1>11, EndsSlot DEF IntakeInv

\* Jobs that are there change, and no others come or go.
JobsMove ==
  /\ UNCHANGED <<events, orders, payments, lock, tx, acked>>
  /\ jobs' \in [Orders -> (JobStatuses \ {"CANCELLED"}) \cup {Null}]
  /\ \A o \in Orders : jobs'[o] = Null <=> jobs[o] = Null

LEMMA JobsMoveKeeps ==
  ASSUME TypeOK, IntakeInv, JobsMove
  PROVE  TypeOK' /\ IntakeInv'
<1>1. /\ UNCHANGED <<events, orders, payments, lock, tx, acked>>
      /\ \A o \in Orders : jobs'[o] # "CANCELLED" /\ (jobs'[o] = Null <=> jobs[o] = Null)
  BY NullAssumption DEF JobsMove, JobStatuses
<1>2. TypeOK'
  BY <1>1 DEF JobsMove, TypeOK
<1>3. ASSUME NEW u \in Slots PROVE SlotInv(u)'
  <2>1. KeptFor(u)
    BY <1>1 DEF KeptFor
  <2>2. QED
    BY <2>1, KeptSlot DEF IntakeInv
<1>4. \A o \in Orders : RowsOK(o)'
  BY <1>1 DEF IntakeInv, RowsOK
<1>5. (\A k \in EventKeys : EventOK(k)') /\ (\A wh \in acked' : AckedOK(wh)')
  BY <1>1 DEF IntakeInv, EventOK, AckedOK
<1>6. QED
  BY <1>2, <1>3, <1>4, <1>5 DEF IntakeInv

\* A single job.
LEMMA JobMovesMove ==
  ASSUME TypeOK, IntakeInv, NEW o \in Orders, NEW status \in JobStatuses \ {"CANCELLED"},
         JobMoves(o, status)
  PROVE  JobsMove
<1>1. jobs[o] # Null /\ status # Null /\ jobs' = [jobs EXCEPT ![o] = status]
  BY NullAssumption DEF JobMoves
<1>2. \A x \in Orders : jobs[x] # "CANCELLED"
  <2>1. ASSUME NEW x \in Orders PROVE jobs[x] # "CANCELLED"
    <3>1. RowsOK(x) /\ orders[x] \in OrderRows \cup {Null}
      BY DEF IntakeInv, TypeOK
    <3>2. "CANCELLED" # Null
      BY NullAssumption DEF JobStatuses
    <3>3. orders[x] # Null => orders[x].status \in {"PENDING", "PAID", "CANCELLED"}
      BY <3>1 DEF OrderRows
    <3>4. QED
      BY <3>1, <3>2, <3>3 DEF RowsOK
  <2>2. QED
    BY <2>1
<1>3. QED
  BY <1>1, <1>2 DEF JobMoves, JobsMove, TypeOK

\* Every step preserves the types and the invariant.
LEMMA StepKeeps ==
  TypeOK /\ IntakeInv /\ [Next]_vars => TypeOK' /\ IntakeInv'
<1> SUFFICES ASSUME TypeOK, IntakeInv, [Next]_vars PROVE TypeOK' /\ IntakeInv'
  OBVIOUS
<1>1. ASSUME NEW t \in Slots, NEW wh \in Webhooks, Receive(t, wh) PROVE TypeOK' /\ IntakeInv'
  BY <1>1, ReceiveKeeps
<1>2. ASSUME NEW t \in Slots, Statement(t) PROVE TypeOK' /\ IntakeInv'
  <2>1. CASE RecordNew(t) \/ RecordDuplicate(t) \/ DuplicatePayment(t)
    BY <2>1, RecordNewKeeps, RecordDuplicateKeeps, DuplicatePaymentKeeps
  <2>2. CASE FindNoPayment(t) \/ FindPayment(t) \/ FindNoOrder(t) \/ FindOrder(t)
    BY <2>2, FindPaymentKeeps, FindOrderKeeps
  <2>3. CASE PaymentFinalized(t) \/ UpsertPayment(t) \/ CancelPayment(t)
    BY <2>3, WriteKeeps
  <2>4. CASE CreateOrder(t) \/ OrderExists(t) \/ CompareOrder(t)
    BY <2>4, CreateOrderKeeps, OrderExistsKeeps, CompareOrderKeeps
  <2>5. CASE ReconcileNothing(t) \/ ReconcilePayment(t)
    BY <2>5, ReconcileKeeps
  <2>6. CASE Commit(t) \/ CommitLost(t)
    BY <2>6, InstallKeeps DEF Commit, CommitLost, Answered
  <2>7. CASE Rollback(t)
    <3>1. tx[t].answer \notin {"created", "ok", "awaiting"} /\ tx[t].answer \in Answers
      BY <2>7 DEF Rollback, IntakeInv, SlotInv, FlowOK, TypeOK, Transactions, Answers
    <3>2. StatusCode(tx[t].answer) \in {409, 500}
      BY <3>1 DEF StatusCode
    <3>3. UNCHANGED acked
      BY <2>7, <3>2 DEF Rollback, Answered
    <3>4. QED
      BY <2>7, <3>3, EndsKeeps DEF Rollback
  <2>8. QED
    BY <1>2, <2>1, <2>2, <2>3, <2>4, <2>5, <2>6, <2>7 DEF Statement
<1>3. ASSUME NEW t \in Slots, Abort(t) PROVE TypeOK' /\ IntakeInv'
  BY <1>3, EndsKeeps DEF Abort
<1>4. ASSUME NEW o \in Orders, NEW status \in JobStatuses \ {"CANCELLED"}, JobMoves(o, status)
      PROVE  TypeOK' /\ IntakeInv'
  BY <1>4, JobMovesMove, JobsMoveKeeps
<1>5. CASE UNCHANGED vars
  <2>1. UNCHANGED <<events, orders, payments, jobs, lock, tx, acked>>
    BY <1>5 DEF vars
  <2>2. ASSUME NEW u \in Slots PROVE SlotInv(u)'
    BY <2>1, KeptSlot DEF KeptFor, IntakeInv
  <2>3. QED
    BY <2>1, <2>2 DEF TypeOK, IntakeInv, RowsOK, EventOK, AckedOK
<1>6. QED
  BY <1>1, <1>2, <1>3, <1>4, <1>5 DEF Next

\* The empty tables.
LEMMA NothingTaken == Init => TypeOK /\ IntakeInv
<1>1. Init => TypeOK
  BY DEF Init, TypeOK, NoTransaction, NoWrites, Transactions, Writes
<1>2. Init => IntakeInv
  BY DEF Init, IntakeInv, NoTransaction, NoWrites, SlotInv, FlowOK, FoundOK, EventWriteOK,
    OrderWriteOK, PaymentWriteOK, BundleOK, OutcomeOK, RowsOK, EventOK, AckedOK
<1>3. QED
  BY <1>1, <1>2

\* The invariant holds in every state that is reached.
LEMMA IntakeSafe == Spec => [](TypeOK /\ IntakeInv)
BY NothingTaken, StepKeeps, PTL DEF Spec

-----------------------------------------------------------------------------
(* What the invariant says about the tables.                               *)

\* Tables, locks and transactions keep their shape for any requests: a
\* handler pays or cancels only an order whose row it has.
THEOREM TypeCorrect == Spec => []TypeOK
BY IntakeSafe, PTL

\* What RowsOK says, as GET /api/orders/{orderId} shows it.
LEMMA RowsConsistent == TypeOK /\ IntakeInv => PaidIffScheduled
<1> SUFFICES ASSUME TypeOK, IntakeInv, NEW o \in Orders
             PROVE  /\ FindStatus(o).status = "PAID" <=>
                         FindStatus(o).sync \notin {"NOT_SCHEDULED", "CANCELLED"}
                    /\ FindStatus(o).status = "PAID" =>
                         /\ FindStatus(o).payment = "COMPLETED"
                         /\ orders[o].paidAt # Null
                         /\ orders[o].paidAt = payments[o].paidAt
  BY DEF PaidIffScheduled
<1>1. RowsOK(o)
  BY DEF IntakeInv
<1>2. /\ orders[o] # Null => orders[o].status \in {"PENDING", "PAID", "CANCELLED"}
      /\ jobs[o] \in JobStatuses \cup {Null}
  BY DEF TypeOK, OrderRows
<1>3. FindStatus(o).status = "PAID" <=> orders[o] # Null /\ orders[o].status = "PAID"
  BY DEF FindStatus
<1>4. FindStatus(o).sync \notin {"NOT_SCHEDULED", "CANCELLED"} <=>
        jobs[o] \notin {Null, "CANCELLED"}
  BY <1>2 DEF FindStatus, JobStatuses
<1>5. orders[o] # Null /\ payments[o] # Null /\ payments[o].linked =>
        FindStatus(o).payment = payments[o].status
  BY DEF FindStatus
<1>6. QED
  BY <1>1, <1>2, <1>3, <1>4, <1>5 DEF RowsOK

\* The transactional outbox: at any moment an order is PAID exactly when it
\* has a job, and then by a completed payment that is linked to it.  The
\* argument is that MarkPaidAndSchedule runs under the locks of both rows,
\* so the order it marks is still pending and has no job.
THEOREM OutboxConsistent == Spec => []PaidIffScheduled
BY RowsConsistent, IntakeSafe, PTL

\* What RowsOK says about cancelled orders.
LEMMA RowsQuiet == TypeOK /\ IntakeInv => CancelledIsQuiet
<1>1. ASSUME TypeOK, IntakeInv, NEW o \in Orders, FindStatus(o).status = "CANCELLED"
      PROVE  FindStatus(o).payment = "CANCELLED" /\ jobs[o] = Null
  <2>1. RowsOK(o)
    BY <1>1 DEF IntakeInv
  <2>2. orders[o] # Null /\ orders[o].status = "CANCELLED"
    BY <1>1 DEF FindStatus
  <2>3. jobs[o] = Null /\ payments[o] # Null /\ payments[o].status = "CANCELLED"
        /\ payments[o].linked
    BY <2>1, <2>2 DEF RowsOK
  <2>4. QED
    BY <2>2, <2>3 DEF FindStatus
<1>2. ASSUME TypeOK, IntakeInv, NEW t \in Slots
      PROVE  tx[t].answer # "cannotCancel" /\ tx[t].w.job # "CANCELLED"
  <2>1. FlowOK(t) /\ BundleOK(t)
    BY <1>2 DEF IntakeInv, SlotInv
  <2>2. "CANCELLED" # Null
    BY NullAssumption DEF JobStatuses
  <2>3. QED
    BY <2>1, <2>2 DEF FlowOK, BundleOK
<1>3. QED
  BY <1>1, <1>2 DEF CancelledIsQuiet

\* A cancelled order never had a job, and Orders.Cancel never meets one, so
\* its refusal is never the answer: an order with a job is PAID, by a payment
\* that is terminal and cannot be cancelled any more.
THEOREM CancellationQuiet == Spec => []CancelledIsQuiet
BY RowsQuiet, IntakeSafe, PTL

\* The tables change at a commit only.
LEMMA StatementTables ==
  ASSUME NEW t \in Slots, Statement(t)
  PROVE  UNCHANGED Tables \/ (tx[t].pc = "commit" /\ Install(t))
<1>1. CASE Commit(t) \/ CommitLost(t)
  BY <1>1, Zenon DEF Commit, CommitLost
<1>2. CASE ~(Commit(t) \/ CommitLost(t))
  BY <1>2, Zenon DEF Statement, RecordNew, RecordDuplicate, DuplicatePayment, FindNoPayment,
    FindPayment, FindNoOrder, FindOrder, PaymentFinalized, UpsertPayment, CancelPayment,
    CreateOrder, OrderExists, CompareOrder, ReconcileNothing, ReconcilePayment, Rollback
<1>3. QED
  BY <1>1, <1>2

LEMMA RowsChangeAtCommit ==
  ASSUME TypeOK, IntakeInv, [Next]_vars
  PROVE  \/ UNCHANGED <<orders, payments>>
         \/ \E t \in Slots : tx[t].pc = "commit" /\ Install(t)
<1>1. ASSUME NEW t \in Slots, NEW wh \in Webhooks, Receive(t, wh)
      PROVE  UNCHANGED <<orders, payments>>
  BY <1>1 DEF Receive, Tables
<1>2. ASSUME NEW t \in Slots, Statement(t)
      PROVE  UNCHANGED <<orders, payments>> \/ (tx[t].pc = "commit" /\ Install(t))
  BY <1>2, StatementTables DEF Tables
<1>3. ASSUME NEW t \in Slots, Abort(t) PROVE UNCHANGED <<orders, payments>>
  BY <1>3 DEF Abort, Tables
<1>4. ASSUME NEW o \in Orders, NEW status \in JobStatuses \ {"CANCELLED"}, JobMoves(o, status)
      PROVE  UNCHANGED <<orders, payments>>
  BY <1>4 DEF JobMoves
<1>5. CASE UNCHANGED vars
  BY <1>5 DEF vars
<1>6. QED
  BY <1>1, <1>2, <1>3, <1>4, <1>5 DEF Next

\* A terminal payment keeps its status and its paid_at, whatever transactions
\* read it before it became terminal: a transaction that writes a payment
\* has held the row's lock since it last looked.
THEOREM TerminalKept == Spec => TerminalIsFinal
<1> DEFINE Kept(o) ==
      PaymentStatus(o) \in {"COMPLETED", "CANCELLED"} =>
        /\ PaymentStatus(o)' = PaymentStatus(o)
        /\ payments'[o].paidAt = payments[o].paidAt
<1>1. ASSUME TypeOK, IntakeInv, [Next]_vars, NEW o \in Orders PROVE Kept(o)
  <2>1. CASE UNCHANGED <<orders, payments>>
    BY <2>1 DEF PaymentStatus
  <2>2. ASSUME NEW t \in Slots, tx[t].pc = "commit", Install(t),
               PaymentStatus(o) \in {"COMPLETED", "CANCELLED"}
        PROVE  /\ PaymentStatus(o)' = PaymentStatus(o)
               /\ payments'[o].paidAt = payments[o].paidAt
    <3>1. payments[o] # Null /\ IsTerminal(payments[o].status)
      BY <2>2 DEF PaymentStatus, IsTerminal
    <3>2. /\ payments'[o] # Null
          /\ payments'[o].status = payments[o].status
          /\ payments'[o].paidAt = payments[o].paidAt
      BY <1>1, <2>2, <3>1, InstallMonotone
    <3>3. QED
      BY <3>1, <3>2 DEF PaymentStatus
  <2>3. QED
    BY <1>1, <2>1, <2>2, RowsChangeAtCommit
<1>2. TypeOK /\ IntakeInv /\ [Next]_vars => [\A o \in Orders : Kept(o)]_vars
  BY <1>1
<1>3. QED
  BY <1>2, IntakeSafe, PTL DEF Spec, TerminalIsFinal

\* An order keeps its content, and paid or cancelled it stays so: it is
\* written only over a pending order with the same content, and whoever
\* writes it holds its lock.
THEOREM OrdersKept == Spec => OrderNeverReverts
<1> DEFINE Kept(o) ==
      orders[o] # Null =>
        /\ orders'[o] # Null
        /\ orders'[o].email = orders[o].email
        /\ orders'[o].items = orders[o].items
        /\ orders[o].status # "PENDING" => orders'[o].status = orders[o].status
<1>1. ASSUME TypeOK, IntakeInv, [Next]_vars, NEW o \in Orders PROVE Kept(o)
  <2>1. CASE UNCHANGED <<orders, payments>>
    BY <2>1
  <2>2. ASSUME NEW t \in Slots, tx[t].pc = "commit", Install(t) PROVE Kept(o)
    BY <1>1, <2>2, InstallMonotone
  <2>3. QED
    BY <1>1, <2>1, <2>2, RowsChangeAtCommit
<1>2. TypeOK /\ IntakeInv /\ [Next]_vars => [\A o \in Orders : Kept(o)]_vars
  BY <1>1
<1>3. QED
  BY <1>2, IntakeSafe, PTL DEF Spec, OrderNeverReverts

-----------------------------------------------------------------------------
(* Deadlocks.                                                              *)

\* A transaction holds keys of its own webhook, none before it has recorded
\* the event; the shop webhook locks its order before its payment.
HoldsOK(k, t) ==
  lock[k] = t =>
    /\ tx[t].pc \notin {"idle", "record"}
    /\ \/ k = Key(tx[t].wh)
       \/ /\ k = OrderKey(tx[t].wh)
          /\ tx[t].wh.type = "SHOP" => tx[t].pc \in {"reconcile", "commit", "failed"}
       \/ /\ k = PaymentKey(tx[t].wh)
          /\ tx[t].wh.type = "SHOP" => tx[t].pc \in {"commit", "failed"}

LocksInv == \A k \in LockKeys, t \in Slots : HoldsOK(k, t)

\* The transaction t moves on to pc with the same webhook.
MovesTo(t, pc) ==
  /\ tx'[t].pc = pc
  /\ tx'[t].wh = tx[t].wh
  /\ \A u \in Slots \ {t} : tx'[u] = tx[u]

LEMMA MovesByStep ==
  ASSUME tx \in [Slots -> Transactions], NEW t \in Slots
  PROVE  /\ \A pc \in Pcs : Goes(t, pc) => MovesTo(t, pc)
         /\ \A answer \in Answers : Fails(t, answer) => MovesTo(t, "failed")
<1>1. ASSUME NEW pc \in Pcs, Goes(t, pc) PROVE MovesTo(t, pc)
  BY <1>1, GoesBecomes DEF Becomes, MovesTo
<1>2. ASSUME NEW answer \in Answers, Fails(t, answer) PROVE MovesTo(t, "failed")
  BY <1>2, FailsBecomes DEF Becomes, MovesTo
<1>3. QED
  BY <1>1, <1>2

LEMMA MovesToCommit ==
  ASSUME tx \in [Slots -> Transactions], NEW t \in Slots, NEW answer, NEW w,
         Finishes(t, answer, w)
  PROVE  MovesTo(t, "commit")
BY DEF Finishes, MovesTo, Transactions

\* Where the statements of a handler lead.
Advances(t) ==
  /\ Runs(t)
  /\ tx[t].pc \notin {"idle", "commit", "failed"}
  /\ \E pc \in Pcs \ {"idle", "record"} :
       /\ MovesTo(t, pc)
       /\ tx[t].pc = "record" => pc # "failed"
       /\ tx[t].pc = "create" =>
            pc = IF orders[tx[t].wh.order] = Null THEN "reconcile" ELSE "compare"
       /\ tx[t].pc \in {"compare", "reconcile"} => pc \in {"commit", "failed"}

\* A step advances a handler, ends one, starts one or moves a job.
LEMMA StatementAdvances ==
  ASSUME TypeOK, NEW t \in Slots, Statement(t)
  PROVE  Advances(t) \/ Ends(t)
<1>1. tx \in [Slots -> Transactions]
  BY DEF TypeOK
<1>2. {"conflict", "error", "finalized", "digital", "cannotCancel"} \subseteq Answers
  BY DEF Answers
<1>3. CASE RecordNew(t)
  <2>1. MovesTo(t, IF tx[t].wh.type = "SHOP" THEN "create" ELSE "findPayment")
    BY <1>1, <1>3 DEF RecordNew, MovesTo, Transactions
  <2>2. QED
    BY <1>3, <2>1 DEF RecordNew, Advances, Pcs
<1>4. CASE RecordDuplicate(t)
  <2>1. MovesTo(t, IF tx[t].wh.type = "SHOP" THEN "compare" ELSE "duplicatePayment")
    BY <1>1, <1>4, MovesByStep DEF RecordDuplicate, Pcs
  <2>2. QED
    BY <1>4, <2>1 DEF RecordDuplicate, Advances, Pcs
<1>5. CASE DuplicatePayment(t)
  <2>1. MovesTo(t, "failed") \/ MovesTo(t, "commit")
    BY <1>1, <1>2, <1>5, MovesByStep, MovesToCommit DEF DuplicatePayment
  <2>2. QED
    BY <1>5, <2>1 DEF DuplicatePayment, Advances, Pcs
<1>6. CASE FindNoPayment(t)
  <2>1. MovesTo(t, "findOrder")
    BY <1>1, <1>6, MovesByStep DEF FindNoPayment, Pcs
  <2>2. QED
    BY <1>6, <2>1 DEF FindNoPayment, Advances, Pcs
<1>7. CASE FindPayment(t)
  <2>1. MovesTo(t, "failed") \/ MovesTo(t, "commit") \/ MovesTo(t, "findOrder")
    BY <1>1, <1>2, <1>7, MovesByStep, MovesToCommit DEF FindPayment, Pcs
  <2>2. QED
    BY <1>7, <2>1 DEF FindPayment, Advances, Pcs
<1>8. CASE FindNoOrder(t)
  <2>1. MovesTo(t, "write")
    BY <1>1, <1>8 DEF FindNoOrder, MovesTo, Transactions
  <2>2. QED
    BY <1>8, <2>1 DEF FindNoOrder, Advances, Pcs
<1>9. CASE FindOrder(t)
  <2>1. tx' = [tx EXCEPT ![t].pc = "write", ![t].found = TRUE] => MovesTo(t, "write")
    BY <1>1 DEF MovesTo, Transactions
  <2>2. MovesTo(t, "failed") \/ MovesTo(t, "write")
    BY <1>1, <1>2, <1>9, <2>1, MovesByStep DEF FindOrder
  <2>3. QED
    BY <1>9, <2>2 DEF FindOrder, Advances, Pcs
<1>10. CASE PaymentFinalized(t)
  <2>1. MovesTo(t, "failed")
    BY <1>1, <1>2, <1>10, MovesByStep DEF PaymentFinalized
  <2>2. QED
    BY <1>10, <2>1 DEF PaymentFinalized, Advances, Pcs
<1>11. CASE UpsertPayment(t)
  <2>1. MovesTo(t, "commit")
    BY <1>1, <1>11, MovesToCommit DEF UpsertPayment
  <2>2. QED
    BY <1>11, <2>1 DEF UpsertPayment, Advances, Pcs
<1>12. CASE CancelPayment(t)
  <2>1. MovesTo(t, "failed") \/ MovesTo(t, "commit")
    BY <1>1, <1>2, <1>12, MovesByStep, MovesToCommit DEF CancelPayment
  <2>2. QED
    BY <1>12, <2>1 DEF CancelPayment, Advances, Pcs
<1>13. CASE CreateOrder(t)
  <2>1. MovesTo(t, "reconcile")
    BY <1>1, <1>13 DEF CreateOrder, MovesTo, Transactions
  <2>2. QED
    BY <1>13, <2>1 DEF CreateOrder, Advances, Pcs
<1>14. CASE OrderExists(t)
  <2>1. MovesTo(t, "compare")
    BY <1>1, <1>14, MovesByStep DEF OrderExists, Pcs
  <2>2. QED
    BY <1>14, <2>1 DEF OrderExists, Advances, Pcs
<1>15. CASE CompareOrder(t)
  <2>1. MovesTo(t, "failed") \/ MovesTo(t, "commit")
    BY <1>1, <1>2, <1>15, MovesByStep, MovesToCommit DEF CompareOrder
  <2>2. QED
    BY <1>15, <2>1 DEF CompareOrder, Advances, Pcs
<1>16. CASE ReconcileNothing(t)
  <2>1. MovesTo(t, "commit")
    BY <1>1, <1>16, MovesToCommit, Zenon DEF ReconcileNothing
  <2>2. QED
    BY <1>16, <2>1 DEF ReconcileNothing, Advances, Pcs
<1>17. CASE ReconcilePayment(t)
  <2>1. MovesTo(t, "failed") \/ MovesTo(t, "commit")
    BY <1>1, <1>2, <1>17, MovesByStep, MovesToCommit DEF ReconcilePayment
  <2>2. QED
    BY <1>17, <2>1, Zenon DEF ReconcilePayment, Advances, Pcs
<1>18. CASE Commit(t) \/ CommitLost(t) \/ Rollback(t)
  BY <1>18, Zenon DEF Commit, CommitLost, Rollback
<1>19. QED
  BY <1>3, <1>4, <1>5, <1>6, <1>7, <1>8, <1>9, <1>10, <1>11, <1>12, <1>13, <1>14, <1>15,
    <1>16, <1>17, <1>18 DEF Statement

\* Which statements want a row, and which one.
LEMMA WantsRow ==
  ASSUME NEW t \in Slots, tx[t].wh \in Webhooks, Wants(t) # Null
  PROVE  /\ tx[t].pc \notin {"idle", "commit", "failed"}
         /\ tx[t].pc = "record" => Wants(t) = Key(tx[t].wh)
         /\ tx[t].pc # "record" => Wants(t) \in {OrderKey(tx[t].wh), PaymentKey(tx[t].wh)}
         /\ Wants(t) = OrderKey(tx[t].wh) =>
              \/ tx[t].pc = "create" /\ orders[tx[t].wh.order] = Null
              \/ tx[t].pc \in {"findOrder", "compare"} /\ orders[tx[t].wh.order] # Null
         /\ Wants(t) = PaymentKey(tx[t].wh) =>
              tx[t].pc \in {"duplicatePayment", "findPayment", "reconcile", "write"}
BY WebhookKeys DEF Wants

\* A step keeps what the invariant says about locks.
LEMMA AdvancesLocks ==
  ASSUME TypeOK, IntakeInv, LocksInv, NEW t \in Slots, Advances(t)
  PROVE  LocksInv'
<1> DEFINE wh == tx[t].wh
<1>1. wh \in Webhooks
  BY OpenHasWebhook DEF IntakeInv, Advances
<1>2. FlowOK(t)
  BY DEF IntakeInv, SlotInv
<1>3. PICK pc \in Pcs \ {"idle", "record"} :
        /\ MovesTo(t, pc)
        /\ tx[t].pc = "create" =>
             pc = IF orders[wh.order] = Null THEN "reconcile" ELSE "compare"
        /\ tx[t].pc \in {"compare", "reconcile"} => pc \in {"commit", "failed"}
  BY DEF Advances
<1>4. \A k \in LockKeys : lock'[k] # lock[k] => k = Wants(t) /\ lock'[k] = t
  BY <1>1, RunsLocks DEF Advances, TypeOK
<1>5. ASSUME NEW k \in LockKeys, NEW u \in Slots, u # t PROVE HoldsOK(k, u)'
  BY <1>3, <1>4, <1>5 DEF LocksInv, HoldsOK, MovesTo
<1>6. ASSUME NEW k \in LockKeys PROVE HoldsOK(k, t)'
  <2>1. SUFFICES ASSUME lock'[k] = t
                 PROVE  \/ k = Key(wh)
                        \/ k = OrderKey(wh)
                           /\ (wh.type = "SHOP" => pc \in {"reconcile", "commit", "failed"})
                        \/ k = PaymentKey(wh)
                           /\ (wh.type = "SHOP" => pc \in {"commit", "failed"})
    BY <1>3 DEF HoldsOK, MovesTo
  <2>2. CASE lock[k] = t
    BY <1>2, <1>3, <2>2 DEF LocksInv, HoldsOK, Advances
  <2>3. CASE lock[k] # t
    <3>1. k = Wants(t) /\ Wants(t) # Null
      BY <1>1, <1>4, <2>1, <2>3, WebhookKeys
    <3>2. tx[t].pc = "record" => k = Key(wh)
      BY <1>1, <3>1, WantsRow
    <3>3. CASE tx[t].pc # "record" /\ k = OrderKey(wh)
      BY <1>1, <1>2, <1>3, <3>1, <3>3, WantsRow DEF FlowOK
    <3>4. CASE tx[t].pc # "record" /\ k = PaymentKey(wh)
      BY <1>1, <1>2, <1>3, <3>1, <3>4, WantsRow DEF FlowOK
    <3>5. QED
      BY <1>1, <3>1, <3>2, <3>3, <3>4, WantsRow
  <2>4. QED
    BY <2>2, <2>3
<1>7. QED
  BY <1>5, <1>6 DEF LocksInv

\* Transactions that end hold nothing any more.
LEMMA ReleasedLocksInv ==
  ASSUME LocksInv, NEW S \in SUBSET Slots, \A u \in Slots \ S : tx'[u] = tx[u],
         lock' = [k \in LockKeys |-> IF lock[k] \in S THEN Null ELSE lock[k]]
  PROVE  LocksInv'
<1>1. \A k \in LockKeys, u \in Slots : lock'[k] = u => u \notin S /\ lock[k] = u
  BY WebhooksAssumption
<1>2. QED
  BY <1>1 DEF LocksInv, HoldsOK

LEMMA StepLocks ==
  TypeOK /\ IntakeInv /\ LocksInv /\ [Next]_vars => LocksInv'
<1> SUFFICES ASSUME TypeOK, IntakeInv, LocksInv, [Next]_vars PROVE LocksInv'
  OBVIOUS
<1>1. ASSUME NEW t \in Slots, Ends(t) PROVE LocksInv'
  <2>1. lock' = [k \in LockKeys |-> IF lock[k] \in {t} THEN Null ELSE lock[k]]
    BY <1>1 DEF Ends, Released
  <2>2. \A u \in Slots \ {t} : tx'[u] = tx[u]
    BY <1>1 DEF Ends, TypeOK
  <2>3. QED
    BY <2>1, <2>2, ReleasedLocksInv
<1>2. ASSUME NEW t \in Slots, NEW wh \in Webhooks, Receive(t, wh) PROVE LocksInv'
  <2>1. lock' = lock /\ \A u \in Slots \ {t} : tx'[u] = tx[u]
    BY <1>2 DEF Receive, TypeOK
  <2>2. \A k \in LockKeys : lock[k] # t
    BY <1>2 DEF Receive, LocksInv, HoldsOK
  <2>3. QED
    BY <2>1, <2>2 DEF LocksInv, HoldsOK
<1>3. ASSUME NEW t \in Slots, Statement(t) PROVE LocksInv'
  BY <1>1, <1>3, StatementAdvances, AdvancesLocks
<1>4. ASSUME NEW t \in Slots, Abort(t) PROVE LocksInv'
  BY <1>1, <1>4 DEF Abort
<1>5. ASSUME NEW o \in Orders, NEW status, JobMoves(o, status) PROVE LocksInv'
  BY <1>5 DEF JobMoves, LocksInv, HoldsOK
<1>6. CASE UNCHANGED vars
  BY <1>6 DEF vars, LocksInv, HoldsOK
<1>7. QED
  BY <1>2, <1>3, <1>4, <1>5, <1>6 DEF Next

LEMMA NothingLocked == Init => LocksInv
BY WebhooksAssumption DEF Init, LocksInv, HoldsOK

LEMMA LocksSafe == Spec => []LocksInv
BY NothingLocked, StepLocks, IntakeSafe, PTL DEF Spec

LEMMA CirclesArePayments == TypeOK /\ IntakeInv /\ LocksInv => OnlyPaymentsDeadlock
<1>1. ASSUME TypeOK, IntakeInv, LocksInv,
             NEW circle \in SUBSET Slots, Deadlocked(circle), NEW shop \in circle,
             tx[shop].wh.type # "PAYMENT"
      PROVE  FALSE
  <2>1. ASSUME NEW u \in circle
        PROVE  /\ u \in Slots /\ SlotInv(u) /\ tx[u].wh \in Webhooks
               /\ Wants(u) # Null /\ Wants(u) \in LockKeys /\ lock[Wants(u)] \in circle
    <3>1. Blocked(u) /\ Holder(u) \in circle /\ u \in Slots /\ SlotInv(u)
      BY <1>1, <2>1 DEF Deadlocked, IntakeInv
    <3>2. Wants(u) # Null /\ lock[Wants(u)] \in circle
      BY <3>1 DEF Blocked, Holder
    <3>3. tx[u].pc # "idle"
      BY <3>2 DEF Wants
    <3>4. tx[u].wh \in Webhooks
      BY <3>1, <3>3, OpenHasWebhook
    <3>5. QED
      BY <3>1, <3>2, <3>4, WantsKey, WebhookKeys
  <2>2. \A u \in circle : \E v \in circle : lock[Wants(v)] = u
    <3>1. \A u \in circle : Holder(u) = lock[Wants(u)]
      BY <2>1 DEF Holder
    <3>2. QED
      BY <1>1, <3>1 DEF Deadlocked
  <2>3. ASSUME NEW u \in circle
        PROVE  Wants(u) \in {OrderKey(tx[u].wh), PaymentKey(tx[u].wh)}
    <3>1. PICK v \in circle : lock[Wants(v)] = u
      BY <2>2
    <3>2. tx[u].pc # "record"
      BY <1>1, <2>1, <3>1 DEF LocksInv, HoldsOK
    <3>3. QED
      BY <2>1, <3>2, WantsRow
  <2>4. ASSUME NEW u \in circle, NEW v \in circle, lock[Wants(v)] = u,
               tx[u].wh.type # "PAYMENT"
        PROVE  Wants(v) = OrderKey(tx[u].wh) /\ tx[u].pc = "reconcile"
    <3>1. tx[u].wh.type = "SHOP" /\ Key(tx[u].wh) \in EventKeys
      BY <2>1, <2>4, WebhookShape
    <3>2. Wants(v) # Key(tx[u].wh)
      BY <2>3, <3>1 DEF OrderKey, PaymentKey, Key
    <3>3. tx[u].pc \notin {"commit", "failed"}
      BY <2>1, WantsRow
    <3>4. QED
      BY <1>1, <2>1, <2>4, <3>1, <3>2, <3>3 DEF LocksInv, HoldsOK
  <2>5. PICK v \in circle : lock[Wants(v)] = shop
    BY <2>2
  <2>6. Wants(v) = OrderKey(tx[shop].wh) /\ tx[shop].pc = "reconcile"
    BY <1>1, <2>4, <2>5
  <2>7. orders[tx[shop].wh.order] = Null
    <3>1. tx[shop].w.order = NewOrder(tx[shop].wh) /\ tx[shop].wh.type = "SHOP"
      BY <2>1, <2>6 DEF SlotInv, FlowOK
    <3>2. NewOrder(tx[shop].wh) \in OrderRows /\ NewOrder(tx[shop].wh).status = "PENDING"
      BY <2>1, <3>1, NewOrderTyped
    <3>3. QED
      BY <2>1, <3>1, <3>2, NullAssumption DEF SlotInv, OrderWriteOK
  <2>8. Wants(v) = OrderKey(tx[v].wh) /\ tx[v].wh.order = tx[shop].wh.order
    BY <2>3, <2>6 DEF OrderKey, PaymentKey
  <2>9. tx[v].pc = "create" /\ tx[v].wh.type # "PAYMENT"
    <3>1. tx[v].pc = "create"
      BY <2>1, <2>7, <2>8, WantsRow
    <3>2. QED
      BY <2>1, <3>1 DEF SlotInv, FlowOK
  <2>10. PICK z \in circle : lock[Wants(z)] = v
    BY <2>2
  <2>11. QED
    BY <2>4, <2>9, <2>10
<1>2. QED
  BY <1>1 DEF OnlyPaymentsDeadlock

\* No shop webhook is part of a deadlock, for any number of open
\* transactions.  Everybody in a circle waits for an order or a payment.
\* Whoever waits for a shop webhook waits for the order that it has created
\* and not committed, and only another shop webhook waits for such a row; but
\* that one has nothing yet that anybody in the circle waits for.
THEOREM ShopNeverDeadlocks == Spec => []OnlyPaymentsDeadlock
BY CirclesArePayments, IntakeSafe, LocksSafe, PTL

-----------------------------------------------------------------------------
(* Requests that were answered with a 2xx.                                 *)

\* A list that matches what is stored has prices in whole cents itself.
LEMMA MatchedIsWhole ==
  ASSUME NEW items \in Seq(Items), WholeCents(items),
         NEW incoming \in Seq(Items), ToBag(items) = ToBag(incoming)
  PROVE  WholeCents(incoming)
<1>1. Range(items) = Range(incoming)
  <2>1. \A s : DOMAIN ToBag(s) = Range(s)
    BY DEF ToBag
  <2>2. QED
    BY <2>1
<1>2. ASSUME NEW i \in DOMAIN incoming
      PROVE  [incoming[i] EXCEPT !.price = StoredPrice(incoming[i].price)] = incoming[i]
  <2>1. PICK j \in DOMAIN items : incoming[i] = items[j]
    BY <1>1 DEF Range
  <2>2. StoredItems(items)[j] = [items[j] EXCEPT !.price = StoredPrice(items[j].price)]
    BY DEF StoredItems
  <2>3. QED
    BY <2>1, <2>2 DEF WholeCents
<1>3. StoredItems(incoming) = [i \in DOMAIN incoming |-> incoming[i]]
  BY <1>2 DEF StoredItems
<1>4. incoming = [i \in DOMAIN incoming |-> incoming[i]]
  BY LenProperties, SeqDef
<1>5. QED
  BY <1>3, <1>4 DEF WholeCents

\* The stored order holds the items of a shop webhook that took effect.
LEMMA ShopEffectBags ==
  ASSUME NEW wh \in Webhooks, wh.type = "SHOP",
         NEW order \in OrderRows, WholeCents(order.items), ShopEffect(wh, order)
  PROVE  /\ ToBag(order.items) = ToBag(StoredItems(wh.body.items))
         /\ WholeCents(wh.body.items) => ToBag(order.items) = ToBag(wh.body.items)
<1>1. order.items \in Seq(Items) /\ wh.body.items \in Seq(Items)
  BY WebhookShape DEF OrderRows, Payloads
<1>2. CASE order.items = StoredItems(wh.body.items)
  BY <1>2 DEF WholeCents
<1>3. CASE order.items # StoredItems(wh.body.items)
  <2>1. PICK listed \in Listings(order.items) : Matches(listed, wh.body.items)
    BY <1>3 DEF ShopEffect
  <2>2. ToBag(order.items) = ToBag(wh.body.items)
    BY <1>1, <2>1, MatchesBags DEF MatchesAsBags
  <2>3. WholeCents(wh.body.items)
    BY <1>1, <2>2, MatchedIsWhole
  <2>4. QED
    BY <2>2, <2>3 DEF WholeCents
<1>4. QED
  BY <1>2, <1>3

LEMMA AckedHolds == TypeOK /\ IntakeInv => AckedTookEffect
<1>1. ASSUME TypeOK, IntakeInv, NEW wh \in acked
      PROVE  /\ events[Key(wh)] # Null
             /\ events[Key(wh)].processed
             /\ wh.type = "SHOP" =>
                  /\ orders[wh.order] # Null
                  /\ orders[wh.order].email = wh.body.email
                  /\ ToBag(orders[wh.order].items) = ToBag(StoredItems(wh.body.items))
             /\ wh.type = "PAYMENT" =>
                  /\ events[Key(wh)].wh = wh
                  /\ payments[wh.order] # Null
                  /\ wh.body \in {"COMPLETED", "CANCELLED"} => payments[wh.order].status = wh.body
  <2>1. wh \in Webhooks /\ AckedOK(wh) /\ EventOK(Key(wh)) /\ RowsOK(wh.order)
    BY <1>1, WebhookShape DEF TypeOK, IntakeInv
  <2>2. events[Key(wh)] # Null /\ events[Key(wh)].processed
    BY <2>1 DEF AckedOK, EventOK
  <2>3. ASSUME wh.type = "SHOP"
        PROVE  /\ orders[wh.order] # Null
               /\ orders[wh.order].email = wh.body.email
               /\ ToBag(orders[wh.order].items) = ToBag(StoredItems(wh.body.items))
    <3>1. /\ ShopEffect(wh, orders[wh.order])
          /\ orders[wh.order] # Null
          /\ orders[wh.order].email = wh.body.email
      BY <2>1, <2>3 DEF AckedOK, ShopEffect
    <3>2. orders[wh.order] \in OrderRows /\ WholeCents(orders[wh.order].items)
      BY <1>1, <2>1, <3>1, WebhookShape DEF TypeOK, RowsOK
    <3>3. QED
      BY <2>1, <2>3, <3>1, <3>2, ShopEffectBags
  <2>4. ASSUME wh.type = "PAYMENT"
        PROVE  /\ events[Key(wh)].wh = wh
               /\ payments[wh.order] # Null
               /\ wh.body \in {"COMPLETED", "CANCELLED"} => payments[wh.order].status = wh.body
    BY <2>1, <2>2, <2>4 DEF AckedOK, EventOK, PaymentEffect, IsTerminal
  <2>5. QED
    BY <2>2, <2>3, <2>4
<1>2. QED
  BY <1>1 DEF AckedTookEffect

\* A request that was answered with a 2xx has taken effect for good: a
\* transaction is answered after its commit, what it commits is the effect,
\* and no later transaction writes over it.
THEOREM AckedEffective == Spec => []AckedTookEffect
BY AckedHolds, IntakeSafe, PTL

\* Only one statement runs at these places.
LEMMA StatementAt ==
  ASSUME NEW t \in Slots, Statement(t)
  PROVE  /\ tx[t].pc = "duplicatePayment" => DuplicatePayment(t)
         /\ tx[t].pc = "compare" => CompareOrder(t)
<1>1. RecordNew(t) \/ RecordDuplicate(t) => tx[t].pc = "record"
  BY DEF RecordNew, RecordDuplicate
<1>2. FindNoPayment(t) \/ FindPayment(t) => tx[t].pc = "findPayment"
  BY DEF FindNoPayment, FindPayment
<1>3. FindNoOrder(t) \/ FindOrder(t) => tx[t].pc = "findOrder"
  BY DEF FindNoOrder, FindOrder
<1>4. PaymentFinalized(t) \/ UpsertPayment(t) \/ CancelPayment(t) => tx[t].pc = "write"
  BY DEF PaymentFinalized, UpsertPayment, CancelPayment
<1>5. CreateOrder(t) \/ OrderExists(t) => tx[t].pc = "create"
  BY Zenon DEF CreateOrder, OrderExists
<1>6. ReconcileNothing(t) \/ ReconcilePayment(t) => tx[t].pc = "reconcile"
  BY Zenon DEF ReconcileNothing, ReconcilePayment
<1>7. Commit(t) \/ CommitLost(t) => tx[t].pc = "commit"
  BY DEF Commit, CommitLost
<1>8. Rollback(t) => tx[t].pc = "failed"
  BY DEF Rollback
<1>9. DuplicatePayment(t) => tx[t].pc = "duplicatePayment"
  BY DEF DuplicatePayment
<1>10. CompareOrder(t) => tx[t].pc = "compare"
  BY DEF CompareOrder
<1>11. QED
  BY <1>1, <1>2, <1>3, <1>4, <1>5, <1>6, <1>7, <1>8, <1>9, <1>10 DEF Statement

\* The handler of a request that was answered with a 2xx before does not
\* fail: its event is stored, so that it takes the path of a duplicate, and
\* what it compares itself with is its own effect.
LEMMA RetryKeepsGoing ==
  ASSUME \A wh \in Webhooks : wh.type = "SHOP" => WholeCents(wh.body.items),
         TypeOK, IntakeInv, NEW t \in Slots, Statement(t),
         tx[t].pc # "failed", tx[t].wh \in acked
  PROVE  tx'[t].pc # "failed"
<1> DEFINE wh == tx[t].wh
           o == orders[wh.order]
<1>1. tx \in [Slots -> Transactions] /\ SlotInv(t) /\ AckedOK(wh) /\ wh \in Webhooks
  BY DEF TypeOK, IntakeInv
<1>2. events[Key(wh)] # Null /\ EventOK(Key(wh)) /\ RowsOK(wh.order)
  BY <1>1, WebhookShape DEF AckedOK, IntakeInv
<1>3. tx[t].w.event = Null
  BY <1>1, <1>2 DEF SlotInv, EventWriteOK
<1>4. tx[t].pc \in {"idle", "record", "duplicatePayment", "compare", "commit"}
  BY <1>1, <1>3 DEF SlotInv, OutcomeOK, Transactions
<1>5. CASE tx[t].pc = "duplicatePayment"
  <2>1. DuplicatePayment(t) /\ wh.type = "PAYMENT"
    BY <1>1, <1>5, StatementAt DEF SlotInv, FlowOK
  <2>2. events[Key(wh)].wh = wh /\ payments[wh.order] # Null
    BY <1>1, <1>2, <2>1 DEF AckedOK, EventOK, PaymentEffect
  <2>3. Finishes(t, "ok", tx[t].w)
    BY <2>1, <2>2 DEF DuplicatePayment
  <2>4. QED
    BY <1>1, <2>3, MovesToCommit DEF MovesTo
<1>6. CASE tx[t].pc = "compare"
  <2>1. CompareOrder(t) /\ wh.type = "SHOP"
    BY <1>1, <1>6, StatementAt DEF SlotInv, FlowOK
  <2>2. ShopEffect(wh, o) /\ o # Null /\ o.email = wh.body.email
    BY <1>1, <2>1 DEF AckedOK, ShopEffect
  <2>3. o \in OrderRows /\ WholeCents(o.items) /\ WholeCents(wh.body.items)
    BY <1>1, <1>2, <2>1, <2>2, WebhookShape DEF TypeOK, RowsOK
  <2>4. ToBag(o.items) = ToBag(wh.body.items)
    BY <1>1, <2>1, <2>2, <2>3, ShopEffectBags
  <2>5. o.items \in Seq(Items) /\ wh.body.items \in Seq(Items)
    BY <1>1, <2>1, <2>3, WebhookShape DEF OrderRows, Payloads
  <2>6. \A listed \in Listings(o.items) : SameOrderPayload(o, listed, wh.body)
    BY <2>2, <2>4, <2>5, MatchesBags DEF MatchesAsBags, SameOrderPayload
  <2>7. Finishes(t, "ok", Processed(tx[t].w))
    BY <2>1, <2>2, <2>6 DEF CompareOrder
  <2>8. QED
    BY <1>1, <2>7, MovesToCommit DEF MovesTo
<1>7. CASE tx[t].pc \in {"idle", "record", "commit"}
  <2>1. CASE Ends(t)
    BY <1>1, <2>1 DEF Ends, NoTransaction
  <2>2. CASE Advances(t)
    BY <1>7, <2>2 DEF Advances, MovesTo
  <2>3. QED
    BY <2>1, <2>2, StatementAdvances
<1>8. QED
  BY <1>4, <1>5, <1>6, <1>7

\* A request that was answered with a 2xx is not refused when it comes again,
\* whatever came in between, if shop prices are whole cents: without that
\* hypothesis run rounding shows a refusal, because the order was stored with
\* a rounded price.
THEOREM RetriesAccepted ==
  ASSUME \A wh \in Webhooks : wh.type = "SHOP" => WholeCents(wh.body.items)
  PROVE  Spec => RetryNotRefused
<1> DEFINE Kept(t) == tx[t].pc # "failed" /\ tx'[t].pc = "failed" => tx[t].wh \notin acked
<1>1. ASSUME TypeOK, IntakeInv, [Next]_vars, NEW t \in Slots PROVE Kept(t)
  <2> SUFFICES ASSUME tx[t].pc # "failed", tx[t].wh \in acked PROVE tx'[t].pc # "failed"
    OBVIOUS
  <2>1. ASSUME NEW u \in Slots, Ends(u) PROVE tx'[t].pc # "failed"
    BY <1>1, <2>1 DEF Ends, NoTransaction, TypeOK
  <2>2. ASSUME NEW u \in Slots, NEW wh \in Webhooks, Receive(u, wh) PROVE tx'[t].pc # "failed"
    BY <1>1, <2>2 DEF Receive, NoTransaction, TypeOK
  <2>3. ASSUME NEW u \in Slots, Statement(u) PROVE tx'[t].pc # "failed"
    <3>1. CASE u = t
      BY <1>1, <2>3, <3>1, RetryKeepsGoing
    <3>2. CASE u # t /\ Advances(u)
      BY <3>2 DEF Advances, MovesTo
    <3>3. QED
      BY <1>1, <2>1, <2>3, <3>1, <3>2, StatementAdvances
  <2>4. ASSUME NEW u \in Slots, Abort(u) PROVE tx'[t].pc # "failed"
    BY <2>1, <2>4 DEF Abort
  <2>5. ASSUME NEW o \in Orders, NEW status, JobMoves(o, status) PROVE tx'[t].pc # "failed"
    BY <2>5 DEF JobMoves
  <2>6. CASE UNCHANGED vars
    BY <2>6 DEF vars
  <2>7. QED
    BY <1>1, <2>2, <2>3, <2>4, <2>5, <2>6 DEF Next
<1>2. TypeOK /\ IntakeInv /\ [Next]_vars => [\A t \in Slots : Kept(t)]_vars
  BY <1>1
<1>3. QED
  BY <1>2, IntakeSafe, PTL DEF Spec, RetryNotRefused

-----------------------------------------------------------------------------
(* One webhook of an order at a time.                                      *)

OneAtATime ==
  \A s, t \in Slots :
    tx[s].pc # "idle" /\ tx[t].pc # "idle" /\ tx[s].wh.order = tx[t].wh.order => s = t

\* What Reconciled says about an order, its payment and its job.
Agree(order, payment, status) ==
  order # Null /\ payment # Null =>
    /\ payment.linked
    /\ payment.status = "COMPLETED" => order.status = "PAID" /\ status # Null
    /\ payment.status = "CANCELLED" => order.status = "CANCELLED"

\* What a handler has read is still so, and what it commits is reconciled.
SlotAgrees(t) ==
  /\ tx[t].pc = "write" /\ ~tx[t].found => orders[tx[t].wh.order] = Null
  /\ tx[t].pc = "commit" =>
       Agree(Installed(tx[t].w.order, orders[tx[t].wh.order]),
             Installed(tx[t].w.payment, payments[tx[t].wh.order]),
             Installed(tx[t].w.job, jobs[tx[t].wh.order]))

AgreeInv ==
  /\ \A o \in Orders : Agree(orders[o], payments[o], jobs[o])
  /\ \A t \in Slots : SlotAgrees(t)

\* What a handler that finishes writes.
LEMMA FinishesWrites ==
  ASSUME tx \in [Slots -> Transactions], NEW t \in Slots, NEW answer, NEW w,
         Finishes(t, answer, w)
  PROVE  tx'[t].w = w /\ tx'[t].found = tx[t].found
BY DEF Finishes, Transactions

\* A handler that is about to commit writes neither order nor payment, or
\* has just upserted the payment, or has just reconciled its own order.
LEMMA AboutToCommit ==
  ASSUME TypeOK, IntakeInv, NEW t \in Slots, Statement(t), tx'[t].pc = "commit"
  PROVE  /\ tx'[t].found = tx[t].found
         /\ \/ tx'[t].w.order = Null /\ tx'[t].w.payment = Null
            \/ tx[t].pc = "write" /\ tx'[t].w.payment # Null
            \/ tx[t].pc = "reconcile" /\ (payments[tx[t].wh.order] # Null => tx'[t].w.payment # Null)
<1> DEFINE wh == tx[t].wh
           o == wh.order
           pw == Processed(tx[t].w)
<1>1. tx \in [Slots -> Transactions] /\ SlotInv(t)
  BY DEF TypeOK, IntakeInv
<1>2. {"conflict", "error", "finalized", "digital", "cannotCancel"} \subseteq Answers
  BY DEF Answers
<1>3. /\ tx[t].w \in Writes /\ pw \in Writes
      /\ pw.order = tx[t].w.order /\ pw.payment = tx[t].w.payment
  BY <1>1, ProcessedFields DEF Transactions
<1> HIDE DEF pw
<1>4. ~(RecordNew(t) \/ RecordDuplicate(t) \/ CreateOrder(t) \/ OrderExists(t))
  <2>1. ~RecordNew(t)
    BY <1>1 DEF RecordNew, Transactions
  <2>2. ~RecordDuplicate(t)
    BY <1>1 DEF RecordDuplicate, Goes, Transactions
  <2>3. ~CreateOrder(t)
    BY <1>1 DEF CreateOrder, Transactions
  <2>4. ~OrderExists(t)
    BY <1>1 DEF OrderExists, Goes, Transactions
  <2>5. QED
    BY <2>1, <2>2, <2>3, <2>4
<1>5. ~(FindNoPayment(t) \/ FindNoOrder(t) \/ FindOrder(t) \/ PaymentFinalized(t))
  <2>1. ~FindNoPayment(t)
    BY <1>1 DEF FindNoPayment, Goes, Transactions
  <2>2. ~FindNoOrder(t)
    BY <1>1 DEF FindNoOrder, Transactions
  <2>3. ~FindOrder(t)
    BY <1>1 DEF FindOrder, Fails, Transactions
  <2>4. ~PaymentFinalized(t)
    BY <1>1 DEF PaymentFinalized, Fails, Transactions
  <2>5. QED
    BY <2>1, <2>2, <2>3, <2>4
<1>6. ~(Commit(t) \/ CommitLost(t) \/ Rollback(t))
  <2>1. Ends(t) => tx'[t].pc = "idle"
    BY <1>1 DEF Ends, NoTransaction
  <2>2. QED
    BY <2>1, Zenon DEF Commit, CommitLost, Rollback
<1>7. \A answer \in Answers : ~Fails(t, answer)
  BY <1>1, MovesByStep DEF MovesTo
<1>8. CASE DuplicatePayment(t)
  <2>1. Finishes(t, "ok", tx[t].w) /\ tx[t].pc = "duplicatePayment"
    BY <1>2, <1>7, <1>8 DEF DuplicatePayment
  <2>2. QED
    BY <1>1, <2>1, FinishesWrites DEF SlotInv, FlowOK
<1>9. CASE FindPayment(t)
  <2>1. ~Goes(t, "findOrder")
    BY <1>1 DEF Goes, Transactions
  <2>2. Finishes(t, "ok", pw) /\ tx[t].pc = "findPayment"
    BY <1>2, <1>7, <1>9, <2>1 DEF FindPayment, pw
  <2>3. QED
    BY <1>1, <1>3, <2>2, FinishesWrites DEF SlotInv, FlowOK
<1>10. CASE CompareOrder(t)
  <2>1. Finishes(t, "ok", pw) /\ tx[t].pc = "compare"
    BY <1>2, <1>7, <1>10 DEF CompareOrder, pw
  <2>2. QED
    BY <1>1, <1>3, <2>1, FinishesWrites DEF SlotInv, FlowOK
<1>11. CASE UpsertPayment(t) \/ CancelPayment(t)
  <2> DEFINE p == UpsertedPayment(payments[o], wh, tx[t].found)
             w == [pw EXCEPT !.payment = p]
             wCancelled == [w EXCEPT !.order = [orders[o] EXCEPT !.status = "CANCELLED"],
                                     !.job   = CancelledJob(o)]
  <2>1. tx[t].pc = "write"
    BY <1>11 DEF UpsertPayment, CancelPayment
  <2>2. wh \in Webhooks /\ wh.type = "PAYMENT" /\ tx[t].found \in BOOLEAN
    BY <1>1, <2>1, OpenHasWebhook DEF SlotInv, FlowOK, Transactions
  <2>3. p # Null
    BY <2>2, UpsertedPaymentRow, WebhookShape DEF TypeOK
  <2>4. \E answer : Finishes(t, answer, w) \/ Finishes(t, answer, CompletePayment(w, o))
                    \/ Finishes(t, answer, wCancelled)
    BY <1>2, <1>7, <1>11 DEF UpsertPayment, CancelPayment, pw
  <2> HIDE DEF p
  <2>5. w.payment = p /\ CompletePayment(w, o).payment = p /\ wCancelled.payment = p
    BY <1>3 DEF CompletePayment, MarkPaidAndSchedule, Writes
  <2> HIDE DEF w, wCancelled
  <2>6. QED
    BY <1>1, <2>1, <2>3, <2>4, <2>5, FinishesWrites
<1>12. CASE ReconcileNothing(t)
  <2>1. Finishes(t, "created", pw) /\ tx[t].pc = "reconcile" /\ payments[o] = Null
    BY <1>12 DEF ReconcileNothing, pw
  <2>2. QED
    BY <1>1, <2>1, FinishesWrites
<1>13. CASE ReconcilePayment(t)
  <2> DEFINE p == payments[o]
             q == [p EXCEPT !.linked = TRUE]
             w == [pw EXCEPT !.payment = q]
             wCancelled == [w EXCEPT !.order.status = "CANCELLED", !.job = CancelledJob(o),
                                     !.marks = TRUE]
             wPaid == [MarkPaidAndSchedule(w, w.order, o, p.paidAt) EXCEPT !.marks = TRUE]
  <2>1. tx[t].pc = "reconcile" /\ p # Null
    BY <1>13, Zenon DEF ReconcilePayment
  <2>2. p \in PaymentRows
    BY <1>1, <2>1, OpenHasWebhook, WebhookShape DEF TypeOK
  <2>3. q \in PaymentRows
    BY <2>2 DEF PaymentRows
  <2>4. q # Null
    BY <2>3, NullAssumption
  <2>5. \/ Finishes(t, "created", w)
        \/ Finishes(t, "created", wPaid)
        \/ Finishes(t, "created", wCancelled)
    <3>1. ~Fails(t, "error")
      BY <1>2, <1>7
    <3>2. QED
      BY <1>13, <3>1, Zenon DEF ReconcilePayment, pw
  <2> HIDE DEF q
  <2>6. w.payment = q /\ wPaid.payment = q /\ wCancelled.payment = q
    BY <1>3 DEF MarkPaidAndSchedule, Writes
  <2> HIDE DEF w, wPaid, wCancelled
  <2>7. QED
    BY <1>1, <2>1, <2>4, <2>5, <2>6, FinishesWrites
<1>14. QED
  BY <1>4, <1>5, <1>6, <1>8, <1>9, <1>10, <1>11, <1>12, <1>13 DEF Statement
\* A handler that is about to upsert has looked for the order.
LEMMA AboutToWrite ==
  ASSUME TypeOK, IntakeInv, NEW t \in Slots, Statement(t), tx'[t].pc = "write"
  PROVE  tx'[t].found \/ orders[tx[t].wh.order] = Null
<1>1. tx \in [Slots -> Transactions] /\ SlotInv(t)
  BY DEF TypeOK, IntakeInv
<1>2. CASE FindNoOrder(t)
  BY <1>2 DEF FindNoOrder
<1>3. CASE FindOrder(t)
  <2>1. ~Fails(t, "digital")
    BY <1>1, MovesByStep DEF MovesTo, Answers
  <2>2. tx' = [tx EXCEPT ![t].pc = "write", ![t].found = TRUE]
    BY <1>3, <2>1 DEF FindOrder
  <2>3. QED
    BY <1>1, <2>2 DEF Transactions
<1>4. ~(RecordNew(t) \/ RecordDuplicate(t) \/ CreateOrder(t) \/ OrderExists(t) \/ FindNoPayment(t))
  <2>1. ~RecordNew(t)
    BY <1>1 DEF RecordNew, Transactions
  <2>2. ~RecordDuplicate(t)
    BY <1>1 DEF RecordDuplicate, Goes, Transactions
  <2>3. ~CreateOrder(t)
    BY <1>1 DEF CreateOrder, Transactions
  <2>4. ~OrderExists(t)
    BY <1>1 DEF OrderExists, Goes, Transactions
  <2>5. ~FindNoPayment(t)
    BY <1>1 DEF FindNoPayment, Goes, Transactions
  <2>6. QED
    BY <2>1, <2>2, <2>3, <2>4, <2>5
<1>5. {"conflict", "error", "finalized", "digital", "cannotCancel"} \subseteq Answers
  BY DEF Answers
<1>6. /\ \A answer \in Answers : ~Fails(t, answer)
      /\ \A answer, w : ~Finishes(t, answer, w)
      /\ ~Goes(t, "findOrder")
  BY <1>1, MovesByStep, MovesToCommit DEF MovesTo, Pcs
<1>7. ~(DuplicatePayment(t) \/ FindPayment(t) \/ PaymentFinalized(t) \/ CompareOrder(t))
  BY <1>5, <1>6 DEF DuplicatePayment, FindPayment, PaymentFinalized, CompareOrder
<1>8. ~(UpsertPayment(t) \/ CancelPayment(t))
  BY <1>5, <1>6 DEF UpsertPayment, CancelPayment
<1>9. ~(ReconcileNothing(t) \/ ReconcilePayment(t))
  BY <1>5, <1>6, Zenon DEF ReconcileNothing, ReconcilePayment
<1>10. ~(Commit(t) \/ CommitLost(t) \/ Rollback(t))
  <2>1. Ends(t) => tx'[t].pc = "idle"
    BY <1>1 DEF Ends, NoTransaction
  <2>2. QED
    BY <2>1, Zenon DEF Commit, CommitLost, Rollback
<1>11. QED
  BY <1>2, <1>3, <1>4, <1>7, <1>8, <1>9, <1>10 DEF Statement

\* Transactions that the step does not touch, while the rows stay.
LEMMA AgreementKept ==
  ASSUME IntakeInv, AgreeInv, NEW S \in SUBSET Slots,
         UNCHANGED <<orders, payments>>,
         \A o \in Orders : jobs'[o] = Null <=> jobs[o] = Null,
         \A u \in Slots \ S : tx'[u] = tx[u],
         \A t \in S : SlotAgrees(t)'
  PROVE  AgreeInv'
<1>1. \A o \in Orders : Agree(orders[o], payments[o], jobs[o])'
  BY DEF AgreeInv, Agree
<1>2. ASSUME NEW u \in Slots \ S PROVE SlotAgrees(u)'
  <2>1. CASE tx[u].pc \notin {"write", "commit"}
    BY <2>1 DEF SlotAgrees
  <2>2. CASE tx[u].pc \in {"write", "commit"}
    <3> DEFINE o == tx[u].wh.order
    <3>1. o \in Orders
      BY <2>2, OpenHasWebhook, WebhookShape DEF IntakeInv
    <3>2. Installed(tx[u].w.job, jobs'[o]) = Null <=> Installed(tx[u].w.job, jobs[o]) = Null
      BY <3>1 DEF Installed
    <3>3. QED
      BY <2>2, <3>2 DEF AgreeInv, SlotAgrees, Agree
  <2>3. QED
    BY <2>1, <2>2
<1>3. QED
  BY <1>1, <1>2 DEF AgreeInv

\* A statement before the commit.
LEMMA StatementAgrees ==
  ASSUME TypeOK, IntakeInv, TypeOK', IntakeInv', AgreeInv, NEW t \in Slots, Statement(t),
         Advances(t)
  PROVE  AgreeInv'
<1> DEFINE o == tx[t].wh.order
           w == tx'[t].w
<1>1. PICK pc \in Pcs : MovesTo(t, pc)
  BY DEF Advances
<1>2. UNCHANGED <<orders, payments, jobs>> /\ tx[t].pc \notin {"idle", "commit", "failed"}
  BY StatementTables DEF Advances, Tables
<1>3. o \in Orders /\ tx'[t].wh = tx[t].wh
  BY <1>1, <1>2, OpenHasWebhook, WebhookShape DEF IntakeInv, MovesTo
<1>4. tx'[t].pc = "write" => tx'[t].found \/ orders[o] = Null
  BY AboutToWrite
<1>5. ASSUME tx'[t].pc = "commit"
      PROVE  Agree(Installed(w.order, orders[o]), Installed(w.payment, payments[o]),
                   Installed(w.job, jobs[o]))
  <2>1. /\ tx'[t].found = tx[t].found
        /\ \/ w.order = Null /\ w.payment = Null
           \/ tx[t].pc = "write" /\ w.payment # Null
           \/ tx[t].pc = "reconcile" /\ (payments[o] # Null => w.payment # Null)
    BY <1>5, AboutToCommit
  <2>2. Agree(orders[o], payments[o], jobs[o]) /\ SlotAgrees(t) /\ SlotInv(t)
    BY <1>3 DEF AgreeInv, IntakeInv
  <2>3. BundleOK(t)' /\ OutcomeOK(t)'
    BY DEF IntakeInv, SlotInv
  <2>4. /\ w.job # Null => w.order # Null
        /\ w.order # Null /\ w.order.status = "PAID" => w.job # Null
        /\ w.payment # Null /\ (tx[t].found \/ w.order # Null) =>
             /\ w.payment.linked
             /\ w.payment.status = "COMPLETED" => w.order # Null /\ w.order.status = "PAID"
             /\ w.payment.status = "CANCELLED" => w.order # Null /\ w.order.status = "CANCELLED"
    BY <2>1, <2>3 DEF BundleOK
  <2>5. CASE w.order = Null /\ w.payment = Null
    BY <2>2, <2>4, <2>5 DEF Installed
  <2>6. CASE w.payment # Null /\ (tx[t].found \/ w.order # Null)
    BY <2>4, <2>6 DEF Installed, Agree
  <2>7. CASE tx[t].pc = "write" /\ ~tx[t].found /\ w.order = Null
    BY <2>2, <2>7 DEF SlotAgrees, Installed, Agree
  <2>8. CASE tx[t].pc = "reconcile" /\ w.payment = Null /\ payments[o] = Null
    BY <2>8 DEF Installed, Agree
  <2>9. CASE tx[t].pc = "reconcile" /\ w.order = Null
    <3>1. tx[t].wh.type = "SHOP" /\ tx[t].w.order = NewOrder(tx[t].wh) /\ tx[t].wh \in Webhooks
      BY <1>2, <2>2, <2>9, OpenHasWebhook DEF SlotInv, FlowOK
    <3>2. orders[o] = Null
      BY <2>2, <3>1, NewOrderTyped, NullAssumption DEF SlotInv, OrderWriteOK
    <3>3. QED
      BY <2>9, <3>2 DEF Installed, Agree
  <2>10. QED
    BY <2>1, <2>5, <2>6, <2>7, <2>8, <2>9
<1>6. SlotAgrees(t)'
  BY <1>2, <1>3, <1>4, <1>5 DEF SlotAgrees
<1>7. \A u \in Slots \ {t} : tx'[u] = tx[u]
  BY <1>1 DEF MovesTo
<1>8. (\A x \in {t} : SlotAgrees(x)') /\ \A x \in Orders : jobs'[x] = Null <=> jobs[x] = Null
  BY <1>2, <1>6
<1>9. UNCHANGED <<orders, payments>> /\ {t} \in SUBSET Slots
  BY <1>2
<1>10. QED
  BY <1>7, <1>8, <1>9, AgreementKept

\* The commit: nobody else works on the order.
LEMMA InstallAgrees ==
  ASSUME TypeOK, IntakeInv, OneAtATime, AgreeInv, NEW t \in Slots, tx[t].pc = "commit",
         Install(t), Ends(t)
  PROVE  AgreeInv'
<1> DEFINE o == tx[t].wh.order
<1>1. tx[t].wh \in Webhooks /\ o \in Orders /\ SlotAgrees(t)
  BY OpenHasWebhook, WebhookShape DEF IntakeInv, AgreeInv
<1>2. /\ \A x \in Orders \ {o} :
           orders'[x] = orders[x] /\ payments'[x] = payments[x] /\ jobs'[x] = jobs[x]
      /\ orders'[o] = Installed(tx[t].w.order, orders[o])
      /\ payments'[o] = Installed(tx[t].w.payment, payments[o])
      /\ jobs'[o] = Installed(tx[t].w.job, jobs[o])
  BY <1>1, InstallRows
<1>3. \A x \in Orders : Agree(orders[x], payments[x], jobs[x])'
  BY <1>1, <1>2 DEF AgreeInv, SlotAgrees, Agree
<1>4. tx'[t].pc = "idle" /\ \A u \in Slots \ {t} : tx'[u] = tx[u]
  BY DEF Ends, TypeOK, NoTransaction
<1>5. ASSUME NEW u \in Slots \ {t} PROVE SlotAgrees(u)'
  <2>1. CASE tx[u].pc = "idle"
    BY <1>4, <2>1 DEF SlotAgrees
  <2>2. CASE tx[u].pc # "idle"
    <3>1. tx[u].wh.order \in Orders \ {o}
      BY <2>2, OpenHasWebhook, WebhookShape DEF IntakeInv, OneAtATime
    <3>2. QED
      BY <1>2, <1>4, <3>1 DEF AgreeInv, SlotAgrees
  <2>3. QED
    BY <2>1, <2>2
<1>6. SlotAgrees(t)'
  BY <1>4 DEF SlotAgrees
<1>7. QED
  BY <1>3, <1>5, <1>6 DEF AgreeInv
LEMMA DroppedAgrees ==
  ASSUME IntakeInv, AgreeInv, NEW S \in SUBSET Slots, Dropped(S)
  PROVE  AgreeInv'
<1>1. UNCHANGED <<orders, payments, jobs>>
  BY DEF Dropped, Tables
<1>2. \A u \in Slots \ S : tx'[u] = tx[u]
  BY DEF Dropped
<1>3. \A t \in S : tx'[t].pc = "idle"
  BY DEF Dropped, NoTransaction
<1>4. \A t \in S : SlotAgrees(t)'
  BY <1>3 DEF SlotAgrees
<1>5. UNCHANGED <<orders, payments>> /\ \A o \in Orders : jobs'[o] = Null <=> jobs[o] = Null
  BY <1>1
<1>6. QED
  BY <1>2, <1>4, <1>5, AgreementKept

LEMMA JobsMoveAgrees ==
  ASSUME IntakeInv, AgreeInv, JobsMove
  PROVE  AgreeInv'
<1>1. /\ UNCHANGED <<orders, payments>>
      /\ \A o \in Orders : jobs'[o] = Null <=> jobs[o] = Null
      /\ \A u \in Slots \ {} : tx'[u] = tx[u]
  BY DEF JobsMove
<1>2. {} \in SUBSET Slots /\ \A t \in {} : SlotAgrees(t)'
  OBVIOUS
<1>3. QED
  BY <1>1, <1>2, AgreementKept

LEMMA StepAgrees ==
  ASSUME TypeOK, IntakeInv, OneAtATime, AgreeInv, [Next]_vars
  PROVE  AgreeInv'
<1>1. TypeOK' /\ IntakeInv'
  BY StepKeeps
<1>2. ASSUME NEW t \in Slots, Ends(t), UNCHANGED Tables PROVE AgreeInv'
  <2>1. /\ UNCHANGED <<orders, payments>>
        /\ \A o \in Orders : jobs'[o] = Null <=> jobs[o] = Null
    BY <1>2 DEF Tables
  <2>2. tx'[t].pc = "idle" /\ \A u \in Slots \ {t} : tx'[u] = tx[u]
    BY <1>2 DEF Ends, TypeOK, NoTransaction
  <2>3. {t} \in SUBSET Slots /\ \A x \in {t} : SlotAgrees(x)'
    BY <2>2 DEF SlotAgrees
  <2>4. QED
    BY <2>1, <2>2, <2>3, AgreementKept
<1>3. ASSUME NEW t \in Slots, NEW wh \in Webhooks, Receive(t, wh) PROVE AgreeInv'
  <2>1. /\ UNCHANGED <<orders, payments>>
        /\ \A o \in Orders : jobs'[o] = Null <=> jobs[o] = Null
    BY <1>3 DEF Receive, Tables
  <2>2. tx'[t].pc = "record" /\ \A u \in Slots \ {t} : tx'[u] = tx[u]
    BY <1>3 DEF Receive, TypeOK, NoTransaction
  <2>3. {t} \in SUBSET Slots /\ \A x \in {t} : SlotAgrees(x)'
    BY <2>2 DEF SlotAgrees
  <2>4. QED
    BY <2>1, <2>2, <2>3, AgreementKept
<1>4. ASSUME NEW t \in Slots, Statement(t) PROVE AgreeInv'
  <2>1. CASE Advances(t)
    BY <1>1, <1>4, <2>1, StatementAgrees
  <2>2. CASE Ends(t)
    BY <1>2, <1>4, <2>2, StatementTables, InstallAgrees
  <2>3. QED
    BY <1>4, <2>1, <2>2, StatementAdvances
<1>5. ASSUME NEW t \in Slots, Abort(t) PROVE AgreeInv'
  BY <1>2, <1>5 DEF Abort, Tables
<1>6. ASSUME NEW o \in Orders, NEW status \in JobStatuses \ {"CANCELLED"}, JobMoves(o, status)
      PROVE  AgreeInv'
  BY <1>6, JobMovesMove, JobsMoveAgrees
<1>7. CASE UNCHANGED vars
  BY <1>7 DEF vars, AgreeInv, Agree, SlotAgrees
<1>8. QED
  BY <1>3, <1>4, <1>5, <1>6, <1>7 DEF Next

LEMMA NothingToAgree == Init => AgreeInv
BY DEF Init, AgreeInv, Agree, SlotAgrees, NoTransaction

LEMMA AgreementReconciles == AgreeInv => Reconciled
BY DEF AgreeInv, Agree, Reconciled

\* "A completed payment triggers PAID and scheduling exactly once"
\* (docs/domain.md) is true of orders whose webhooks come one at a time,
\* however many other transactions are open: when an order and its payment
\* are stored, they are reconciled.  Run skew shows that it is not true
\* of webhooks of one order that overlap: the handler's look for the other
\* row is what the hypothesis keeps up to date until the commit.
THEOREM SerialReconciled == Spec /\ []OneAtATime => []Reconciled
<1>1. TypeOK /\ IntakeInv /\ OneAtATime /\ AgreeInv /\ [Next]_vars => AgreeInv'
  BY StepAgrees
<1>2. QED
  BY <1>1, NothingToAgree, AgreementReconciles, IntakeSafe, PTL DEF Spec

-----------------------------------------------------------------------------
(* Steps of a service that runs the intake (module OrderSync): the workers *)
(* move jobs, and a process that dies takes several transactions with it.  *)

ServiceStep ==
  \/ [Next]_vars
  \/ JobsMove
  \/ \E S \in SUBSET Slots : Dropped(S)

LEMMA ServiceKeeps ==
  TypeOK /\ IntakeInv /\ LocksInv /\ ServiceStep => TypeOK' /\ IntakeInv' /\ LocksInv'
<1> SUFFICES ASSUME TypeOK, IntakeInv, LocksInv, ServiceStep
             PROVE  TypeOK' /\ IntakeInv' /\ LocksInv'
  OBVIOUS
<1>1. CASE [Next]_vars
  BY <1>1, StepKeeps, StepLocks
<1>2. CASE JobsMove
  <2>1. LocksInv'
    BY <1>2 DEF JobsMove, LocksInv, HoldsOK
  <2>2. QED
    BY <1>2, <2>1, JobsMoveKeeps
<1>3. ASSUME NEW S \in SUBSET Slots, Dropped(S) PROVE TypeOK' /\ IntakeInv' /\ LocksInv'
  <2>1. \A u \in Slots \ S : tx'[u] = tx[u]
    BY <1>3 DEF Dropped
  <2>2. LocksInv'
    BY <1>3, <2>1, ReleasedLocksInv DEF Dropped
  <2>3. QED
    BY <1>3, <2>2, DroppedKeeps
<1>4. QED
  BY <1>1, <1>2, <1>3 DEF ServiceStep

LEMMA ServiceAgrees ==
  TypeOK /\ IntakeInv /\ OneAtATime /\ AgreeInv /\ ServiceStep => AgreeInv'
BY StepAgrees, JobsMoveAgrees, DroppedAgrees DEF ServiceStep

\* An order that is stored keeps its items.
LEMMA ServiceKeepsItems ==
  ASSUME TypeOK, IntakeInv, ServiceStep, NEW o \in Orders, orders[o] # Null
  PROVE  orders'[o] # Null /\ orders'[o].items = orders[o].items
<1>1. CASE UNCHANGED <<orders, payments>>
  BY <1>1
<1>2. ASSUME NEW t \in Slots, tx[t].pc = "commit", Install(t)
      PROVE  orders'[o] # Null /\ orders'[o].items = orders[o].items
  BY <1>2, InstallMonotone
<1>3. \/ UNCHANGED <<orders, payments>>
      \/ \E t \in Slots : tx[t].pc = "commit" /\ Install(t)
  BY RowsChangeAtCommit DEF ServiceStep, JobsMove, Dropped, Tables
<1>4. QED
  BY <1>1, <1>2, <1>3

\* A transaction begins with its request only.
LEMMA IdleStays ==
  ASSUME TypeOK, NEW t \in Slots, Statement(t) \/ Abort(t), NEW u \in Slots,
         tx[u].pc = "idle"
  PROVE  tx'[u].pc = "idle"
<1>1. CASE Ends(t)
  BY <1>1 DEF Ends, TypeOK, NoTransaction
<1>2. CASE Advances(t)
  BY <1>2 DEF Advances, MovesTo
<1>3. QED
  BY <1>1, <1>2, StatementAdvances DEF Abort
=============================================================================
