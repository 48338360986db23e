----------------------------- MODULE MCWebhooks -----------------------------
(* Instances of Webhooks for TLC: which requests a run may receive.        *)
EXTENDS Webhooks

CONSTANTS e1, e2, e3, o1, ann, lock1, hosting, t1, t2

\* A price of one unit of the smallest fraction above two cents.
Uneven == 2 * Fractions + 1

Item(sku, price, hardware) ==
  [sku |-> sku, quantity |-> 1, price |-> price, hardware |-> hardware]

Order(items) == [email |-> ann, items |-> items]

\* A digital item, the same one forced to be hardware, and one the catalog
\* calls hardware, plain or with a false override.
Plain == Item(hosting, Fractions, Null)
Forced == Item(hosting, Fractions, TRUE)
Lock == Item(lock1, Fractions, Null)
Denied == Item(lock1, Fractions, FALSE)

Shop(id, items) ==
  [type |-> "SHOP", id |-> id, order |-> o1, body |-> Order(items), stamp |-> Null]
Payment(id, status, stamp) ==
  [type |-> "PAYMENT", id |-> id, order |-> o1, body |-> status, stamp |-> stamp]

\* An order, the same order with its items in another order under another id,
\* one with an item repeated instead, and every kind of payment event, one id
\* reused with another timestamp.
Mixed ==
  {Shop(e1, <<Forced, Plain>>), Shop(e2, <<Plain, Forced>>), Shop(e1, <<Plain, Plain>>),
   Payment(e1, "PENDING", 1), Payment(e2, "COMPLETED", 1), Payment(e2, "COMPLETED", 2),
   Payment(e3, "CANCELLED", 1)}

\* What one order usually sees.
Usual == {Shop(e1, <<Lock>>), Payment(e1, "PENDING", 1), Payment(e2, "COMPLETED", 1)}

DigitalCancelled == {Shop(e1, <<Plain>>), Payment(e1, "CANCELLED", 1)}

CatalogCancelled == {Shop(e1, <<Denied>>), Payment(e1, "CANCELLED", 1)}

UnevenPrice == {Shop(e1, <<Item(hosting, Uneven, Null)>>)}

SlotSymmetry == Permutations(Slots)

\* What sameOrderPayload decides, for all lists of up to three of these items.
ASSUME MatchingAssumption == MatchesAsBags(SeqOf({Plain, Forced, Lock, Denied}, 3))
=============================================================================
