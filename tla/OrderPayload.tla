---------------------------- MODULE OrderPayload ----------------------------
(***************************************************************************)
(* The content of a shop order: what order_items stores of it, when a      *)
(* repeated order is the same order (sameOrderPayload in                   *)
(* internal/shop/service.go), and whether an order is hardware (itemSKUs   *)
(* and MarkPaidAndSchedule in internal/orders/service.go, the SKU          *)
(* classifier, cancelPayment in internal/payment/service.go).              *)
(*                                                                         *)
(* A price is a number of Fractions of the cent, so that the rounding of   *)
(* the column NUMERIC(12, 2) is visible.                                   *)
(***************************************************************************)
EXTENDS Naturals, SequencesExt

CONSTANTS
  Emails,     \* customer emails
  SKUs,       \* stock keeping units
  Catalog,    \* the SKUs that sku_classifications calls HARDWARE
  Fractions,  \* the parts of a cent a price in a request may have
  Null        \* SQL's NULL, and a nil isHardware

ASSUME CatalogAssumption == Catalog \subseteq SKUs
ASSUME FractionsAssumption == Fractions \in Nat \ {0}

Items == [sku : SKUs, quantity : Nat \ {0}, price : Nat, hardware : {TRUE, FALSE, Null}]
Payloads == [email : Emails, items : Seq(Items) \ {<<>>}]

-----------------------------------------------------------------------------
(* order_items.  A definition whose name starts with Faulty is its         *)
(* successor with a bug somebody could write; nothing uses it.             *)

\* NUMERIC(12, 2) rounds to whole cents, halves up.
StoredPrice(price) == Fractions * ((2 * price + Fractions) \div (2 * Fractions))

\* AddItems
StoredItems(items) ==
  [i \in DOMAIN items |-> [items[i] EXCEPT !.price = StoredPrice(items[i].price)]]

\* ListItems has no ORDER BY: the rows come back in any order.
Listings(items) ==
  {[i \in DOMAIN items |-> items[p[i]]] : p \in Bijection(DOMAIN items, DOMAIN items)}

-----------------------------------------------------------------------------
(* sameOrderPayload                                                        *)

SameHardwareOverride(left, right) == left = right

SameItem(item, incoming) ==
  /\ item.sku = incoming.sku
  /\ item.quantity = incoming.quantity
  /\ item.price = incoming.price
  /\ SameHardwareOverride(item.hardware, incoming.hardware)

\* The positions of incoming that item may still be matched with.
Unmatched(item, incoming, matched) ==
  {i \in DOMAIN incoming \ matched : SameItem(item, incoming[i])}

\* The first n rounds of the outer loop: each listed row takes the first
\* position that no row before it has taken.
Rounds(taken, listed, incoming, n) ==
  \A i \in 1..n :
    LET free == Unmatched(listed[i], incoming, {taken[k] : k \in 1..(i - 1)}) IN
    free # {} /\ taken[i] = Min(free)

\* The loop finds a position for every row.
Matches(listed, incoming) ==
  /\ Len(listed) = Len(incoming)
  /\ \E taken \in [DOMAIN listed -> DOMAIN incoming] :
       Rounds(taken, listed, incoming, Len(listed))

\* A position may be matched more than once.
FaultySameReused(existing, listed, payload) ==
  /\ existing.email = payload.email
  /\ Len(listed) = Len(payload.items)
  /\ \A i \in DOMAIN listed : Unmatched(listed[i], payload.items, {}) # {}

\* Items are compared position by position.
FaultySameInOrder(existing, listed, payload) ==
  /\ existing.email = payload.email
  /\ Len(listed) = Len(payload.items)
  /\ \A i \in DOMAIN listed : SameItem(listed[i], payload.items[i])

\* existing is an order row whose items ListItems returned as listed.
SameOrderPayload(existing, listed, payload) ==
  existing.email = payload.email /\ Matches(listed, payload.items)

\* What it decides over the lists in S, in whatever order the rows come back:
\* whether they are the same items, counted with their repetitions.
MatchesAsBags(S) ==
  \A items, incoming \in S : \A listed \in Listings(items) :
    Matches(listed, incoming) <=> ToBag(items) = ToBag(incoming)

-----------------------------------------------------------------------------
(* Hardware                                                                *)

\* itemSKUs, paymentItemSKUs: the SKUs of the items without an override.
ItemSKUs(items) == {items[i].sku : i \in {k \in DOMAIN items : items[k].hardware = Null}}

\* SKUClassifier.HasHardware
InCatalog(skus) == skus \cap Catalog # {}

\* The test in MarkPaidAndSchedule, and the one in cancelPayment.
HasHardware(items) ==
  InCatalog(ItemSKUs(items)) \/ \E i \in DOMAIN items : items[i].hardware = TRUE
=============================================================================
