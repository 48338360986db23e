---------------------------- MODULE MCOrderSync -----------------------------
(* An instance of OrderSync for TLC: one process that serves one webhook at *)
(* a time, and one order.                                                   *)
EXTENDS OrderSync

CONSTANTS e1, e2, o1, ann, lock1, t1, p1

Shop ==
  [type |-> "SHOP", id |-> e1, order |-> o1, stamp |-> Null,
   body |-> [email |-> ann,
             items |-> <<[sku |-> lock1, quantity |-> 1, price |-> 1, hardware |-> Null]>>]]

Payment(id, status) ==
  [type |-> "PAYMENT", id |-> id, order |-> o1, body |-> status, stamp |-> 1]

HardwareOrder == {Shop, Payment(e1, "COMPLETED"), Payment(e2, "CANCELLED")}

OneHome == [t \in Slots |-> p1]

AllFaults == {"crash", "stop", "dbfail", "ackloss", "replay"}
=============================================================================
