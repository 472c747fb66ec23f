---------------------------- MODULE MCDeliveries ----------------------------
(* Instances of Deliveries: two stores, one order and one webhook each. *)
EXTENDS Deliveries

CONSTANTS h1, h2, o1, o2

TwoHooks == {h1, h2}
TwoOrders == {o1, o2}
TwoStores == [x \in TwoHooks \cup TwoOrders |-> IF x \in {h1, o1} THEN 1 ELSE 2]
=============================================================================
