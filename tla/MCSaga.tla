------------------------------- MODULE MCSaga --------------------------------
(* The instance of OrderSaga for TLC: two orders compete for the last units. *)
EXTENDS OrderSaga

Shelf == [book |-> 3]
Carts == {[sku |-> "book", quantity |-> 2, declined |-> d] : d \in BOOLEAN}
           \cup {[sku |-> "book", quantity |-> 1, declined |-> TRUE]}
==============================================================================
