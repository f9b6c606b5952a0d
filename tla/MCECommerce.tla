----------------------------- MODULE MCECommerce ------------------------------
(* Instances of ECommerceOrders for TLC. *)
EXTENDS ECommerceOrders, TLC

CONSTANTS o1, o2

Line(s, q) == [sku |-> s, quantity |-> q]
Shelf == [book |-> 2, pen |-> 2]

\* Two orders whose lines take the products in opposite order and together
\* exceed the stock, one to be declined and one that takes all of a product.
Carts == (o1 :> [items |-> <<Line("pen", 1), Line("book", 1)>>, declined |-> TRUE]) @@
         (o2 :> [items |-> <<Line("book", 2), Line("pen", 1)>>, declined |-> FALSE])
===============================================================================
