--------------------------- MODULE ECommerceOrders ----------------------------
(***************************************************************************)
(* examples/e-commerce-orders: the orders, inventory and billing contexts  *)
(* on one PostgreSQL database, with a saga of outbox messages between      *)
(* them.  A @Transactional method is one step: it takes row locks in       *)
(* UPDATEs and INSERTs and keeps them to COMMIT.  Where a handler has two  *)
(* such methods, or reads rows before it updates them, other deliveries    *)
(* may come between.                                                       *)
(***************************************************************************)
EXTENDS OutboxRelay, Integers, FiniteSetsExt, Sequences

CONSTANTS Skus,
          Stock,   \* sku -> units on hand at the start
          Body     \* order -> its request: [items, declined], items <<[sku, quantity], ...>>

\* The column of a quantity is an integer one, and items is an array.
ASSUME CartsAssumption ==
  /\ Stock \in [Skus -> Nat]
  /\ \A o \in Orders : /\ DOMAIN Body[o].items \subseteq Nat \ {0}
                       /\ \A i \in DOMAIN Body[o].items : Body[o].items[i].quantity \in Int

VARIABLES orders,        \* OrderRow.status
          products,      \* ProductRow.available
          reservations,  \* ReservationRow.status, by `${orderId}:${sku}`
          payments       \* PaymentRow.status

appVars == <<orders, products, reservations, payments>>
vars == <<relayVars, appVars>>

Topics == {"orders.placed", "orders.confirmed", "StockReservedEvent", "StockReservationFailedEvent",
           "PaymentChargedEvent", "PaymentFailedEvent"}

\* Mutated form: nobody releases the stock.
Subscribers_NoRelease ==
  [t \in Topics |->
     CASE t = "orders.placed" -> {"inventory.reserve-stock"}
       [] t = "StockReservedEvent" -> {"billing.charge-payment"}
       [] t = "StockReservationFailedEvent" -> {"orders.compensation", "inventory.release-stock"}
       [] t = "PaymentChargedEvent" -> {"orders.confirm-shipment"}
       [] t = "PaymentFailedEvent" -> {"orders.compensation"}
       [] OTHER -> {}]

\* The consumers of each topic; 'orders.confirmed' leaves for Kafka.
Subscribers ==
  [t \in Topics |->
     CASE t = "orders.placed" -> {"inventory.reserve-stock"}
       [] t = "StockReservedEvent" -> {"billing.charge-payment"}
       [] t = "StockReservationFailedEvent" -> {"orders.compensation"}
       [] t = "PaymentChargedEvent" -> {"orders.confirm-shipment"}
       [] t = "PaymentFailedEvent" -> {"orders.compensation", "inventory.release-stock"}
       [] OTHER -> {}]

\* What OrdersController.placeOrder lets through; nothing asks for distinct skus.
Valid(b) == b.items # <<>> /\ \A i \in DOMAIN b.items : b.items[i].quantity > 0

Init ==
  /\ RelayInit
  /\ orders = [o \in Orders |-> "none"]
  /\ products = Stock
  /\ reservations = [o \in Orders |-> [s \in Skus |-> "none"]]
  /\ payments = [o \in Orders |-> "none"]

\* POST /orders: PlaceOrderHandler inserts the row and commits the aggregate,
\* whose OrderPlacedEvent is added to the outbox in the same transaction.
PlaceOrder(o) ==
  /\ orders[o] = "none" /\ Valid(Body[o])
  /\ orders' = [orders EXCEPT ![o] = "placed"]
  /\ messages' = messages \cup {Message("orders.placed", o)}
  /\ UNCHANGED <<claims, running, inbox, faults, products, reservations, payments>>

At(r, step, consumer) == r.step = step /\ r.consumer = consumer

-------------------------------------------------------------------------------
(* ReserveStockHandler *)

Items(o) == Body[o].items
Lines(o) == {Items(o)[i].sku : i \in DOMAIN Items(o)}
Earlier(o, i) == {j \in 1 .. i - 1 : Items(o)[j].sku = Items(o)[i].sku}

\* The units that some lines of o ask for, one by one; how many o asks of s.
UnitsOf(o, lines) == UNION {{i} \X (1 .. Items(o)[i].quantity) : i \in lines}
LinesOf(o, s) == {i \in DOMAIN Items(o) : Items(o)[i].sku = s}
Quantity(o, s) == Cardinality(UnitsOf(o, LinesOf(o, s)))

\* Line i finds no such product or too little left: its conditional UPDATE affects
\* no row.
OutOfStock(o, i) ==
  \/ Items(o)[i].sku \notin Skus
  \/ products[Items(o)[i].sku] < Cardinality(UnitsOf(o, Earlier(o, i) \cup {i}))

\* Line i's INSERT hits the primary key.
Clash(o, i) == reservations[o][Items(o)[i].sku] # "none" \/ Earlier(o, i) # {}

\* How tryReserve goes: the first line that cannot be reserved decides.  After a
\* unique_violation PostgreSQL refuses every further statement of the
\* transaction, so the UPDATE meant to undo the decrement throws as well.
tryReserve(o) ==
  LET stops == {i \in DOMAIN Items(o) : OutOfStock(o, i) \/ Clash(o, i)}
  IN  IF stops = {} THEN "reserved"
      ELSE IF OutOfStock(o, Min(stops)) THEN "outOfStock" ELSE "throws"

Reserve(r) ==
  LET o == r.message.order
  IN  /\ At(r, "start", "inventory.reserve-stock")
      /\ \/ /\ tryReserve(o) = "reserved"
            /\ products' = [s \in Skus |-> products[s] - Quantity(o, s)]
            /\ reservations' = [reservations EXCEPT ![o] =
                 [s \in Skus |-> IF s \in Lines(o) THEN "reserved" ELSE @[s]]]
            /\ Returns(r, {Message("StockReservedEvent", o)})
         \/ /\ tryReserve(o) = "outOfStock"
            /\ Advance(r, "outOfStock", {}, {})
            /\ UNCHANGED <<products, reservations>>
         \/ /\ tryReserve(o) = "throws"
            /\ Throws(r)
            /\ UNCHANGED <<products, reservations>>
      /\ UNCHANGED <<orders, payments>>

\* Mutated form: the catch only logs.
FailureMessages_None(o) == {}

FailureMessages(o) == {Message("StockReservationFailedEvent", o)}

\* publishFailure, in a fresh transaction after the reservation rolled back.
PublishFailure(r) ==
  /\ At(r, "outOfStock", "inventory.reserve-stock")
  /\ Returns(r, FailureMessages(r.message.order))
  /\ UNCHANGED appVars

-------------------------------------------------------------------------------
(* ChargePaymentHandler; declined stands for an amount at or over the limit. *)

\* Mutated form: no return after the failure event.
OutcomeEvents_Both(o) ==
  IF Body[o].declined THEN {Message("PaymentFailedEvent", o), Message("PaymentChargedEvent", o)}
  ELSE {Message("PaymentChargedEvent", o)}

\* Mutated form: a charge falls through to the failure event.
OutcomeEvents_FallThrough(o) ==
  IF Body[o].declined THEN {Message("PaymentFailedEvent", o)}
  ELSE {Message("PaymentFailedEvent", o), Message("PaymentChargedEvent", o)}

OutcomeEvents(o) ==
  IF Body[o].declined THEN {Message("PaymentFailedEvent", o)} ELSE {Message("PaymentChargedEvent", o)}

Charge(r) ==
  LET o == r.message.order
  IN  /\ At(r, "start", "billing.charge-payment")
      /\ \/ payments[o] # "none" /\ Returns(r, {}) /\ UNCHANGED payments
         \/ /\ payments[o] = "none"
            /\ payments' = [payments EXCEPT ![o] = IF Body[o].declined THEN "failed" ELSE "charged"]
            /\ Returns(r, OutcomeEvents(o))
      /\ UNCHANGED <<orders, products, reservations>>

-------------------------------------------------------------------------------
(* The orders context: ConfirmShipmentHandler and OrdersCompensationHandler. *)

\* Mutated form: UPDATE without status = 'placed'.
Placed_Any(o) == orders[o] # "none"

Placed(o) == orders[o] = "placed"

\* The row and the aggregate's OrderConfirmedEvent commit together.
ConfirmShipment(r) ==
  LET o == r.message.order
  IN  /\ At(r, "start", "orders.confirm-shipment")
      /\ \/ ~Placed(o) /\ Returns(r, {}) /\ UNCHANGED orders
         \/ /\ Placed(o)
            /\ orders' = [orders EXCEPT ![o] = "confirmed"]
            /\ Returns(r, {Message("orders.confirmed", o)})
      /\ UNCHANGED <<products, reservations, payments>>

Compensate(r) ==
  LET o == r.message.order
  IN  /\ At(r, "start", "orders.compensation")
      /\ orders' = IF Placed(o) THEN [orders EXCEPT ![o] = "failed"] ELSE orders
      /\ Returns(r, {})
      /\ UNCHANGED <<products, reservations, payments>>

-------------------------------------------------------------------------------
(* ReleaseStockHandler *)

\* The SELECT of the rows still reserved; it locks nothing.
FindReserved(r) ==
  LET o == r.message.order
      rows == {s \in Skus : reservations[o][s] = "reserved"}
  IN  /\ At(r, "start", "inventory.release-stock")
      /\ IF rows = {} THEN Returns(r, {}) ELSE Advance(r, "release", rows, {})
      /\ UNCHANGED appVars

\* Mutated form: every row that was read is released, raced or not.
Released_AllRead(o, seen) == seen

\* The rows that the conditional UPDATE still finds reserved.
Released(o, seen) == {s \in seen : reservations[o][s] = "reserved"}

Release(r) ==
  LET o == r.message.order
      freed == Released(o, r.seen)
  IN  /\ At(r, "release", "inventory.release-stock")
      /\ reservations' = [reservations EXCEPT ![o] = [s \in Skus |-> IF s \in freed THEN "released" ELSE @[s]]]
      /\ products' = [s \in Skus |-> IF s \in freed THEN products[s] + Quantity(o, s) ELSE products[s]]
      /\ Returns(r, {})
      /\ UNCHANGED <<orders, payments>>

-------------------------------------------------------------------------------
Handle(r) == \/ Reserve(r) \/ PublishFailure(r) \/ Charge(r) \/ ConfirmShipment(r)
             \/ Compensate(r) \/ FindReserved(r) \/ Release(r)

Relay(m, c) == Claim(m, c) /\ UNCHANGED appVars
Ack(r) == Acknowledge(r) /\ UNCHANGED appVars
Die(r) == Dies(r) /\ UNCHANGED appVars

\* Nothing is being handled: the process may be stopped.
Quiescent == running = {} /\ UNCHANGED vars

Next == \/ \E o \in Orders : PlaceOrder(o)
        \/ \E m \in messages : \E c \in Subscribers[m.topic] : Relay(m, c)
        \/ \E r \in running : Handle(r) \/ Ack(r) \/ Die(r)
        \/ Quiescent

\* The relay polls as long as the process lives, and handlers settle.
Progress == \/ \E m \in messages : \E c \in Subscribers[m.topic] : ~InFlight(m, c) /\ Relay(m, c)
            \/ \E r \in running : Handle(r) \/ Ack(r)

Spec == Init /\ [][Next]_vars
FairSpec == Spec /\ WF_vars(Progress)

-------------------------------------------------------------------------------
\* The orders with a reserved row of s, and the units of s that orders hold.
Holders(s) == {o \in Orders : reservations[o][s] = "reserved"}
HeldUnits(S, s) == UNION {{o} \X UnitsOf(o, LinesOf(o, s)) : o \in S}

\* No unit is lost, made up or given back twice, whatever is redelivered or
\* delivered twice at a time: shelf and reserved rows add up to the stock,
\* and nothing is sold that is not there.
StockConserved ==
  \A s \in Skus :
    /\ products[s] >= 0
    /\ products[s] + Cardinality(HeldUnits(Holders(s), s)) = Stock[s]

\* A confirmed order was paid for and still holds every unit of every line:
\* compensation and confirmation never both run for one order.  And "no duplicate
\* `OrderConfirmedEvent` reaches Kafka" (confirm-shipment.handler.ts): there is one
\* message per confirmed order and none for any other.
ConfirmedIsWhole ==
  \A o \in Orders :
    /\ orders[o] = "confirmed" =>
         /\ payments[o] = "charged"
         /\ \A i \in DOMAIN Items(o) : reservations[o][Items(o)[i].sku] = "reserved"
    /\ Cardinality({m \in messages : m.topic = "orders.confirmed" /\ m.order = o})
         = IF orders[o] = "confirmed" THEN 1 ELSE 0

\* A charged order is failed only where its reservation was delivered again.  "Every
\* step is idempotent" (README.md), but tryReserve looks for stock before it meets
\* its own row: after a reservation that committed, the next delivery may publish
\* the failure too, and the compensation may overtake the confirmation.
ChargedFailsOnlyIfRedelivered ==
  \A o \in Orders : orders[o] = "failed" /\ payments[o] = "charged" =>
    \E m \in messages : /\ m.topic = "orders.placed" /\ m.order = o
                         /\ Tries(m, "inventory.reserve-stock") > 1

\* 'confirmed' and 'failed' are terminal (order.entity.ts), late events included.
TerminalStays ==
  [][\A o \in Orders : orders[o] \in {"confirmed", "failed"} => orders'[o] = orders[o]]_vars

\* A declined payment gives the stock back in the end.
DeclinedIsReleased ==
  \A o \in Orders : payments[o] = "failed" ~> \A s \in Skus : reservations[o][s] # "reserved"

\* Every order whose lines name distinct products comes to a terminal status.  (The
\* second line of a product clashes with the first's row at every delivery.)
OrderSettles ==
  \A o \in Orders : (\A i \in DOMAIN Items(o) : Earlier(o, i) = {}) =>
    orders[o] = "placed" ~> orders[o] \in {"confirmed", "failed"}

===============================================================================
