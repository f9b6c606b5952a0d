------------------------------ MODULE OrderSaga ------------------------------
(***************************************************************************)
(* examples/saga-pattern: place, reserve, charge, ship, and compensation,  *)
(* choreographed over the outbox.  Each handler is one @Transactional      *)
(* method, so its writes and the event it publishes are one step here: its *)
(* statements lock the rows they touch until COMMIT, and no handler reads  *)
(* a row it does not write.                                                *)
(***************************************************************************)
EXTENDS OutboxRelay

CONSTANTS Skus,
          Stock,     \* sku -> units on hand at the start
          Requests   \* what an order may ask: [sku, quantity, declined]

ASSUME SagaAssumption == Stock \in [Skus -> Nat] /\ \A q \in Requests : q.quantity \in Nat

VARIABLES orders,        \* OrderRow.status
          request,       \* the other columns of OrderRow
          reservations,  \* orders with a ReservationRow
          payments,      \* PaymentRow.status
          stock          \* StockItemRow.available

sagaVars == <<orders, request, reservations, payments, stock>>
vars == <<relayVars, sagaVars>>

\* The consumers of each topic.
Subscribers ==
  [OrderPlacedEvent |-> {"saga.reservation"},
   InventoryReservedEvent |-> {"saga.payment"},
   InventoryReservationFailedEvent |-> {"saga.compensation"},
   PaymentChargedEvent |-> {"saga.shipment"},
   PaymentFailedEvent |-> {"saga.compensation"},
   OrderShippedEvent |-> {}]

Init ==
  /\ RelayInit
  /\ orders = [o \in Orders |-> "none"]
  /\ request \in [Orders -> Requests]
  /\ reservations = {}
  /\ payments = [o \in Orders |-> "none"]
  /\ stock = Stock

\* OrderService.placeOrder; a second call for the same id fails on the key.
PlaceOrder(o) ==
  /\ orders[o] = "none"
  /\ orders' = [orders EXCEPT ![o] = "placed"]
  /\ messages' = messages \cup {Message("OrderPlacedEvent", o)}
  /\ UNCHANGED <<claims, running, inbox, faults, request, reservations, payments, stock>>

Delivered(r, consumer, topic) ==
  r.step = "start" /\ r.consumer = consumer /\ r.message.topic = topic

\* Mutated form: no reservation row, so nothing tells a redelivery apart.
Reserved_Forgets(o) == UNCHANGED reservations

Reserved(o) == reservations' = reservations \cup {o}

\* The conditional UPDATE affects a row: there is such a product, and enough of it.
InStock(o) == request[o].sku \in Skus /\ stock[request[o].sku] >= request[o].quantity

\* ReservationHandler.handle: the row first, as the idempotency gate (the failed
\* INSERT aborts the transaction, and the COMMIT that follows writes nothing),
\* then the conditional decrement.
Reserve(r) ==
  LET o == r.message.order
  IN  /\ Delivered(r, "saga.reservation", "OrderPlacedEvent")
      /\ UNCHANGED <<request, payments>>
      /\ \/ /\ o \in reservations
            /\ Returns(r, {}) /\ UNCHANGED <<orders, reservations, stock>>
         \/ /\ o \notin reservations
            /\ Reserved(o)
            /\ \/ /\ ~InStock(o)
                  /\ orders' = [orders EXCEPT ![o] = "failed-reservation"]
                  /\ Returns(r, {Message("InventoryReservationFailedEvent", o)})
                  /\ UNCHANGED stock
               \/ /\ InStock(o)
                  /\ stock' = [stock EXCEPT ![request[o].sku] = @ - request[o].quantity]
                  /\ orders' = [orders EXCEPT ![o] = "reserved"]
                  /\ Returns(r, {Message("InventoryReservedEvent", o)})

\* Mutated form: publishes although the payment was recorded before.
AlreadyPaid_Ignored(o) == FALSE

AlreadyPaid(o) == payments[o] # "none"

\* PaymentHandler.handle; declined stands for amount >= UNAUTHORISED_AMOUNT.
Charge(r) ==
  LET o == r.message.order
  IN  /\ Delivered(r, "saga.payment", "InventoryReservedEvent")
      /\ \/ AlreadyPaid(o) /\ Returns(r, {}) /\ UNCHANGED payments
         \/ /\ ~AlreadyPaid(o)
            /\ payments' = [payments EXCEPT ![o] = IF request[o].declined THEN "failed" ELSE "charged"]
            /\ Returns(r, {Message(IF request[o].declined THEN "PaymentFailedEvent"
                                   ELSE "PaymentChargedEvent", o)})
      /\ UNCHANGED <<orders, request, reservations, stock>>

\* ShipmentHandler.handle: gated on status = 'reserved'.
Ship(r) ==
  LET o == r.message.order
  IN  /\ Delivered(r, "saga.shipment", "PaymentChargedEvent")
      /\ \/ orders[o] # "reserved" /\ Returns(r, {}) /\ UNCHANGED orders
         \/ /\ orders[o] = "reserved"
            /\ orders' = [orders EXCEPT ![o] = "shipped"]
            /\ Returns(r, {Message("OrderShippedEvent", o)})
      /\ UNCHANGED <<request, reservations, payments, stock>>

\* CompensationHandler.onReservationFailed only logs.
OnReservationFailed(r) ==
  /\ Delivered(r, "saga.compensation", "InventoryReservationFailedEvent")
  /\ Returns(r, {})
  /\ UNCHANGED sagaVars

\* Mutated forms: the UPDATE is not conditional on the status; on the wrong one.
Compensable_Always(o) == TRUE
Compensable_Placed(o) == orders[o] = "placed"

Compensable(o) == orders[o] = "reserved"

\* CompensationHandler.onPaymentFailed: status and stock in one transaction.
OnPaymentFailed(r) ==
  LET o == r.message.order
  IN  /\ Delivered(r, "saga.compensation", "PaymentFailedEvent")
      /\ \/ ~Compensable(o) /\ UNCHANGED <<orders, stock>>
         \/ /\ Compensable(o)
            /\ orders' = [orders EXCEPT ![o] = "failed-payment"]
            /\ stock' = [stock EXCEPT ![request[o].sku] = @ + request[o].quantity]
      /\ Returns(r, {})
      /\ UNCHANGED <<request, reservations, payments>>

Handle(r) == \/ Reserve(r) \/ Charge(r) \/ Ship(r) \/ OnReservationFailed(r) \/ OnPaymentFailed(r)

Relay(m, c) == Claim(m, c) /\ UNCHANGED sagaVars
Ack(r) == Acknowledge(r) /\ UNCHANGED sagaVars
Die(r) == Dies(r) /\ UNCHANGED sagaVars

\* Nothing is being handled: the process may be stopped.
Quiescent == running = {} /\ UNCHANGED vars

Next == \/ \E o \in Orders : PlaceOrder(o)
        \/ \E m \in messages : \E c \in Subscribers[m.topic] : Relay(m, c)
        \/ \E r \in running : Handle(r) \/ Ack(r) \/ Die(r)
        \/ Quiescent

\* The relay polls as long as the process lives, and handlers settle.
Progress == \/ \E m \in messages : \E c \in Subscribers[m.topic] : ~InFlight(m, c) /\ Relay(m, c)
            \/ \E r \in running : Handle(r) \/ Ack(r)

Spec == Init /\ [][Next]_vars
FairSpec == Spec /\ WF_vars(Progress)

-------------------------------------------------------------------------------
\* The walk of `status` that entities.ts draws: no redelivery and no crossing of
\* outcome events ever takes an order back, or from one terminal state to another.
Walk == {<<"none", "placed">>, <<"placed", "reserved">>, <<"placed", "failed-reservation">>,
         <<"reserved", "shipped">>, <<"reserved", "failed-payment">>}
WalksForward == [][\A o \in Orders : orders[o] # orders'[o] => <<orders[o], orders'[o]>> \in Walk]_vars

\* The orders that hold units of a product, and the units a set of orders holds,
\* one by one.
Holders(s) == {o \in Orders : request[o].sku = s /\ orders[o] \in {"reserved", "shipped"}}
UnitsOf(S) == UNION {{o} \X (1 .. request[o].quantity) : o \in S}

\* No unit is lost, made up or sold twice: what is on the shelf, never less than
\* nothing, and what the orders that are reserved or shipped hold add up to the
\* stock at the start.
StockConserved ==
  \A s \in Skus : stock[s] >= 0 /\ stock[s] + Cardinality(UnitsOf(Holders(s))) = Stock[s]

\* Each order has at most one outcome per step, and the outcome event in the
\* outbox is the one its row records: a redelivered step publishes nothing new.
Published(topic, o) == Cardinality({m \in messages : m.topic = topic /\ m.order = o})
OutcomeRecorded ==
  \A o \in Orders :
    /\ Published("PaymentChargedEvent", o) = IF payments[o] = "charged" THEN 1 ELSE 0
    /\ Published("PaymentFailedEvent", o) = IF payments[o] = "failed" THEN 1 ELSE 0
    /\ Published("InventoryReservedEvent", o) + Published("InventoryReservationFailedEvent", o)
         = IF o \in reservations THEN 1 ELSE 0

\* Money and goods agree: a charged order keeps its stock and is on its way to
\* 'shipped'; no interleaving of compensation and charge fails it.
ChargedIsNeverFailed ==
  \A o \in Orders : payments[o] = "charged" => orders[o] \in {"reserved", "shipped"}

\* Every order reaches a terminal status as long as fewer deliveries die than
\* the relay's attempts allow.
SagaSettles ==
  \A o \in Orders : orders[o] = "placed" ~> orders[o] \in {"shipped", "failed-reservation", "failed-payment"}
==============================================================================
