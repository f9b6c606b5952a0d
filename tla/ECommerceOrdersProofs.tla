------------------------- MODULE ECommerceOrdersProofs -------------------------
(***************************************************************************)
(* Proofs about the saga of examples/e-commerce-orders, for every set of   *)
(* orders, products and carts (with repeated or unknown products too), any *)
(* stock, and any number of deliveries, redeliveries, lost leases and      *)
(* handlers that die.                                                      *)
(***************************************************************************)
EXTENDS ECommerceOrders, FiniteSetTheorems, TLAPS

Rows(topic, o) == {m \in messages : m.topic = topic /\ m.order = o}
One(S) == \E x : S = {x}

\* Subscribers, the other way round: the topics of each consumer.
Feeds(consumer) ==
  CASE consumer = "inventory.reserve-stock" -> {"orders.placed"}
    [] consumer = "billing.charge-payment" -> {"StockReservedEvent"}
    [] consumer = "orders.confirm-shipment" -> {"PaymentChargedEvent"}
    [] consumer = "inventory.release-stock" -> {"PaymentFailedEvent"}
    [] consumer = "orders.compensation" -> {"StockReservationFailedEvent", "PaymentFailedEvent"}
    [] OTHER -> {}

Fed(m, c) == m.topic \in Feeds(c)

\* A delivery under way is of a message in the outbox, to a consumer of its topic.
DeliveryInv == \A r \in running : r.message \in messages /\ Fed(r.message, r.consumer)

MessageInv == \A m \in messages : m.order \in Orders /\ m.topic \in Topics

Held(o) == \A s \in Lines(o) : s \in Skus /\ reservations[o][s] = "reserved"

\* What the rows of an order and its messages say of each other.
OrderAt(o) ==
  /\ orders[o] = "confirmed" => payments[o] = "charged" /\ One(Rows("orders.confirmed", o))
  /\ orders[o] # "confirmed" => Rows("orders.confirmed", o) = {}
  /\ Rows("PaymentChargedEvent", o) # {} => payments[o] = "charged"
  /\ Rows("PaymentFailedEvent", o) # {} => payments[o] = "failed"
  /\ payments[o] # "none" => Rows("StockReservedEvent", o) # {}
  /\ Rows("StockReservedEvent", o) # {} /\ payments[o] # "failed" => Held(o)

RowTypes ==
  /\ orders \in [Orders -> {"none", "placed", "confirmed", "failed"}]
  /\ payments \in [Orders -> {"none", "charged", "failed"}]
  /\ reservations \in [Orders -> [Skus -> {"none", "reserved", "released"}]]

SagaInv == RowTypes /\ DeliveryInv /\ MessageInv /\ \A o \in Orders : OrderAt(o)

\* What every step may do to an order's status.
Terminal(o) == orders[o] \in {"confirmed", "failed"} => orders'[o] = orders[o]

-------------------------------------------------------------------------------
LEMMA MessageRow ==
  ASSUME NEW topic, NEW o
  PROVE  Message(topic, o).topic = topic /\ Message(topic, o).order = o
BY DEF Message

LEMMA Subscribed ==
  ASSUME NEW m, m.topic \in Topics, NEW c \in Subscribers[m.topic]
  PROVE  Fed(m, c)
BY DEF Subscribers, Topics, Fed, Feeds

\* What a handler that commits, throws or dies does to the outbox and to the
\* deliveries.
LEMMA AdvanceEffect ==
  ASSUME DeliveryInv, MessageInv, NEW r \in running, NEW step, NEW seen, NEW sent,
         \A m \in sent : m.order \in Orders /\ m.topic \in Topics, Advance(r, step, seen, sent)
  PROVE  DeliveryInv' /\ MessageInv' /\ messages' = messages \cup sent
<1> DEFINE moved == [r EXCEPT !.step = step, !.seen = seen]
<1>1. messages' = messages \cup sent /\ running' = (running \ {r}) \cup {moved}
  BY DEF Advance
<1>2. moved.message = r.message /\ moved.consumer = r.consumer
  OBVIOUS
<1> HIDE DEF moved
<1>3. DeliveryInv'
  BY <1>1, <1>2 DEF DeliveryInv
<1> QED BY <1>1, <1>3 DEF MessageInv

LEMMA RelayEffect ==
  ASSUME DeliveryInv, MessageInv,
         \/ \E m \in messages : \E c \in Subscribers[m.topic] : Claim(m, c)
         \/ \E r \in running : Acknowledge(r) \/ Dies(r) \/ Throws(r)
  PROVE  DeliveryInv' /\ MessageInv' /\ messages' = messages
<1>1. CASE \E r \in running : Acknowledge(r) \/ Dies(r) \/ Throws(r)
  BY <1>1 DEF Acknowledge, Dies, Throws, DeliveryInv, MessageInv
<1>2. ASSUME NEW m \in messages, NEW c \in Subscribers[m.topic], Claim(m, c)
      PROVE  DeliveryInv' /\ MessageInv' /\ messages' = messages
  <2>1. /\ messages' = messages
        /\ \A r \in running' : r \in running \/ (r.message = m /\ r.consumer = c)
    BY <1>2 DEF Claim
  <2>2. Fed(m, c)
    BY <1>2, Subscribed DEF MessageInv
  <2> QED BY <1>2, <2>1, <2>2 DEF DeliveryInv, MessageInv
<1> QED BY <1>1, <1>2

\* Publishing one message adds it to the rows of its topic and order only.
LEMMA PublishedRows ==
  ASSUME NEW topic, NEW o
  PROVE  /\ messages' = messages \cup {Message(topic, o)} =>
              \A t, q : Rows(t, q)' = IF t = topic /\ q = o
                                      THEN Rows(t, q) \cup {Message(topic, o)} ELSE Rows(t, q)
         /\ messages' = messages => \A t, q : Rows(t, q)' = Rows(t, q)
BY MessageRow DEF Rows

\* An order is not disturbed by a step that leaves its rows and its messages.
LEMMA OtherOrder ==
  ASSUME NEW q \in Orders, OrderAt(q), orders'[q] = orders[q], payments'[q] = payments[q],
         reservations'[q] = reservations[q], \A t : Rows(t, q)' = Rows(t, q)
  PROVE  OrderAt(q)' /\ Terminal(q)
BY DEF OrderAt, Held, Terminal

\* A step that changes no row and publishes nothing that OrderAt looks at.
LEMMA RowsKept ==
  ASSUME SagaInv, UNCHANGED appVars, DeliveryInv', MessageInv',
         \A t, q : t # "StockReservationFailedEvent" => Rows(t, q)' = Rows(t, q)
  PROVE  SagaInv' /\ \A q \in Orders : Terminal(q)
<1>1. orders' = orders /\ payments' = payments /\ reservations' = reservations
  BY DEF appVars
<1>2. \A q \in Orders : OrderAt(q)' /\ Terminal(q)
  BY <1>1 DEF SagaInv, OrderAt, Held, Terminal
<1> QED BY <1>1, <1>2 DEF SagaInv, RowTypes

LEMMA InitSaga == Init => SagaInv
BY DEF Init, RelayInit, SagaInv, RowTypes, DeliveryInv, MessageInv, OrderAt, Rows

LEMMA PlaceStep ==
  ASSUME SagaInv, NEW o \in Orders, PlaceOrder(o)
  PROVE  SagaInv' /\ \A q \in Orders : Terminal(q)
<1>1. /\ orders[o] = "none" /\ orders' = [orders EXCEPT ![o] = "placed"]
      /\ payments' = payments /\ reservations' = reservations /\ running' = running
      /\ messages' = messages \cup {Message("orders.placed", o)}
  BY DEF PlaceOrder
<1>2. DeliveryInv' /\ MessageInv'
  BY <1>1, MessageRow DEF SagaInv, DeliveryInv, MessageInv, Topics
<1>3. \A t, q : t # "orders.placed" \/ q # o => Rows(t, q)' = Rows(t, q)
  BY <1>1, PublishedRows
<1>4. \A q \in Orders \ {o} : OrderAt(q)' /\ Terminal(q)
  BY <1>1, <1>3, OtherOrder DEF SagaInv, RowTypes
<1>5. OrderAt(o)' /\ Terminal(o)
  <2>1. orders'[o] = "placed" /\ payments'[o] = payments[o] /\ (Held(o)' <=> Held(o))
    BY <1>1 DEF SagaInv, RowTypes, Held
  <2> QED BY <1>1, <1>3, <2>1 DEF SagaInv, OrderAt, Terminal
<1>6. RowTypes'
  BY <1>1 DEF SagaInv, RowTypes
<1> QED BY <1>2, <1>4, <1>5, <1>6 DEF SagaInv

\* A reservation that commits found no row of the order, and writes one for
\* every line.
LEMMA ReserveStep ==
  ASSUME SagaInv, NEW r \in running, Reserve(r)
  PROVE  SagaInv' /\ \A q \in Orders : Terminal(q)
<1> DEFINE o == r.message.order
<1>1. o \in Orders /\ DeliveryInv /\ MessageInv
  BY DEF SagaInv, DeliveryInv, MessageInv
<1>2. orders' = orders /\ payments' = payments
  BY DEF Reserve
<1> HIDE DEF o
<1>3. CASE tryReserve(o) = "reserved"
  <2>1. /\ Returns(r, {Message("StockReservedEvent", o)})
        /\ reservations' = [reservations EXCEPT ![o] =
             [s \in Skus |-> IF s \in Lines(o) THEN "reserved" ELSE reservations[o][s]]]
    BY <1>3 DEF Reserve, o
  <2>2. DeliveryInv' /\ MessageInv' /\ messages' = messages \cup {Message("StockReservedEvent", o)}
    BY <1>1, <2>1, AdvanceEffect, MessageRow DEF Returns, Topics
  <2>3. \A t, q : Rows(t, q)' = IF t = "StockReservedEvent" /\ q = o
                                THEN Rows(t, q) \cup {Message("StockReservedEvent", o)} ELSE Rows(t, q)
    BY <2>2, PublishedRows
  <2>4. \A i \in DOMAIN Items(o) : Items(o)[i].sku \in Skus
    BY <1>3 DEF tryReserve, OutOfStock
  <2>5. Held(o)'
    BY <1>1, <2>1, <2>4 DEF Held, Lines, SagaInv, RowTypes
  <2>6. OrderAt(o)' /\ Terminal(o)
    BY <1>1, <1>2, <2>3, <2>5 DEF SagaInv, OrderAt, Terminal
  <2>7. \A q \in Orders \ {o} : OrderAt(q)' /\ Terminal(q)
    BY <1>2, <2>1, <2>3, OtherOrder DEF SagaInv, RowTypes
  <2>8. RowTypes'
    BY <1>1, <1>2, <2>1 DEF SagaInv, RowTypes
  <2> QED BY <2>2, <2>6, <2>7, <2>8 DEF SagaInv
<1>4. CASE tryReserve(o) = "outOfStock"
  <2>1. Advance(r, "outOfStock", {}, {}) /\ UNCHANGED appVars
    BY <1>4 DEF Reserve, o, appVars
  <2>2. DeliveryInv' /\ MessageInv' /\ messages' = messages
    BY <1>1, <2>1, AdvanceEffect
  <2> QED BY <2>1, <2>2, RowsKept, PublishedRows
<1>5. CASE tryReserve(o) = "throws"
  <2>1. Throws(r) /\ UNCHANGED appVars
    BY <1>5 DEF Reserve, o, appVars
  <2> QED BY <1>1, <2>1, RelayEffect, RowsKept, PublishedRows
<1> QED BY <1>3, <1>4, <1>5 DEF Reserve, o

LEMMA PublishFailureStep ==
  ASSUME SagaInv, NEW r \in running, PublishFailure(r)
  PROVE  SagaInv' /\ \A q \in Orders : Terminal(q)
<1> DEFINE o == r.message.order
<1>1. o \in Orders /\ DeliveryInv /\ MessageInv
  BY DEF SagaInv, DeliveryInv, MessageInv
<1>2. Returns(r, {Message("StockReservationFailedEvent", o)}) /\ UNCHANGED appVars
  BY DEF PublishFailure, FailureMessages
<1> HIDE DEF o
<1>3. /\ DeliveryInv' /\ MessageInv'
      /\ messages' = messages \cup {Message("StockReservationFailedEvent", o)}
  BY <1>1, <1>2, AdvanceEffect, MessageRow DEF Returns, Topics
<1> QED BY <1>2, <1>3, RowsKept, PublishedRows

\* The payment row decides which outcome is published, once.
LEMMA ChargeStep ==
  ASSUME SagaInv, NEW r \in running, Charge(r)
  PROVE  SagaInv' /\ \A q \in Orders : Terminal(q)
<1> DEFINE o == r.message.order
<1>1. o \in Orders /\ r.message \in Rows("StockReservedEvent", o) /\ DeliveryInv /\ MessageInv
  BY DEF SagaInv, DeliveryInv, MessageInv, Charge, At, Fed, Feeds, Rows
<1>2. orders' = orders /\ reservations' = reservations /\ products' = products
  BY DEF Charge
<1> HIDE DEF o
<1>3. CASE payments[o] # "none"
  <2>1. Returns(r, {}) /\ UNCHANGED appVars
    BY <1>3, <1>2 DEF Charge, o, appVars
  <2>2. DeliveryInv' /\ MessageInv' /\ messages' = messages
    BY <1>1, <2>1, AdvanceEffect DEF Returns
  <2> QED BY <2>1, <2>2, RowsKept, PublishedRows
<1>4. CASE payments[o] = "none"
  <2>1. PICK t \in {"PaymentChargedEvent", "PaymentFailedEvent"} :
          /\ Returns(r, {Message(t, o)})
          /\ payments' = [payments EXCEPT ![o] = IF t = "PaymentChargedEvent" THEN "charged" ELSE "failed"]
    BY <1>4 DEF Charge, OutcomeEvents, o
  <2>2. /\ DeliveryInv' /\ MessageInv' /\ messages' = messages \cup {Message(t, o)}
    BY <1>1, <2>1, AdvanceEffect, MessageRow DEF Returns, Topics
  <2>3. \A s, q : Rows(s, q)' = IF s = t /\ q = o THEN Rows(s, q) \cup {Message(t, o)} ELSE Rows(s, q)
    BY <2>2, PublishedRows
  <2>4. \A q \in Orders \ {o} : OrderAt(q)' /\ Terminal(q)
    BY <1>2, <2>1, <2>3, OtherOrder DEF SagaInv, RowTypes
  <2>5. payments'[o] = IF t = "PaymentChargedEvent" THEN "charged" ELSE "failed"
    BY <1>1, <2>1 DEF SagaInv, RowTypes
  <2>6. Held(o)' <=> Held(o)
    BY <1>2 DEF Held
  <2>7. OrderAt(o)' /\ Terminal(o)
    BY <1>1, <1>2, <1>4, <2>3, <2>5, <2>6 DEF SagaInv, OrderAt, Terminal
  <2>8. RowTypes'
    BY <1>1, <1>2, <2>1 DEF SagaInv, RowTypes
  <2> QED BY <2>2, <2>4, <2>7, <2>8 DEF SagaInv
<1> QED BY <1>3, <1>4

LEMMA ConfirmStep ==
  ASSUME SagaInv, NEW r \in running, ConfirmShipment(r)
  PROVE  SagaInv' /\ \A q \in Orders : Terminal(q)
<1> DEFINE o == r.message.order
<1>1. o \in Orders /\ r.message \in Rows("PaymentChargedEvent", o) /\ DeliveryInv /\ MessageInv
  BY DEF SagaInv, DeliveryInv, MessageInv, ConfirmShipment, At, Fed, Feeds, Rows
<1>2. payments' = payments /\ reservations' = reservations /\ products' = products
  BY DEF ConfirmShipment
<1> HIDE DEF o
<1>3. CASE ~Placed(o)
  <2>1. Returns(r, {}) /\ UNCHANGED appVars
    BY <1>3, <1>2 DEF ConfirmShipment, o, appVars
  <2>2. DeliveryInv' /\ MessageInv' /\ messages' = messages
    BY <1>1, <2>1, AdvanceEffect DEF Returns
  <2> QED BY <2>1, <2>2, RowsKept, PublishedRows
<1>4. CASE Placed(o)
  <2>1. Returns(r, {Message("orders.confirmed", o)}) /\ orders' = [orders EXCEPT ![o] = "confirmed"]
    BY <1>4 DEF ConfirmShipment, o
  <2>2. /\ DeliveryInv' /\ MessageInv' /\ messages' = messages \cup {Message("orders.confirmed", o)}
    BY <1>1, <2>1, AdvanceEffect, MessageRow DEF Returns, Topics
  <2>3. \A t, q : Rows(t, q)' = IF t = "orders.confirmed" /\ q = o
                                THEN Rows(t, q) \cup {Message("orders.confirmed", o)} ELSE Rows(t, q)
    BY <2>2, PublishedRows
  <2>4. \A q \in Orders \ {o} : OrderAt(q)' /\ Terminal(q)
    BY <1>2, <2>1, <2>3, OtherOrder DEF SagaInv, RowTypes
  <2>5. orders[o] = "placed" /\ orders'[o] = "confirmed" /\ Rows("orders.confirmed", o) = {}
    BY <1>1, <1>4, <2>1 DEF SagaInv, RowTypes, OrderAt, Placed
  <2>6. Held(o)' <=> Held(o)
    BY <1>2 DEF Held
  <2>7. OrderAt(o)' /\ Terminal(o)
    BY <1>1, <1>2, <2>3, <2>5, <2>6 DEF SagaInv, OrderAt, Terminal, One
  <2>8. RowTypes'
    BY <1>1, <1>2, <2>1 DEF SagaInv, RowTypes
  <2> QED BY <2>2, <2>4, <2>7, <2>8 DEF SagaInv
<1> QED BY <1>3, <1>4

LEMMA CompensateStep ==
  ASSUME SagaInv, NEW r \in running, Compensate(r)
  PROVE  SagaInv' /\ \A q \in Orders : Terminal(q)
<1> DEFINE o == r.message.order
<1>1. o \in Orders /\ DeliveryInv /\ MessageInv
  BY DEF SagaInv, DeliveryInv, MessageInv
<1>2. /\ payments' = payments /\ reservations' = reservations /\ Returns(r, {})
      /\ orders' = orders \/ (orders[o] = "placed" /\ orders' = [orders EXCEPT ![o] = "failed"])
  BY DEF Compensate, Placed
<1> HIDE DEF o
<1>3. DeliveryInv' /\ MessageInv' /\ messages' = messages
  BY <1>1, <1>2, AdvanceEffect DEF Returns
<1>4. \A t, q : Rows(t, q)' = Rows(t, q)
  BY <1>3, PublishedRows
<1>5. RowTypes'
  BY <1>1, <1>2 DEF SagaInv, RowTypes
<1>6. \A q \in Orders : OrderAt(q)' /\ Terminal(q)
  BY <1>1, <1>2, <1>4 DEF SagaInv, RowTypes, OrderAt, Held, Terminal
<1> QED BY <1>3, <1>5, <1>6 DEF SagaInv

\* Stock is only given back for an order whose payment failed.
LEMMA ReleaseStep ==
  ASSUME SagaInv, NEW r \in running, FindReserved(r) \/ Release(r)
  PROVE  SagaInv' /\ \A q \in Orders : Terminal(q)
<1> DEFINE o == r.message.order
<1>1. o \in Orders /\ r.message \in Rows("PaymentFailedEvent", o) /\ DeliveryInv /\ MessageInv
  BY DEF SagaInv, DeliveryInv, MessageInv, FindReserved, Release, At, Fed, Feeds, Rows
<1>2. payments[o] = "failed"
  BY <1>1 DEF SagaInv, OrderAt
<1> HIDE DEF o
<1>3. CASE FindReserved(r)
  <2>1. PICK step, seen : UNCHANGED appVars /\ Advance(r, step, seen, {})
    BY <1>3 DEF FindReserved, Returns
  <2>2. DeliveryInv' /\ MessageInv' /\ messages' = messages
    BY <1>1, <2>1, AdvanceEffect
  <2> QED BY <2>1, <2>2, RowsKept, PublishedRows
<1>4. CASE Release(r)
  <2>1. /\ orders' = orders /\ payments' = payments /\ Returns(r, {})
        /\ reservations' = [reservations EXCEPT ![o] =
             [s \in Skus |-> IF s \in Released(o, r.seen) THEN "released" ELSE reservations[o][s]]]
    BY <1>4 DEF Release, o
  <2>2. DeliveryInv' /\ MessageInv' /\ messages' = messages
    <3>1. Advance(r, "handled", {}, {})
      BY <2>1 DEF Returns
    <3> QED BY <1>1, <3>1, AdvanceEffect
  <2>3. \A t, q : Rows(t, q)' = Rows(t, q)
    BY <2>2, PublishedRows
  <2>4. \A q \in Orders \ {o} : OrderAt(q)' /\ Terminal(q)
    BY <2>1, <2>3, OtherOrder DEF SagaInv, RowTypes
  <2>5. OrderAt(o)' /\ Terminal(o)
    BY <1>1, <1>2, <2>1, <2>3 DEF SagaInv, OrderAt, Terminal
  <2>6. RowTypes'
    BY <1>1, <2>1 DEF SagaInv, RowTypes
  <2> QED BY <2>2, <2>4, <2>5, <2>6 DEF SagaInv
<1> QED BY <1>3, <1>4

\* SagaInv is inductive, and no step leaves a terminal status.
LEMMA NextSaga ==
  ASSUME SagaInv, [Next]_vars
  PROVE  SagaInv' /\ \A q \in Orders : Terminal(q)
<1>1. CASE \/ \E m \in messages : \E c \in Subscribers[m.topic] : Relay(m, c)
           \/ \E r \in running : Ack(r) \/ Die(r)
  <2>1. UNCHANGED appVars /\ DeliveryInv' /\ MessageInv' /\ messages' = messages
    BY <1>1, RelayEffect DEF Relay, Ack, Die, SagaInv
  <2> QED BY <2>1, RowsKept, PublishedRows
<1>2. CASE \E r \in running : Handle(r)
  BY <1>2, ReserveStep, PublishFailureStep, ChargeStep, ConfirmStep, CompensateStep, ReleaseStep DEF Handle
<1>3. CASE UNCHANGED vars
  <2>1. UNCHANGED appVars /\ DeliveryInv' /\ MessageInv' /\ messages' = messages
    BY <1>3 DEF vars, relayVars, DeliveryInv, MessageInv, SagaInv
  <2> QED BY <2>1, RowsKept, PublishedRows
<1> QED BY <1>1, <1>2, <1>3, PlaceStep DEF Next, Quiescent

LEMMA SagaInvariant == Spec => []SagaInv
<1> QED BY InitSaga, NextSaga, PTL DEF Spec

\* A confirmed order is paid for and holds every line, and OrderConfirmedEvent is
\* in the outbox once for it and for no other, however the relay redelivers and
\* interleaves the confirmation and the compensation handlers.
THEOREM ConfirmedWhole == Spec => []ConfirmedIsWhole
<1>1. SagaInv => ConfirmedIsWhole
  <2> SUFFICES ASSUME SagaInv, NEW o \in Orders
               PROVE  /\ orders[o] = "confirmed" =>
                           /\ payments[o] = "charged"
                           /\ \A i \in DOMAIN Items(o) : reservations[o][Items(o)[i].sku] = "reserved"
                      /\ Cardinality(Rows("orders.confirmed", o)) = IF orders[o] = "confirmed" THEN 1 ELSE 0
    BY DEF ConfirmedIsWhole, Rows
  <2>1. OrderAt(o)
    BY DEF SagaInv
  <2>2. orders[o] = "confirmed" => payments[o] = "charged" /\ Held(o)
    BY <2>1 DEF OrderAt
  <2>3. Cardinality(Rows("orders.confirmed", o)) = IF orders[o] = "confirmed" THEN 1 ELSE 0
    BY <2>1, FS_EmptySet, FS_Singleton DEF OrderAt, One
  <2> QED BY <2>2, <2>3 DEF Held, Lines
<1> QED BY <1>1, SagaInvariant, PTL

\* No step, of a late or repeated delivery either, leaves 'confirmed' or 'failed'.
THEOREM StatusTerminal == Spec => TerminalStays
<1>1. SagaInv /\ [Next]_vars =>
        [\A o \in Orders : orders[o] \in {"confirmed", "failed"} => orders'[o] = orders[o]]_vars
  BY NextSaga DEF Terminal
<1> QED BY <1>1, SagaInvariant, PTL DEF Spec, TerminalStays

-------------------------------------------------------------------------------
(* The units: what is on the shelf and what the reserved rows hold add up. *)

StockInv ==
  /\ products \in [Skus -> Nat]
  /\ \A s \in Skus :
       /\ IsFiniteSet(HeldUnits(Holders(s), s))
       /\ \A o \in Holders(s) : IsFiniteSet(UnitsOf(o, LinesOf(o, s)))
  /\ StockConserved

\* The units of one more order come on top of those of the others.
LEMMA HeldJoin ==
  ASSUME NEW s, NEW S, NEW o, o \notin S, IsFiniteSet(UnitsOf(o, LinesOf(o, s)))
  PROVE  /\ HeldUnits(S, s) \subseteq HeldUnits(S \cup {o}, s)
         /\ Quantity(o, s) \in Nat
         /\ IsFiniteSet(HeldUnits(S, s)) =>
              /\ IsFiniteSet(HeldUnits(S \cup {o}, s))
              /\ Cardinality(HeldUnits(S, s)) \in Nat
              /\ Cardinality(HeldUnits(S \cup {o}, s)) = Cardinality(HeldUnits(S, s)) + Quantity(o, s)
<1> DEFINE units == UnitsOf(o, LinesOf(o, s))
           own == {o} \X units
           held == HeldUnits(S, s)
<1>1. HeldUnits(S \cup {o}, s) = held \cup own
  BY DEF HeldUnits
<1>2. held \cap own = {}
  BY DEF HeldUnits
<1>3. Quantity(o, s) = Cardinality(units) /\ IsFiniteSet(units)
  BY DEF Quantity
<1> HIDE DEF units, held
<1>4. Quantity(o, s) \in Nat
  BY <1>3, FS_CardinalityType
<1>5. IsFiniteSet(own) /\ Cardinality(own) = Quantity(o, s)
  <2>1. IsFiniteSet({o}) /\ Cardinality({o}) = 1
    BY FS_Singleton
  <2>2. IsFiniteSet(own) /\ Cardinality(own) = Cardinality({o}) * Cardinality(units)
    BY <1>3, <2>1, FS_Product
  <2> QED BY <1>3, <1>4, <2>1, <2>2
<1> HIDE DEF own
<1>6. ASSUME IsFiniteSet(held)
      PROVE  /\ IsFiniteSet(held \cup own) /\ Cardinality(held) \in Nat
             /\ Cardinality(held \cup own) = Cardinality(held) + Quantity(o, s)
  <2>1. Cardinality(held) \in Nat
    BY <1>6, FS_CardinalityType
  <2>2. Cardinality(held \cap own) = 0
    BY <1>2, FS_EmptySet
  <2>3. /\ IsFiniteSet(held \cup own)
        /\ Cardinality(held \cup own) = Cardinality(held) + Cardinality(own) - Cardinality(held \cap own)
    BY <1>5, <1>6, FS_Union
  <2>4. Cardinality(held \cup own) = Cardinality(held) + Quantity(o, s)
    BY <1>4, <1>5, <2>1, <2>2, <2>3
  <2> QED BY <2>1, <2>3, <2>4
<1> QED BY <1>1, <1>4, <1>6 DEF held

\* A reservation that goes through has one line at most per product, and the
\* product has as many units as that line asks.
LEMMA ReservedLines ==
  ASSUME SagaInv, StockInv, NEW o \in Orders, tryReserve(o) = "reserved", NEW s \in Skus
  PROVE  /\ IsFiniteSet(UnitsOf(o, LinesOf(o, s)))
         /\ products[s] >= Quantity(o, s)
         /\ s \in Lines(o) => reservations[o][s] = "none"
         /\ s \notin Lines(o) => Quantity(o, s) = 0
<1>1. \A i \in DOMAIN Items(o) : ~OutOfStock(o, i) /\ ~Clash(o, i)
  BY DEF tryReserve
<1>2. DOMAIN Items(o) \subseteq Nat \ {0} /\ \A i \in DOMAIN Items(o) : Items(o)[i].quantity \in Int
  BY CartsAssumption DEF Items
<1>3. CASE s \notin Lines(o)
  <2>1. UnitsOf(o, LinesOf(o, s)) = {}
    BY <1>3 DEF UnitsOf, LinesOf, Lines
  <2>2. Quantity(o, s) = 0
    BY <2>1, FS_EmptySet DEF Quantity
  <2> QED BY <1>3, <2>1, <2>2, FS_EmptySet DEF StockInv
<1>4. CASE s \in Lines(o)
  <2>1. PICK i \in DOMAIN Items(o) : Items(o)[i].sku = s
    BY <1>4 DEF Lines
  <2>2. /\ Earlier(o, i) = {} /\ reservations[o][s] = "none"
        /\ \A j \in DOMAIN Items(o) : Earlier(o, j) = {}
    BY <1>1, <2>1 DEF Clash
  <2>3. LinesOf(o, s) = {i}
    <3>1. ASSUME NEW j \in LinesOf(o, s), j # i PROVE FALSE
      <4>0. j \in DOMAIN Items(o) /\ j \in Nat \ {0} /\ i \in Nat \ {0} /\ Items(o)[j].sku = s
        BY <1>2, <2>1 DEF LinesOf
      <4>1. CASE j < i
        <5>1. j \in 1 .. i - 1
          BY <4>0, <4>1
        <5> QED BY <2>1, <2>2, <4>0, <5>1 DEF Earlier
      <4>2. CASE i < j
        <5>1. i \in 1 .. j - 1
          BY <4>0, <4>2
        <5> QED BY <2>1, <2>2, <4>0, <5>1 DEF Earlier
      <4> QED BY <3>1, <4>0, <4>1, <4>2
    <3> QED BY <2>1, <3>1 DEF LinesOf
  <2>4. UnitsOf(o, LinesOf(o, s)) = {i} \X (1 .. Items(o)[i].quantity)
    BY <2>3 DEF UnitsOf
  <2>5. IsFiniteSet({i} \X (1 .. Items(o)[i].quantity))
    <3> DEFINE n == Items(o)[i].quantity
    <3>1. n \in Int
      BY <1>2
    <3> HIDE DEF n
    <3>2. IsFiniteSet(1 .. n)
      BY <3>1, FS_Interval
    <3>3. IsFiniteSet({i} \X (1 .. n))
      BY <3>2, FS_Singleton, FS_Product
    <3> QED BY <3>3 DEF n
  <2>6. ~(products[s] < Cardinality(UnitsOf(o, LinesOf(o, s))))
    <3>1. Earlier(o, i) \cup {i} = LinesOf(o, s)
      BY <2>2, <2>3
    <3> QED BY <1>1, <2>1, <3>1 DEF OutOfStock
  <2>7. Cardinality(UnitsOf(o, LinesOf(o, s))) \in Nat /\ products[s] \in Nat
    BY <2>4, <2>5, FS_CardinalityType DEF StockInv
  <2> QED BY <1>4, <2>2, <2>4, <2>5, <2>6, <2>7 DEF Quantity
<1> QED BY <1>3, <1>4

LEMMA InitStock == Init => StockInv
<1> SUFFICES ASSUME Init PROVE StockInv
  OBVIOUS
<1>1. products = Stock /\ products \in [Skus -> Nat]
  BY CartsAssumption DEF Init
<1>2. ASSUME NEW s \in Skus PROVE Holders(s) = {} /\ HeldUnits(Holders(s), s) = {}
  BY DEF Init, Holders, HeldUnits
<1>3. ASSUME NEW s \in Skus
      PROVE  /\ IsFiniteSet(HeldUnits(Holders(s), s))
             /\ Cardinality(HeldUnits(Holders(s), s)) = 0
  BY <1>2, FS_EmptySet
<1> QED BY <1>1, <1>2, <1>3 DEF StockInv, StockConserved

\* One product: its reserved rows stay, an order's row comes, or it goes.
LEMMA ProductKept ==
  ASSUME StockInv, NEW s \in Skus, products'[s] = products[s], Holders(s)' = Holders(s)
  PROVE  /\ IsFiniteSet(HeldUnits(Holders(s), s))'
         /\ (\A o \in Holders(s) : IsFiniteSet(UnitsOf(o, LinesOf(o, s))))'
         /\ products'[s] >= 0 /\ products'[s] + Cardinality(HeldUnits(Holders(s), s))' = Stock[s]
<1>1. HeldUnits(Holders(s), s)' = HeldUnits(Holders(s), s)
  BY DEF HeldUnits
<1> QED BY <1>1 DEF StockInv, StockConserved

LEMMA ProductTaken ==
  ASSUME StockInv, NEW s \in Skus, NEW o \in Orders, o \notin Holders(s),
         IsFiniteSet(UnitsOf(o, LinesOf(o, s))), products[s] >= Quantity(o, s),
         products'[s] = products[s] - Quantity(o, s), Holders(s)' = Holders(s) \cup {o}
  PROVE  /\ IsFiniteSet(HeldUnits(Holders(s), s))'
         /\ (\A q \in Holders(s) : IsFiniteSet(UnitsOf(q, LinesOf(q, s))))'
         /\ products'[s] >= 0 /\ products'[s] + Cardinality(HeldUnits(Holders(s), s))' = Stock[s]
<1>1. HeldUnits(Holders(s), s)' = HeldUnits(Holders(s) \cup {o}, s)
  BY DEF HeldUnits
<1>2. /\ Quantity(o, s) \in Nat /\ Cardinality(HeldUnits(Holders(s), s)) \in Nat
      /\ IsFiniteSet(HeldUnits(Holders(s) \cup {o}, s))
      /\ Cardinality(HeldUnits(Holders(s) \cup {o}, s))
           = Cardinality(HeldUnits(Holders(s), s)) + Quantity(o, s)
  BY HeldJoin DEF StockInv
<1>3. /\ products[s] \in Nat /\ Stock[s] \in Nat
      /\ products[s] + Cardinality(HeldUnits(Holders(s), s)) = Stock[s]
  BY CartsAssumption DEF StockInv, StockConserved
<1>4. products'[s] >= 0 /\ products'[s] + Cardinality(HeldUnits(Holders(s) \cup {o}, s)) = Stock[s]
  BY <1>2, <1>3
<1> QED BY <1>1, <1>2, <1>4 DEF StockInv

LEMMA ProductBack ==
  ASSUME StockInv, NEW s \in Skus, NEW o \in Holders(s),
         products'[s] = products[s] + Quantity(o, s), Holders(s)' = Holders(s) \ {o}
  PROVE  /\ IsFiniteSet(HeldUnits(Holders(s), s))'
         /\ (\A q \in Holders(s) : IsFiniteSet(UnitsOf(q, LinesOf(q, s))))'
         /\ products'[s] >= 0 /\ products'[s] + Cardinality(HeldUnits(Holders(s), s))' = Stock[s]
<1> DEFINE rest == Holders(s) \ {o}
<1>1. HeldUnits(Holders(s), s)' = HeldUnits(rest, s)
  BY DEF HeldUnits
<1>2. Holders(s) = rest \cup {o} /\ o \notin rest /\ IsFiniteSet(UnitsOf(o, LinesOf(o, s)))
  BY DEF StockInv
<1>3. Holders(s)' = rest
  OBVIOUS
<1> HIDE DEF rest
<1>4. HeldUnits(rest, s) \subseteq HeldUnits(Holders(s), s) /\ Quantity(o, s) \in Nat
  BY <1>2, HeldJoin
<1>5. IsFiniteSet(HeldUnits(rest, s))
  BY <1>4, FS_Subset DEF StockInv
<1>6. /\ Cardinality(HeldUnits(rest, s)) \in Nat
      /\ Cardinality(HeldUnits(Holders(s), s)) = Cardinality(HeldUnits(rest, s)) + Quantity(o, s)
  BY <1>2, <1>5, HeldJoin
<1>7. /\ products[s] \in Nat /\ Stock[s] \in Nat
      /\ products[s] + Cardinality(HeldUnits(Holders(s), s)) = Stock[s]
  BY CartsAssumption DEF StockInv, StockConserved
<1>8. products'[s] >= 0 /\ products'[s] + Cardinality(HeldUnits(rest, s)) = Stock[s]
  BY <1>4, <1>6, <1>7
<1> QED BY <1>1, <1>2, <1>3, <1>5, <1>8 DEF StockInv

LEMMA NextStock == SagaInv /\ StockInv /\ [Next]_vars => StockInv'
<1> SUFFICES ASSUME SagaInv, StockInv, [Next]_vars PROVE StockInv'
  OBVIOUS
<1> DEFINE Whole(s) ==
      /\ IsFiniteSet(HeldUnits(Holders(s), s))'
      /\ (\A q \in Holders(s) : IsFiniteSet(UnitsOf(q, LinesOf(q, s))))'
      /\ products'[s] >= 0 /\ products'[s] + Cardinality(HeldUnits(Holders(s), s))' = Stock[s]
<1>0. ASSUME products' \in [Skus -> Nat], \A s \in Skus : Whole(s) PROVE StockInv'
  BY <1>0 DEF StockInv, StockConserved
<1>1. ASSUME UNCHANGED <<products, reservations>> PROVE StockInv'
  <2>1. \A s \in Skus : Holders(s)' = Holders(s) /\ products'[s] = products[s]
    BY <1>1 DEF Holders
  <2>2. \A s \in Skus : Whole(s)
    BY <2>1, ProductKept
  <2> QED BY <1>0, <1>1, <2>2 DEF StockInv
<1>2. ASSUME NEW r \in running, Reserve(r) PROVE StockInv'
  <2> DEFINE o == r.message.order
  <2>1. PICK p \in Orders : p = o
    BY DEF SagaInv, DeliveryInv, MessageInv
  <2>2. \/ UNCHANGED <<products, reservations>>
        \/ /\ tryReserve(p) = "reserved"
           /\ products' = [s \in Skus |-> products[s] - Quantity(p, s)]
           /\ reservations' = [reservations EXCEPT ![p] =
                [s \in Skus |-> IF s \in Lines(p) THEN "reserved" ELSE reservations[p][s]]]
    BY <1>2, <2>1 DEF Reserve
  <2> HIDE DEF o
  <2>3. CASE tryReserve(p) = "reserved" /\ ~UNCHANGED <<products, reservations>>
    <3>1. /\ products' = [s \in Skus |-> products[s] - Quantity(p, s)]
          /\ \A s \in Skus, q \in Orders :
               reservations'[q][s] = IF q = p /\ s \in Lines(p) THEN "reserved" ELSE reservations[q][s]
      BY <2>2, <2>3 DEF SagaInv, RowTypes
    <3>2. ASSUME NEW s \in Skus PROVE Whole(s) /\ products'[s] \in Nat
      <4>1. /\ IsFiniteSet(UnitsOf(p, LinesOf(p, s))) /\ products[s] >= Quantity(p, s)
            /\ s \in Lines(p) => reservations[p][s] = "none"
            /\ s \notin Lines(p) => Quantity(p, s) = 0
        BY <2>3, ReservedLines
      <4>2. products'[s] = products[s] - Quantity(p, s) /\ products[s] \in Nat /\ Quantity(p, s) \in Nat
        BY <3>1, <4>1, FS_CardinalityType DEF StockInv, Quantity
      <4>3. CASE s \in Lines(p)
        <5>1. p \notin Holders(s) /\ Holders(s)' = Holders(s) \cup {p}
          BY <3>1, <4>1, <4>3 DEF Holders
        <5>2. Whole(s)
          BY <4>1, <4>2, <5>1, ProductTaken
        <5> QED BY <4>1, <4>2, <5>2
      <4>4. CASE s \notin Lines(p)
        <5>1. Holders(s)' = Holders(s) /\ products'[s] = products[s]
          BY <3>1, <4>1, <4>2, <4>4 DEF Holders
        <5>2. Whole(s)
          BY <5>1, ProductKept
        <5> QED BY <4>2, <5>1, <5>2
      <4> QED BY <4>3, <4>4
    <3> QED BY <1>0, <3>1, <3>2
  <2> QED BY <1>1, <2>2, <2>3
<1>3. ASSUME NEW r \in running, Release(r) PROVE StockInv'
  <2> DEFINE o == r.message.order
  <2>1. PICK p \in Orders : p = o
    BY DEF SagaInv, DeliveryInv, MessageInv
  <2>2. PICK freed : freed = Released(p, r.seen)
    OBVIOUS
  <2>3. /\ products' = [s \in Skus |-> IF s \in freed THEN products[s] + Quantity(p, s) ELSE products[s]]
        /\ reservations' = [reservations EXCEPT ![p] =
             [s \in Skus |-> IF s \in freed THEN "released" ELSE reservations[p][s]]]
    BY <1>3, <2>1, <2>2 DEF Release
  <2>4. \A s \in freed : reservations[p][s] = "reserved"
    BY <2>2 DEF Released
  <2> HIDE DEF o
  <2>5. \A s \in Skus, q \in Orders :
          reservations'[q][s] = IF q = p /\ s \in freed THEN "released" ELSE reservations[q][s]
    BY <2>3 DEF SagaInv, RowTypes
  <2>6. ASSUME NEW s \in Skus PROVE Whole(s) /\ products'[s] \in Nat
    <3>1. CASE s \in freed
      <4>1. p \in Holders(s) /\ Holders(s)' = Holders(s) \ {p}
        BY <2>4, <2>5, <3>1 DEF Holders
      <4>2. products'[s] = products[s] + Quantity(p, s)
        BY <2>3, <3>1
      <4>3. Whole(s)
        BY <4>1, <4>2, ProductBack
      <4>4. products[s] \in Nat /\ Quantity(p, s) \in Nat
        BY <4>1, FS_CardinalityType DEF StockInv, Quantity
      <4> QED BY <4>2, <4>3, <4>4
    <3>2. CASE s \notin freed
      <4>1. Holders(s)' = Holders(s) /\ products'[s] = products[s]
        BY <2>3, <2>5, <3>2 DEF Holders
      <4>2. Whole(s)
        BY <4>1, ProductKept
      <4> QED BY <4>1, <4>2 DEF StockInv
    <3> QED BY <3>1, <3>2
  <2> QED BY <1>0, <2>3, <2>6
<1>4. ASSUME NEW r \in running, \/ PublishFailure(r) \/ Charge(r) \/ ConfirmShipment(r) \/ Compensate(r)
                                \/ FindReserved(r)
      PROVE  StockInv'
  BY <1>1, <1>4 DEF PublishFailure, Charge, ConfirmShipment, Compensate, FindReserved, appVars
<1>5. CASE \/ \E o \in Orders : PlaceOrder(o)
           \/ \E m \in messages : \E c \in Subscribers[m.topic] : Relay(m, c)
           \/ \E r \in running : Ack(r) \/ Die(r)
           \/ Quiescent \/ UNCHANGED vars
  BY <1>1, <1>5 DEF PlaceOrder, Relay, Ack, Die, Quiescent, vars, appVars
<1> QED BY <1>2, <1>3, <1>4, <1>5 DEF Next, Handle

\* Shelf and reserved rows hold the stock of the start between them, and the
\* shelf never runs below zero: no redelivery reserves twice, and no release that
\* raced another gives units back twice.
THEOREM StockIsConserved == Spec => []StockConserved
<1>1. StockInv => StockConserved
  BY DEF StockInv
<1> QED BY <1>1, InitStock, NextStock, SagaInvariant, PTL DEF Spec

-------------------------------------------------------------------------------
(* A charged order that fails: which deliveries its reservation has had. *)

Undecided(d) == \E r \in running : r.delivery = d /\ r.step # "handled"

\* The deliveries of o's reservation whose handler has published its outcome, or
\* is gone.
Decided(o) == {d \in claims : /\ d.consumer = "inventory.reserve-stock"
                              /\ d.message \in Rows("orders.placed", o) /\ ~Undecided(d)}

\* Deliveries are numbered, and each is handled by itself.
ClaimInv ==
  /\ IsFiniteSet(claims)
  /\ \A d \in claims : d.n \in Nat /\ d.n <= Tries(d.message, d.consumer)
  /\ \A r \in running : /\ "step" \in DOMAIN r /\ r.delivery \in claims
                        /\ r.delivery.message = r.message /\ r.delivery.consumer = r.consumer
  /\ \A r, q \in running : r.delivery = q.delivery => r = q

\* Each outcome of a reservation was published by a delivery of its own, and an
\* order fails by a failure message only.
VerdictAt(o) ==
  /\ orders[o] = "none" => Rows("orders.placed", o) = {}
  /\ \A m, k \in Rows("orders.placed", o) : m = k
  /\ Rows("StockReservedEvent", o) # {} => Decided(o) # {}
  /\ Rows("StockReservationFailedEvent", o) # {} => Decided(o) # {}
  /\ Rows("StockReservedEvent", o) # {} /\ Rows("StockReservationFailedEvent", o) # {} =>
       \E d, e \in Decided(o) : d # e
  /\ orders[o] = "failed" =>
       Rows("PaymentFailedEvent", o) # {} \/ Rows("StockReservationFailedEvent", o) # {}

VerdictInv == ClaimInv /\ \A o \in Orders : VerdictAt(o)

\* No step takes a decision back.
Kept == claims \subseteq claims' /\ \A d \in claims : Undecided(d)' => Undecided(d)

LEMMA ClaimEffect ==
  ASSUME ClaimInv, NEW m, NEW c, Claim(m, c)
  PROVE  ClaimInv' /\ Kept
<1> DEFINE S(k, b) == {x \in claims : x.message = k /\ x.consumer = b}
<1>1. PICK N, d, new :
        /\ N = Tries(m, c)
        /\ d = [message |-> m, consumer |-> c, n |-> N + 1]
        /\ new = [delivery |-> d, message |-> m, consumer |-> c, step |-> "start", seen |-> {}]
        /\ claims' = claims \cup {d} /\ running' = running \cup {new}
  BY DEF Claim
<1>2. ASSUME NEW k, NEW b
      PROVE  IsFiniteSet(S(k, b)) /\ Cardinality(S(k, b)) \in Nat /\ Tries(k, b) = Cardinality(S(k, b))
  <2>1. IsFiniteSet(S(k, b))
    BY FS_Subset DEF ClaimInv
  <2> QED BY <2>1, FS_CardinalityType DEF Tries
<1>3. N \in Nat
  BY <1>1, <1>2
<1>4. d.message = m /\ d.consumer = c /\ d.n = N + 1
  BY <1>1
<1>5. new.delivery = d /\ new.message = m /\ new.consumer = c /\ "step" \in DOMAIN new
  BY <1>1
<1>6. d \notin claims
  BY <1>1, <1>3, <1>4 DEF ClaimInv
<1>7. ASSUME NEW k, NEW b
      PROVE  /\ Tries(k, b) \in Nat /\ Tries(k, b)' \in Nat /\ Tries(k, b)' >= Tries(k, b)
             /\ k = m /\ b = c => Tries(k, b)' = N + 1
  <2>1. PICK T : T = S(k, b)
    OBVIOUS
  <2>2. IsFiniteSet(T) /\ Cardinality(T) \in Nat /\ Tries(k, b) = Cardinality(T)
    BY <1>2, <2>1
  <2>3. CASE k = m /\ b = c
    <3>1. Tries(k, b)' = Cardinality(T \cup {d}) /\ d \notin T
      <4>1. S(k, b)' = T \cup {d}
        BY <1>1, <1>4, <2>1, <2>3
      <4> QED BY <1>6, <2>1, <4>1 DEF Tries
    <3>2. Cardinality(T \cup {d}) = Cardinality(T) + 1
      BY <2>2, <3>1, FS_AddElement
    <3> QED BY <1>1, <2>2, <2>3, <3>1, <3>2
  <2>4. CASE ~(k = m /\ b = c)
    <3>1. S(k, b)' = T
      BY <1>1, <1>4, <2>1, <2>4
    <3>2. Tries(k, b)' = Cardinality(T)
      BY <3>1 DEF Tries
    <3> QED BY <2>2, <2>4, <3>2
  <2> QED BY <2>3, <2>4
<1>8. IsFiniteSet(claims)'
  BY <1>1, FS_AddElement DEF ClaimInv
<1>9. \A x \in claims' : x.n \in Nat /\ x.n <= Tries(x.message, x.consumer)'
  <2>1. ASSUME NEW x \in claims PROVE x.n \in Nat /\ x.n <= Tries(x.message, x.consumer)'
    <3>1. x.n \in Nat /\ x.n <= Tries(x.message, x.consumer)
      BY <2>1 DEF ClaimInv
    <3>2. PICK k, b : k = x.message /\ b = x.consumer
      OBVIOUS
    <3>3. /\ Tries(k, b) \in Nat /\ Tries(k, b)' \in Nat /\ Tries(k, b)' >= Tries(k, b)
      BY <1>7
    <3> QED BY <3>1, <3>2, <3>3
  <2>2. d.n \in Nat /\ d.n <= Tries(d.message, d.consumer)'
    <3>1. Tries(m, c)' = N + 1
      BY <1>7
    <3> QED BY <1>3, <1>4, <3>1
  <2> QED BY <1>1, <2>1, <2>2
<1>10. ClaimInv'
  <2>1. \A r \in running' : /\ "step" \in DOMAIN r /\ r.delivery \in claims'
                            /\ r.delivery.message = r.message /\ r.delivery.consumer = r.consumer
    BY <1>1, <1>4, <1>5 DEF ClaimInv
  <2>2. \A r \in running : r.delivery # d
    BY <1>6 DEF ClaimInv
  <2>3. \A r, q \in running' : r.delivery = q.delivery => r = q
    BY <1>1, <1>5, <2>2 DEF ClaimInv
  <2> QED BY <1>8, <1>9, <2>1, <2>3 DEF ClaimInv
<1>11. Kept
  BY <1>1, <1>5, <1>6 DEF Kept, Undecided
<1> QED BY <1>10, <1>11

LEMMA LeaveEffect ==
  ASSUME ClaimInv, NEW r \in running, Acknowledge(r) \/ Dies(r) \/ Throws(r)
  PROVE  ClaimInv' /\ Kept
<1>1. claims' = claims /\ running' = running \ {r}
  BY DEF Acknowledge, Dies, Throws
<1>2. \A k, b : Tries(k, b)' = Tries(k, b)
  BY <1>1 DEF Tries
<1> QED BY <1>1, <1>2 DEF ClaimInv, Kept, Undecided

LEMMA MoveEffect ==
  ASSUME ClaimInv, NEW r \in running, r.step # "handled", NEW step, NEW seen, NEW sent,
         Advance(r, step, seen, sent)
  PROVE  /\ ClaimInv' /\ Kept /\ claims' = claims
         /\ Undecided(r.delivery) /\ (step = "handled" => ~Undecided(r.delivery)')
<1> DEFINE moved == [r EXCEPT !.step = step, !.seen = seen]
<1>1. claims' = claims /\ running' = (running \ {r}) \cup {moved}
  BY DEF Advance
<1>2. /\ moved.delivery = r.delivery /\ moved.message = r.message /\ moved.consumer = r.consumer
      /\ moved.step = step /\ DOMAIN moved = DOMAIN r
  BY DEF ClaimInv
<1> HIDE DEF moved
<1>3. \A k, b : Tries(k, b)' = Tries(k, b)
  BY <1>1 DEF Tries
<1>4. ClaimInv'
  BY <1>1, <1>2, <1>3 DEF ClaimInv
<1>5. Kept /\ Undecided(r.delivery)
  BY <1>1, <1>2 DEF Kept, Undecided
<1>6. step = "handled" => ~Undecided(r.delivery)'
  BY <1>1, <1>2 DEF ClaimInv, Undecided
<1> QED BY <1>1, <1>4, <1>5, <1>6

\* An order that a step leaves alone keeps its verdicts; more payments may have
\* failed meanwhile.
LEMMA VerdictKept ==
  ASSUME NEW o \in Orders, VerdictAt(o), Kept, orders'[o] = orders[o],
         Rows("PaymentFailedEvent", o) \subseteq Rows("PaymentFailedEvent", o)',
         \A t \in {"orders.placed", "StockReservedEvent", "StockReservationFailedEvent"} :
           Rows(t, o)' = Rows(t, o)
  PROVE  VerdictAt(o)'
<1>1. Decided(o) \subseteq Decided(o)'
  BY DEF Decided, Kept
<1> QED BY <1>1 DEF VerdictAt

LEMMA InitVerdict == Init => VerdictInv
BY FS_EmptySet DEF Init, RelayInit, VerdictInv, ClaimInv, VerdictAt, Rows

\* A handler that publishes nothing about a reservation.
LEMMA OtherHandler ==
  ASSUME SagaInv, VerdictInv, NEW r \in running, r.step # "handled", NEW step, NEW seen, NEW sent,
         Advance(r, step, seen, sent),
         \A m \in sent : m.topic \in {"PaymentChargedEvent", "PaymentFailedEvent", "orders.confirmed"},
         \A o \in Orders : orders'[o] = orders[o] \/ orders'[o] = "confirmed" \/
           (orders'[o] = "failed" /\ orders[o] = "placed" /\
              Rows("PaymentFailedEvent", o) \cup Rows("StockReservationFailedEvent", o) # {})
  PROVE  VerdictInv'
<1>1. ClaimInv' /\ Kept
  BY MoveEffect DEF VerdictInv
<1>2. messages' = messages \cup sent
  BY DEF Advance
<1>3. ASSUME NEW o \in Orders PROVE VerdictAt(o)'
  <2>1. /\ Rows("PaymentFailedEvent", o) \subseteq Rows("PaymentFailedEvent", o)'
        /\ \A t \in {"orders.placed", "StockReservedEvent", "StockReservationFailedEvent"} :
             Rows(t, o)' = Rows(t, o)
    BY <1>2 DEF Rows
  <2>2. Decided(o) \subseteq Decided(o)'
    BY <1>1, <2>1 DEF Decided, Kept
  <2> QED BY <2>1, <2>2 DEF VerdictInv, VerdictAt
<1> QED BY <1>1, <1>3 DEF VerdictInv

\* The handler of a reservation publishes its outcome: until now its delivery was
\* undecided, so an earlier outcome came from another one.
LEMMA OutcomeHandler ==
  ASSUME SagaInv, VerdictInv, NEW r \in running, r.step # "handled",
         r.consumer = "inventory.reserve-stock", NEW o, o = r.message.order,
         NEW topic \in {"StockReservedEvent", "StockReservationFailedEvent"},
         Returns(r, {Message(topic, o)}), orders' = orders
  PROVE  VerdictInv'
<1>0. o \in Orders /\ r.message \in Rows("orders.placed", o)
  BY DEF SagaInv, DeliveryInv, MessageInv, Fed, Feeds, Rows
<1>1. Advance(r, "handled", {}, {Message(topic, o)})
  BY DEF Returns
<1>2. /\ ClaimInv' /\ Kept /\ claims' = claims
      /\ Undecided(r.delivery) /\ ~Undecided(r.delivery)'
  BY <1>1, MoveEffect DEF VerdictInv
<1>3. \A t, q : Rows(t, q)' = IF t = topic /\ q = o THEN Rows(t, q) \cup {Message(topic, o)} ELSE Rows(t, q)
  BY <1>1, PublishedRows DEF Advance
<1>4. \A q \in Orders \ {o} : VerdictAt(q)'
  BY <1>2, <1>3, VerdictKept DEF VerdictInv
<1>5. VerdictAt(o)'
  <2>1. Decided(o) \subseteq Decided(o)'
    BY <1>2, <1>3 DEF Decided, Kept
  <2>2. r.delivery \notin Decided(o) /\ r.delivery \in Decided(o)'
    BY <1>0, <1>2, <1>3 DEF Decided, VerdictInv, ClaimInv
  <2>3. VerdictAt(o)
    BY <1>0 DEF VerdictInv
  <2>4. \A m, k \in Rows("orders.placed", o)' : m = k
    BY <1>3, <2>3 DEF VerdictAt
  <2>5. Rows("StockReservedEvent", o)' # {} /\ Rows("StockReservationFailedEvent", o)' # {} =>
          \E d, e \in Decided(o)' : d # e
    BY <1>3, <2>1, <2>2, <2>3 DEF VerdictAt
  <2>6. /\ orders'[o] = "none" => Rows("orders.placed", o)' = {}
        /\ orders'[o] = "failed" => \/ Rows("PaymentFailedEvent", o)' # {}
                                    \/ Rows("StockReservationFailedEvent", o)' # {}
    BY <1>3, <2>3 DEF VerdictAt
  <2> QED BY <2>2, <2>4, <2>5, <2>6 DEF VerdictAt
<1> QED BY <1>2, <1>4, <1>5 DEF VerdictInv

LEMMA HandleVerdict ==
  ASSUME SagaInv, VerdictInv, NEW r \in running, Handle(r)
  PROVE  VerdictInv'
<1> DEFINE o == r.message.order
<1>0. r.step # "handled" /\ o \in Orders
  BY DEF Handle, Reserve, PublishFailure, Charge, ConfirmShipment, Compensate, FindReserved, Release, At,
         SagaInv, DeliveryInv, MessageInv
<1>1. CASE Reserve(r)
  <2>1. orders' = orders /\ r.consumer = "inventory.reserve-stock"
    BY <1>1 DEF Reserve, At
  <2>2. CASE Returns(r, {Message("StockReservedEvent", o)})
    BY <1>0, <2>1, <2>2, OutcomeHandler
  <2>3. CASE Advance(r, "outOfStock", {}, {})
    BY <1>0, <2>1, <2>3, OtherHandler
  <2>4. CASE Throws(r)
    <3>1. ClaimInv' /\ Kept /\ messages' = messages
      BY <2>4, LeaveEffect DEF VerdictInv, Throws
    <3> QED BY <2>1, <3>1, VerdictKept, PublishedRows DEF VerdictInv
  <2> QED BY <1>1, <2>2, <2>3, <2>4 DEF Reserve
<1>2. CASE PublishFailure(r)
  BY <1>0, <1>2, OutcomeHandler DEF PublishFailure, FailureMessages, At, appVars
<1>3. CASE Charge(r)
  <2>1. /\ orders' = orders
        /\ \E sent : /\ Returns(r, sent)
                     /\ \A m \in sent : m.topic \in {"PaymentChargedEvent", "PaymentFailedEvent"}
    BY <1>3, MessageRow DEF Charge, OutcomeEvents
  <2> QED BY <1>0, <2>1, OtherHandler DEF Returns
<1>4. CASE ConfirmShipment(r)
  <2>1. \E sent : Returns(r, sent) /\ \A m \in sent : m.topic = "orders.confirmed"
    BY <1>4, MessageRow DEF ConfirmShipment
  <2>2. orders' = orders \/ orders' = [orders EXCEPT ![o] = "confirmed"]
    BY <1>4 DEF ConfirmShipment
  <2>3. \A q \in Orders : orders'[q] = orders[q] \/ orders'[q] = "confirmed"
    BY <2>2 DEF SagaInv, RowTypes
  <2> QED BY <1>0, <2>1, <2>3, OtherHandler DEF Returns
<1>5. CASE Compensate(r)
  <2>1. /\ Returns(r, {})
        /\ orders' = orders \/ (orders[o] = "placed" /\ orders' = [orders EXCEPT ![o] = "failed"])
    BY <1>5 DEF Compensate, Placed
  <2>2. r.message \in Rows("PaymentFailedEvent", o) \cup Rows("StockReservationFailedEvent", o)
    BY <1>5 DEF Compensate, At, SagaInv, DeliveryInv, Fed, Feeds, Rows
  <2>3. \A q \in Orders : \/ orders'[q] = orders[q]
                          \/ /\ orders'[q] = "failed" /\ orders[q] = "placed"
                             /\ Rows("PaymentFailedEvent", q) \cup Rows("StockReservationFailedEvent", q) # {}
    BY <2>1, <2>2 DEF SagaInv, RowTypes
  <2> QED BY <1>0, <2>1, <2>3, OtherHandler DEF Returns
<1>6. CASE FindReserved(r) \/ Release(r)
  <2>1. orders' = orders /\ \E step, seen : Advance(r, step, seen, {})
    BY <1>6 DEF FindReserved, Release, Returns, appVars
  <2> QED BY <1>0, <2>1, OtherHandler
<1> QED BY <1>1, <1>2, <1>3, <1>4, <1>5, <1>6 DEF Handle

LEMMA NextVerdict ==
  ASSUME SagaInv, VerdictInv, [Next]_vars
  PROVE  VerdictInv'
<1>1. ASSUME ClaimInv', Kept, messages' = messages, orders' = orders PROVE VerdictInv'
  BY <1>1, VerdictKept, PublishedRows DEF VerdictInv
<1>2. CASE \/ \E m \in messages : \E c \in Subscribers[m.topic] : Relay(m, c)
           \/ \E r \in running : Ack(r) \/ Die(r)
  BY <1>1, <1>2, ClaimEffect, LeaveEffect
     DEF Relay, Ack, Die, Claim, Acknowledge, Dies, appVars, VerdictInv
<1>3. CASE UNCHANGED vars
  <2>1. UNCHANGED <<messages, claims, running, orders>>
    BY <1>3 DEF vars, relayVars, appVars
  <2>2. ClaimInv' /\ Kept
    BY <2>1 DEF VerdictInv, ClaimInv, Tries, Kept, Undecided
  <2> QED BY <1>1, <2>1, <2>2
<1>4. ASSUME NEW o \in Orders, PlaceOrder(o) PROVE VerdictInv'
  <2>1. /\ orders[o] = "none" /\ orders' = [orders EXCEPT ![o] = "placed"]
        /\ UNCHANGED <<claims, running>> /\ messages' = messages \cup {Message("orders.placed", o)}
    BY <1>4 DEF PlaceOrder
  <2>2. ClaimInv' /\ Kept
    BY <2>1 DEF VerdictInv, ClaimInv, Tries, Kept, Undecided
  <2>3. \A t, q : Rows(t, q)' = IF t = "orders.placed" /\ q = o
                                THEN Rows(t, q) \cup {Message("orders.placed", o)} ELSE Rows(t, q)
    BY <2>1, PublishedRows
  <2>4. \A q \in Orders \ {o} : VerdictAt(q)'
    BY <2>1, <2>2, <2>3, VerdictKept DEF VerdictInv, SagaInv, RowTypes
  <2>5. orders'[o] = "placed" /\ Decided(o) \subseteq Decided(o)'
    BY <2>1, <2>2, <2>3 DEF SagaInv, RowTypes, Decided, Kept
  <2>6. VerdictAt(o)'
    BY <2>1, <2>3, <2>5 DEF VerdictInv, VerdictAt
  <2> QED BY <2>2, <2>4, <2>6 DEF VerdictInv
<1> QED BY <1>2, <1>3, <1>4, HandleVerdict DEF Next, Quiescent

\* A charged order fails only where its reservation was delivered more than once: one
\* delivery publishes one outcome, however messages overlap and handlers die.
THEOREM ChargedFailsByRedelivery == Spec => []ChargedFailsOnlyIfRedelivered
<1>1. Spec => []VerdictInv
  BY InitVerdict, NextVerdict, SagaInvariant, PTL DEF Spec
<1>2. SagaInv /\ VerdictInv => ChargedFailsOnlyIfRedelivered
  <2> SUFFICES ASSUME SagaInv, VerdictInv, NEW o \in Orders, orders[o] = "failed", payments[o] = "charged"
               PROVE  \E m \in messages : /\ m.topic = "orders.placed" /\ m.order = o
                                          /\ Tries(m, "inventory.reserve-stock") > 1
    BY DEF ChargedFailsOnlyIfRedelivered
  <2>1. PICK d, e \in Decided(o) : d # e
    BY DEF SagaInv, OrderAt, VerdictInv, VerdictAt
  <2>2. PICK m \in Rows("orders.placed", o) : d.message = m /\ e.message = m
    BY <2>1 DEF Decided, VerdictInv, VerdictAt
  <2>3. PICK T : T = {x \in claims : x.message = m /\ x.consumer = "inventory.reserve-stock"}
    OBVIOUS
  <2>4. IsFiniteSet(T) /\ Tries(m, "inventory.reserve-stock") = Cardinality(T) /\ {d, e} \subseteq T
    <3>1. IsFiniteSet(T)
      BY <2>3, FS_Subset DEF VerdictInv, ClaimInv
    <3> QED BY <2>1, <2>2, <2>3, <3>1 DEF Tries, Decided
  <2>5. Cardinality({d, e}) = 2
    <3>1. IsFiniteSet({d}) /\ Cardinality({d}) = 1
      BY FS_Singleton
    <3>2. Cardinality({d} \cup {e}) = Cardinality({d}) + 1
      BY <2>1, <3>1, FS_AddElement
    <3>3. {d, e} = {d} \cup {e}
      OBVIOUS
    <3> QED BY <3>1, <3>2, <3>3
  <2>6. Cardinality({d, e}) <= Cardinality(T) /\ Cardinality(T) \in Nat
    BY <2>4, FS_Subset, FS_CardinalityType
  <2> QED BY <2>2, <2>4, <2>5, <2>6 DEF Rows
<1> QED BY <1>1, <1>2, SagaInvariant, PTL

===============================================================================
