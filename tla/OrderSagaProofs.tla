---------------------------- MODULE OrderSagaProofs ----------------------------
(***************************************************************************)
(* Proofs about the saga of examples/saga-pattern, for every set of        *)
(* orders, requests and products, any stock, and any number of deliveries, *)
(* redeliveries, lost leases and handlers that die.                        *)
(***************************************************************************)
EXTENDS OrderSaga, FiniteSetTheorems, TLAPS

Rows(topic, o) == {m \in messages : m.topic = topic /\ m.order = o}
One(S) == \E x : S = {x}

Statuses == {"none", "placed", "reserved", "failed-reservation", "shipped", "failed-payment"}

Topics == DOMAIN Subscribers
Consumers == UNION {Subscribers[t] : t \in Topics}

\* A delivery under way is of a message in the outbox.
DeliveryInv == running \subseteq [delivery : claims, message : messages, consumer : Consumers,
                                 step : {"start", "handled"}, seen : SUBSET Skus]

MessageInv == \A m \in messages : m.order \in Orders /\ m.topic \in Topics

\* What the rows say of an order's status.
StatusAt(o) ==
  /\ o \notin reservations => orders[o] \in {"none", "placed"}
  /\ orders[o] = "none" => o \notin reservations
  /\ orders[o] \in {"shipped", "failed-payment"} => payments[o] # "none"
  /\ orders[o] = "shipped" => payments[o] = "charged"
  /\ orders[o] = "failed-payment" => payments[o] = "failed"

\* Each message was published by the step that wrote the row, and once.
OutboxAt(o) ==
  /\ Rows("OrderPlacedEvent", o) # {} => orders[o] # "none"
  /\ o \notin reservations =>
       Rows("InventoryReservedEvent", o) = {} /\ Rows("InventoryReservationFailedEvent", o) = {}
  /\ o \in reservations =>
       \/ One(Rows("InventoryReservedEvent", o)) /\ Rows("InventoryReservationFailedEvent", o) = {}
       \/ Rows("InventoryReservedEvent", o) = {} /\ One(Rows("InventoryReservationFailedEvent", o))
  /\ Rows("InventoryReservedEvent", o) # {} => orders[o] \in {"reserved", "shipped", "failed-payment"}
  /\ payments[o] # "none" => Rows("InventoryReservedEvent", o) # {}
  /\ IF payments[o] = "charged" THEN One(Rows("PaymentChargedEvent", o))
     ELSE Rows("PaymentChargedEvent", o) = {}
  /\ IF payments[o] = "failed" THEN One(Rows("PaymentFailedEvent", o))
     ELSE Rows("PaymentFailedEvent", o) = {}

SagaInv ==
  /\ orders \in [Orders -> Statuses]
  /\ payments \in [Orders -> {"none", "charged", "failed"}]
  /\ reservations \subseteq Orders
  /\ DeliveryInv /\ MessageInv
  /\ \A o \in Orders : StatusAt(o) /\ OutboxAt(o)

LEMMA MessageRow ==
  ASSUME NEW topic, NEW o
  PROVE  Message(topic, o).topic = topic /\ Message(topic, o).order = o
BY DEF Message

\* What a handler that returns does to the outbox and to the deliveries.
LEMMA ReturnsEffect ==
  ASSUME DeliveryInv, MessageInv, NEW r \in running, NEW sent,
         \A m \in sent : m.order \in Orders /\ m.topic \in Topics, Returns(r, sent)
  PROVE  DeliveryInv' /\ MessageInv' /\ messages' = messages \cup sent
<1>1. /\ messages' = messages \cup sent /\ claims' = claims
      /\ running' = (running \ {r}) \cup {[r EXCEPT !.step = "handled", !.seen = {}]}
  BY DEF Returns, Advance
<1>2. DeliveryInv'
  BY <1>1 DEF DeliveryInv
<1> QED BY <1>1, <1>2 DEF MessageInv

\* The relay's own steps.
LEMMA RelayEffect ==
  ASSUME DeliveryInv, MessageInv,
         \/ \E m \in messages : \E c \in Subscribers[m.topic] : Claim(m, c)
         \/ \E r \in running : Acknowledge(r) \/ Dies(r)
  PROVE  DeliveryInv' /\ MessageInv' /\ messages' = messages
<1>1. CASE \E r \in running : Acknowledge(r) \/ Dies(r)
  BY <1>1 DEF Acknowledge, Dies, DeliveryInv, MessageInv
<1>2. ASSUME NEW m \in messages, NEW c \in Subscribers[m.topic], Claim(m, c)
      PROVE  DeliveryInv' /\ MessageInv' /\ messages' = messages
  <2> DEFINE d == [message |-> m, consumer |-> c, n |-> Tries(m, c) + 1]
  <2>1. /\ messages' = messages /\ claims' = claims \cup {d}
        /\ running' = running \cup {[delivery |-> d, message |-> m, consumer |-> c,
                                     step |-> "start", seen |-> {}]}
    BY <1>2 DEF Claim
  <2>2. c \in Consumers
    BY <1>2 DEF Consumers, MessageInv
  <2> HIDE DEF d
  <2> QED BY <1>2, <2>1, <2>2 DEF DeliveryInv, MessageInv
<1> QED BY <1>1, <1>2

\* Publishing one message adds it to the rows of its topic and order only.
LEMMA PublishedRows ==
  ASSUME NEW topic, NEW o
  PROVE  /\ messages' = messages \cup {Message(topic, o)} =>
              \A t, q : Rows(t, q)' = IF t = topic /\ q = o
                                      THEN Rows(t, q) \cup {Message(topic, o)} ELSE Rows(t, q)
         /\ messages' = messages => \A t, q : Rows(t, q)' = Rows(t, q)
BY MessageRow DEF Rows

\* An order is not disturbed by a step that leaves its columns and its messages.
LEMMA OtherOrder ==
  ASSUME NEW q \in Orders, StatusAt(q) /\ OutboxAt(q),
         orders'[q] = orders[q], payments'[q] = payments[q], q \in reservations' <=> q \in reservations,
         \A t : Rows(t, q)' = Rows(t, q)
  PROVE  StatusAt(q)' /\ OutboxAt(q)'
BY DEF StatusAt, OutboxAt

LEMMA InitSaga == Init => SagaInv
BY DEF Init, RelayInit, SagaInv, DeliveryInv, MessageInv, StatusAt, OutboxAt, Rows, Statuses

LEMMA PlaceStep ==
  ASSUME SagaInv, NEW o \in Orders, PlaceOrder(o)
  PROVE  SagaInv'
<1>1. /\ orders[o] = "none" /\ orders' = [orders EXCEPT ![o] = "placed"]
      /\ payments' = payments /\ reservations' = reservations /\ claims' = claims /\ running' = running
      /\ messages' = messages \cup {Message("OrderPlacedEvent", o)}
  BY DEF PlaceOrder
<1>2. DeliveryInv' /\ MessageInv'
  BY <1>1, MessageRow DEF SagaInv, DeliveryInv, MessageInv, Topics, Subscribers
<1>3. \A t, q : Rows(t, q)' = IF t = "OrderPlacedEvent" /\ q = o
                              THEN Rows(t, q) \cup {Message("OrderPlacedEvent", o)} ELSE Rows(t, q)
  BY <1>1, PublishedRows
<1>4. \A q \in Orders \ {o} : StatusAt(q)' /\ OutboxAt(q)'
  BY <1>1, <1>3, OtherOrder DEF SagaInv
<1>5. StatusAt(o)' /\ OutboxAt(o)'
  BY <1>1, <1>3 DEF SagaInv, StatusAt, OutboxAt
<1> QED BY <1>1, <1>2, <1>4, <1>5 DEF SagaInv, Statuses

LEMMA ReserveStep ==
  ASSUME SagaInv, NEW r \in running, Reserve(r)
  PROVE  /\ SagaInv'
         /\ \A q \in Orders : orders[q] # orders'[q] => <<orders[q], orders'[q]>> \in Walk
<1> DEFINE o == r.message.order
<1>1. /\ o \in Orders /\ r.message \in Rows("OrderPlacedEvent", o)
      /\ DeliveryInv /\ MessageInv
  BY DEF SagaInv, DeliveryInv, MessageInv, Reserve, Delivered, Rows
<1> HIDE DEF o
<1>2. CASE o \in reservations
  <2>1. Returns(r, {}) /\ UNCHANGED <<orders, payments, reservations>>
    BY <1>2 DEF Reserve, o
  <2>2. DeliveryInv' /\ MessageInv' /\ messages' = messages
    BY <1>1, <2>1, ReturnsEffect
  <2> QED BY <2>1, <2>2, OtherOrder, PublishedRows DEF SagaInv
<1>3. CASE o \notin reservations
  <2>1. PICK t \in {"InventoryReservedEvent", "InventoryReservationFailedEvent"} :
          /\ Returns(r, {Message(t, o)}) /\ reservations' = reservations \cup {o} /\ payments' = payments
          /\ orders' = [orders EXCEPT ![o] = IF t = "InventoryReservedEvent" THEN "reserved"
                                             ELSE "failed-reservation"]
    BY <1>3 DEF Reserve, Reserved, o
  <2>2. /\ DeliveryInv' /\ MessageInv' /\ messages' = messages \cup {Message(t, o)}
    BY <1>1, <2>1, ReturnsEffect, MessageRow DEF Topics, Subscribers
  <2>3. \A s, q : Rows(s, q)' = IF s = t /\ q = o THEN Rows(s, q) \cup {Message(t, o)} ELSE Rows(s, q)
    BY <2>2, PublishedRows
  <2>4. \A q \in Orders \ {o} : StatusAt(q)' /\ OutboxAt(q)'
    BY <2>1, <2>3, OtherOrder DEF SagaInv
  <2>5. orders[o] = "placed" /\ payments[o] = "none"
    BY <1>1, <1>3 DEF SagaInv, StatusAt, OutboxAt
  <2>6. StatusAt(o)'
    BY <1>1, <2>1, <2>5 DEF SagaInv, StatusAt
  <2>7. OutboxAt(o)'
    BY <1>1, <1>3, <2>1, <2>3, <2>5 DEF SagaInv, OutboxAt, One
  <2> QED BY <1>1, <2>1, <2>2, <2>4, <2>5, <2>6, <2>7 DEF SagaInv, Statuses, Walk
<1> QED BY <1>2, <1>3

LEMMA ChargeStep ==
  ASSUME SagaInv, NEW r \in running, Charge(r)
  PROVE  SagaInv' /\ orders' = orders
<1> DEFINE o == r.message.order
<1>1. /\ o \in Orders /\ r.message \in Rows("InventoryReservedEvent", o)
      /\ DeliveryInv /\ MessageInv /\ orders' = orders /\ reservations' = reservations
  BY DEF SagaInv, DeliveryInv, MessageInv, Charge, Delivered, Rows
<1> HIDE DEF o
<1>2. CASE AlreadyPaid(o)
  <2>1. Returns(r, {}) /\ payments' = payments
    BY <1>2 DEF Charge, o
  <2>2. DeliveryInv' /\ MessageInv' /\ messages' = messages
    BY <1>1, <2>1, ReturnsEffect
  <2> QED BY <1>1, <2>1, <2>2, OtherOrder, PublishedRows DEF SagaInv
<1>3. CASE ~AlreadyPaid(o)
  <2>1. PICK t \in {"PaymentChargedEvent", "PaymentFailedEvent"} :
          /\ Returns(r, {Message(t, o)})
          /\ payments' = [payments EXCEPT ![o] = IF t = "PaymentChargedEvent" THEN "charged" ELSE "failed"]
    BY <1>3 DEF Charge, o
  <2>2. /\ DeliveryInv' /\ MessageInv' /\ messages' = messages \cup {Message(t, o)}
    BY <1>1, <2>1, ReturnsEffect, MessageRow DEF Topics, Subscribers
  <2>3. \A s, q : Rows(s, q)' = IF s = t /\ q = o THEN Rows(s, q) \cup {Message(t, o)} ELSE Rows(s, q)
    BY <2>2, PublishedRows
  <2>4. \A q \in Orders \ {o} : StatusAt(q)' /\ OutboxAt(q)'
    BY <1>1, <2>1, <2>3, OtherOrder DEF SagaInv
  <2>5. orders[o] = "reserved" /\ payments[o] = "none"
    BY <1>1, <1>3 DEF SagaInv, StatusAt, OutboxAt, AlreadyPaid
  <2>6. StatusAt(o)'
    BY <1>1, <2>1, <2>5 DEF SagaInv, StatusAt
  <2>7. OutboxAt(o)'
    BY <1>1, <2>1, <2>3, <2>5 DEF SagaInv, OutboxAt, One
  <2> QED BY <1>1, <2>1, <2>2, <2>4, <2>6, <2>7 DEF SagaInv
<1> QED BY <1>2, <1>3

LEMMA ShipStep ==
  ASSUME SagaInv, NEW r \in running, Ship(r)
  PROVE  /\ SagaInv'
         /\ \A q \in Orders : orders[q] # orders'[q] => <<orders[q], orders'[q]>> \in Walk
<1> DEFINE o == r.message.order
<1>1. /\ o \in Orders /\ r.message \in Rows("PaymentChargedEvent", o)
      /\ DeliveryInv /\ MessageInv /\ payments' = payments /\ reservations' = reservations
  BY DEF SagaInv, DeliveryInv, MessageInv, Ship, Delivered, Rows
<1> HIDE DEF o
<1>2. CASE orders[o] # "reserved"
  <2>1. Returns(r, {}) /\ orders' = orders
    BY <1>2 DEF Ship, o
  <2>2. DeliveryInv' /\ MessageInv' /\ messages' = messages
    BY <1>1, <2>1, ReturnsEffect
  <2> QED BY <1>1, <2>1, <2>2, OtherOrder, PublishedRows DEF SagaInv
<1>3. CASE orders[o] = "reserved"
  <2>1. Returns(r, {Message("OrderShippedEvent", o)}) /\ orders' = [orders EXCEPT ![o] = "shipped"]
    BY <1>3 DEF Ship, o
  <2>2. DeliveryInv' /\ MessageInv' /\ messages' = messages \cup {Message("OrderShippedEvent", o)}
    BY <1>1, <2>1, ReturnsEffect, MessageRow DEF Topics, Subscribers
  <2>3. \A s, q : s # "OrderShippedEvent" \/ q # o => Rows(s, q)' = Rows(s, q)
    BY <2>2, PublishedRows
  <2>4. \A q \in Orders \ {o} : StatusAt(q)' /\ OutboxAt(q)'
    BY <1>1, <2>1, <2>3, OtherOrder DEF SagaInv
  <2>5. payments[o] = "charged"
    BY <1>1 DEF SagaInv, OutboxAt
  <2>6. StatusAt(o)' /\ OutboxAt(o)'
    BY <1>1, <1>3, <2>1, <2>3, <2>5 DEF SagaInv, StatusAt, OutboxAt
  <2> QED BY <1>1, <1>3, <2>1, <2>2, <2>4, <2>6 DEF SagaInv, Statuses, Walk
<1> QED BY <1>2, <1>3

LEMMA CompensateStep ==
  ASSUME SagaInv, NEW r \in running, OnReservationFailed(r) \/ OnPaymentFailed(r)
  PROVE  /\ SagaInv'
         /\ \A q \in Orders : orders[q] # orders'[q] => <<orders[q], orders'[q]>> \in Walk
<1>1. Returns(r, {}) /\ payments' = payments /\ reservations' = reservations /\ DeliveryInv /\ MessageInv
  BY DEF SagaInv, OnReservationFailed, OnPaymentFailed, sagaVars
<1>2. DeliveryInv' /\ MessageInv' /\ messages' = messages
  BY <1>1, ReturnsEffect
<1>3. \A t, q : Rows(t, q)' = Rows(t, q)
  BY <1>2, PublishedRows
<1>4. CASE orders' = orders
  BY <1>1, <1>2, <1>3, <1>4, OtherOrder DEF SagaInv
<1>5. CASE orders' # orders
  <2> DEFINE o == r.message.order
  <2>1. /\ o \in Orders /\ r.message \in Rows("PaymentFailedEvent", o)
        /\ orders[o] = "reserved" /\ orders' = [orders EXCEPT ![o] = "failed-payment"]
    BY <1>5 DEF SagaInv, DeliveryInv, MessageInv, OnPaymentFailed, OnReservationFailed, sagaVars,
                Delivered, Rows, Compensable
  <2> HIDE DEF o
  <2>2. payments[o] = "failed"
    BY <2>1 DEF SagaInv, OutboxAt
  <2>3. \A q \in Orders \ {o} : StatusAt(q)' /\ OutboxAt(q)'
    BY <1>1, <1>3, <2>1, OtherOrder DEF SagaInv
  <2>4. StatusAt(o)' /\ OutboxAt(o)'
    BY <1>1, <1>3, <2>1, <2>2 DEF SagaInv, StatusAt, OutboxAt
  <2> QED BY <1>1, <1>2, <2>1, <2>3, <2>4 DEF SagaInv, Statuses, Walk
<1> QED BY <1>4, <1>5

\* SagaInv is inductive, and no step leaves the walk.
LEMMA NextSaga ==
  ASSUME SagaInv, [Next]_vars
  PROVE  /\ SagaInv'
         /\ \A q \in Orders : orders[q] # orders'[q] => <<orders[q], orders'[q]>> \in Walk
<1>1. ASSUME NEW o \in Orders, PlaceOrder(o)
      PROVE  /\ SagaInv'
             /\ \A q \in Orders : orders[q] # orders'[q] => <<orders[q], orders'[q]>> \in Walk
  BY <1>1, PlaceStep DEF PlaceOrder, SagaInv, Walk
<1>2. ASSUME DeliveryInv', MessageInv', messages' = messages, UNCHANGED sagaVars
      PROVE  /\ SagaInv' /\ orders' = orders
  BY <1>2, OtherOrder, PublishedRows DEF SagaInv, sagaVars
<1>3. CASE \/ \E m \in messages : \E c \in Subscribers[m.topic] : Relay(m, c)
           \/ \E r \in running : Ack(r) \/ Die(r)
  BY <1>2, <1>3, RelayEffect DEF Relay, Ack, Die, SagaInv
<1>4. ASSUME NEW r \in running, Handle(r)
      PROVE  /\ SagaInv'
             /\ \A q \in Orders : orders[q] # orders'[q] => <<orders[q], orders'[q]>> \in Walk
  BY <1>4, ReserveStep, ChargeStep, ShipStep, CompensateStep DEF Handle
<1>5. CASE UNCHANGED vars
  BY <1>2, <1>5 DEF vars, relayVars, DeliveryInv, MessageInv, SagaInv
<1> QED BY <1>1, <1>3, <1>4, <1>5 DEF Next, Quiescent

LEMMA SagaInvariant == Spec => []SagaInv
<1> QED BY InitSaga, NextSaga, PTL DEF Spec

\* The status walk of entities.ts holds at every step of every interleaving:
\* redelivered, duplicated and late messages never move an order backwards or
\* between terminal states.
THEOREM StatusWalk == Spec => WalksForward
<1>1. SagaInv /\ [Next]_vars =>
        [\A o \in Orders : orders[o] # orders'[o] => <<orders[o], orders'[o]>> \in Walk]_vars
  BY NextSaga
<1> QED BY <1>1, SagaInvariant, PTL DEF Spec, WalksForward

\* ReservationHandler and PaymentHandler publish each outcome exactly once, the
\* one their row records, however often the relay redelivers.
THEOREM OutcomesRecorded == Spec => []OutcomeRecorded
<1>1. SagaInv => OutcomeRecorded
  <2> SUFFICES ASSUME SagaInv, NEW o \in Orders
               PROVE  /\ Published("PaymentChargedEvent", o) = IF payments[o] = "charged" THEN 1 ELSE 0
                      /\ Published("PaymentFailedEvent", o) = IF payments[o] = "failed" THEN 1 ELSE 0
                      /\ Published("InventoryReservedEvent", o)
                           + Published("InventoryReservationFailedEvent", o)
                           = IF o \in reservations THEN 1 ELSE 0
    BY DEF OutcomeRecorded
  <2>1. \A t : Published(t, o) = Cardinality(Rows(t, o))
    BY DEF Published, Rows
  <2>2. \A t : /\ Rows(t, o) = {} => Published(t, o) = 0
               /\ One(Rows(t, o)) => Published(t, o) = 1
    BY <2>1, FS_EmptySet, FS_Singleton DEF One
  <2>3. OutboxAt(o)
    BY DEF SagaInv
  <2> QED BY <2>2, <2>3 DEF OutboxAt
<1> QED BY <1>1, SagaInvariant, PTL

\* A charged order is reserved or shipped, never failed: no interleaving of the
\* shipment and compensation handlers takes its stock away.
THEOREM ChargedIsKept == Spec => []ChargedIsNeverFailed
<1>1. SagaInv => ChargedIsNeverFailed
  BY DEF SagaInv, StatusAt, OutboxAt, ChargedIsNeverFailed
<1> QED BY <1>1, SagaInvariant, PTL

-------------------------------------------------------------------------------
(* The units: what is on the shelf and what the orders hold add up. *)

StockInv ==
  /\ request \in [Orders -> Requests]
  /\ stock \in [Skus -> Nat]
  /\ \A s \in Skus : IsFiniteSet(UnitsOf(Holders(s)))
  /\ StockConserved

\* The units of one more order come on top of those of the others.
LEMMA UnitsJoin ==
  ASSUME NEW S, NEW o \in Orders, o \notin S, request \in [Orders -> Requests]
  PROVE  /\ UnitsOf(S) \subseteq UnitsOf(S \cup {o})
         /\ IsFiniteSet(UnitsOf(S)) =>
              /\ IsFiniteSet(UnitsOf(S \cup {o}))
              /\ Cardinality(UnitsOf(S \cup {o})) = Cardinality(UnitsOf(S)) + request[o].quantity
<1> DEFINE n == request[o].quantity
           own == {o} \X (1 .. n)
<1>1. UnitsOf(S \cup {o}) = UnitsOf(S) \cup own
  BY DEF UnitsOf
<1>2. UnitsOf(S) \cap own = {}
  BY DEF UnitsOf
<1>3. n \in Nat
  BY SagaAssumption
<1> HIDE DEF n
<1>4. IsFiniteSet(1 .. n) /\ Cardinality(1 .. n) = n
  BY <1>3, FS_Interval
<1>5. IsFiniteSet(own) /\ Cardinality(own) = n
  <2>1. IsFiniteSet({o}) /\ Cardinality({o}) = 1
    BY FS_Singleton
  <2>2. IsFiniteSet(own) /\ Cardinality(own) = Cardinality({o}) * Cardinality(1 .. n)
    BY <1>4, <2>1, FS_Product
  <2> QED BY <1>3, <1>4, <2>1, <2>2
<1>6. ASSUME IsFiniteSet(UnitsOf(S))
      PROVE  /\ IsFiniteSet(UnitsOf(S \cup {o}))
             /\ Cardinality(UnitsOf(S \cup {o})) = Cardinality(UnitsOf(S)) + n
  <2> HIDE DEF own
  <2>1. Cardinality(UnitsOf(S)) \in Nat
    BY <1>6, FS_CardinalityType
  <2>2. Cardinality(UnitsOf(S) \cap own) = 0
    BY <1>2, FS_EmptySet
  <2>3. /\ IsFiniteSet(UnitsOf(S) \cup own)
        /\ Cardinality(UnitsOf(S) \cup own)
             = Cardinality(UnitsOf(S)) + Cardinality(own) - Cardinality(UnitsOf(S) \cap own)
    BY <1>5, <1>6, FS_Union
  <2>4. Cardinality(UnitsOf(S) \cup own) = Cardinality(UnitsOf(S)) + n
    BY <1>3, <1>5, <2>1, <2>2, <2>3
  <2> QED BY <1>1, <2>3, <2>4
<1> QED BY <1>1, <1>6 DEF n

LEMMA InitStock == Init => StockInv
<1> SUFFICES ASSUME Init PROVE StockInv
  OBVIOUS
<1>1. ASSUME NEW s \in Skus
      PROVE  IsFiniteSet(UnitsOf(Holders(s))) /\ Cardinality(UnitsOf(Holders(s))) = 0
  <2>1. UnitsOf(Holders(s)) = {}
    BY DEF Init, UnitsOf, Holders
  <2> QED BY <2>1, FS_EmptySet
<1>2. request \in [Orders -> Requests] /\ stock = Stock /\ stock \in [Skus -> Nat]
  BY SagaAssumption DEF Init
<1> QED BY <1>1, <1>2 DEF StockInv, StockConserved

\* Nobody begins or ceases to hold units.
LEMMA HoldersKept ==
  ASSUME StockInv, request' = request, stock' = stock,
         \A o \in Orders : orders'[o] \in {"reserved", "shipped"} <=> orders[o] \in {"reserved", "shipped"}
  PROVE  StockInv'
<1>1. \A s \in Skus : UnitsOf(Holders(s))' = UnitsOf(Holders(s))
  BY DEF UnitsOf, Holders
<1> QED BY <1>1 DEF StockInv, StockConserved

LEMMA HolderJoins ==
  ASSUME StockInv, request' = request, NEW o \in Orders, InStock(o),
         orders \in [Orders -> Statuses], orders[o] \notin {"reserved", "shipped"},
         orders' = [orders EXCEPT ![o] = "reserved"],
         stock' = [stock EXCEPT ![request[o].sku] = @ - request[o].quantity]
  PROVE  StockInv'
<1> DEFINE n == request[o].quantity
<1>0. PICK k : k = request[o].sku
  OBVIOUS
<1>1. n \in Nat /\ k \in Skus /\ stock \in [Skus -> Nat] /\ stock[k] >= n /\ Stock \in [Skus -> Nat]
  BY <1>0, SagaAssumption DEF InStock, StockInv
<1>2. stock' \in [Skus -> Nat] /\ \A s \in Skus : stock'[s] = IF s = k THEN stock[s] - n ELSE stock[s]
  BY <1>0, <1>1
<1>3. o \notin Holders(k)
  BY <1>0 DEF Holders
<1>4. UnitsOf(Holders(k))' = UnitsOf(Holders(k) \cup {o})
  BY <1>0 DEF UnitsOf, Holders
<1>5. \A s \in Skus \ {k} : UnitsOf(Holders(s))' = UnitsOf(Holders(s))
  BY <1>0 DEF UnitsOf, Holders
<1>6. /\ IsFiniteSet(UnitsOf(Holders(k) \cup {o}))
      /\ Cardinality(UnitsOf(Holders(k) \cup {o})) = Cardinality(UnitsOf(Holders(k))) + n
  BY <1>1, <1>3, UnitsJoin DEF StockInv
<1>7. Cardinality(UnitsOf(Holders(k))) \in Nat
  BY <1>1, FS_CardinalityType DEF StockInv
<1>8. stock[k] + Cardinality(UnitsOf(Holders(k))) = Stock[k]
  BY <1>1 DEF StockInv, StockConserved
<1> HIDE DEF n
<1>9. stock'[k] >= 0 /\ stock'[k] + Cardinality(UnitsOf(Holders(k)))' = Stock[k]
  BY <1>1, <1>2, <1>4, <1>6, <1>7, <1>8
<1>10. ASSUME NEW s \in Skus
       PROVE  /\ IsFiniteSet(UnitsOf(Holders(s)))'
              /\ stock'[s] >= 0 /\ stock'[s] + Cardinality(UnitsOf(Holders(s)))' = Stock[s]
  <2>1. CASE s = k
    BY <1>4, <1>6, <1>9, <2>1
  <2>2. CASE s # k
    <3>1. stock'[s] = stock[s] /\ UnitsOf(Holders(s))' = UnitsOf(Holders(s))
      BY <1>2, <1>5, <2>2
    <3>2. /\ IsFiniteSet(UnitsOf(Holders(s)))
          /\ stock[s] >= 0 /\ stock[s] + Cardinality(UnitsOf(Holders(s))) = Stock[s]
      BY DEF StockInv, StockConserved
    <3> QED BY <3>1, <3>2
  <2> QED BY <2>1, <2>2
<1> QED BY <1>2, <1>10 DEF StockInv, StockConserved

LEMMA HolderLeaves ==
  ASSUME StockInv, request' = request, NEW o \in Orders,
         orders \in [Orders -> Statuses], orders[o] = "reserved",
         orders' = [orders EXCEPT ![o] = "failed-payment"],
         stock' = [stock EXCEPT ![request[o].sku] = @ + request[o].quantity]
  PROVE  StockInv'
<1>0. PICK k : k = request[o].sku
  OBVIOUS
<1> DEFINE n == request[o].quantity
           rest == Holders(k) \ {o}
<1>1. n \in Nat /\ stock \in [Skus -> Nat] /\ Stock \in [Skus -> Nat]
  BY SagaAssumption DEF StockInv
<1>2. stock' \in [Skus -> Nat] /\ \A s \in Skus : stock'[s] = IF s = k THEN stock[s] + n ELSE stock[s]
  <2>1. stock' = [stock EXCEPT ![k] = stock[k] + n]
    BY <1>0
  <2> HIDE DEF n
  <2>2. CASE k \in Skus
    <3> DEFINE more == stock[k] + n
    <3>1. more \in Nat
      BY <1>1, <2>2
    <3> HIDE DEF more
    <3>2. stock' = [stock EXCEPT ![k] = more]
      BY <2>1 DEF more
    <3>3. stock' \in [Skus -> Nat] /\ \A s \in Skus : stock'[s] = IF s = k THEN more ELSE stock[s]
      BY <1>1, <2>2, <3>1, <3>2
    <3> QED BY <3>3 DEF more
  <2>3. CASE k \notin Skus
    <3>1. stock' = stock
      BY <1>1, <2>1, <2>3
    <3> QED BY <1>1, <2>3, <3>1
  <2> QED BY <2>2, <2>3
<1>3. Holders(k) = rest \cup {o} /\ o \notin rest
  BY <1>0 DEF Holders
<1>4. UnitsOf(Holders(k))' = UnitsOf(rest)
  BY <1>0 DEF UnitsOf, Holders
<1>5. \A s \in Skus \ {k} : UnitsOf(Holders(s))' = UnitsOf(Holders(s))
  BY <1>0 DEF UnitsOf, Holders
<1> HIDE DEF rest
<1>6. ASSUME k \in Skus
      PROVE  /\ IsFiniteSet(UnitsOf(rest)) /\ Cardinality(UnitsOf(rest)) \in Nat
             /\ Cardinality(UnitsOf(Holders(k))) = Cardinality(UnitsOf(rest)) + n
  <2>1. UnitsOf(rest) \subseteq UnitsOf(Holders(k)) /\ IsFiniteSet(UnitsOf(Holders(k)))
    BY <1>3, <1>6, UnitsJoin DEF StockInv
  <2>2. IsFiniteSet(UnitsOf(rest))
    BY <2>1, FS_Subset
  <2> QED BY <1>3, <2>2, UnitsJoin, FS_CardinalityType DEF StockInv
<1>7. k \in Skus => stock[k] + Cardinality(UnitsOf(Holders(k))) = Stock[k]
  BY DEF StockInv, StockConserved
<1> HIDE DEF n
<1>8. k \in Skus => stock'[k] >= 0 /\ stock'[k] + Cardinality(UnitsOf(Holders(k)))' = Stock[k]
  BY <1>1, <1>2, <1>4, <1>6, <1>7
<1>9. ASSUME NEW s \in Skus
      PROVE  /\ IsFiniteSet(UnitsOf(Holders(s)))'
             /\ stock'[s] >= 0 /\ stock'[s] + Cardinality(UnitsOf(Holders(s)))' = Stock[s]
  <2>1. CASE s = k
    BY <1>4, <1>6, <1>8, <2>1
  <2>2. CASE s # k
    <3>1. stock'[s] = stock[s] /\ UnitsOf(Holders(s))' = UnitsOf(Holders(s))
      BY <1>2, <1>5, <2>2
    <3>2. /\ IsFiniteSet(UnitsOf(Holders(s)))
          /\ stock[s] >= 0 /\ stock[s] + Cardinality(UnitsOf(Holders(s))) = Stock[s]
      BY DEF StockInv, StockConserved
    <3> QED BY <3>1, <3>2
  <2> QED BY <2>1, <2>2
<1> QED BY <1>2, <1>9 DEF StockInv, StockConserved

LEMMA NextStock == SagaInv /\ StockInv /\ [Next]_vars => StockInv'
<1> SUFFICES ASSUME SagaInv, StockInv, [Next]_vars PROVE StockInv'
  OBVIOUS
<1>0. orders \in [Orders -> Statuses]
  BY DEF SagaInv
<1>1. ASSUME NEW o \in Orders, PlaceOrder(o) PROVE StockInv'
  BY <1>0, <1>1, HoldersKept DEF PlaceOrder
<1>2. ASSUME UNCHANGED sagaVars PROVE StockInv'
  BY <1>2, HoldersKept DEF sagaVars
<1>3. ASSUME NEW r \in running, Reserve(r) PROVE StockInv'
  <2> DEFINE o == r.message.order
  <2>1. /\ o \in Orders /\ request' = request
        /\ o \notin reservations => orders[o] = "placed"
    BY <1>3 DEF SagaInv, DeliveryInv, MessageInv, Reserve, Delivered, Rows, StatusAt, OutboxAt
  <2>2. \/ orders' = orders /\ stock' = stock
        \/ /\ o \notin reservations /\ stock' = stock
           /\ orders' = [orders EXCEPT ![o] = "failed-reservation"]
        \/ /\ o \notin reservations /\ InStock(o) /\ orders' = [orders EXCEPT ![o] = "reserved"]
           /\ stock' = [stock EXCEPT ![request[o].sku] = @ - request[o].quantity]
    BY <1>3 DEF Reserve
  <2> HIDE DEF o
  <2> QED BY <1>0, <2>1, <2>2, HoldersKept, HolderJoins
<1>4. ASSUME NEW r \in running, Charge(r) \/ OnReservationFailed(r) PROVE StockInv'
  BY <1>4, HoldersKept DEF Charge, OnReservationFailed, sagaVars
<1>5. ASSUME NEW r \in running, Ship(r) PROVE StockInv'
  <2> DEFINE o == r.message.order
  <2>1. /\ request' = request /\ stock' = stock
        /\ orders' = orders \/ (orders[o] = "reserved" /\ orders' = [orders EXCEPT ![o] = "shipped"])
    BY <1>5 DEF Ship
  <2> HIDE DEF o
  <2> QED BY <1>0, <2>1, HoldersKept
<1>6. ASSUME NEW r \in running, OnPaymentFailed(r) PROVE StockInv'
  <2> DEFINE o == r.message.order
  <2>1. o \in Orders /\ request' = request
    BY <1>6 DEF SagaInv, DeliveryInv, MessageInv, OnPaymentFailed
  <2>2. \/ orders' = orders /\ stock' = stock
        \/ /\ orders[o] = "reserved" /\ orders' = [orders EXCEPT ![o] = "failed-payment"]
           /\ stock' = [stock EXCEPT ![request[o].sku] = @ + request[o].quantity]
    BY <1>6 DEF OnPaymentFailed, Compensable
  <2> HIDE DEF o
  <2> QED BY <1>0, <2>1, <2>2, HoldersKept, HolderLeaves
<1> QED BY <1>1, <1>2, <1>3, <1>4, <1>5, <1>6 DEF Next, Handle, Relay, Ack, Die, Quiescent, vars

\* Shelf and orders hold the stock of the start between them, and the shelf never
\* runs below zero: no redelivered reservation takes units twice and no
\* redelivered compensation gives them back twice.
THEOREM StockIsConserved == Spec => []StockConserved
<1>1. StockInv => StockConserved
  BY DEF StockInv
<1> QED BY <1>1, InitStock, NextStock, SagaInvariant, PTL DEF Spec
===============================================================================
