------------------------- MODULE OrderFulfilmentProofs -------------------------
(***************************************************************************)
(* Proofs about the workflows bridge under workflows-order-fulfilment, for *)
(* every set of requests and orders, any stock and any number of replays   *)
(* and requests under way.                                                 *)
(***************************************************************************)
EXTENDS OrderFulfilment, FiniteSetTheorems, TLAPS

Steps == {"idle", "body", "draining", "committed", "rolledBack"}
Writes == {"none", "pending", "written", "failed"}
OrderStatuses == {"none", "placed", "paid", "delivered", "cancelled"}
Journal == {"none", "charge-payment", "reserve-stock", "mark-paid", "await-delivery", "completed",
            "release-stock", "refund", "cancel", "failed"}

FulfilmentTypes ==
  /\ step \in [DOMAIN Requests -> Steps]
  /\ write \in [DOMAIN Requests -> Writes]
  /\ orders \in [Orders -> OrderStatuses]
  /\ placed \in [Orders -> Nat]
  /\ paid \in [Orders -> Nat]
  /\ signals \subseteq DOMAIN Requests
  /\ at \in [Orders -> Journal]
  /\ charges \in [Orders -> {"none", "charged", "refunded"}]
  /\ stock \in Nat
  /\ reserved \subseteq Orders

\* A transaction under way has made its call, and one that confirms a delivery
\* has awaited it before it comes to COMMIT.
CallInv ==
  \A r \in DOMAIN Requests :
    /\ step[r] \in {"body", "draining"} => write[r] # "none"
    /\ Kind(r) = "deliver" /\ step[r] = "draining" => write[r] = "written"

\* One request at a time places an order, and only one that does not exist.
Placing(r) == Kind(r) = "place" /\ step[r] \in {"body", "draining"}
FreshInv ==
  \A r \in DOMAIN Requests : Placing(r) =>
    /\ orders[OrderOf(r)] = "none"
    /\ \A q \in DOMAIN Requests : Placing(q) /\ OrderOf(q) = OrderOf(r) => q = r

\* What the steps an instance has behind it have done.
EffectsAt(o) ==
  /\ at[o] \in {"reserve-stock", "mark-paid", "await-delivery", "completed", "release-stock"}
       => charges[o] = "charged"
  /\ at[o] \in {"mark-paid", "await-delivery", "completed"} => o \in reserved
  /\ at[o] \in {"await-delivery", "completed"} => paid[o] > 0
  /\ at[o] \in {"none", "charge-payment"} => charges[o] # "refunded"
  /\ at[o] \in {"refund", "cancel", "failed"} => o \notin reserved
  /\ at[o] \in {"cancel", "failed"} => charges[o] = "refunded"
  /\ at[o] = "completed" => SignalsFor(o) # {}
  /\ at[o] = "failed" => \/ orders[o] = "cancelled"
                         \/ orders[o] = "delivered" /\ SignalsFor(o) # {}

TogetherInv == FulfilmentTypes /\ CallInv /\ FreshInv /\ PlacedTogether /\ SignalledTogether
FulfilmentInv == TogetherInv /\ \A o \in Orders : EffectsAt(o)

LEMMA InitFulfilment == Init => FulfilmentInv
BY FulfilmentAssumption
   DEF Init, FulfilmentInv, TogetherInv, FulfilmentTypes, CallInv, FreshInv, PlacedTogether,
       SignalledTogether, EffectsAt, Placing, Steps, Writes, OrderStatuses, Journal

\* place and deliver are always given the transaction, wait never is.
LEMMA WhoJoins ==
  ASSUME NEW r \in DOMAIN Requests
  PROVE  /\ Kind(r) \in {"place", "deliver", "wait"} /\ OrderOf(r) \in Orders
         /\ Joins(r) <=> Kind(r) # "wait"
BY RequestsAssumption DEF Kind, OrderOf, Joins, Detached

LEMMA ExecuteStep ==
  ASSUME FulfilmentInv, NEW r \in DOMAIN Requests, Execute(r)
  PROVE  FulfilmentInv'
<1>0. UNCHANGED <<orders, placed, paid, signals, at, charges, stock, reserved>>
  BY DEF Execute, storeVars, worldVars
<1>1. /\ step[r] = "idle" /\ Fresh(r)
      /\ \/ step' = [step EXCEPT ![r] = "rolledBack"] /\ write' = write
         \/ step' = [step EXCEPT ![r] = "body"] /\ write' = [write EXCEPT ![r] = "pending"]
  BY DEF Execute
<1>2. FulfilmentTypes'
  BY <1>0, <1>1 DEF FulfilmentInv, TogetherInv, FulfilmentTypes, Steps, Writes
<1>3. CallInv'
  BY <1>0, <1>1 DEF FulfilmentInv, TogetherInv, FulfilmentTypes, CallInv
<1>4. FreshInv'
  BY <1>0, <1>1 DEF FulfilmentInv, TogetherInv, FulfilmentTypes, FreshInv, Placing, Fresh
<1>5. PlacedTogether' /\ SignalledTogether' /\ \A o \in Orders : EffectsAt(o)'
  BY <1>0, <1>1 DEF FulfilmentInv, TogetherInv, FulfilmentTypes, PlacedTogether, SignalledTogether,
                    EffectsAt, SignalsFor
<1> QED BY <1>2, <1>3, <1>4, <1>5 DEF FulfilmentInv, TogetherInv

LEMMA WriteStep ==
  ASSUME FulfilmentInv, NEW r \in DOMAIN Requests, WriteLands(r) \/ WriteFails(r)
  PROVE  FulfilmentInv'
<1>0. UNCHANGED <<step, orders, placed, paid, at, charges, stock, reserved>>
  BY DEF WriteLands, WriteFails, storeVars, worldVars
<1>1. /\ write[r] = "pending"
      /\ \E w \in Writes : /\ write' = [write EXCEPT ![r] = w]
                           /\ w = "none" => Settled(r)
  BY DEF WriteLands, WriteFails, Writes
<1>2. signals' = signals
  BY WhoJoins DEF WriteLands, WriteFails, storeVars
<1>3. FulfilmentTypes'
  BY <1>0, <1>1 DEF FulfilmentInv, TogetherInv, FulfilmentTypes, WriteLands, WriteFails, storeVars
<1>4. CallInv'
  BY <1>0, <1>1 DEF FulfilmentInv, TogetherInv, FulfilmentTypes, CallInv, Settled
<1>5. FreshInv' /\ PlacedTogether' /\ \A o \in Orders : EffectsAt(o)'
  BY <1>0, <1>2 DEF FulfilmentInv, TogetherInv, FreshInv, Placing, PlacedTogether, EffectsAt, SignalsFor
<1>6. SignalledTogether'
  BY <1>0, <1>2 DEF FulfilmentInv, TogetherInv, SignalledTogether
<1> QED BY <1>3, <1>4, <1>5, <1>6 DEF FulfilmentInv, TogetherInv

LEMMA BodyStep ==
  ASSUME FulfilmentInv, NEW r \in DOMAIN Requests, BodyReturns(r) \/ BodyThrows(r) \/ CommitFails(r)
  PROVE  FulfilmentInv'
<1>0. UNCHANGED <<orders, placed, paid, signals, at, charges, stock, reserved>>
  BY DEF BodyReturns, BodyThrows, CommitFails, storeVars, worldVars
<1>1. \/ /\ step[r] = "body" /\ step' = [step EXCEPT ![r] = "draining"] /\ write' = write
         /\ Kind(r) = "deliver" => write[r] = "written"
      \/ /\ step[r] \in {"body", "draining"} /\ step' = [step EXCEPT ![r] = "rolledBack"]
         /\ \E w \in Writes : write' = [write EXCEPT ![r] = w]
  <2>1. CASE BodyReturns(r)
    BY <2>1 DEF BodyReturns
  <2>2. CASE BodyThrows(r) \/ CommitFails(r)
    <3>1. (IF write[r] = "pending" THEN write[r] ELSE "none") \in Writes
      BY DEF Writes
    <3> QED BY <2>2, <3>1 DEF BodyThrows, CommitFails, Ends
  <2> QED BY <2>1, <2>2
<1>2. FulfilmentTypes'
  BY <1>0, <1>1 DEF FulfilmentInv, TogetherInv, FulfilmentTypes, Steps
<1>3. CallInv'
  BY <1>0, <1>1 DEF FulfilmentInv, TogetherInv, FulfilmentTypes, CallInv
<1>4. FreshInv'
  BY <1>0, <1>1 DEF FulfilmentInv, TogetherInv, FulfilmentTypes, FreshInv, Placing
<1>5. PlacedTogether' /\ SignalledTogether' /\ \A o \in Orders : EffectsAt(o)'
  BY <1>0, <1>1 DEF FulfilmentInv, TogetherInv, FulfilmentTypes, PlacedTogether, SignalledTogether,
                    EffectsAt, SignalsFor
<1> QED BY <1>2, <1>3, <1>4, <1>5 DEF FulfilmentInv, TogetherInv

\* What COMMIT shows of a transaction: a placing one has its start written, for
\* Drained waited for it, and the order did not exist.
LEMMA CommitStep ==
  ASSUME FulfilmentInv, NEW r \in DOMAIN Requests, Commit(r)
  PROVE  FulfilmentInv'
<1> DEFINE o == OrderOf(r)
<1> USE WhoJoins
<1>0. UNCHANGED <<paid, charges, stock, reserved>>
  BY DEF Commit, worldVars
<1>1. /\ step[r] = "draining" /\ step' = [step EXCEPT ![r] = "committed"]
      /\ \E w \in Writes : write' = [write EXCEPT ![r] = w]
  <2>1. (IF write[r] = "pending" THEN write[r] ELSE "none") \in Writes
    BY DEF Writes
  <2> QED BY <2>1 DEF Commit, Ends
<1>2. Joins(r) => write[r] = "written"
  BY <1>1 DEF Commit, Drained, FulfilmentInv, TogetherInv, FulfilmentTypes, CallInv, Writes
<1>3. CASE Kind(r) = "place"
  <2>1. /\ orders' = [orders EXCEPT ![o] = "placed"] /\ at' = [at EXCEPT ![o] = "charge-payment"]
        /\ placed' = [placed EXCEPT ![o] = placed[o] + 1] /\ signals' = signals
    BY <1>2, <1>3 DEF Commit
  <2>2. orders[o] = "none" /\ at[o] = "none" /\ placed[o] = 0
    BY <1>1, <1>3 DEF FulfilmentInv, TogetherInv, FreshInv, Placing, PlacedTogether
  <2>3. FulfilmentTypes'
    BY <1>0, <1>1, <2>1 DEF FulfilmentInv, TogetherInv, FulfilmentTypes, Steps, OrderStatuses, Journal
  <2>4. CallInv'
    BY <1>1 DEF FulfilmentInv, TogetherInv, FulfilmentTypes, CallInv
  <2>5. FreshInv'
    <3>1. \A q \in DOMAIN Requests : Placing(q)' => q # r /\ Placing(q) /\ OrderOf(q) # o
      BY <1>1, <1>3 DEF FulfilmentInv, TogetherInv, FulfilmentTypes, FreshInv, Placing
    <3> QED BY <2>1, <3>1 DEF FulfilmentInv, TogetherInv, FulfilmentTypes, FreshInv
  <2>6. PlacedTogether'
    BY <2>1, <2>2 DEF FulfilmentInv, TogetherInv, FulfilmentTypes, PlacedTogether
  <2>7. SignalledTogether'
    BY <1>1, <1>3, <2>1 DEF FulfilmentInv, TogetherInv, FulfilmentTypes, SignalledTogether
  <2>8. \A p \in Orders : EffectsAt(p)'
    BY <1>0, <2>1, <2>2 DEF FulfilmentInv, TogetherInv, FulfilmentTypes, EffectsAt, SignalsFor
  <2> QED BY <2>3, <2>4, <2>5, <2>6, <2>7, <2>8 DEF FulfilmentInv, TogetherInv
<1>4. CASE Kind(r) # "place"
  <2>1. /\ UNCHANGED <<at, placed>>
        /\ \/ orders' = orders
           \/ /\ Kind(r) = "deliver" /\ orders[o] # "none"
              /\ orders' = [orders EXCEPT ![o] = "delivered"]
        /\ signals' = IF Kind(r) = "deliver" THEN signals \cup {r} ELSE signals
    BY <1>2, <1>4 DEF Commit
  <2>3. FulfilmentTypes'
    BY <1>0, <1>1, <2>1 DEF FulfilmentInv, TogetherInv, FulfilmentTypes, Steps, OrderStatuses
  <2>4. CallInv'
    BY <1>1 DEF FulfilmentInv, TogetherInv, FulfilmentTypes, CallInv
  <2>5. FreshInv'
    BY <1>1, <1>4, <2>1 DEF FulfilmentInv, TogetherInv, FulfilmentTypes, FreshInv, Placing
  <2>6. PlacedTogether'
    BY <2>1 DEF FulfilmentInv, TogetherInv, FulfilmentTypes, PlacedTogether
  <2>7. SignalledTogether'
    BY <1>1, <2>1 DEF FulfilmentInv, TogetherInv, FulfilmentTypes, SignalledTogether
  <2>8. \A p \in Orders : EffectsAt(p)'
    <3>1. \A p \in Orders : SignalsFor(p) \subseteq SignalsFor(p)'
      BY <2>1 DEF SignalsFor
    <3>2. Kind(r) = "deliver" => r \in SignalsFor(o)'
      BY <2>1 DEF SignalsFor
    <3> QED BY <1>0, <2>1, <3>1, <3>2 DEF FulfilmentInv, TogetherInv, FulfilmentTypes, EffectsAt
  <2> QED BY <2>3, <2>4, <2>5, <2>6, <2>7, <2>8 DEF FulfilmentInv, TogetherInv
<1> QED BY <1>3, <1>4

\* An instance only touches what is its own: it leaves the requests alone, moves
\* one order that was placed, and never goes back to not existing.
LEMMA InstanceFrame ==
  ASSUME FulfilmentInv, NEW o \in Orders, Instance(o)
  PROVE  /\ UNCHANGED <<step, write, signals, placed>>
         /\ at[o] # "none"
         /\ \E p \in Journal \ {"none"} : at' = [at EXCEPT ![o] = p]
         /\ \/ orders' = orders
            \/ \E s \in OrderStatuses \ {"none"} : orders' = [orders EXCEPT ![o] = s]
         /\ \A q \in Orders \ {o} : /\ charges'[q] = charges[q] /\ paid'[q] = paid[q]
                                    /\ q \in reserved' <=> q \in reserved
         /\ charges' \in [Orders -> {"none", "charged", "refunded"}]
         /\ paid' \in [Orders -> Nat]
         /\ stock' \in Nat /\ reserved' \subseteq Orders
<1> DEFINE Advances == at[o] # "none" /\ \E p \in Journal \ {"none"} : at' = [at EXCEPT ![o] = p]
           Moves == \/ orders' = orders
                    \/ \E s \in OrderStatuses \ {"none"} : orders' = [orders EXCEPT ![o] = s]
           Local == \A q \in Orders \ {o} : /\ charges'[q] = charges[q] /\ paid'[q] = paid[q]
                                            /\ q \in reserved' <=> q \in reserved
           Typed == /\ charges' \in [Orders -> {"none", "charged", "refunded"}]
                    /\ paid' \in [Orders -> Nat]
                    /\ stock' \in Nat /\ reserved' \subseteq Orders
<1> SUFFICES UNCHANGED <<step, write, signals, placed>> /\ Advances /\ Moves /\ Local /\ Typed
  OBVIOUS
<1> USE FulfilmentAssumption
<1> USE DEF FulfilmentInv, TogetherInv, FulfilmentTypes, requestVars, storeVars, worldVars
<1>1. ASSUME NEW n \in Journal \ {"none"}, NEW next \in Journal \ {"none"}, Journals(o, n, next)
      PROVE  Advances
  <2>1. CASE at' = [at EXCEPT ![o] = next]
    BY <1>1, <2>1 DEF Journals
  <2>2. CASE at' = at
    <3>1. at' = [at EXCEPT ![o] = n]
      BY <1>1, <2>2 DEF Journals
    <3> QED BY <1>1, <3>1 DEF Journals
  <2> QED BY <1>1, <2>1, <2>2 DEF Journals
<1>2. CASE ChargePayment(o)
  <2>1. Journals(o, "charge-payment", "reserve-stock")
    BY <1>2 DEF ChargePayment
  <2>2. Advances
    BY <1>1, <2>1 DEF Journal
  <2> HIDE DEF Advances
  <2> QED BY <1>2, <2>1, <2>2 DEF ChargePayment, Journals
<1>3. CASE ReserveStock(o)
  <2>1. Journals(o, "reserve-stock", "mark-paid") \/ Journals(o, "reserve-stock", "refund")
    BY <1>3 DEF ReserveStock
  <2>2. Advances
    BY <1>1, <2>1 DEF Journal
  <2>3. UNCHANGED <<step, write, signals, placed, orders, paid, charges>>
    BY <1>3, <2>1 DEF ReserveStock, Journals
  <2>4. \/ stock' = stock /\ reserved' = reserved
        \/ stock >= Quantity[o] /\ stock' = stock - Quantity[o] /\ reserved' = reserved \cup {o}
    BY <1>3 DEF ReserveStock, Available
  <2> HIDE DEF Advances
  <2> QED BY <2>2, <2>3, <2>4
<1>4. CASE MarkPaid(o)
  <2>1. Journals(o, "mark-paid", "await-delivery")
    BY <1>4 DEF MarkPaid
  <2>2. Advances
    BY <1>1, <2>1 DEF Journal
  <2>3. /\ UNCHANGED <<step, write, signals, placed, charges, stock, reserved>>
        /\ orders' = [orders EXCEPT ![o] = "paid"] /\ paid' = [paid EXCEPT ![o] = paid[o] + 1]
    BY <1>4, <2>1 DEF MarkPaid, Journals
  <2> HIDE DEF Advances
  <2>4. Moves
    BY <2>3 DEF OrderStatuses
  <2> HIDE DEF Moves
  <2> QED BY <2>2, <2>3, <2>4
<1>5. CASE MarkPaidFails(o) \/ Delivered(o) \/ TimesOut(o)
  <2>1. /\ UNCHANGED <<step, write, signals, placed, orders, paid, charges, stock, reserved>>
        /\ at[o] # "none"
        /\ at' = [at EXCEPT ![o] = "release-stock"] \/ at' = [at EXCEPT ![o] = "completed"]
    BY <1>5 DEF MarkPaidFails, Delivered, TimesOut, FirstUndone
  <2>2. Advances
    BY <2>1 DEF Journal
  <2> HIDE DEF Advances
  <2> QED BY <2>1, <2>2
<1>6. CASE ReleaseStock(o)
  <2>1. Journals(o, "release-stock", "refund")
    BY <1>6 DEF ReleaseStock
  <2>2. Advances
    BY <1>1, <2>1 DEF Journal
  <2>3. /\ UNCHANGED <<step, write, signals, placed, orders, paid, charges>>
        /\ stock' = stock \/ stock' = stock + Quantity[o]
        /\ reserved' = reserved \ {o}
    BY <1>6, <2>1 DEF ReleaseStock, Journals
  <2> HIDE DEF Advances
  <2> QED BY <2>2, <2>3
<1>7. CASE Refund(o)
  <2>1. Journals(o, "refund", "cancel")
    BY <1>7 DEF Refund
  <2>2. Advances
    BY <1>1, <2>1 DEF Journal
  <2>3. /\ UNCHANGED <<step, write, signals, placed, orders, paid, stock, reserved>>
        /\ charges' = [charges EXCEPT ![o] = "refunded"]
    BY <1>7, <2>1 DEF Refund, Journals
  <2> HIDE DEF Advances
  <2> QED BY <2>2, <2>3
<1>8. CASE Cancel(o)
  <2>1. Journals(o, "cancel", "failed")
    BY <1>8 DEF Cancel
  <2>2. Advances
    BY <1>1, <2>1 DEF Journal
  <2>3. /\ UNCHANGED <<step, write, signals, placed, paid, charges, stock, reserved>>
        /\ orders' = [orders EXCEPT ![o] = "cancelled"]
    BY <1>8, <2>1 DEF Cancel, Journals
  <2>4. Moves
    BY <2>3 DEF OrderStatuses
  <2> HIDE DEF Advances, Moves
  <2> QED BY <2>2, <2>3, <2>4
<1> QED BY <1>2, <1>3, <1>4, <1>5, <1>6, <1>7, <1>8 DEF Instance

\* The effects of an instance's steps, replayed or not.
LEMMA InstanceEffects ==
  ASSUME FulfilmentInv, NEW o \in Orders, Instance(o)
  PROVE  EffectsAt(o)'
<1> USE DEF FulfilmentInv, TogetherInv, FulfilmentTypes, requestVars, storeVars, worldVars, EffectsAt
<1>1. CASE ChargePayment(o)
  BY <1>1 DEF ChargePayment, Journals
<1>2. CASE ReserveStock(o)
  BY <1>2 DEF ReserveStock, Journals, Known
<1>3. CASE MarkPaid(o)
  BY <1>3 DEF MarkPaid, Journals
<1>4. CASE MarkPaidFails(o) \/ Delivered(o) \/ TimesOut(o)
  BY <1>4 DEF MarkPaidFails, Delivered, TimesOut, FirstUndone, SignalsFor
<1>5. CASE ReleaseStock(o)
  BY <1>5 DEF ReleaseStock, Journals
<1>6. CASE Refund(o) \/ Cancel(o)
  BY <1>6 DEF Refund, Cancel, Journals
<1> QED BY <1>1, <1>2, <1>3, <1>4, <1>5, <1>6 DEF Instance

LEMMA InstanceStep ==
  ASSUME FulfilmentInv, NEW o \in Orders, Instance(o)
  PROVE  FulfilmentInv'
<1>1. FulfilmentTypes'
  BY InstanceFrame DEF FulfilmentInv, TogetherInv, FulfilmentTypes
<1>2. CallInv' /\ SignalledTogether'
  BY InstanceFrame DEF FulfilmentInv, TogetherInv, CallInv, SignalledTogether
<1>3. PlacedTogether'
  BY InstanceFrame DEF FulfilmentInv, TogetherInv, FulfilmentTypes, PlacedTogether
<1>4. FreshInv'
  <2>1. \A q \in DOMAIN Requests : Placing(q) => orders[OrderOf(q)] = "none"
    BY DEF FulfilmentInv, TogetherInv, FreshInv
  <2>2. orders[o] # "none"
    BY InstanceFrame DEF FulfilmentInv, TogetherInv, PlacedTogether
  <2>3. \A q \in DOMAIN Requests : Placing(q) => orders'[OrderOf(q)] = "none"
    BY <2>1, <2>2, InstanceFrame, WhoJoins DEF FulfilmentInv, TogetherInv, FulfilmentTypes
  <2> QED BY <2>3, InstanceFrame DEF FulfilmentInv, TogetherInv, FreshInv, Placing
<1>5. \A p \in Orders : EffectsAt(p)'
  <2>1. ASSUME NEW p \in Orders \ {o} PROVE EffectsAt(p)'
    BY InstanceFrame DEF FulfilmentInv, TogetherInv, FulfilmentTypes, EffectsAt, SignalsFor
  <2> QED BY <2>1, InstanceEffects
<1> QED BY <1>1, <1>2, <1>3, <1>4, <1>5 DEF FulfilmentInv, TogetherInv

LEMMA NextFulfilment == FulfilmentInv /\ [Next]_vars => FulfilmentInv'
<1> SUFFICES ASSUME FulfilmentInv, [Next]_vars PROVE FulfilmentInv'
  OBVIOUS
<1>1. ASSUME NEW r \in DOMAIN Requests, Request(r) PROVE FulfilmentInv'
  BY <1>1, ExecuteStep, WriteStep, BodyStep, CommitStep DEF Request
<1>2. ASSUME UNCHANGED <<step, write, orders, placed, paid, signals, at, charges, stock, reserved>>
      PROVE  FulfilmentInv'
  BY <1>2 DEF FulfilmentInv, TogetherInv, FulfilmentTypes, CallInv, FreshInv, Placing, PlacedTogether,
              SignalledTogether, EffectsAt, SignalsFor
<1>3. ASSUME NEW r \in DOMAIN Requests, RunAwaited(r) PROVE FulfilmentInv'
  BY <1>2, <1>3 DEF RunAwaited, requestVars, storeVars, worldVars
<1>4. CASE Quiescent \/ UNCHANGED vars
  BY <1>2, <1>4 DEF Quiescent, vars, requestVars, storeVars, worldVars
<1> QED BY <1>1, <1>3, <1>4, InstanceStep DEF Next

LEMMA FulfilmentInvariant == Spec => []FulfilmentInv
BY InitFulfilment, NextFulfilment, PTL DEF Spec

\* An order, the instance that fulfils it and its outbox row exist together or
\* not at all, whatever commits, rolls back or is replayed.
THEOREM OrdersPlacedTogether == Spec => []PlacedTogether
<1>1. FulfilmentInv => PlacedTogether
  BY DEF FulfilmentInv, TogetherInv
<1> QED BY <1>1, FulfilmentInvariant, PTL

\* A delivery signal is in the store exactly when its transaction committed.
THEOREM DeliverySignalled == Spec => []SignalledTogether
<1>1. FulfilmentInv => SignalledTogether
  BY DEF FulfilmentInv, TogetherInv
<1> QED BY <1>1, FulfilmentInvariant, PTL

-------------------------------------------------------------------------------
(* The units: what is on the shelf and what the orders hold add up. *)

UnitsInv == IsFiniteSet(UnitsOf(reserved)) /\ UnitsConserved

\* The units of one more order come on top of those of the others.
LEMMA UnitsJoin ==
  ASSUME NEW S, NEW o \in Orders, o \notin S
  PROVE  /\ UnitsOf(S) \subseteq UnitsOf(S \cup {o})
         /\ IsFiniteSet(UnitsOf(S)) =>
              /\ IsFiniteSet(UnitsOf(S \cup {o}))
              /\ Cardinality(UnitsOf(S \cup {o})) = Cardinality(UnitsOf(S)) + Quantity[o]
<1> DEFINE own == {o} \X (1 .. Quantity[o])
<1>1. UnitsOf(S \cup {o}) = UnitsOf(S) \cup own
  BY DEF UnitsOf
<1>2. UnitsOf(S) \cap own = {}
  BY DEF UnitsOf
<1>3. Quantity[o] \in Nat
  BY FulfilmentAssumption
<1>4. IsFiniteSet(1 .. Quantity[o]) /\ Cardinality(1 .. Quantity[o]) = Quantity[o]
  BY <1>3, FS_Interval
<1>5. IsFiniteSet(own) /\ Cardinality(own) = Quantity[o]
  <2>1. IsFiniteSet({o}) /\ Cardinality({o}) = 1
    BY FS_Singleton
  <2>2. IsFiniteSet(own) /\ Cardinality(own) = Cardinality({o}) * Cardinality(1 .. Quantity[o])
    BY <1>4, <2>1, FS_Product
  <2> QED BY <1>3, <1>4, <2>1, <2>2
<1>6. ASSUME IsFiniteSet(UnitsOf(S))
      PROVE  /\ IsFiniteSet(UnitsOf(S \cup {o}))
             /\ Cardinality(UnitsOf(S \cup {o})) = Cardinality(UnitsOf(S)) + Quantity[o]
  <2> HIDE DEF own
  <2>1. Cardinality(UnitsOf(S)) \in Nat
    BY <1>6, FS_CardinalityType
  <2>2. Cardinality(UnitsOf(S) \cap own) = 0
    BY <1>2, FS_EmptySet
  <2>3. /\ IsFiniteSet(UnitsOf(S) \cup own)
        /\ Cardinality(UnitsOf(S) \cup own)
             = Cardinality(UnitsOf(S)) + Cardinality(own) - Cardinality(UnitsOf(S) \cap own)
    BY <1>5, <1>6, FS_Union
  <2>4. Cardinality(UnitsOf(S) \cup own) = Cardinality(UnitsOf(S)) + Quantity[o]
    BY <1>3, <1>5, <2>1, <2>2, <2>3
  <2> QED BY <1>1, <2>3, <2>4
<1> QED BY <1>1, <1>6

LEMMA InitUnits == Init => UnitsInv
<1>1. UnitsOf({}) = {}
  BY DEF UnitsOf
<1> QED BY <1>1, FulfilmentAssumption, FS_EmptySet DEF Init, UnitsInv, UnitsConserved

LEMMA InstanceUnits ==
  ASSUME FulfilmentInv, UnitsInv, NEW o \in Orders, Instance(o)
  PROVE  UnitsInv'
<1>0. stock \in Nat /\ Quantity[o] \in Nat /\ Stock \in Nat
  BY FulfilmentAssumption DEF FulfilmentInv, TogetherInv, FulfilmentTypes
<1>1. Cardinality(UnitsOf(reserved)) \in Nat
  BY FS_CardinalityType DEF UnitsInv
<1>2. ASSUME UNCHANGED <<stock, reserved>> PROVE UnitsInv'
  BY <1>2 DEF UnitsInv, UnitsConserved, UnitsOf
<1>3. ASSUME o \notin reserved, stock >= Quantity[o], stock' = stock - Quantity[o],
             reserved' = reserved \cup {o}
      PROVE  UnitsInv'
  <2>1. UnitsOf(reserved)' = UnitsOf(reserved \cup {o})
    BY <1>3 DEF UnitsOf
  <2> QED BY <1>0, <1>1, <1>3, <2>1, UnitsJoin DEF UnitsInv, UnitsConserved
<1>4. ASSUME o \in reserved, stock' = stock + Quantity[o], reserved' = reserved \ {o}
      PROVE  UnitsInv'
  <2> DEFINE rest == reserved \ {o}
  <2>1. UnitsOf(reserved)' = UnitsOf(rest)
    BY <1>4 DEF UnitsOf
  <2>2. reserved = rest \cup {o} /\ o \notin rest
    BY <1>4
  <2> HIDE DEF rest
  <2>3. UnitsOf(rest) \subseteq UnitsOf(reserved)
    BY <2>2, UnitsJoin
  <2>4. IsFiniteSet(UnitsOf(rest))
    BY <2>3, FS_Subset DEF UnitsInv
  <2>5. Cardinality(UnitsOf(reserved)) = Cardinality(UnitsOf(rest)) + Quantity[o]
    BY <2>2, <2>4, UnitsJoin
  <2>6. Cardinality(UnitsOf(rest)) \in Nat
    BY <2>4, FS_CardinalityType
  <2> QED BY <1>0, <1>4, <2>1, <2>4, <2>5, <2>6 DEF UnitsInv, UnitsConserved
<1>5. CASE ReserveStock(o)
  BY <1>2, <1>3, <1>5 DEF ReserveStock, Known, Available
<1>6. CASE ReleaseStock(o)
  <2>1. CASE o \notin reserved
    <3>1. UNCHANGED <<stock, reserved>>
      BY <1>6, <2>1 DEF ReleaseStock, Known
    <3> QED BY <1>2, <3>1
  <2>2. CASE o \in reserved
    BY <1>4, <1>6, <2>2 DEF ReleaseStock, Known
  <2> QED BY <2>1, <2>2
<1>7. CASE \/ ChargePayment(o) \/ MarkPaid(o) \/ MarkPaidFails(o) \/ Delivered(o) \/ TimesOut(o)
           \/ Refund(o) \/ Cancel(o)
  BY <1>2, <1>7 DEF ChargePayment, MarkPaid, MarkPaidFails, Delivered, TimesOut, Refund, Cancel, worldVars
<1> QED BY <1>5, <1>6, <1>7 DEF Instance

LEMMA NextUnits == FulfilmentInv /\ UnitsInv /\ [Next]_vars => UnitsInv'
<1> SUFFICES ASSUME FulfilmentInv, UnitsInv, [Next]_vars PROVE UnitsInv'
  OBVIOUS
<1>1. ASSUME UNCHANGED worldVars PROVE UnitsInv'
  BY <1>1 DEF UnitsInv, UnitsConserved, UnitsOf, worldVars
<1>2. CASE \E r \in DOMAIN Requests : Request(r) \/ RunAwaited(r)
  BY <1>1, <1>2 DEF Request, Execute, WriteLands, WriteFails, BodyReturns, BodyThrows, CommitFails, Commit,
                    RunAwaited
<1>3. CASE Quiescent \/ UNCHANGED vars
  BY <1>1, <1>3 DEF Quiescent, vars
<1> QED BY <1>2, <1>3, InstanceUnits DEF Next

LEMMA UnitsInvariant == Spec => []UnitsInv
BY InitUnits, NextUnits, FulfilmentInvariant, PTL DEF Spec

\* A completed fulfilment has charged, reserved, marked its order paid and been
\* signalled; a failed one has refunded, released and cancelled, and only a
\* delivery confirmed since shows over `cancelled`; shelf and reservations always
\* add up to the stock, however often a worker dies and a step runs again.
THEOREM OutcomesWhole == Spec => []OutcomeIsWhole
<1>1. FulfilmentInv /\ UnitsInv => OutcomeIsWhole
  BY DEF FulfilmentInv, TogetherInv, FulfilmentTypes, EffectsAt, EffectsMatch, OutcomeIsWhole, UnitsInv
<1> QED BY <1>1, FulfilmentInvariant, UnitsInvariant, PTL
===============================================================================
