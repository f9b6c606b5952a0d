--------------------------- MODULE OrderFulfilment ----------------------------
(***************************************************************************)
(* The workflows bridge (packages/workflows) under the load of             *)
(* examples/workflows-order-fulfilment: requests that call the wrapped     *)
(* WorkflowClient inside @Transactional, and the FulfilOrder instances     *)
(* that a worker runs from what those transactions committed.              *)
(*                                                                         *)
(* Orders, instances, signals and outbox rows are on one database, so a    *)
(* transaction's writes show at its COMMIT.  The worker and the store are  *)
(* @nestjs/workflows, outside the repository: a step may be run again when *)
(* its result was not journaled, compensations run in reverse, and a       *)
(* signal is a row that a wait for its key takes, now or later.            *)
(***************************************************************************)
EXTENDS Naturals, FiniteSets

CONSTANTS Orders,
          Quantity,   \* order -> units it asks for
          Stock,      \* units of the one product
          Requests,   \* request -> [kind, order, isolation]
          MaxOpen,    \* bound: requests under way at a time
          MaxReplays  \* bound: steps run again after a crash

ASSUME FulfilmentAssumption == /\ Stock \in Nat /\ Quantity \in [Orders -> Nat]
                               /\ MaxOpen \in Nat \ {0} /\ MaxReplays \in Nat
ASSUME RequestsAssumption ==
  \A r \in DOMAIN Requests : /\ Requests[r].kind \in {"place", "deliver", "wait"}
                             /\ Requests[r].order \in Orders

VARIABLES step,         \* where each request's @Transactional method is
          write,        \* the promise of its client call (and outbox add)
          orders,       \* OrderEntity.status
          placed,       \* orders.placed rows committed, by order
          paid,         \* orders.paid rows committed, by order
          signals,      \* requests whose signal row is in the store
          at,           \* each FulfilOrder instance's next journal entry
          charges,      \* PaymentsService.charges
          stock, reserved,  \* InventoryService
          finished,     \* startAndWait instances: created, then done
          replays

requestVars == <<step, write>>
storeVars == <<orders, placed, paid, signals>>
worldVars == <<charges, stock, reserved>>
vars == <<requestVars, storeVars, worldVars, at, finished, replays>>

Init ==
  /\ step = [r \in DOMAIN Requests |-> "idle"]
  /\ write = [r \in DOMAIN Requests |-> "none"]
  /\ orders = [o \in Orders |-> "none"]
  /\ placed = [o \in Orders |-> 0]
  /\ paid = [o \in Orders |-> 0]
  /\ signals = {}
  /\ at = [o \in Orders |-> "none"]
  /\ charges = [o \in Orders |-> "none"]
  /\ stock = Stock
  /\ reserved = {}
  /\ finished = [r \in DOMAIN Requests |-> "none"]
  /\ replays = 0

Kind(r) == Requests[r].kind
OrderOf(r) == Requests[r].order

-------------------------------------------------------------------------------
(* WorkflowClientBinding *)

\* Mutated form: startAndWait is not wrapped.
Detached_Never(r) == FALSE

\* startAndWait runs its start() without the ambient transaction.
Detached(r) == Kind(r) = "wait"

\* Mutated form: the call always goes its own way.
Joins_Never(r) == FALSE

\* The call is given the ambient transaction.  One that brings its own option or
\* comes from a NOT_SUPPORTED method takes the path of a detached one.
Joins(r) == ~Detached(r)

\* assertSignalIsolation on PostgreSQL; no declared level is left to the store.
Refused(r) == /\ Kind(r) = "deliver" /\ Joins(r)
              /\ Requests[r].isolation \in {"REPEATABLE_READ", "SERIALIZABLE"}

\* Mutated form: nobody tracks the promise.
Drained_Untracked(r) == TRUE

\* trackPending, by the event bus for the start an aggregate's commit() drops and by
\* the client binding for a direct call: COMMIT waits for what was given the transaction.
Drained(r) == Joins(r) => write[r] # "pending"

-------------------------------------------------------------------------------
(* Requests: PlaceOrderHandler.execute, OrdersService.confirmDelivery, and a  *)
(* method that awaits client.startAndWait().                                 *)

\* main.ts uses a fresh order id for every command it repeats.
Fresh(r) == Kind(r) = "place" =>
  /\ orders[OrderOf(r)] = "none"
  /\ \A q \in DOMAIN Requests :
       Kind(q) = "place" /\ OrderOf(q) = OrderOf(r) => step[q] \in {"idle", "rolledBack"}

\* The method begins, writes its row and makes the call.
Execute(r) ==
  /\ step[r] = "idle" /\ Fresh(r)
  /\ Cardinality({q \in DOMAIN Requests : step[q] \in {"body", "draining"}}) < MaxOpen
  /\ \/ /\ Refused(r)
        /\ step' = [step EXCEPT ![r] = "rolledBack"]
        /\ UNCHANGED write
     \/ /\ ~Refused(r)
        /\ step' = [step EXCEPT ![r] = "body"]
        /\ write' = [write EXCEPT ![r] = "pending"]
  /\ UNCHANGED <<storeVars, worldVars, at, finished, replays>>

Settled(r) == step[r] \in {"committed", "rolledBack"}

\* The transaction ends; a promise it has the result of is forgotten.
Ends(r, how) ==
  /\ step' = [step EXCEPT ![r] = how]
  /\ write' = [write EXCEPT ![r] = IF @ = "pending" THEN @ ELSE "none"]

\* The client's statement succeeds: in the transaction, or at once by itself.
WriteLands(r) ==
  /\ write[r] = "pending" /\ (Joins(r) => ~Settled(r))
  /\ write' = [write EXCEPT ![r] = "written"]
  /\ finished' = IF Kind(r) = "wait" /\ ~Joins(r) THEN [finished EXCEPT ![r] = "created"] ELSE finished
  /\ signals' = IF Kind(r) = "deliver" /\ ~Joins(r) THEN signals \cup {r} ELSE signals
  /\ UNCHANGED <<step, orders, placed, paid, worldVars, at, replays>>

\* A driver error, or the transaction's connection is gone.
WriteFails(r) ==
  /\ write[r] = "pending"
  /\ write' = [write EXCEPT ![r] = IF Settled(r) THEN "none" ELSE "failed"]
  /\ UNCHANGED <<step, storeVars, worldVars, at, finished, replays>>

\* order.commit() returns before its start is written; the others await.
BodyReturns(r) ==
  /\ step[r] = "body"
  /\ Kind(r) = "deliver" => write[r] = "written"
  /\ Kind(r) = "wait" => finished[r] = "done"
  /\ step' = [step EXCEPT ![r] = "draining"]
  /\ UNCHANGED <<write, storeVars, worldVars, at, finished, replays>>

\* failAfterWriting, or what the awaited call rejected with.
BodyThrows(r) ==
  /\ step[r] = "body"
  /\ Kind(r) = "deliver" => write[r] # "pending"
  /\ Kind(r) = "wait" => write[r] = "failed"
  /\ Ends(r, "rolledBack")
  /\ UNCHANGED <<storeVars, worldVars, at, finished, replays>>

\* The drain hook threw what the pending call rejected with, or COMMIT failed.
CommitFails(r) ==
  /\ step[r] = "draining" /\ Drained(r)
  /\ Ends(r, "rolledBack")
  /\ UNCHANGED <<storeVars, worldVars, at, finished, replays>>

\* What the transaction wrote shows: the row (an UPDATE of no row does nothing),
\* and whatever its client call wrote in it.
Commit(r) ==
  LET o == OrderOf(r)
      together == Joins(r) /\ write[r] = "written"
  IN  /\ step[r] = "draining" /\ Drained(r)
      /\ Joins(r) => write[r] # "failed"
      /\ Ends(r, "committed")
      /\ orders' = CASE Kind(r) = "place" -> [orders EXCEPT ![o] = "placed"]
                     [] Kind(r) = "deliver" /\ orders[o] # "none" -> [orders EXCEPT ![o] = "delivered"]
                     [] OTHER -> orders
      /\ at' = IF Kind(r) = "place" /\ together THEN [at EXCEPT ![o] = "charge-payment"] ELSE at
      /\ placed' = IF Kind(r) = "place" /\ together THEN [placed EXCEPT ![o] = @ + 1] ELSE placed
      /\ signals' = IF Kind(r) = "deliver" /\ together THEN signals \cup {r} ELSE signals
      /\ finished' = IF Kind(r) = "wait" /\ together THEN [finished EXCEPT ![r] = "created"] ELSE finished
      /\ UNCHANGED <<paid, worldVars, replays>>

Request(r) == \/ Execute(r) \/ WriteLands(r) \/ WriteFails(r) \/ BodyReturns(r) \/ BodyThrows(r)
              \/ CommitFails(r) \/ Commit(r)

-------------------------------------------------------------------------------
(* FulfilOrder.run, one journaled step at a time *)

\* Step `name` ran: its result is journaled, or the worker died first and the
\* step will run again.
Journals(o, name, next) ==
  /\ at[o] = name
  /\ \/ at' = [at EXCEPT ![o] = next] /\ UNCHANGED replays
     \/ replays < MaxReplays /\ replays' = replays + 1 /\ UNCHANGED at
  /\ UNCHANGED <<requestVars, finished>>

\* The provider deduplicates by idempotency key.
ChargePayment(o) ==
  /\ Journals(o, "charge-payment", "reserve-stock")
  /\ charges' = [charges EXCEPT ![o] = IF @ = "none" THEN "charged" ELSE @]
  /\ UNCHANGED <<storeVars, stock, reserved>>

Known(o) == o \in reserved

Available(o) == stock >= Quantity[o]

\* InventoryService.reserve: known, taken, or NonRetryableStepError.
ReserveStock(o) ==
  /\ \/ /\ Known(o)
        /\ Journals(o, "reserve-stock", "mark-paid")
        /\ UNCHANGED <<stock, reserved>>
     \/ /\ ~Known(o) /\ Available(o)
        /\ Journals(o, "reserve-stock", "mark-paid")
        /\ stock' = stock - Quantity[o]
        /\ reserved' = reserved \cup {o}
     \/ /\ ~Known(o) /\ ~Available(o)
        /\ Journals(o, "reserve-stock", "refund")
        /\ UNCHANGED <<stock, reserved>>
  /\ UNCHANGED <<storeVars, charges>>

\* markPaid's transaction, the status and orders.paid; it looks at neither.
MarkPaid(o) ==
  /\ Journals(o, "mark-paid", "await-delivery")
  /\ orders' = [orders EXCEPT ![o] = "paid"]
  /\ paid' = [paid EXCEPT ![o] = @ + 1]
  /\ UNCHANGED <<placed, signals, worldVars>>

\* Mutated form: only the last finished step is undone.
FirstUndone_Skips == "refund"

\* The compensations of the finished steps run in reverse.
FirstUndone == "release-stock"

\* markPaid rolled back until the step's attempts ran out.
MarkPaidFails(o) ==
  /\ at[o] = "mark-paid"
  /\ at' = [at EXCEPT ![o] = FirstUndone]
  /\ UNCHANGED <<requestVars, storeVars, worldVars, finished, replays>>

SignalsFor(o) == {r \in signals : OrderOf(r) = o}

Delivered(o) ==
  /\ SignalsFor(o) # {}
  /\ at[o] = "await-delivery"
  /\ at' = [at EXCEPT ![o] = "completed"]
  /\ UNCHANGED <<requestVars, storeVars, worldVars, finished, replays>>

\* Mutated form: the wait is given no timeout.
Expires_Never(o) == FALSE

\* DELIVERY_TIMEOUT passed with no signal.
Expires(o) == SignalsFor(o) = {}

\* ctx.fail()
TimesOut(o) ==
  /\ Expires(o)
  /\ at[o] = "await-delivery"
  /\ at' = [at EXCEPT ![o] = FirstUndone]
  /\ UNCHANGED <<requestVars, storeVars, worldVars, finished, replays>>

ReleaseStock(o) ==
  /\ Journals(o, "release-stock", "refund")
  /\ stock' = IF Known(o) THEN stock + Quantity[o] ELSE stock
  /\ reserved' = reserved \ {o}
  /\ UNCHANGED <<storeVars, charges>>

Refund(o) ==
  /\ Journals(o, "refund", "cancel")
  /\ charges' = [charges EXCEPT ![o] = "refunded"]
  /\ UNCHANGED <<storeVars, stock, reserved>>

\* OrdersService.cancel, the rest of the same compensation.
Cancel(o) ==
  /\ Journals(o, "cancel", "failed")
  /\ orders' = [orders EXCEPT ![o] = "cancelled"]
  /\ UNCHANGED <<placed, paid, signals, worldVars>>

\* The workflow a startAndWait caller waits for; the worker needs it committed.
RunAwaited(r) ==
  /\ finished[r] = "created"
  /\ finished' = [finished EXCEPT ![r] = "done"]
  /\ UNCHANGED <<requestVars, storeVars, worldVars, at, replays>>

Instance(o) == \/ ChargePayment(o) \/ ReserveStock(o) \/ MarkPaid(o) \/ MarkPaidFails(o)
               \/ Delivered(o) \/ TimesOut(o) \/ ReleaseStock(o) \/ Refund(o) \/ Cancel(o)

\* No request is under way: the process may be stopped.
Quiescent == (\A r \in DOMAIN Requests : step[r] = "idle" \/ Settled(r)) /\ UNCHANGED vars

Next == \/ \E r \in DOMAIN Requests : Request(r) \/ RunAwaited(r)
        \/ \E o \in Orders : Instance(o)
        \/ Quiescent

Spec == Init /\ [][Next]_vars

\* Promises settle and the event loop turns; the worker polls while the process
\* lives, and a delivery wait ends, by a signal or by its timer.
Progress == \/ \E r \in DOMAIN Requests : (step[r] # "idle" /\ Request(r)) \/ RunAwaited(r)
            \/ \E o \in Orders : Instance(o)

FairSpec == Spec /\ WF_vars(Progress)

-------------------------------------------------------------------------------
\* "If the method throws, the order, the workflow instance and the outbox message
\* all roll back" (place-order.handler.ts), and none of the three commits without
\* the others, though order.commit() does not await the start.
PlacedTogether ==
  \A o \in Orders : /\ orders[o] # "none" <=> at[o] # "none"
                    /\ placed[o] = IF orders[o] # "none" THEN 1 ELSE 0

\* "The status update and the workflow signal commit together" (orders.service.ts):
\* no signal of a transaction that rolled back wakes an instance, and none is
\* missing of one that committed.
SignalledTogether ==
  \A r \in DOMAIN Requests : Kind(r) = "deliver" =>
    (r \in signals <=> step[r] = "committed")

\* The units that the orders in S hold, one by one.
UnitsOf(S) == UNION {{o} \X (1 .. Quantity[o]) : o \in S}

\* Whatever is replayed, the units that are not reserved are on the shelf.
UnitsConserved == stock + Cardinality(UnitsOf(reserved)) = Stock

\* The effects of the finished steps fit the instance's end, and no replay takes
\* units that are not there.
EffectsMatch ==
  /\ stock >= 0
  /\ \A o \in Orders :
       /\ at[o] = "completed" => /\ charges[o] = "charged" /\ o \in reserved /\ paid[o] > 0
                                 /\ SignalsFor(o) # {}
       /\ at[o] = "failed" => /\ charges[o] = "refunded" /\ o \notin reserved
                              /\ \/ orders[o] = "cancelled"
                                 \/ orders[o] = "delivered" /\ SignalsFor(o) # {}

\* A completed fulfilment was charged for, holds its units and was signalled, and
\* no unit is lost or made up.  When one fails "the stock is released, the charge
\* refunded, the order cancelled" (fulfil-order.workflow.ts): the first two stay,
\* and so does the third unless a delivery is confirmed after it, for
\* confirmDelivery writes `delivered` over whatever status the order has.
OutcomeIsWhole == UnitsConserved /\ EffectsMatch

\* A method that makes a workflow call ends: none waits for an instance that only
\* its own COMMIT would create.
RequestsSettle == \A r \in DOMAIN Requests : step[r] # "idle" ~> Settled(r)

\* Every instance that was created completes or is compensated.
InstancesSettle == \A o \in Orders : at[o] # "none" ~> at[o] \in {"completed", "failed"}
===============================================================================
