# TLA+ verification of nestjs-transactional

This directory models the `@nestjs-transactional/*` packages and three of the applications under
`examples/`: what `TransactionManager.run` does to the ambient transactions, to the database and
to its caller; what becomes of the events a transactional method publishes; how applications
start, wrap, route and stop in one process; and the sagas and workflows built on top. TLC checks
the models on small instances; TLAPS proves the central facts for every instance. Paths below are
relative to `packages/` of the repository, or to its root where they begin with `examples/`.

## 1. The system

| Part | State it keeps | Operations | Talks to |
|---|---|---|---|
| `TransactionContext` (`core/src/context`) | one store per AsyncLocalStorage scope: a Map from adapter key to `ActiveTransaction`, in insertion order | run, get, set, remove | everybody reads it; the manager writes it |
| `TransactionManager` (`core/src/manager`) | `rolledBack` (WeakSet of error objects), `pending` (WeakMap of tracked promises), hook lists on each `ActiveTransaction` | `run` in seven propagation modes, `startNew`, `startNewWithRetry`, `runNestedSavepoint`, `register*`, `trackPending` | context, registry, adapter, observers |
| Adapters (`typeorm`, `drizzle`) | a connection per transaction, a savepoint name | `runInTransaction`, `runInSavepoint` | driver and its pool |
| Adapter registry, module registration (`core/src/manager`, `core/src/module`) | static Map of registrations and a static flag; per application a registry with a default | `forRoot`, `forRootAsync`, `register`, `getByDataSource`, `resetForTesting` | NestJS container |
| Method and handler wrapping (`core/src/bootstrap`, `core/src/interceptor`, `cqrs/src/handlers`) | handler prototypes patched process-wide, the Map of originals | wrap, restore, reset | `TransactionManager.run` |
| ORM patches (`typeorm/src/patching`, `drizzle/src/patching`) | WeakSet and stamps of managed data sources | mark, patch, reset, resolve | `TransactionContext` |
| cqrs event publication (`cqrs/src/event-publisher`) | `scheduled` (WeakSet of event objects) | wrapped `EventBus.publish`, `schedule`, `track` | dispatcher, outbox bridge, `trackPending` |
| Dispatcher and scanners (`cqrs/src/event-dispatcher`, `cqrs/src/handlers`) | listeners per event type | `registerListener`, `scheduleDispatch`, `invokeListener` | hook lists of the active transaction |
| Outbox bridge (`outbox/src/publisher`) | `pending` (buffer per transaction), `notifying` (WeakSet) | `publish`, `scheduleForPublication` | hook lists, `@nestjs/outbox` |
| Workflows bridge (`workflows/src/binding`) | the wrapped client, a `detached` scope | `start`, `signal`, `startAndWait` | `trackPending`, `@nestjs/workflows` |
| `examples/saga-pattern`, `examples/e-commerce-orders` | rows of orders, stock, reservations, payments | one handler per saga step and its compensation | outbox relay, at-least-once |
| `examples/workflows-order-fulfilment` | orders, instances, signals, charges | place, confirm, the workflow's steps and compensations | workflows bridge |
| Observers, decorators, tokens | metadata | - | - |

What is hard in it:

- **Suspension on shared mutable state.** `REQUIRES_NEW` and `NOT_SUPPORTED` delete an entry
  of a Map and put it back in a `finally`; `startNew` sets and removes the same key. All calls
  of one scope share the Map, also those of a `Promise.all`.
- **Many exits.** The body, a before-commit hook, BEGIN, COMMIT, a savepoint statement or the
  retry option can fail; an error may roll back or commit, and may be retried.
- **Identity of errors and events.** Retrying is decided by membership of the error object in
  a WeakSet, scheduling by membership of the event object in another.
- **Lists that grow while they are walked.** Hooks register hooks; the drain loop awaits
  promises that add promises; a listener publishes during the before-commit pass.
- **Process-wide statics.** Registrations, patched prototypes and stamps outlive an application;
  a start that is refused half-way leaves some of them behind.
- **Order of asynchronous start-up.** Registrations arrive in the order their factories resolve.
- **At-least-once delivery.** Saga handlers run again after a crash, next to themselves when a
  lease is lost, and out of order; workflow steps run again when their result was not journaled.
- **Resources.** A suspended transaction holds its connection while another is waited for.

What makes each part correct is stated in sections 3 and 4 and listed, with the line at which
it may go wrong, under `hazards` in `PROJECT.json`.

## 2. Modules

| Module | Models | Uses |
|---|---|---|
| `TransactionContext` | the store: a Map with its insertion order | - |
| `TransactionManager` | `run` and everything below it, with adapters and pool | instance of `TransactionContext` |
| `RunContract` | abstract: what one `run` promises its caller and the database | - |
| `TransactionManagerProps` | properties, inductive invariant, refinement mapping to `RunContract` | extends `TransactionManager` |
| `TransactionManagerProofs`, `TransactionScopeProofs`, `TransactionOutcomeProofs` | theorems about types, scope, and outcome, hooks and refinement | extend `TransactionManagerProps`, each the one before |
| `EventPublication`, `EventPublicationProps` | events around one call: decorators, scanners, bus, dispatcher, outbox bridge, `trackPending` | - |
| `AdapterRegistry` | the registry as a value: `register`, every lookup, resolution of a call's options | - |
| `OrmRouting` | what each patched TypeORM and Drizzle access resolves to | extends `AdapterRegistry`, instance of `TransactionContext` |
| `ApplicationLifecycle` | applications one after another in a process: registration, start-up, wrapping, requests, close, resets | extends `OrmRouting` |
| `OutboxRelay` | delivery of outbox messages: at least once, any order, lost leases, crashes (external) | - |
| `OrderSaga`, `ECommerceOrders` | the two saga examples | extend `OutboxRelay` |
| `OrderFulfilment` | the workflows bridge under the workflow example | - |
| `EventPublicationProofs`, `ApplicationLifecycleProofs`, `OrderSagaProofs`, `ECommerceOrdersProofs`, `OrderFulfilmentProofs` | the theorems of each module | extend the module they prove about |
| `MC*` | instances for TLC | extend the module they instantiate |

### TransactionManager

A member of `Calls` is one invocation of `run`. `pc[c]` is the place in the code it has
reached, from `begin` (waiting for a connection) through `body`, `beforeCommit`, `commit` or
`rollback`, `afterCommit` or `afterRollback` to `attemptEnd` (the decision to retry),
`restore` (the `finally` that resumes a suspended transaction) and `done`; NESTED calls go
through `savepoint`, `release` and `rollbackTo`. `call[c]` is the frame: the options, the
caller, the store the caller ran in, what was suspended. A transaction, the store an outermost
attempt installs and the errors an attempt creates are named by call and attempt, so that
identity of objects is identity of names. Each `await` of the code is a step boundary; code
between two awaits is one action. `Concurrent` says whether siblings may overlap: JavaScript
does not forbid it, and `Promise.all` does it; a body or a hook may then also return while a call
it did not await still runs. `NextCall` names invocations in a fixed order, since which name an
invocation has does not matter, and `MaxWork` bounds calls and hooks together.

Data left out: isolation level, read-only mode, timeouts (deprecated and ignored), correlation
ids, observers (what they throw is caught and logged), the delay between attempts (it only
postpones the next attempt). `retryIf` is the set of error classes considered retryable,
whether by the option or by the adapter. The driver is represented by the statements it is
sent and by their failures. A failing `ROLLBACK` ends the transaction all the same, and a failing
`COMMIT` has committed nothing: the case of a connection lost after the server applied it is left
out. `retryIf` and the delay function do not throw.

### EventPublication

One call with its retries. The hook list `before` is kept as a sequence, because its order
matters; the after hooks are sets, since each runs once and their failures are only logged.
`store` numbers the AsyncLocalStorage store a piece of code runs in, which decides whether a
detached listener (an `async` or fallback one, run by `queueMicrotask`) still sees a
transaction: an attempt of an outermost call has a store of its own, an attempt of a call made
within another (`OuterStore`) shares it. In that case the outer store's Map is taken to be
empty, as it is inside a `NOT_SUPPORTED` call or an after-commit hook. `publish` may leave a
promise behind (`promise`), which settles at any time, with success or not. An application
publishes an event object at most once per attempt, and gives one object either to the bus or
to the outbox publisher; `FreshEvents` says whether a retry creates its events anew. Errors
appear only through what the rules make of them (`Rules`). A NESTED call is represented by the
savepoint that takes rows back (`saved`), one level deep. `OutboxEventPublisher.publish` adds its
row and registers the wake-up in one step, although `outbox.add` is awaited between them. `@nestjs/outbox` is reduced to its
table (`rows`) and the wake-up of its relay (`notified`).

### AdapterRegistry, OrmRouting and ApplicationLifecycle

A registry is a record: an adapter's database by key (`typeorm:billing` is the pair of type and
name) and the default. `OrmRouting` gives, for a context and the marks, where a statement goes that
is issued through a repository, a `DataSource`, an `EntityManager`, a Drizzle database or
`getCurrentEntityManager`: a transaction or the database itself. `BeginsOn` is what the adapter's
own `transaction()` finds, since TypeORM's goes through the patched getter.

`ApplicationLifecycle` keeps what is static in the code (`registrations`,
`infrastructureRegistered`, `managed`, `stamp`, `proto`) apart from what belongs to an application
(`phase`, `called`, `factory`, `pending`, `registry`) and to the request under way (`request`,
`stack`, `context`). An application makes its `forRoot` calls in source order; each may refuse,
some after they have written the static Map. Then the registry is built, the remaining imports
register in any order in which the container can resolve them, and the bootstrap hooks wrap and may
refuse. While it serves, a request enters through a handler or a controller method and nests calls
of `manager.run`; a call joins, opens, suspends or refuses. What happens inside such a call is
`TransactionManager`'s subject and left out here: one request at a time, every outcome the same; a
call that MANDATORY or NEVER refuses is one that does not happen. `resetForTesting` (core),
`resetManaged` (the marks of TypeORM or of Drizzle) and `resetHandlers` are the statics that test
suites reset between applications, each on its own, so that any part of them may be left over.

Data left out: isolation levels and `readOnly`, names of tokens, per-data-source providers (they
hold no state), and everything the container does to find providers. A handler class has one
method; arrow functions as instance fields, which the wrapper documents it cannot reach, are no
members of `Handlers`.

### OutboxRelay, OrderSaga and ECommerceOrders

`OutboxRelay` is what the repository's handlers assume of `@nestjs/outbox`, which is not part of
it: a committed message is handed to each consumer of its topic until it is acknowledged, at most
`MaxDeliveries` times, in any order. `Dies` ends a delivery at any point, also after the handler's
COMMIT. A second delivery of the same message begins while the first one runs only if the lease was
lost. Both cost one of `MaxFaults`.

In `OrderSaga` every handler is one transaction and one action: its statements lock the rows they
write until COMMIT. In `ECommerceOrders` a handler that uses two transactions, or reads rows before
it updates them, has a step for each, and `seen` is what it read. Quantities, stock and statuses are
kept; prices are reduced to whether the payment is declined, ids and payloads to the order.

### OrderFulfilment

A request is one `@Transactional` method that calls the wrapped client: `start` without awaiting it
(an aggregate's `commit()`), `signal`, or `startAndWait`. Its promise is `write`; COMMIT waits for
it when the call joined the transaction. What a request wrote shows at its COMMIT. An instance of
`FulfilOrder` goes through its journal entries one at a time; a step whose result was not journaled
runs again. The client, its store and its worker are `@nestjs/workflows`, outside the repository.

## 3. Runs that pass

| Run | Question | Bounds, and why they are enough |
|---|---|---|
| `propagation` | `LexicalScope`, `AmbientIsJoinable`, `RestoresContext`: is the shared Map a lexically scoped environment? `OutcomeIsTold`, `CommitsAtMostOnce`, refinement `KeepsRunContract`: does the caller learn what happened to the data? `HooksMatchOutcome`, `SuccessRanBeforeCommit`: do hooks run once and for the outcome their transaction had? | 3 calls nested to depth 2, 2 attempts, 2 data sources, all seven modes: a suspender inside a suspended call inside a transaction, the retry of each, a refused retry option, the other key untouched; two error classes of which one commits; 2 hooks per phase, so that a hook can register a hook. `MaxWork = 6` leaves 4 hooks to one call, 2 to two calls and none to three |
| `concurrent` | `NoConnectionLeak` with overlapping siblings and orphans; `EveryCallSettles` (liveness) | 3 calls in up to 2 requests, nested to depth 2, so two siblings overlap, two requests compete, or one request needs a third connection of a pool of 2 and waits for itself |
| `events` | `OutboxMatchesPublications`, `AwaitsBodyWork`, `PhaseListenersRun`, `RelayWoken`, `TransactionEnds` (liveness) | 2 events, one published by a listener of the other behind the flush hook; 7 handler classes: each phase, detached, fallback, another data source, an integration handler; 2 attempts in one store; errors that roll back and errors that commit |
| `application` | `RegistryIsOwn`, `DefaultIsDeclared`, `HandledByOwnManager`, `StatementsFollowTransaction`, `IndependentTransactions`, `StartSettles` (liveness) | 2 of 7 import lists one after the other, so each can inherit what each other left, with any of the resets between them; 3 calls deep, so a transaction is suspended inside a suspended one; 2 adapter types, 4 databases |
| `saga` | `StockConserved`, `OutcomeRecorded`, `ChargedIsNeverFailed`, `WalksForward`, `SagaSettles` (liveness) | 2 orders that do not both fit, 2 deliveries per message, 1 fault: a redelivery or an overlap at any step |
| `ecommerce` | `StockConserved`, `ConfirmedIsWhole`, `ChargedFailsOnlyIfRedelivered`, `TerminalStays`, `DeclinedIsReleased`, `OrderSettles` (liveness) | 2 orders of 2 lines in opposite product order, together beyond the stock, one declined, one that takes all of its first product, so that its reservation finds too little when it is delivered again; 2 deliveries, 1 fault |
| `fulfilment` | `PlacedTogether`, `SignalledTogether`, `OutcomeIsWhole`, `RequestsSettle`, `InstancesSettle` (liveness) | 5 requests of which 2 are open at a time: two orders beyond the stock, signals at both kinds of isolation, a `startAndWait`; 1 step run again |

`propagation`, `events` and `application` also check their module's `TypeOK`.

`CommitsAtMostOnce` holds in `propagation` although the rules commit on some errors, because every
call there has the same rules; the run `retry_after_commit` is the case of an inner call whose
rules differ. `concurrent` leaves the scoping properties out on purpose: they do not hold of
overlapping siblings, see section 4.

Some properties state an exception, and that there is no other:

- `RegistryIsOwn` says nothing of `Unread`, the `forRoot` adapters beside a first `forRootAsync`;
  that these are missing is the run `unread_adapter`.
- `HandledByOwnManager`: wrappers left by an application that was refused in its bootstrap hooks.
- `EveryCallSettles`: `CircularWait`, where the calls that wait for a connection hold all of them.
- `ChargedFailsOnlyIfRedelivered`: a reservation delivered again.
- `OrderSettles`: orders that name a product twice, whose second reservation row has the key of the
  first.
- `OutcomeIsWhole`: the order of a failed fulfilment is cancelled, or a delivery was confirmed
  since and shows over it.

Section 4 has what the repository says of the last three.

Fairness:

- `TransactionManager`: weak fairness on each call's steps: a promise that can settle does, user
  code returns unless it awaits a call of its own (`Awaiting`), the database answers. The code has
  no timer of its own, so this is what every caller relies on. A connection is waited for without a
  time limit. `EveryCallSettles` therefore has the circular wait as its exception, and deadlock is
  not reported in `concurrent`: there the pool can stop for good. It happens to one request nested
  deeper than the pool is large, which the run reaches, and to four calls of two requests with a
  pool of two (`MaxRoots = 2`, four calls). What the property adds is that nothing else
  keeps a call waiting, such as a connection that an ended transaction did not give back.
- `EventPublication` adds that user code returns however many NESTED calls it makes (strong fairness
  of its return) and that promises left behind settle.
- `ApplicationLifecycle`: weak fairness on the start-up steps, which Nest awaits one after the other.
  Nothing obliges a request to arrive or an application to close.
- `OrderSaga`, `ECommerceOrders`: the relay polls while the process lives and handlers settle. Faults
  are not fair, and fewer than the deliveries a message gets: with as many, a message is
  dead-lettered and its order stays where it is.
- `OrderFulfilment`: promises settle, the worker polls, and a delivery wait ends by a signal or by
  its timer.

## 4. Disagreements with what the repository says

Each is a run in which TLC violates the sentence quoted under `findings`.

| Run | Shows |
|---|---|
| `retry_after_commit` | a transaction that committed through `noRollbackFor` is retried, because an inner `REQUIRES_NEW` rolled back with the same error object |
| `commit_on_error` | a body that throws an error the rules let commit loses its buffered outbox events |
| `nested_message` | an event published on the bus in a rolled-back savepoint is committed by the outer transaction |
| `shared_name` | with `typeorm:billing` and `drizzle:billing` both open, the TypeORM getters find the Drizzle entry and run in autocommit |
| `unread_adapter` | a `forRoot` adapter beside a first `forRootAsync` is accepted and never reaches the registry |

Neighbours of these without a run of their own, with the way to see each:

- Two overlapping `REQUIRES_NEW` siblings leave the outer body without its transaction: set
  `Concurrent = TRUE` in `MCPropagation.cfg`, and `LexicalScope` and `RestoresContext` fail.
- Work tracked after the drain hook has run is not awaited by COMMIT; `AwaitsBodyWork` is therefore
  about what the body tracked.
- An error the rules let commit ends the before-commit pass wherever it is thrown, so a transaction
  commits whose before-commit hook threw one.
- With `FreshEvents = FALSE` and two attempts `OutboxMatchesPublications` fails: the `scheduled`
  WeakSet outlives a rolled-back attempt, so a retry that publishes the same event object does not
  schedule it.
- A command dispatched while an application closes runs without its transaction: `onModuleDestroy`
  restores the prototypes before the server stops.
- A `DataSource` used again under another name by a later application routes by its stamp until it
  is registered again; `resetManagedRegistry` documents such reuse as unsupported.
- `examples/e-commerce-orders/README.md:113` says that "Every step is idempotent". `tryReserve`
  decrements the stock before it meets the row of its own earlier reservation, so a reservation
  delivered again, after a crash or beside itself, may find too little stock and publish
  `StockReservationFailedEvent` next to its `StockReservedEvent`. An order already confirmed stays
  confirmed (`TerminalStays`); one still `placed` may be marked `failed` while its payment is
  `charged`, and its stock stays reserved, since only `PaymentFailedEvent` releases it.
  `ChargedFailsOnlyIfRedelivered` shows that it happens in no other way; without its conclusion it
  is violated in eleven states.
- The same line says that "`unique_violation` is a skip", as does the comment in
  `reserve-stock.handler.ts:111-114`. PostgreSQL refuses every further statement of a transaction
  after the violation, so the UPDATE meant to undo the decrement throws: a redelivery that gets so
  far is rolled back and retried until it is dead-lettered, and an order with two lines of one
  product never settles (`OrderSettles` leaves such carts out).
- `markPaid` has no idempotency key: a replayed step publishes `orders.paid` twice, and may write
  `paid` over `delivered`.
- `fulfil-order.workflow.ts:41-42` says of a fulfilment that fails: "the stock is released, the charge
  refunded, the order cancelled". A webhook that commits after the timeout writes `delivered`
  over `cancelled`, because `confirmDelivery` looks at no status; the charge stays refunded.
  `OutcomeIsWhole` has this as its second alternative for a failed fulfilment; without it TLC
  violates the property.

## 5. Proofs

Every theorem holds for every value of the constants that satisfies the named assumptions of its
module: any calls, keys and options, any events and listeners, any applications with any imports,
any orders, carts and stock, and all bounds. TLC evaluates those assumptions on each instance.
Every invariant and action property of a passing run is the statement of a theorem below, and the
refinement is one too.

| Module | Theorems (and the property each states) | Hypothesis |
|---|---|---|
| `TransactionManagerProofs` | `TypeCorrect` (`TypeOK`) | - |
| `TransactionScopeProofs` | `AwaitedScope`, `AwaitedAmbient`, `AwaitedRestore` (`LexicalScope`, `AmbientIsJoinable`, `RestoresContext`) | `~Concurrent` |
| `TransactionOutcomeProofs` | `ToldOutcome` (`OutcomeIsTold`), `ConnectionsReturn` (`NoConnectionLeak`) | - |
| | `CommitOnce` (`CommitsAtMostOnce`), `ContractKept` (`KeepsRunContract`) | `RulesAgree` |
| | `HooksFollowOutcome` (`HooksMatchOutcome`), `BeforeCommitRan` (`SuccessRanBeforeCommit`) | `~Concurrent` |
| `EventPublicationProofs` | `EventTypes` (`TypeOK`), `RelayIsWoken` (`RelayWoken`), `BodyWorkAwaited` (`AwaitsBodyWork`) | - |
| | `PhasesKept` (`PhaseListenersRun`), `OutboxIsComplete` (`OutboxMatchesPublications`) | `FreshEvents` |
| `ApplicationLifecycleProofs` | `ApplicationTypes` (`TypeOK`), `DefaultsAreDeclared` (`DefaultIsDeclared`), `HandlersHaveOwnManager` (`HandledByOwnManager`) | - |
| | `RegistriesAreOwn` (`RegistryIsOwn`) | `OneAdapter` |
| | `TransactionsAreIndependent` (`IndependentTransactions`) | `OneName` |
| | `StatementsAreRouted` (`StatementsFollowTransaction`) | `OneName`, `NamesApart` |
| `OrderSagaProofs` | `StatusWalk` (`WalksForward`), `OutcomesRecorded` (`OutcomeRecorded`), `ChargedIsKept` (`ChargedIsNeverFailed`), `StockIsConserved` (`StockConserved`) | - |
| `ECommerceOrdersProofs` | `ConfirmedWhole` (`ConfirmedIsWhole`), `ChargedFailsByRedelivery` (`ChargedFailsOnlyIfRedelivered`), `StatusTerminal` (`TerminalStays`), `StockIsConserved` (`StockConserved`) | - |
| `OrderFulfilmentProofs` | `OrdersPlacedTogether` (`PlacedTogether`), `DeliverySignalled` (`SignalledTogether`), `OutcomesWhole` (`OutcomeIsWhole`) | - |

The hypotheses are conditions on a configuration, and each is satisfied by the instance whose run
checks the property:

- `~Concurrent`: a body awaits each call before it makes the next. Overlapping siblings break the
  scoping properties (section 4) and let a call register a hook on a transaction whose hooks have
  run.
- `RulesAgree`: no call is retried on an error class that its own rules commit on and that another
  call of the system may have rolled back. `propagation` satisfies it; `retry_after_commit` does
  not, and violates `CommitsAtMostOnce`.
- `FreshEvents`: an attempt creates its event objects. Without it a retry publishes objects that the
  `scheduled` WeakSet already knows (section 4).
- `OneAdapter`: an application imports each pair of type and data source once, among the imports
  that can reach its registry. `register` itself overwrites silently.
- `OneName`: a TypeORM `DataSource` has one name in the process. Its stamp outlives the application.
- `NamesApart`: no adapter of another type has the name of a TypeORM data source of the same
  application, or of one that serves beside wrappers left at bootstrap. `application` satisfies it; `shared_name` does not, and violates
  `StatementsFollowTransaction`.

### Inductive invariants

**TransactionManager, scope** (`IInv` of `TransactionManagerProps`). `LexicalScope` speaks of the
call in control only, so it says nothing of the caller a finishing call hands control back to.
What carries it over is `entry`, the Map's contents when a call began: `ParentInv` says that
the entry of an active call is exactly what its parent has to see, and that the parent has no
other child. Hence a finishing call has only to leave the Map equal to its `entry`, which
`FrameInv` (what was suspended is the entry's own value) and `LexicalScope` for the call itself
give. `ChainInv` makes sure that no other call of the same store is in control meanwhile,
`StoreInv` that stores are neither reused nor dropped while in use, and `OpenInv` and `MapInv`
that a transaction found in a Map is open and belongs to a call still in its body. The proof
sorts the actions by effect (`StepEffect`): a step of a call changes the store of that call
alone and only under its own key, keeps everyone's frame, or starts a new child; each conjunct
then has one lemma per kind of effect (`...Kept`, `Arrival...`). `TypeCorrect` needs `ErrorInv`
beside `TypeOK`: a transaction being rolled back has an error, which is what `rolledBack` records.

**TransactionManager, outcome** (`OutcomeInv`). `OutcomeIsTold` is about calls that are done; the
invariant says it of every place a call can be at: `PlaceInv` (a call is only at places of its
kind), `StageInv` (its place, its error and the status of its transaction fit together),
`AttemptInv` (later attempts have not begun, earlier ones are closed). `UndoneInv` says that an
error recorded as rolled back is one that the rules of some call roll back on; with `RulesAgree`
this is what stops the retry of a committed attempt. It needs no assumption about overlaps: a
step changes only the transaction of its own call. `ContractKept` maps each call to `RunContract`
through its phase and what its current attempt did. Each step of the manager is one step of
the contract or a stutter; the invariant that earlier attempts were undone makes a retry
invisible. `HookInv` counts: hooks are registered on open transactions only, each runs at most
once, and all have run when their loop is over, including those a hook or a joined call added to
the list while it was walked.

**EventPublication**. `Typing` and `Stages` say how far hooks and outcome can be at each place.
`Waking`: a row in the outbox, or in a savepoint that would be restored, has its `notify` registered
or done. `Draining`: unsettled work of the body is in the set that a drain hook still to come will
take, or in the batch the current one waits for. `BeforeHooks` and `AfterHooks` relate the list of
hooks, what was published and what has run. `Flushing` is about three queues, one after the other:
the rows of the outbox, what the flush hook has in hand, and the buffer. Together they hold the
externalized events in the order of publication, for the current rows and for those a savepoint
under way would go back to. It holds at every step, so when the buffer is gone and nothing is in
hand, the rows alone are complete. That the list of hooks is not sorted by kind, and that
listeners publish behind the flush hook, is why the invariant is about queues rather than about
the order of the hooks.

**ApplicationLifecycle** (`LifecycleInv`). `Alone`: one application lives at a time, so the statics
it reads are its own; `StaticInv` and `DeclaringInv` say that an application whose factory is
`static` was the first to call after a reset, and that the static Map holds exactly what it has
declared so far, in order. `RegistryInv` then says that a registry has nothing but its own imports,
and all of those no longer pending except `Unread`; `DefaultInv` that the default is the declared one as soon as that
is registered and the first synchronous one until then; `SettledInv` that nothing is pending when
an application serves. `ProtoInv`: a wrapper belongs to the application that serves or to one refused
at bootstrap. `StampInv` and `MarksInv` relate marks to the imports that put them there. `StackInv` is
the counterpart of `IInv` for the stack of calls: each call remembers what the calls around it gave
its key (`Nested`), and the Map holds what all of them give; pushing a call and ending one preserve
this (`Pushes`, `Pops`). An entry carries its own key, and the key is one that the request's
application, or one refused at bootstrap, has registered (`Belongs`): with `NamesApart` the first entry of a
name is therefore the entry of the key, and with `OneName` the suspended Map has no entry for a new
transaction to begin on.

**OrderSaga, ECommerceOrders** (`SagaInv`): what the rows of an order say of its status, and that each
message was published, once, by the step that wrote the row. A redelivered message then finds
the row and does nothing. In `ECommerceOrders` a delivery under way also carries its topic, because
a handler with two transactions is interrupted between them. `VerdictInv` numbers the deliveries of
a reservation: while its handler has not published, a delivery is undecided, so two outcomes come
from two deliveries. `StockInv`: units are counted as the
elements of a set, a product's stock plus the number of its held units is constant, and a
step adds or removes the units of one order (`HolderJoins`, `HolderLeaves`). A sum over the orders
would need induction over data, which the prover lacks; the cardinality of the set of units is the
same number and has library theorems.

**OrderFulfilment** (`FulfilmentInv`, `UnitsInv`): a transaction under way has made its client call,
one request at a time places an order and only one that does not exist, and the place in the
journal says which effects have been produced. Replays are covered because every effect is stated as
reached, not as counted. Signals only grow, so a completed instance stays signalled, and the
confirmation that overwrites `cancelled` brings its signal with it.

### Only model-checked

Liveness (every `...Settles`, `TransactionEnds`, `DeclinedIsReleased`) rests on fairness and
`ENABLED`, which the prover does not handle. What overlapping siblings do to scope and hooks is
shown by TLC as counterexamples (section 4), not by theorems: the properties are false there.

## 6. Plan

Done: every package of the library and three examples are modelled; every safety property and the
refinement are proved. Left:

1. Weaker hypotheses: `HooksMatchOutcome` for overlapping calls that do not share a transaction;
   `StatementsFollowTransaction` for Drizzle databases without `NamesApart`, which their route does
   not need.
2. Safety lemmas that the liveness properties rest on, such as that a waiting call leaves a step
   of some call possible, as invariants without `ENABLED`.
3. A second data source in `EventPublication`.

## 7. Not modelled

- Observers, injection decorators and tokens, deprecated aliases: no state of the library depends
  on them.
- In the manager: the delay between attempts, the correlation id, isolation level, read-only mode and
  the deprecated timeout. In the adapters: which driver errors count as retryable is the set
  `retryIf`; a driver without savepoints fails the savepoint statement like any other error.
- In the TypeORM patches: a `QueryRunner` passed explicitly, a repository kept from a transaction
  after its end, and objects made before the patches were installed.
- In the outbox bridge: building and routing of messages.
- A `COMMIT` whose outcome the client does not learn; callbacks of the retry option that throw.
- A second order placed under an id that exists: `main.ts` uses fresh ids (`Fresh`).
- NestJS dependency injection beyond the order in which start-up steps may happen.
- A listener or an outbox bound to a second data source while both have transactions:
  `EventPublication` has one data source and `ApplicationLifecycle` no events.
- The other examples: they wire the packages together without rules of their own. In
  `examples/audit-logging` concurrent operations on an account can lose an update
  (`account.service.ts:38` reads the balance and writes what it computed from it).
- Documentation, tests and build files.

`PROJECT.json` gives the reason per component.

## 8. Running

    tlc -workers 2 -config MCPropagation.cfg MCManager
    tlc -workers 2 -config MCConcurrent.cfg MCManager
    tlc -workers 2 -config MCEvents.cfg MCEvents
    tlc -workers 2 -config MCApplication.cfg MCApplication
    tlc -workers 2 -config MCSaga.cfg MCSaga
    tlc -workers 2 -config MCECommerce.cfg MCECommerce
    tlc -workers 2 -config MCFulfilment.cfg MCFulfilment
    for m in TransactionManager TransactionScope TransactionOutcome EventPublication \
             ApplicationLifecycle OrderSaga ECommerceOrders OrderFulfilment
    do tlapm ${m}Proofs.tla; done
