--------------------------- MODULE EventPublication ---------------------------
(***************************************************************************)
(* Events published on the cqrs EventBus, or on the outbox publisher,      *)
(* around one transactional call and its retries: the EventBus wrap of     *)
(* event-bus-binding.ts, TransactionalEventBusPublisher.schedule, the      *)
(* dispatcher's phase listeners, the outbox bridge's buffer and            *)
(* TransactionManager.trackPending, on top of the hook lists of startNew.  *)
(*                                                                         *)
(* The Map of TransactionContext is reduced to `active`: is there a        *)
(* transaction on the data source that events and outbox are bound to.     *)
(***************************************************************************)
EXTENDS Naturals, Sequences, FiniteSets, Functions

CONSTANTS Events,       \* event objects
          External,     \* those whose class is @Externalized
          Classes,      \* handler classes, in the order the container lists them
          Rules,        \* what shouldRollback makes of an error: "rollback", "commit"
          MaxAttempts,  \* attempts of the call (retry.maxAttempts)
          FreshEvents,  \* does every attempt publish event objects of its own?
          OuterStore,   \* is the call made inside a store that an outer run() installed?
          None

PhaseNames == {"BEFORE_COMMIT", "AFTER_COMMIT", "AFTER_ROLLBACK", "AFTER_COMPLETION"}
ListenerRecords == [on : SUBSET Events, phase : PhaseNames, async : BOOLEAN,
                    fallback : BOOLEAN, bound : BOOLEAN, own : BOOLEAN]

\* The metadata of @TransactionalEventsHandler, with the phase it defaults to.
\* `bound` stands for its dataSource: the one of this transaction, or another.
TransactionalEventsHandler(c) ==
  [on |-> c.on, phase |-> IF c.phase = None THEN "AFTER_COMMIT" ELSE c.phase,
   async |-> c.async, fallback |-> c.fallback, bound |-> c.bound, own |-> FALSE]

\* What registerToDispatcher makes of @IntegrationEventsHandler: its handle runs
\* in a manager.run of its own.
IntegrationEventsHandler(c) ==
  [on |-> c.on, phase |-> "AFTER_COMMIT", async |-> TRUE,
   fallback |-> FALSE, bound |-> c.bound, own |-> TRUE]

Decorated(d) == SelectSeq(Classes, LAMBDA c : c.decorator = d)

\* The dispatcher's listeners, in registration order: TransactionalListenerScanner
\* is initialized before IntegrationEventsHandlerScanner.
Listeners ==
  [i \in DOMAIN Decorated("transactional") |-> TransactionalEventsHandler(Decorated("transactional")[i])] \o
  [i \in DOMAIN Decorated("integration") |-> IntegrationEventsHandler(Decorated("integration")[i])]

ASSUME EventsAssumption == External \subseteq Events
ASSUME NoneAssumption == /\ None \notin Events \cup {"committed", "rolledBack"}
                         /\ None \notin Seq(Events) /\ \A S \in SUBSET Events : None # S
ASSUME ListenersAssumption == /\ Listeners \in Seq(ListenerRecords)
                              /\ \A i \in DOMAIN Classes : Classes[i].on # {}
ASSUME RulesAssumption == Rules \subseteq {"rollback", "commit"} /\ Rules # {}
ASSUME AttemptsAssumption == MaxAttempts \in Nat \ {0}
ASSUME SettingAssumption == FreshEvents \in BOOLEAN /\ OuterStore \in BOOLEAN

Jobs == (DOMAIN Listeners) \X Events   \* a listener with the event it is to handle

VARIABLES
  pc,         \* "outside", "body", "before", "commit", "rollback", "after", "ended", "done"
  attempt,    \* attempt of the call
  failed,     \* has fn or a before-commit hook thrown in this attempt?
  outcome,    \* of this attempt: None, "committed", "rolledBack"
  scheduled,  \* the publisher's WeakSet of events already scheduled
  before,     \* the transaction's beforeCommitHooks
  at,         \* index of the hook the before-commit pass has reached
  busy,       \* is that hook under way?
  onCommit,   \* the transaction's afterCommitHooks, listeners only
  onRollback, \* the transaction's afterRollbackHooks
  buffer,     \* OutboxEventPublisher.pending of the transaction, None if it has no entry
  adding,     \* events the flush hook has taken from the buffer and not yet added
  rows,       \* outbox messages added in this transaction
  saved,      \* the savepoint of a NESTED call under way, None if there is none
  notifying,  \* is outbox.notify() among the afterCommitHooks?
  notified,   \* has the relay been woken?
  tracked,    \* TransactionManager.pending of the transaction, None if it has no entry
  batch,      \* promises the drain hook is awaiting
  promise,    \* the asynchronous work each publish left behind
  detached,   \* listener jobs handed to queueMicrotask, with the store they run in
  \* histories, read by no action but the bounds
  published,  \* events published on the bus inside this attempt's transaction, in order
  direct,     \* events given to OutboxEventPublisher.publish in this attempt
  ran,        \* how often each listener job has run in this attempt
  fromBody,   \* events published before the before-commit pass began
  undone      \* events published in a savepoint that was rolled back

txVars == <<before, at, busy, onCommit, onRollback, buffer, adding, rows, saved, notifying, tracked, batch>>
history == <<published, direct, fromBody, undone>>
vars == <<pc, attempt, failed, outcome, scheduled, txVars, notified, promise, detached, ran, history>>

Hook(kind, i, e) == [kind |-> kind, listener |-> i, event |-> e]
Drain == Hook("drain", 0, None)
Flush == Hook("flush", 0, None)

Init ==
  /\ pc = "outside" /\ attempt = 1 /\ failed = FALSE /\ outcome = None
  /\ scheduled = {} /\ before = <<>> /\ at = 1 /\ busy = FALSE
  /\ onCommit = {} /\ onRollback = {}
  /\ buffer = None /\ adding = <<>> /\ rows = <<>> /\ saved = None
  /\ notifying = FALSE /\ notified = FALSE
  /\ tracked = None /\ batch = {} /\ promise = [e \in Events |-> "none"] /\ detached = {}
  /\ published = <<>> /\ direct = {} /\ ran = [j \in Jobs |-> 0] /\ fromBody = {} /\ undone = {}

-------------------------------------------------------------------------------
\* The transaction is in its store; the call's own code runs in the store of Now.
active == pc \in {"body", "before"}
Now == IF pc = "outside" THEN 0 ELSE attempt

\* startNew installs a store per attempt unless the call was made inside one.
Sees(store) == active /\ (OuterStore \/ store = Now)
Current == before[at]
InHook(kind) == pc = "before" /\ busy /\ Current.kind = kind

\* Code of the application is running on the call's own path.
UserCode == pc \in {"outside", "body", "after"} \/ InHook("listener")

Hears(i, e) == e \in Listeners[i].on
Attached(phases, e) == {i \in DOMAIN Listeners : /\ Hears(i, e) /\ Listeners[i].bound
                                                 /\ Listeners[i].phase \in phases}

\* The n-th of a set of listeners, in registration order.
Nth(S, n) == CHOOSE i \in S : Cardinality({j \in S : j <= i}) = n

\* Listener hooks for e, in registration order.
ListenerHooks(e) ==
  LET chosen == Attached({"BEFORE_COMMIT"}, e)
  IN  [n \in 1 .. Cardinality(chosen) |-> Hook("listener", Nth(chosen, n), e)]

\* Mutated form: completion is attached to the commit only.
onRollbackOf_CommitOnly(e) == {<<i, e>> : i \in Attached({"AFTER_ROLLBACK"}, e)}

onRollbackOf(e) == {<<i, e>> : i \in Attached({"AFTER_ROLLBACK", "AFTER_COMPLETION"}, e)}

\* schedule() inside the transaction: scheduleDispatch attaches the phase
\* listeners, scheduleForPublication buffers an externalized event and pushes
\* the flush hook the first time.
ScheduleIn(e) ==
  /\ scheduled' = scheduled \cup {e}
  /\ onCommit' = onCommit \cup {<<i, e>> : i \in Attached({"AFTER_COMMIT", "AFTER_COMPLETION"}, e)}
  /\ onRollback' = onRollback \cup onRollbackOf(e)
  /\ buffer' = IF e \notin External THEN buffer
               ELSE IF buffer = None THEN <<e>> ELSE Append(buffer, e)
  /\ UNCHANGED detached

FlushHooks(e) == IF e \in External /\ buffer = None THEN <<Flush>> ELSE <<>>

\* schedule() with no transaction anywhere: fallback listeners run, the rest is dropped.
ScheduleOut(e, store) ==
  /\ scheduled' = scheduled \cup {e}
  /\ detached' = detached \cup
       {<<i, e, store>> : i \in {i \in DOMAIN Listeners : Hears(i, e) /\ Listeners[i].fallback}}
  /\ UNCHANGED <<onCommit, onRollback, buffer>>

\* track(): inside the transaction, COMMIT is made to wait for a promise.
Track(e, answer, store, hooks) ==
  /\ promise' = [promise EXCEPT ![e] = answer]
  /\ IF answer = "pending" /\ Sees(store)
     THEN /\ tracked' = (IF tracked = None THEN {} ELSE tracked) \cup {e}
          /\ before' = before \o hooks \o (IF tracked = None THEN <<Drain>> ELSE <<>>)
     ELSE /\ before' = before \o hooks
          /\ UNCHANGED tracked

\* The wrapped EventBus.publish: schedule at once, then run the chain of
\* publishers, which answers with a promise or not, and track it.
Publish(e, store) ==
  /\ e \notin Range(published) \cup direct /\ (FreshEvents => e \notin scheduled)
  /\ \E answer \in {"none", "pending"} :
       CASE e \in scheduled ->
              /\ Track(e, answer, store, <<>>)
              /\ UNCHANGED <<scheduled, onCommit, onRollback, buffer, detached>>
         [] e \notin scheduled /\ Sees(store) ->
              ScheduleIn(e) /\ Track(e, answer, store, ListenerHooks(e) \o FlushHooks(e))
         [] e \notin scheduled /\ ~Sees(store) ->
              ScheduleOut(e, store) /\ Track(e, answer, store, <<>>)
  /\ published' = IF Sees(store) THEN Append(published, e) ELSE published
  /\ UNCHANGED <<pc, attempt, failed, outcome, at, busy, adding, rows, saved, notifying, notified, batch,
                 ran, direct, fromBody, undone>>

PublishOnBus(e) == UserCode /\ Publish(e, Now)

\* Mutated form: the relay is woken when the message is added.
Add_WakesNow(e) == rows' = Append(rows, e) /\ notifying' = notifying /\ notified' = TRUE

\* OutboxEventPublisher.publish: outbox.add, then notify() once after the commit.
Add(e) == rows' = Append(rows, e) /\ notifying' = TRUE /\ UNCHANGED notified

PublishOnOutbox(e) ==
  /\ UserCode /\ active
  /\ e \notin direct \cup scheduled \* a message of its own, so that rows tell them apart
  /\ Add(e)
  /\ direct' = direct \cup {e}
  /\ UNCHANGED <<pc, attempt, failed, outcome, scheduled, before, at, busy, onCommit, onRollback,
                 buffer, adding, tracked, batch, promise, detached, ran, published, fromBody, undone, saved>>

\* Work that a wrapping publisher does after publish has returned.
PromiseSettles(e) ==
  /\ promise[e] = "pending"
  /\ \E r \in {"fulfilled", "rejected"} : promise' = [promise EXCEPT ![e] = r]
  /\ UNCHANGED <<pc, attempt, failed, outcome, scheduled, txVars, notified, detached, ran, history>>

\* An async or fallback listener runs on its own: it may publish, then it ends.
\* What an integration handler publishes belongs to its own transaction.
DetachedPublishes(d, e) == d \in detached /\ ~Listeners[d[1]].own /\ Publish(e, d[3])

DetachedEnds(d) ==
  /\ d \in detached
  /\ detached' = detached \ {d}
  /\ UNCHANGED <<pc, attempt, failed, outcome, scheduled, txVars, notified, promise, ran, history>>

-------------------------------------------------------------------------------
(* The transaction: startNew and its before-commit pass. *)

Begin ==
  /\ pc = "outside"
  /\ pc' = "body"
  /\ UNCHANGED <<attempt, failed, outcome, scheduled, txVars, notified, promise, detached, ran, history>>

FnReturns ==
  /\ pc = "body" /\ saved = None
  /\ pc' = "before" /\ fromBody' = Range(published)
  /\ UNCHANGED <<attempt, failed, outcome, scheduled, txVars, notified, promise, detached, ran,
                 published, direct, undone>>

Throw(pcs) == /\ failed' = TRUE /\ busy' = FALSE /\ pc' \in pcs
              /\ UNCHANGED <<attempt, outcome, scheduled, before, at, onCommit, onRollback, buffer,
                             adding, rows, saved, notifying, tracked, batch, notified, promise, detached, history>>

FnThrows == pc = "body" /\ saved = None /\ Throw(Rules) /\ UNCHANGED ran

\* A NESTED call: runNestedSavepoint. The savepoint takes back the rows added
\* since; hooks and buffer belong to the transaction and stay.
Nested ==
  /\ UserCode /\ active /\ saved = None
  /\ saved' = [rows |-> rows, direct |-> direct, from |-> Len(published)]
  /\ UNCHANGED <<pc, attempt, failed, outcome, scheduled, before, at, busy, onCommit, onRollback,
                 buffer, adding, rows, notifying, tracked, batch, notified, promise, detached, ran, history>>

NestedReturns ==
  /\ saved # None
  /\ saved' = None
  /\ UNCHANGED <<pc, attempt, failed, outcome, scheduled, before, at, busy, onCommit, onRollback,
                 buffer, adding, rows, notifying, tracked, batch, notified, promise, detached, ran, history>>

NestedThrows ==
  /\ saved # None
  /\ saved' = None /\ rows' = saved.rows /\ direct' = saved.direct
  /\ undone' = undone \cup {published[i] : i \in saved.from + 1 .. Len(published)}
  /\ UNCHANGED <<pc, attempt, failed, outcome, scheduled, before, at, busy, onCommit, onRollback,
                 buffer, adding, notifying, tracked, batch, notified, promise, detached, ran,
                 published, fromBody>>

NextHook == at' = at + 1 /\ busy' = FALSE

\* invokeListener: an async listener is handed to queueMicrotask and not awaited.
ListenerStarts ==
  /\ pc = "before" /\ ~busy /\ at <= Len(before) /\ Current.kind = "listener"
  /\ LET j == <<Current.listener, Current.event>>
     IN  /\ ran' = [ran EXCEPT ![j] = @ + 1]
         /\ IF Listeners[Current.listener].async
            THEN NextHook /\ detached' = detached \cup {<<j[1], j[2], Now>>}
            ELSE busy' = TRUE /\ UNCHANGED <<at, detached>>
  /\ UNCHANGED <<pc, attempt, failed, outcome, scheduled, before, onCommit, onRollback, buffer,
                 adding, rows, saved, notifying, tracked, batch, notified, promise, history>>

ListenerReturns ==
  /\ InHook("listener") /\ saved = None
  /\ NextHook
  /\ UNCHANGED <<pc, attempt, failed, outcome, scheduled, before, onCommit, onRollback, buffer,
                 adding, rows, saved, notifying, tracked, batch, notified, promise, detached, ran, history>>

ListenerThrows == InHook("listener") /\ saved = None /\ Throw(Rules) /\ UNCHANGED ran

\* Mutated form: the set is not cleared, so the loop never ends.
DrainTakes_KeepsSet ==
  /\ pc = "before" /\ ~busy /\ at <= Len(before) /\ Current.kind = "drain"
  /\ IF tracked = {} THEN NextHook /\ UNCHANGED <<tracked, batch>>
     ELSE busy' = TRUE /\ batch' = tracked /\ UNCHANGED <<at, tracked>>
  /\ UNCHANGED <<pc, attempt, failed, outcome, scheduled, before, onCommit, onRollback, buffer,
                 adding, rows, saved, notifying, notified, promise, detached, ran, history>>

\* The drain hook: while the set is not empty, take it and await all of it.
DrainTakes ==
  /\ pc = "before" /\ ~busy /\ at <= Len(before) /\ Current.kind = "drain"
  /\ IF tracked = {} THEN NextHook /\ UNCHANGED <<tracked, batch>>
     ELSE busy' = TRUE /\ batch' = tracked /\ tracked' = {} /\ UNCHANGED at
  /\ UNCHANGED <<pc, attempt, failed, outcome, scheduled, before, onCommit, onRollback, buffer,
                 adding, rows, saved, notifying, notified, promise, detached, ran, history>>

\* Mutated form: the batch is not awaited.
DrainResumes_AtOnce ==
  /\ InHook("drain")
  /\ busy' = FALSE /\ batch' = {}
  /\ UNCHANGED <<pc, attempt, failed, outcome, scheduled, before, at, onCommit, onRollback, buffer,
                 adding, rows, saved, notifying, tracked, notified, promise, detached, ran, history>>

DrainResumes ==
  /\ InHook("drain") /\ \A e \in batch : promise[e] = "fulfilled"
  /\ busy' = FALSE /\ batch' = {}
  /\ UNCHANGED <<pc, attempt, failed, outcome, scheduled, before, at, onCommit, onRollback, buffer,
                 adding, rows, saved, notifying, tracked, notified, promise, detached, ran, history>>

DrainFails ==
  /\ InHook("drain") /\ \E e \in batch : promise[e] = "rejected"
  /\ Throw(Rules) /\ UNCHANGED ran

\* Mutated form: the buffer's entry stays, so what is published later is not flushed.
FlushTakes_KeepsEntry ==
  /\ pc = "before" /\ ~busy /\ at <= Len(before) /\ Current.kind = "flush"
  /\ busy' = TRUE /\ adding' = buffer /\ buffer' = <<>>
  /\ UNCHANGED <<pc, attempt, failed, outcome, scheduled, before, at, onCommit, onRollback,
                 rows, saved, notifying, tracked, batch, notified, promise, detached, ran, history>>

\* The flush hook takes the buffer, deletes its entry and publishes one by one.
FlushTakes ==
  /\ pc = "before" /\ ~busy /\ at <= Len(before) /\ Current.kind = "flush"
  /\ busy' = TRUE /\ adding' = (IF buffer = None THEN <<>> ELSE buffer) /\ buffer' = None
  /\ UNCHANGED <<pc, attempt, failed, outcome, scheduled, before, at, onCommit, onRollback,
                 rows, saved, notifying, tracked, batch, notified, promise, detached, ran, history>>

FlushAdds ==
  /\ InHook("flush") /\ adding # <<>>
  /\ Add(Head(adding)) /\ adding' = Tail(adding)
  /\ UNCHANGED <<pc, attempt, failed, outcome, scheduled, before, at, busy, onCommit, onRollback,
                 buffer, saved, tracked, batch, promise, detached, ran, history>>

\* outbox.add rejects: the hook throws.
FlushFails == InHook("flush") /\ adding # <<>> /\ Throw(Rules) /\ UNCHANGED ran

FlushReturns ==
  /\ InHook("flush") /\ adding = <<>>
  /\ NextHook
  /\ UNCHANGED <<pc, attempt, failed, outcome, scheduled, before, onCommit, onRollback, buffer,
                 adding, rows, saved, notifying, tracked, batch, notified, promise, detached, ran, history>>

PassEnds ==
  /\ pc = "before" /\ ~busy /\ at > Len(before)
  /\ pc' = "commit"
  /\ UNCHANGED <<attempt, failed, outcome, scheduled, txVars, notified, promise, detached, ran, history>>

Commit ==
  /\ pc = "commit"
  /\ pc' = "after" /\ outcome' = "committed"
  /\ UNCHANGED <<attempt, failed, scheduled, txVars, notified, promise, detached, ran, history>>

\* fn or a hook threw, or COMMIT failed: the messages go with the transaction.
Rollback ==
  /\ pc \in {"rollback", "commit"}
  /\ pc' = "after" /\ outcome' = "rolledBack" /\ failed' = TRUE /\ rows' = <<>>
  /\ UNCHANGED <<attempt, scheduled, before, at, busy, onCommit, onRollback, buffer, adding,
                 saved, notifying, tracked, batch, notified, promise, detached, ran, history>>

\* runHooks over the hooks of the outcome; what they throw is only logged.
AfterListener(j) ==
  /\ pc = "after"
  /\ \/ outcome = "committed" /\ j \in onCommit /\ onCommit' = onCommit \ {j} /\ UNCHANGED onRollback
     \/ outcome = "rolledBack" /\ j \in onRollback /\ onRollback' = onRollback \ {j} /\ UNCHANGED onCommit
  /\ ran' = [ran EXCEPT ![j] = @ + 1]
  /\ detached' = IF Listeners[j[1]].async THEN detached \cup {<<j[1], j[2], Now>>} ELSE detached
  /\ UNCHANGED <<pc, attempt, failed, outcome, scheduled, before, at, busy, buffer, adding, rows,
                 saved, notifying, tracked, batch, notified, promise, history>>

Notify ==
  /\ pc = "after" /\ outcome = "committed" /\ notifying
  /\ notified' = TRUE /\ notifying' = FALSE
  /\ UNCHANGED <<pc, attempt, failed, outcome, scheduled, before, at, busy, onCommit, onRollback,
                 buffer, adding, rows, saved, tracked, batch, promise, detached, ran, history>>

AfterEnds ==
  /\ pc = "after"
  /\ IF outcome = "committed" THEN onCommit = {} /\ ~notifying ELSE onRollback = {}
  /\ pc' = "ended"
  /\ UNCHANGED <<attempt, failed, outcome, scheduled, txVars, notified, promise, detached, ran, history>>

\* Mutated form: one attempt too many.
MayRetry_OffByOne == outcome = "rolledBack" /\ attempt <= MaxAttempts

MayRetry == outcome = "rolledBack" /\ attempt < MaxAttempts

\* startNewWithRetry: a new transaction, hence new hook lists and WeakMap entries.
Retry ==
  /\ pc = "ended" /\ MayRetry
  /\ pc' = "body" /\ attempt' = attempt + 1 /\ failed' = FALSE /\ outcome' = None
  /\ before' = <<>> /\ at' = 1 /\ onCommit' = {} /\ onRollback' = {}
  /\ buffer' = None /\ adding' = <<>> /\ rows' = <<>> /\ notifying' = FALSE
  /\ tracked' = None /\ batch' = {}
  /\ promise' = [e \in Events |-> "none"]
  /\ published' = <<>> /\ direct' = {} /\ fromBody' = {} /\ undone' = {} /\ ran' = [j \in Jobs |-> 0]
  /\ UNCHANGED <<busy, saved, scheduled, notified, detached>>

Settle ==
  /\ pc = "ended"
  /\ pc' = "done"
  /\ UNCHANGED <<attempt, failed, outcome, scheduled, txVars, notified, promise, detached, ran, history>>

Quiescent == pc = "done" /\ UNCHANGED vars

Step == \/ Begin \/ FnReturns \/ FnThrows \/ NestedReturns \/ NestedThrows
        \/ ListenerStarts \/ ListenerReturns \/ ListenerThrows
        \/ DrainTakes \/ DrainResumes \/ DrainFails
        \/ FlushTakes \/ FlushAdds \/ FlushFails \/ FlushReturns
        \/ PassEnds \/ Commit \/ Rollback
        \/ (\E j \in Jobs : AfterListener(j)) \/ Notify \/ AfterEnds \/ Retry \/ Settle

Next == \/ Step
        \/ Nested
        \/ \E e \in Events : PublishOnBus(e) \/ PublishOnOutbox(e) \/ PromiseSettles(e)
        \/ \E d \in detached : DetachedEnds(d)
        \/ \E d \in detached, e \in Events : DetachedPublishes(d, e)
        \/ Quiescent

Spec == Init /\ [][Next]_vars

\* User code returns in the end, however many NESTED calls it makes, the
\* database answers, and started work settles.
Fairness == /\ WF_vars(Step)
            /\ SF_vars(FnReturns \/ FnThrows) /\ SF_vars(ListenerReturns \/ ListenerThrows)
            /\ \A e \in Events : WF_vars(PromiseSettles(e))
FairSpec == Spec /\ Fairness
===============================================================================
