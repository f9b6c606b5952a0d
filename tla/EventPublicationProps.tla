------------------------- MODULE EventPublicationProps -------------------------
(* What publishing events around a transactional call promises. *)
EXTENDS EventPublication

\* Every variable stays in its domain: queues hold hooks and events that exist.
TypeOK ==
  /\ pc \in {"outside", "body", "before", "commit", "rollback", "after", "ended", "done"}
  /\ attempt \in 1 .. MaxAttempts /\ failed \in BOOLEAN /\ busy \in BOOLEAN
  /\ outcome \in {None, "committed", "rolledBack"}
  /\ scheduled \in SUBSET Events /\ onCommit \in SUBSET Jobs /\ onRollback \in SUBSET Jobs
  /\ before \in Seq([kind : {"listener", "drain", "flush"},
                     listener : 0 .. Len(Listeners), event : Events \cup {None}])
  /\ at \in 1 .. Len(before) + 1
  /\ buffer = None \/ buffer \in Seq(Events)
  /\ adding \in Seq(Events) /\ rows \in Seq(Events)
  /\ notifying \in BOOLEAN /\ notified \in BOOLEAN
  /\ tracked = None \/ tracked \in SUBSET Events
  /\ batch \in SUBSET Events
  /\ promise \in [Events -> {"none", "pending", "fulfilled", "rejected"}]
  /\ detached \in SUBSET ((DOMAIN Listeners) \X Events \X (0 .. MaxAttempts))
  /\ ran \in [Jobs -> Nat]

-------------------------------------------------------------------------------
committed == outcome = "committed"
Ended == pc = "ended"

\* The messages q are the externalized ones of the events p, once each and in
\* their order, and besides them only d.
Complete(q, p, d) ==
  /\ IsInjective(q)
  /\ Range(q) = {e \in External : e \in Range(p)} \cup d
  /\ \A k, l \in DOMAIN q, m, n \in DOMAIN p :
       q[k] = p[m] /\ q[l] = p[n] /\ q[k] \in External /\ q[l] \in External /\ m < n => k < l

\* The outbox holds every externalized event published on the bus inside the
\* attempt, and besides them only what was given to OutboxEventPublisher.publish.
OutboxComplete == Complete(rows, published, direct)

\* An attempt that succeeded has all its messages in the outbox, whenever the
\* event arrived: in the body, in a before-commit listener, during the flush
\* (scheduleForPublication and its flush hook).
OutboxMatchesPublications == Ended /\ committed /\ ~failed => OutboxComplete

\* The same of every attempt that committed: buffered events "still commit with
\* the transaction" (outbox-event-publisher.ts).
EventsCommitWithTransaction == Ended /\ committed => OutboxComplete

\* No message stays in the outbox whose business rows a savepoint took back
\* (a NESTED call that failed inside a transaction that committed).
MessagesFollowBusinessRows ==
  Ended /\ committed => Range(rows) \cap undone = {}

\* When COMMIT is sent after a call that succeeded, the work that the publishes
\* of its body left behind is done (EventBusBinding.track and the drain hook).
AwaitsBodyWork ==
  pc = "commit" /\ ~failed => \A e \in fromBody : promise[e] \in {"none", "fulfilled"}

\* When an attempt has ended, each listener has run for each event scheduled in
\* it as often as its phase and the outcome say: never for the other outcome,
\* and never twice (attachHookToTransaction).
PhaseListenersRun ==
  Ended => \A e \in Range(published), i \in DOMAIN Listeners :
    LET n == ran[<<i, e>>]
        phase == Listeners[i].phase
    IN  IF ~Hears(i, e) \/ ~Listeners[i].bound THEN n = 0 ELSE
        CASE phase = "BEFORE_COMMIT" -> n <= 1 /\ (committed /\ ~failed => n = 1)
          [] phase = "AFTER_COMMIT" -> n = IF committed THEN 1 ELSE 0
          [] phase = "AFTER_ROLLBACK" -> n = IF committed THEN 0 ELSE 1
          [] phase = "AFTER_COMPLETION" -> n = 1

\* The relay is woken only after a commit, and after every commit that left
\* messages (notifyAfterCommit): it never looks for rows that may yet vanish.
RelayWoken ==
  /\ notified => committed
  /\ Ended /\ committed /\ rows # <<>> => notified

\* The call ends: the drain loop and the before-commit list, which both grow
\* while they are walked, come to an end.
TransactionEnds == <>(pc = "done")

-------------------------------------------------------------------------------
(* The inductive invariants from which the properties follow. *)

Typing ==
  /\ TypeOK
  /\ published \in Seq(Events) /\ direct \subseteq Events /\ fromBody \subseteq Events
  /\ saved = None \/ saved \in [rows : Seq(Events), direct : SUBSET Events, from : Nat]
  /\ \A k \in DOMAIN before : before[k].kind = "listener" => <<before[k].listener, before[k].event>> \in Jobs
  /\ \A k \in DOMAIN before : before[k].kind = "drain" => tracked # None

\* Where the call is says how far its hooks and its outcome can be.
Stages ==
  /\ busy => pc = "before" /\ at <= Len(before)
  /\ pc \in {"outside", "body"} => at = 1 /\ batch = {} /\ adding = <<>> /\ fromBody = {}
  /\ pc \in {"outside", "body", "before"} => ~failed
  /\ pc \in {"outside", "body", "before", "commit", "rollback"} <=> outcome = None
  /\ saved # None => pc = "body" \/ InHook("listener")
  /\ ~failed /\ ~active /\ pc # "outside" => at = Len(before) + 1
  /\ pc = "outside" => before = <<>> /\ published = <<>> /\ direct = {} /\ rows = <<>> /\ buffer = None /\ tracked = None

\* A message in the outbox is followed by notify(), registered or done.
Waking ==
  /\ notified => committed
  /\ rows # <<>> => notifying \/ notified
  /\ saved # None /\ saved.rows # <<>> => notifying \/ notified
  /\ pc \in {"ended", "done"} /\ committed => ~notifying

Unsettled(e) == promise[e] \in {"pending", "rejected"}

\* Work that the body left unsettled is in the set that a drain hook to come
\* will take, or in the batch that it has taken.
Draining ==
  /\ fromBody \subseteq Range(published)
  /\ pc = "body" /\ tracked # None => \E k \in DOMAIN before : before[k].kind = "drain"
  /\ pc = "body" => \A e \in Range(published) : Unsettled(e) => tracked # None /\ e \in tracked
  /\ pc = "before" => batch = {} \/ InHook("drain")
  /\ pc = "before" => \A e \in fromBody : Unsettled(e) =>
       /\ e \in batch \/ (tracked # None /\ e \in tracked)
       /\ \E k \in at .. Len(before) : before[k].kind = "drain"
  /\ pc = "commit" /\ ~failed => \A e \in fromBody : ~Unsettled(e)

-------------------------------------------------------------------------------
Ran(k) == ran[<<before[k].listener, before[k].event>>]
Started(k) == k < at \/ (k = at /\ busy)
After(e) == Attached({"AFTER_COMMIT", "AFTER_ROLLBACK", "AFTER_COMPLETION"}, e)

\* The before-commit hooks: one for each listener of each event published.
BeforeHooks ==
  /\ \A k \in DOMAIN before : before[k].kind = "listener" =>
       /\ before[k].event \in Range(published)
       /\ before[k].listener \in Attached({"BEFORE_COMMIT"}, before[k].event)
  /\ \A k, l \in DOMAIN before :
       before[k].kind = "listener" /\ before[l] = before[k] => k = l
  /\ \A e \in Range(published) : \A i \in Attached({"BEFORE_COMMIT"}, e) :
       \E k \in DOMAIN before : before[k] = Hook("listener", i, e)
  /\ \A k \in DOMAIN before : before[k].kind = "listener" =>
       IF active THEN Ran(k) = (IF Started(k) THEN 1 ELSE 0)
       ELSE Ran(k) <= 1 /\ (~failed => Ran(k) = 1)

\* The hooks of each outcome: they are all there until the outcome is known,
\* and from then on those of that outcome go as they run.
AfterHooks ==
  /\ Range(published) \subseteq scheduled
  /\ \A j \in Jobs : ran[j] # 0 => j[2] \in Range(published) /\ Hears(j[1], j[2]) /\ Listeners[j[1]].bound
  /\ \A j \in onCommit : j[2] \in Range(published) /\ j[1] \in Attached({"AFTER_COMMIT", "AFTER_COMPLETION"}, j[2])
  /\ \A j \in onRollback : j[2] \in Range(published) /\ j[1] \in Attached({"AFTER_ROLLBACK", "AFTER_COMPLETION"}, j[2])
  /\ \A e \in Range(published) :
       /\ outcome = None => \A i \in After(e) : ran[<<i, e>>] = 0
       /\ outcome # "committed" => \A i \in Attached({"AFTER_COMMIT", "AFTER_COMPLETION"}, e) : <<i, e>> \in onCommit
       /\ outcome # "rolledBack" => \A i \in Attached({"AFTER_ROLLBACK", "AFTER_COMPLETION"}, e) : <<i, e>> \in onRollback
       /\ outcome = "committed" => \A i \in After(e) :
            ran[<<i, e>>] = (IF Listeners[i].phase = "AFTER_ROLLBACK" \/ <<i, e>> \in onCommit THEN 0 ELSE 1)
       /\ outcome = "rolledBack" => \A i \in After(e) :
            ran[<<i, e>>] = (IF Listeners[i].phase = "AFTER_COMMIT" \/ <<i, e>> \in onRollback THEN 0 ELSE 1)
  /\ pc \in {"ended", "done"} => IF committed THEN onCommit = {} ELSE onRollback = {}

-------------------------------------------------------------------------------
InBuffer == IF buffer = None THEN <<>> ELSE buffer

\* Three queues, one after the other: rows, what the flush hook has in hand, and
\* the buffer. Together they hold what was published, and in order.
Queue(r) == r \o (adding \o InBuffer)
Queued(r, d) == Complete(Queue(r), published, d) /\ d \cap Range(published) = {}

\* The same is true of what a savepoint under way would leave if it took back
\* its messages; and a flush hook is to come as long as there is a buffer.
Flushing ==
  /\ Range(published) \subseteq scheduled
  /\ active =>
       /\ Queued(rows, direct)
       /\ saved # None => Queued(saved.rows, saved.direct) /\ saved.direct \subseteq direct
       /\ adding # <<>> => InHook("flush")
       /\ buffer # None => \E k \in at .. Len(before) : before[k].kind = "flush" /\ ~Started(k)
  /\ ~active /\ ~failed /\ pc # "outside" => OutboxComplete
===============================================================================
