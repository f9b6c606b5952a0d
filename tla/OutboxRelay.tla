----------------------------- MODULE OutboxRelay -----------------------------
(***************************************************************************)
(* Delivery of outbox messages to @OnOutboxMessage handlers, as the sagas  *)
(* under examples/ rely on it.  The relay itself is @nestjs/outbox, which  *)
(* is not part of the repository: this is what the repository's handlers   *)
(* and docs/guides/migrating-to-outbox.md ("Delivery is at-least-once")    *)
(* assume of it.  Messages are delivered in any order; a delivery may die  *)
(* at any point, after its handler committed too, and then the message is  *)
(* delivered again; a lost lease puts two deliveries of one message side   *)
(* by side; the inbox skips what a consumer acknowledged; when the         *)
(* attempts run out the message is dead-lettered.                          *)
(***************************************************************************)
EXTENDS Naturals, FiniteSets

CONSTANTS Orders,         \* order ids
          MaxDeliveries,  \* the relay's attempts per message and consumer
          MaxFaults       \* bound: deliveries that die or lose their lease

ASSUME DeliveryAssumption == MaxDeliveries \in Nat \ {0} /\ MaxFaults \in Nat

VARIABLES messages,  \* committed outbox rows
          claims,    \* deliveries ever begun
          running,   \* deliveries under way, with the step their handler is at
          inbox,     \* <<message, consumer>> pairs acknowledged
          faults

relayVars == <<messages, claims, running, inbox, faults>>

RelayInit == messages = {} /\ claims = {} /\ running = {} /\ inbox = {} /\ faults = 0

\* The row of a message of the topic about o; a second one is another row.
Message(topic, o) ==
  [topic |-> topic, order |-> o,
   copy |-> 1 + Cardinality({m \in messages : m.topic = topic /\ m.order = o})]

Tries(m, c) == Cardinality({d \in claims : d.message = m /\ d.consumer = c})
InFlight(m, c) == \E d \in running : d.message = m /\ d.consumer = c

\* The relay hands m to consumer c: again while an earlier delivery still runs
\* only when that one lost its lease.
Claim(m, c) ==
  /\ <<m, c>> \notin inbox
  /\ Tries(m, c) < MaxDeliveries
  /\ InFlight(m, c) => faults < MaxFaults
  /\ LET d == [message |-> m, consumer |-> c, n |-> Tries(m, c) + 1]
     IN  /\ claims' = claims \cup {d}
         /\ running' = running \cup {[delivery |-> d, message |-> m, consumer |-> c,
                                      step |-> "start", seen |-> {}]}
  /\ faults' = IF InFlight(m, c) THEN faults + 1 ELSE faults
  /\ UNCHANGED <<messages, inbox>>

\* The handler's delivery moves on, having committed the messages in sent.
Advance(r, step, seen, sent) ==
  /\ running' = (running \ {r}) \cup {[r EXCEPT !.step = step, !.seen = seen]}
  /\ messages' = messages \cup sent
  /\ UNCHANGED <<claims, inbox, faults>>
Returns(r, sent) == Advance(r, "handled", {}, sent)

\* The handler threw, and its transaction rolled back.
Throws(r) == running' = running \ {r} /\ UNCHANGED <<messages, claims, inbox, faults>>

Acknowledge(r) ==
  /\ r.step = "handled"
  /\ running' = running \ {r}
  /\ inbox' = inbox \cup {<<r.message, r.consumer>>}
  /\ UNCHANGED <<messages, claims, faults>>

\* A driver error, a deadlock or the end of the process: whatever the handler
\* had committed stays, and the message is not acknowledged.
Dies(r) ==
  /\ faults < MaxFaults
  /\ faults' = faults + 1
  /\ running' = running \ {r}
  /\ UNCHANGED <<messages, claims, inbox>>
==============================================================================
