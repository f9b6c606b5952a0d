------------------------ MODULE EventPublicationProofs -------------------------
(***************************************************************************)
(* Proofs about publishing events around a transactional call, for every   *)
(* set of events, any listeners, any rollback rules, any number of         *)
(* attempts, publishes, NESTED calls and promises, and wherever the call   *)
(* is made.                                                                *)
(***************************************************************************)
EXTENDS EventPublicationProps, FiniteSetTheorems, SequenceTheorems, TLAPS

-------------------------------------------------------------------------------
(* The before-commit hooks of one event. *)

Rank(S, i) == Cardinality({j \in S : j <= i})

\* Nth enumerates a finite set of numbers: each has one place.
LEMMA NthEnumerates ==
  ASSUME NEW S, S \subseteq Nat, IsFiniteSet(S)
  PROVE  /\ Cardinality(S) \in Nat
         /\ \A n \in 1 .. Cardinality(S) : Nth(S, n) \in S /\ Rank(S, Nth(S, n)) = n
         /\ \A i \in S : Rank(S, i) \in 1 .. Cardinality(S) /\ Nth(S, Rank(S, i)) = i
<1> DEFINE m == Cardinality(S)
           upTo(i) == {j \in S : j <= i}
           f == [i \in S |-> Rank(S, i)]
<1>1. m \in Nat
  BY FS_CardinalityType
<1>2. ASSUME NEW i \in S PROVE Rank(S, i) \in 1 .. m
  <2>1. IsFiniteSet(upTo(i)) /\ Cardinality(upTo(i)) \in Nat /\ Cardinality(upTo(i)) <= m
    BY FS_Subset, FS_CardinalityType
  <2>2. upTo(i) # {}
    BY <1>2
  <2>3. Cardinality(upTo(i)) # 0
    BY <2>1, <2>2, FS_EmptySet
  <2> QED BY <1>1, <2>1, <2>3 DEF Rank
<1>3. ASSUME NEW i \in S, NEW j \in S, Rank(S, i) = Rank(S, j) PROVE i = j
  <2>1. ASSUME NEW a \in S, NEW b \in S, a < b, Rank(S, a) = Rank(S, b) PROVE FALSE
    <3>a. a \in Nat /\ b \in Nat /\ \A x \in S : x \in Nat
      OBVIOUS
    <3>b. \A x \in upTo(a) : x \in upTo(b)
      BY <2>1, <3>a
    <3>c. b \in upTo(b) /\ b \notin upTo(a)
      BY <2>1, <3>a
    <3>1. upTo(a) \subseteq upTo(b) /\ b \in upTo(b) /\ b \notin upTo(a)
      BY <3>b, <3>c
    <3>2. IsFiniteSet(upTo(b))
      BY FS_Subset
    <3>3. Cardinality(upTo(b)) = Cardinality(upTo(a))
      BY <2>1 DEF Rank
    <3> HIDE DEF upTo
    <3>4. upTo(b) = upTo(a)
      BY <3>1, <3>2, <3>3, FS_Subset
    <3> QED BY <3>1, <3>4
  <2> QED BY <1>3, <2>1
<1>4. f \in Injection(S, 1 .. m)
  BY <1>2, <1>3 DEF Injection, IsInjective
<1>5. IsFiniteSet(1 .. m) /\ Cardinality(1 .. m) = m
  BY <1>1, FS_Interval
<1>6. f \in Surjection(S, 1 .. m)
  BY <1>4, <1>5, FS_Injection
<1>7. \A n \in 1 .. m : \E i \in S : Rank(S, i) = n
  BY <1>6 DEF Surjection
<1>8. \A n \in 1 .. m : Nth(S, n) \in S /\ Rank(S, Nth(S, n)) = n
  BY <1>7 DEF Nth, Rank
<1> QED BY <1>1, <1>2, <1>3, <1>8

HookRecords == [kind : {"listener", "drain", "flush"}, listener : 0 .. Len(Listeners), event : Events \cup {None}]

LEMMA ListenerDomain == DOMAIN Listeners = 1 .. Len(Listeners) /\ Len(Listeners) \in Nat
BY ListenersAssumption

\* ListenerHooks has one hook for each listener of the event in the phase
\* BEFORE_COMMIT, and no other.
LEMMA ListenerHooksEnumerate ==
  ASSUME NEW e \in Events
  PROVE  /\ ListenerHooks(e) \in Seq(HookRecords)
         /\ \A k \in DOMAIN ListenerHooks(e) :
              /\ ListenerHooks(e)[k].kind = "listener" /\ ListenerHooks(e)[k].event = e
              /\ ListenerHooks(e)[k].listener \in Attached({"BEFORE_COMMIT"}, e)
         /\ \A k, l \in DOMAIN ListenerHooks(e) : ListenerHooks(e)[k] = ListenerHooks(e)[l] => k = l
         /\ \A i \in Attached({"BEFORE_COMMIT"}, e) :
              \E k \in DOMAIN ListenerHooks(e) : ListenerHooks(e)[k] = Hook("listener", i, e)
<1> DEFINE S == Attached({"BEFORE_COMMIT"}, e)
           m == Cardinality(S)
<1>1. S \subseteq 1 .. Len(Listeners) /\ S \subseteq Nat
  BY ListenerDomain DEF Attached
<1>2. IsFiniteSet(S)
  <2>1. IsFiniteSet(1 .. Len(Listeners))
    BY ListenerDomain, FS_Interval
  <2> HIDE DEF S
  <2> QED BY <1>1, <2>1, FS_Subset
<1>3. /\ m \in Nat
      /\ \A n \in 1 .. m : Nth(S, n) \in S /\ Rank(S, Nth(S, n)) = n
      /\ \A i \in S : Rank(S, i) \in 1 .. m /\ Nth(S, Rank(S, i)) = i
  <2> HIDE DEF S
  <2> QED BY <1>1, <1>2, NthEnumerates
<1>4. ListenerHooks(e) = [n \in 1 .. m |-> Hook("listener", Nth(S, n), e)]
  BY DEF ListenerHooks
<1> HIDE DEF S, m
<1>5. \A n \in 1 .. m : Hook("listener", Nth(S, n), e) \in HookRecords
  <2>1. \A i \in 0 .. Len(Listeners) : Hook("listener", i, e) \in HookRecords
    BY DEF Hook, HookRecords
  <2>2. \A i \in S : i \in 0 .. Len(Listeners)
    BY <1>1, ListenerDomain
  <2>3. \A n \in 1 .. m : Nth(S, n) \in S
    BY <1>3
  <2> QED BY <2>1, <2>2, <2>3
<1>6. ListenerHooks(e) \in Seq(HookRecords)
  BY <1>3, <1>4, <1>5, IsASeq
<1>7. DOMAIN ListenerHooks(e) = 1 .. m
  BY <1>4
<1>8. \A k \in 1 .. m : ListenerHooks(e)[k] = Hook("listener", Nth(S, k), e)
  BY <1>4
<1>9. \A k \in 1 .. m : ListenerHooks(e)[k].kind = "listener" /\ ListenerHooks(e)[k].event = e
                        /\ ListenerHooks(e)[k].listener = Nth(S, k)
  <2>1. \A i : Hook("listener", i, e).kind = "listener" /\ Hook("listener", i, e).event = e
               /\ Hook("listener", i, e).listener = i
    BY DEF Hook
  <2> QED BY <1>8, <2>1
<1>10. \A k, l \in 1 .. m : ListenerHooks(e)[k] = ListenerHooks(e)[l] => k = l
  BY <1>3, <1>9
<1>11. \A i \in S : \E k \in 1 .. m : ListenerHooks(e)[k] = Hook("listener", i, e)
  BY <1>3, <1>8
<1> QED BY <1>3, <1>6, <1>7, <1>9, <1>10, <1>11 DEF S

\* Where the parts of a concatenation are found.
LEMMA Appended ==
  ASSUME NEW R, NEW s \in Seq(R), NEW t \in Seq(R)
  PROVE  /\ s \o t \in Seq(R) /\ Len(s \o t) = Len(s) + Len(t)
         /\ DOMAIN (s \o t) = 1 .. Len(s) + Len(t)
         /\ \A k \in DOMAIN s : k \in DOMAIN (s \o t) /\ (s \o t)[k] = s[k]
         /\ \A k \in DOMAIN t : Len(s) + k \in DOMAIN (s \o t) /\ (s \o t)[Len(s) + k] = t[k]
         /\ \A k \in DOMAIN (s \o t) : k \in DOMAIN s \/ (k > Len(s) /\ k - Len(s) \in DOMAIN t /\ (s \o t)[k] = t[k - Len(s)])
         /\ Range(s \o t) = Range(s) \cup Range(t)
<1>1. /\ s \o t \in Seq(R) /\ Len(s \o t) = Len(s) + Len(t)
      /\ \A i \in 1 .. Len(s) + Len(t) : (s \o t)[i] = IF i <= Len(s) THEN s[i] ELSE t[i - Len(s)]
  BY ConcatProperties
<1>2. DOMAIN (s \o t) = 1 .. Len(s) + Len(t) /\ DOMAIN s = 1 .. Len(s) /\ DOMAIN t = 1 .. Len(t)
      /\ Len(s) \in Nat /\ Len(t) \in Nat
  BY <1>1
<1>3. \A k \in DOMAIN s : k \in DOMAIN (s \o t) /\ (s \o t)[k] = s[k]
  BY <1>1, <1>2
<1>4. \A k \in DOMAIN t : Len(s) + k \in DOMAIN (s \o t) /\ (s \o t)[Len(s) + k] = t[k]
  BY <1>1, <1>2
<1>5. \A k \in DOMAIN (s \o t) : k \in DOMAIN s \/ (k > Len(s) /\ k - Len(s) \in DOMAIN t /\ (s \o t)[k] = t[k - Len(s)])
  BY <1>1, <1>2
<1>6. Range(s \o t) = Range(s) \cup Range(t)
  <2>1. ASSUME NEW x \in Range(s \o t) PROVE x \in Range(s) \cup Range(t)
    BY <1>3, <1>5, <2>1 DEF Range
  <2>2. ASSUME NEW x \in Range(s) PROVE x \in Range(s \o t)
    BY <1>3, <2>2 DEF Range
  <2>3. ASSUME NEW x \in Range(t) PROVE x \in Range(s \o t)
    BY <1>4, <2>3 DEF Range
  <2> QED BY <2>1, <2>2, <2>3
<1> QED BY <1>1, <1>2, <1>3, <1>4, <1>5, <1>6

LEMMA Pushed ==
  ASSUME NEW R, NEW s \in Seq(R), NEW x \in R
  PROVE  /\ Append(s, x) \in Seq(R) /\ Len(s) \in Nat
         /\ DOMAIN Append(s, x) = 1 .. Len(s) + 1 /\ DOMAIN s = 1 .. Len(s)
         /\ \A k \in DOMAIN s : k \in DOMAIN Append(s, x) /\ Append(s, x)[k] = s[k]
         /\ Append(s, x)[Len(s) + 1] = x
         /\ Range(Append(s, x)) = Range(s) \cup {x}
<1> DEFINE t == Append(s, x)
<1>1. /\ t \in Seq(R) /\ Len(s) \in Nat
      /\ DOMAIN t = 1 .. Len(s) + 1 /\ DOMAIN s = 1 .. Len(s)
      /\ \A k \in 1 .. Len(s) : t[k] = s[k]
      /\ t[Len(s) + 1] = x
  OBVIOUS
<1> HIDE DEF t
<1>2. \A k \in DOMAIN s : k \in DOMAIN t
  BY <1>1
<1>3. \A k \in DOMAIN t : k \in DOMAIN s \/ k = Len(s) + 1
  BY <1>1
<1>4. Len(s) + 1 \in DOMAIN t
  BY <1>1
<1>5. Range(t) = Range(s) \cup {x}
  <2>1. ASSUME NEW y \in Range(t) PROVE y \in Range(s) \cup {x}
    BY <1>1, <1>3, <2>1 DEF Range
  <2>2. ASSUME NEW y \in Range(s) PROVE y \in Range(t)
    BY <1>1, <1>2, <2>2 DEF Range
  <2>3. x \in Range(t)
    BY <1>1, <1>4 DEF Range
  <2> QED BY <2>1, <2>2, <2>3
<1> QED BY <1>1, <1>2, <1>5 DEF t

\* The hooks that a publish pushes inside the transaction.
NewHooks(e, answer) ==
  (IF e \in scheduled THEN <<>> ELSE ListenerHooks(e) \o FlushHooks(e)) \o
  (IF answer = "pending" /\ tracked = None THEN <<Drain>> ELSE <<>>)

\* They are the hooks of its listeners, a flush hook if the event is the first
\* in the buffer, and a drain hook if its work is the first to be tracked.
LEMMA NewHooksShape ==
  ASSUME NEW e \in Events, NEW answer \in {"none", "pending"}
  PROVE  LET new == NewHooks(e, answer) IN
         /\ new \in Seq(HookRecords)
         /\ \A k \in DOMAIN new :
              \/ /\ new[k].kind = "listener" /\ new[k].event = e /\ e \notin scheduled
                 /\ new[k].listener \in Attached({"BEFORE_COMMIT"}, e)
              \/ new[k] = Flush /\ e \in External /\ buffer = None /\ e \notin scheduled
              \/ new[k] = Drain /\ answer = "pending" /\ tracked = None
         /\ \A k, l \in DOMAIN new : new[k].kind = "listener" /\ new[k] = new[l] => k = l
         /\ e \notin scheduled => \A i \in Attached({"BEFORE_COMMIT"}, e) :
              \E k \in DOMAIN new : new[k] = Hook("listener", i, e)
         /\ e \notin scheduled /\ e \in External /\ buffer = None => \E k \in DOMAIN new : new[k] = Flush
         /\ answer = "pending" /\ tracked = None => \E k \in DOMAIN new : new[k] = Drain
<1> DEFINE L == ListenerHooks(e)
           F == FlushHooks(e)
           A == IF e \in scheduled THEN <<>> ELSE L \o F
           D == IF answer = "pending" /\ tracked = None THEN <<Drain>> ELSE <<>>
<1>0. Drain \in HookRecords /\ Flush \in HookRecords /\ Drain.kind = "drain" /\ Flush.kind = "flush"
  BY ListenerDomain DEF Drain, Flush, Hook, HookRecords
<1>1. L \in Seq(HookRecords) /\ F \in Seq(HookRecords) /\ D \in Seq(HookRecords)
  BY <1>0, ListenerHooksEnumerate DEF FlushHooks
<1>2. /\ \A k \in DOMAIN F : F[k] = Flush /\ e \in External /\ buffer = None
      /\ e \in External /\ buffer = None => 1 \in DOMAIN F /\ F[1] = Flush
  BY DEF FlushHooks
<1>3. /\ \A k \in DOMAIN D : D[k] = Drain /\ answer = "pending" /\ tracked = None
      /\ answer = "pending" /\ tracked = None => 1 \in DOMAIN D /\ D[1] = Drain
  OBVIOUS
<1>4. /\ \A k \in DOMAIN L : L[k].kind = "listener" /\ L[k].event = e /\ L[k].listener \in Attached({"BEFORE_COMMIT"}, e)
      /\ \A k, l \in DOMAIN L : L[k] = L[l] => k = l
      /\ \A i \in Attached({"BEFORE_COMMIT"}, e) : \E k \in DOMAIN L : L[k] = Hook("listener", i, e)
  BY ListenerHooksEnumerate
<1> HIDE DEF L, F, D
<1>5. /\ A \in Seq(HookRecords)
      /\ \A k \in DOMAIN A :
           \/ k \in DOMAIN L /\ A[k] = L[k] /\ e \notin scheduled
           \/ A[k] = Flush /\ e \in External /\ buffer = None /\ e \notin scheduled
      /\ e \notin scheduled => \A k \in DOMAIN L : k \in DOMAIN A /\ A[k] = L[k]
      /\ e \notin scheduled /\ e \in External /\ buffer = None => \E k \in DOMAIN A : A[k] = Flush
  <2>1. CASE e \in scheduled
    BY <2>1, EmptySeq
  <2>2. CASE e \notin scheduled
    <3>1. A = L \o F
      BY <2>2
    <3> HIDE DEF A
    <3>2. /\ A \in Seq(HookRecords)
          /\ \A k \in DOMAIN L : k \in DOMAIN A /\ A[k] = L[k]
          /\ \A k \in DOMAIN F : Len(L) + k \in DOMAIN A /\ A[Len(L) + k] = F[k]
          /\ \A k \in DOMAIN A : k \in DOMAIN L \/ (k - Len(L) \in DOMAIN F /\ A[k] = F[k - Len(L)])
      BY <1>1, <3>1, Appended
    <3> QED BY <1>2, <2>2, <3>2
  <2> QED BY <2>1, <2>2
<1>6. NewHooks(e, answer) = A \o D
  BY DEF NewHooks, L, F, D
<1> HIDE DEF A
<1> DEFINE N == A \o D
<1>7. /\ N \in Seq(HookRecords)
      /\ \A k \in DOMAIN A : k \in DOMAIN N /\ N[k] = A[k]
      /\ \A k \in DOMAIN D : Len(A) + k \in DOMAIN N /\ N[Len(A) + k] = D[k]
      /\ \A k \in DOMAIN N : k \in DOMAIN A \/ (k - Len(A) \in DOMAIN D /\ N[k] = D[k - Len(A)])
  <2>1. A \in Seq(HookRecords) /\ D \in Seq(HookRecords)
    BY <1>1, <1>5
  <2> HIDE DEF D
  <2> QED BY <2>1, Appended
<1> HIDE DEF N
<1>8. \A k \in DOMAIN N : \/ k \in DOMAIN A /\ N[k] = A[k]
                          \/ N[k] = Drain /\ answer = "pending" /\ tracked = None
  BY <1>3, <1>7
<1>9. \A k \in DOMAIN N : \/ k \in DOMAIN L /\ N[k] = L[k] /\ e \notin scheduled
                          \/ N[k] = Flush /\ e \in External /\ buffer = None /\ e \notin scheduled
                          \/ N[k] = Drain /\ answer = "pending" /\ tracked = None
  BY <1>5, <1>8
<1>10. \A k, l \in DOMAIN N : N[k].kind = "listener" /\ N[k] = N[l] => k = l
  BY <1>0, <1>4, <1>9
<1>11. e \notin scheduled => \A i \in Attached({"BEFORE_COMMIT"}, e) : \E k \in DOMAIN N : N[k] = Hook("listener", i, e)
  BY <1>4, <1>5, <1>7
<1>12. e \notin scheduled /\ e \in External /\ buffer = None => \E k \in DOMAIN N : N[k] = Flush
  BY <1>5, <1>7
<1>13. answer = "pending" /\ tracked = None => \E k \in DOMAIN N : N[k] = Drain
  BY <1>3, <1>7
<1>14. \A k \in DOMAIN N :
         \/ /\ N[k].kind = "listener" /\ N[k].event = e /\ e \notin scheduled
            /\ N[k].listener \in Attached({"BEFORE_COMMIT"}, e)
         \/ N[k] = Flush /\ e \in External /\ buffer = None /\ e \notin scheduled
         \/ N[k] = Drain /\ answer = "pending" /\ tracked = None
  BY <1>4, <1>9
<1>15. NewHooks(e, answer) = N
  BY <1>6 DEF N
<1> QED BY <1>7, <1>10, <1>11, <1>12, <1>13, <1>14, <1>15

-------------------------------------------------------------------------------
(* What one publish does. *)

LEMMA NoneIsApart == /\ None \notin Events /\ None # "committed" /\ None # "rolledBack"
                     /\ None \notin Seq(Events) /\ \A S \in SUBSET Events : None # S
BY NoneAssumption

\* The bounds that Publish keeps for every publisher.
LEMMA PublishFrame ==
  ASSUME NEW e \in Events, NEW store, Publish(e, store)
  PROVE  /\ e \notin Range(published) \cup direct /\ (FreshEvents => e \notin scheduled)
         /\ UNCHANGED <<pc, attempt, failed, outcome, at, busy, adding, rows, saved, notifying, notified, batch,
                        ran, direct, fromBody, undone>>
BY DEF Publish

\* In the transaction, the hooks of NewHooks are pushed.
LEMMA PublishInside ==
  ASSUME Typing, NEW e \in Events, NEW store, Publish(e, store), Sees(store)
  PROVE  /\ active /\ published' = Append(published, e) /\ detached' = detached
         /\ \E answer \in {"none", "pending"} :
              /\ promise' = [promise EXCEPT ![e] = answer]
              /\ before' = before \o NewHooks(e, answer)
              /\ tracked' = IF answer = "pending" THEN (IF tracked = None THEN {} ELSE tracked) \cup {e} ELSE tracked
         /\ IF e \in scheduled THEN UNCHANGED <<scheduled, onCommit, onRollback, buffer>>
            ELSE /\ scheduled' = scheduled \cup {e}
                 /\ onCommit' = onCommit \cup {<<i, e>> : i \in Attached({"AFTER_COMMIT", "AFTER_COMPLETION"}, e)}
                 /\ onRollback' = onRollback \cup {<<i, e>> : i \in Attached({"AFTER_ROLLBACK", "AFTER_COMPLETION"}, e)}
                 /\ buffer' = IF e \in External THEN Append(InBuffer, e) ELSE buffer
<1>1. active /\ published' = Append(published, e)
  BY DEF Publish, Sees
<1>2. PICK answer \in {"none", "pending"} :
        \/ e \in scheduled /\ Track(e, answer, store, <<>>) /\ UNCHANGED <<scheduled, onCommit, onRollback, buffer, detached>>
        \/ e \notin scheduled /\ ScheduleIn(e) /\ Track(e, answer, store, ListenerHooks(e) \o FlushHooks(e))
  BY DEF Publish
<1> DEFINE A == IF e \in scheduled THEN <<>> ELSE ListenerHooks(e) \o FlushHooks(e)
           D == IF answer = "pending" /\ tracked = None THEN <<Drain>> ELSE <<>>
<1>3. Track(e, answer, store, A)
  BY <1>2
<1>4. Drain \in HookRecords /\ Flush \in HookRecords
  BY ListenerDomain DEF Drain, Flush, Hook, HookRecords
<1>5. ListenerHooks(e) \o FlushHooks(e) \in Seq(HookRecords)
  <2>1. FlushHooks(e) \in Seq(HookRecords)
    BY <1>4 DEF FlushHooks
  <2> QED BY <2>1, ListenerHooksEnumerate, ConcatProperties
<1>6. A \in Seq(HookRecords) /\ D \in Seq(HookRecords) /\ before \in Seq(HookRecords)
  <2>1. <<>> \in Seq(HookRecords) /\ <<Drain>> \in Seq(HookRecords)
    BY <1>4
  <2>2. before \in Seq(HookRecords)
    BY DEF Typing, TypeOK, HookRecords
  <2> QED BY <1>5, <2>1, <2>2
<1>7. NewHooks(e, answer) = A \o D
  BY DEF NewHooks
<1> HIDE DEF A
<1>8. before' = (before \o A) \o D
  <2>1. CASE answer = "pending"
    BY <1>3, <2>1 DEF Track
  <2>2. CASE answer = "none"
    <3>1. D = <<>> /\ before' = before \o A
      BY <1>3, <2>2 DEF Track
    <3> HIDE DEF D
    <3> QED BY <1>6, <3>1, ConcatProperties, ConcatEmptySeq
  <2> QED BY <2>1, <2>2
<1> HIDE DEF D
<1>9. before' = before \o NewHooks(e, answer)
  BY <1>6, <1>7, <1>8, ConcatAssociative
<1>10. /\ promise' = [promise EXCEPT ![e] = answer]
       /\ tracked' = IF answer = "pending" THEN (IF tracked = None THEN {} ELSE tracked) \cup {e} ELSE tracked
  BY <1>3 DEF Track
<1>11. detached' = detached
  BY <1>2 DEF ScheduleIn
<1>12. IF e \in scheduled THEN UNCHANGED <<scheduled, onCommit, onRollback, buffer>>
       ELSE /\ scheduled' = scheduled \cup {e}
            /\ onCommit' = onCommit \cup {<<i, e>> : i \in Attached({"AFTER_COMMIT", "AFTER_COMPLETION"}, e)}
            /\ onRollback' = onRollback \cup {<<i, e>> : i \in Attached({"AFTER_ROLLBACK", "AFTER_COMPLETION"}, e)}
            /\ buffer' = IF e \in External THEN Append(InBuffer, e) ELSE buffer
  <2>1. CASE e \in scheduled
    BY <1>2, <2>1
  <2>2. CASE e \notin scheduled
    <3>1. ScheduleIn(e)
      BY <1>2, <2>2
    <3>2. buffer' = IF e \in External THEN Append(InBuffer, e) ELSE buffer
      <4>1. Append(<<>>, e) = <<e>>
        OBVIOUS
      <4> QED BY <3>1, <4>1 DEF ScheduleIn, InBuffer
    <3> QED BY <2>2, <3>1, <3>2 DEF ScheduleIn, onRollbackOf
  <2> QED BY <2>1, <2>2
<1> QED BY <1>1, <1>9, <1>10, <1>11, <1>12

LEMMA PublishedInside ==
  ASSUME Typing, NEW e \in Events, NEW store, Publish(e, store), Sees(store)
  PROVE  Range(published') = Range(published) \cup {e}
<1>1. published' = Append(published, e) /\ published \in Seq(Events)
  BY PublishInside DEF Typing
<1> QED BY <1>1, Pushed

\* Outside it, only fallback listeners are set going.
LEMMA PublishOutside ==
  ASSUME Typing, NEW e \in Events, NEW store, Publish(e, store), ~Sees(store)
  PROVE  /\ UNCHANGED <<before, tracked, published, onCommit, onRollback, buffer>>
         /\ scheduled' = scheduled \cup {e}
         /\ \E answer \in {"none", "pending"} : promise' = [promise EXCEPT ![e] = answer]
         /\ \A d \in detached' : d \in detached \/ \E i \in DOMAIN Listeners : d = <<i, e, store>>
<1>1. PICK answer \in {"none", "pending"} :
        /\ Track(e, answer, store, <<>>)
        /\ \/ e \in scheduled /\ UNCHANGED <<scheduled, onCommit, onRollback, buffer, detached>>
           \/ ScheduleOut(e, store)
  BY DEF Publish
<1>2. before' = before \o <<>> /\ UNCHANGED tracked /\ promise' = [promise EXCEPT ![e] = answer]
  BY <1>1 DEF Track
<1>3. before' = before
  BY <1>2, ConcatEmptySeq DEF Typing, TypeOK
<1>4. published' = published
  BY DEF Publish
<1>5. \A d \in detached' : d \in detached \/ \E i \in DOMAIN Listeners : d = <<i, e, store>>
  BY <1>1 DEF ScheduleOut
<1> QED BY <1>1, <1>2, <1>3, <1>4, <1>5 DEF ScheduleOut

-------------------------------------------------------------------------------
(* Typing and the stages of a call. *)

LEMMA InitTyping == Init => Typing /\ Stages
<1> SUFFICES ASSUME Init PROVE Typing /\ Stages
  OBVIOUS
<1>1. Typing
  <2>1. DOMAIN before = {} /\ Len(before) = 0 /\ at = 1 /\ attempt = 1
    BY DEF Init
  <2>a. \A S : <<>> \in Seq(S)
    OBVIOUS
  <2>b. attempt \in 1 .. MaxAttempts /\ at \in 1 .. Len(before) + 1
    BY <2>1, AttemptsAssumption
  <2>c. promise \in [Events -> {"none", "pending", "fulfilled", "rejected"}] /\ ran \in [Jobs -> Nat]
    BY DEF Init
  <2>2. TypeOK
    BY <2>a, <2>b, <2>c DEF Init, TypeOK
  <2> QED BY <2>1, <2>2 DEF Init, Typing
<1>2. Stages
  BY NoneIsApart DEF Init, Stages, active
<1> QED BY <1>1, <1>2

LEMMA PublishTyping ==
  ASSUME Typing, Stages, NEW e \in Events, NEW store \in 0 .. MaxAttempts, Publish(e, store)
  PROVE  Typing'
<1>1. CASE Sees(store)
  <2>1. PICK answer \in {"none", "pending"} :
          /\ promise' = [promise EXCEPT ![e] = answer]
          /\ before' = before \o NewHooks(e, answer)
          /\ tracked' = IF answer = "pending" THEN (IF tracked = None THEN {} ELSE tracked) \cup {e} ELSE tracked
    BY <1>1, PublishInside
  <2> DEFINE new == NewHooks(e, answer)
  <2>2. /\ new \in Seq(HookRecords)
        /\ \A k \in DOMAIN new :
             \/ /\ new[k].kind = "listener" /\ new[k].event = e /\ e \notin scheduled
                /\ new[k].listener \in Attached({"BEFORE_COMMIT"}, e)
             \/ new[k] = Flush /\ e \in External /\ buffer = None /\ e \notin scheduled
             \/ new[k] = Drain /\ answer = "pending" /\ tracked = None
    BY NewHooksShape
  <2> HIDE DEF new
  <2>3. before \in Seq(HookRecords)
    BY DEF Typing, TypeOK, HookRecords
  <2>4. /\ before' \in Seq(HookRecords) /\ Len(before') = Len(before) + Len(new)
        /\ \A k \in DOMAIN before' : \/ k \in DOMAIN before /\ before'[k] = before[k]
                                     \/ k - Len(before) \in DOMAIN new /\ before'[k] = new[k - Len(before)]
    BY <2>1, <2>2, <2>3, Appended DEF new
  <2>5. tracked' # None \/ (tracked = None /\ tracked' = None /\ answer = "none")
    BY <2>1, NoneIsApart DEF Typing, TypeOK
  <2>6. tracked' = None \/ tracked' \in SUBSET Events
    BY <2>1 DEF Typing, TypeOK
  <2>7. Drain.kind = "drain" /\ Flush.kind = "flush"
    BY DEF Drain, Flush, Hook
  <2>8. \A i \in Attached({"BEFORE_COMMIT"}, e) : <<i, e>> \in Jobs
    BY DEF Attached, Jobs
  <2>9. ASSUME NEW k \in DOMAIN before'
        PROVE  /\ before'[k].kind = "listener" => <<before'[k].listener, before'[k].event>> \in Jobs
               /\ before'[k].kind = "drain" => tracked' # None
    <3>1. CASE k \in DOMAIN before /\ before'[k] = before[k]
      <4>1. before[k].kind = "drain" => tracked # None
        BY <3>1 DEF Typing
      <4> QED BY <2>5, <3>1, <4>1 DEF Typing
    <3>2. CASE k - Len(before) \in DOMAIN new /\ before'[k] = new[k - Len(before)]
      BY <2>2, <2>5, <2>7, <2>8, <3>2
    <3> QED BY <2>4, <3>1, <3>2
  <2>10. at \in 1 .. Len(before') + 1
    BY <2>2, <2>4 DEF Typing, TypeOK
  <2>11. published' \in Seq(Events) /\ scheduled' \in SUBSET Events
    <3>1. published' = Append(published, e) /\ (scheduled' = scheduled \/ scheduled' = scheduled \cup {e})
      BY <1>1, PublishInside
    <3>2. published \in Seq(Events) /\ scheduled \in SUBSET Events
      BY DEF Typing, TypeOK
    <3> QED BY <3>1, <3>2
  <2>12. onCommit' \in SUBSET Jobs /\ onRollback' \in SUBSET Jobs
    <3>1. /\ onCommit' \in {onCommit, onCommit \cup {<<i, e>> : i \in Attached({"AFTER_COMMIT", "AFTER_COMPLETION"}, e)}}
          /\ onRollback' \in {onRollback, onRollback \cup {<<i, e>> : i \in Attached({"AFTER_ROLLBACK", "AFTER_COMPLETION"}, e)}}
      BY <1>1, PublishInside
    <3>2. \A P : {<<i, e>> : i \in Attached(P, e)} \subseteq Jobs
      BY DEF Attached, Jobs
    <3>3. onCommit \subseteq Jobs /\ onRollback \subseteq Jobs
      BY DEF Typing, TypeOK
    <3> QED BY <3>1, <3>2, <3>3
  <2>13. buffer' = None \/ buffer' \in Seq(Events)
    <3>1. InBuffer \in Seq(Events)
      BY DEF Typing, TypeOK, InBuffer
    <3>2. Append(InBuffer, e) \in Seq(Events)
      BY <3>1
    <3> QED BY <1>1, <3>2, PublishInside DEF Typing, TypeOK
  <2>14. detached' = detached
    BY <1>1, PublishInside
  <2>15. promise' \in [Events -> {"none", "pending", "fulfilled", "rejected"}]
    BY <2>1 DEF Typing, TypeOK
  <2>16. TypeOK'
    BY <2>4, <2>6, <2>10, <2>11, <2>12, <2>13, <2>14, <2>15, PublishFrame DEF Typing, TypeOK, HookRecords
  <2> QED BY <2>9, <2>11, <2>16, PublishFrame DEF Typing
<1>2. CASE ~Sees(store)
  <2>1. UNCHANGED <<before, tracked, published, onCommit, onRollback, buffer>>
    BY <1>2, PublishOutside
  <2>2. scheduled' \in SUBSET Events
    BY <1>2, PublishOutside DEF Typing, TypeOK
  <2>3. promise' \in [Events -> {"none", "pending", "fulfilled", "rejected"}]
    BY <1>2, PublishOutside DEF Typing, TypeOK
  <2>a. detached \in SUBSET ((DOMAIN Listeners) \X Events \X (0 .. MaxAttempts))
    BY DEF Typing, TypeOK
  <2>4. detached' \in SUBSET ((DOMAIN Listeners) \X Events \X (0 .. MaxAttempts))
    BY <1>2, <2>a, PublishOutside
  <2>5. TypeOK'
    BY <2>1, <2>2, <2>3, <2>4, PublishFrame DEF Typing, TypeOK
  <2> QED BY <2>1, <2>5, PublishFrame DEF Typing
<1> QED BY <1>1, <1>2

LEMMA NowType == Typing => Now \in 0 .. MaxAttempts
BY AttemptsAssumption DEF Typing, TypeOK, Now

LEMMA JobsOfHook ==
  ASSUME Typing, pc = "before", at <= Len(before), Current.kind = "listener"
  PROVE  <<Current.listener, Current.event>> \in Jobs
BY DEF Typing, TypeOK, Current

LEMMA NextAt ==
  ASSUME Typing, at <= Len(before)
  PROVE  at + 1 \in 1 .. Len(before) + 1
<1>1. before \in Seq(HookRecords) /\ at \in 1 .. Len(before) + 1
  BY DEF Typing, TypeOK, HookRecords
<1>2. Len(before) \in Nat
  BY <1>1
<1> QED BY <1>1, <1>2

LEMMA TypingFrame ==
  ASSUME Typing, TypeOK', UNCHANGED <<before, tracked, saved, published, direct, fromBody>>
  PROVE  Typing'
<1>1. /\ published' \in Seq(Events) /\ direct' \subseteq Events /\ fromBody' \subseteq Events
      /\ saved' = None \/ saved' \in [rows : Seq(Events), direct : SUBSET Events, from : Nat]
  BY DEF Typing
<1> QED BY <1>1 DEF Typing

LEMMA TypingStep == Typing /\ Stages /\ [Next]_vars => Typing'
<1>0. ASSUME Typing, UNCHANGED vars PROVE Typing'
  <2>1. TypeOK'
    BY <1>0 DEF Typing, TypeOK, vars, txVars, history
  <2> QED BY <1>0, <2>1 DEF Typing, vars, txVars, history
<1> SUFFICES ASSUME Typing, Stages, Next PROVE Typing'
  BY <1>0
<1>1. ASSUME NEW e \in Events, PublishOnBus(e) PROVE Typing'
  BY <1>1, NowType, PublishTyping DEF PublishOnBus
<1>2. ASSUME NEW d \in detached, NEW e \in Events, DetachedPublishes(d, e) PROVE Typing'
  <2>1. d[3] \in 0 .. MaxAttempts
    BY DEF Typing, TypeOK
  <2> QED BY <1>2, <2>1, PublishTyping DEF DetachedPublishes
<1>3. ASSUME NEW e \in Events, PublishOnOutbox(e) PROVE Typing'
  <2>1. Append(rows, e) \in Seq(Events)
    BY DEF Typing, TypeOK
  <2> QED BY <1>3, <2>1 DEF PublishOnOutbox, Add, Typing, TypeOK
<1>4. ASSUME NEW e \in Events, PromiseSettles(e) PROVE Typing'
  BY <1>4 DEF PromiseSettles, Typing, TypeOK, txVars, history
<1>5. ASSUME NEW d \in detached, DetachedEnds(d) PROVE Typing'
  BY <1>5 DEF DetachedEnds, Typing, TypeOK, txVars, history
<1>6. CASE Begin
  BY <1>6 DEF Begin, Typing, TypeOK, txVars, history
<1>7. CASE FnReturns
  BY <1>7 DEF FnReturns, Typing, TypeOK, txVars, history, Range
<1>8. ASSUME Throw(Rules), UNCHANGED ran PROVE Typing'
  BY <1>8, RulesAssumption DEF Throw, Typing, TypeOK, history
<1>9. CASE Nested
  <2>1. Len(published) \in Nat
    BY DEF Typing
  <2>2. saved' \in [rows : Seq(Events), direct : SUBSET Events, from : Nat]
    BY <1>9, <2>1 DEF Nested, Typing, TypeOK
  <2> QED BY <1>9, <2>2 DEF Nested, Typing, TypeOK, history
<1>10. CASE NestedReturns
  BY <1>10 DEF NestedReturns, Typing, TypeOK, history
<1>11. CASE NestedThrows
  BY <1>11 DEF NestedThrows, Typing, TypeOK
<1>12. CASE ListenerStarts
  <2> DEFINE j == <<Current.listener, Current.event>>
  <2>1. j \in Jobs
    BY <1>12, JobsOfHook DEF ListenerStarts
  <2>2. ran' \in [Jobs -> Nat]
    BY <1>12, <2>1 DEF ListenerStarts, Typing, TypeOK
  <2>3. j[1] \in DOMAIN Listeners /\ j[2] \in Events
    BY <2>1 DEF Jobs
  <2>4. detached' \in SUBSET ((DOMAIN Listeners) \X Events \X (0 .. MaxAttempts))
    <3>1. detached' = detached \/ detached' = detached \cup {<<j[1], j[2], Now>>}
      BY <1>12 DEF ListenerStarts
    <3>2. detached \in SUBSET ((DOMAIN Listeners) \X Events \X (0 .. MaxAttempts))
      BY DEF Typing, TypeOK
    <3>3. <<j[1], j[2], Now>> \in (DOMAIN Listeners) \X Events \X (0 .. MaxAttempts)
      BY <2>3, NowType
    <3> QED BY <3>1, <3>2, <3>3
  <2>5. at' \in 1 .. Len(before) + 1 /\ busy' \in BOOLEAN
    BY <1>12, NextAt DEF ListenerStarts, NextHook, Typing, TypeOK
  <2> QED BY <1>12, <2>2, <2>4, <2>5 DEF ListenerStarts, Typing, TypeOK, history
<1>13. CASE ListenerReturns
  BY <1>13, NextAt DEF ListenerReturns, InHook, NextHook, Stages, Typing, TypeOK, history
<1>14. CASE DrainTakes
  <2>1. tracked \in SUBSET Events
    BY <1>14 DEF DrainTakes, Current, Typing, TypeOK
  <2>2. at' \in 1 .. Len(before) + 1 /\ busy' \in BOOLEAN
    BY <1>14, NextAt DEF DrainTakes, NextHook, Typing, TypeOK
  <2>3. (tracked' = tracked \/ tracked' = {}) /\ batch' \in SUBSET Events
    BY <1>14, <2>1 DEF DrainTakes, Typing, TypeOK
  <2>4. tracked' # None /\ (tracked' = None \/ tracked' \in SUBSET Events)
    BY <2>1, <2>3, NoneIsApart
  <2>5. before' = before /\ UNCHANGED <<saved, published, direct, fromBody>>
    BY <1>14 DEF DrainTakes, history
  <2>6. TypeOK'
    BY <1>14, <2>2, <2>3, <2>4 DEF DrainTakes, Typing, TypeOK, history
  <2> QED BY <2>4, <2>5, <2>6 DEF Typing
<1>15. CASE DrainResumes
  <2>1. TypeOK'
    BY <1>15 DEF DrainResumes, Typing, TypeOK
  <2> QED BY <1>15, <2>1, TypingFrame DEF DrainResumes, history
<1>16. CASE FlushTakes
  <2>1. buffer' = None /\ adding' \in Seq(Events)
    <3>1. adding' = <<>> \/ (buffer # None /\ adding' = buffer)
      BY <1>16 DEF FlushTakes
    <3>2. buffer = None \/ buffer \in Seq(Events)
      BY DEF Typing, TypeOK
    <3> QED BY <1>16, <3>1, <3>2 DEF FlushTakes
  <2>2. TypeOK'
    BY <1>16, <2>1 DEF FlushTakes, Typing, TypeOK
  <2> QED BY <1>16, <2>2, TypingFrame DEF FlushTakes, history
<1>17. CASE FlushAdds
  <2>1. Head(adding) \in Events /\ Tail(adding) \in Seq(Events)
    BY <1>17, HeadTailProperties DEF FlushAdds, Typing, TypeOK
  <2>2. Append(rows, Head(adding)) \in Seq(Events)
    BY <2>1 DEF Typing, TypeOK
  <2>3. TypeOK'
    BY <1>17, <2>1, <2>2 DEF FlushAdds, Add, Typing, TypeOK
  <2> QED BY <1>17, <2>3, TypingFrame DEF FlushAdds, Add, history
<1>18. CASE FlushReturns
  BY <1>18, NextAt DEF FlushReturns, InHook, NextHook, Stages, Typing, TypeOK, history
<1>19. CASE PassEnds \/ Commit \/ AfterEnds \/ Settle \/ Quiescent
  BY <1>19 DEF PassEnds, Commit, AfterEnds, Settle, Quiescent, Typing, TypeOK, vars, txVars, history
<1>20. CASE Rollback
  BY <1>20 DEF Rollback, Typing, TypeOK, history
<1>21. ASSUME NEW j \in Jobs, AfterListener(j) PROVE Typing'
  <2>1. j[1] \in DOMAIN Listeners /\ j[2] \in Events
    BY DEF Jobs
  <2>2. ran' \in [Jobs -> Nat]
    BY <1>21 DEF AfterListener, Typing, TypeOK
  <2>3. detached' \in SUBSET ((DOMAIN Listeners) \X Events \X (0 .. MaxAttempts))
    BY <1>21, <2>1, NowType DEF AfterListener, Typing, TypeOK
  <2>4. onCommit' \in SUBSET Jobs /\ onRollback' \in SUBSET Jobs
    BY <1>21 DEF AfterListener, Typing, TypeOK
  <2> QED BY <1>21, <2>2, <2>3, <2>4 DEF AfterListener, Typing, TypeOK, history
<1>22. CASE Notify
  BY <1>22 DEF Notify, Typing, TypeOK, history
<1>23. CASE Retry
  <2>a. \A S : <<>> \in Seq(S)
    OBVIOUS
  <2>1. Len(before') = 0 /\ DOMAIN before' = {} /\ at' = 1
    BY <1>23 DEF Retry
  <2>2. attempt' \in 1 .. MaxAttempts /\ at' \in 1 .. Len(before') + 1
    BY <1>23, <2>1, AttemptsAssumption DEF Retry, MayRetry, Typing, TypeOK
  <2>3. promise' \in [Events -> {"none", "pending", "fulfilled", "rejected"}] /\ ran' \in [Jobs -> Nat]
    BY <1>23 DEF Retry
  <2> QED BY <1>23, <2>a, <2>1, <2>2, <2>3 DEF Retry, Typing, TypeOK
<1> QED BY <1>1, <1>2, <1>3, <1>4, <1>5, <1>6, <1>7, <1>8, <1>9, <1>10, <1>11, <1>12, <1>13, <1>14, <1>15,
           <1>16, <1>17, <1>18, <1>19, <1>20, <1>21, <1>22, <1>23
        DEF Next, Step, FnThrows, ListenerThrows, DrainFails, FlushFails

\* A publish leaves the hooks that are there, the one under way too.
LEMMA PublishKeeps ==
  ASSUME Typing, NEW e \in Events, NEW store, Publish(e, store)
  PROVE  /\ \A k \in DOMAIN before : k \in DOMAIN before' /\ before'[k] = before[k]
         /\ Len(before) <= Len(before') /\ Len(before) \in Nat /\ Len(before') \in Nat
         /\ ~active => UNCHANGED <<before, tracked, published, onCommit, onRollback, buffer>>
         /\ scheduled' = scheduled \cup {e}
<1>0. Len(before) \in Nat
  BY DEF Typing, TypeOK
<1>1. CASE Sees(store)
  <2>1. PICK answer \in {"none", "pending"} : before' = before \o NewHooks(e, answer)
    BY <1>1, PublishInside
  <2>2. NewHooks(e, answer) \in Seq(HookRecords) /\ before \in Seq(HookRecords)
    BY NewHooksShape DEF Typing, TypeOK, HookRecords
  <2>3. /\ \A k \in DOMAIN before : k \in DOMAIN before' /\ before'[k] = before[k]
        /\ Len(before') = Len(before) + Len(NewHooks(e, answer))
    BY <2>1, <2>2, Appended
  <2>4. Len(NewHooks(e, answer)) \in Nat
    BY <2>2
  <2>5. scheduled' = scheduled \cup {e}
    BY <1>1, PublishInside
  <2> QED BY <1>0, <1>1, <2>3, <2>4, <2>5, PublishInside
<1>2. CASE ~Sees(store)
  BY <1>0, <1>2, PublishOutside
<1> QED BY <1>1, <1>2

LEMMA PublishStages ==
  ASSUME Typing, Stages, NEW e \in Events, NEW store, Publish(e, store)
  PROVE  Stages'
<1>1. /\ \A k \in DOMAIN before : k \in DOMAIN before' /\ before'[k] = before[k]
      /\ Len(before) <= Len(before') /\ Len(before) \in Nat /\ Len(before') \in Nat
      /\ ~active => UNCHANGED <<before, tracked, published, onCommit, onRollback, buffer>>
  BY PublishKeeps
<1>2. UNCHANGED <<pc, attempt, failed, outcome, at, busy, adding, rows, saved, notifying, notified, batch,
                  ran, direct, fromBody, undone>>
  BY PublishFrame
<1>3. at <= Len(before) => at \in DOMAIN before
  BY DEF Typing, TypeOK
<1>4. active' = active /\ at \in Nat
  BY <1>2 DEF active, Typing, TypeOK
<1>5. busy' => pc' = "before" /\ at' <= Len(before')
  BY <1>1, <1>2, <1>4 DEF Stages
<1>6. saved' # None => pc' = "body" \/ InHook("listener")'
  BY <1>1, <1>2, <1>3 DEF Stages, InHook, Current
<1>7. ~active => UNCHANGED <<before, published, buffer, tracked>>
  BY <1>1
<1> QED BY <1>2, <1>4, <1>5, <1>6, <1>7 DEF Stages, active

LEMMA StagesStep == Typing /\ Stages /\ [Next]_vars => Stages'
<1>0. ASSUME Typing, Stages, UNCHANGED vars PROVE Stages'
  BY <1>0 DEF Stages, vars, txVars, history, InHook, Current, active
<1> SUFFICES ASSUME Typing, Stages, Next PROVE Stages'
  BY <1>0
<1>1. ASSUME NEW e \in Events, PublishOnBus(e) PROVE Stages'
  BY <1>1, PublishStages DEF PublishOnBus
<1>2. ASSUME NEW d \in detached, NEW e \in Events, DetachedPublishes(d, e) PROVE Stages'
  BY <1>2, PublishStages DEF DetachedPublishes
<1>3. ASSUME NEW e \in Events, PublishOnOutbox(e) PROVE Stages'
  BY <1>3 DEF PublishOnOutbox, Stages, InHook, Current, active
<1>4. ASSUME NEW e \in Events, PromiseSettles(e) PROVE Stages'
  BY <1>4 DEF PromiseSettles, Stages, InHook, Current, active, txVars, history
<1>5. ASSUME NEW d \in detached, DetachedEnds(d) PROVE Stages'
  BY <1>5 DEF DetachedEnds, Stages, InHook, Current, active, txVars, history
<1>6. CASE Begin
  BY <1>6 DEF Begin, Stages, InHook, Current, active, txVars, history
<1>7. CASE FnReturns
  BY <1>7 DEF FnReturns, Stages, InHook, Current, active, txVars, history
<1>8. ASSUME saved = None, active, Throw(Rules), UNCHANGED ran PROVE Stages'
  BY <1>8, RulesAssumption DEF Throw, Stages, InHook, Current, active, history
<1>9. CASE Nested
  BY <1>9 DEF Nested, UserCode, Stages, InHook, Current, active, history
<1>10. CASE NestedReturns
  BY <1>10 DEF NestedReturns, Stages, InHook, Current, active, history
<1>11. CASE NestedThrows
  BY <1>11 DEF NestedThrows, Stages, InHook, Current, active
<1>12. CASE ListenerStarts
  BY <1>12 DEF ListenerStarts, NextHook, Stages, InHook, Current, active, history
<1>13. CASE ListenerReturns
  BY <1>13 DEF ListenerReturns, NextHook, Stages, InHook, Current, active, history
<1>14. CASE DrainTakes
  BY <1>14 DEF DrainTakes, NextHook, Stages, InHook, Current, active, history
<1>15. CASE DrainResumes
  BY <1>15 DEF DrainResumes, Stages, InHook, Current, active, history
<1>16. CASE FlushTakes
  BY <1>16 DEF FlushTakes, Stages, InHook, Current, active, history
<1>17. CASE FlushAdds
  BY <1>17 DEF FlushAdds, Add, Stages, InHook, Current, active, history
<1>18. CASE FlushReturns
  BY <1>18 DEF FlushReturns, NextHook, Stages, InHook, Current, active, history
<1>19. CASE PassEnds
  <2>1. at = Len(before) + 1
    BY <1>19 DEF PassEnds, Typing, TypeOK
  <2> QED BY <1>19, <2>1 DEF PassEnds, Stages, InHook, Current, active, txVars, history
<1>20. CASE Commit \/ AfterEnds \/ Settle \/ Quiescent
  BY <1>20, NoneIsApart DEF Commit, AfterEnds, Settle, Quiescent, Stages, InHook, Current, active, vars, txVars, history
<1>21. CASE Rollback
  BY <1>21, NoneIsApart DEF Rollback, Stages, InHook, Current, active, history
<1>22. ASSUME NEW j \in Jobs, AfterListener(j) PROVE Stages'
  BY <1>22 DEF AfterListener, Stages, InHook, Current, active, history
<1>23. CASE Notify
  BY <1>23 DEF Notify, Stages, InHook, Current, active, history
<1>24. CASE Retry
  BY <1>24 DEF Retry, Stages, InHook, Current, active
<1>25. FnThrows \/ ListenerThrows \/ DrainFails \/ FlushFails => saved = None /\ active /\ Throw(Rules) /\ UNCHANGED ran
  BY DEF FnThrows, ListenerThrows, DrainFails, FlushFails, Stages, InHook, active
<1> QED BY <1>1, <1>2, <1>3, <1>4, <1>5, <1>6, <1>7, <1>8, <1>9, <1>10, <1>11, <1>12, <1>13, <1>14, <1>15,
           <1>16, <1>17, <1>18, <1>19, <1>20, <1>21, <1>22, <1>23, <1>24, <1>25
        DEF Next, Step

\* Every reachable state of a transactional call that publishes events is well
\* typed: hook lists, buffer and outbox hold events and listeners that exist, the
\* pass never runs past the end of its list, no attempt exceeds the limit.
THEOREM EventTypes == Spec => []TypeOK
<1>1. Typing /\ Stages /\ [Next]_vars => (Typing /\ Stages)'
  BY TypingStep, StagesStep
<1>2. Typing => TypeOK
  BY DEF Typing
<1> QED BY <1>1, <1>2, InitTyping, PTL DEF Spec

LEMMA Staged == Spec => [](Typing /\ Stages)
<1>1. Typing /\ Stages /\ [Next]_vars => (Typing /\ Stages)'
  BY TypingStep, StagesStep
<1> QED BY <1>1, InitTyping, PTL DEF Spec

-------------------------------------------------------------------------------
(* Waking the relay. *)

LEMMA WakingStep == Typing /\ Stages /\ Waking /\ [Next]_vars => Waking'
<1>0. ASSUME Waking, UNCHANGED vars PROVE Waking'
  BY <1>0 DEF Waking, committed, vars, txVars, history
<1> SUFFICES ASSUME Typing, Stages, Waking, Next PROVE Waking'
  BY <1>0
<1> DEFINE wake == <<pc, outcome, rows, saved, notifying, notified>>
<1>1. ASSUME UNCHANGED wake PROVE Waking'
  BY <1>1 DEF Waking, committed
<1>2. ASSUME NEW e \in Events, PublishOnBus(e) PROVE UNCHANGED wake
  BY <1>2 DEF PublishOnBus, Publish
<1>3. ASSUME NEW d \in detached, NEW e \in Events, DetachedPublishes(d, e) PROVE UNCHANGED wake
  BY <1>3 DEF DetachedPublishes, Publish
<1>4. ASSUME NEW e \in Events, PublishOnOutbox(e) PROVE Waking'
  BY <1>4, NoneIsApart DEF PublishOnOutbox, Add, Stages, Waking, committed, active
<1>5. ASSUME NEW e \in Events, PromiseSettles(e) PROVE UNCHANGED wake
  BY <1>5 DEF PromiseSettles, txVars
<1>6. ASSUME NEW d \in detached, DetachedEnds(d) PROVE UNCHANGED wake
  BY <1>6 DEF DetachedEnds, txVars
<1>7. CASE Begin \/ FnReturns \/ PassEnds
  BY <1>7 DEF Begin, FnReturns, PassEnds, Waking, committed, txVars
<1>8. ASSUME Throw(Rules) PROVE Waking'
  BY <1>8, RulesAssumption DEF Throw, Waking, committed
<1>9. CASE Nested \/ NestedReturns \/ NestedThrows
  BY <1>9 DEF Nested, NestedReturns, NestedThrows, Waking, committed
<1>10. CASE ListenerStarts \/ ListenerReturns \/ DrainTakes \/ DrainResumes \/ FlushTakes \/ FlushReturns
  BY <1>1, <1>10 DEF ListenerStarts, ListenerReturns, DrainTakes, DrainResumes, FlushTakes, FlushReturns
<1>11. CASE FlushAdds
  BY <1>11, NoneIsApart DEF FlushAdds, Add, InHook, Stages, Waking, committed
<1>12. CASE Commit \/ Rollback
  BY <1>12, NoneIsApart DEF Commit, Rollback, Stages, Waking, committed, InHook, txVars
<1>13. ASSUME NEW j \in Jobs, AfterListener(j) PROVE UNCHANGED wake
  BY <1>13 DEF AfterListener
<1>14. CASE Notify \/ AfterEnds \/ Settle
  BY <1>14 DEF Notify, AfterEnds, Settle, Waking, committed, txVars
<1>15. CASE Retry
  BY <1>15, NoneIsApart DEF Retry, MayRetry, Stages, Waking, committed, InHook
<1>16. CASE Quiescent
  BY <1>1, <1>16 DEF Quiescent, vars, txVars
<1> HIDE DEF wake
<1> QED BY <1>1, <1>2, <1>3, <1>4, <1>5, <1>6, <1>7, <1>8, <1>9, <1>10, <1>11, <1>12, <1>13, <1>14, <1>15, <1>16
        DEF Next, Step, FnThrows, ListenerThrows, DrainFails, FlushFails

\* OutboxEventPublisher.publish registers notify() for after the commit: the
\* relay is woken after every commit that left messages and at no other time,
\* through retries, savepoints and before-commit listeners that publish late.
THEOREM RelayIsWoken == Spec => []RelayWoken
<1>1. Init => Waking
  BY DEF Init, Waking, committed
<1>2. Typing /\ Stages /\ Waking => RelayWoken
  BY DEF Waking, RelayWoken, Ended
<1> QED BY <1>1, <1>2, WakingStep, Staged, PTL DEF Spec

-------------------------------------------------------------------------------
(* Waiting for the work that the body's publishes left behind. *)

LEMMA PublishDraining ==
  ASSUME Typing, Stages, Draining, NEW e \in Events, NEW store, Publish(e, store)
  PROVE  Draining'
<1>1. /\ \A k \in DOMAIN before : k \in DOMAIN before' /\ before'[k] = before[k]
      /\ Len(before) <= Len(before') /\ Len(before) \in Nat /\ Len(before') \in Nat
      /\ ~active => UNCHANGED <<before, tracked, published, onCommit, onRollback, buffer>>
  BY PublishKeeps
<1>2. UNCHANGED <<pc, failed, at, busy, batch, fromBody>> /\ e \notin Range(published)
  BY PublishFrame
<1>3. \A x \in Events : x # e => promise'[x] = promise[x]
  <2>1. \E answer \in {"none", "pending"} : promise' = [promise EXCEPT ![e] = answer]
    BY PublishInside, PublishOutside
  <2> QED BY <2>1 DEF Typing, TypeOK
<1>4. /\ \A x \in Range(published') : x \in Range(published) \/ x = e
      /\ Range(published) \subseteq Range(published') /\ Range(published) \subseteq Events
  <2>0. published \in Seq(Events)
    BY DEF Typing
  <2>1. published' = published \/ published' = Append(published, e)
    BY PublishInside, PublishOutside
  <2>2. Range(Append(published, e)) = Range(published) \cup {e}
    BY <2>0, Pushed
  <2>3. Range(published) \subseteq Events
    BY <2>0 DEF Range
  <2> QED BY <2>1, <2>2, <2>3
<1>5. tracked # None => tracked' # None /\ tracked \subseteq tracked'
  BY PublishInside, PublishOutside, NoneIsApart DEF Typing, TypeOK
<1>6. (fromBody \subseteq Range(published))'
  BY <1>2, <1>4 DEF Draining
<1>7. ASSUME pc = "body", tracked' # None PROVE \E k \in DOMAIN before' : before'[k].kind = "drain"
  <2>1. CASE tracked # None
    BY <1>1, <1>7, <2>1 DEF Draining
  <2>2. CASE tracked = None
    <3>1. Sees(store)
      BY <1>7, <2>2, PublishOutside
    <3>2. PICK answer \in {"none", "pending"} :
            /\ before' = before \o NewHooks(e, answer)
            /\ tracked' = IF answer = "pending" THEN (IF tracked = None THEN {} ELSE tracked) \cup {e} ELSE tracked
      BY <3>1, PublishInside
    <3>3. answer = "pending"
      BY <1>7, <2>2, <3>2
    <3>4. PICK k \in DOMAIN NewHooks(e, answer) : NewHooks(e, answer)[k] = Drain
      BY <2>2, <3>3, NewHooksShape
    <3>5. NewHooks(e, answer) \in Seq(HookRecords) /\ before \in Seq(HookRecords)
      BY NewHooksShape DEF Typing, TypeOK, HookRecords
    <3>6. Len(before) + k \in DOMAIN before' /\ before'[Len(before) + k] = Drain
      BY <3>2, <3>4, <3>5, Appended
    <3> QED BY <3>6 DEF Drain, Hook
  <2> QED BY <2>1, <2>2
<1>8. ASSUME pc = "body", NEW x \in Range(published'), promise'[x] \in {"pending", "rejected"}
      PROVE  tracked' # None /\ x \in tracked'
  <2>1. CASE x \in Range(published)
    BY <1>2, <1>3, <1>4, <1>5, <1>8, <2>1 DEF Draining, Unsettled
  <2>2. CASE x = e
    <3>1. Sees(store)
      BY <1>2, <1>8, <2>2, PublishOutside
    <3>2. PICK answer \in {"none", "pending"} :
            /\ promise' = [promise EXCEPT ![e] = answer]
            /\ tracked' = IF answer = "pending" THEN (IF tracked = None THEN {} ELSE tracked) \cup {e} ELSE tracked
      BY <3>1, PublishInside
    <3>3. promise'[e] = answer
      BY <3>2 DEF Typing, TypeOK
    <3>4. answer = "pending"
      BY <1>8, <2>2, <3>3
    <3>5. tracked' \in SUBSET Events /\ e \in tracked'
      BY <3>2, <3>4 DEF Typing, TypeOK
    <3> QED BY <2>2, <3>5, NoneIsApart
  <2> QED BY <1>4, <2>1, <2>2
<1>9. at <= Len(before) => at \in DOMAIN before
  BY DEF Typing, TypeOK
<1>10. InHook("drain") => InHook("drain")'
  BY <1>1, <1>2, <1>9 DEF InHook, Current, Stages
<1>11. pc = "before" => batch = {} \/ InHook("drain")'
  BY <1>10 DEF Draining
<1>12. ASSUME pc = "before", NEW x \in fromBody, promise'[x] \in {"pending", "rejected"}
       PROVE  /\ x \in batch \/ (tracked' # None /\ x \in tracked')
              /\ \E k \in at .. Len(before') : before'[k].kind = "drain"
  <2>1. x \in Events /\ x # e
    BY <1>2, <1>4 DEF Draining
  <2>2. /\ x \in batch \/ (tracked # None /\ x \in tracked)
        /\ \E k \in at .. Len(before) : before[k].kind = "drain"
    BY <1>3, <1>12, <2>1 DEF Draining, Unsettled
  <2>3. PICK k \in at .. Len(before) : before[k].kind = "drain"
    BY <2>2
  <2>4. k \in DOMAIN before /\ at \in Nat
    BY <1>1 DEF Typing, TypeOK
  <2>5. k \in at .. Len(before') /\ before'[k].kind = "drain"
    BY <1>1, <2>3, <2>4
  <2> QED BY <1>5, <2>2, <2>5
<1>13. ASSUME pc = "commit", ~failed, NEW x \in fromBody PROVE ~(promise'[x] \in {"pending", "rejected"})
  <2>1. x \in Events /\ x # e
    BY <1>2, <1>4 DEF Draining
  <2> QED BY <1>3, <1>13, <2>1 DEF Draining, Unsettled
<1> QED BY <1>2, <1>6, <1>7, <1>8, <1>11, <1>12, <1>13 DEF Draining, Unsettled

LEMMA DrainingStep == Typing /\ Stages /\ Draining /\ [Next]_vars => Draining'
<1> USE DEF Unsettled
<1> DEFINE work == <<pc, failed, at, busy, before, tracked, batch, promise, published, fromBody>>
<1>1. ASSUME Draining, UNCHANGED work PROVE Draining'
  BY <1>1 DEF Draining, InHook, Current
<1> SUFFICES ASSUME Typing, Stages, Draining, Next PROVE Draining'
  BY <1>1 DEF vars, txVars, history
<1>2. Range(published) \subseteq Events
  BY DEF Typing, Range
<1>3. at \in Nat /\ Len(before) \in Nat
  BY DEF Typing, TypeOK
<1>4. ASSUME NEW e \in Events, PublishOnBus(e) PROVE Draining'
  BY <1>4, PublishDraining DEF PublishOnBus
<1>5. ASSUME NEW d \in detached, NEW e \in Events, DetachedPublishes(d, e) PROVE Draining'
  BY <1>5, PublishDraining DEF DetachedPublishes
<1>6. ASSUME NEW e \in Events, PublishOnOutbox(e) PROVE UNCHANGED work
  BY <1>6 DEF PublishOnOutbox
<1>7. ASSUME NEW e \in Events, PromiseSettles(e) PROVE Draining'
  <2>1. \A x \in Events : promise'[x] \in {"pending", "rejected"} => promise[x] \in {"pending", "rejected"}
    BY <1>7 DEF PromiseSettles, Typing, TypeOK
  <2> QED BY <1>2, <1>7, <2>1 DEF PromiseSettles, Draining, InHook, Current, txVars, history
<1>8. ASSUME NEW d \in detached, DetachedEnds(d) PROVE UNCHANGED work
  BY <1>8 DEF DetachedEnds, txVars, history
<1>9. CASE Begin
  <2>1. tracked = None
    BY <1>9 DEF Begin, Stages
  <2>2. Range(published) = {}
    BY <1>9 DEF Begin, Stages, Range
  <2> QED BY <1>9, <2>1, <2>2 DEF Begin, Stages, Draining, InHook, Current, txVars, history
<1>10. CASE FnReturns
  <2>1. \A e \in Range(published) : Unsettled(e) =>
          (tracked # None /\ e \in tracked) /\ \E k \in at .. Len(before) : before[k].kind = "drain"
    <3>1. at = 1 /\ DOMAIN before = 1 .. Len(before)
      BY <1>10 DEF FnReturns, Stages, Typing, TypeOK
    <3> QED BY <1>10, <3>1 DEF FnReturns, Draining
  <2> QED BY <1>10, <2>1 DEF FnReturns, Stages, Draining, InHook, Current, txVars, history
<1>11. ASSUME Throw(Rules) PROVE Draining'
  BY <1>11, RulesAssumption DEF Throw, Draining, history
<1>12. CASE Nested \/ NestedReturns \/ NestedThrows \/ FlushAdds \/ Notify \/ Quiescent
  BY <1>1, <1>12 DEF Nested, NestedReturns, NestedThrows, FlushAdds, Notify, Quiescent, vars, txVars, history
<1>13. ASSUME pc = "before", pc' = pc, at' = at + 1, at <= Len(before), Current.kind # "drain", ~busy', batch' = batch,
              UNCHANGED <<failed, before, tracked, promise, published, fromBody>>
       PROVE  Draining'
  <2>1. batch = {}
    BY <1>13 DEF Draining, InHook
  <2>2. \A k \in at .. Len(before) : before[k].kind = "drain" => k \in at + 1 .. Len(before)
    BY <1>3, <1>13 DEF Current
  <2> QED BY <1>13, <2>1, <2>2 DEF Draining
<1>14. CASE ListenerStarts
  <2>1. CASE Listeners[Current.listener].async
    BY <1>13, <1>14, <2>1 DEF ListenerStarts, NextHook, history
  <2>2. CASE ~Listeners[Current.listener].async
    BY <1>14, <2>2 DEF ListenerStarts, Draining, InHook, Current, history
  <2> QED BY <2>1, <2>2
<1>15. CASE ListenerReturns \/ FlushReturns
  BY <1>13, <1>15 DEF ListenerReturns, FlushReturns, NextHook, InHook, Stages, history
<1>16. CASE DrainTakes
  <2>1. batch = {} /\ tracked # None
    <3>1. at \in DOMAIN before
      BY <1>3, <1>16 DEF DrainTakes, Typing, TypeOK
    <3> QED BY <1>16, <3>1 DEF DrainTakes, Draining, InHook, Current, Typing
  <2>2. CASE tracked = {}
    <3>1. \A e \in fromBody : ~Unsettled(e)
      BY <1>16, <2>1, <2>2 DEF DrainTakes, Draining
    <3> QED BY <1>16, <2>1, <2>2, <3>1 DEF DrainTakes, NextHook, Draining, InHook, Current, history
  <2>3. CASE tracked # {}
    BY <1>16, <2>1, <2>3 DEF DrainTakes, Draining, InHook, Current, history
  <2> QED BY <2>2, <2>3
<1>17. CASE DrainResumes
  BY <1>17 DEF DrainResumes, Draining, InHook, Current, history
<1>18. CASE FlushTakes
  BY <1>18 DEF FlushTakes, Draining, InHook, Current, history
<1>19. CASE PassEnds
  <2>1. at .. Len(before) = {}
    BY <1>3, <1>19 DEF PassEnds
  <2> QED BY <1>19, <2>1 DEF PassEnds, Draining, txVars, history
<1>20. CASE Commit \/ Rollback \/ AfterEnds \/ Settle
  BY <1>20 DEF Commit, Rollback, AfterEnds, Settle, Draining, txVars, history
<1>21. ASSUME NEW j \in Jobs, AfterListener(j) PROVE UNCHANGED work
  BY <1>21 DEF AfterListener, history
<1>22. CASE Retry
  <2>1. Range(<<>>) = {}
    BY DEF Range
  <2> QED BY <1>22, <2>1 DEF Retry, Draining
<1> HIDE DEF work
<1> QED BY <1>1, <1>4, <1>5, <1>6, <1>7, <1>8, <1>9, <1>10, <1>11, <1>12, <1>14, <1>15,
           <1>16, <1>17, <1>18, <1>19, <1>20, <1>21, <1>22
        DEF Next, Step, FnThrows, ListenerThrows, DrainFails, FlushFails

\* trackPending makes COMMIT wait: when it is sent after a call that succeeded,
\* the work that the publishes of its body left behind is done, even though
\* before-commit hooks publish, and push hooks, while the list is walked.
THEOREM BodyWorkAwaited == Spec => []AwaitsBodyWork
<1>1. Init => Draining
  BY DEF Init, Draining, Unsettled, Range
<1>2. Typing /\ Stages /\ Draining => AwaitsBodyWork
  BY DEF Draining, AwaitsBodyWork, Unsettled, Typing, TypeOK
<1> QED BY <1>1, <1>2, DrainingStep, Staged, PTL DEF Spec

-------------------------------------------------------------------------------
(* Phase listeners. *)

LEMMA PublishBeforeHooks ==
  ASSUME FreshEvents, Typing, Stages, BeforeHooks, AfterHooks, NEW e \in Events, NEW store, Publish(e, store)
  PROVE  BeforeHooks'
<1>1. UNCHANGED <<pc, failed, at, busy, ran>> /\ e \notin Range(published) /\ e \notin scheduled
  BY PublishFrame
<1>2. CASE ~Sees(store)
  BY <1>1, <1>2, PublishOutside DEF BeforeHooks, Ran, Started, active
<1>3. CASE Sees(store)
  <2>1. PICK answer \in {"none", "pending"} : before' = before \o NewHooks(e, answer)
    BY <1>3, PublishInside
  <2>2. PICK new : new = NewHooks(e, answer)
    OBVIOUS
  <2>3. /\ new \in Seq(HookRecords)
        /\ \A k \in DOMAIN new :
             \/ /\ new[k].kind = "listener" /\ new[k].event = e
                /\ new[k].listener \in Attached({"BEFORE_COMMIT"}, e)
             \/ new[k] = Flush
             \/ new[k] = Drain
        /\ \A k, l \in DOMAIN new : new[k].kind = "listener" /\ new[k] = new[l] => k = l
        /\ \A i \in Attached({"BEFORE_COMMIT"}, e) : \E k \in DOMAIN new : new[k] = Hook("listener", i, e)
    BY <1>1, <2>2, NewHooksShape
  <2>4. \A k \in DOMAIN new : new[k].kind = "listener" =>
          new[k].event = e /\ new[k].listener \in Attached({"BEFORE_COMMIT"}, e)
    BY <2>3 DEF Flush, Drain, Hook
  <2>5. before \in Seq(HookRecords) /\ Len(before) \in Nat /\ at \in 1 .. Len(before) + 1
    BY DEF Typing, TypeOK, HookRecords
  <2>6. /\ \A k \in DOMAIN before : k \in DOMAIN before' /\ before'[k] = before[k]
        /\ \A k \in DOMAIN new : Len(before) + k \in DOMAIN before' /\ before'[Len(before) + k] = new[k]
        /\ \A k \in DOMAIN before' :
             k \in DOMAIN before \/ (k > Len(before) /\ k - Len(before) \in DOMAIN new /\ before'[k] = new[k - Len(before)])
        /\ DOMAIN before' \subseteq Nat
    BY <2>1, <2>2, <2>3, <2>5, Appended
  <2>7. Range(published') = Range(published) \cup {e}
    BY <1>3, PublishedInside
  <2>8. ASSUME NEW k \in DOMAIN before', before'[k].kind = "listener"
        PROVE  /\ before'[k].event \in Range(published')
               /\ before'[k].listener \in Attached({"BEFORE_COMMIT"}, before'[k].event)
    BY <2>4, <2>6, <2>7, <2>8 DEF BeforeHooks
  <2>9. ASSUME NEW k \in DOMAIN before', NEW l \in DOMAIN before', before'[k].kind = "listener", before'[l] = before'[k]
        PROVE  k = l
    <3>1. CASE k \in DOMAIN before /\ l \in DOMAIN before
      BY <2>6, <2>9, <3>1 DEF BeforeHooks
    <3>2. CASE k \notin DOMAIN before /\ l \notin DOMAIN before
      <4>1. k - Len(before) = l - Len(before)
        BY <2>3, <2>6, <2>9, <3>2
      <4>2. k \in Nat /\ l \in Nat
        BY <2>6
      <4> QED BY <2>5, <4>1, <4>2
    <3>3. ASSUME NEW m \in DOMAIN before, NEW n \in DOMAIN before', n \notin DOMAIN before,
                 before'[m] = before'[n], before'[m].kind = "listener"
          PROVE  FALSE
      <4>1. before'[n].event = e
        BY <2>4, <2>6, <3>3
      <4>2. before'[m].event \in Range(published)
        BY <2>6, <3>3 DEF BeforeHooks
      <4> QED BY <1>1, <3>3, <4>1, <4>2
    <3> QED BY <2>9, <3>1, <3>2, <3>3
  <2>10. ASSUME NEW x \in Range(published'), NEW i \in Attached({"BEFORE_COMMIT"}, x)
         PROVE  \E k \in DOMAIN before' : before'[k] = Hook("listener", i, x)
    <3>1. CASE x \in Range(published)
      BY <2>6, <3>1 DEF BeforeHooks
    <3>2. CASE x = e
      BY <2>3, <2>6, <3>2
    <3> QED BY <2>7, <3>1, <3>2
  <2>11. active /\ active'
    BY <1>1, <1>3, PublishInside DEF active
  <2>12. ASSUME NEW k \in DOMAIN before', before'[k].kind = "listener"
         PROVE  Ran(k)' = (IF Started(k)' THEN 1 ELSE 0)
    <3>0. Started(k)' = Started(k)
      BY <1>1 DEF Started
    <3>1. CASE k \in DOMAIN before
      <4>1. Ran(k)' = Ran(k)
        BY <1>1, <2>6, <3>1 DEF Ran
      <4>2. before[k].kind = "listener"
        BY <2>6, <2>12, <3>1
      <4> QED BY <2>11, <3>0, <3>1, <4>1, <4>2 DEF BeforeHooks
    <3>2. CASE k \notin DOMAIN before
      <4>1. before'[k].event = e /\ before'[k].listener \in Attached({"BEFORE_COMMIT"}, e)
        BY <2>4, <2>6, <2>12, <3>2
      <4>2. <<before'[k].listener, e>> \in Jobs
        BY <4>1 DEF Attached, Jobs
      <4>3. ran[<<before'[k].listener, e>>] = 0
        BY <1>1, <4>2 DEF AfterHooks
      <4>4. ~Started(k)
        <5>1. k > Len(before) /\ k \in Nat
          BY <2>6, <3>2
        <5> QED BY <2>5, <5>1 DEF Started, Stages
      <4> QED BY <1>1, <3>0, <4>1, <4>3, <4>4 DEF Ran
    <3> QED BY <3>1, <3>2
  <2> QED BY <2>8, <2>9, <2>10, <2>11, <2>12 DEF BeforeHooks
<1> QED BY <1>2, <1>3

LEMMA PublishAfterHooks ==
  ASSUME FreshEvents, Typing, Stages, AfterHooks, NEW e \in Events, NEW store, Publish(e, store)
  PROVE  AfterHooks'
<1>1. UNCHANGED <<pc, outcome, ran>> /\ e \notin Range(published) /\ e \notin scheduled
  BY PublishFrame
<1>2. CASE ~Sees(store)
  BY <1>1, <1>2, PublishOutside DEF AfterHooks, committed
<1>3. CASE Sees(store)
  <2>1. /\ Range(published') = Range(published) \cup {e} /\ active
        /\ scheduled' = scheduled \cup {e}
        /\ onCommit' = onCommit \cup {<<i, e>> : i \in Attached({"AFTER_COMMIT", "AFTER_COMPLETION"}, e)}
        /\ onRollback' = onRollback \cup {<<i, e>> : i \in Attached({"AFTER_ROLLBACK", "AFTER_COMPLETION"}, e)}
    BY <1>1, <1>3, PublishInside, PublishedInside
  <2>2. outcome = None /\ outcome # "committed" /\ outcome # "rolledBack" /\ pc \notin {"ended", "done"}
    BY <2>1, NoneIsApart DEF Stages, active
  <2>3. (Range(published) \subseteq scheduled)'
    BY <2>1 DEF AfterHooks
  <2>4. \A j \in Jobs : ran'[j] # 0 => j[2] \in Range(published') /\ Hears(j[1], j[2]) /\ Listeners[j[1]].bound
    BY <1>1, <2>1 DEF AfterHooks
  <2>5. \A j \in onCommit' : j[2] \in Range(published') /\ j[1] \in Attached({"AFTER_COMMIT", "AFTER_COMPLETION"}, j[2])
    BY <2>1 DEF AfterHooks
  <2>6. \A j \in onRollback' : j[2] \in Range(published') /\ j[1] \in Attached({"AFTER_ROLLBACK", "AFTER_COMPLETION"}, j[2])
    BY <2>1 DEF AfterHooks
  <2>7. ASSUME NEW x \in Range(published')
        PROVE  /\ \A i \in After(x) : ran[<<i, x>>] = 0
               /\ \A i \in Attached({"AFTER_COMMIT", "AFTER_COMPLETION"}, x) : <<i, x>> \in onCommit'
               /\ \A i \in Attached({"AFTER_ROLLBACK", "AFTER_COMPLETION"}, x) : <<i, x>> \in onRollback'
    <3>1. CASE x \in Range(published)
      BY <2>1, <2>2, <3>1 DEF AfterHooks
    <3>2. CASE x = e
      <4>1. \A i \in After(e) : <<i, e>> \in Jobs
        BY DEF After, Attached, Jobs
      <4> QED BY <1>1, <2>1, <3>2, <4>1 DEF AfterHooks
    <3> QED BY <2>1, <3>1, <3>2
  <2> QED BY <1>1, <2>2, <2>3, <2>4, <2>5, <2>6, <2>7 DEF AfterHooks, committed
<1> QED BY <1>2, <1>3

Hooked == Typing /\ Stages /\ BeforeHooks /\ AfterHooks

\* A hook that ends leaves the others where they are.
LEMMA HookEndsBefore ==
  ASSUME Hooked, pc = "before", UNCHANGED <<pc, failed, before, published, ran>>,
         at <= Len(before), busy \/ Current.kind # "listener",
         \/ at' = at + 1 /\ ~busy'
         \/ UNCHANGED at /\ Current.kind # "listener"
  PROVE  BeforeHooks'
<1>1. at \in Nat /\ DOMAIN before \subseteq Nat
  BY DEF Hooked, Typing, TypeOK
<1>2. \A k \in DOMAIN before : before[k].kind = "listener" => Started(k)' = Started(k)
  BY <1>1 DEF Started, Current
<1>3. active /\ active'
  BY DEF active
<1>4. \A k \in DOMAIN before : Ran(k)' = Ran(k)
  BY DEF Ran
<1> QED BY <1>2, <1>3, <1>4 DEF Hooked, BeforeHooks

LEMMA ListenerStartsHooks ==
  ASSUME Hooked, ListenerStarts
  PROVE  BeforeHooks' /\ AfterHooks'
<1> USE DEF Hooked
<1>0. at \in DOMAIN before /\ at \in Nat /\ DOMAIN before \subseteq Nat
  BY DEF ListenerStarts, Typing, TypeOK
<1>1. PICK j : j = <<Current.listener, Current.event>>
  OBVIOUS
<1>2. j \in Jobs /\ ran' = [ran EXCEPT ![j] = @ + 1] /\ ran \in [Jobs -> Nat]
  BY <1>1, JobsOfHook DEF ListenerStarts, Typing, TypeOK
<1>3. j[2] \in Range(published) /\ j[1] \in Attached({"BEFORE_COMMIT"}, j[2])
  BY <1>0, <1>1 DEF ListenerStarts, Current, BeforeHooks
<1>4. UNCHANGED <<pc, failed, outcome, before, published, scheduled, onCommit, onRollback>> /\ active /\ active'
  BY DEF ListenerStarts, history, active
<1>5. \A k \in DOMAIN before : k # at => Started(k)' = Started(k)
  BY <1>0 DEF ListenerStarts, NextHook, Started
<1>6. \A k \in DOMAIN before : k = at => ~Started(k) /\ Started(k)'
  BY <1>0 DEF ListenerStarts, NextHook, Started
<1>7. \A k \in DOMAIN before : before[k].kind = "listener" =>
        <<before[k].listener, before[k].event>> \in Jobs /\ (<<before[k].listener, before[k].event>> = j => k = at)
  <2>1. ASSUME NEW k \in DOMAIN before, before[k].kind = "listener", <<before[k].listener, before[k].event>> = j
        PROVE  k = at
    <3>1. before[k] \in HookRecords /\ before[at] \in HookRecords
      <4>1. before \in Seq(HookRecords)
        BY DEF Typing, TypeOK, HookRecords
      <4> QED BY <1>0, <2>1, <4>1
    <3>2. before[at].kind = "listener" /\ before[k].listener = before[at].listener /\ before[k].event = before[at].event
      BY <1>1, <2>1 DEF ListenerStarts, Current
    <3>3. before[k] = before[at]
      BY <2>1, <3>1, <3>2 DEF HookRecords
    <3> QED BY <1>0, <2>1, <3>2, <3>3 DEF BeforeHooks
  <2> QED BY <2>1 DEF Typing
<1>8. \A k \in DOMAIN before : before[k].kind = "listener" => Ran(k)' = (IF Started(k)' THEN 1 ELSE 0)
  <2>1. ASSUME NEW k \in DOMAIN before, before[k].kind = "listener" PROVE Ran(k)' = (IF Started(k)' THEN 1 ELSE 0)
    <3>1. Ran(k) = (IF Started(k) THEN 1 ELSE 0)
      BY <1>4, <2>1 DEF BeforeHooks
    <3>2. CASE k = at
      <4>1. Ran(k) = 0 /\ Started(k)'
        BY <1>6, <2>1, <3>1, <3>2
      <4>2. Ran(k)' = Ran(k) + 1
        BY <1>1, <1>2, <1>4, <3>2 DEF Ran, Current
      <4> QED BY <4>1, <4>2
    <3>3. CASE k # at
      <4>1. Ran(k)' = Ran(k)
        BY <1>2, <1>4, <1>7, <2>1, <3>3 DEF Ran
      <4> QED BY <1>5, <3>1, <3>3, <4>1
    <3> QED BY <3>2, <3>3
  <2> QED BY <2>1
<1>9. BeforeHooks'
  BY <1>4, <1>8 DEF BeforeHooks
<1>10. \A e \in Events : \A i \in After(e) : <<i, e>> \in Jobs /\ <<i, e>> # j
  BY <1>3 DEF After, Attached, Jobs
<1>11. \A e \in Events : \A i \in After(e) : ran'[<<i, e>>] = ran[<<i, e>>]
  BY <1>2, <1>10
<1>12. \A k \in Jobs : ran'[k] # 0 => k[2] \in Range(published) /\ Hears(k[1], k[2]) /\ Listeners[k[1]].bound
  <2>1. Hears(j[1], j[2]) /\ Listeners[j[1]].bound
    BY <1>3 DEF Attached
  <2> QED BY <1>2, <1>3, <2>1 DEF AfterHooks
<1>13. Range(published) \subseteq Events
  BY DEF Typing, Range
<1>14. AfterHooks'
  BY <1>4, <1>11, <1>12, <1>13 DEF AfterHooks, committed
<1> QED BY <1>9, <1>14

LEMMA AfterListenerHooks ==
  ASSUME Hooked, NEW j \in Jobs, AfterListener(j)
  PROVE  BeforeHooks' /\ AfterHooks'
<1> USE DEF Hooked
<1>1. ran' = [ran EXCEPT ![j] = @ + 1] /\ ran \in [Jobs -> Nat]
  BY DEF AfterListener, Typing, TypeOK
<1>2. UNCHANGED <<pc, failed, outcome, before, at, busy, published, scheduled>> /\ pc = "after" /\ ~active /\ ~active'
  BY DEF AfterListener, history, active
<1>3. j[2] \in Range(published) /\ j[1] \in After(j[2]) /\ j = <<j[1], j[2]>>
  BY DEF AfterListener, AfterHooks, After, Attached, Jobs
<1>4. \A k \in DOMAIN before : before[k].kind = "listener" => Ran(k)' = Ran(k)
  <2>1. ASSUME NEW k \in DOMAIN before, before[k].kind = "listener" PROVE Ran(k)' = Ran(k)
    <3>1. <<before[k].listener, before[k].event>> \in Jobs
      BY <2>1 DEF Typing
    <3>2. before[k].listener \in Attached({"BEFORE_COMMIT"}, before[k].event)
      BY <2>1 DEF BeforeHooks
    <3>3. <<before[k].listener, before[k].event>> # j
      BY <1>3, <3>2 DEF After, Attached
    <3> QED BY <1>1, <1>2, <3>1, <3>3 DEF Ran
  <2> QED BY <2>1
<1>5. BeforeHooks'
  BY <1>2, <1>4 DEF BeforeHooks
<1>6. \A k \in Jobs : ran'[k] # 0 => k[2] \in Range(published) /\ Hears(k[1], k[2]) /\ Listeners[k[1]].bound
  <2>1. Hears(j[1], j[2]) /\ Listeners[j[1]].bound
    BY <1>3 DEF After, Attached
  <2> QED BY <1>1, <1>3, <2>1 DEF AfterHooks
<1>7. onCommit' \subseteq onCommit /\ onRollback' \subseteq onRollback
  BY DEF AfterListener
<1>8. \A e \in Range(published) : e \in Events
  BY DEF Typing, Range
<1>9. \A e \in Events : \A i \in After(e) : <<i, e>> \in Jobs
  BY DEF After, Attached, Jobs
<1>10. ASSUME NEW e \in Range(published), NEW i \in After(e), outcome = "committed"
       PROVE  ran'[<<i, e>>] = (IF Listeners[i].phase = "AFTER_ROLLBACK" \/ <<i, e>> \in onCommit' THEN 0 ELSE 1)
  <2>1. ran[<<i, e>>] = (IF Listeners[i].phase = "AFTER_ROLLBACK" \/ <<i, e>> \in onCommit THEN 0 ELSE 1)
    BY <1>10 DEF AfterHooks
  <2>2. j \in onCommit /\ onCommit' = onCommit \ {j}
    BY <1>10 DEF AfterListener
  <2>3. CASE <<i, e>> = j
    <3>1. ran[j] = 0 /\ Listeners[i].phase # "AFTER_ROLLBACK"
      BY <2>1, <2>2, <2>3 DEF AfterHooks, Attached
    <3> QED BY <1>1, <2>2, <2>3, <3>1
  <2>4. CASE <<i, e>> # j
    BY <1>1, <1>8, <1>9, <2>1, <2>2, <2>4
  <2> QED BY <2>3, <2>4
<1>11. ASSUME NEW e \in Range(published), NEW i \in After(e), outcome = "rolledBack"
       PROVE  ran'[<<i, e>>] = (IF Listeners[i].phase = "AFTER_COMMIT" \/ <<i, e>> \in onRollback' THEN 0 ELSE 1)
  <2>1. ran[<<i, e>>] = (IF Listeners[i].phase = "AFTER_COMMIT" \/ <<i, e>> \in onRollback THEN 0 ELSE 1)
    BY <1>11 DEF AfterHooks
  <2>2. j \in onRollback /\ onRollback' = onRollback \ {j}
    BY <1>11 DEF AfterListener
  <2>3. CASE <<i, e>> = j
    <3>1. ran[j] = 0 /\ Listeners[i].phase # "AFTER_COMMIT"
      BY <2>1, <2>2, <2>3 DEF AfterHooks, Attached
    <3> QED BY <1>1, <2>2, <2>3, <3>1
  <2>4. CASE <<i, e>> # j
    BY <1>1, <1>8, <1>9, <2>1, <2>2, <2>4
  <2> QED BY <2>3, <2>4
<1>12. /\ outcome # "committed" => onCommit' = onCommit
       /\ outcome # "rolledBack" => onRollback' = onRollback
       /\ outcome # None
  BY NoneIsApart DEF AfterListener
<1>13. AfterHooks'
  BY <1>2, <1>6, <1>7, <1>10, <1>11, <1>12 DEF AfterHooks, committed
<1> QED BY <1>5, <1>13

LEMMA HookedStep == FreshEvents /\ Hooked /\ [Next]_vars => Hooked'
<1> DEFINE early == <<pc, failed, before, at, busy, published, ran>>
           late == <<pc, outcome, scheduled, published, ran, onCommit, onRollback>>
<1>1. ASSUME BeforeHooks, UNCHANGED early PROVE BeforeHooks'
  BY <1>1 DEF BeforeHooks, Ran, Started, active
<1>2. ASSUME AfterHooks, UNCHANGED late PROVE AfterHooks'
  BY <1>2 DEF AfterHooks, committed
<1>3. ASSUME Hooked, UNCHANGED vars PROVE BeforeHooks' /\ AfterHooks'
  BY <1>1, <1>2, <1>3 DEF Hooked, vars, txVars, history
<1> SUFFICES ASSUME FreshEvents, Hooked, Next PROVE BeforeHooks' /\ AfterHooks'
  BY <1>3, TypingStep, StagesStep DEF Hooked
<1> USE DEF Hooked
<1>4. ASSUME NEW e \in Events, NEW store, Publish(e, store) PROVE BeforeHooks' /\ AfterHooks'
  BY <1>4, PublishBeforeHooks, PublishAfterHooks
<1>5. ASSUME NEW e \in Events, PublishOnOutbox(e) PROVE BeforeHooks' /\ AfterHooks'
  BY <1>1, <1>2, <1>5 DEF PublishOnOutbox
<1>6. ASSUME NEW e \in Events, PromiseSettles(e) PROVE BeforeHooks' /\ AfterHooks'
  BY <1>1, <1>2, <1>6 DEF PromiseSettles, txVars, history
<1>7. ASSUME NEW d \in detached, DetachedEnds(d) PROVE BeforeHooks' /\ AfterHooks'
  BY <1>1, <1>2, <1>7 DEF DetachedEnds, txVars, history
<1>8. CASE Begin
  <2>1. before = <<>> /\ Range(published) = {} /\ UNCHANGED <<outcome, scheduled, published, ran, onCommit, onRollback, before>>
    BY <1>8 DEF Begin, Stages, Range, txVars, history
  <2>2. BeforeHooks'
    BY <2>1 DEF BeforeHooks
  <2>3. AfterHooks'
    BY <1>8, <2>1 DEF Begin, AfterHooks
  <2> QED BY <2>2, <2>3
<1>9. CASE FnReturns
  <2>1. pc = "body" /\ pc' = "before"
        /\ UNCHANGED <<failed, outcome, before, at, busy, scheduled, published, ran, onCommit, onRollback>>
    BY <1>9 DEF FnReturns, txVars
  <2> QED BY <2>1 DEF BeforeHooks, AfterHooks, Ran, Started, active, committed
<1>10. ASSUME active, Throw(Rules), UNCHANGED ran PROVE BeforeHooks' /\ AfterHooks'
  <2>1. UNCHANGED <<outcome, before, scheduled, published, ran, onCommit, onRollback>> /\ failed' /\ ~active'
        /\ pc' \in {"commit", "rollback"}
    BY <1>10, RulesAssumption DEF Throw, active, history
  <2>2. \A k \in DOMAIN before : before[k].kind = "listener" => Ran(k)' <= 1
    BY <1>10, <2>1 DEF BeforeHooks, Ran
  <2> QED BY <2>1, <2>2 DEF BeforeHooks, AfterHooks, committed
<1>11. CASE Nested \/ NestedReturns \/ NestedThrows \/ FlushAdds \/ Notify \/ Quiescent
  BY <1>1, <1>2, <1>11 DEF Nested, NestedReturns, NestedThrows, FlushAdds, Notify, Quiescent, vars, txVars, history
<1>12. CASE ListenerStarts
  BY <1>12, ListenerStartsHooks
<1>13. CASE ListenerReturns \/ FlushReturns \/ DrainTakes \/ DrainResumes \/ FlushTakes
  <2>1. AfterHooks'
    BY <1>2, <1>13 DEF ListenerReturns, FlushReturns, DrainTakes, DrainResumes, FlushTakes, history
  <2>2. CASE ListenerReturns \/ FlushReturns
    BY <2>1, <2>2, HookEndsBefore DEF ListenerReturns, FlushReturns, NextHook, InHook, Stages, history
  <2>3. CASE DrainTakes \/ FlushTakes
    BY <2>1, <2>3, HookEndsBefore DEF DrainTakes, FlushTakes, NextHook, history
  <2>4. CASE DrainResumes
    BY <2>1, <2>4, HookEndsBefore DEF DrainResumes, InHook, Stages, history
  <2> QED BY <1>13, <2>2, <2>3, <2>4
<1>14. CASE PassEnds
  <2>1. UNCHANGED <<failed, outcome, before, at, busy, scheduled, published, ran, onCommit, onRollback>>
        /\ pc = "before" /\ pc' = "commit" /\ active /\ ~active'
    BY <1>14 DEF PassEnds, active, txVars, history
  <2>2. \A k \in DOMAIN before : Started(k)
    BY <1>14 DEF PassEnds, Started, Typing, TypeOK
  <2>3. \A k \in DOMAIN before : before[k].kind = "listener" => Ran(k)' = 1
    BY <2>1, <2>2 DEF BeforeHooks, Ran
  <2> QED BY <2>1, <2>3 DEF BeforeHooks, AfterHooks, committed
<1>15. CASE Commit \/ Rollback
  <2>1. /\ UNCHANGED <<before, at, busy, scheduled, published, ran, onCommit, onRollback>>
        /\ pc' = "after" /\ ~active /\ ~active' /\ outcome = None
        /\ (failed' = failed /\ outcome' = "committed") \/ (failed' = TRUE /\ outcome' = "rolledBack")
    BY <1>15 DEF Commit, Rollback, Stages, active, txVars, history
  <2>2. BeforeHooks'
    BY <2>1 DEF BeforeHooks, Ran
  <2>3. outcome # "committed" /\ outcome # "rolledBack" /\ outcome' # None
    BY <2>1, NoneIsApart
  <2>4. \A e : \A i \in After(e) :
          /\ Listeners[i].phase = "AFTER_ROLLBACK" \/ i \in Attached({"AFTER_COMMIT", "AFTER_COMPLETION"}, e)
          /\ Listeners[i].phase = "AFTER_COMMIT" \/ i \in Attached({"AFTER_ROLLBACK", "AFTER_COMPLETION"}, e)
    BY DEF After, Attached
  <2>5. AfterHooks'
    BY <2>1, <2>3, <2>4 DEF AfterHooks, committed
  <2> QED BY <2>2, <2>5
<1>16. ASSUME NEW j \in Jobs, AfterListener(j) PROVE BeforeHooks' /\ AfterHooks'
  BY <1>16, AfterListenerHooks
<1>17. CASE AfterEnds \/ Settle
  <2>1. UNCHANGED <<failed, outcome, before, at, busy, scheduled, published, ran, onCommit, onRollback>> /\ ~active /\ ~active'
    BY <1>17 DEF AfterEnds, Settle, active, txVars, history
  <2>2. BeforeHooks'
    BY <2>1 DEF BeforeHooks, Ran
  <2>3. IF outcome = "committed" THEN onCommit = {} ELSE onRollback = {}
    BY <1>17 DEF AfterEnds, Settle, AfterHooks, committed
  <2>4. AfterHooks'
    BY <2>1, <2>3 DEF AfterHooks, committed
  <2> QED BY <2>2, <2>4
<1>18. CASE Retry
  <2>1. DOMAIN before' = {} /\ Range(published') = {} /\ onCommit' = {} /\ onRollback' = {} /\ pc' = "body"
        /\ ran' = [j \in Jobs |-> 0]
    BY <1>18 DEF Retry, Range
  <2>2. BeforeHooks'
    BY <2>1 DEF BeforeHooks
  <2>3. AfterHooks'
    BY <2>1 DEF AfterHooks
  <2> QED BY <2>2, <2>3
<1> HIDE DEF early, late
<1> QED BY <1>4, <1>5, <1>6, <1>7, <1>8, <1>9, <1>10, <1>11, <1>12, <1>13, <1>14, <1>15, <1>16, <1>17, <1>18
        DEF Next, Step, PublishOnBus, DetachedPublishes, FnThrows, ListenerThrows, DrainFails, FlushFails, InHook, active

\* attachHookToTransaction runs each listener as its phase says: when an attempt
\* that publishes event objects of its own has ended, each of its listeners has
\* run once or not at all as the outcome demands, however late it was attached.
THEOREM PhasesKept == ASSUME FreshEvents PROVE Spec => []PhaseListenersRun
<1>1. Init => Hooked
  <2> SUFFICES ASSUME Init PROVE BeforeHooks /\ AfterHooks
    BY InitTyping DEF Hooked
  <2>1. DOMAIN before = {} /\ Range(published) = {}
    BY DEF Init, Range
  <2> QED BY <2>1 DEF Init, BeforeHooks, AfterHooks
<1>2. Hooked => PhaseListenersRun
  <2> SUFFICES ASSUME Hooked, Ended, NEW e \in Range(published), NEW i \in DOMAIN Listeners
               PROVE  LET n == ran[<<i, e>>]
                          phase == Listeners[i].phase
                      IN  IF ~Hears(i, e) \/ ~Listeners[i].bound THEN n = 0 ELSE
                          CASE phase = "BEFORE_COMMIT" -> n <= 1 /\ (committed /\ ~failed => n = 1)
                            [] phase = "AFTER_COMMIT" -> n = IF committed THEN 1 ELSE 0
                            [] phase = "AFTER_ROLLBACK" -> n = IF committed THEN 0 ELSE 1
                            [] phase = "AFTER_COMPLETION" -> n = 1
    BY DEF PhaseListenersRun
  <2>1. <<i, e>> \in Jobs
    BY DEF Hooked, Typing, Jobs, Range
  <2>2. ~Hears(i, e) \/ ~Listeners[i].bound => ran[<<i, e>>] = 0
    BY <2>1 DEF Hooked, AfterHooks
  <2>3. Listeners[i].phase \in PhaseNames
    <3>1. Listeners \in Seq(ListenerRecords) /\ i \in 1 .. Len(Listeners)
      BY ListenersAssumption, ListenerDomain
    <3>2. Listeners[i] \in ListenerRecords
      BY <3>1, ElementOfSeq
    <3> QED BY <3>2 DEF ListenerRecords
  <2>4. ASSUME Hears(i, e), Listeners[i].bound, Listeners[i].phase = "BEFORE_COMMIT"
        PROVE  ran[<<i, e>>] <= 1 /\ (committed /\ ~failed => ran[<<i, e>>] = 1)
    <3>1. i \in Attached({"BEFORE_COMMIT"}, e)
      BY <2>4 DEF Attached
    <3>2. PICK k \in DOMAIN before : before[k] = Hook("listener", i, e)
      BY <3>1 DEF Hooked, BeforeHooks
    <3>3. before[k].kind = "listener" /\ before[k].listener = i /\ before[k].event = e
      BY <3>2 DEF Hook
    <3>4. Ran(k) <= 1 /\ (~failed => Ran(k) = 1)
      BY <3>3 DEF Hooked, BeforeHooks, Ended, active
    <3> QED BY <3>3, <3>4 DEF Ran
  <2>5. ASSUME Hears(i, e), Listeners[i].bound, Listeners[i].phase # "BEFORE_COMMIT"
        PROVE  ran[<<i, e>>] = IF committed THEN (IF Listeners[i].phase = "AFTER_ROLLBACK" THEN 0 ELSE 1)
                               ELSE (IF Listeners[i].phase = "AFTER_COMMIT" THEN 0 ELSE 1)
    <3>1. i \in After(e)
      BY <2>3, <2>5 DEF After, Attached, PhaseNames
    <3>2. outcome = "committed" \/ outcome = "rolledBack"
      BY DEF Hooked, Stages, Typing, TypeOK, Ended
    <3>3. IF committed THEN onCommit = {} ELSE onRollback = {}
      BY DEF Hooked, AfterHooks, Ended
    <3> QED BY <3>1, <3>2, <3>3 DEF Hooked, AfterHooks, committed
  <2>6. CASE ~Hears(i, e) \/ ~Listeners[i].bound
    BY <2>2, <2>6
  <2>7. CASE Hears(i, e) /\ Listeners[i].bound /\ Listeners[i].phase = "BEFORE_COMMIT"
    BY <2>4, <2>7
  <2>8. CASE Hears(i, e) /\ Listeners[i].bound /\ Listeners[i].phase = "AFTER_COMMIT"
    BY <2>5, <2>8
  <2>9. CASE Hears(i, e) /\ Listeners[i].bound /\ Listeners[i].phase = "AFTER_ROLLBACK"
    BY <2>5, <2>9
  <2>10. CASE Hears(i, e) /\ Listeners[i].bound /\ Listeners[i].phase = "AFTER_COMPLETION"
    BY <2>5, <2>10
  <2> QED BY <2>3, <2>6, <2>7, <2>8, <2>9, <2>10 DEF PhaseNames
<1>3. FreshEvents => (Hooked /\ [Next]_vars => Hooked')
  BY HookedStep
<1> QED BY <1>1, <1>2, <1>3, PTL DEF Spec

-------------------------------------------------------------------------------
(* The outbox. First what keeps a queue of messages complete. *)

\* An externalized event goes to the end of the queue as it is published.
LEMMA CompletePush ==
  ASSUME NEW q \in Seq(Events), NEW p \in Seq(Events), NEW d, NEW e \in Events,
         e \notin Range(p), e \notin d, e \in External, Complete(q, p, d)
  PROVE  Complete(Append(q, e), Append(p, e), d)
<1>1. PICK r : r = Append(q, e)
  OBVIOUS
<1>2. PICK s : s = Append(p, e)
  OBVIOUS
<1>3. /\ Len(q) \in Nat /\ DOMAIN r = 1 .. Len(q) + 1 /\ DOMAIN q = 1 .. Len(q)
      /\ \A k \in DOMAIN q : r[k] = q[k]
      /\ r[Len(q) + 1] = e /\ Range(r) = Range(q) \cup {e}
  BY <1>1, Pushed
<1>4. /\ Len(p) \in Nat /\ DOMAIN s = 1 .. Len(p) + 1 /\ DOMAIN p = 1 .. Len(p)
      /\ \A k \in DOMAIN p : s[k] = p[k]
      /\ s[Len(p) + 1] = e /\ Range(s) = Range(p) \cup {e}
  BY <1>2, Pushed
<1>5. \A k \in DOMAIN r : k \in DOMAIN q \/ k = Len(q) + 1
  BY <1>3
<1>6. \A k \in DOMAIN s : k \in DOMAIN p \/ k = Len(p) + 1
  BY <1>4
<1>7. (\A k \in DOMAIN q : q[k] # e) /\ (\A k \in DOMAIN p : p[k] # e)
  BY DEF Complete, Range
<1>8. IsInjective(r)
  BY <1>3, <1>5, <1>7 DEF Complete, IsInjective
<1>9. Range(r) = {x \in External : x \in Range(s)} \cup d
  BY <1>3, <1>4 DEF Complete
<1>10. ASSUME NEW k \in DOMAIN r, NEW l \in DOMAIN r, NEW m \in DOMAIN s, NEW n \in DOMAIN s,
              r[k] = s[m], r[l] = s[n], r[k] \in External, r[l] \in External, m < n
       PROVE  k < l
  <2>1. m \in DOMAIN p
    BY <1>4, <1>10
  <2>2. k \in DOMAIN q
    BY <1>3, <1>4, <1>5, <1>7, <1>10, <2>1
  <2>3. CASE l = Len(q) + 1
    BY <1>3, <2>2, <2>3
  <2>4. CASE l \in DOMAIN q
    <3>1. n \in DOMAIN p
      BY <1>3, <1>4, <1>6, <1>7, <1>10, <2>4
    <3> QED BY <1>3, <1>4, <1>10, <2>1, <2>2, <2>4, <3>1 DEF Complete
  <2> QED BY <1>5, <2>3, <2>4
<1>11. Complete(r, s, d)
  BY <1>8, <1>9, <1>10 DEF Complete
<1> QED BY <1>1, <1>2, <1>11

\* An event that is not externalized leaves it as it is.
LEMMA CompleteSkip ==
  ASSUME NEW q \in Seq(Events), NEW p \in Seq(Events), NEW d, NEW e \in Events,
         e \notin External, Complete(q, p, d)
  PROVE  Complete(q, Append(p, e), d)
<1>2. PICK s : s = Append(p, e)
  OBVIOUS
<1>4. /\ Len(p) \in Nat /\ DOMAIN s = 1 .. Len(p) + 1 /\ DOMAIN p = 1 .. Len(p)
      /\ \A k \in DOMAIN p : s[k] = p[k]
      /\ s[Len(p) + 1] = e /\ Range(s) = Range(p) \cup {e}
  BY <1>2, Pushed
<1>6. \A k \in DOMAIN s : k \in DOMAIN p \/ k = Len(p) + 1
  BY <1>4
<1>9. Range(q) = {x \in External : x \in Range(s)} \cup d
  BY <1>4 DEF Complete
<1>10. ASSUME NEW k \in DOMAIN q, NEW l \in DOMAIN q, NEW m \in DOMAIN s, NEW n \in DOMAIN s,
              q[k] = s[m], q[l] = s[n], q[k] \in External, q[l] \in External, m < n
       PROVE  k < l
  BY <1>4, <1>6, <1>10 DEF Complete
<1>11. Complete(q, s, d)
  BY <1>9, <1>10 DEF Complete
<1> QED BY <1>2, <1>11

\* A message given to OutboxEventPublisher.publish comes between those in the
\* outbox and those still waiting.
LEMMA CompleteInsert ==
  ASSUME NEW s \in Seq(Events), NEW t \in Seq(Events), NEW p \in Seq(Events), NEW d, NEW e \in Events,
         e \notin Range(p), e \notin d, Complete(s \o t, p, d)
  PROVE  Complete(Append(s, e) \o t, p, d \cup {e})
<1>1. PICK q : q = s \o t
  OBVIOUS
<1>2. PICK u : u = Append(s, e)
  OBVIOUS
<1>3. PICK r : r = u \o t
  OBVIOUS
<1>4. /\ u \in Seq(Events) /\ Len(s) \in Nat /\ Len(t) \in Nat /\ Len(u) = Len(s) + 1
      /\ DOMAIN u = 1 .. Len(s) + 1 /\ DOMAIN s = 1 .. Len(s) /\ DOMAIN t = 1 .. Len(t)
      /\ \A k \in DOMAIN s : u[k] = s[k]
      /\ u[Len(s) + 1] = e /\ Range(u) = Range(s) \cup {e}
  BY <1>2, Pushed
<1>5. /\ DOMAIN q = 1 .. Len(s) + Len(t) /\ Range(q) = Range(s) \cup Range(t)
      /\ \A k \in DOMAIN s : q[k] = s[k]
      /\ \A k \in DOMAIN t : q[Len(s) + k] = t[k]
  BY <1>1, Appended
<1>6. /\ DOMAIN r = 1 .. Len(u) + Len(t) /\ Range(r) = Range(u) \cup Range(t)
      /\ \A k \in DOMAIN u : r[k] = u[k]
      /\ \A k \in DOMAIN t : r[Len(u) + k] = t[k]
  <2>1. u \in Seq(Events)
    BY <1>4
  <2> QED BY <1>3, <2>1, Appended
<1>7. Complete(q, p, d) /\ e \notin Range(q)
  BY <1>1 DEF Complete
<1> DEFINE old(k) == IF k <= Len(s) THEN k ELSE k - 1
<1>8. \A k \in DOMAIN r : k # Len(s) + 1 => old(k) \in DOMAIN q /\ q[old(k)] = r[k]
  <2>1. ASSUME NEW k \in DOMAIN r, k # Len(s) + 1 PROVE old(k) \in DOMAIN q /\ q[old(k)] = r[k]
    <3>0. k \in Nat
      BY <1>4, <1>6
    <3>1. CASE k <= Len(s)
      <4>1. k \in DOMAIN s /\ k \in DOMAIN u /\ old(k) = k
        BY <1>4, <1>6, <2>1, <3>1
      <4> QED BY <1>4, <1>5, <1>6, <4>1
    <3>2. CASE k > Len(s) + 1
      <4>1. PICK n \in DOMAIN t : k = Len(u) + n
        <5>1. k - Len(u) \in DOMAIN t /\ k = Len(u) + (k - Len(u))
          BY <1>4, <1>6, <2>1, <3>2
        <5> QED BY <5>1
      <4>2. old(k) = Len(s) + n /\ Len(s) + n \in DOMAIN q
        BY <1>4, <1>5, <3>0, <3>2, <4>1
      <4> QED BY <1>5, <1>6, <4>1, <4>2
    <3> QED BY <1>4, <2>1, <3>0, <3>1, <3>2
  <2> QED BY <2>1
<1>9. r[Len(s) + 1] = e /\ \A k \in DOMAIN r : r[k] # e => k # Len(s) + 1
  BY <1>4, <1>6
<1>10. \A k, l \in DOMAIN r : k # Len(s) + 1 /\ l # Len(s) + 1 =>
         (old(k) < old(l) => k < l) /\ (old(k) = old(l) => k = l)
  BY <1>4, <1>6
<1>11. \A k \in DOMAIN r : r[k] = e => k = Len(s) + 1
  BY <1>7, <1>8 DEF Range
<1> HIDE DEF old
<1>12. IsInjective(r)
  <2>1. ASSUME NEW k \in DOMAIN r, NEW l \in DOMAIN r, r[k] = r[l] PROVE k = l
    <3>1. CASE r[k] = e
      BY <1>11, <2>1, <3>1
    <3>2. CASE r[k] # e
      BY <1>7, <1>8, <1>9, <1>10, <2>1, <3>2 DEF Complete, IsInjective
    <3> QED BY <3>1, <3>2
  <2> QED BY <2>1 DEF IsInjective
<1>13. Range(r) = {x \in External : x \in Range(p)} \cup (d \cup {e})
  BY <1>4, <1>5, <1>6, <1>7 DEF Complete
<1>14. ASSUME NEW k \in DOMAIN r, NEW l \in DOMAIN r, NEW m \in DOMAIN p, NEW n \in DOMAIN p,
              r[k] = p[m], r[l] = p[n], r[k] \in External, r[l] \in External, m < n
       PROVE  k < l
  <2>1. r[k] # e /\ r[l] # e
    BY <1>14 DEF Range
  <2>2. old(k) < old(l)
    BY <1>7, <1>8, <1>9, <1>14, <2>1 DEF Complete
  <2> QED BY <1>9, <1>10, <2>1, <2>2
<1>15. Complete(r, p, d \cup {e})
  BY <1>12, <1>13, <1>14 DEF Complete
<1> QED BY <1>2, <1>3, <1>15

LEMMA QueueType ==
  ASSUME Typing
  PROVE  /\ InBuffer \in Seq(Events) /\ adding \in Seq(Events) /\ rows \in Seq(Events) /\ published \in Seq(Events)
         /\ adding \o InBuffer \in Seq(Events)
         /\ saved # None => saved.rows \in Seq(Events) /\ saved.direct \subseteq Events
<1>1. InBuffer \in Seq(Events) /\ adding \in Seq(Events) /\ rows \in Seq(Events) /\ published \in Seq(Events)
  BY DEF Typing, TypeOK, InBuffer
<1>2. adding \o InBuffer \in Seq(Events)
  BY <1>1, ConcatProperties
<1> QED BY <1>1, <1>2 DEF Typing

\* A publish keeps the queue complete, behind whatever is in the outbox.
LEMMA PublishQueued ==
  ASSUME FreshEvents, Typing, NEW e \in Events, NEW store, Publish(e, store),
         NEW r \in Seq(Events), NEW d, e \notin d, Queued(r, d)
  PROVE  Queued(r, d)'
<1>1. e \notin Range(published) /\ e \notin scheduled /\ adding' = adding
  BY PublishFrame
<1>2. PICK a : a = adding
  OBVIOUS
<1>3. PICK b : b = InBuffer
  OBVIOUS
<1>4. a \in Seq(Events) /\ b \in Seq(Events) /\ a \o b \in Seq(Events) /\ r \o (a \o b) \in Seq(Events)
      /\ published \in Seq(Events)
  BY <1>2, <1>3, QueueType, ConcatProperties
<1>5. Complete(r \o (a \o b), published, d) /\ d \cap Range(published) = {}
  BY <1>2, <1>3 DEF Queued, Queue
<1>6. CASE ~Sees(store)
  <2>1. UNCHANGED <<published, buffer>>
    BY <1>6, PublishOutside
  <2> QED BY <1>1, <2>1 DEF Queued, Queue, InBuffer
<1>7. CASE Sees(store)
  <2>1. /\ published' = Append(published, e) /\ Range(published') = Range(published) \cup {e}
        /\ buffer' = IF e \in External THEN Append(InBuffer, e) ELSE buffer
    BY <1>1, <1>7, PublishInside, PublishedInside
  <2>2. d \cap Range(published') = {}
    BY <1>5, <2>1
  <2>3. CASE e \in External
    <3>1. Append(b, e) \in Seq(Events)
      BY <1>4, AppendProperties
    <3>2. InBuffer' = Append(b, e)
      <4>1. buffer' = Append(b, e) /\ buffer' # None
        BY <1>3, <2>1, <2>3, <3>1, NoneIsApart
      <4> QED BY <4>1 DEF InBuffer
    <3>3. <<e>> \in Seq(Events)
      OBVIOUS
    <3>4. r \o (a \o Append(b, e)) = Append(r \o (a \o b), e)
      <4>1. Append(b, e) = b \o <<e>> /\ Append(r \o (a \o b), e) = (r \o (a \o b)) \o <<e>>
        BY <1>4, AppendIsConcat
      <4>2. a \o (b \o <<e>>) = (a \o b) \o <<e>>
        BY <1>4, <3>3, ConcatAssociative
      <4>3. r \o ((a \o b) \o <<e>>) = (r \o (a \o b)) \o <<e>>
        BY <1>4, <3>3, ConcatAssociative
      <4> QED BY <4>1, <4>2, <4>3
    <3>5. Complete(Append(r \o (a \o b), e), Append(published, e), d)
      BY <1>1, <1>4, <1>5, <2>3, CompletePush
    <3>6. Queue(r)' = Append(r \o (a \o b), e)
      BY <1>1, <1>2, <3>2, <3>4 DEF Queue
    <3> QED BY <2>1, <2>2, <3>5, <3>6 DEF Queued
  <2>4. CASE e \notin External
    <3>1. Complete(r \o (a \o b), Append(published, e), d)
      BY <1>4, <1>5, <2>4, CompleteSkip
    <3>2. Queue(r)' = r \o (a \o b)
      BY <1>1, <1>2, <1>3, <2>1, <2>4 DEF Queue, InBuffer
    <3> QED BY <2>1, <2>2, <3>1, <3>2 DEF Queued
  <2> QED BY <2>3, <2>4
<1> QED BY <1>6, <1>7

\* A flush hook is to come as long as the buffer has an entry.
LEMMA PublishFlushHook ==
  ASSUME FreshEvents, Typing, Stages, Flushing, NEW e \in Events, NEW store, Publish(e, store), active, buffer' # None
  PROVE  (\E k \in at .. Len(before) : before[k].kind = "flush" /\ ~Started(k))'
<1>1. UNCHANGED <<at, busy>> /\ e \notin scheduled
  BY PublishFrame
<1>2. /\ \A k \in DOMAIN before : k \in DOMAIN before' /\ before'[k] = before[k]
      /\ Len(before) <= Len(before') /\ Len(before) \in Nat /\ Len(before') \in Nat
  BY PublishKeeps
<1>3. at \in 1 .. Len(before) + 1 /\ DOMAIN before = 1 .. Len(before)
  BY DEF Typing, TypeOK
<1>4. CASE buffer # None
  <2>1. PICK k \in at .. Len(before) : before[k].kind = "flush" /\ ~Started(k)
    BY <1>4 DEF Flushing
  <2>2. k \in DOMAIN before /\ k \in at .. Len(before')
    BY <1>2, <1>3
  <2> QED BY <1>1, <1>2, <2>1, <2>2 DEF Started
<1>5. CASE buffer = None
  <2>1. Sees(store) /\ e \in External
    BY <1>1, <1>5, PublishInside, PublishOutside
  <2>2. PICK answer \in {"none", "pending"} : before' = before \o NewHooks(e, answer)
    BY <2>1, PublishInside
  <2>3. PICK k \in DOMAIN NewHooks(e, answer) : NewHooks(e, answer)[k] = Flush
    BY <1>1, <1>5, <2>1, NewHooksShape
  <2>4. NewHooks(e, answer) \in Seq(HookRecords) /\ before \in Seq(HookRecords)
    BY NewHooksShape DEF Typing, TypeOK, HookRecords
  <2>5. Len(before) + k \in DOMAIN before' /\ before'[Len(before) + k] = Flush
    BY <2>2, <2>3, <2>4, Appended
  <2>6. k \in Nat /\ k >= 1 /\ DOMAIN before' = 1 .. Len(before')
    BY <2>2, <2>4, ConcatProperties
  <2>7. PICK l : l = Len(before) + k
    OBVIOUS
  <2>8. l \in at .. Len(before') /\ l > Len(before) /\ l \in Nat
    BY <1>2, <1>3, <2>5, <2>6, <2>7
  <2>9. ~Started(l)
    BY <1>2, <1>3, <2>8 DEF Started, Stages
  <2>10. before'[l].kind = "flush"
    BY <2>5, <2>7 DEF Flush, Hook
  <2>11. ~Started(l)'
    BY <1>1, <2>9 DEF Started
  <2> QED BY <1>1, <2>8, <2>10, <2>11
<1> QED BY <1>4, <1>5

LEMMA PublishFlushing ==
  ASSUME FreshEvents, Typing, Stages, Flushing, NEW e \in Events, NEW store, Publish(e, store)
  PROVE  Flushing'
<1>1. UNCHANGED <<pc, failed, at, busy, adding, rows, saved, direct>> /\ e \notin Range(published) \cup direct
  BY PublishFrame
<1>2. active' = active
  BY <1>1 DEF active
<1>3. (Range(published) \subseteq scheduled)'
  <2>1. scheduled' = scheduled \cup {e}
    BY PublishKeeps
  <2>2. Range(published') \subseteq Range(published) \cup {e}
    BY PublishedInside, PublishOutside
  <2> QED BY <2>1, <2>2 DEF Flushing
<1>4. CASE ~active
  <2>1. UNCHANGED published
    BY <1>4, PublishKeeps
  <2> QED BY <1>1, <1>2, <1>3, <1>4, <2>1 DEF Flushing, OutboxComplete
<1>5. CASE active
  <2>1. Queued(rows, direct)'
    <3>1. PICK r : r = rows
      OBVIOUS
    <3>2. PICK d : d = direct
      OBVIOUS
    <3>3. Queued(r, d)'
      BY <1>1, <1>5, <3>1, <3>2, PublishQueued, QueueType DEF Flushing
    <3> QED BY <1>1, <3>1, <3>2, <3>3 DEF Queued, Queue
  <2>2. (saved # None => Queued(saved.rows, saved.direct) /\ saved.direct \subseteq direct)'
    <3>0. CASE saved = None
      BY <1>1, <3>0
    <3>a. CASE saved # None
      <4>1. PICK r : r = saved.rows
        OBVIOUS
      <4>2. PICK d : d = saved.direct
        OBVIOUS
      <4>3. Queued(r, d)'
        BY <1>1, <1>5, <3>a, <4>1, <4>2, PublishQueued, QueueType DEF Flushing
      <4>4. saved'.rows = r /\ saved'.direct = d /\ d \subseteq direct'
        BY <1>1, <1>5, <3>a, <4>1, <4>2 DEF Flushing
      <4> QED BY <4>3, <4>4 DEF Queued, Queue
    <3> QED BY <3>0, <3>a
  <2>3. adding' # <<>> => InHook("flush")'
    <3>1. at <= Len(before) => at \in DOMAIN before
      BY DEF Typing, TypeOK
    <3>2. \A k \in DOMAIN before : before'[k] = before[k]
      BY PublishKeeps
    <3> QED BY <1>1, <1>5, <3>1, <3>2 DEF Flushing, InHook, Current, Stages
  <2>4. (buffer # None => \E k \in at .. Len(before) : before[k].kind = "flush" /\ ~Started(k))'
    BY <1>5, PublishFlushHook
  <2> QED BY <1>2, <1>3, <1>5, <2>1, <2>2, <2>3, <2>4 DEF Flushing
<1> QED BY <1>4, <1>5

\* A step of the pass that is not the flush hook taking the buffer leaves the
\* flush hook that is to come.
LEMMA FlushHookStays ==
  ASSUME Typing, Flushing, pc = "before", UNCHANGED <<before, buffer>>, at <= Len(before),
         \/ at' = at + 1 /\ ~busy' /\ (busy \/ Current.kind # "flush")
         \/ UNCHANGED at /\ (~busy' \/ Current.kind # "flush")
  PROVE  (buffer # None => \E k \in at .. Len(before) : before[k].kind = "flush" /\ ~Started(k))'
<1> SUFFICES ASSUME buffer # None
             PROVE  \E k \in at' .. Len(before) : before[k].kind = "flush" /\ ~Started(k)'
  BY DEF Started
<1>1. PICK k \in at .. Len(before) : before[k].kind = "flush" /\ ~Started(k)
  BY DEF Flushing, active
<1>2. at \in Nat /\ Len(before) \in Nat /\ k \in Nat
  BY DEF Typing, TypeOK
<1>3. CASE at' = at + 1 /\ ~busy' /\ (busy \/ Current.kind # "flush")
  <2>1. k # at
    BY <1>1, <1>3 DEF Started, Current
  <2>2. k \in at' .. Len(before) /\ ~(k < at')
    BY <1>1, <1>2, <1>3, <2>1
  <2> QED BY <1>1, <1>3, <2>2 DEF Started
<1>4. CASE UNCHANGED at /\ (~busy' \/ Current.kind # "flush")
  BY <1>1, <1>2, <1>4 DEF Started, Current
<1> QED BY <1>3, <1>4

LEMMA FlushAddsQueue ==
  ASSUME Typing, FlushAdds
  PROVE  Queue(rows)' = Queue(rows) /\ rows' \in Seq(Events)
<1>1. PICK h : h = Head(adding)
  OBVIOUS
<1>2. PICK t : t = Tail(adding)
  OBVIOUS
<1>3. PICK b : b = InBuffer
  OBVIOUS
<1>4. PICK r : r = rows
  OBVIOUS
<1>5. PICK a : a = adding
  OBVIOUS
<1>6. rows' = Append(r, h) /\ adding' = t /\ InBuffer' = b
  BY <1>1, <1>2, <1>3, <1>4 DEF FlushAdds, Add, InBuffer
<1>7. a \in Seq(Events) /\ b \in Seq(Events) /\ r \in Seq(Events) /\ a # <<>> /\ h = Head(a) /\ t = Tail(a)
  BY <1>1, <1>2, <1>3, <1>4, <1>5, QueueType DEF FlushAdds
<1>8. h \in Events /\ t \in Seq(Events) /\ <<h>> \in Seq(Events) /\ t \o b \in Seq(Events)
  <2>1. h \in Events /\ t \in Seq(Events)
    BY <1>7, HeadTailProperties
  <2> QED BY <1>7, <2>1, ConcatProperties
<1>9. a = <<h>> \o t
  <2>1. Len(t) = Len(a) - 1 /\ (\A i \in 1 .. Len(t) : t[i] = a[i + 1]) /\ h = a[1] /\ Len(a) \in Nat \ {0}
    BY <1>7, HeadTailProperties, EmptySeq
  <2>2. /\ <<h>> \o t \in Seq(Events) /\ Len(<<h>> \o t) = 1 + Len(t)
        /\ \A i \in 1 .. 1 + Len(t) : (<<h>> \o t)[i] = IF i <= 1 THEN <<h>>[i] ELSE t[i - 1]
    BY <1>8, ConcatProperties
  <2>3. PICK u : u = <<h>> \o t
    OBVIOUS
  <2>4. Len(a) = Len(u) /\ \A i \in 1 .. Len(a) : a[i] = u[i]
    BY <2>1, <2>2, <2>3
  <2> QED BY <1>7, <2>2, <2>3, <2>4, SeqEqual
<1>10. Append(r, h) \in Seq(Events) /\ Append(r, h) = r \o <<h>>
  BY <1>7, <1>8, AppendIsConcat, AppendProperties
<1>11. (r \o <<h>>) \o (t \o b) = r \o (<<h>> \o (t \o b))
  <2>1. \A x, y, z \in Seq(Events) : (x \o y) \o z = x \o (y \o z)
    BY ConcatAssociative
  <2>2. r \in Seq(Events) /\ <<h>> \in Seq(Events) /\ t \o b \in Seq(Events)
    BY <1>7, <1>8
  <2>3. PICK y : y = <<h>>
    OBVIOUS
  <2>4. PICK z : z = t \o b
    OBVIOUS
  <2>5. (r \o y) \o z = r \o (y \o z)
    BY <2>1, <2>2, <2>3, <2>4
  <2> QED BY <2>3, <2>4, <2>5
<1>12. <<h>> \o (t \o b) = (<<h>> \o t) \o b
  BY <1>7, <1>8, ConcatAssociative
<1>13. Queue(rows)' = Append(r, h) \o (t \o b)
  BY <1>6 DEF Queue
<1>14. Queue(rows) = r \o (a \o b)
  BY <1>3, <1>4, <1>5 DEF Queue
<1> QED BY <1>6, <1>9, <1>10, <1>11, <1>12, <1>13, <1>14

LEMMA FlushTakesQueue ==
  ASSUME Typing, FlushTakes, adding = <<>>, NEW r \in Seq(Events)
  PROVE  Queue(r)' = Queue(r)
<1>1. PICK b : b = InBuffer
  OBVIOUS
<1>2. adding' = b /\ InBuffer' = <<>> /\ b \in Seq(Events)
  BY <1>1, QueueType DEF FlushTakes, InBuffer
<1>3. b \o <<>> = b /\ <<>> \o b = b
  BY <1>2, ConcatEmptySeq
<1> QED BY <1>1, <1>2, <1>3 DEF Queue

LEMMA FlushingStep == FreshEvents /\ Typing /\ Stages /\ Flushing /\ [Next]_vars => Flushing'
<1> DEFINE queue == <<scheduled, published, direct, rows, saved, adding, buffer>>
<1>1. ASSUME Flushing, UNCHANGED <<pc, failed, before, at, busy, queue>> PROVE Flushing'
  BY <1>1 DEF Flushing, Queued, Queue, InBuffer, InHook, Current, Started, active, OutboxComplete
<1> SUFFICES ASSUME FreshEvents, Typing, Stages, Flushing, Next PROVE Flushing'
  BY <1>1 DEF vars, txVars, history
<1>2. ASSUME UNCHANGED queue
      PROVE  /\ Queued(rows, direct)' = Queued(rows, direct)
             /\ (saved # None => Queued(saved.rows, saved.direct) /\ saved.direct \subseteq direct)' =
                (saved # None => Queued(saved.rows, saved.direct) /\ saved.direct \subseteq direct)
             /\ (Range(published) \subseteq scheduled)'
             /\ OutboxComplete' = OutboxComplete
  BY <1>2 DEF Flushing, Queued, Queue, InBuffer, OutboxComplete
<1>3. ASSUME NEW e \in Events, NEW store, Publish(e, store) PROVE Flushing'
  BY <1>3, PublishFlushing
<1>4. ASSUME NEW e \in Events, PublishOnOutbox(e) PROVE Flushing'
  <2>1. /\ UNCHANGED <<pc, failed, before, at, busy, scheduled, published, saved, adding, buffer>> /\ active
        /\ rows' = Append(rows, e) /\ direct' = direct \cup {e} /\ e \notin direct /\ e \notin scheduled
    BY <1>4 DEF PublishOnOutbox, Add
  <2>2. e \notin Range(published)
    BY <2>1 DEF Flushing
  <2>3. Complete(rows \o (adding \o InBuffer), published, direct) /\ direct \cap Range(published) = {}
    BY <2>1 DEF Flushing, Queued, Queue
  <2>4. Complete(Append(rows, e) \o (adding \o InBuffer), published, direct \cup {e})
    BY <2>1, <2>2, <2>3, QueueType, CompleteInsert
  <2>5. Queued(rows, direct)'
    BY <2>1, <2>2, <2>3, <2>4 DEF Queued, Queue, InBuffer
  <2>6. (saved # None => Queued(saved.rows, saved.direct) /\ saved.direct \subseteq direct)'
    BY <2>1 DEF Flushing, Queued, Queue, InBuffer
  <2> QED BY <2>1, <2>5, <2>6 DEF Flushing, InHook, Current, Started, active
<1>5. ASSUME NEW e \in Events, PromiseSettles(e) PROVE Flushing'
  BY <1>1, <1>5 DEF PromiseSettles, txVars, history
<1>6. ASSUME NEW d \in detached, DetachedEnds(d) PROVE Flushing'
  BY <1>1, <1>6 DEF DetachedEnds, txVars, history
<1>7. \A s, p : DOMAIN s = {} /\ DOMAIN p = {} => Complete(s, p, {})
  BY DEF Complete, IsInjective, Range
<1>8. ASSUME rows' = <<>> /\ adding' = <<>> /\ buffer' = None /\ published' = <<>> /\ direct' = {} /\ saved' = None
      PROVE  Flushing' \/ ~active'
  <2>1. Queue(rows)' = <<>>
    BY <1>8, ConcatEmptySeq, EmptySeq DEF Queue, InBuffer
  <2>2. Queued(rows, direct)'
    BY <1>7, <1>8, <2>1 DEF Queued
  <2>3. Range(published') = {}
    BY <1>8 DEF Range
  <2> QED BY <1>8, <2>2, <2>3 DEF Flushing
<1>9. CASE Begin
  <2>1. UNCHANGED <<rows, adding, buffer, published, direct, saved>> /\ pc = "outside" /\ active'
    BY <1>9 DEF Begin, txVars, history, active
  <2> QED BY <1>8, <2>1 DEF Stages, InHook
<1>10. CASE FnReturns
  <2>1. UNCHANGED <<failed, before, at, busy, queue>> /\ pc = "body" /\ pc' = "before" /\ active /\ active' /\ adding = <<>>
    BY <1>10 DEF FnReturns, Stages, txVars, active
  <2> QED BY <1>2, <2>1 DEF Flushing, Started
<1>11. ASSUME active, Throw(Rules) PROVE Flushing'
  <2>1. UNCHANGED queue /\ failed' /\ ~active'
    BY <1>11, RulesAssumption DEF Throw, active, history
  <2> QED BY <1>2, <2>1 DEF Flushing
<1>12. CASE Nested
  <2>1. UNCHANGED <<pc, failed, before, at, busy, scheduled, published, direct, rows, adding, buffer>> /\ active
        /\ saved'.rows = rows /\ saved'.direct = direct
    BY <1>12 DEF Nested, history
  <2>2. Queued(rows, direct)'
    BY <2>1 DEF Flushing, Queued, Queue, InBuffer
  <2>3. (saved # None => Queued(saved.rows, saved.direct) /\ saved.direct \subseteq direct)'
    BY <2>1, <2>2 DEF Queued, Queue
  <2> QED BY <2>1, <2>2, <2>3 DEF Flushing, InHook, Current, Started, active
<1>13. CASE NestedReturns
  <2>1. UNCHANGED <<pc, failed, before, at, busy, scheduled, published, direct, rows, adding, buffer>> /\ active /\ saved' = None
    BY <1>13 DEF NestedReturns, Stages, InHook, active, history
  <2>2. Queued(rows, direct)'
    BY <2>1 DEF Flushing, Queued, Queue, InBuffer
  <2> QED BY <2>1, <2>2 DEF Flushing, InHook, Current, Started, active
<1>14. CASE NestedThrows
  <2>1. UNCHANGED <<pc, failed, before, at, busy, scheduled, published, adding, buffer>> /\ active /\ saved # None /\ saved' = None
        /\ rows' = saved.rows /\ direct' = saved.direct
    BY <1>14 DEF NestedThrows, Stages, InHook, active
  <2>2. Queued(rows, direct)'
    BY <2>1 DEF Flushing, Queued, Queue, InBuffer
  <2> QED BY <2>1, <2>2 DEF Flushing, InHook, Current, Started, active
<1>15. ASSUME pc = "before", UNCHANGED <<pc, before, queue>>, at <= Len(before), adding = <<>>,
              \/ at' = at + 1 /\ ~busy' /\ (busy \/ Current.kind # "flush")
              \/ UNCHANGED at /\ (~busy' \/ Current.kind # "flush")
       PROVE  Flushing'
  <2>1. (buffer # None => \E k \in at .. Len(before) : before[k].kind = "flush" /\ ~Started(k))'
    BY <1>15, FlushHookStays
  <2>2. active /\ active'
    BY <1>15 DEF active
  <2> QED BY <1>2, <1>15, <2>1, <2>2 DEF Flushing
<1>16. pc = "before" /\ ~InHook("flush") => adding = <<>>
  BY DEF Flushing, active
<1>17. CASE ListenerStarts
  <2>1. pc = "before" /\ UNCHANGED <<pc, before, queue>> /\ at <= Len(before) /\ ~busy /\ Current.kind # "flush"
    BY <1>17 DEF ListenerStarts, history
  <2> QED BY <1>15, <1>16, <1>17, <2>1 DEF ListenerStarts, NextHook, InHook
<1>18. CASE DrainTakes
  <2>1. pc = "before" /\ UNCHANGED <<pc, before, queue>> /\ at <= Len(before) /\ ~busy /\ Current.kind # "flush"
    BY <1>18 DEF DrainTakes, history
  <2> QED BY <1>15, <1>16, <1>18, <2>1 DEF DrainTakes, NextHook, InHook
<1>19. CASE ListenerReturns \/ DrainResumes
  <2>1. pc = "before" /\ UNCHANGED <<pc, before, queue>> /\ at <= Len(before) /\ busy /\ Current.kind # "flush"
    BY <1>19 DEF ListenerReturns, DrainResumes, Stages, InHook, history
  <2> QED BY <1>15, <1>16, <1>19, <2>1 DEF ListenerReturns, DrainResumes, NextHook, InHook
<1>20. CASE FlushReturns
  <2>1. pc = "before" /\ UNCHANGED <<pc, before, queue>> /\ at <= Len(before) /\ busy /\ adding = <<>>
    BY <1>20 DEF FlushReturns, Stages, InHook, history
  <2> QED BY <1>15, <1>20, <2>1 DEF FlushReturns, NextHook
<1>21. CASE FlushTakes
  <2>1. /\ UNCHANGED <<pc, failed, before, at, scheduled, published, direct, rows, saved>> /\ pc = "before" /\ buffer' = None
        /\ busy' /\ Current.kind = "flush" /\ adding = <<>> /\ active /\ active'
    BY <1>16, <1>21 DEF FlushTakes, InHook, history, active
  <2>2. Queued(rows, direct)'
    <3>1. PICK r : r = rows
      OBVIOUS
    <3>2. Queue(r)' = Queue(r)
      BY <1>21, <2>1, <3>1, FlushTakesQueue, QueueType
    <3> QED BY <2>1, <3>1, <3>2 DEF Flushing, Queued, Queue
  <2>3. (saved # None => Queued(saved.rows, saved.direct) /\ saved.direct \subseteq direct)'
    <3>1. CASE saved = None
      BY <2>1, <3>1
    <3>2. CASE saved # None
      <4>1. PICK r : r = saved.rows
        OBVIOUS
      <4>2. Queue(r)' = Queue(r)
        BY <1>21, <2>1, <3>2, <4>1, FlushTakesQueue, QueueType
      <4> QED BY <2>1, <3>2, <4>1, <4>2 DEF Flushing, Queued, Queue
    <3> QED BY <3>1, <3>2
  <2>4. InHook("flush")'
    BY <2>1 DEF InHook, Current
  <2> QED BY <2>1, <2>2, <2>3, <2>4 DEF Flushing
<1>22. CASE FlushAdds
  <2>1. /\ UNCHANGED <<pc, failed, before, at, busy, scheduled, published, direct, saved, buffer>> /\ active /\ active'
        /\ InHook("flush")
    BY <1>22 DEF FlushAdds, InHook, history, active
  <2>2. saved = None
    BY <2>1 DEF Stages, InHook
  <2>3. Queued(rows, direct)'
    BY <1>22, <2>1, FlushAddsQueue DEF Flushing, Queued
  <2> QED BY <2>1, <2>2, <2>3 DEF Flushing, InHook, Current, Started
<1>23. CASE PassEnds
  <2>1. UNCHANGED queue /\ active /\ ~active' /\ adding = <<>> /\ at > Len(before)
    BY <1>16, <1>23 DEF PassEnds, InHook, active, txVars, history
  <2>2. buffer = None
    BY <2>1 DEF Flushing, Typing, TypeOK
  <2>3. Queue(rows) = rows
    BY <2>1, <2>2, QueueType, ConcatEmptySeq, EmptySeq DEF Queue, InBuffer
  <2>4. OutboxComplete
    BY <2>1, <2>3 DEF Flushing, Queued, OutboxComplete
  <2> QED BY <1>2, <2>1, <2>4 DEF Flushing
<1>24. CASE Commit \/ AfterEnds \/ Settle
  <2>1. UNCHANGED <<queue, failed>> /\ ~active /\ ~active' /\ pc # "outside"
    BY <1>24 DEF Commit, AfterEnds, Settle, active, txVars, history
  <2> QED BY <1>2, <2>1 DEF Flushing
<1>25. CASE Rollback
  BY <1>25 DEF Rollback, Flushing, active, history
<1>26. ASSUME NEW j \in Jobs, AfterListener(j) PROVE Flushing'
  BY <1>1, <1>26 DEF AfterListener, history
<1>27. CASE Notify \/ Quiescent
  BY <1>1, <1>27 DEF Notify, Quiescent, vars, txVars, history
<1>28. CASE Retry
  <2>1. saved = None
    BY <1>28 DEF Retry, Stages, InHook
  <2> QED BY <1>8, <1>28, <2>1 DEF Retry, active
<1> HIDE DEF queue
<1> QED BY <1>3, <1>4, <1>5, <1>6, <1>9, <1>10, <1>11, <1>12, <1>13, <1>14, <1>17, <1>18, <1>19, <1>20, <1>21, <1>22,
           <1>23, <1>24, <1>25, <1>26, <1>27, <1>28
        DEF Next, Step, PublishOnBus, DetachedPublishes, FnThrows, ListenerThrows, DrainFails, FlushFails, InHook, active

\* The transactional outbox: an attempt that publishes event objects of its own
\* and succeeds has every externalized one in the outbox, once and in order,
\* whether it arrived in the body, in a savepoint that was kept or undone, in a
\* before-commit hook or during the flush itself.
THEOREM OutboxIsComplete == ASSUME FreshEvents PROVE Spec => []OutboxMatchesPublications
<1>1. Init => Flushing
  BY DEF Init, Flushing, active, Range
<1>2. Flushing => OutboxMatchesPublications
  BY DEF Flushing, OutboxMatchesPublications, Ended, active
<1>3. FreshEvents => (Typing /\ Stages /\ Flushing /\ [Next]_vars => Flushing')
  BY FlushingStep
<1> QED BY <1>1, <1>2, <1>3, Staged, PTL DEF Spec
===============================================================================
