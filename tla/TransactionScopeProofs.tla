------------------------ MODULE TransactionScopeProofs ------------------------
(***************************************************************************)
(* In awaited programs the shared Map of active transactions is a          *)
(* lexically scoped environment.  The proof shows first what a step of one *)
(* call does and leaves alone (StepEffect, RunEffect), then that such an   *)
(* effect preserves each part of IInv.                                     *)
(***************************************************************************)
EXTENDS TransactionManagerProofs

\* What a call sees and where it may be depends on its own state only.
LEMMA Locality ==
  ASSUME NEW d \in Calls, call'[d] = call[d], pc'[d] = pc[d], attempt'[d] = attempt[d]
  PROVE  /\ Own(d)' = Own(d) /\ Key(d)' = Key(d) /\ Active(d)' = Active(d)
         /\ ScopeOf(d)' = ScopeOf(d) /\ Inside(d)' = Inside(d) /\ KindPCs(d)' = KindPCs(d)
BY DEF Own, Key, Active, ScopeOf, Inside, KindPCs

LEMMA LocalUserCode ==
  ASSUME NEW d \in Calls, pc'[d] = pc[d], attempt'[d] = attempt[d],
         ran'[Own(d)] = ran[Own(d)], hooks'[Own(d)] = hooks[Own(d)]
  PROVE  UserCode(d)' = UserCode(d)
BY DEF UserCode, Own

\* Two active calls in control have different stores.
LEMMA OneInControl ==
  ASSUME ChainInv, NEW c \in Calls, NEW d \in Calls, c # d,
         InControl(c), InControl(d), ScopeOf(c) # None
  PROVE  ScopeOf(c) # ScopeOf(d)
BY DEF ChainInv, InControl

\* A call that waits for nobody has no active descendant in its store.
LEMMA NoDescendant ==
  ASSUME TypeOK, ChainInv, NEW c \in Calls, InControl(c), NEW d \in Calls, Active(d),
         ScopeOf(c) # None, ScopeOf(d) = ScopeOf(c), call[c].level < call[d].level
  PROVE  FALSE
<1>1. call[c].level \in Nat /\ call[d].level \in Nat
  BY DEF TypeOK, Frames
<1> QED BY <1>1 DEF ChainInv, InControl

\* A step of a call is taken while that call is in control.
LEMMA StepControl ==
  ASSUME IInv, ~Concurrent, NEW c \in Calls, Step(c)
  PROVE  InControl(c)
<1>1. \A d \in Calls : Active(d) /\ call[d].parent = c => UserCode(c)
  BY NoneAssumption DEF IInv, ParentInv
<1>2. CASE FnReturns(c) \/ FnThrows(c) \/ BeforeCommitThrows(c) \/ HookDone(c)
  BY <1>2 DEF FnReturns, FnThrows, BeforeCommitThrows, HookDone, MayRun
<1>3. CASE BeforeCommitDone(c) \/ AfterCommitDone(c) \/ AfterRollbackDone(c)
  BY <1>1, <1>3 DEF BeforeCommitDone, AfterCommitDone, AfterRollbackDone, InControl, Active
<1>4. CASE \/ Begin(c) \/ BeginFails(c) \/ Commit(c) \/ CommitFails(c) \/ Rollback(c)
           \/ Retry(c) \/ GiveUpOrReturn(c) \/ Restore(c)
           \/ Savepoint(c) \/ Release(c) \/ RollbackTo(c)
  <2>1. pc[c] \in {"begin", "commit", "rollback", "attemptEnd", "restore",
                   "savepoint", "release", "rollbackTo"}
    BY <1>4 DEF Begin, BeginFails, Commit, CommitFails, Rollback, Retry, GiveUpOrReturn,
                Restore, Savepoint, Release, RollbackTo
  <2>2. ~UserCode(c) /\ Active(c)
    BY <2>1 DEF UserCode, Phases, Active
  <2> QED BY <1>1, <2>2 DEF InControl
<1> QED BY <1>2, <1>3, <1>4 DEF Step

-------------------------------------------------------------------------------
(* The effect of a step of c, as seen by the rest of the proof. *)

\* c goes on in the same attempt and sees the Map it must see.
Stays(c) ==
  /\ attempt' = attempt
  /\ pc'[c] \in KindPCs(c)
  /\ pc'[c] = "restore" => call[c].saved # None
  /\ ScopeOf(c) # None => context'[ScopeOf(c)].at = Inside(c)'
  /\ call[c].kind = "new" /\ pc'[c] \in {"body", "beforeCommit", "commit", "rollback"}
       => status'[Own(c)] = "open"

\* c settles, and its caller finds the Map as it was.
Leaves(c) ==
  /\ attempt' = attempt
  /\ pc'[c] = "done"
  /\ call[c].inherit # None => context'[call[c].inherit].at = call[c].entry
  /\ call[c].inherit = None => context' = context
  /\ call[c].kind = "new" => pc[c] \notin {"body", "beforeCommit"}

\* c starts its next attempt.
GoesAgain(c) ==
  /\ attempt' = [attempt EXCEPT ![c] = @ + 1]
  /\ pc[c] = "attemptEnd" /\ pc'[c] = "begin"
  /\ call[c].kind = "new" /\ context' = context

Effect(c) ==
  /\ call' = call
  /\ \A d \in Calls \ {c} : pc'[d] = pc[d]
  /\ \A s \in Stores : s # ScopeOf(c) => context'[s] = context[s]
  /\ \A t \in Tx : t # Own(c) => status'[t] = status[t] /\ ran'[t] = ran[t]
  /\ hooks' = hooks
  /\ Stays(c) \/ Leaves(c) \/ GoesAgain(c)

\* Facts about the call that takes a step, used for every action.
LEMMA ActiveFacts ==
  ASSUME IInv, NEW c \in Calls, InControl(c)
  PROVE  /\ call[c] \in Frames /\ Own(c) \in Tx /\ Key(c) \in Keys
         /\ ScopeOf(c) \in Stores \cup {None}
         /\ call[c].inherit # None => ScopeOf(c) = call[c].inherit
         /\ call[c].kind = "new" => ScopeOf(c) \in Stores
         /\ ScopeOf(c) # None => context[ScopeOf(c)].at = Inside(c)
         /\ ScopeOf(c) # None => context[ScopeOf(c)] \in Context!Maps
         /\ call[c].saved # None =>
              call[c].inherit # None /\ call[c].saved = call[c].entry[Key(c)]
         /\ call[c].kind = "savepoint" => call[c].saved = None
         /\ call[c].kind = "new" /\ call[c].inherit # None /\ call[c].saved = None
              => call[c].entry[Key(c)] = None
<1>1. Own(c) \in Tx /\ Key(c) \in Keys /\ ScopeOf(c) \in Stores \cup {None}
  BY HelperTypes DEF IInv
<1>2. call[c] \in Frames /\ (ScopeOf(c) # None => context[ScopeOf(c)] \in Context!Maps)
  BY <1>1 DEF IInv, TypeOK
<1>3. None \notin Tx
  BY NoneAssumption
<1> QED BY <1>1, <1>2, <1>3 DEF IInv, LexicalScope, FrameInv, InControl, ScopeOf, Stores

\* Settling without a suspended transaction to put back: the Map is as at entry.
LEMMA UnchangedLeaves ==
  ASSUME IInv, NEW c \in Calls, InControl(c), call[c].saved = None, call[c].inherit # None,
         call[c].kind = "new" => pc[c] \notin {"body", "beforeCommit"}
  PROVE  context[call[c].inherit].at = call[c].entry
<1>1. context[call[c].inherit].at = Inside(c)
  BY ActiveFacts
<1>2. call[c].kind \in {"direct", "new", "savepoint"} /\ call[c].entry \in [Keys -> Tx \cup {None}]
  BY ActiveFacts DEF Frames
<1>3. CASE call[c].kind = "new"
  <2>1. Inside(c) = [call[c].entry EXCEPT ![Key(c)] = None]
    BY <1>3 DEF Inside
  <2>2. call[c].entry[Key(c)] = None
    BY <1>3, ActiveFacts
  <2> QED BY <1>1, <1>2, <2>1, <2>2
<1>4. CASE call[c].kind # "new"
  BY <1>1, <1>4 DEF Inside
<1> QED BY <1>3, <1>4

\* Finish: the call either waits for its `finally` or has left.
LEMMA FinishEffect ==
  ASSUME IInv, NEW c \in Calls, InControl(c), Finish(c),
         call' = call, attempt' = attempt, context' = context,
         call[c].kind = "new" => pc[c] \notin {"body", "beforeCommit"}
  PROVE  Stays(c) \/ Leaves(c)
<1>1. CASE call[c].saved # None
  <2>1. pc'[c] = "restore"
    BY <1>1 DEF Finish, IInv, TypeOK
  <2>2. call[c].kind \in {"direct", "new"}
    BY <1>1, ActiveFacts DEF Frames
  <2>3. Inside(c)' = Inside(c)
    BY <2>1, <2>2 DEF Inside, Key, Own
  <2> QED BY <1>1, <2>1, <2>2, <2>3, ActiveFacts DEF Stays, KindPCs
<1>2. CASE call[c].saved = None
  <2>1. pc'[c] = "done"
    BY <1>2 DEF Finish, IInv, TypeOK
  <2> QED BY <1>2, <2>1, UnchangedLeaves DEF Leaves
<1> QED BY <1>1, <1>2

\* A move within the library that leaves the Map and the attempt alone.
LEMMA GotoEffect ==
  ASSUME IInv, NEW c \in Calls, InControl(c), NEW l \in KindPCs(c), Goto(c, l), l # "restore",
         call' = call, attempt' = attempt, context' = context,
         call[c].kind = "new" =>
           /\ l \in {"body", "beforeCommit"} <=> pc[c] \in {"body", "beforeCommit"}
           /\ l \in {"body", "beforeCommit", "commit", "rollback"} => status'[Own(c)] = "open"
  PROVE  Stays(c)
<1>1. pc'[c] = l
  BY DEF Goto, IInv, TypeOK
<1>2. Inside(c)' = Inside(c)
  BY <1>1 DEF Inside, Key, Own
<1> QED BY <1>1, <1>2, ActiveFacts DEF Stays

\* Leaving the body of a transaction takes its entry out of the Map.
LEMMA EndInnerEffect ==
  ASSUME IInv, NEW c \in Calls, InControl(c), call[c].kind = "new",
         pc[c] \in {"body", "beforeCommit"}, NEW l \in {"commit", "rollback"}, EndInner(c, l),
         call' = call, attempt' = attempt, status' = status
  PROVE  /\ Stays(c)
         /\ \A s \in Stores : s # ScopeOf(c) => context'[s] = context[s]
<1>1. pc'[c] = l
  BY DEF EndInner, Goto, IInv, TypeOK
<1>2. ScopeOf(c) \in Stores /\ Key(c) \in Keys /\ context[ScopeOf(c)] \in Context!Maps
      /\ context[ScopeOf(c)].at = Inside(c) /\ ScopeOf(c) # None
  BY ActiveFacts, NoneAssumption DEF Stores
<1>3. context' = [context EXCEPT ![ScopeOf(c)] = Context!removeActiveTransaction(@, Key(c))]
  BY DEF EndInner, RemoveActive
<1>4. /\ context'[ScopeOf(c)] = Context!removeActiveTransaction(context[ScopeOf(c)], Key(c))
      /\ \A s \in Stores : s # ScopeOf(c) => context'[s] = context[s]
  BY <1>2, <1>3 DEF IInv, TypeOK
<1>5. context'[ScopeOf(c)].at = [context[ScopeOf(c)].at EXCEPT ![Key(c)] = None]
  BY <1>2, <1>4, MapOperations
<1>6. Inside(c)' = [Inside(c) EXCEPT ![Key(c)] = None]
  BY <1>1 DEF Inside, Key, Own
<1>7. status'[Own(c)] = "open"
  BY DEF IInv, OpenInv
<1> QED BY <1>1, <1>2, <1>4, <1>5, <1>6, <1>7 DEF Stays, KindPCs

LEMMA BeginEffect ==
  ASSUME IInv, NEW c \in Calls, InControl(c), Begin(c)
  PROVE  Effect(c)
<1>1. call[c].kind = "new" /\ pc'[c] = "body"
  BY DEF Begin, Goto, IInv, TypeOK, FrameInv, InControl, KindPCs, Frames
<1>2. ScopeOf(c) \in Stores /\ Key(c) \in Keys /\ context[ScopeOf(c)] \in Context!Maps
      /\ context[ScopeOf(c)].at = Inside(c) /\ ScopeOf(c) # None /\ Own(c) \in Tx
  BY <1>1, ActiveFacts, NoneAssumption DEF Stores
<1>3. /\ context'[ScopeOf(c)] = Context!setActiveTransaction(context[ScopeOf(c)], Key(c), Own(c))
      /\ \A s \in Stores : s # ScopeOf(c) => context'[s] = context[s]
  BY <1>2 DEF Begin, SetActive, IInv, TypeOK
<1>4. context'[ScopeOf(c)].at = [Inside(c) EXCEPT ![Key(c)] = Own(c)]
  <2>1. Context!setActiveTransaction(context[ScopeOf(c)], Key(c), Own(c)).at
          = [context[ScopeOf(c)].at EXCEPT ![Key(c)] = Own(c)]
    BY DEF Context!setActiveTransaction
  <2> QED BY <1>2, <1>3, <2>1
<1>5. call' = call /\ attempt' = attempt
  BY DEF Begin
<1>6. Inside(c)' = [Inside(c) EXCEPT ![Key(c)] = Own(c)]
  BY <1>1, <1>5 DEF Inside, Key, Own, Begin
<1>7. Stays(c)
  BY <1>1, <1>2, <1>4, <1>5, <1>6 DEF Stays, KindPCs, Begin, IInv, TypeOK
<1> QED BY <1>3, <1>7 DEF Effect, Begin, Goto, IInv, TypeOK

LEMMA RestoreEffect ==
  ASSUME IInv, NEW c \in Calls, InControl(c), Restore(c)
  PROVE  Effect(c)
<1>1. call[c].saved # None /\ call[c].kind \in {"direct", "new"} /\ pc'[c] = "done"
  BY ActiveFacts DEF Restore, Goto, IInv, TypeOK, FrameInv, InControl, Frames
<1>2. /\ call[c].inherit # None /\ ScopeOf(c) = call[c].inherit /\ ScopeOf(c) \in Stores
      /\ call[c].saved = call[c].entry[Key(c)] /\ call[c].saved \in Tx /\ Key(c) \in Keys
      /\ context[ScopeOf(c)].at = Inside(c) /\ context[ScopeOf(c)] \in Context!Maps
      /\ call[c].entry \in [Keys -> Tx \cup {None}]
  BY <1>1, ActiveFacts DEF Frames
<1>3. Inside(c) = [call[c].entry EXCEPT ![Key(c)] = None]
  BY <1>1, <1>2 DEF Inside, Restore
<1>4. /\ context'[ScopeOf(c)] =
           Context!setActiveTransaction(context[ScopeOf(c)], Key(c), call[c].saved)
      /\ \A s \in Stores : s # ScopeOf(c) => context'[s] = context[s]
  BY <1>2 DEF Restore, SetActive, IInv, TypeOK
<1>5. context'[ScopeOf(c)].at = [Inside(c) EXCEPT ![Key(c)] = call[c].saved]
  <2>1. Context!setActiveTransaction(context[ScopeOf(c)], Key(c), call[c].saved).at
          = [context[ScopeOf(c)].at EXCEPT ![Key(c)] = call[c].saved]
    BY DEF Context!setActiveTransaction
  <2> QED BY <1>2, <1>4, <2>1
<1>6. context'[ScopeOf(c)].at = call[c].entry
  BY <1>2, <1>3, <1>5
<1>7. Leaves(c)
  BY <1>1, <1>2, <1>6 DEF Leaves, Restore
<1> QED BY <1>4, <1>7 DEF Effect, Restore, Goto, IInv, TypeOK

\* Every step of a call has the effect above.
LEMMA StepEffect ==
  ASSUME IInv, ~Concurrent, NEW c \in Calls, Step(c)
  PROVE  InControl(c) /\ Effect(c)
<1> USE DEF Phases
<1>0. InControl(c)
  BY StepControl
<1>K. /\ pc[c] \in KindPCs(c) /\ call[c].kind \in {"direct", "new", "savepoint"}
      /\ pc \in [Calls -> PCs] /\ Own(c) \in Tx
      /\ status \in [Tx -> {"none", "open", "committed", "rolledBack"}]
      /\ ran \in [Tx -> [Phases -> Nat]]
  BY <1>0, ActiveFacts DEF IInv, FrameInv, InControl, Frames, TypeOK
<1>O. call[c].kind = "new" /\ pc[c] \in {"body", "beforeCommit", "commit", "rollback"}
        => status[Own(c)] = "open"
  BY DEF IInv, OpenInv
<1>1. CASE Begin(c)
  BY <1>0, <1>1, BeginEffect
<1>2. CASE BeginFails(c)
  <2>1. Stays(c)
    BY <1>0, <1>K, <1>2, GotoEffect DEF BeginFails, KindPCs
  <2> QED BY <1>0, <1>K, <1>2, <2>1 DEF BeginFails, Goto, Effect
<1>3. CASE FnReturns(c)
  <2>1. Stays(c) \/ Leaves(c)
    <3>1. CASE call[c].kind = "direct"
      BY <1>0, <1>3, <3>1, FinishEffect DEF FnReturns
    <3>2. CASE call[c].kind = "savepoint"
      BY <1>0, <1>K, <1>3, <3>2, GotoEffect DEF FnReturns, KindPCs
    <3>3. CASE call[c].kind = "new"
      BY <1>0, <1>K, <1>O, <1>3, <3>3, GotoEffect DEF FnReturns, KindPCs
    <3> QED BY <1>0, <1>K, <3>1, <3>2, <3>3
  <2> QED BY <1>0, <1>K, <1>3, <2>1 DEF FnReturns, Goto, Finish, Effect
<1>4. CASE FnThrows(c)
  <2> PICK e \in Thrown(c) :
        \/ call[c].kind = "direct" /\ Settle(c, e) /\ UNCHANGED context
        \/ call[c].kind = "new" /\ InnerThrows(c, e)
        \/ /\ call[c].kind = "savepoint"
           /\ err' = [err EXCEPT ![c] = e]
           /\ Goto(c, IF shouldRollback(e, call[c].opt) THEN "rollbackTo" ELSE "release")
           /\ UNCHANGED context
    BY <1>4 DEF FnThrows
  <2>1. CASE call[c].kind = "direct" /\ Settle(c, e) /\ UNCHANGED context
    <3>1. Stays(c) \/ Leaves(c)
      BY <1>0, <1>4, <2>1, FinishEffect DEF FnThrows, Settle
    <3> QED BY <1>0, <1>K, <1>4, <2>1, <3>1 DEF FnThrows, Settle, Finish, Effect
  <2>2. CASE call[c].kind = "new" /\ InnerThrows(c, e)
    <3>1. Stays(c) /\ \A s \in Stores : s # ScopeOf(c) => context'[s] = context[s]
      BY <1>0, <1>4, <2>2, EndInnerEffect DEF FnThrows, InnerThrows
    <3> QED BY <1>0, <1>K, <1>4, <2>2, <3>1 DEF FnThrows, InnerThrows, EndInner, Goto, Effect
  <2>3. CASE /\ call[c].kind = "savepoint"
             /\ Goto(c, IF shouldRollback(e, call[c].opt) THEN "rollbackTo" ELSE "release")
             /\ UNCHANGED context
    <3>1. Stays(c)
      BY <1>0, <1>K, <1>4, <2>3, GotoEffect DEF FnThrows, KindPCs
    <3> QED BY <1>0, <1>K, <1>4, <2>3, <3>1 DEF FnThrows, Goto, Effect
  <2> QED BY <2>1, <2>2, <2>3
<1>5. CASE BeforeCommitThrows(c)
  <2>1. call[c].kind = "new"
    BY <1>K, <1>5 DEF BeforeCommitThrows, KindPCs
  <2>2. PICK e \in Thrown(c) : InnerThrows(c, e)
    BY <1>5 DEF BeforeCommitThrows
  <2>3. Stays(c) /\ \A s \in Stores : s # ScopeOf(c) => context'[s] = context[s]
    BY <1>0, <1>5, <2>1, <2>2, EndInnerEffect DEF BeforeCommitThrows, InnerThrows
  <2> QED BY <1>0, <1>K, <1>5, <2>2, <2>3 DEF BeforeCommitThrows, InnerThrows, EndInner, Goto, Effect
<1>6. CASE BeforeCommitDone(c)
  <2>1. call[c].kind = "new"
    BY <1>K, <1>6 DEF BeforeCommitDone, KindPCs
  <2>2. Stays(c) /\ \A s \in Stores : s # ScopeOf(c) => context'[s] = context[s]
    BY <1>0, <1>6, <2>1, EndInnerEffect DEF BeforeCommitDone
  <2> QED BY <1>0, <1>K, <1>6, <2>2 DEF BeforeCommitDone, EndInner, Goto, Effect
<1>7. CASE HookDone(c)
  <2>1. Inside(c)' = Inside(c) /\ pc' = pc /\ call' = call /\ attempt' = attempt /\ context' = context
    BY <1>7 DEF HookDone, Inside, Key, Own
  <2>2. Stays(c)
    BY <1>0, <1>K, <1>O, <1>7, <2>1, ActiveFacts DEF HookDone, Stays
  <2>3. \A t \in Tx : t # Own(c) => ran'[t] = ran[t]
    BY <1>K, <1>7 DEF HookDone
  <2> QED BY <1>0, <1>7, <2>1, <2>2, <2>3 DEF HookDone, Effect
<1>8. CASE Commit(c) \/ CommitFails(c) \/ Rollback(c)
  <2>1. Stays(c)
    BY <1>0, <1>K, <1>8, GotoEffect DEF Commit, CommitFails, Rollback, KindPCs
  <2> QED BY <1>0, <1>K, <1>8, <2>1 DEF Commit, CommitFails, Rollback, Goto, Effect
<1>9. CASE AfterCommitDone(c) \/ AfterRollbackDone(c)
  <2>1. Stays(c)
    BY <1>0, <1>K, <1>9, GotoEffect DEF AfterCommitDone, AfterRollbackDone, KindPCs
  <2> QED BY <1>0, <1>K, <1>9, <2>1 DEF AfterCommitDone, AfterRollbackDone, Goto, Effect
<1>10. CASE Retry(c)
  <2>1. GoesAgain(c)
    BY <1>K, <1>10 DEF Retry, Goto, GoesAgain, KindPCs
  <2> QED BY <1>0, <1>K, <1>10, <2>1 DEF Retry, Goto, Effect
<1>11. CASE GiveUpOrReturn(c)
  <2>1. Stays(c) \/ Leaves(c)
    BY <1>0, <1>K, <1>11, FinishEffect DEF GiveUpOrReturn
  <2> QED BY <1>0, <1>K, <1>11, <2>1 DEF GiveUpOrReturn, Finish, Effect
<1>12. CASE Restore(c)
  BY <1>0, <1>12, RestoreEffect
<1>13. CASE Savepoint(c) \/ Release(c) \/ RollbackTo(c)
  <2>1. call[c].kind = "savepoint" /\ call' = call /\ attempt' = attempt /\ context' = context
    BY <1>K, <1>13 DEF Savepoint, Release, RollbackTo, KindPCs
  <2>2. Finish(c) \/ Goto(c, "body") \/ Goto(c, "rollbackTo")
    BY <1>13 DEF Savepoint, Release, RollbackTo, Settle
  <2>3. Stays(c) \/ Leaves(c)
    <3>1. CASE Finish(c)
      BY <1>0, <2>1, <3>1, FinishEffect
    <3>2. CASE Goto(c, "body") \/ Goto(c, "rollbackTo")
      BY <1>0, <2>1, <3>2, GotoEffect DEF KindPCs
    <3> QED BY <2>2, <3>1, <3>2
  <2> QED BY <1>0, <1>K, <1>13, <2>1, <2>2, <2>3 DEF Savepoint, Release, RollbackTo, Finish, Goto, Effect
<1> QED BY <1>0, <1>1, <1>2, <1>3, <1>4, <1>5, <1>6, <1>7, <1>8, <1>9, <1>10, <1>11, <1>12, <1>13
        DEF Step

-------------------------------------------------------------------------------
(* Such an effect preserves each part of the invariant. *)

\* What an effect of c leaves alone in the other calls, and what it makes of c.
LEMMA Frame ==
  ASSUME IInv, TypeOK', NEW c \in Calls, InControl(c), Effect(c)
  PROVE  /\ \A d \in Calls \ {c} :
              /\ pc'[d] = pc[d] /\ attempt'[d] = attempt[d] /\ Own(d)' = Own(d)
              /\ Active(d)' = Active(d) /\ ScopeOf(d)' = ScopeOf(d)
              /\ Inside(d)' = Inside(d) /\ KindPCs(d)' = KindPCs(d)
              /\ UserCode(d)' = UserCode(d) /\ status'[Own(d)] = status[Own(d)]
         /\ \A d \in Calls : Active(d) => call[d].parent # c
         /\ \A d \in Calls : Active(d)' => Active(d)
         /\ ~Active(c)' => Leaves(c)
         /\ call' = call /\ pc'[c] # "idle"
<1>1. /\ call' = call /\ \A d \in Calls \ {c} : pc'[d] = pc[d] /\ attempt'[d] = attempt[d]
      /\ \A d \in Calls : Active(d) => call[d].parent # c
      /\ Active(c)
  BY DEF Effect, Stays, Leaves, GoesAgain, InControl, IInv, TypeOK
<1>2. \A d \in Calls \ {c} : Own(d) \in Tx /\ Own(d) # Own(c)
  BY HelperTypes DEF Own, IInv
<1>3. ASSUME NEW d \in Calls \ {c}
      PROVE  /\ Own(d)' = Own(d) /\ Active(d)' = Active(d) /\ ScopeOf(d)' = ScopeOf(d)
             /\ Inside(d)' = Inside(d) /\ KindPCs(d)' = KindPCs(d)
             /\ UserCode(d)' = UserCode(d) /\ status'[Own(d)] = status[Own(d)]
  <2>1. ran'[Own(d)] = ran[Own(d)] /\ hooks'[Own(d)] = hooks[Own(d)] /\ status'[Own(d)] = status[Own(d)]
    BY <1>2 DEF Effect
  <2>2. call'[d] = call[d] /\ pc'[d] = pc[d] /\ attempt'[d] = attempt[d]
    BY <1>1
  <2> QED BY <2>1, <2>2, Locality, LocalUserCode
<1>4. pc'[c] # "idle" /\ (~Active(c)' => Leaves(c))
  <2>1. CASE Stays(c)
    BY <2>1 DEF Stays, KindPCs, Phases, Active
  <2>2. CASE Leaves(c)
    BY <2>2 DEF Leaves
  <2>3. CASE GoesAgain(c)
    BY <2>3 DEF GoesAgain, Active
  <2> QED BY <2>1, <2>2, <2>3 DEF Effect
<1>5. \A d \in Calls : Active(d)' => Active(d)
  BY <1>1, <1>3
<1> QED BY <1>1, <1>3, <1>4, <1>5

\* c keeps its store, unless it starts the next attempt of an outermost call.
LEMMA ScopeKept ==
  ASSUME IInv, TypeOK', NEW c \in Calls, InControl(c), Effect(c)
  PROVE  \/ ScopeOf(c)' = ScopeOf(c)
         \/ /\ GoesAgain(c) /\ call[c].inherit = None /\ ScopeOf(c)' = <<c, attempt[c] + 1>>
            /\ attempt[c] + 1 \in Attempts /\ attempt[c] \in Nat
<1>1. attempt[c] \in Nat /\ attempt'[c] \in Attempts
  BY DEF IInv, TypeOK, Attempts
<1>2. CASE Stays(c) \/ Leaves(c)
  BY <1>2 DEF Stays, Leaves, Effect, ScopeOf, Own
<1>3. CASE GoesAgain(c)
  <2>1. attempt'[c] = attempt[c] + 1 /\ call' = call /\ call[c].kind = "new"
    BY <1>3 DEF GoesAgain, Effect, IInv, TypeOK
  <2> QED BY <1>1, <1>3, <2>1 DEF ScopeOf, Own
<1> QED BY <1>2, <1>3 DEF Effect

LEMMA FrameKept ==
  ASSUME IInv, TypeOK', NEW c \in Calls, InControl(c), Effect(c)
  PROVE  FrameInv' /\ IdleInv'
<1>1. IdleInv'
  BY Frame DEF IInv, IdleInv
<1>2. ASSUME NEW d \in Calls, Active(d)'
      PROVE  /\ pc'[d] \in KindPCs(d)
             /\ pc'[d] = "restore" => call[d].saved # None
  <2>1. CASE d # c
    BY <1>2, <2>1, Frame DEF IInv, FrameInv
  <2>2. CASE d = c
    <3>1. CASE Stays(c)
      BY <2>2, <3>1 DEF Stays
    <3>2. CASE Leaves(c)
      BY <1>2, <2>2, <3>2 DEF Leaves, Active
    <3>3. CASE GoesAgain(c)
      BY <2>2, <3>3 DEF GoesAgain, KindPCs
    <3> QED BY <3>1, <3>2, <3>3 DEF Effect
  <2> QED BY <2>1, <2>2
<1>3. call' = call /\ \A d \in Calls : Active(d)' => Active(d)
  BY Frame
<1>4. \A d \in Calls : KindPCs(d)' = KindPCs(d) /\ Key(d)' = Key(d)
  BY <1>3 DEF KindPCs, Key
<1> QED BY <1>1, <1>2, <1>3, <1>4 DEF IInv, FrameInv

LEMMA ParentKept ==
  ASSUME IInv, TypeOK', NEW c \in Calls, InControl(c), Effect(c)
  PROVE  ParentInv'
<1>1. call' = call /\ \A d \in Calls : Active(d)' => Active(d) /\ call[d].parent # c
  BY Frame
<1>2. \A q \in Calls \ {c} : /\ UserCode(q)' = UserCode(q) /\ ScopeOf(q)' = ScopeOf(q)
                             /\ Inside(q)' = Inside(q)
  BY Frame
<1> QED BY <1>1, <1>2 DEF IInv, ParentInv

\* A caller that waits for an inner call of its store goes on waiting for it.
LEMMA KeepsWaiting ==
  ASSUME IInv, TypeOK', NEW c \in Calls, InControl(c), Effect(c), NEW d \in Calls, NEW e \in Calls,
         Active(d)', Active(e)', d # e, ScopeOf(d) # None, ScopeOf(e) = ScopeOf(d),
         call[d].level < call[e].level, ~InControl(d)
  PROVE  ~InControl(d)'
<1>1. PICK x \in Calls : Active(x) /\ call[x].parent = d
  BY Frame DEF InControl
<1>2. CASE Active(x)'
  BY <1>1, <1>2, Frame DEF InControl
<1>3. CASE ~Active(x)'
  <2>1. x = c
    BY <1>1, <1>3, Frame
  <2>2. call[c].level = call[d].level + 1 /\ call[c].inherit = ScopeOf(d)
    BY <1>1, <2>1, NoneAssumption DEF IInv, ParentInv
  <2>3. e # c /\ Active(e)
    BY <1>3, <2>1, Frame
  <2>4. ScopeOf(c) = ScopeOf(e)
    BY <2>2 DEF ScopeOf
  <2>5. call[c].level \in Nat /\ call[d].level \in Nat /\ call[e].level \in Nat
    BY DEF IInv, TypeOK, Frames
  <2>6. call[e].level < call[c].level
    BY <2>3, <2>4 DEF IInv, ChainInv, InControl
  <2> QED BY <2>2, <2>5, <2>6
<1> QED BY <1>2, <1>3

LEMMA ChainKept ==
  ASSUME IInv, TypeOK', NEW c \in Calls, InControl(c), Effect(c)
  PROVE  ChainInv'
<1>1. SUFFICES ASSUME NEW d \in Calls, NEW e \in Calls, Active(d)', Active(e)', d # e,
                      ScopeOf(d)' # None, ScopeOf(d)' = ScopeOf(e)'
               PROVE  \/ call[d].level < call[e].level /\ ~InControl(d)'
                      \/ call[e].level < call[d].level /\ ~InControl(e)'
  BY Frame DEF ChainInv
<1>2. Active(d) /\ Active(e)
  BY <1>1, Frame
<1>3. ASSUME NEW x \in Calls \ {c}, Active(x), GoesAgain(c), call[c].inherit = None,
             attempt[c] \in Nat, attempt[c] + 1 \in Attempts
      PROVE  ScopeOf(x) # <<c, attempt[c] + 1>>
  <2>1. CASE call[x].inherit # None
    <3>1. Own(call[x].inherit[1]) = call[x].inherit
      BY <1>3, <2>1 DEF IInv, StoreInv, TypeOK, Frames, Stores, Tx
    <3> QED BY <1>3, <2>1, <3>1 DEF ScopeOf, Own
  <2>2. CASE call[x].inherit = None
    BY <1>3, <2>2, NoneAssumption DEF ScopeOf, Own, Tx
  <2> QED BY <2>1, <2>2
<1>4. ScopeOf(d) # None /\ ScopeOf(e) = ScopeOf(d)
  BY <1>1, <1>2, <1>3, Frame, ScopeKept
<1>5. \/ call[d].level < call[e].level /\ ~InControl(d)
      \/ call[e].level < call[d].level /\ ~InControl(e)
  BY <1>1, <1>2, <1>4 DEF IInv, ChainInv
<1> QED BY <1>1, <1>4, <1>5, KeepsWaiting

LEMMA StoreKept ==
  ASSUME IInv, TypeOK', NEW c \in Calls, InControl(c), Effect(c)
  PROVE  StoreInv'
<1>1. ASSUME NEW d \in Calls, NEW e \in Calls, Active(d)', call[d].inherit # None,
             e = call[d].inherit[1]
      PROVE  /\ Active(e)' /\ call[e].kind = "new" /\ call[e].inherit = None
             /\ Own(e)' = call[d].inherit /\ call[e].level < call[d].level
  <2>1. Active(d)
    BY <1>1, Frame
  <2>2. /\ Active(e) /\ call[e].kind = "new" /\ call[e].inherit = None
        /\ Own(e) = call[d].inherit /\ call[e].level < call[d].level
    BY <1>1, <2>1 DEF IInv, StoreInv
  <2>3. ScopeOf(e) = call[d].inherit /\ ScopeOf(d) = call[d].inherit
    BY <1>1, <2>2 DEF ScopeOf
  <2>4. e # c
    BY <1>1, <2>1, <2>2, <2>3, NoDescendant DEF IInv
  <2> QED BY <2>2, <2>4, Frame
<1>2. ASSUME NEW x \in Calls, NEW a \in Attempts, pc'[x] = "idle" \/ a > attempt'[x]
      PROVE  context'[<<x, a>>].at = Context!EmptyMap.at
  <2>1. pc[x] = "idle" \/ a > attempt[x]
    <3>1. CASE x # c
      BY <1>2, <3>1, Frame
    <3>2. CASE x = c
      <4>1. attempt'[c] = attempt[c] \/ attempt'[c] = attempt[c] + 1
        BY DEF Effect, Stays, Leaves, GoesAgain, IInv, TypeOK
      <4>2. a > attempt'[c] /\ a \in Nat /\ attempt[c] \in Nat
        BY <1>2, <3>2, Frame DEF IInv, TypeOK, Attempts
      <4> QED BY <3>2, <4>1, <4>2
    <3> QED BY <3>1, <3>2
  <2>2. \A y \in Calls : Active(y) => <<x, a>> # Own(y)
    BY <2>1 DEF Active, Own, IInv, TypeOK, Attempts
  <2>3. <<x, a>> # ScopeOf(c)
    <3>1. CASE call[c].inherit # None
      <4>1. /\ call[c].inherit[1] \in Calls /\ Active(call[c].inherit[1])
            /\ Own(call[c].inherit[1]) = call[c].inherit
        BY <3>1 DEF IInv, StoreInv, InControl, TypeOK, Frames, Stores, Tx
      <4> QED BY <2>2, <3>1, <4>1 DEF ScopeOf
    <3>2. CASE call[c].inherit = None
      BY <2>2, <3>2, NoneAssumption DEF ScopeOf, InControl, Tx
    <3> QED BY <3>1, <3>2
  <2>4. <<x, a>> \in Stores
    BY DEF Stores, Tx
  <2> QED BY <2>1, <2>3, <2>4 DEF Effect, IInv, StoreInv
<1>3. call' = call /\ Context!EmptyMap' = Context!EmptyMap
  BY Frame DEF Context!EmptyMap
<1> QED BY <1>1, <1>2, <1>3 DEF StoreInv

LEMMA OpenKept ==
  ASSUME IInv, TypeOK', NEW c \in Calls, InControl(c), Effect(c)
  PROVE  OpenInv'
<1>1. ASSUME NEW d \in Calls, call[d].kind = "new",
             pc'[d] \in {"body", "beforeCommit", "commit", "rollback"}
      PROVE  status'[Own(d)'] = "open"
  <2>1. CASE d # c
    BY <1>1, <2>1, Frame DEF IInv, OpenInv
  <2>2. CASE d = c
    <3>1. Stays(c)
      BY <1>1, <2>2 DEF Effect, Leaves, GoesAgain
    <3>2. Own(c)' = Own(c)
      BY <3>1 DEF Stays, Own
    <3> QED BY <1>1, <2>2, <3>1, <3>2 DEF Stays
  <2> QED BY <2>1, <2>2
<1>2. ASSUME NEW d \in Calls, NEW o \in Calls, NEW k \in Keys, Active(d)', call[d].inherit # None,
             call[d].entry[k] # None, o = call[d].entry[k][1]
      PROVE  /\ call[o].kind = "new" /\ pc'[o] \in {"body", "beforeCommit"}
             /\ Own(o)' = call[d].entry[k] /\ ScopeOf(o)' = call[d].inherit
             /\ call[o].level < call[d].level
  <2>1. Active(d)
    BY <1>2, Frame
  <2>2. /\ call[o].kind = "new" /\ pc[o] \in {"body", "beforeCommit"}
        /\ Own(o) = call[d].entry[k] /\ ScopeOf(o) = call[d].inherit
        /\ call[o].level < call[d].level
    BY <1>2, <2>1 DEF IInv, OpenInv
  <2>3. o # c
    BY <1>2, <2>1, <2>2, NoDescendant DEF IInv, ScopeOf
  <2> QED BY <2>2, <2>3, Frame
<1> QED BY <1>1, <1>2, Frame DEF OpenInv

\* What c must see is what its caller saw, but for the entry of its own transaction.
OwnOrInherited ==
  \A c \in Calls, k \in Keys : Inside(c)[k] # None =>
    \/ /\ call[c].kind = "new" /\ pc[c] \in {"body", "beforeCommit"}
       /\ Inside(c)[k] = Own(c)
    \/ call[c].inherit # None /\ Inside(c)[k] = call[c].entry[k]

LEMMA InsideEntries == TypeOK => OwnOrInherited
<1> SUFFICES ASSUME TypeOK, NEW c \in Calls, NEW k \in Keys, Inside(c)[k] # None
             PROVE  \/ /\ call[c].kind = "new" /\ pc[c] \in {"body", "beforeCommit"}
                       /\ Inside(c)[k] = Own(c)
                    \/ call[c].inherit # None /\ Inside(c)[k] = call[c].entry[k]
  BY DEF OwnOrInherited
<1> DEFINE base == IF call[c].inherit = None THEN Context!EmptyMap.at ELSE call[c].entry
<1>1. call[c].entry \in [Keys -> Tx \cup {None}]
  BY DEF TypeOK, Frames
<1>2. base \in [Keys -> Tx \cup {None}] /\ (call[c].inherit = None => base[k] = None)
  BY <1>1, EmptyMapType
<1>3. \/ Inside(c) = base
      \/ Inside(c) = [base EXCEPT ![Key(c)] = None]
      \/ /\ Inside(c) = [base EXCEPT ![Key(c)] = Own(c)]
         /\ call[c].kind = "new" /\ pc[c] \in {"body", "beforeCommit"}
  BY DEF Inside
<1>4. call[c].inherit # None => base = call[c].entry
  OBVIOUS
<1> HIDE DEF base
<1> QED BY <1>2, <1>3, <1>4

LEMMA InsideEntriesNext == TypeOK' => OwnOrInherited'
BY InsideEntries, PTL

LEMMA MapKept ==
  ASSUME IInv, TypeOK', NEW c \in Calls, InControl(c), Effect(c)
  PROVE  MapInv'
<1>1. SUFFICES ASSUME NEW s \in Stores, NEW k \in Keys, NEW o \in Calls,
                      context'[s].at[k] # None, o = context'[s].at[k][1]
               PROVE  /\ call[o].kind = "new" /\ pc'[o] \in {"body", "beforeCommit"}
                      /\ Own(o)' = context'[s].at[k] /\ ScopeOf(o)' = s
  BY Frame DEF MapInv
<1>2. CASE context'[s].at[k] = context[s].at[k] /\ (ScopeOf(c) # s \/ Leaves(c) \/ GoesAgain(c))
  <2>1. /\ call[o].kind = "new" /\ pc[o] \in {"body", "beforeCommit"}
        /\ Own(o) = context'[s].at[k] /\ ScopeOf(o) = s
    BY <1>1, <1>2 DEF IInv, MapInv
  <2>2. o # c
    BY <1>2, <2>1 DEF Leaves, GoesAgain
  <2> QED BY <2>1, <2>2, Frame
<1>3. CASE ScopeOf(c) # s
  BY <1>2, <1>3 DEF Effect
<1>4. CASE ScopeOf(c) = s /\ Stays(c)
  <2>1. s # None /\ ScopeOf(c)' = s /\ context'[s].at = Inside(c)' /\ Own(c)' = Own(c)
    BY <1>4, NoneAssumption DEF Stays, Effect, ScopeOf, Own, Stores
  <2>2. \/ /\ call'[c].kind = "new" /\ pc'[c] \in {"body", "beforeCommit"}
           /\ context'[s].at[k] = Own(c)
        \/ call'[c].inherit # None /\ context'[s].at[k] = call'[c].entry[k]
    <3>1. Inside(c)'[k] # None
      BY <1>1, <2>1
    <3>2. \/ /\ call'[c].kind = "new" /\ pc'[c] \in {"body", "beforeCommit"}
             /\ Inside(c)'[k] = Own(c)'
          \/ call'[c].inherit # None /\ Inside(c)'[k] = call'[c].entry[k]
      BY <3>1, InsideEntriesNext DEF OwnOrInherited
    <3> QED BY <2>1, <3>2
  <2>3. CASE /\ call'[c].kind = "new" /\ pc'[c] \in {"body", "beforeCommit"}
             /\ context'[s].at[k] = Own(c)
    <3>1. o = c
      BY <1>1, <2>3 DEF Own
    <3> QED BY <1>1, <2>1, <2>3, <3>1, Frame
  <2>4. CASE call'[c].inherit # None /\ context'[s].at[k] = call'[c].entry[k]
    <3>1. call[c].inherit = s /\ call[c].entry[k] # None /\ o = call[c].entry[k][1] /\ Active(c)
      BY <1>1, <1>4, <2>4, Frame DEF ScopeOf, InControl
    <3>2. /\ call[o].kind = "new" /\ pc[o] \in {"body", "beforeCommit"}
          /\ Own(o) = call[c].entry[k] /\ ScopeOf(o) = s /\ call[o].level < call[c].level
      BY <2>1, <3>1 DEF IInv, OpenInv
    <3>3. o # c
      BY <3>2 DEF IInv, TypeOK, Frames
    <3> QED BY <2>4, <3>2, <3>3, Frame
  <2> QED BY <2>2, <2>3, <2>4
<1>5. CASE ScopeOf(c) = s /\ Leaves(c) /\ call[c].inherit # None
  <2>1. /\ call[c].inherit = s /\ context'[s].at = call[c].entry /\ Active(c)
        /\ s # None
    BY <1>5 DEF ScopeOf, Leaves, InControl
  <2>2. /\ call[o].kind = "new" /\ pc[o] \in {"body", "beforeCommit"}
        /\ Own(o) = call[c].entry[k] /\ ScopeOf(o) = s /\ call[o].level < call[c].level
    BY <1>1, <2>1 DEF IInv, OpenInv
  <2>3. o # c
    BY <2>2 DEF IInv, TypeOK, Frames
  <2> QED BY <2>1, <2>2, <2>3, Frame
<1>6. CASE (Leaves(c) /\ call[c].inherit = None) \/ GoesAgain(c)
  BY <1>2, <1>6 DEF Leaves, GoesAgain
<1> QED BY <1>3, <1>4, <1>5, <1>6 DEF Effect

LEMMA ScopeRestored ==
  ASSUME IInv, TypeOK', NEW c \in Calls, InControl(c), Effect(c)
  PROVE  LexicalScope'
<1>1. SUFFICES ASSUME NEW d \in Calls, InControl(d)', ScopeOf(d)' # None
               PROVE  context'[ScopeOf(d)'].at = Inside(d)'
  BY DEF LexicalScope
<1>2. CASE d = c
  <2>1. CASE Stays(c)
    <3>1. ScopeOf(c)' = ScopeOf(c)
      BY <2>1 DEF Stays, Effect, ScopeOf, Own
    <3> QED BY <1>1, <1>2, <2>1, <3>1 DEF Stays
  <2>2. CASE Leaves(c)
    BY <1>1, <1>2, <2>2 DEF Leaves, InControl, Active
  <2>3. CASE GoesAgain(c)
    <3>1. /\ call' = call /\ context' = context /\ call[c].kind = "new"
          /\ pc[c] = "attemptEnd" /\ pc'[c] = "begin"
      BY <2>3 DEF GoesAgain, Effect
    <3>2. CASE ScopeOf(c)' = ScopeOf(c)
      <4>1. Inside(c)' = Inside(c)
        BY <3>1 DEF Inside, Key
      <4> QED BY <1>1, <1>2, <3>1, <3>2, <4>1, ActiveFacts
    <3>3. CASE ScopeOf(c)' # ScopeOf(c)
      <4>1. /\ call[c].inherit = None /\ ScopeOf(c)' = <<c, attempt[c] + 1>>
            /\ attempt[c] + 1 \in Attempts /\ attempt[c] \in Nat
        BY <3>3, ScopeKept
      <4>2. context[<<c, attempt[c] + 1>>].at = Context!EmptyMap.at
        BY <4>1 DEF IInv, StoreInv
      <4>3. Inside(c)' = [Context!EmptyMap.at EXCEPT ![Key(c)] = None]
        BY <3>1, <4>1 DEF Inside, Key
      <4>4. Key(c) \in Keys
        BY ActiveFacts
      <4> QED BY <1>2, <3>1, <4>1, <4>2, <4>3, <4>4, EmptyMapType
    <3> QED BY <3>2, <3>3
  <2> QED BY <2>1, <2>2, <2>3 DEF Effect
<1>3. CASE d # c
  <2>1. ScopeOf(d)' = ScopeOf(d) /\ Inside(d)' = Inside(d) /\ Active(d) /\ call' = call
    BY <1>1, <1>3, Frame DEF InControl
  <2>2. ScopeOf(d) \in Stores
    BY <1>1, <2>1, HelperTypes DEF IInv
  <2>3. CASE InControl(d)
    <3>1. ScopeOf(d) # ScopeOf(c)
      BY <1>1, <1>3, <2>1, <2>3, OneInControl DEF IInv
    <3> QED BY <1>1, <2>1, <2>2, <2>3, <3>1 DEF Effect, IInv, LexicalScope
  <2>4. CASE ~InControl(d)
    <3>1. PICK x \in Calls : Active(x) /\ call[x].parent = d
      BY <2>1, <2>4 DEF InControl
    <3>2. ~Active(x)'
      BY <1>1, <2>1, <3>1 DEF InControl
    <3>3. x = c /\ Leaves(c)
      BY <3>1, <3>2, Frame
    <3>4. call[c].inherit = ScopeOf(d) /\ call[c].entry = Inside(d)
      BY <1>1, <2>1, <3>1, <3>3, NoneAssumption DEF IInv, ParentInv
    <3> QED BY <1>1, <2>1, <3>3, <3>4 DEF Leaves
  <2> QED BY <2>3, <2>4
<1> QED BY <1>2, <1>3

-------------------------------------------------------------------------------
(* The effect of run(): user code of p invokes c. *)

\* c is under way, and sees its caller's Map with the suspended entry taken out.
Enters(c, s) ==
  /\ pc'[c] \in {"body", "begin", "savepoint", "restore"} /\ pc'[c] \in KindPCs(c)'
  /\ \A t \in Stores : t # s => context'[t] = context[t]
  /\ s # None => context'[s].at = Inside(c)'
  /\ call'[c].saved # None => s # None /\ call'[c].saved = call'[c].entry[call'[c].opt.key]
  /\ pc'[c] = "restore" => call'[c].saved # None
  /\ call'[c].kind = "savepoint" => call'[c].saved = None
  /\ call'[c].kind = "direct" => s # None \/ call'[c].saved = None
  /\ call'[c].kind = "new" => pc'[c] \in {"begin", "restore"}
  /\ call'[c].kind = "new" /\ s # None /\ call'[c].saved = None
       => call'[c].entry[call'[c].opt.key] = None

Arrival(p, c) ==
  /\ pc[c] = "idle" /\ \A d \in Calls \ {c} : pc'[d] = pc[d] /\ call'[d] = call[d]
  /\ p # None => UserCode(p) /\ InControl(p)
  /\ call'[c].parent = p /\ call'[c].inherit = CallerScope(p)
  /\ p # None => call'[c].level = call[p].level + 1
  /\ CallerScope(p) # None => call'[c].entry = context[CallerScope(p)].at
  /\ attempt' = attempt /\ status' = status /\ hooks' = hooks /\ ran' = ran
  /\ Enters(c, CallerScope(p)) \/ (pc'[c] = "done" /\ context' = context)

LEMMA CallerFacts ==
  ASSUME TypeOK, NEW p \in Calls \cup {None}, NEW o \in Options
  PROVE  /\ CallerScope(p) \in Stores \cup {None} /\ o.key \in Keys
         /\ CallerScope(p) # None => context[CallerScope(p)] \in Context!Maps
         /\ CallerScope(p) # None => context[CallerScope(p)].at \in [Keys -> Tx \cup {None}]
         /\ Existing(p, o) # None =>
              CallerScope(p) # None /\ Existing(p, o) = context[CallerScope(p)].at[o.key]
         /\ CallerScope(p) # None /\ Existing(p, o) = None
              => context[CallerScope(p)].at[o.key] = None
<1>1. CallerScope(p) \in Stores \cup {None}
  BY HelperTypes DEF CallerScope
<1>2. o.key \in Keys
  BY OptionsAssumption DEF OptionRecords
<1>3. CallerScope(p) # None => /\ context[CallerScope(p)] \in Context!Maps
                               /\ context[CallerScope(p)].at \in [Keys -> Tx \cup {None}]
  BY <1>1 DEF TypeOK, Context!Maps
<1> QED BY <1>1, <1>2, <1>3 DEF Existing, Context!getActiveTransaction

LEMMA InvokeEffect ==
  ASSUME TypeOK, ~Concurrent, NEW p \in Calls \cup {None}, NEW c \in Calls, NEW o \in Options,
         NEW kind, NEW saved, MayInvoke(p, c), Invoke(p, c, o, kind, saved)
  PROVE  /\ pc[c] = "idle" /\ \A d \in Calls \ {c} : call'[d] = call[d]
         /\ p # None => UserCode(p) /\ InControl(p)
         /\ call'[c].parent = p /\ call'[c].inherit = CallerScope(p)
         /\ call'[c].opt = o /\ call'[c].kind = kind /\ call'[c].saved = saved
         /\ p # None => call'[c].level = call[p].level + 1
         /\ CallerScope(p) # None => call'[c].entry = context[CallerScope(p)].at
         /\ attempt' = attempt /\ status' = status /\ hooks' = hooks /\ ran' = ran
<1>1. call'[c] =
       [parent |-> p, during |-> IF p = None THEN 1 ELSE attempt[p],
        level |-> IF p = None THEN 0 ELSE call[p].level + 1,
        opt |-> o, kind |-> kind, inherit |-> CallerScope(p), saved |-> saved,
        entry |-> IF CallerScope(p) = None THEN Context!EmptyMap.at
                  ELSE context[CallerScope(p)].at]
  BY DEF Invoke, TypeOK
<1>2. \A d \in Calls \ {c} : call'[d] = call[d]
  BY DEF Invoke, TypeOK
<1>3. p # None => UserCode(p) /\ InControl(p)
  BY DEF MayInvoke, MayRun
<1> QED BY <1>1, <1>2, <1>3 DEF MayInvoke, Invoke

\* Taking the suspended transaction out of the caller's Map.
LEMMA SuspendEffect ==
  ASSUME TypeOK, NEW s \in Stores, NEW k \in Keys, RemoveActive(s, k)
  PROVE  /\ context'[s].at = [context[s].at EXCEPT ![k] = None]
         /\ \A t \in Stores : t # s => context'[t] = context[t]
<1>1. /\ context'[s] = Context!removeActiveTransaction(context[s], k)
      /\ \A t \in Stores : t # s => context'[t] = context[t]
  BY DEF RemoveActive, TypeOK
<1>2. context[s] \in Context!Maps
  BY DEF TypeOK
<1>3. Context!removeActiveTransaction(context[s], k).at = [context[s].at EXCEPT ![k] = None]
  BY DEF Context!removeActiveTransaction
<1> QED BY <1>1, <1>3

LEMMA RunEffect ==
  ASSUME IInv, ~Concurrent, NEW p \in Calls \cup {None}, NEW c \in Calls, NEW o \in Options,
         Run(p, c, o)
  PROVE  Arrival(p, c)
<1> DEFINE s == CallerScope(p)
<1>0. TypeOK /\ pc \in [Calls -> PCs] /\ MayInvoke(p, c)
  BY DEF IInv, TypeOK, Run
<1>1. CASE RunDirect(p, c, o)
  <2>1. Invoke(p, c, o, "direct", None) /\ Goto(c, "body") /\ context' = context
    BY <1>1 DEF RunDirect
  <2>2. call'[c].kind = "direct" /\ call'[c].saved = None /\ call'[c].inherit = s
        /\ (s # None => call'[c].entry = context[s].at)
    BY <1>0, <2>1, InvokeEffect
  <2>3. pc'[c] = "body" /\ \A d \in Calls \ {c} : pc'[d] = pc[d]
    BY <1>0, <2>1 DEF Goto
  <2>4. s # None => Inside(c)' = context[s].at
    BY <2>2 DEF Inside
  <2>5. Enters(c, s)
    BY <2>1, <2>2, <2>3, <2>4 DEF Enters, KindPCs
  <2> QED BY <1>0, <2>1, <2>3, <2>5, InvokeEffect DEF Arrival
<1>2. CASE RunSuspended(p, c, o)
  <2>1. /\ Invoke(p, c, o, "direct", Existing(p, o)) /\ Goto(c, "body")
        /\ Existing(p, o) # None /\ RemoveActive(s, o.key)
    BY <1>2 DEF RunSuspended
  <2>2. /\ call'[c].kind = "direct" /\ call'[c].saved = Existing(p, o) /\ call'[c].inherit = s
        /\ call'[c].opt = o /\ (s # None => call'[c].entry = context[s].at)
    BY <1>0, <2>1, InvokeEffect
  <2>3. pc'[c] = "body" /\ \A d \in Calls \ {c} : pc'[d] = pc[d]
    BY <1>0, <2>1 DEF Goto
  <2>4. s \in Stores /\ s # None /\ o.key \in Keys /\ Existing(p, o) = context[s].at[o.key]
    BY <1>0, <2>1, CallerFacts
  <2>5. /\ context'[s].at = [context[s].at EXCEPT ![o.key] = None]
        /\ \A t \in Stores : t # s => context'[t] = context[t]
    BY <1>0, <2>1, <2>4, SuspendEffect
  <2>6. Inside(c)' = [context[s].at EXCEPT ![o.key] = None]
    BY <2>1, <2>2, <2>4 DEF Inside, Key
  <2>7. Enters(c, s)
    BY <2>1, <2>2, <2>3, <2>4, <2>5, <2>6 DEF Enters, KindPCs
  <2> QED BY <1>0, <2>1, <2>3, <2>7, InvokeEffect DEF Arrival
<1>3. CASE RunRefused(p, c, o)
  <2>1. Invoke(p, c, o, "direct", None) /\ Goto(c, "done") /\ context' = context
    BY <1>3 DEF RunRefused
  <2>2. pc'[c] = "done" /\ \A d \in Calls \ {c} : pc'[d] = pc[d]
    BY <1>0, <2>1 DEF Goto
  <2> QED BY <1>0, <2>1, <2>2, InvokeEffect DEF Arrival
<1>4. CASE RunNew(p, c, o)
  <2>1. /\ Invoke(p, c, o, "new", Existing(p, o))
        /\ IF Existing(p, o) # None THEN RemoveActive(s, o.key) ELSE UNCHANGED context
        /\ \/ Goto(c, "begin")
           \/ Goto(c, IF Existing(p, o) # None THEN "restore" ELSE "done")
    BY <1>4 DEF RunNew
  <2>2. /\ call'[c].kind = "new" /\ call'[c].saved = Existing(p, o) /\ call'[c].inherit = s
        /\ call'[c].opt = o /\ (s # None => call'[c].entry = context[s].at)
    BY <1>0, <2>1, InvokeEffect
  <2>3. /\ pc'[c] \in {"begin", "restore", "done"} /\ \A d \in Calls \ {c} : pc'[d] = pc[d]
        /\ pc'[c] = "restore" => Existing(p, o) # None
        /\ pc'[c] = "done" => Existing(p, o) = None
    BY <1>0, <2>1 DEF Goto
  <2>4. s # None => Inside(c)' = [context[s].at EXCEPT ![o.key] = None]
    BY <2>2, <2>3 DEF Inside, Key
  <2>5. CASE Existing(p, o) # None
    <3>1. s \in Stores /\ s # None /\ o.key \in Keys /\ Existing(p, o) = context[s].at[o.key]
      BY <1>0, <2>5, CallerFacts
    <3>2. /\ context'[s].at = [context[s].at EXCEPT ![o.key] = None]
          /\ \A t \in Stores : t # s => context'[t] = context[t]
      BY <1>0, <2>1, <2>5, <3>1, SuspendEffect
    <3>3. Enters(c, s)
      BY <2>2, <2>3, <2>4, <2>5, <3>1, <3>2 DEF Enters, KindPCs
    <3> QED BY <1>0, <2>1, <2>3, <3>3, InvokeEffect DEF Arrival
  <2>6. CASE Existing(p, o) = None
    <3>1. context' = context
      BY <2>1, <2>6
    <3>2. /\ s # None => context[s].at[o.key] = None /\ context[s].at \in [Keys -> Tx \cup {None}]
          /\ o.key \in Keys
      BY <1>0, <2>6, CallerFacts
    <3>3. s # None => [context[s].at EXCEPT ![o.key] = None] = context[s].at
      BY <3>2
    <3>4. CASE pc'[c] = "done"
      <4>1. Invoke(p, c, o, "new", Existing(p, o))
        BY <2>1
      <4>2. \A d \in Calls \ {c} : pc'[d] = pc[d]
        BY <2>3
      <4>3. /\ pc[c] = "idle" /\ \A d \in Calls \ {c} : call'[d] = call[d]
            /\ p # None => UserCode(p) /\ InControl(p)
            /\ call'[c].parent = p /\ call'[c].inherit = CallerScope(p)
            /\ p # None => call'[c].level = call[p].level + 1
            /\ CallerScope(p) # None => call'[c].entry = context[CallerScope(p)].at
            /\ attempt' = attempt /\ status' = status /\ hooks' = hooks /\ ran' = ran
        BY <1>0, <4>1, InvokeEffect
      <4> QED BY <3>1, <3>4, <4>2, <4>3 DEF Arrival
    <3>5. CASE pc'[c] = "begin"
      <4>1. Enters(c, s)
        BY <2>2, <2>4, <2>6, <3>1, <3>2, <3>3, <3>5 DEF Enters, KindPCs
      <4> QED BY <1>0, <2>1, <2>3, <4>1, InvokeEffect DEF Arrival
    <3> QED BY <2>3, <2>6, <3>4, <3>5
  <2> QED BY <2>5, <2>6
<1>5. CASE RunNested(p, c, o)
  <2>1. Invoke(p, c, o, "savepoint", None) /\ Goto(c, "savepoint") /\ context' = context
    BY <1>5 DEF RunNested
  <2>2. call'[c].kind = "savepoint" /\ call'[c].saved = None /\ call'[c].inherit = s
        /\ (s # None => call'[c].entry = context[s].at)
    BY <1>0, <2>1, InvokeEffect
  <2>3. pc'[c] = "savepoint" /\ \A d \in Calls \ {c} : pc'[d] = pc[d]
    BY <1>0, <2>1 DEF Goto
  <2>4. s # None => Inside(c)' = context[s].at
    BY <2>2 DEF Inside
  <2>5. Enters(c, s)
    BY <2>1, <2>2, <2>3, <2>4 DEF Enters, KindPCs
  <2> QED BY <1>0, <2>1, <2>3, <2>5, InvokeEffect DEF Arrival
<1> QED BY <1>1, <1>2, <1>3, <1>4, <1>5 DEF Run

-------------------------------------------------------------------------------
(* An arrival preserves each part of the invariant. *)

\* What the arrival of c leaves alone in the other calls.
LEMMA ArrivalFrame ==
  ASSUME IInv, NEW p \in Calls \cup {None}, NEW c \in Calls, Arrival(p, c)
  PROVE  /\ \A d \in Calls \ {c} :
              /\ pc'[d] = pc[d] /\ call'[d] = call[d] /\ Own(d)' = Own(d)
              /\ Active(d)' = Active(d) /\ ScopeOf(d)' = ScopeOf(d)
              /\ Inside(d)' = Inside(d) /\ KindPCs(d)' = KindPCs(d) /\ Key(d)' = Key(d)
              /\ UserCode(d)' = UserCode(d)
         /\ \A d \in Calls \ {c} : InControl(d)' => InControl(d) /\ (Active(c)' => d # p)
         /\ \A d \in Calls : Active(d) => call[d].parent # c
         /\ p # c /\ ~Active(c) /\ Own(c)' = Own(c)
         /\ Active(c)' => Enters(c, CallerScope(p))
         /\ ~Active(c)' => context' = context
<1>1. \A d \in Calls \ {c} : pc'[d] = pc[d] /\ call'[d] = call[d] /\ attempt'[d] = attempt[d]
  BY DEF Arrival
<1>2. ASSUME NEW d \in Calls \ {c}
      PROVE  /\ Own(d)' = Own(d) /\ Active(d)' = Active(d) /\ ScopeOf(d)' = ScopeOf(d)
             /\ Inside(d)' = Inside(d) /\ KindPCs(d)' = KindPCs(d) /\ Key(d)' = Key(d)
             /\ UserCode(d)' = UserCode(d)
  <2>1. ran'[Own(d)] = ran[Own(d)] /\ hooks'[Own(d)] = hooks[Own(d)]
    BY DEF Arrival
  <2> QED BY <1>1, <2>1, Locality, LocalUserCode
<1>3. pc[c] = "idle" /\ ~Active(c) /\ ~UserCode(c)
  BY DEF Arrival, Active, UserCode, Phases
<1>4. p # c
  BY <1>3, NoneAssumption DEF Arrival
<1>5. \A d \in Calls : Active(d) => call[d].parent # c
  BY <1>3, NoneAssumption DEF IInv, ParentInv
<1>6. \A d \in Calls \ {c} : InControl(d)' => InControl(d) /\ (Active(c)' => d # p)
  <2>1. SUFFICES ASSUME NEW d \in Calls \ {c}, InControl(d)'
                 PROVE  InControl(d) /\ (Active(c)' => d # p)
    OBVIOUS
  <2>2. Active(d) /\ \A x \in Calls \ {c} : Active(x) => call[x].parent # d
    BY <1>1, <1>2, <2>1 DEF InControl
  <2>3. Active(c)' => d # p
    BY <2>1 DEF InControl, Arrival
  <2> QED BY <1>3, <2>2, <2>3 DEF InControl
<1>7. (Active(c)' => Enters(c, CallerScope(p))) /\ (~Active(c)' => context' = context)
  BY DEF Arrival, Enters, Active
<1>8. Own(c)' = Own(c)
  BY DEF Arrival, Own
<1> QED BY <1>1, <1>2, <1>3, <1>4, <1>5, <1>6, <1>7, <1>8

\* The store that c inherits is installed by an active outer call.
LEMMA CallerStore ==
  ASSUME IInv, NEW p \in Calls, InControl(p), ScopeOf(p) # None
  PROVE  LET e == ScopeOf(p)[1]
         IN  /\ e \in Calls /\ Active(e) /\ call[e].kind = "new" /\ call[e].inherit = None
             /\ Own(e) = ScopeOf(p) /\ call[e].level <= call[p].level
<1>1. call[p].level \in Nat
  BY DEF IInv, TypeOK, Frames
<1>2. CASE call[p].inherit # None
  <2>1. ScopeOf(p) = call[p].inherit /\ call[p].inherit[1] \in Calls
    BY <1>2 DEF ScopeOf, IInv, TypeOK, Frames, Stores, Tx
  <2>2. /\ Active(ScopeOf(p)[1]) /\ call[ScopeOf(p)[1]].kind = "new"
        /\ call[ScopeOf(p)[1]].inherit = None
        /\ Own(ScopeOf(p)[1]) = ScopeOf(p) /\ call[ScopeOf(p)[1]].level < call[p].level
    BY <1>2, <2>1 DEF IInv, StoreInv, InControl
  <2>3. call[ScopeOf(p)[1]].level \in Nat
    BY <2>1 DEF IInv, TypeOK, Frames
  <2> QED BY <1>1, <2>1, <2>2, <2>3
<1>3. CASE call[p].inherit = None
  <2>1. ScopeOf(p) = Own(p) /\ call[p].kind = "new"
    BY <1>3 DEF ScopeOf
  <2>2. ScopeOf(p)[1] = p
    BY <2>1 DEF Own
  <2> QED BY <1>1, <1>3, <2>1, <2>2 DEF InControl
<1> QED BY <1>2, <1>3

LEMMA ArrivalFrames ==
  ASSUME IInv, NEW p \in Calls \cup {None}, NEW c \in Calls, Arrival(p, c)
  PROVE  FrameInv' /\ IdleInv'
<1>1. IdleInv'
  BY DEF IInv, IdleInv, Arrival
<1>2. ASSUME NEW d \in Calls, Active(d)'
      PROVE  /\ pc'[d] \in KindPCs(d)'
             /\ call'[d].saved # None
                  => call'[d].inherit # None /\ call'[d].saved = call'[d].entry[Key(d)']
             /\ pc'[d] = "restore" => call'[d].saved # None
             /\ call'[d].kind = "savepoint" => call'[d].saved = None
             /\ call'[d].kind = "new" /\ call'[d].inherit # None /\ call'[d].saved = None
                  => call'[d].entry[Key(d)'] = None
  <2>1. CASE d # c
    BY <1>2, <2>1, ArrivalFrame DEF IInv, FrameInv
  <2>2. CASE d = c
    BY <1>2, <2>2, ArrivalFrame DEF Enters, Arrival, Key
  <2> QED BY <2>1, <2>2
<1> QED BY <1>1, <1>2 DEF FrameInv

LEMMA ArrivalParent ==
  ASSUME IInv, NEW p \in Calls \cup {None}, NEW c \in Calls, Arrival(p, c)
  PROVE  ParentInv'
<1>1. ASSUME NEW d \in Calls, Active(d)', call'[d].parent = None
      PROVE  call'[d].inherit = None
  <2>1. CASE d # c
    BY <1>1, <2>1, ArrivalFrame DEF IInv, ParentInv
  <2>2. CASE d = c
    BY <1>1, <2>2 DEF Arrival, CallerScope
  <2> QED BY <2>1, <2>2
<1>2. ASSUME NEW d \in Calls, NEW q \in Calls, Active(d)', call'[d].parent = q
      PROVE  /\ UserCode(q)'
             /\ call'[d].level = call'[q].level + 1
             /\ call'[d].inherit = ScopeOf(q)'
             /\ call'[d].inherit # None => call'[d].entry = Inside(q)'
             /\ \A e \in Calls : Active(e)' /\ call'[e].parent = q => e = d
  <2>1. CASE d # c
    <3>1. Active(d) /\ call'[d] = call[d] /\ call[d].parent = q /\ q # c
      BY <1>2, <2>1, ArrivalFrame
    <3>2. /\ UserCode(q)' = UserCode(q) /\ call'[q] = call[q] /\ ScopeOf(q)' = ScopeOf(q)
          /\ Inside(q)' = Inside(q)
      BY <3>1, ArrivalFrame
    <3>3. /\ UserCode(q) /\ call[d].level = call[q].level + 1 /\ call[d].inherit = ScopeOf(q)
          /\ call[d].inherit # None => call[d].entry = Inside(q)
          /\ \A e \in Calls : Active(e) /\ call[e].parent = q => e = d
      BY <3>1 DEF IInv, ParentInv
    <3>4. ASSUME NEW e \in Calls, Active(e)', call'[e].parent = q
          PROVE  e = d
      <4>1. CASE e # c
        BY <3>3, <3>4, <4>1, ArrivalFrame
      <4>2. CASE e = c
        <5>1. p = q /\ InControl(p)
          BY <3>4, <4>2, NoneAssumption DEF Arrival
        <5> QED BY <3>1, <5>1 DEF InControl
      <4> QED BY <4>1, <4>2
    <3> QED BY <3>1, <3>2, <3>3, <3>4
  <2>2. CASE d = c
    <3>1. /\ p = q /\ q # c /\ UserCode(q) /\ InControl(q) /\ CallerScope(p) = ScopeOf(q)
          /\ call'[c].inherit = ScopeOf(q) /\ call'[c].level = call[q].level + 1
          /\ ScopeOf(q) # None => call'[c].entry = context[ScopeOf(q)].at
      BY <1>2, <2>2, ArrivalFrame, NoneAssumption DEF Arrival, CallerScope
    <3>2. /\ UserCode(q)' = UserCode(q) /\ call'[q] = call[q] /\ ScopeOf(q)' = ScopeOf(q)
          /\ Inside(q)' = Inside(q)
      <4>1. q \in Calls \ {c}
        BY <3>1
      <4> QED BY <4>1, ArrivalFrame
    <3>3. ScopeOf(q) # None => call'[c].entry = Inside(q)
      BY <3>1 DEF IInv, LexicalScope
    <3>4. ASSUME NEW e \in Calls, Active(e)', call'[e].parent = q
          PROVE  e = c
      BY <3>1, <3>4, ArrivalFrame DEF InControl
    <3> QED BY <2>2, <3>1, <3>2, <3>3, <3>4
  <2> QED BY <2>1, <2>2
<1> QED BY <1>1, <1>2 DEF ParentInv

\* In the new call's store, every other active call is an outer one and waits.
LEMMA OuterWait ==
  ASSUME IInv, NEW p \in Calls \cup {None}, NEW c \in Calls, Arrival(p, c), Active(c)',
         NEW d \in Calls \ {c}, Active(d), ScopeOf(c)' # None, ScopeOf(d) = ScopeOf(c)'
  PROVE  call'[d].level < call'[c].level /\ ~InControl(d)'
<1>1. CASE call'[c].inherit = None
  <2>1. ScopeOf(d) = Own(c) /\ Own(c) = <<c, attempt[c]>>
    BY <1>1, ArrivalFrame DEF ScopeOf, Own
  <2>2. CASE call[d].inherit # None
    BY <2>1, <2>2, ArrivalFrame DEF IInv, StoreInv, ScopeOf
  <2>3. CASE call[d].inherit = None
    BY <2>1, <2>3, NoneAssumption, HelperTypes DEF ScopeOf, Own, IInv
  <2> QED BY <2>2, <2>3
<1>2. CASE call'[c].inherit # None
  <2>1. p \in Calls \ {c} /\ p # None /\ InControl(p) /\ ScopeOf(p) # None /\ ScopeOf(c)' = ScopeOf(p)
        /\ call'[c].level = call[p].level + 1
    BY <1>2, ArrivalFrame DEF Arrival, CallerScope, ScopeOf
  <2>2. call[p].level \in Nat /\ call[d].level \in Nat /\ call'[d].level = call[d].level
    BY <2>1, ArrivalFrame DEF IInv, TypeOK, Frames
  <2>3. CASE d = p
    BY <2>1, <2>2, <2>3, ArrivalFrame
  <2>4. CASE d # p
    <3>1. call[d].level < call[p].level /\ ~InControl(d)
      BY <2>1, <2>4 DEF IInv, ChainInv, InControl
    <3> QED BY <2>1, <2>2, <3>1, ArrivalFrame
  <2> QED BY <2>3, <2>4
<1> QED BY <1>1, <1>2

LEMMA ArrivalChain ==
  ASSUME IInv, NEW p \in Calls \cup {None}, NEW c \in Calls, Arrival(p, c)
  PROVE  ChainInv'
<1>1. SUFFICES ASSUME NEW d \in Calls, NEW e \in Calls, Active(d)', Active(e)', d # e,
                      ScopeOf(d)' # None, ScopeOf(d)' = ScopeOf(e)'
               PROVE  \/ call'[d].level < call'[e].level /\ ~InControl(d)'
                      \/ call'[e].level < call'[d].level /\ ~InControl(e)'
  BY DEF ChainInv
<1>2. CASE d # c /\ e # c
  <2>1. \/ call[d].level < call[e].level /\ ~InControl(d)
        \/ call[e].level < call[d].level /\ ~InControl(e)
    BY <1>1, <1>2, ArrivalFrame DEF IInv, ChainInv
  <2> QED BY <1>2, <2>1, ArrivalFrame
<1>3. CASE d = c
  <2>1. e \in Calls \ {c} /\ Active(e) /\ ScopeOf(e) = ScopeOf(c)'
    BY <1>1, <1>3, ArrivalFrame
  <2> QED BY <1>1, <1>3, <2>1, OuterWait
<1>4. CASE e = c
  <2>1. d \in Calls \ {c} /\ Active(d) /\ ScopeOf(d) = ScopeOf(c)'
    BY <1>1, <1>4, ArrivalFrame
  <2> QED BY <1>1, <1>4, <2>1, OuterWait
<1> QED BY <1>2, <1>3, <1>4

LEMMA ArrivalStore ==
  ASSUME IInv, NEW p \in Calls \cup {None}, NEW c \in Calls, Arrival(p, c)
  PROVE  StoreInv'
<1>1. ASSUME NEW d \in Calls, NEW e \in Calls, Active(d)', call'[d].inherit # None,
             e = call'[d].inherit[1]
      PROVE  /\ Active(e)' /\ call'[e].kind = "new" /\ call'[e].inherit = None
             /\ Own(e)' = call'[d].inherit /\ call'[e].level < call'[d].level
  <2>1. CASE d # c
    <3>1. Active(d) /\ call'[d] = call[d] /\ call[d].inherit # None /\ e = call[d].inherit[1]
      BY <1>1, <2>1, ArrivalFrame
    <3>2. /\ Active(e) /\ call[e].kind = "new" /\ call[e].inherit = None
          /\ Own(e) = call[d].inherit /\ call[e].level < call[d].level
      BY <3>1 DEF IInv, StoreInv
    <3> QED BY <3>1, <3>2, ArrivalFrame
  <2>2. CASE d = c
    <3>1. /\ p \in Calls \ {c} /\ InControl(p) /\ ScopeOf(p) # None
          /\ call'[c].inherit = ScopeOf(p) /\ call'[c].level = call[p].level + 1
      BY <1>1, <2>2, ArrivalFrame DEF Arrival, CallerScope
    <3>2. /\ e = ScopeOf(p)[1] /\ Active(e) /\ call[e].kind = "new" /\ call[e].inherit = None
          /\ Own(e) = ScopeOf(p) /\ call[e].level <= call[p].level
      BY <1>1, <2>2, <3>1, CallerStore
    <3>3. call[e].level \in Nat /\ call[p].level \in Nat
      BY <3>1 DEF IInv, TypeOK, Frames
    <3>4. Active(e)' /\ call'[e] = call[e] /\ Own(e)' = Own(e)
      BY <3>2, ArrivalFrame
    <3> QED BY <2>2, <3>1, <3>2, <3>3, <3>4
  <2> QED BY <2>1, <2>2
<1>2. ASSUME NEW x \in Calls, NEW a \in Attempts, pc'[x] = "idle" \/ a > attempt'[x]
      PROVE  context'[<<x, a>>].at = Context!EmptyMap.at
  <2>1. pc[x] = "idle" \/ a > attempt[x]
    BY <1>2 DEF Arrival
  <2>2. context[<<x, a>>].at = Context!EmptyMap.at
    BY <2>1 DEF IInv, StoreInv
  <2>3. \A y \in Calls : Active(y) => <<x, a>> # Own(y)
    BY <2>1 DEF Active, Own, IInv, TypeOK, Attempts
  <2>4. <<x, a>> \in Stores /\ <<x, a>> # None
    BY NoneAssumption DEF Stores, Tx
  <2>5. <<x, a>> # CallerScope(p)
    <3>1. CASE p = None
      BY <2>4, <3>1 DEF CallerScope
    <3>2. CASE p # None
      BY <2>3, <2>4, <3>2, CallerStore DEF CallerScope, Arrival
    <3> QED BY <3>1, <3>2
  <2> QED BY <2>2, <2>4, <2>5, ArrivalFrame DEF Enters
<1>3. Context!EmptyMap' = Context!EmptyMap
  BY DEF Context!EmptyMap
<1> QED BY <1>1, <1>2, <1>3 DEF StoreInv

LEMMA ArrivalOpen ==
  ASSUME IInv, NEW p \in Calls \cup {None}, NEW c \in Calls, Arrival(p, c)
  PROVE  OpenInv'
<1>1. ASSUME NEW d \in Calls, call'[d].kind = "new",
             pc'[d] \in {"body", "beforeCommit", "commit", "rollback"}
      PROVE  status'[Own(d)'] = "open"
  <2>1. d # c
    BY <1>1 DEF Arrival, Enters
  <2> QED BY <1>1, <2>1, ArrivalFrame DEF IInv, OpenInv, Arrival
<1>2. ASSUME NEW d \in Calls, NEW o \in Calls, NEW k \in Keys, Active(d), call[d].inherit # None,
             call[d].entry[k] # None, o = call[d].entry[k][1]
      PROVE  /\ o # c /\ call[o].kind = "new" /\ pc[o] \in {"body", "beforeCommit"}
             /\ Own(o) = call[d].entry[k] /\ ScopeOf(o) = call[d].inherit
             /\ call[o].level < call[d].level
  BY <1>2 DEF IInv, OpenInv, Arrival
<1>3. ASSUME NEW d \in Calls, NEW o \in Calls, NEW k \in Keys, Active(d)', call'[d].inherit # None,
             call'[d].entry[k] # None, o = call'[d].entry[k][1]
      PROVE  /\ call'[o].kind = "new" /\ pc'[o] \in {"body", "beforeCommit"}
             /\ Own(o)' = call'[d].entry[k] /\ ScopeOf(o)' = call'[d].inherit
             /\ call'[o].level < call'[d].level
  <2>1. CASE d # c
    <3>1. Active(d) /\ call'[d] = call[d]
      BY <1>3, <2>1, ArrivalFrame
    <3> QED BY <1>2, <1>3, <3>1, ArrivalFrame
  <2>2. CASE d = c
    <3>1. /\ p \in Calls \ {c} /\ InControl(p) /\ ScopeOf(p) # None /\ UserCode(p)
          /\ call'[c].inherit = ScopeOf(p) /\ call'[c].level = call[p].level + 1
          /\ call'[c].entry = context[ScopeOf(p)].at
      BY <1>3, <2>2, ArrivalFrame DEF Arrival, CallerScope
    <3>2. call'[c].entry = Inside(p)
      BY <3>1 DEF IInv, LexicalScope
    <3>3. call[p].level \in Nat /\ call[o].level \in Nat /\ call[p].entry \in [Keys -> Tx \cup {None}]
      BY <3>1 DEF IInv, TypeOK, Frames
    <3>4. \/ /\ call[p].kind = "new" /\ pc[p] \in {"body", "beforeCommit"}
             /\ Inside(p)[k] = Own(p)
          \/ call[p].inherit # None /\ Inside(p)[k] = call[p].entry[k]
      BY <1>3, <2>2, <3>1, <3>2, InsideEntries DEF IInv, OwnOrInherited
    <3>5. CASE /\ call[p].kind = "new" /\ pc[p] \in {"body", "beforeCommit"}
               /\ Inside(p)[k] = Own(p)
      <4>1. call'[c].entry[k] = Own(p) /\ o = p
        BY <1>3, <2>2, <3>2, <3>5 DEF Own
      <4>2. call'[p].level < call'[c].level
        BY <3>1, <3>3, ArrivalFrame
      <4> QED BY <2>2, <3>1, <3>5, <4>1, <4>2, ArrivalFrame
    <3>6. CASE call[p].inherit # None /\ Inside(p)[k] = call[p].entry[k]
      <4>1. /\ call'[c].entry[k] = call[p].entry[k] /\ call[p].entry[k] # None /\ Active(p)
            /\ o = call[p].entry[k][1]
        BY <1>3, <2>2, <3>1, <3>2, <3>6 DEF InControl
      <4>2. /\ o # c /\ call[o].kind = "new" /\ pc[o] \in {"body", "beforeCommit"}
            /\ Own(o) = call[p].entry[k] /\ ScopeOf(o) = call[p].inherit
            /\ call[o].level < call[p].level
        BY <1>2, <3>1, <3>6, <4>1
      <4>3. call[p].inherit = ScopeOf(p)
        BY <3>6 DEF ScopeOf
      <4>4. call'[o] = call[o] /\ pc'[o] = pc[o] /\ Own(o)' = Own(o) /\ ScopeOf(o)' = ScopeOf(o)
        BY <4>2, ArrivalFrame
      <4>5. call'[o].level < call'[c].level
        BY <3>1, <3>3, <4>2, <4>4
      <4> QED BY <2>2, <3>1, <4>1, <4>2, <4>3, <4>4, <4>5
    <3> QED BY <3>4, <3>5, <3>6
  <2> QED BY <2>1, <2>2
<1> QED BY <1>1, <1>3 DEF OpenInv

LEMMA ArrivalScope ==
  ASSUME IInv, TypeOK', NEW p \in Calls \cup {None}, NEW c \in Calls, Arrival(p, c)
  PROVE  LexicalScope'
<1>1. SUFFICES ASSUME NEW d \in Calls, InControl(d)', ScopeOf(d)' # None
               PROVE  context'[ScopeOf(d)'].at = Inside(d)'
  BY DEF LexicalScope
<1>2. CASE d # c
  <2>1. /\ InControl(d) /\ ScopeOf(d)' = ScopeOf(d) /\ Inside(d)' = Inside(d)
        /\ Active(c)' => d # p
    BY <1>1, <1>2, ArrivalFrame
  <2>2. context[ScopeOf(d)].at = Inside(d) /\ ScopeOf(d) \in Stores
    BY <1>1, <2>1, HelperTypes DEF IInv, LexicalScope
  <2>3. CASE ~Active(c)'
    BY <2>1, <2>2, <2>3, ArrivalFrame
  <2>4. CASE Active(c)'
    <3>1. CallerScope(p) # ScopeOf(d)
      <4>1. CASE p = None
        BY <1>1, <2>1, <4>1 DEF CallerScope
      <4>2. CASE p # None
        <5>1. InControl(p) /\ p \in Calls /\ d # p /\ CallerScope(p) = ScopeOf(p)
          BY <2>1, <2>4, <4>2 DEF Arrival, CallerScope
        <5> QED BY <1>1, <2>1, <5>1, OneInControl DEF IInv
      <4> QED BY <4>1, <4>2
    <3> QED BY <2>1, <2>2, <2>4, <3>1, ArrivalFrame DEF Enters
  <2> QED BY <2>3, <2>4
<1>3. CASE d = c
  <2>1. Enters(c, CallerScope(p)) /\ call'[c].inherit = CallerScope(p)
    BY <1>1, <1>3, ArrivalFrame DEF InControl, Arrival
  <2>2. CASE CallerScope(p) # None
    BY <1>3, <2>1, <2>2 DEF Enters, ScopeOf
  <2>3. CASE CallerScope(p) = None
    <3>1. call'[c].kind = "new" /\ ScopeOf(c)' = Own(c) /\ pc'[c] \in {"begin", "restore"}
      BY <1>1, <1>3, <2>1, <2>3, ArrivalFrame DEF ScopeOf, Enters
    <3>2. Own(c) \in Stores /\ Own(c) # None /\ Own(c) = <<c, attempt[c]>> /\ attempt[c] \in Attempts
      BY NoneAssumption, HelperTypes DEF IInv, TypeOK, Own, Stores
    <3>3. context'[Own(c)].at = Context!EmptyMap.at
      BY <2>1, <2>3, <3>2 DEF Enters, Arrival, IInv, StoreInv
    <3>4. Inside(c)' = [Context!EmptyMap.at EXCEPT ![Key(c)'] = None]
      BY <2>1, <2>3, <3>1 DEF Inside
    <3>5. Key(c)' \in Keys
      BY OptionsAssumption DEF TypeOK, Frames, Key, OptionRecords
    <3> QED BY <1>3, <3>1, <3>3, <3>4, <3>5, EmptyMapType
  <2> QED BY <2>2, <2>3
<1> QED BY <1>2, <1>3

LEMMA ArrivalMap ==
  ASSUME IInv, TypeOK', NEW p \in Calls \cup {None}, NEW c \in Calls, Arrival(p, c)
  PROVE  MapInv'
<1>1. SUFFICES ASSUME NEW s \in Stores, NEW k \in Keys, NEW o \in Calls,
                      context'[s].at[k] # None, o = context'[s].at[k][1]
               PROVE  /\ call'[o].kind = "new" /\ pc'[o] \in {"body", "beforeCommit"}
                      /\ Own(o)' = context'[s].at[k] /\ ScopeOf(o)' = s
  BY DEF MapInv
<1>2. CASE context'[s] = context[s]
  <2>1. /\ call[o].kind = "new" /\ pc[o] \in {"body", "beforeCommit"}
        /\ Own(o) = context'[s].at[k] /\ ScopeOf(o) = s
    BY <1>1, <1>2 DEF IInv, MapInv
  <2>2. o # c
    BY <2>1 DEF Arrival
  <2> QED BY <2>1, <2>2, ArrivalFrame
<1>3. CASE context'[s] # context[s]
  <2>1. Active(c)' /\ Enters(c, s) /\ s = CallerScope(p)
    BY <1>3, ArrivalFrame DEF Enters
  <2>2. s # None /\ call'[c].inherit = s
    BY <2>1, NoneAssumption DEF Arrival, Stores
  <2>3. context'[s].at = Inside(c)'
    BY <2>1, <2>2 DEF Enters
  <2>4. call'[c].entry[k] # None /\ context'[s].at[k] = call'[c].entry[k]
    <3>1. Inside(c)'[k] # None
      BY <1>1, <2>3
    <3>2. \/ /\ call'[c].kind = "new" /\ pc'[c] \in {"body", "beforeCommit"}
             /\ Inside(c)'[k] = Own(c)'
          \/ call'[c].inherit # None /\ Inside(c)'[k] = call'[c].entry[k]
      BY <3>1, InsideEntriesNext DEF OwnOrInherited
    <3> QED BY <2>1, <2>3, <3>1, <3>2 DEF Enters
  <2>5. OpenInv'
    BY ArrivalOpen
  <2> QED BY <1>1, <2>1, <2>2, <2>4, <2>5 DEF OpenInv
<1> QED BY <1>2, <1>3

-------------------------------------------------------------------------------
(* The invariant, and what follows from it. *)

LEMMA InitScope == Init => IInv
<1> SUFFICES ASSUME Init PROVE IInv
  OBVIOUS
<1>1. TypeOK
  BY InitType
<1>2. \A c \in Calls : pc[c] = "idle" /\ ~Active(c) /\ attempt[c] = 1
  BY DEF Init, Active
<1>3. \A s \in Stores, k \in Keys : context[s].at[k] = None
  BY EmptyMapType DEF Init
<1>4. \A c \in Calls, a \in Attempts : context[<<c, a>>].at = Context!EmptyMap.at
  BY DEF Init, Stores, Tx
<1> QED BY <1>1, <1>2, <1>3, <1>4
        DEF IInv, ErrorInv, FrameInv, IdleInv, ParentInv, ChainInv, StoreInv, OpenInv, MapInv,
            LexicalScope, InControl

\* Registering a hook only gives user code more to do.
LEMMA RegisterScope ==
  ASSUME IInv, NEW c \in Calls, NEW q \in Phases, Register(c, q)
  PROVE  /\ FrameInv' /\ IdleInv' /\ ParentInv' /\ ChainInv' /\ StoreInv' /\ OpenInv' /\ MapInv'
         /\ LexicalScope'
<1>1. UNCHANGED <<pc, call, attempt, context, status, ran>>
  BY DEF Register
<1>2. \A d \in Calls : /\ Own(d)' = Own(d) /\ Key(d)' = Key(d) /\ Active(d)' = Active(d)
                       /\ ScopeOf(d)' = ScopeOf(d) /\ Inside(d)' = Inside(d)
                       /\ KindPCs(d)' = KindPCs(d)
  BY <1>1, Locality
<1>3. \A d \in Calls : InControl(d)' = InControl(d)
  BY <1>1, <1>2 DEF InControl
<1>4. ASSUME NEW t \in Tx, NEW r \in Phases
      PROVE  hooks[t][r] \in Nat /\ hooks'[t][r] \in Nat /\ hooks[t][r] <= hooks'[t][r]
  <2>1. hooks[t] \in [Phases -> Nat]
    BY DEF IInv, TypeOK
  <2>2. hooks' = [hooks EXCEPT ![currentTransaction(c)][q] = @ + 1]
    BY DEF Register
  <2>3. hooks'[t] = hooks[t] \/ hooks'[t] = [hooks[t] EXCEPT ![q] = @ + 1]
    BY <2>2 DEF IInv, TypeOK
  <2>4. hooks'[t][r] = hooks[t][r] \/ hooks'[t][r] = hooks[t][r] + 1
    BY <2>1, <2>3
  <2>5. hooks[t][r] \in Nat
    BY <2>1
  <2> QED BY <2>4, <2>5
<1>5. \A d \in Calls : UserCode(d) => UserCode(d)'
  <2>1. SUFFICES ASSUME NEW d \in Calls, UserCode(d), pc[d] \in Phases
                 PROVE  ran[Own(d)][pc[d]] < hooks'[Own(d)][pc[d]]
    BY <1>1, <1>2 DEF UserCode, Own, Phases
  <2>2. ran[Own(d)] \in [Phases -> Nat] /\ Own(d) \in Tx
    BY HelperTypes DEF IInv, TypeOK
  <2>3. ran[Own(d)][pc[d]] \in Nat /\ ran[Own(d)][pc[d]] < hooks[Own(d)][pc[d]]
    BY <2>1, <2>2 DEF UserCode, Phases
  <2> QED BY <1>4, <2>1, <2>2, <2>3
<1>6. FrameInv' /\ IdleInv'
  BY <1>1, <1>2 DEF IInv, FrameInv, IdleInv
<1>7. ParentInv'
  BY <1>1, <1>2, <1>5 DEF IInv, ParentInv
<1>8. ChainInv' /\ LexicalScope'
  BY <1>1, <1>2, <1>3 DEF IInv, ChainInv, LexicalScope
<1>9. StoreInv'
  BY <1>1, <1>2 DEF IInv, StoreInv, Context!EmptyMap
<1>10. OpenInv' /\ MapInv'
  BY <1>1, <1>2 DEF IInv, OpenInv, MapInv
<1> QED BY <1>6, <1>7, <1>8, <1>9, <1>10

LEMMA StutterScope == ASSUME IInv, UNCHANGED vars PROVE IInv'
<1>1. UNCHANGED <<pc, call, attempt, err, context, status, hooks, ran, rolledBack>>
  BY DEF vars
<1>2. \A d \in Calls : /\ Own(d)' = Own(d) /\ Key(d)' = Key(d) /\ Active(d)' = Active(d)
                       /\ ScopeOf(d)' = ScopeOf(d) /\ Inside(d)' = Inside(d)
                       /\ KindPCs(d)' = KindPCs(d) /\ UserCode(d)' = UserCode(d)
  BY <1>1, Locality, LocalUserCode
<1>3. \A d \in Calls : InControl(d)' = InControl(d)
  BY <1>1, <1>2 DEF InControl
<1>4. TypeOK' /\ ErrorInv' /\ FrameInv' /\ IdleInv'
  BY <1>1, <1>2 DEF IInv, TypeOK, ErrorInv, FrameInv, IdleInv
<1>5. ParentInv' /\ ChainInv' /\ LexicalScope'
  BY <1>1, <1>2, <1>3 DEF IInv, ParentInv, ChainInv, LexicalScope
<1>6. StoreInv' /\ OpenInv' /\ MapInv'
  BY <1>1, <1>2 DEF IInv, StoreInv, OpenInv, MapInv, Context!EmptyMap
<1> QED BY <1>4, <1>5, <1>6 DEF IInv

LEMMA NextScope ==
  ASSUME ~Concurrent, IInv, [Next]_vars
  PROVE  IInv'
<1>1. ASSUME NEW p \in Calls \cup {None}, NEW c \in Calls, NEW o \in Options, Run(p, c, o)
      PROVE  IInv'
  <2>1. TypeOK' /\ ErrorInv'
    BY <1>1, RunType, ErrorStep DEF IInv, Next
  <2>2. Arrival(p, c)
    BY <1>1, RunEffect
  <2> QED BY <2>1, <2>2, ArrivalFrames, ArrivalParent, ArrivalChain, ArrivalStore, ArrivalOpen,
             ArrivalMap, ArrivalScope DEF IInv
<1>2. ASSUME NEW c \in Calls, Step(c)
      PROVE  IInv'
  <2>1. TypeOK' /\ ErrorInv'
    BY <1>2, StepType, ErrorStep DEF IInv, Next
  <2>2. InControl(c) /\ Effect(c)
    BY <1>2, StepEffect
  <2> QED BY <2>1, <2>2, FrameKept, ParentKept, ChainKept, StoreKept, OpenKept, MapKept,
             ScopeRestored DEF IInv
<1>3. ASSUME NEW c \in Calls, NEW q \in Phases, Register(c, q)
      PROVE  IInv'
  <2>1. TypeOK' /\ ErrorInv'
    BY <1>3, RegisterType, ErrorStep DEF IInv, Next
  <2> QED BY <1>3, <2>1, RegisterScope DEF IInv
<1>4. CASE UNCHANGED vars
  BY <1>4, StutterScope
<1> QED BY <1>1, <1>2, <1>3, <1>4 DEF Next, Quiescent

LEMMA AwaitedInvariant == ASSUME ~Concurrent PROVE Spec => []IInv
<1>1. IInv /\ [Next]_vars => IInv'
  BY NextScope
<1> QED BY <1>1, InitScope, PTL DEF Spec

\* In awaited programs the Map of active transactions is lexically scoped: a
\* call in control sees the transactions its place in the call tree gives it,
\* for any number of calls, keys, attempts and hooks, whatever fails.
THEOREM AwaitedScope == ASSUME ~Concurrent PROVE Spec => []LexicalScope
<1>1. IInv => LexicalScope
  BY DEF IInv
<1> QED BY <1>1, AwaitedInvariant, PTL

\* In awaited programs no code of the application can join, or register a hook
\* on, a transaction that has begun to end.
THEOREM AwaitedAmbient == ASSUME ~Concurrent PROVE Spec => []AmbientIsJoinable
<1>1. IInv => AmbientIsJoinable
  <2> SUFFICES ASSUME IInv, NEW c \in Calls, NEW k \in Keys, ScopeOf(c) # None,
                      context[ScopeOf(c)].at[k] # None
               PROVE  Joinable(context[ScopeOf(c)].at[k])
    BY DEF AmbientIsJoinable
  <2> DEFINE t == context[ScopeOf(c)].at[k]
  <2>1. ScopeOf(c) \in Stores
    BY HelperTypes DEF IInv
  <2>2. t[1] \in Calls
    <3>1. context[ScopeOf(c)] \in Context!Maps
      BY <2>1 DEF IInv, TypeOK
    <3>2. t \in Tx
      BY <3>1 DEF Context!Maps
    <3> QED BY <3>2 DEF Tx
  <2>3. call[t[1]].kind = "new" /\ pc[t[1]] \in {"body", "beforeCommit"} /\ Own(t[1]) = t
    BY <2>1, <2>2 DEF IInv, MapInv
  <2>4. status[t] = "open"
    BY <2>2, <2>3 DEF IInv, OpenInv
  <2> QED BY <2>3, <2>4 DEF Joinable
<1> QED BY <1>1, AwaitedInvariant, PTL

\* In awaited programs a call that settles leaves its caller's Map as it found it.
THEOREM AwaitedRestore == ASSUME ~Concurrent PROVE Spec => RestoresContext
<1>1. ASSUME IInv, [Next]_vars, NEW d \in Calls, Active(d), ~Active(d)', call[d].inherit # None
      PROVE  context'[call[d].inherit].at = call[d].entry
  <2>1. ASSUME NEW p \in Calls \cup {None}, NEW c \in Calls, NEW o \in Options, Run(p, c, o)
        PROVE  FALSE
    BY <1>1, <2>1, RunEffect, ArrivalFrame
  <2>2. ASSUME NEW c \in Calls, Step(c)
        PROVE  context'[call[d].inherit].at = call[d].entry
    <3>1. InControl(c) /\ Effect(c) /\ TypeOK'
      BY <1>1, <2>2, StepEffect, StepType DEF IInv
    <3>2. d = c /\ Leaves(c)
      BY <1>1, <3>1, Frame
    <3> QED BY <1>1, <3>2 DEF Leaves
  <2>3. CASE \E c \in Calls, q \in Phases : Register(c, q)
    BY <1>1, <2>3 DEF Register, Active
  <2>4. CASE UNCHANGED vars
    BY <1>1, <2>4 DEF vars, Active
  <2> QED BY <1>1, <2>1, <2>2, <2>3, <2>4 DEF Next, Quiescent
<1>2. IInv /\ [Next]_vars =>
        [\A c \in Calls : Active(c) /\ ~Active(c)' /\ call[c].inherit # None
           => context'[call[c].inherit].at = call[c].entry]_vars
  BY <1>1
<1> QED BY <1>2, AwaitedInvariant, PTL DEF Spec, RestoresContext
===============================================================================
