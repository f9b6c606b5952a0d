----------------------- MODULE TransactionManagerProofs -----------------------
(***************************************************************************)
(* Proofs, for every set of calls, keys, options and every bound, of what  *)
(* TransactionManagerProps states.                                         *)
(***************************************************************************)
EXTENDS TransactionManagerProps, TLAPS

\* The Map operations of TransactionContext return Maps, and do to the contents
\* what Map.set and Map.delete do.
LEMMA MapOperations ==
  ASSUME NEW m \in Context!Maps, NEW k \in Keys, NEW t \in Tx \cup {None}
  PROVE  /\ Context!setActiveTransaction(m, k, t) \in Context!Maps
         /\ Context!setActiveTransaction(m, k, t).at = [m.at EXCEPT ![k] = t]
         /\ Context!removeActiveTransaction(m, k) \in Context!Maps
         /\ Context!removeActiveTransaction(m, k).at = [m.at EXCEPT ![k] = None]
         /\ m.at \in [Keys -> Tx \cup {None}]
BY DEF Context!Maps, Context!setActiveTransaction, Context!removeActiveTransaction,
       Context!Present

LEMMA EmptyMapType == Context!EmptyMap \in Context!Maps
                      /\ Context!EmptyMap.at = [k \in Keys |-> None]
BY DEF Context!Maps, Context!EmptyMap

-------------------------------------------------------------------------------
(* Type correctness, for awaited and for overlapping calls alike. *)

LEMMA InitType == Init => TypeOK
<1> SUFFICES ASSUME Init PROVE TypeOK
  OBVIOUS
<1>1. 1 \in Attempts
  BY BoundsAssumption DEF Attempts
<1>2. IdleFrame \in Frames
  <2>1. (CHOOSE o \in Options : TRUE) \in Options
    BY OptionsAssumption
  <2> QED BY <1>1, <2>1 DEF IdleFrame, Frames
<1> QED BY <1>1, <1>2, EmptyMapType DEF Init, TypeOK, PCs

\* The helpers an action is built from keep the parts of the state they assign.
LEMMA HelperTypes ==
  ASSUME TypeOK, NEW c \in Calls
  PROVE  /\ Own(c) \in Tx /\ Key(c) \in Keys
         /\ ScopeOf(c) \in Stores \cup {None}
         /\ \A s, k, t : k \in Keys /\ t \in Tx \cup {None} /\ SetActive(s, k, t)
              => context' \in [Stores -> Context!Maps]
         /\ \A s, k : k \in Keys /\ RemoveActive(s, k) => context' \in [Stores -> Context!Maps]
         /\ \A l \in PCs : Goto(c, l) => pc' \in [Calls -> PCs]
         /\ Finish(c) => pc' \in [Calls -> PCs]
         /\ Thrown(c) \subseteq Errors /\ DriverError(c) \subseteq Errors
<1>1. Own(c) \in Tx /\ Key(c) \in Keys /\ ScopeOf(c) \in Stores \cup {None}
  BY OptionsAssumption DEF TypeOK, Own, Key, ScopeOf, Frames, Tx, Stores, OptionRecords
<1>2. ASSUME NEW s, NEW k \in Keys, NEW t \in Tx \cup {None}, SetActive(s, k, t)
      PROVE  context' \in [Stores -> Context!Maps]
  <2>1. s \in Stores => Context!setActiveTransaction(context[s], k, t) \in Context!Maps
    BY MapOperations DEF TypeOK
  <2> QED BY <1>2, <2>1 DEF TypeOK, SetActive
<1>3. ASSUME NEW s, NEW k \in Keys, RemoveActive(s, k)
      PROVE  context' \in [Stores -> Context!Maps]
  <2>1. s \in Stores => Context!removeActiveTransaction(context[s], k) \in Context!Maps
    BY MapOperations DEF TypeOK
  <2> QED BY <1>3, <2>1 DEF TypeOK, RemoveActive
<1>4. /\ \A l \in PCs : Goto(c, l) => pc' \in [Calls -> PCs]
      /\ Finish(c) => pc' \in [Calls -> PCs]
  BY DEF TypeOK, Goto, Finish, PCs
<1>5. Thrown(c) \subseteq Errors /\ DriverError(c) \subseteq Errors
  BY <1>1, NoneAssumption DEF TypeOK, Thrown, DriverError, Errors, ErrorClasses
<1> QED BY <1>1, <1>2, <1>3, <1>4, <1>5

LEMMA InvokeType ==
  ASSUME TypeOK, NEW p \in Calls \cup {None}, NEW c \in Calls, NEW o \in Options,
         NEW kind \in {"direct", "new", "savepoint"}, NEW saved \in Tx \cup {None},
         Invoke(p, c, o, kind, saved)
  PROVE  call' \in [Calls -> Frames]
<1>1. CallerScope(p) \in Stores \cup {None}
  BY HelperTypes DEF CallerScope
<1>2. (IF p = None THEN 1 ELSE attempt[p]) \in Attempts
  BY BoundsAssumption DEF TypeOK, Attempts
<1>3. (IF p = None THEN 0 ELSE call[p].level + 1) \in Nat
  BY DEF TypeOK, Frames
<1>4. (IF CallerScope(p) = None THEN Context!EmptyMap.at ELSE context[CallerScope(p)].at)
         \in [Keys -> Tx \cup {None}]
  BY <1>1, EmptyMapType DEF TypeOK, Context!Maps
<1> QED BY <1>1, <1>2, <1>3, <1>4 DEF Invoke, TypeOK, Frames

LEMMA RunType ==
  ASSUME TypeOK, NEW p \in Calls \cup {None}, NEW c \in Calls, NEW o \in Options,
         Run(p, c, o)
  PROVE  TypeOK'
<1>1. o.key \in Keys /\ Own(c) \in Tx
  BY HelperTypes, OptionsAssumption DEF OptionRecords
<1>2. CallerScope(p) \in Stores \cup {None}
  BY HelperTypes DEF CallerScope
<1>3. Existing(p, o) \in Tx \cup {None}
  BY <1>1, <1>2 DEF Existing, TypeOK, Context!Maps, Context!getActiveTransaction
<1>4. \A cls \in LibraryErrors : [cls |-> cls, of |-> Own(c)] \in Errors
  BY <1>1 DEF Errors, ErrorClasses
<1>5. CASE RunDirect(p, c, o)
  <2>1. call' \in [Calls -> Frames] /\ pc' \in [Calls -> PCs]
    BY <1>5, InvokeType, HelperTypes DEF RunDirect, PCs
  <2> QED BY <1>5, <2>1 DEF RunDirect, Invoke, TypeOK
<1>6. CASE RunSuspended(p, c, o)
  <2>1. call' \in [Calls -> Frames] /\ pc' \in [Calls -> PCs] /\ context' \in [Stores -> Context!Maps]
    BY <1>1, <1>3, <1>6, InvokeType, HelperTypes DEF RunSuspended, PCs
  <2> QED BY <1>6, <2>1 DEF RunSuspended, Invoke, TypeOK
<1>7. CASE RunRefused(p, c, o)
  <2>1. call' \in [Calls -> Frames] /\ pc' \in [Calls -> PCs]
    BY <1>7, InvokeType, HelperTypes DEF RunRefused, PCs
  <2> QED BY <1>4, <1>7, <2>1 DEF RunRefused, Invoke, TypeOK, LibraryErrors
<1>8. CASE RunNew(p, c, o)
  <2>1. call' \in [Calls -> Frames]
    BY <1>3, <1>8, InvokeType DEF RunNew
  <2>2. context' \in [Stores -> Context!Maps]
    BY <1>1, <1>8, HelperTypes DEF RunNew, TypeOK
  <2>3. pc' \in [Calls -> PCs]
    BY <1>8, HelperTypes DEF RunNew, PCs
  <2>4. err' \in [Calls -> Errors \cup {None}]
    BY <1>4, <1>8 DEF RunNew, TypeOK, LibraryErrors
  <2> QED BY <1>8, <2>1, <2>2, <2>3, <2>4 DEF RunNew, Invoke, TypeOK
<1>9. CASE RunNested(p, c, o)
  <2>1. call' \in [Calls -> Frames] /\ pc' \in [Calls -> PCs]
    BY <1>9, InvokeType, HelperTypes DEF RunNested, PCs
  <2> QED BY <1>9, <2>1 DEF RunNested, Invoke, TypeOK
<1> QED BY <1>5, <1>6, <1>7, <1>8, <1>9 DEF Run

LEMMA StepType ==
  ASSUME TypeOK, ErrorInv, NEW c \in Calls, Step(c)
  PROVE  TypeOK'
<1>1. CASE Begin(c)
  <2>1. context' \in [Stores -> Context!Maps] /\ pc' \in [Calls -> PCs]
    BY <1>1, HelperTypes DEF Begin, PCs
  <2> QED BY <1>1, <2>1 DEF Begin, TypeOK
<1>2. CASE BeginFails(c)
  <2>1. pc' \in [Calls -> PCs]
    BY <1>2, HelperTypes DEF BeginFails, PCs
  <2> QED BY <1>2, <2>1, HelperTypes DEF BeginFails, TypeOK
<1>3. CASE FnReturns(c)
  <2>1. pc' \in [Calls -> PCs]
    BY <1>3, HelperTypes DEF FnReturns, PCs, TypeOK, Frames, Phases
  <2> QED BY <1>3, <2>1 DEF FnReturns, TypeOK
<1>4. ASSUME NEW e \in Errors, InnerThrows(c, e)
      PROVE  /\ err' \in [Calls -> Errors \cup {None}] /\ pc' \in [Calls -> PCs]
             /\ context' \in [Stores -> Context!Maps]
  BY <1>4, HelperTypes DEF InnerThrows, EndInner, TypeOK, PCs
<1>5. CASE FnThrows(c)
  <2>1. /\ err' \in [Calls -> Errors \cup {None}] /\ pc' \in [Calls -> PCs]
        /\ context' \in [Stores -> Context!Maps]
    <3> PICK e \in Thrown(c) :
          \/ call[c].kind = "direct" /\ Settle(c, e) /\ UNCHANGED context
          \/ call[c].kind = "new" /\ InnerThrows(c, e)
          \/ /\ call[c].kind = "savepoint"
             /\ err' = [err EXCEPT ![c] = e]
             /\ Goto(c, IF shouldRollback(e, call[c].opt) THEN "rollbackTo" ELSE "release")
             /\ UNCHANGED context
      BY <1>5 DEF FnThrows
    <3>1. e \in Errors
      BY HelperTypes
    <3> QED BY <1>4, <3>1, HelperTypes DEF Settle, TypeOK, PCs
  <2> QED BY <1>5, <2>1 DEF FnThrows, TypeOK
<1>6. CASE BeforeCommitThrows(c)
  <2>1. /\ err' \in [Calls -> Errors \cup {None}] /\ pc' \in [Calls -> PCs]
        /\ context' \in [Stores -> Context!Maps]
    BY <1>4, <1>6, HelperTypes DEF BeforeCommitThrows
  <2> QED BY <1>6, <2>1 DEF BeforeCommitThrows, TypeOK
<1>7. CASE BeforeCommitDone(c)
  <2>1. pc' \in [Calls -> PCs] /\ context' \in [Stores -> Context!Maps]
    BY <1>7, HelperTypes DEF BeforeCommitDone, EndInner, PCs
  <2> QED BY <1>7, <2>1 DEF BeforeCommitDone, TypeOK
<1>8. CASE HookDone(c)
  <2>1. ran[Own(c)] \in [Phases -> Nat] /\ pc[c] \in Phases
    BY <1>8, HelperTypes DEF HookDone, TypeOK
  <2>2. [ran[Own(c)] EXCEPT ![pc[c]] = @ + 1] \in [Phases -> Nat]
    BY <2>1
  <2>3. ran' = [ran EXCEPT ![Own(c)] = [ran[Own(c)] EXCEPT ![pc[c]] = @ + 1]]
    BY <1>8 DEF HookDone
  <2>4. ran' \in [Tx -> [Phases -> Nat]]
    BY <2>2, <2>3 DEF TypeOK
  <2> QED BY <1>8, <2>4 DEF HookDone, TypeOK
<1>9. CASE Commit(c) \/ Rollback(c) \/ CommitFails(c)
  <2>1. pc' \in [Calls -> PCs]
    BY <1>9, HelperTypes DEF Commit, Rollback, CommitFails, PCs, Phases
  <2>2. err' \in [Calls -> Errors \cup {None}]
    BY <1>9, HelperTypes DEF Commit, Rollback, CommitFails, TypeOK
  <2> QED BY <1>9, <2>1, <2>2 DEF Commit, Rollback, CommitFails, TypeOK
<1>10. CASE AfterCommitDone(c)
  <2>1. pc' \in [Calls -> PCs]
    BY <1>10, HelperTypes DEF AfterCommitDone, PCs
  <2> QED BY <1>10, <2>1 DEF AfterCommitDone, TypeOK
<1>11. CASE AfterRollbackDone(c)
  <2>1. pc' \in [Calls -> PCs]
    BY <1>11, HelperTypes DEF AfterRollbackDone, PCs
  <2>2. err[c] \in Errors
    BY <1>11 DEF AfterRollbackDone, ErrorInv, TypeOK
  <2> QED BY <1>11, <2>1, <2>2 DEF AfterRollbackDone, TypeOK
<1>12. CASE Retry(c)
  <2>1. pc' \in [Calls -> PCs]
    BY <1>12, HelperTypes DEF Retry, PCs
  <2>2. attempt[c] + 1 \in Attempts
    <3>1. call[c].opt.maxAttempts \in 0 .. MaxAttempts
      BY OptionsAssumption DEF TypeOK, Frames, OptionRecords
    <3> QED BY <1>12, <3>1, BoundsAssumption DEF Retry, Retryable, TypeOK, Attempts
  <2> QED BY <1>12, <2>1, <2>2 DEF Retry, TypeOK
<1>13. CASE GiveUpOrReturn(c)
  <2>1. pc' \in [Calls -> PCs]
    BY <1>13, HelperTypes DEF GiveUpOrReturn
  <2> QED BY <1>13, <2>1 DEF GiveUpOrReturn, TypeOK
<1>14. CASE Restore(c)
  <2>1. call[c].saved \in Tx \cup {None}
    BY DEF TypeOK, Frames
  <2>2. context' \in [Stores -> Context!Maps] /\ pc' \in [Calls -> PCs]
    BY <1>14, <2>1, HelperTypes DEF Restore, PCs
  <2> QED BY <1>14, <2>2 DEF Restore, TypeOK
<1>15. CASE Savepoint(c) \/ Release(c) \/ RollbackTo(c)
  <2>1. pc' \in [Calls -> PCs]
    BY <1>15, HelperTypes DEF Savepoint, Release, RollbackTo, Settle, PCs
  <2>2. err' \in [Calls -> Errors \cup {None}]
    BY <1>15, HelperTypes DEF Savepoint, Release, RollbackTo, Settle, TypeOK
  <2> QED BY <1>15, <2>1, <2>2 DEF Savepoint, Release, RollbackTo, TypeOK
<1> QED BY <1>1, <1>2, <1>3, <1>5, <1>6, <1>7, <1>8, <1>9,
           <1>10, <1>11, <1>12, <1>13, <1>14, <1>15 DEF Step

LEMMA RegisterType ==
  ASSUME TypeOK, NEW c \in Calls, NEW p \in Phases, Register(c, p)
  PROVE  TypeOK'
<1> DEFINE t == currentTransaction(c)
<1>1. hooks' = [hooks EXCEPT ![t] = [hooks[t] EXCEPT ![p] = @ + 1]]
  BY DEF Register
<1>2. t \in Tx => [hooks[t] EXCEPT ![p] = @ + 1] \in [Phases -> Nat]
  <2> HAVE t \in Tx
  <2>1. hooks[t] \in [Phases -> Nat]
    BY DEF TypeOK
  <2> HIDE DEF t
  <2> QED BY <2>1
<1>3. hooks' \in [Tx -> [Phases -> Nat]]
  <2> HIDE DEF t
  <2> QED BY <1>1, <1>2 DEF TypeOK
<1> QED BY <1>3 DEF Register, TypeOK

\* Every step keeps the reason of a rollback under way.
LEMMA ErrorStep ==
  ASSUME TypeOK, ErrorInv, Next
  PROVE  ErrorInv'
<1>1. ASSUME NEW p \in Calls \cup {None}, NEW c \in Calls, NEW o \in Options, Run(p, c, o)
      PROVE  ErrorInv'
  BY <1>1 DEF Run, RunDirect, RunSuspended, RunRefused, RunNew, RunNested, Goto, ErrorInv, TypeOK
<1>2. ASSUME NEW c \in Calls, Step(c)
      PROVE  ErrorInv'
  <2>1. Thrown(c) \subseteq Errors /\ DriverError(c) \subseteq Errors /\ None \notin Errors
    BY HelperTypes, NoneAssumption
  <2>2. CASE FnThrows(c) \/ BeforeCommitThrows(c)
    BY <2>1, <2>2 DEF FnThrows, BeforeCommitThrows, InnerThrows, EndInner, Settle, Finish, Goto,
         ErrorInv, TypeOK
  <2>3. CASE Commit(c) \/ CommitFails(c) \/ Rollback(c)
    BY <2>1, <2>3 DEF Commit, CommitFails, Rollback, Goto, ErrorInv, TypeOK
  <2>4. CASE Begin(c) \/ BeginFails(c) \/ FnReturns(c) \/ BeforeCommitDone(c) \/ HookDone(c)
    BY <2>4 DEF Begin, BeginFails, FnReturns, BeforeCommitDone, HookDone, EndInner, Goto, Finish,
         ErrorInv, TypeOK, Frames
  <2>5. CASE \/ AfterCommitDone(c) \/ AfterRollbackDone(c) \/ Retry(c) \/ GiveUpOrReturn(c) \/ Restore(c)
    BY <2>5 DEF AfterCommitDone, AfterRollbackDone, Retry, GiveUpOrReturn, Restore, Goto, Finish,
         ErrorInv, TypeOK
  <2>6. CASE Savepoint(c) \/ Release(c) \/ RollbackTo(c)
    BY <2>6 DEF Savepoint, Release, RollbackTo, Settle, Goto, Finish, ErrorInv, TypeOK
  <2> QED BY <1>2, <2>2, <2>3, <2>4, <2>5, <2>6 DEF Step
<1>3. ASSUME NEW c \in Calls, NEW p \in Phases, Register(c, p)
      PROVE  ErrorInv'
  BY <1>3 DEF Register, ErrorInv
<1>4. CASE Quiescent
  BY <1>4 DEF Quiescent, vars, ErrorInv
<1> QED BY <1>1, <1>2, <1>3, <1>4 DEF Next

\* Type correctness of TransactionManager.run for every number of calls, data
\* sources, options, hooks and attempts, with awaited or overlapping calls; in
\* particular the attempt counter of startNewWithRetry never passes the
\* configured maximum, and only error objects enter the rolledBack set.
THEOREM TypeCorrect == Spec => []TypeOK
<1>1. Init => TypeOK /\ ErrorInv
  BY InitType DEF Init, ErrorInv
<1>2. TypeOK /\ ErrorInv /\ [Next]_vars => TypeOK' /\ ErrorInv'
  <2> SUFFICES ASSUME TypeOK, ErrorInv, [Next]_vars
               PROVE  TypeOK' /\ ErrorInv'
    OBVIOUS
  <2>1. CASE UNCHANGED vars
    BY <2>1 DEF vars, TypeOK, ErrorInv
  <2>2. CASE Next
    <3>1. ErrorInv'
      BY <2>2, ErrorStep
    <3>2. TypeOK'
      <4>1. CASE Quiescent
        BY <4>1 DEF Quiescent, vars, TypeOK
      <4> QED BY <2>2, <4>1, RunType, StepType, RegisterType DEF Next
    <3> QED BY <3>1, <3>2
  <2> QED BY <2>1, <2>2
<1> QED BY <1>1, <1>2, PTL DEF Spec
===============================================================================
