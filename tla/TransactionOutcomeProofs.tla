----------------------- MODULE TransactionOutcomeProofs -----------------------
(***************************************************************************)
(* Proofs, for every set of calls, keys, options and every bound, that the *)
(* outcome TransactionManager.run reports is the outcome in the database:  *)
(* what a call tells its caller, which connections it holds, which         *)
(* attempts have committed and which hooks have run.                       *)
(***************************************************************************)
EXTENDS TransactionScopeProofs

\* What OutcomeInv says of one call.
PlaceAt(c) == /\ Active(c) => pc[c] \in KindPCs(c)
              /\ pc[c] = "idle" => attempt[c] = 1 /\ err[c] = None
              /\ call[c].kind = "savepoint" => call[c].saved = None
              /\ Active(c) /\ call[c].kind = "new" => pc[c] = "restore" \/ call[c].opt.maxAttempts > 0
AttemptAt(c) ==
  \A a \in Attempts :
    /\ pc[c] = "idle" \/ call[c].kind # "new" \/ a > attempt[c] => status[<<c, a>>] = "none"
    /\ a < attempt[c] => status[<<c, a>>] # "open"
StageAt(c) == call[c].kind = "new" => Fits(call[c].opt, pc[c], err[c], status[Own(c)])
UndoneAt(c) == pc[c] \in {"rollback", "afterRollback"} => MayUndo(err[c])
OutcomeAt(c) == PlaceAt(c) /\ AttemptAt(c) /\ StageAt(c) /\ UndoneAt(c)

LEMMA OutcomeParts ==
  /\ OutcomeInv <=> /\ TypeOK /\ ErrorInv /\ \A e \in rolledBack : MayUndo(e)
                    /\ \A c \in Calls : OutcomeAt(c)
  /\ OutcomeInv' <=> /\ TypeOK' /\ ErrorInv' /\ \A e \in rolledBack' : MayUndo(e)
                     /\ \A c \in Calls : OutcomeAt(c)'
<1>1. OutcomeInv <=> /\ TypeOK /\ ErrorInv /\ \A e \in rolledBack : MayUndo(e)
                     /\ \A c \in Calls : OutcomeAt(c)
  BY DEF OutcomeInv, PlaceInv, AttemptInv, StageInv, UndoneInv,
         OutcomeAt, PlaceAt, AttemptAt, StageAt, UndoneAt
<1>2. OutcomeInv' <=> /\ TypeOK' /\ ErrorInv' /\ \A e \in rolledBack' : MayUndo(e)
                      /\ \A c \in Calls : OutcomeAt(c)'
  BY DEF OutcomeInv, PlaceInv, AttemptInv, StageInv, UndoneInv,
         OutcomeAt, PlaceAt, AttemptAt, StageAt, UndoneAt, MayUndo, shouldRollback, Fits
<1> QED BY <1>1, <1>2

\* A call's part of the state: nothing else matters to OutcomeAt(d).
Same(d) == /\ pc'[d] = pc[d] /\ call'[d] = call[d] /\ attempt'[d] = attempt[d] /\ err'[d] = err[d]
           /\ \A a \in Attempts : status'[<<d, a>>] = status[<<d, a>>]

LEMMA SameOutcome ==
  ASSUME TypeOK, NEW d \in Calls, Same(d), OutcomeAt(d)
  PROVE  OutcomeAt(d)'
<1>1. attempt[d] \in Attempts
  BY DEF TypeOK
<1>2. Own(d)' = Own(d) /\ status'[Own(d)] = status[Own(d)]
  BY <1>1 DEF Own, Same
<1>3. PlaceAt(d)'
  BY DEF Same, OutcomeAt, PlaceAt, Active, KindPCs
<1>4. AttemptAt(d)'
  BY DEF Same, OutcomeAt, AttemptAt
<1>5. StageAt(d)'
  BY <1>2 DEF Same, OutcomeAt, StageAt, Fits, shouldRollback
<1>6. UndoneAt(d)'
  BY DEF Same, OutcomeAt, UndoneAt, MayUndo, shouldRollback
<1> QED BY <1>3, <1>4, <1>5, <1>6 DEF OutcomeAt

-------------------------------------------------------------------------------
(* The steps of one call. *)

\* A step of call c changes nothing of another call, and of its own
\* transactions only the current attempt's.
LEMMA StepElsewhere ==
  ASSUME TypeOK, NEW c \in Calls, Step(c)
  PROVE  /\ \A d \in Calls \ {c} : Same(d)
         /\ call' = call
         /\ \A a \in Attempts : a # attempt[c] => status'[<<c, a>>] = status[<<c, a>>]
<1> DEFINE Goal == /\ \A d \in Calls \ {c} : Same(d)
                   /\ call' = call
                   /\ \A a \in Attempts : a # attempt[c] => status'[<<c, a>>] = status[<<c, a>>]
<1>0. /\ \A d \in Calls \ {c}, a \in Attempts : <<d, a>> \in Tx /\ <<d, a>> # Own(c)
      /\ \A a \in Attempts : <<c, a>> \in Tx /\ (a # attempt[c] => <<c, a>> # Own(c))
  BY DEF Tx, Own
<1>1. CASE Begin(c) \/ Commit(c) \/ CommitFails(c) \/ Rollback(c)
  <2>1. \E x : status' = [status EXCEPT ![Own(c)] = x]
    BY <1>1 DEF Begin, Commit, CommitFails, Rollback
  <2>2. \A t \in Tx : t # Own(c) => status'[t] = status[t]
    BY <2>1 DEF TypeOK
  <2>3. /\ \A d \in Calls \ {c}, a \in Attempts : status'[<<d, a>>] = status[<<d, a>>]
        /\ \A a \in Attempts : a # attempt[c] => status'[<<c, a>>] = status[<<c, a>>]
    BY <1>0, <2>2
  <2>4. /\ call' = call /\ attempt' = attempt
        /\ \A d \in Calls \ {c} : pc'[d] = pc[d] /\ err'[d] = err[d]
    BY <1>1 DEF Begin, Commit, CommitFails, Rollback, Goto, TypeOK
  <2> QED BY <2>3, <2>4 DEF Same
<1>2. CASE BeginFails(c) \/ FnReturns(c) \/ HookDone(c) \/ BeforeCommitDone(c)
  <2>1. /\ call' = call /\ attempt' = attempt /\ status' = status
        /\ \A d \in Calls \ {c} : pc'[d] = pc[d] /\ err'[d] = err[d]
    BY <1>2 DEF BeginFails, FnReturns, HookDone, BeforeCommitDone, EndInner, Finish, Goto, TypeOK, Frames
  <2> QED BY <2>1 DEF Same
<1>3. CASE FnThrows(c) \/ BeforeCommitThrows(c)
  <2>1. /\ call' = call /\ attempt' = attempt /\ status' = status
        /\ \A d \in Calls \ {c} : pc'[d] = pc[d] /\ err'[d] = err[d]
    BY <1>3 DEF FnThrows, BeforeCommitThrows, InnerThrows, Settle, EndInner, Finish, Goto, TypeOK
  <2> QED BY <2>1 DEF Same
<1>4. CASE AfterCommitDone(c) \/ AfterRollbackDone(c) \/ Retry(c) \/ GiveUpOrReturn(c) \/ Restore(c)
  <2>1. /\ call' = call /\ status' = status
        /\ \A d \in Calls \ {c} : attempt'[d] = attempt[d] /\ pc'[d] = pc[d] /\ err'[d] = err[d]
    BY <1>4 DEF AfterCommitDone, AfterRollbackDone, Retry, GiveUpOrReturn, Restore, Finish, Goto, TypeOK
  <2> QED BY <2>1 DEF Same
<1>5. CASE Savepoint(c) \/ Release(c) \/ RollbackTo(c)
  <2>1. /\ call' = call /\ attempt' = attempt /\ status' = status
        /\ \A d \in Calls \ {c} : pc'[d] = pc[d] /\ err'[d] = err[d]
    BY <1>5 DEF Savepoint, Release, RollbackTo, Settle, Finish, Goto, TypeOK
  <2> QED BY <2>1 DEF Same
<1> QED BY <1>1, <1>2, <1>3, <1>4, <1>5 DEF Step

\* A call that moves to a place that fits its error and its transaction keeps
\* its part of OutcomeInv.
LEMMA MoveOutcome ==
  ASSUME TypeOK, TypeOK', NEW c \in Calls, OutcomeAt(c), call' = call, attempt'[c] = attempt[c],
         \A a \in Attempts : a # attempt[c] => status'[<<c, a>>] = status[<<c, a>>],
         Active(c), pc[c] = "restore" => pc'[c] = "done",
         pc'[c] # "idle", pc'[c] # "done" => pc'[c] \in KindPCs(c),
         call[c].kind # "new" => status'[Own(c)] = "none",
         call[c].kind = "new" => Fits(call[c].opt, pc'[c], err'[c], status'[Own(c)]),
         pc'[c] \in {"rollback", "afterRollback"} => MayUndo(err'[c])
  PROVE  OutcomeAt(c)'
<1>1. attempt[c] \in Attempts /\ Own(c)' = Own(c)
  BY DEF TypeOK, Own
<1>2. PlaceAt(c)'
  BY DEF OutcomeAt, PlaceAt, KindPCs, Active
<1>3. AttemptAt(c)'
  BY <1>1, BoundsAssumption DEF OutcomeAt, AttemptAt, Own, Attempts
<1>4. StageAt(c)'
  BY <1>1 DEF StageAt, Fits, shouldRollback
<1>5. UndoneAt(c)'
  BY DEF UndoneAt, MayUndo, shouldRollback
<1> QED BY <1>2, <1>3, <1>4, <1>5 DEF OutcomeAt

LEMMA SettleMove ==
  ASSUME TypeOK, NEW c \in Calls
  PROVE  /\ \A l : Goto(c, l) => pc'[c] = l
         /\ Finish(c) => pc'[c] = IF call[c].saved # None THEN "restore" ELSE "done"
         /\ \A e : err' = [err EXCEPT ![c] = e] => err'[c] = e
         /\ \A s : status' = [status EXCEPT ![Own(c)] = s] => status'[Own(c)] = s
BY HelperTypes DEF TypeOK, Goto, Finish

\* A step of a call keeps its own part of OutcomeInv.
LEMMA StepOutcome ==
  ASSUME OutcomeInv, TypeOK', NEW c \in Calls, Step(c)
  PROVE  OutcomeAt(c)' /\ \A e \in rolledBack' : MayUndo(e)
<1>0. /\ TypeOK /\ OutcomeAt(c) /\ \A e \in rolledBack : MayUndo(e)
      /\ attempt[c] \in Attempts /\ call[c] \in Frames /\ Own(c) \in Tx
  BY OutcomeParts, HelperTypes DEF TypeOK
<1>1. /\ Active(c) /\ pc[c] \in KindPCs(c) /\ Own(c) = <<c, attempt[c]>>
      /\ call[c].kind # "new" => status[Own(c)] = "none"
      /\ call[c].kind = "savepoint" => call[c].saved = None
      /\ call[c].kind = "new" => pc[c] = "restore" \/ call[c].opt.maxAttempts > 0
      /\ call[c].kind = "new" => Fits(call[c].opt, pc[c], err[c], status[Own(c)])
  <2>1. Active(c)
    BY DEF Step, Begin, BeginFails, FnReturns, FnThrows, BeforeCommitThrows, BeforeCommitDone, HookDone,
           Commit, CommitFails, Rollback, AfterCommitDone, AfterRollbackDone, Retry, GiveUpOrReturn,
           Restore, Savepoint, Release, RollbackTo, Active, Phases
  <2> QED BY <1>0, <2>1 DEF OutcomeAt, PlaceAt, AttemptAt, StageAt, Own
<1>2. /\ call' = call
      /\ \A a \in Attempts : a # attempt[c] => status'[<<c, a>>] = status[<<c, a>>]
  BY <1>0, StepElsewhere
<1>3. /\ Thrown(c) \subseteq Errors /\ None \notin Errors
      /\ \A e \in DriverError(c) : e # None /\ MayUndo(e)
  BY <1>0, HelperTypes, NoneAssumption DEF DriverError, MayUndo
<1>4. \A e : call[c].opt.maxAttempts > 0 /\ shouldRollback(e, call[c].opt) => MayUndo(e)
  BY <1>0 DEF MayUndo, Frames
\* What is left to show of a step that does not retry.
<1> DEFINE Kept == /\ attempt'[c] = attempt[c] /\ (pc[c] = "restore" => pc'[c] = "done")
                   /\ pc'[c] # "idle" /\ (pc'[c] # "done" => pc'[c] \in KindPCs(c))
                   /\ call[c].kind # "new" => status'[Own(c)] = "none"
                   /\ call[c].kind = "new" => Fits(call[c].opt, pc'[c], err'[c], status'[Own(c)])
                   /\ pc'[c] \in {"rollback", "afterRollback"} => MayUndo(err'[c])
<1>5. ASSUME Kept PROVE OutcomeAt(c)'
  BY <1>0, <1>1, <1>2, <1>5, MoveOutcome
<1>6. CASE Begin(c)
  <2>1. /\ pc'[c] = "body" /\ err'[c] = err[c] /\ attempt' = attempt /\ rolledBack' = rolledBack
        /\ status'[Own(c)] = "open" /\ pc[c] = "begin"
    BY <1>0, <1>6, SettleMove DEF Begin
  <2>2. call[c].kind = "new"
    BY <1>0, <1>1, <2>1 DEF KindPCs, Frames
  <2> QED BY <1>0, <1>1, <1>5, <2>1, <2>2 DEF Fits, KindPCs
<1>7. CASE BeginFails(c)
  <2>1. /\ pc'[c] = "attemptEnd" /\ err'[c] # None /\ attempt' = attempt /\ status' = status
        /\ pc[c] = "begin" /\ \A e \in rolledBack' : MayUndo(e)
    BY <1>0, <1>3, <1>7, SettleMove DEF BeginFails
  <2>2. call[c].kind = "new"
    BY <1>0, <1>1, <2>1 DEF KindPCs, Frames
  <2> QED BY <1>1, <1>5, <2>1, <2>2 DEF Fits, KindPCs
<1>8. CASE FnReturns(c)
  <2>1. /\ err' = err /\ attempt' = attempt /\ status' = status /\ rolledBack' = rolledBack
        /\ pc[c] = "body"
        /\ call[c].kind = "new" => pc'[c] = "beforeCommit"
        /\ call[c].kind = "savepoint" => pc'[c] = "release"
        /\ call[c].kind = "direct" => pc'[c] \in {"restore", "done"}
    BY <1>0, <1>8, SettleMove DEF FnReturns
  <2> QED BY <1>0, <1>1, <1>5, <2>1 DEF Fits, KindPCs, Phases, Frames
<1>9. ASSUME NEW e \in Thrown(c), InnerThrows(c, e)
      PROVE  /\ err'[c] = e /\ e # None
             /\ pc'[c] = IF shouldRollback(e, call[c].opt) THEN "rollback" ELSE "commit"
  BY <1>0, <1>3, <1>9, SettleMove DEF InnerThrows, EndInner
<1>10. CASE FnThrows(c)
  <2>1. /\ attempt' = attempt /\ status' = status /\ rolledBack' = rolledBack /\ pc[c] = "body"
        /\ err'[c] # None
        /\ call[c].kind = "new" =>
             pc'[c] = IF shouldRollback(err'[c], call[c].opt) THEN "rollback" ELSE "commit"
        /\ call[c].kind = "savepoint" => pc'[c] \in {"rollbackTo", "release"}
        /\ call[c].kind = "direct" => pc'[c] \in {"restore", "done"}
    BY <1>0, <1>3, <1>9, <1>10, SettleMove DEF FnThrows, Settle
  <2> QED BY <1>0, <1>1, <1>4, <1>5, <2>1 DEF Fits, KindPCs, Frames
<1>11. CASE BeforeCommitThrows(c)
  <2>1. /\ attempt' = attempt /\ status' = status /\ rolledBack' = rolledBack /\ pc[c] = "beforeCommit"
        /\ err'[c] # None
        /\ pc'[c] = IF shouldRollback(err'[c], call[c].opt) THEN "rollback" ELSE "commit"
    BY <1>0, <1>9, <1>11 DEF BeforeCommitThrows
  <2>2. call[c].kind = "new"
    BY <1>0, <1>1, <2>1 DEF KindPCs, Frames
  <2> QED BY <1>0, <1>1, <1>4, <1>5, <2>1, <2>2 DEF Fits, KindPCs
<1>12. CASE BeforeCommitDone(c) \/ AfterCommitDone(c)
  <2>1. /\ attempt' = attempt /\ status' = status /\ rolledBack' = rolledBack /\ err' = err
        /\ \/ pc[c] = "beforeCommit" /\ pc'[c] = "commit"
           \/ pc[c] = "afterCommit" /\ pc'[c] = "attemptEnd"
    BY <1>0, <1>12, SettleMove DEF BeforeCommitDone, AfterCommitDone, EndInner
  <2>2. call[c].kind = "new"
    BY <1>0, <1>1, <2>1 DEF KindPCs, Frames
  <2> QED BY <1>0, <1>1, <1>5, <2>1, <2>2 DEF Fits, KindPCs
<1>13. CASE HookDone(c)
  <2>1. Same(c) /\ rolledBack' = rolledBack
    BY <1>13 DEF HookDone, Same
  <2> QED BY <1>0, <2>1, SameOutcome
<1>14. CASE Commit(c) \/ CommitFails(c) \/ Rollback(c)
  <2>1. /\ attempt' = attempt /\ rolledBack' = rolledBack
        /\ \/ /\ pc[c] = "commit" /\ pc'[c] = "afterCommit" /\ err' = err
              /\ status'[Own(c)] = "committed"
           \/ /\ pc[c] = "commit" /\ pc'[c] = "afterRollback" /\ err'[c] # None /\ MayUndo(err'[c])
              /\ status'[Own(c)] = "rolledBack"
           \/ /\ pc[c] = "rollback" /\ pc'[c] = "afterRollback" /\ err' = err
              /\ status'[Own(c)] = "rolledBack"
    BY <1>0, <1>3, <1>14, SettleMove DEF Commit, CommitFails, Rollback
  <2>2. call[c].kind = "new"
    BY <1>0, <1>1, <2>1 DEF KindPCs, Frames
  <2> QED BY <1>0, <1>1, <1>5, <2>1, <2>2 DEF Fits, KindPCs, Phases, OutcomeAt, UndoneAt
<1>15. CASE AfterRollbackDone(c)
  <2>1. /\ attempt' = attempt /\ status' = status /\ err' = err
        /\ pc[c] = "afterRollback" /\ pc'[c] = "attemptEnd" /\ rolledBack' = rolledBack \cup {err[c]}
    BY <1>0, <1>15, SettleMove DEF AfterRollbackDone
  <2>2. call[c].kind = "new"
    BY <1>0, <1>1, <2>1 DEF KindPCs, Frames
  <2> QED BY <1>0, <1>1, <1>5, <2>1, <2>2 DEF Fits, KindPCs, OutcomeAt, UndoneAt
<1>16. CASE Retry(c)
  <2>1. /\ attempt'[c] = attempt[c] + 1 /\ status' = status /\ err'[c] = None
        /\ pc[c] = "attemptEnd" /\ pc'[c] = "begin" /\ rolledBack' = rolledBack
    BY <1>0, <1>16, SettleMove DEF Retry, TypeOK
  <2>2. call[c].kind = "new"
    BY <1>0, <1>1, <2>1 DEF KindPCs, Frames
  <2>3. attempt'[c] \in Attempts /\ Own(c)' = <<c, attempt[c] + 1>>
    BY <2>1 DEF TypeOK, Own
  <2>4. status'[Own(c)'] = "none" /\ status[Own(c)] # "open"
    BY <1>0, <1>1, <2>1, <2>2, <2>3, BoundsAssumption DEF OutcomeAt, AttemptAt, Attempts, Fits
  <2>5. AttemptAt(c)'
    BY <1>0, <1>1, <1>2, <2>1, <2>2, <2>3, <2>4, BoundsAssumption DEF OutcomeAt, AttemptAt, Attempts
  <2> QED BY <1>0, <1>1, <1>2, <2>1, <2>2, <2>4, <2>5 DEF OutcomeAt, PlaceAt, StageAt, UndoneAt, Fits, KindPCs, Active
<1>17. CASE GiveUpOrReturn(c) \/ Restore(c)
  <2>1. /\ attempt' = attempt /\ status' = status /\ err' = err /\ rolledBack' = rolledBack
        /\ pc[c] \in {"attemptEnd", "restore"} /\ pc'[c] \in {"restore", "done"}
        /\ pc[c] = "restore" => pc'[c] = "done"
    BY <1>0, <1>17, SettleMove DEF GiveUpOrReturn, Restore
  <2>2. call[c].kind # "savepoint"
    BY <1>0, <1>1, <2>1 DEF KindPCs, Frames
  <2> QED BY <1>0, <1>1, <1>5, <2>1, <2>2 DEF Fits, KindPCs, Frames
<1>18. CASE Savepoint(c) \/ Release(c) \/ RollbackTo(c)
  <2>1. call[c].kind = "savepoint"
    BY <1>0, <1>1, <1>18 DEF KindPCs, Frames, Phases, Savepoint, Release, RollbackTo
  <2>2. /\ attempt' = attempt /\ status' = status /\ rolledBack' = rolledBack
        /\ pc'[c] \in {"body", "done", "rollbackTo"}
    BY <1>0, <1>1, <1>18, <2>1, SettleMove DEF Savepoint, Release, RollbackTo, Settle
  <2> QED BY <1>0, <1>1, <1>5, <2>1, <2>2 DEF KindPCs
<1> QED BY <1>6, <1>7, <1>8, <1>10, <1>11, <1>12, <1>13, <1>14, <1>15, <1>16, <1>17, <1>18 DEF Step

-------------------------------------------------------------------------------
(* The arrival of a call. *)

\* run() starts a call in a place that fits: it has no transaction yet.
LEMMA RunOutcome ==
  ASSUME OutcomeInv, TypeOK', NEW p \in Calls \cup {None}, NEW c \in Calls, NEW o \in Options,
         Run(p, c, o)
  PROVE  (\A d \in Calls : OutcomeAt(d)') /\ rolledBack' = rolledBack
<1>0. TypeOK /\ (\A d \in Calls : OutcomeAt(d))
  BY OutcomeParts
<1> DEFINE K == {"direct", "new", "savepoint"}
<1>a. PICK kind \in K : \E saved : Invoke(p, c, o, kind, saved) /\ (kind = "savepoint" => saved = None)
  BY DEF Run, RunDirect, RunSuspended, RunRefused, RunNew, RunNested
<1>1. PICK saved : Invoke(p, c, o, kind, saved) /\ (kind = "savepoint" => saved = None)
  BY <1>a
<1>2. /\ \A d \in Calls \ {c} : pc'[d] = pc[d] /\ err'[d] = err[d] /\ call'[d] = call[d]
      /\ attempt' = attempt /\ status' = status /\ rolledBack' = rolledBack
  BY <1>0, <1>1 DEF Run, RunDirect, RunSuspended, RunRefused, RunNew, RunNested, Invoke, Goto, TypeOK
<1>3. ASSUME NEW d \in Calls \ {c} PROVE OutcomeAt(d)'
  BY <1>0, <1>2, SameOutcome DEF Same
<1>4. /\ pc[c] = "idle" /\ attempt[c] = 1 /\ err[c] = None /\ Own(c) = <<c, 1>> /\ Own(c)' = <<c, 1>>
      /\ \A a \in Attempts : status'[<<c, a>>] = "none"
  BY <1>0, <1>2 DEF Run, MayInvoke, OutcomeAt, PlaceAt, AttemptAt, Own
<1>5. call'[c].kind = kind /\ call'[c].saved = saved
  BY <1>0, <1>1 DEF Invoke, TypeOK
<1>6. 1 \in Attempts /\ attempt'[c] = 1
  BY <1>2, <1>4, BoundsAssumption DEF Attempts
<1>7. AttemptAt(c)'
  BY <1>4, <1>6, BoundsAssumption DEF AttemptAt, Attempts
<1>8. \/ call'[c].kind = "direct" /\ pc'[c] \in {"body", "done"}
      \/ call'[c].kind = "new" /\ pc'[c] = "begin" /\ err'[c] = None /\ call'[c].opt.maxAttempts > 0
      \/ call'[c].kind = "new" /\ pc'[c] \in {"restore", "done"} /\ err'[c] # None
      \/ call'[c].kind = "savepoint" /\ pc'[c] = "savepoint"
  <2>1. CASE RunDirect(p, c, o) \/ RunSuspended(p, c, o) \/ RunRefused(p, c, o) \/ RunNested(p, c, o)
    BY <1>0, <2>1 DEF RunDirect, RunSuspended, RunRefused, RunNested, Invoke, Goto, TypeOK
  <2>2. CASE RunNew(p, c, o)
    <3>1. [cls |-> "TypeError", of |-> Own(c)] # None
      BY <1>0, HelperTypes, NoneAssumption DEF Errors, ErrorClasses, LibraryErrors
    <3>2. call'[c].kind = "new" /\ call'[c].opt = o
      BY <1>0, <2>2 DEF RunNew, Invoke, TypeOK
    <3>3. \/ pc'[c] = "begin" /\ err'[c] = None /\ o.maxAttempts > 0
          \/ pc'[c] \in {"restore", "done"} /\ err'[c] # None
      BY <1>0, <1>4, <2>2, <3>1 DEF RunNew, Goto, TypeOK
    <3> QED BY <3>2, <3>3
  <2> QED BY <2>1, <2>2 DEF Run
<1>9. OutcomeAt(c)'
  BY <1>1, <1>4, <1>5, <1>6, <1>7, <1>8
     DEF OutcomeAt, PlaceAt, StageAt, UndoneAt, Fits, KindPCs, Active
<1> QED BY <1>2, <1>3, <1>9

LEMMA InitOutcome == Init => OutcomeInv
<1> SUFFICES ASSUME Init PROVE OutcomeInv
  OBVIOUS
<1>1. TypeOK /\ ErrorInv
  BY InitType DEF Init, ErrorInv
<1>2. ASSUME NEW c \in Calls PROVE OutcomeAt(c)
  BY BoundsAssumption DEF Init, OutcomeAt, PlaceAt, AttemptAt, StageAt, UndoneAt, IdleFrame, Active, Tx
<1> QED BY <1>1, <1>2, OutcomeParts DEF Init

\* OutcomeInv is inductive, whether or not calls overlap.
LEMMA NextOutcome ==
  ASSUME OutcomeInv, [Next]_vars
  PROVE  OutcomeInv'
<1>0. /\ TypeOK /\ ErrorInv /\ \A e \in rolledBack : MayUndo(e)
      /\ \A d \in Calls : OutcomeAt(d)
  BY OutcomeParts
<1>1. ASSUME NEW p \in Calls \cup {None}, NEW c \in Calls, NEW o \in Options, Run(p, c, o)
      PROVE  OutcomeInv'
  <2>1. TypeOK' /\ ErrorInv'
    BY <1>0, <1>1, RunType, ErrorStep DEF Next
  <2> QED BY <1>0, <1>1, <2>1, RunOutcome, OutcomeParts
<1>2. ASSUME NEW c \in Calls, Step(c) PROVE OutcomeInv'
  <2>1. TypeOK' /\ ErrorInv'
    BY <1>0, <1>2, StepType, ErrorStep DEF Next
  <2>2. ASSUME NEW d \in Calls \ {c} PROVE OutcomeAt(d)'
    BY <1>0, <1>2, StepElsewhere, SameOutcome
  <2>3. OutcomeAt(c)' /\ \A e \in rolledBack' : MayUndo(e)
    BY <1>2, <2>1, StepOutcome
  <2> QED BY <2>1, <2>2, <2>3, OutcomeParts
<1>3. CASE \E c \in Calls, q \in Phases : Register(c, q)
  <2>1. TypeOK' /\ ErrorInv'
    BY <1>0, <1>3, RegisterType, ErrorStep DEF Next
  <2>2. rolledBack' = rolledBack /\ \A d \in Calls : Same(d)
    BY <1>3 DEF Register, Same
  <2> QED BY <1>0, <2>1, <2>2, SameOutcome, OutcomeParts
<1>4. CASE UNCHANGED vars
  <2>1. TypeOK' /\ ErrorInv'
    BY <1>0, <1>4 DEF vars, TypeOK, ErrorInv
  <2>2. rolledBack' = rolledBack /\ \A d \in Calls : Same(d)
    BY <1>4 DEF vars, Same
  <2> QED BY <1>0, <2>1, <2>2, SameOutcome, OutcomeParts
<1> QED BY <1>1, <1>2, <1>3, <1>4 DEF Next, Quiescent

LEMMA OutcomeInvariant == Spec => []OutcomeInv
<1> QED BY InitOutcome, NextOutcome, PTL DEF Spec

-------------------------------------------------------------------------------
(* What OutcomeInv implies. *)

\* The outcome run() reports is the outcome in the database, for every mix of
\* propagation modes, rollback rules, retries, failing BEGINs and COMMITs, and
\* whether or not the calls overlap: no rejection after a commit that the rules
\* did not ask for, no success without a commit.
THEOREM ToldOutcome == Spec => []OutcomeIsTold
<1>1. OutcomeInv => OutcomeIsTold
  <2> SUFFICES ASSUME OutcomeInv, NEW c \in Calls, pc[c] = "done", call[c].kind = "new"
               PROVE  /\ status[Own(c)] \in {"none", "committed", "rolledBack"}
                      /\ err[c] = None => status[Own(c)] = "committed"
                      /\ status[Own(c)] = "committed" /\ err[c] # None
                           => ~shouldRollback(err[c], call[c].opt)
    BY DEF OutcomeIsTold
  <2>1. status[Own(c)] \in {"none", "open", "committed", "rolledBack"}
    BY HelperTypes DEF OutcomeInv, TypeOK
  <2> QED BY <2>1 DEF OutcomeInv, StageInv, Fits
<1> QED BY <1>1, OutcomeInvariant, PTL

\* Every connection startNew takes from the pool is given back before its call
\* settles, in every attempt, also when calls overlap or a hook, BEGIN or COMMIT
\* fails: only the current attempt of a call under way holds one.
THEOREM ConnectionsReturn == Spec => []NoConnectionLeak
<1>1. OutcomeInv => NoConnectionLeak
  <2> SUFFICES ASSUME OutcomeInv, NEW c \in Calls, NEW a \in Attempts, status[<<c, a>>] = "open"
               PROVE  attempt[c] = a /\ Active(c)
    BY DEF NoConnectionLeak, Tx
  <2>1. attempt[c] \in Attempts
    BY DEF OutcomeInv, TypeOK
  <2>2. attempt[c] = a /\ pc[c] # "idle" /\ call[c].kind = "new"
    BY <2>1, BoundsAssumption DEF OutcomeInv, AttemptInv, Attempts
  <2>3. Fits(call[c].opt, pc[c], err[c], status[<<c, a>>])
    BY <2>2 DEF OutcomeInv, StageInv, Own
  <2> QED BY <2>2, <2>3 DEF Fits, Active
<1> QED BY <1>1, OutcomeInvariant, PTL

-------------------------------------------------------------------------------
(* At most one commit, and the promise to the caller. *)

\* When the options agree, an attempt that committed is not followed by another.
LEMMA RetriedWasUndone ==
  ASSUME RulesAgree, OutcomeInv, NEW c \in Calls, pc[c] = "attemptEnd", Retryable(c)
  PROVE  status[Own(c)] # "committed"
<1>1. /\ call[c].kind = "new" /\ call[c].opt \in Options /\ err[c] \in Errors
      /\ call[c].opt.maxAttempts > 1
  <2>1. call[c] \in Frames /\ attempt[c] \in Attempts /\ err[c] \in Errors
    BY DEF OutcomeInv, TypeOK, Retryable
  <2>2. call[c].opt.maxAttempts \in Nat
    BY <2>1, OptionsAssumption DEF Frames, OptionRecords
  <2>3. call[c].kind = "new"
    BY <2>1 DEF OutcomeInv, PlaceInv, Active, KindPCs, Frames
  <2> QED BY <2>1, <2>2, <2>3, BoundsAssumption DEF Frames, Attempts, Retryable
<1>2. MayUndo(err[c])
  BY DEF OutcomeInv, UndoneInv, Retryable
<1> QED BY <1>1, <1>2 DEF OutcomeInv, StageInv, Fits, RulesAgree, Retryable

\* The only step after which an older attempt exists is a retry.
LEMMA NextOnce ==
  ASSUME RulesAgree, OutcomeInv, OutcomeInv', CommitsAtMostOnce, [Next]_vars
  PROVE  CommitsAtMostOnce'
<1> SUFFICES ASSUME NEW d \in Calls, NEW a \in Attempts, status'[<<d, a>>] = "committed"
             PROVE  attempt'[d] = a
  BY DEF CommitsAtMostOnce, Tx
<1>0. TypeOK /\ TypeOK' /\ <<d, a>> \in Tx
  BY DEF OutcomeInv, Tx
<1>1. CASE Same(d)
  BY <1>0, <1>1 DEF Same, CommitsAtMostOnce
<1>2. ASSUME NEW p \in Calls \cup {None}, NEW c \in Calls, NEW o \in Options, Run(p, c, o)
      PROVE  attempt'[d] = a
  <2>1. attempt' = attempt /\ status' = status
    BY <1>2 DEF Run, RunDirect, RunSuspended, RunRefused, RunNew, RunNested, Invoke
  <2> QED BY <1>0, <2>1 DEF CommitsAtMostOnce
<1>3. ASSUME Step(d) PROVE attempt'[d] = a
  <2>1. CASE Retry(d)
    <3>1. status[Own(d)] # "committed" /\ status' = status
      BY <2>1, RetriedWasUndone DEF Retry
    <3> QED BY <1>0, <3>1 DEF CommitsAtMostOnce, Own
  <2>2. CASE ~Retry(d)
    <3>1. attempt' = attempt
      BY <1>3, <2>2 DEF Step, Begin, BeginFails, FnReturns, FnThrows, BeforeCommitThrows, BeforeCommitDone,
           HookDone, Commit, CommitFails, Rollback, AfterCommitDone, AfterRollbackDone, GiveUpOrReturn,
           Restore, Savepoint, Release, RollbackTo
    <3>2. a # attempt[d] => status'[<<d, a>>] = status[<<d, a>>]
      BY <1>0, <1>3, StepElsewhere
    <3> QED BY <1>0, <3>1, <3>2 DEF CommitsAtMostOnce
  <2> QED BY <2>1, <2>2
<1>4. ASSUME NEW c \in Calls \ {d}, Step(c) PROVE attempt'[d] = a
  BY <1>0, <1>1, <1>4, StepElsewhere
<1>5. CASE \E c \in Calls, q \in Phases : Register(c, q)
  BY <1>1, <1>5 DEF Register, Same
<1>6. CASE UNCHANGED vars
  BY <1>1, <1>6 DEF vars, Same
<1> QED BY <1>2, <1>3, <1>4, <1>5, <1>6 DEF Next, Quiescent

LEMMA OnceInvariant == ASSUME RulesAgree PROVE Spec => [](OutcomeInv /\ CommitsAtMostOnce)
<1>1. Init => CommitsAtMostOnce
  BY DEF Init, CommitsAtMostOnce
<1>2. CommitsAtMostOnce /\ OutcomeInv /\ OutcomeInv' /\ [Next]_vars => CommitsAtMostOnce'
  BY NextOnce
<1> QED BY <1>1, <1>2, OutcomeInvariant, PTL DEF Spec

\* Committed work is never done a second time by startNewWithRetry, in every
\* configuration whose rollback rules agree on the classes that are retried and
\* committed on; the configuration in which they disagree is a known violation.
THEOREM CommitOnce == ASSUME RulesAgree PROVE Spec => []CommitsAtMostOnce
<1> QED BY OnceInvariant, PTL

\* RunContract sees of a call's transactions what the current attempt did, and
\* of the earlier ones only that they were undone.
Folded == \A c \in Calls :
  /\ status[Own(c)] = "open" => workOf[c] = "open"
  /\ status[Own(c)] = "committed" => workOf[c] = "committed"
  /\ status[Own(c)] = "rolledBack" => workOf[c] = "undone"
  /\ status[Own(c)] = "none" => workOf[c] \in {"none", "undone"}
  /\ pc[c] = "idle" \/ call[c].kind # "new" => workOf[c] = "none"

LEMMA WorkFolds == OutcomeInv /\ CommitsAtMostOnce => Folded
<1> SUFFICES ASSUME OutcomeInv, CommitsAtMostOnce, NEW c \in Calls
             PROVE  /\ status[Own(c)] = "open" => workOf[c] = "open"
                    /\ status[Own(c)] = "committed" => workOf[c] = "committed"
                    /\ status[Own(c)] = "rolledBack" => workOf[c] = "undone"
                    /\ status[Own(c)] = "none" => workOf[c] \in {"none", "undone"}
                    /\ pc[c] = "idle" \/ call[c].kind # "new" => workOf[c] = "none"
  BY DEF Folded
<1> DEFINE seen == {status[<<c, a>>] : a \in Attempts}
<1>1. workOf[c] = IF "committed" \in seen /\ "open" \notin seen THEN "committed"
                  ELSE IF "open" \in seen THEN "open"
                  ELSE IF "rolledBack" \in seen THEN "undone" ELSE "none"
  BY DEF workOf
<1>2. attempt[c] \in Attempts /\ Own(c) = <<c, attempt[c]>> /\ status[Own(c)] \in seen
  BY DEF OutcomeInv, TypeOK, Own
<1>3. ASSUME NEW a \in Attempts
      PROVE  /\ status[<<c, a>>] = "open" => status[Own(c)] = "open"
             /\ status[<<c, a>>] = "committed" => status[Own(c)] = "committed"
             /\ pc[c] = "idle" \/ call[c].kind # "new" => status[<<c, a>>] = "none"
  <2>1. /\ status[<<c, a>>] = "open" => a = attempt[c]
        /\ pc[c] = "idle" \/ call[c].kind # "new" => status[<<c, a>>] = "none"
    BY <1>2, BoundsAssumption DEF OutcomeInv, AttemptInv, Attempts
  <2>2. <<c, a>> \in Tx /\ <<c, a>>[1] = c /\ <<c, a>>[2] = a
    BY DEF Tx
  <2>3. status[<<c, a>>] = "committed" => a = attempt[c]
    BY <2>2 DEF CommitsAtMostOnce
  <2> QED BY <1>2, <2>1, <2>3
<1>4. /\ "open" \in seen => status[Own(c)] = "open"
      /\ "committed" \in seen => status[Own(c)] = "committed"
  BY <1>3
<1>5. pc[c] = "idle" \/ call[c].kind # "new" => seen = {"none"}
  BY <1>2, <1>3
<1> HIDE DEF seen
<1> QED BY <1>1, <1>2, <1>4, <1>5

LEMMA WorkFoldsNext == OutcomeInv' /\ CommitsAtMostOnce' => Folded'
BY WorkFolds, PTL

\* The abstract view of a call none of whose variables change stays the same.
LEMMA SameView ==
  ASSUME NEW d \in Calls
  PROVE  /\ (\A a \in Attempts : status'[<<d, a>>] = status[<<d, a>>]) => workOf'[d] = workOf[d]
         /\ Same(d) => phaseOf'[d] = phaseOf[d] /\ workOf'[d] = workOf[d]
<1>1. ASSUME \A a \in Attempts : status'[<<d, a>>] = status[<<d, a>>]
      PROVE  workOf'[d] = workOf[d]
  <2>1. {status'[<<d, a>>] : a \in Attempts} = {status[<<d, a>>] : a \in Attempts}
    BY <1>1
  <2> QED BY <2>1 DEF workOf
<1> QED BY <1>1 DEF Same, phaseOf

\* The views are functions on Calls, so a step that changes the view of one call
\* is an EXCEPT.
LEMMA ViewExcept ==
  ASSUME NEW c \in Calls, \A d \in Calls \ {c} : phaseOf'[d] = phaseOf[d] /\ workOf'[d] = workOf[d]
  PROVE  /\ \A x : phaseOf'[c] = x => phaseOf' = [phaseOf EXCEPT ![c] = x]
         /\ \A x : workOf'[c] = x => workOf' = [workOf EXCEPT ![c] = x]
         /\ phaseOf'[c] = phaseOf[c] => phaseOf' = phaseOf
         /\ workOf'[c] = workOf[c] => workOf' = workOf
<1> DEFINE ph(d) == IF pc[d] = "idle" THEN "idle" ELSE IF pc[d] # "done" THEN "running"
                    ELSE IF err[d] = None THEN "returned" ELSE "threw"
           wk(d) == LET seen == {status[<<d, a>>] : a \in Attempts}
                    IN  IF "committed" \in seen /\ "open" \notin seen THEN "committed"
                        ELSE IF "open" \in seen THEN "open"
                        ELSE IF "rolledBack" \in seen THEN "undone" ELSE "none"
<1>1. /\ phaseOf = [d \in Calls |-> ph(d)] /\ phaseOf' = [d \in Calls |-> ph(d)']
      /\ workOf = [d \in Calls |-> wk(d)] /\ workOf' = [d \in Calls |-> wk(d)']
  BY DEF phaseOf, workOf
<1> HIDE DEF ph, wk
<1> QED BY <1>1

\* The arrival of a call is RunContract's Invoke.
LEMMA RunView ==
  ASSUME OutcomeInv, NEW p \in Calls \cup {None}, NEW c \in Calls, NEW o \in Options, Run(p, c, o)
  PROVE  Contract!Next
<1>0. TypeOK
  BY DEF OutcomeInv
<1>1. /\ \A d \in Calls \ {c} : pc'[d] = pc[d] /\ err'[d] = err[d]
      /\ status' = status /\ pc[c] = "idle"
  BY <1>0 DEF Run, RunDirect, RunSuspended, RunRefused, RunNew, RunNested, MayInvoke, Invoke, Goto, TypeOK
<1>2. workOf' = workOf
  BY <1>1 DEF workOf
<1>3. \A d \in Calls \ {c} : phaseOf'[d] = phaseOf[d]
  BY <1>1 DEF phaseOf
<1>4. pc'[c] # "idle" /\ (pc'[c] = "done" => err'[c] # None)
  <2>1. \A cls \in LibraryErrors : [cls |-> cls, of |-> Own(c)] # None
    BY <1>0, HelperTypes, NoneAssumption DEF Errors, ErrorClasses
  <2> QED BY <1>0, <2>1 DEF Run, RunDirect, RunSuspended, RunRefused, RunNew, RunNested, Goto,
                            TypeOK, LibraryErrors
<1>5. phaseOf[c] = "idle" /\ phaseOf'[c] \in {"running", "threw"}
  BY <1>1, <1>4 DEF phaseOf
<1>6. \E x \in {"running", "threw"} : phaseOf' = [phaseOf EXCEPT ![c] = x]
  BY <1>2, <1>3, <1>5, ViewExcept
<1> QED BY <1>2, <1>5, <1>6 DEF Contract!Next, Contract!Invoke

\* A step of a call opens its work, ends it, settles the call or is not seen.
LEMMA StepView ==
  ASSUME OutcomeInv, OutcomeInv', CommitsAtMostOnce, CommitsAtMostOnce', NEW c \in Calls, Step(c)
  PROVE  [Contract!Next]_(Contract!vars)
<1>0. TypeOK /\ TypeOK' /\ Folded /\ Folded' /\ call[c] \in Frames
  BY WorkFolds, WorkFoldsNext DEF OutcomeInv, TypeOK
<1>1. /\ \A d \in Calls \ {c} : phaseOf'[d] = phaseOf[d] /\ workOf'[d] = workOf[d]
      /\ call' = call
  BY <1>0, StepElsewhere, SameView
<1>2. /\ \A x : phaseOf'[c] = x => phaseOf' = [phaseOf EXCEPT ![c] = x]
      /\ \A x : workOf'[c] = x => workOf' = [workOf EXCEPT ![c] = x]
      /\ phaseOf'[c] = phaseOf[c] => phaseOf' = phaseOf
      /\ workOf'[c] = workOf[c] => workOf' = workOf
  BY <1>1, ViewExcept
<1>3. pc[c] \in KindPCs(c) /\ Active(c) /\ phaseOf[c] = "running"
  <2>1. Active(c)
    BY DEF Step, Begin, BeginFails, FnReturns, FnThrows, BeforeCommitThrows, BeforeCommitDone, HookDone,
           Commit, CommitFails, Rollback, AfterCommitDone, AfterRollbackDone, Retry, GiveUpOrReturn,
           Restore, Savepoint, Release, RollbackTo, Active, Phases
  <2> QED BY <2>1 DEF OutcomeInv, PlaceInv, phaseOf, Active
<1>4. CASE Begin(c)
  <2>1. /\ pc[c] = "begin" /\ pc'[c] = "body" /\ attempt' = attempt /\ status'[Own(c)] = "open"
    BY <1>0, <1>4, SettleMove DEF Begin
  <2>2. call[c].kind = "new" /\ Own(c)' = Own(c)
    BY <1>0, <1>3, <2>1 DEF KindPCs, Frames, Own
  <2>3. status[Own(c)] = "none"
    BY <2>1, <2>2 DEF OutcomeInv, StageInv, Fits
  <2>4. workOf[c] \in {"none", "undone"} /\ workOf'[c] = "open"
    BY <1>0, <2>1, <2>2, <2>3 DEF Folded
  <2>5. phaseOf'[c] = phaseOf[c]
    BY <1>3, <2>1 DEF phaseOf
  <2>6. Contract!Open(c)
    BY <1>2, <1>3, <2>4, <2>5 DEF Contract!Open
  <2> QED BY <2>6 DEF Contract!Next
<1>5. CASE Commit(c) \/ CommitFails(c) \/ Rollback(c)
  <2>1. /\ pc[c] \in {"commit", "rollback"} /\ pc'[c] \in {"afterCommit", "afterRollback"}
        /\ attempt' = attempt /\ status'[Own(c)] \in {"committed", "rolledBack"}
    BY <1>0, <1>5, SettleMove DEF Commit, CommitFails, Rollback
  <2>2. call[c].kind = "new" /\ Own(c)' = Own(c)
    BY <1>0, <1>3, <2>1 DEF KindPCs, Frames, Own
  <2>3. status[Own(c)] = "open"
    BY <2>1, <2>2 DEF OutcomeInv, StageInv, Fits
  <2>4. workOf[c] = "open" /\ workOf'[c] \in {"committed", "undone"}
    BY <1>0, <2>1, <2>2, <2>3 DEF Folded
  <2>5. phaseOf'[c] = phaseOf[c]
    BY <1>3, <2>1 DEF phaseOf
  <2>6. Contract!End(c)
    BY <1>2, <1>3, <2>4, <2>5 DEF Contract!End
  <2> QED BY <2>6 DEF Contract!Next
<1>6. CASE ~(Begin(c) \/ Commit(c) \/ CommitFails(c) \/ Rollback(c))
  <2>1. status' = status
    BY <1>6 DEF Step, BeginFails, FnReturns, FnThrows, BeforeCommitThrows, BeforeCommitDone, HookDone,
           AfterCommitDone, AfterRollbackDone, Retry, GiveUpOrReturn, Restore, Savepoint, Release, RollbackTo
  <2>2. workOf' = workOf
    BY <2>1 DEF workOf
  <2>3. pc'[c] # "idle"
    BY <1>0, <1>6, SettleMove
       DEF Step, BeginFails, FnReturns, FnThrows, BeforeCommitThrows, BeforeCommitDone, HookDone,
           AfterCommitDone, AfterRollbackDone, Retry, GiveUpOrReturn, Restore, Savepoint, Release, RollbackTo,
           InnerThrows, EndInner, Settle, Frames, Phases
  <2>4. CASE pc'[c] # "done"
    <3>1. phaseOf'[c] = phaseOf[c]
      BY <1>3, <2>3, <2>4 DEF phaseOf
    <3> QED BY <1>2, <2>2, <3>1 DEF Contract!vars
  <2>5. CASE pc'[c] = "done"
    <3>1. \/ call[c].kind # "new" /\ workOf[c] = "none"
          \/ call[c].kind = "new" /\ workOf[c] # "open" /\ (err'[c] = None => workOf[c] = "committed")
      <4>1. CASE call[c].kind # "new"
        BY <1>0, <4>1 DEF Folded
      <4>2. CASE call[c].kind = "new"
        <5>1. status'[Own(c)'] # "open" /\ (err'[c] = None => status'[Own(c)'] = "committed")
          BY <1>1, <2>5, <4>2 DEF OutcomeInv, StageInv, Fits
        <5>2. status'[Own(c)'] \in {"none", "committed", "rolledBack"}
          BY <1>0, <5>1, HelperTypes DEF TypeOK, Own, Tx
        <5> QED BY <1>0, <2>2, <4>2, <5>1, <5>2 DEF Folded
      <4> QED BY <4>1, <4>2
    <3>2. CASE err'[c] = None
      <4>1. phaseOf'[c] = "returned"
        BY <2>5, <3>2 DEF phaseOf
      <4>2. Contract!Return(c)
        BY <1>2, <1>3, <2>2, <3>1, <3>2, <4>1 DEF Contract!Return
      <4> QED BY <4>2 DEF Contract!Next
    <3>3. CASE err'[c] # None
      <4>1. phaseOf'[c] = "threw"
        BY <2>5, <3>3 DEF phaseOf
      <4>2. Contract!Throw(c)
        BY <1>2, <1>3, <2>2, <3>1, <4>1 DEF Contract!Throw
      <4> QED BY <4>2 DEF Contract!Next
    <3> QED BY <3>2, <3>3
  <2> QED BY <2>4, <2>5
<1> QED BY <1>4, <1>5, <1>6

\* Every call of run() keeps its contract with the caller and the database, in
\* every configuration whose rules agree: TransactionManager implements
\* RunContract, step by step, with attempts, hooks, savepoints and overlapping
\* calls hidden.
THEOREM ContractKept == ASSUME RulesAgree PROVE Spec => KeepsRunContract
<1>1. Init => Contract!Init
  <2> SUFFICES ASSUME Init PROVE Contract!Init
    OBVIOUS
  <2>1. phaseOf = [c \in Calls |-> "idle"]
    BY DEF Init, phaseOf
  <2>2. ASSUME NEW c \in Calls PROVE workOf[c] = "none"
    BY <2>2, InitOutcome, WorkFolds DEF Folded, Init, CommitsAtMostOnce
  <2>3. workOf = [c \in Calls |-> "none"]
    <3>1. workOf = [c \in Calls |-> workOf[c]]
      BY DEF workOf
    <3> QED BY <2>2, <3>1
  <2> QED BY <2>1, <2>3 DEF Contract!Init
<1>2. ASSUME OutcomeInv, OutcomeInv', CommitsAtMostOnce, CommitsAtMostOnce', [Next]_vars
      PROVE  [Contract!Next]_(Contract!vars)
  <2>1. ASSUME NEW p \in Calls \cup {None}, NEW c \in Calls, NEW o \in Options, Run(p, c, o)
        PROVE  Contract!Next
    BY <1>2, <2>1, RunView
  <2>2. ASSUME NEW c \in Calls, Step(c)
        PROVE  [Contract!Next]_(Contract!vars)
    BY <1>2, <2>2, StepView
  <2>3. CASE UNCHANGED vars \/ \E c \in Calls, q \in Phases : Register(c, q)
    <3>1. pc' = pc /\ err' = err /\ status' = status
      BY <2>3 DEF vars, Register
    <3>2. phaseOf' = phaseOf /\ workOf' = workOf
      BY <3>1 DEF phaseOf, workOf
    <3> QED BY <3>2 DEF Contract!vars
  <2> QED BY <1>2, <2>1, <2>2, <2>3 DEF Next, Quiescent
<1> QED BY <1>1, <1>2, OnceInvariant, PTL DEF Spec, KeepsRunContract, Contract!Spec

-------------------------------------------------------------------------------
(* Lifecycle hooks, in awaited programs. *)

\* What HookInv says of one transaction and of one call.
CountAt(t) ==
  /\ status[t] = "none" => \A p \in Phases : hooks[t][p] = 0 /\ ran[t][p] = 0
  /\ \A p \in Phases : ran[t][p] <= hooks[t][p]
  /\ status[t] # "committed" => ran[t]["afterCommit"] = 0
  /\ status[t] # "rolledBack" => ran[t]["afterRollback"] = 0
MatchAt(t) ==
  /\ ran[t]["afterCommit"] = IF status[t] = "committed" THEN hooks[t]["afterCommit"] ELSE 0
  /\ ran[t]["afterRollback"] = IF status[t] = "rolledBack" THEN hooks[t]["afterRollback"] ELSE 0
HookAt(c) ==
  /\ \A a \in Attempts : CountAt(<<c, a>>)
  /\ \A a \in Attempts : /\ attempt[c] > a \/ pc[c] \in {"attemptEnd", "restore", "done"}
                         /\ status[<<c, a>>] # "none"
                         => MatchAt(<<c, a>>)
  /\ /\ call[c].kind = "new" /\ err[c] = None
     /\ pc[c] \in {"commit", "afterCommit", "attemptEnd", "restore", "done"}
     => ran[Own(c)]["beforeCommit"] = hooks[Own(c)]["beforeCommit"]

EveryHookAt == \A c \in Calls : HookAt(c)

LEMMA HookParts == HookInv <=> EveryHookAt
<1>1. HookCountInv <=> \A c \in Calls, a \in Attempts : CountAt(<<c, a>>)
  BY DEF HookCountInv, CountAt, Tx
<1>2. HooksMatchOutcome <=>
        \A c \in Calls, a \in Attempts :
          /\ attempt[c] > a \/ pc[c] \in {"attemptEnd", "restore", "done"}
          /\ status[<<c, a>>] # "none"
          => MatchAt(<<c, a>>)
  BY DEF HooksMatchOutcome, Past, MatchAt, Tx
<1> QED BY <1>1, <1>2 DEF HookInv, BeforeCommitInv, HookAt, EveryHookAt

\* The hooks of a call's transactions and the number that ran stay as they are.
SameHooks(d) == \A a \in Attempts : hooks'[<<d, a>>] = hooks[<<d, a>>] /\ ran'[<<d, a>>] = ran[<<d, a>>]

LEMMA SameHookAt ==
  ASSUME TypeOK, NEW d \in Calls, HookAt(d), Same(d), SameHooks(d)
  PROVE  HookAt(d)'
<1>1. attempt[d] \in Attempts /\ Own(d) = <<d, attempt[d]>> /\ Own(d)' = Own(d)
  BY DEF TypeOK, Own, Same
<1>2. \A a \in Attempts : CountAt(<<d, a>>)'
  BY DEF HookAt, CountAt, Same, SameHooks
<1>3. \A a \in Attempts : /\ attempt'[d] > a \/ pc'[d] \in {"attemptEnd", "restore", "done"}
                          /\ status'[<<d, a>>] # "none"
                          => MatchAt(<<d, a>>)'
  BY DEF HookAt, MatchAt, Same, SameHooks
<1>4. /\ call'[d].kind = "new" /\ err'[d] = None
      /\ pc'[d] \in {"commit", "afterCommit", "attemptEnd", "restore", "done"}
      => ran'[Own(d)']["beforeCommit"] = hooks'[Own(d)']["beforeCommit"]
  BY <1>1 DEF HookAt, Same, SameHooks
<1> QED BY <1>2, <1>3, <1>4 DEF HookAt

\* A step runs at most one hook of its own transaction and registers none.
LEMMA StepHooks ==
  ASSUME TypeOK, NEW c \in Calls, Step(c)
  PROVE  /\ hooks' = hooks
         /\ HookDone(c) \/ ran' = ran
         /\ \A d \in Calls \ {c} : SameHooks(d)
<1>1. hooks' = hooks /\ (HookDone(c) \/ ran' = ran)
  BY DEF Step, Begin, BeginFails, FnReturns, FnThrows, BeforeCommitThrows, BeforeCommitDone, HookDone,
         Commit, CommitFails, Rollback, AfterCommitDone, AfterRollbackDone, Retry, GiveUpOrReturn,
         Restore, Savepoint, Release, RollbackTo
<1>2. ASSUME HookDone(c), NEW d \in Calls \ {c}, NEW a \in Attempts
      PROVE  ran'[<<d, a>>] = ran[<<d, a>>]
  <2>1. <<d, a>> \in Tx /\ <<d, a>> # Own(c)
    BY DEF Tx, Own
  <2> QED BY <1>2, <2>1 DEF HookDone, TypeOK
<1> QED BY <1>1, <1>2 DEF SameHooks

\* Each step keeps what HookInv says of its own call.
LEMMA StepHookAt ==
  ASSUME OutcomeInv, TypeOK', NEW c \in Calls, Step(c), HookAt(c)
  PROVE  HookAt(c)'
<1>0. /\ TypeOK /\ attempt[c] \in Attempts /\ Own(c) = <<c, attempt[c]>> /\ Own(c) \in Tx
      /\ call[c] \in Frames /\ pc[c] \in KindPCs(c)
      /\ hooks' = hooks /\ call' = call
      /\ \A a \in Attempts : a # attempt[c] => status'[<<c, a>>] = status[<<c, a>>]
  <2>1. Active(c)
    BY DEF Step, Begin, BeginFails, FnReturns, FnThrows, BeforeCommitThrows, BeforeCommitDone, HookDone,
           Commit, CommitFails, Rollback, AfterCommitDone, AfterRollbackDone, Retry, GiveUpOrReturn,
           Restore, Savepoint, Release, RollbackTo, Active, Phases
  <2>2. TypeOK /\ pc[c] \in KindPCs(c)
    BY <2>1 DEF OutcomeInv, PlaceInv
  <2> QED BY <2>2, StepElsewhere, StepHooks, HelperTypes DEF TypeOK, Own
<1>1. call[c].kind = "new" => Fits(call[c].opt, pc[c], err[c], status[Own(c)])
  BY DEF OutcomeInv, StageInv
<1>2. \A a \in Attempts, q \in Phases : ran[<<c, a>>][q] \in Nat /\ hooks[<<c, a>>][q] \in Nat
  BY <1>0 DEF TypeOK, Tx
<1>3. "beforeCommit" \in Phases /\ "afterCommit" \in Phases /\ "afterRollback" \in Phases
  BY DEF Phases
<1>4. CASE Retry(c)
  <2>1. /\ pc[c] = "attemptEnd" /\ pc'[c] = "begin" /\ attempt'[c] = attempt[c] + 1
        /\ status' = status /\ ran' = ran
    BY <1>0, <1>4, SettleMove DEF Retry, TypeOK
  <2>2. \A a \in Attempts : CountAt(<<c, a>>)'
    BY <1>0, <2>1 DEF HookAt, CountAt
  <2>3. \A a \in Attempts : attempt'[c] > a /\ status'[<<c, a>>] # "none" => MatchAt(<<c, a>>)'
    BY <1>0, <2>1, BoundsAssumption DEF HookAt, MatchAt, Attempts
  <2> QED BY <2>1, <2>2, <2>3 DEF HookAt
<1>5. CASE HookDone(c)
  <2>1. /\ pc' = pc /\ err' = err /\ attempt' = attempt /\ status' = status
        /\ pc[c] \in Phases /\ ran[Own(c)][pc[c]] < hooks[Own(c)][pc[c]]
        /\ \A a \in Attempts : a # attempt[c] => ran'[<<c, a>>] = ran[<<c, a>>]
        /\ ran'[Own(c)] = [ran[Own(c)] EXCEPT ![pc[c]] = @ + 1]
    <3>1. pc[c] \in Phases /\ UserCode(c) /\ \A a \in Attempts : a # attempt[c] => <<c, a>> # Own(c)
      BY <1>0, <1>5 DEF HookDone, MayRun
    <3>2. \A a \in Attempts : <<c, a>> \in Tx
      BY DEF Tx
    <3> QED BY <1>0, <1>5, <3>1, <3>2 DEF HookDone, UserCode, Phases, TypeOK
  <2>2. call[c].kind = "new" /\ Own(c)' = Own(c)
    BY <1>0, <2>1 DEF KindPCs, Frames, Phases, Own
  <2>3. ran[Own(c)] \in [Phases -> Nat]
    BY <1>0 DEF TypeOK
  <2>4. CountAt(Own(c))'
    <3>1. \A q \in Phases : /\ ran'[Own(c)][q] <= hooks[Own(c)][q]
                            /\ q # pc[c] => ran'[Own(c)][q] = ran[Own(c)][q]
      BY <1>0, <1>2, <2>1, <2>3 DEF HookAt, CountAt
    <3>2. /\ status[Own(c)] # "none"
          /\ pc[c] = "afterCommit" => status[Own(c)] = "committed"
          /\ pc[c] = "afterRollback" => status[Own(c)] = "rolledBack"
      BY <1>1, <2>1, <2>2 DEF Fits, Phases
    <3>3. /\ status[Own(c)] # "committed" => ran[Own(c)]["afterCommit"] = 0
          /\ status[Own(c)] # "rolledBack" => ran[Own(c)]["afterRollback"] = 0
      BY <1>0 DEF HookAt, CountAt
    <3>4. /\ status[Own(c)] # "committed" => ran'[Own(c)]["afterCommit"] = 0
          /\ status[Own(c)] # "rolledBack" => ran'[Own(c)]["afterRollback"] = 0
      BY <1>3, <3>1, <3>2, <3>3
    <3> QED BY <1>0, <2>1, <2>2, <3>1, <3>2, <3>4 DEF CountAt
  <2>5. ASSUME NEW a \in Attempts PROVE CountAt(<<c, a>>)'
    <3>1. CASE a = attempt[c]
      BY <1>0, <2>1, <2>2, <2>4, <3>1 DEF CountAt
    <3>2. CASE a # attempt[c]
      <4>1. CountAt(<<c, a>>) /\ ran'[<<c, a>>] = ran[<<c, a>>] /\ status' = status
        BY <2>1, <3>2 DEF HookAt
      <4> QED BY <1>0, <4>1 DEF CountAt
    <3> QED BY <3>1, <3>2
  <2>6. \A a \in Attempts : attempt[c] > a /\ status[<<c, a>>] # "none" => MatchAt(<<c, a>>)'
    BY <1>0, <2>1, BoundsAssumption DEF HookAt, MatchAt, Attempts
  <2>7. pc[c] = "afterCommit" => ran'[Own(c)]["beforeCommit"] = ran[Own(c)]["beforeCommit"]
    BY <1>3, <2>1, <2>3
  <2> QED BY <1>0, <2>1, <2>2, <2>5, <2>6, <2>7 DEF HookAt, Phases
<1>6. CASE ~Retry(c) /\ ~HookDone(c)
  <2>1. attempt' = attempt /\ ran' = ran /\ Own(c)' = Own(c)
    BY <1>0, <1>6, StepHooks
       DEF Step, Begin, BeginFails, FnReturns, FnThrows, BeforeCommitThrows, BeforeCommitDone,
           Commit, CommitFails, Rollback, AfterCommitDone, AfterRollbackDone, GiveUpOrReturn,
           Restore, Savepoint, Release, RollbackTo, Own
  \* It suffices to look at the current attempt.
  <2> DEFINE Current == /\ CountAt(Own(c))'
                        /\ /\ pc'[c] \in {"attemptEnd", "restore", "done"}
                           /\ status'[Own(c)] # "none"
                           => MatchAt(Own(c))'
                        /\ /\ call[c].kind = "new" /\ err'[c] = None
                           /\ pc'[c] \in {"commit", "afterCommit", "attemptEnd", "restore", "done"}
                           => ran[Own(c)]["beforeCommit"] = hooks[Own(c)]["beforeCommit"]
  <2>2. ASSUME Current PROVE HookAt(c)'
    <3>1. ASSUME NEW a \in Attempts
          PROVE  /\ CountAt(<<c, a>>)'
                 /\ /\ attempt'[c] > a \/ pc'[c] \in {"attemptEnd", "restore", "done"}
                    /\ status'[<<c, a>>] # "none"
                    => MatchAt(<<c, a>>)'
      <4>1. CASE a = attempt[c]
        BY <1>0, <2>1, <2>2, <4>1, BoundsAssumption DEF Attempts
      <4>2. CASE a < attempt[c]
        BY <1>0, <2>1, <4>2, BoundsAssumption DEF HookAt, CountAt, MatchAt, Attempts
      <4>3. CASE a > attempt[c]
        <5>1. status[<<c, a>>] = "none"
          BY <4>3 DEF OutcomeInv, AttemptInv
        <5> QED BY <1>0, <2>1, <4>3, <5>1, BoundsAssumption DEF HookAt, CountAt, Attempts
      <4> QED BY <1>0, <4>1, <4>2, <4>3, BoundsAssumption DEF Attempts
    <3> QED BY <1>0, <2>1, <2>2, <3>1 DEF HookAt
  <2>3. CASE Begin(c) \/ Commit(c) \/ CommitFails(c) \/ Rollback(c)
    <3>1. \/ pc[c] = "begin" /\ pc'[c] = "body" /\ status'[Own(c)] = "open"
          \/ pc[c] = "commit" /\ pc'[c] = "afterCommit" /\ err' = err /\ status'[Own(c)] = "committed"
          \/ pc[c] \in {"commit", "rollback"} /\ pc'[c] = "afterRollback" /\ status'[Own(c)] = "rolledBack"
      BY <1>0, <2>3, SettleMove DEF Begin, Commit, CommitFails, Rollback
    <3>2. call[c].kind = "new"
      BY <1>0, <3>1 DEF KindPCs, Frames
    <3> QED BY <1>0, <1>1, <1>2, <1>3, <2>1, <2>2, <3>1, <3>2 DEF HookAt, CountAt, Fits
  <2>4. CASE BeginFails(c)
    <3>1. pc[c] = "begin" /\ pc'[c] = "attemptEnd" /\ status' = status /\ err'[c] # None
      <4>1. None \notin DriverError(c)
        BY <1>0, HelperTypes, NoneAssumption
      <4> QED BY <1>0, <2>4, <4>1, SettleMove DEF BeginFails
    <3>2. call[c].kind = "new"
      BY <1>0, <3>1 DEF KindPCs, Frames
    <3> QED BY <1>0, <1>1, <2>1, <2>2, <3>1, <3>2 DEF HookAt, CountAt, Fits
  <2>5. CASE FnReturns(c) \/ FnThrows(c) \/ BeforeCommitThrows(c)
    <3>1. /\ status' = status
          /\ call[c].kind = "new" => \/ pc'[c] = "beforeCommit"
                                     \/ pc'[c] \in {"commit", "rollback"} /\ err'[c] # None
      <4>1. None \notin Thrown(c)
        BY <1>0, HelperTypes, NoneAssumption
      <4> QED BY <1>0, <2>5, <4>1, SettleMove
                 DEF FnReturns, FnThrows, BeforeCommitThrows, InnerThrows, EndInner
    <3>2. call[c].kind # "new" => status[Own(c)] = "none"
      BY <1>0 DEF OutcomeInv, AttemptInv
    <3> QED BY <1>0, <2>1, <2>2, <3>1, <3>2 DEF HookAt, CountAt
  <2>6. CASE BeforeCommitDone(c)
    <3>1. pc[c] = "beforeCommit" /\ pc'[c] = "commit" /\ status' = status
      BY <1>0, <2>6, SettleMove DEF BeforeCommitDone, EndInner
    <3>2. ran[Own(c)]["beforeCommit"] = hooks[Own(c)]["beforeCommit"]
      BY <1>0, <1>2, <1>3, <2>6 DEF BeforeCommitDone, UserCode, HookAt, CountAt
    <3> QED BY <1>0, <2>1, <2>2, <3>1, <3>2 DEF HookAt, CountAt
  <2>7. CASE AfterCommitDone(c) \/ AfterRollbackDone(c)
    <3>1. /\ pc[c] \in {"afterCommit", "afterRollback"} /\ pc'[c] = "attemptEnd"
          /\ status' = status /\ err' = err
      BY <1>0, <2>7, SettleMove DEF AfterCommitDone, AfterRollbackDone
    <3>2. call[c].kind = "new"
      BY <1>0, <3>1 DEF KindPCs, Frames
    <3>3. ran[Own(c)][pc[c]] = hooks[Own(c)][pc[c]]
      BY <1>0, <1>2, <1>3, <2>7, <3>1 DEF AfterCommitDone, AfterRollbackDone, UserCode, HookAt, CountAt
    <3>4. /\ pc[c] = "afterCommit" => status[Own(c)] = "committed"
          /\ pc[c] = "afterRollback" => status[Own(c)] = "rolledBack" /\ err[c] # None
      BY <1>1, <3>1, <3>2 DEF Fits
    <3> QED BY <1>0, <2>1, <2>2, <3>1, <3>2, <3>3, <3>4 DEF HookAt, CountAt, MatchAt
  <2>8. CASE GiveUpOrReturn(c) \/ Restore(c)
    <3>1. /\ pc[c] \in {"attemptEnd", "restore"} /\ pc'[c] \in {"restore", "done"}
          /\ status' = status /\ err' = err
      BY <1>0, <2>8, SettleMove DEF GiveUpOrReturn, Restore
    <3> QED BY <1>0, <2>1, <2>2, <3>1 DEF HookAt, CountAt, MatchAt
  <2>9. CASE Savepoint(c) \/ Release(c) \/ RollbackTo(c)
    <3>1. call[c].kind = "savepoint" /\ status' = status
      BY <1>0, <2>9 DEF KindPCs, Frames, Phases, Savepoint, Release, RollbackTo
    <3>2. status[Own(c)] = "none"
      BY <1>0, <3>1 DEF OutcomeInv, AttemptInv
    <3> QED BY <1>0, <2>1, <2>2, <3>1, <3>2 DEF HookAt, CountAt
  <2> QED BY <1>6, <2>3, <2>4, <2>5, <2>6, <2>7, <2>8, <2>9 DEF Step
<1> QED BY <1>4, <1>5, <1>6

\* The insertion order of a Map: it orders present keys only, and every set of
\* present keys has an oldest one, so that FirstTransaction has what to return.
Ordered(m) ==
  /\ m.older \subseteq Context!Present(m) \X Context!Present(m)
  /\ \A Q \in SUBSET Context!Present(m) :
       Q # {} => \E k \in Q : \A j \in Q : <<j, k>> \notin m.older
OrderInv == \A s \in Stores : Ordered(context[s])

\* Map.set appends a key or keeps its place, Map.delete forgets it.
LEMMA MapOrder ==
  ASSUME NEW m \in Context!Maps, NEW k \in Keys, Ordered(m)
  PROVE  /\ \A t \in Tx : Ordered(Context!setActiveTransaction(m, k, t))
         /\ Ordered(Context!removeActiveTransaction(m, k))
<1> DEFINE P == Context!Present(m)
<1>0. P \subseteq Keys /\ m.at \in [Keys -> Tx \cup {None}] /\ None \notin Tx
  BY NoneAssumption DEF Context!Present, Context!Maps
<1>1. ASSUME NEW t \in Tx PROVE Ordered(Context!setActiveTransaction(m, k, t))
  <2> DEFINE n == Context!setActiveTransaction(m, k, t)
  <2>1. n.at = [m.at EXCEPT ![k] = t]
        /\ n.older = IF k \in P THEN m.older ELSE m.older \cup {<<j, k>> : j \in P}
    BY DEF Context!setActiveTransaction
  <2>2. Context!Present(n) = P \cup {k}
    BY <1>0, <2>1 DEF Context!Present
  <2> HIDE DEF n, P
  <2>3. CASE k \in P
    <3>1. n.older = m.older /\ Context!Present(n) = P
      BY <2>1, <2>2, <2>3
    <3> QED BY <3>1 DEF Ordered, n, P
  <2>4. CASE k \notin P
    <3>1. m.older \subseteq P \X P
      BY DEF Ordered, P
    <3>2. n.older \subseteq (P \cup {k}) \X (P \cup {k})
      BY <2>1, <2>4, <3>1
    <3>3. \A j \in P \cup {k} : <<k, j>> \notin n.older
      BY <2>1, <2>4, <3>1
    <3>4. \A i, j \in P : <<i, j>> \in n.older => <<i, j>> \in m.older
      BY <2>1, <2>4
    <3>5. ASSUME NEW Q \in SUBSET (P \cup {k}), Q # {}
          PROVE  \E x \in Q : \A j \in Q : <<j, x>> \notin n.older
      <4>1. CASE Q \subseteq {k}
        BY <3>3, <3>5, <4>1
      <4>2. CASE ~(Q \subseteq {k})
        <5>1. PICK x \in Q \ {k} : \A j \in Q \ {k} : <<j, x>> \notin m.older
          <6>1. Q \ {k} \in SUBSET P /\ Q \ {k} # {}
            BY <4>2
          <6> QED BY <6>1 DEF Ordered, P
        <5> QED BY <3>3, <3>4, <5>1
      <4> QED BY <4>1, <4>2
    <3> QED BY <2>2, <3>2, <3>5 DEF Ordered, n
  <2> QED BY <2>3, <2>4 DEF n
<1>2. Ordered(Context!removeActiveTransaction(m, k))
  <2> DEFINE n == Context!removeActiveTransaction(m, k)
  <2>1. n.at = [m.at EXCEPT ![k] = None] /\ n.older = {p \in m.older : p[1] # k /\ p[2] # k}
    BY DEF Context!removeActiveTransaction
  <2>2. Context!Present(n) = P \ {k}
    BY <1>0, <2>1 DEF Context!Present
  <2> HIDE DEF n, P
  <2>3. m.older \subseteq P \X P
    BY DEF Ordered, P
  <2>4. n.older \subseteq (P \ {k}) \X (P \ {k}) /\ n.older \subseteq m.older
    BY <2>1, <2>3
  <2>5. ASSUME NEW Q \in SUBSET (P \ {k}), Q # {}
        PROVE  \E x \in Q : \A j \in Q : <<j, x>> \notin n.older
    BY <2>4, <2>5 DEF Ordered, P
  <2> QED BY <2>2, <2>4, <2>5 DEF Ordered, n
<1> QED BY <1>1, <1>2

\* The first transaction of a Map that has one is an entry of the Map.
LEMMA FirstIsEntry ==
  ASSUME NEW m \in Context!Maps, Ordered(m), Context!FirstTransaction(m) # None
  PROVE  \E k \in Keys : Context!FirstTransaction(m) = m.at[k]
<1> DEFINE P == Context!Present(m)
<1>1. P # {} /\ P \subseteq Keys
  BY DEF Context!FirstTransaction, Context!Present
<1>2. \E k \in P : \A j \in P : <<j, k>> \notin m.older
  BY <1>1 DEF Ordered
<1>3. Context!FirstTransaction(m) = m.at[CHOOSE k \in P : \A j \in P : <<j, k>> \notin m.older]
  BY <1>1 DEF Context!FirstTransaction
<1> HIDE DEF P
<1> QED BY <1>1, <1>2, <1>3

\* Every step keeps the Maps ordered.
LEMMA NextOrder ==
  ASSUME IInv, OrderInv, [Next]_vars
  PROVE  OrderInv'
<1>0. TypeOK /\ FrameInv
  BY DEF IInv
<1>1. ASSUME NEW s, NEW k \in Keys, NEW t \in Tx, SetActive(s, k, t) PROVE OrderInv'
  BY <1>0, <1>1, MapOrder DEF SetActive, OrderInv, TypeOK
<1>2. ASSUME NEW s, NEW k \in Keys, RemoveActive(s, k) PROVE OrderInv'
  BY <1>0, <1>2, MapOrder DEF RemoveActive, OrderInv, TypeOK
<1>3. ASSUME UNCHANGED context PROVE OrderInv'
  BY <1>3 DEF OrderInv
<1>4. ASSUME NEW p \in Calls \cup {None}, NEW c \in Calls, NEW o \in Options, Run(p, c, o)
      PROVE  OrderInv'
  <2>1. o.key \in Keys
    BY OptionsAssumption DEF OptionRecords
  <2> QED BY <1>2, <1>3, <1>4, <2>1
             DEF Run, RunDirect, RunSuspended, RunRefused, RunNew, RunNested
<1>5. ASSUME NEW c \in Calls, Step(c) PROVE OrderInv'
  <2>1. Key(c) \in Keys /\ Own(c) \in Tx
    BY <1>0, HelperTypes
  <2>2. CASE Begin(c)
    BY <1>1, <2>1, <2>2 DEF Begin
  <2>3. CASE Restore(c)
    <3>1. call[c].saved \in Tx
      BY <1>0, <2>3 DEF Restore, FrameInv, Active, TypeOK, Frames
    <3> QED BY <1>1, <2>1, <2>3, <3>1 DEF Restore
  <2>4. CASE FnThrows(c) \/ BeforeCommitThrows(c) \/ BeforeCommitDone(c)
    BY <1>2, <1>3, <2>1, <2>4 DEF FnThrows, BeforeCommitThrows, BeforeCommitDone, InnerThrows, EndInner
  <2>5. CASE ~(Begin(c) \/ Restore(c) \/ FnThrows(c) \/ BeforeCommitThrows(c) \/ BeforeCommitDone(c))
    BY <1>3, <1>5, <2>5
       DEF Step, BeginFails, FnReturns, HookDone, Commit, CommitFails, Rollback, AfterCommitDone,
           AfterRollbackDone, Retry, GiveUpOrReturn, Savepoint, Release, RollbackTo
  <2> QED BY <2>2, <2>3, <2>4, <2>5
<1>6. CASE UNCHANGED vars \/ \E c \in Calls, q \in Phases : Register(c, q)
  BY <1>3, <1>6 DEF vars, Register
<1> QED BY <1>4, <1>5, <1>6 DEF Next, Quiescent

\* A call that arrives has no transaction, hence no hooks.
LEMMA RunHooks ==
  ASSUME OutcomeInv, OutcomeInv', NEW p \in Calls \cup {None}, NEW c \in Calls, NEW o \in Options,
         Run(p, c, o), EveryHookAt
  PROVE  EveryHookAt'
<1>0. TypeOK
  BY DEF OutcomeInv
<1>1. /\ \A d \in Calls \ {c} : pc'[d] = pc[d] /\ err'[d] = err[d] /\ call'[d] = call[d]
      /\ attempt' = attempt /\ status' = status /\ hooks' = hooks /\ ran' = ran /\ pc[c] = "idle"
  BY <1>0 DEF Run, RunDirect, RunSuspended, RunRefused, RunNew, RunNested, MayInvoke, Invoke, Goto, TypeOK
<1>2. \A d \in Calls \ {c} : HookAt(d)'
  BY <1>0, <1>1, SameHookAt DEF Same, SameHooks, EveryHookAt
<1>3. \A a \in Attempts : status[<<c, a>>] = "none"
  BY <1>1 DEF OutcomeInv, AttemptInv
<1>4. \A a \in Attempts : CountAt(<<c, a>>)'
  BY <1>1 DEF EveryHookAt, HookAt, CountAt
<1>5. attempt[c] \in Attempts /\ Own(c)' = <<c, attempt[c]>>
  BY <1>0, <1>1 DEF TypeOK, Own
<1>6. ran[<<c, attempt[c]>>]["beforeCommit"] = hooks[<<c, attempt[c]>>]["beforeCommit"]
  <2>1. CountAt(<<c, attempt[c]>>) /\ status[<<c, attempt[c]>>] = "none" /\ "beforeCommit" \in Phases
    BY <1>3, <1>5 DEF EveryHookAt, HookAt, Phases
  <2> QED BY <2>1 DEF CountAt
<1>7. HookAt(c)'
  BY <1>1, <1>3, <1>4, <1>5, <1>6 DEF HookAt
<1> QED BY <1>2, <1>7 DEF EveryHookAt

\* A hook is registered on a transaction whose call is still in its body or its
\* before-commit hooks: this is where awaiting matters.
LEMMA RegisterHooks ==
  ASSUME OutcomeInv, IInv, OrderInv, NEW c \in Calls, NEW q \in Phases, Register(c, q), EveryHookAt
  PROVE  EveryHookAt'
<1> DEFINE t == currentTransaction(c)
           s == ScopeOf(c)
<1>0. TypeOK /\ MapInv /\ OpenInv
  BY DEF IInv
<1>1. s \in Stores /\ t # None
  BY <1>0, HelperTypes DEF Register, currentTransaction
<1>2. PICK k \in Keys : t = context[s].at[k]
  <2>1. t = Context!FirstTransaction(context[s]) /\ context[s] \in Context!Maps
    BY <1>0, <1>1 DEF currentTransaction, TypeOK
  <2> HIDE DEF t, s
  <2> QED BY <1>1, <2>1, FirstIsEntry DEF OrderInv
<1>3. t \in Tx
  BY <1>0, <1>1, <1>2 DEF TypeOK, Context!Maps
<1>4. PICK w \in Calls, a \in Attempts : t = <<w, a>>
  BY <1>3 DEF Tx
<1> HIDE DEF t, s
<1>5. call[w].kind = "new" /\ pc[w] \in {"body", "beforeCommit"} /\ Own(w) = <<w, a>>
  <2>1. context[s].at[k] # None /\ w = context[s].at[k][1] /\ context[s].at[k] = <<w, a>>
    BY <1>1, <1>2, <1>4
  <2> QED BY <1>0, <1>1, <2>1 DEF MapInv
<1>6. status[<<w, a>>] = "open" /\ attempt[w] = a
  BY <1>0, <1>5 DEF OpenInv, Own
<1>7. /\ pc' = pc /\ call' = call /\ attempt' = attempt /\ err' = err /\ status' = status /\ ran' = ran
      /\ hooks' = [hooks EXCEPT ![<<w, a>>] = [hooks[<<w, a>>] EXCEPT ![q] = @ + 1]]
  BY <1>4 DEF Register, t
<1>8. /\ \A d \in Calls, b \in Attempts : <<d, b>> # <<w, a>> => hooks'[<<d, b>>] = hooks[<<d, b>>]
      /\ hooks[<<w, a>>] \in [Phases -> Nat] /\ ran[<<w, a>>] \in [Phases -> Nat]
      /\ hooks'[<<w, a>>] = [hooks[<<w, a>>] EXCEPT ![q] = @ + 1]
  BY <1>0, <1>7 DEF TypeOK, Tx
<1>9. \A d \in Calls \ {w} : HookAt(d)'
  BY <1>0, <1>7, <1>8, SameHookAt DEF Same, SameHooks, EveryHookAt
<1>10. CountAt(<<w, a>>)'
  <2>1. CountAt(<<w, a>>)
    BY DEF EveryHookAt, HookAt
  <2>2. \A x \in Phases : ran[<<w, a>>][x] <= hooks'[<<w, a>>][x]
    BY <1>8, <2>1 DEF CountAt
  <2> QED BY <1>6, <1>7, <2>1, <2>2 DEF CountAt
<1>11. ASSUME NEW b \in Attempts
       PROVE  CountAt(<<w, b>>)' /\ (attempt[w] > b /\ status[<<w, b>>] # "none" => MatchAt(<<w, b>>)')
  <2>1. CASE b = a
    BY <1>6, <1>10, <2>1, BoundsAssumption DEF Attempts
  <2>2. CASE b # a
    <3>1. hooks'[<<w, b>>] = hooks[<<w, b>>] /\ HookAt(w)
      BY <1>8, <2>2 DEF EveryHookAt
    <3> QED BY <1>7, <3>1 DEF HookAt, CountAt, MatchAt
  <2> QED BY <2>1, <2>2
<1>12. HookAt(w)'
  BY <1>5, <1>7, <1>11 DEF HookAt
<1> QED BY <1>9, <1>12 DEF EveryHookAt

LEMMA HookInvariant == ASSUME ~Concurrent PROVE Spec => []HookInv
<1>1. Init => EveryHookAt
  BY DEF Init, EveryHookAt, HookAt, CountAt, MatchAt, Tx, IdleFrame, Phases
<1>2. ASSUME IInv, OrderInv, OutcomeInv, OutcomeInv', EveryHookAt, [Next]_vars PROVE EveryHookAt'
  <2>0. TypeOK /\ TypeOK'
    BY <1>2 DEF OutcomeInv
  <2>1. ASSUME NEW c \in Calls, Step(c) PROVE EveryHookAt'
    <3>1. \A d \in Calls \ {c} : HookAt(d)'
      BY <1>2, <2>0, <2>1, StepElsewhere, StepHooks, SameHookAt DEF EveryHookAt
    <3>2. HookAt(c)'
      BY <1>2, <2>0, <2>1, StepHookAt DEF EveryHookAt
    <3> QED BY <3>1, <3>2 DEF EveryHookAt
  <2>2. CASE UNCHANGED vars
    <3>1. \A d \in Calls : Same(d) /\ SameHooks(d)
      BY <2>2 DEF vars, Same, SameHooks
    <3> QED BY <1>2, <2>0, <3>1, SameHookAt DEF EveryHookAt
  <2> QED BY <1>2, <2>0, <2>1, <2>2, RunHooks, RegisterHooks DEF Next, Quiescent
<1>3. EveryHookAt => HookInv
  BY HookParts
<1>4. Init => OrderInv
  BY DEF Init, OrderInv, Ordered, Context!EmptyMap, Context!Present
<1>5. IInv /\ OrderInv /\ [Next]_vars => OrderInv'
  BY NextOrder
<1> QED BY <1>1, <1>2, <1>3, <1>4, <1>5, AwaitedInvariant, OutcomeInvariant, PTL DEF Spec

\* In awaited programs, once an attempt is over the hooks of the phase that its
\* transaction ended with have all run exactly once and those of the opposite
\* phase never, however many were registered, by joined and nested calls or by
\* other hooks.
THEOREM HooksFollowOutcome == ASSUME ~Concurrent PROVE Spec => []HooksMatchOutcome
<1>1. HookInv => HooksMatchOutcome
  BY DEF HookInv
<1> QED BY <1>1, HookInvariant, PTL

\* In awaited programs a call that opened a transaction and returned normally
\* committed it, after all of its before-commit hooks.
THEOREM BeforeCommitRan == ASSUME ~Concurrent PROVE Spec => []SuccessRanBeforeCommit
<1>1. HookInv /\ OutcomeInv => SuccessRanBeforeCommit
  <2> SUFFICES ASSUME HookInv, OutcomeInv, NEW c \in Calls,
                      pc[c] = "done", call[c].kind = "new", err[c] = None
               PROVE  /\ status[Own(c)] = "committed"
                      /\ ran[Own(c)]["beforeCommit"] = hooks[Own(c)]["beforeCommit"]
    BY DEF SuccessRanBeforeCommit
  <2>1. status[Own(c)] = "committed"
    BY DEF OutcomeInv, StageInv, Fits
  <2> QED BY <2>1 DEF HookInv, BeforeCommitInv
<1> QED BY <1>1, HookInvariant, OutcomeInvariant, PTL
===============================================================================
