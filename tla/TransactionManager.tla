-------------------------- MODULE TransactionManager --------------------------
(***************************************************************************)
(* TransactionManager.run of core/src/manager/transaction.manager.ts: the  *)
(* seven propagation modes, the transaction an adapter opens and ends, the *)
(* lifecycle hooks, rollback rules and retries.                            *)
(*                                                                         *)
(* One member of Calls is one invocation of run().  Its user code (the     *)
(* body fn, or a hook) may invoke run() again, which makes a child call in *)
(* the same AsyncLocalStorage store.  With Concurrent = FALSE every child  *)
(* is awaited before its parent does anything else; with Concurrent = TRUE *)
(* siblings overlap, as under Promise.all, whose rejection does not wait   *)
(* for the siblings, and user code may return with a child under way that  *)
(* it never awaits.                                                        *)
(***************************************************************************)
EXTENDS Naturals, FiniteSets

CONSTANTS Calls,         \* invocations of run()
          Keys,          \* context keys: one per (adapter, instance)
          UserErrors,    \* error classes user code throws
          DriverErrors,  \* error classes BEGIN, COMMIT and SAVEPOINT fail with
          Options,       \* the options a call may be made with
          MaxAttempts,   \* largest retry.maxAttempts
          MaxHooks,      \* bound: hooks registered per transaction and phase
          MaxWork,       \* bound: calls, which count twice, and hooks of one run of the model
          MaxDepth,      \* bound: nesting of calls
          MaxRoots,      \* bound: calls made outside every other call (requests)
          PoolSize,      \* connections of the data source's pool
          Concurrent,    \* may user code go on while a child is under way?
          None

Modes == {"REQUIRED", "REQUIRES_NEW", "NESTED", "SUPPORTS", "NOT_SUPPORTED", "NEVER", "MANDATORY"}

\* What the library itself throws: a refused propagation, an invalid retry option.
LibraryErrors == {"IllegalTransactionStateError", "TypeError"}
ErrorClasses == UserErrors \cup DriverErrors \cup LibraryErrors

Attempts == 1 .. MaxAttempts

\* A transaction is named by the attempt that opens it; so is the store that
\* an outermost attempt installs, and the error object an attempt gives rise to.
Tx == Calls \X Attempts
Stores == Tx
Errors == [cls : ErrorClasses, of : Tx]

\* maxAttempts 0 stands for a value that normalizeRetry refuses, 1 for no retry.
OptionRecords == [mode : Modes, key : Keys, noRollbackFor : SUBSET ErrorClasses,
                  rollbackFor : SUBSET ErrorClasses, maxAttempts : 0 .. MaxAttempts,
                  retryIf : SUBSET ErrorClasses]

ASSUME BoundsAssumption == /\ MaxAttempts \in Nat \ {0}
                           /\ MaxHooks \in Nat
                           /\ MaxWork \in Nat
                           /\ MaxDepth \in Nat
                           /\ MaxRoots \in Nat
                           /\ PoolSize \in Nat
ASSUME OptionsAssumption == Options # {} /\ Options \subseteq OptionRecords
ASSUME ConcurrentAssumption == Concurrent \in BOOLEAN
ASSUME NoneAssumption == None \notin Calls \cup Tx \cup Errors

Context == INSTANCE TransactionContext

VARIABLES
  pc,          \* where each call is: see PCs
  call,        \* what each call fixed when it started: see Frames
  attempt,     \* startNewWithRetry's attempt counter
  err,         \* the error the call is about to throw, or threw
  context,     \* the activeTransactions Map of every store
  status,      \* what the database knows of each transaction
  hooks,       \* number of hooks registered on a transaction, per phase
  ran,         \* number of those already run
  rolledBack   \* the WeakSet of errors some transaction rolled back with

vars == <<pc, call, attempt, err, context, status, hooks, ran, rolledBack>>

Phases == {"beforeCommit", "afterCommit", "afterRollback"}
PCs == Phases \cup {"idle", "begin", "body", "commit", "rollback", "attemptEnd",
                    "savepoint", "release", "rollbackTo", "restore", "done"}

(***************************************************************************)
(* kind: "direct" runs fn as it is, "new" opens a transaction, "savepoint" *)
(* nests in one.  inherit: the store the caller runs in.  saved: the       *)
(* suspended transaction to put back.  entry: the Map's contents the       *)
(* caller saw (a history variable, read by no action).                     *)
(***************************************************************************)
Frames == [parent : Calls \cup {None}, during : Attempts, level : Nat, opt : Options,
           kind : {"direct", "new", "savepoint"}, inherit : Stores \cup {None},
           saved : Tx \cup {None}, entry : [Keys -> Tx \cup {None}]]

IdleFrame == [parent |-> None, during |-> 1, level |-> 0, opt |-> CHOOSE o \in Options : TRUE,
              kind |-> "direct", inherit |-> None, saved |-> None,
              entry |-> [k \in Keys |-> None]]

Init ==
  /\ pc = [c \in Calls |-> "idle"]
  /\ call = [c \in Calls |-> IdleFrame]
  /\ attempt = [c \in Calls |-> 1]
  /\ err = [c \in Calls |-> None]
  /\ context = [s \in Stores |-> Context!EmptyMap]
  /\ status = [t \in Tx |-> "none"]
  /\ hooks = [t \in Tx |-> [p \in Phases |-> 0]]
  /\ ran = [t \in Tx |-> [p \in Phases |-> 0]]
  /\ rolledBack = {}

-------------------------------------------------------------------------------
Own(c) == <<c, attempt[c]>>
Key(c) == call[c].opt.key
Active(c) == pc[c] \notin {"idle", "done"}
InControl(c) == Active(c) /\ \A d \in Calls : Active(d) => call[d].parent # c

\* The store that TransactionContext.getStore returns inside call c.
ScopeOf(c) == IF call[c].inherit # None THEN call[c].inherit
              ELSE IF call[c].kind = "new" THEN Own(c) ELSE None

\* Code of the application is running in c: its body, or one of its hooks.
UserCode(c) == \/ pc[c] = "body"
               \/ pc[c] \in Phases /\ ran[Own(c)][pc[c]] < hooks[Own(c)][pc[c]]
MayRun(c) == UserCode(c) /\ (Concurrent \/ InControl(c))

\* The error objects user code of c can throw: a new one, or a child's.
Thrown(c) == [cls : UserErrors, of : {Own(c)}] \cup
  {err[d] : d \in {d \in Calls : /\ pc[d] = "done" /\ err[d] # None
                                 /\ call[d].parent = c /\ call[d].during = attempt[c]}}
DriverError(c) == [cls : DriverErrors, of : {Own(c)}]

shouldRollback(e, o) == /\ e.cls \notin o.noRollbackFor
                        /\ o.rollbackFor = {} \/ e.cls \in o.rollbackFor

currentTransaction(c) ==
  IF ScopeOf(c) = None THEN None ELSE Context!FirstTransaction(context[ScopeOf(c)])

SetActive(s, k, t) ==
  context' = [context EXCEPT ![s] = Context!setActiveTransaction(@, k, t)]
RemoveActive(s, k) ==
  context' = [context EXCEPT ![s] = Context!removeActiveTransaction(@, k)]

\* The call's promise settles, after the `finally` that resumes what it suspended.
Finish(c) == pc' = [pc EXCEPT ![c] = IF call[c].saved # None THEN "restore" ELSE "done"]
Goto(c, l) == pc' = [pc EXCEPT ![c] = l]
Settle(c, e) == err' = [err EXCEPT ![c] = e] /\ Finish(c)

-------------------------------------------------------------------------------
(* run(): user code of p (None: code outside every call) invokes c with options o. *)

CallerScope(p) == IF p = None THEN None ELSE ScopeOf(p)
Existing(p, o) == IF CallerScope(p) = None THEN None
                  ELSE Context!getActiveTransaction(context[CallerScope(p)], o.key)

Roots == {c \in Calls : pc[c] # "idle" /\ call[c].parent = None}

\* What user code has asked for so far: a model with few calls explores many hooks,
\* and one with many calls few.
Work == 2 * Cardinality({c \in Calls : pc[c] # "idle"})
          + Cardinality(UNION {{t} \X {p} \X (1 .. hooks[t][p]) : t \in Tx, p \in Phases})

\* A name for the next invocation.  It does not matter which of the idle ones.
NextCall == CHOOSE c \in Calls : pc[c] = "idle"

\* User code runs in p, or a request arrives; the rest are the bounds.
MayInvoke(p, c) ==
  /\ pc[c] = "idle" /\ c = NextCall
  /\ IF p = None THEN Cardinality(Roots) < MaxRoots
     ELSE MayRun(p) /\ call[p].level < MaxDepth
  /\ Work + 2 <= MaxWork

Invoke(p, c, o, kind, saved) ==
  /\ call' = [call EXCEPT ![c] =
       [parent |-> p, during |-> IF p = None THEN 1 ELSE attempt[p],
        level |-> IF p = None THEN 0 ELSE call[p].level + 1,
        opt |-> o, kind |-> kind, inherit |-> CallerScope(p), saved |-> saved,
        entry |-> IF CallerScope(p) = None THEN Context!EmptyMap.at
                  ELSE context[CallerScope(p)].at]]
  /\ UNCHANGED <<attempt, status, hooks, ran, rolledBack>>

\* The branches that run fn in the context as it is.
RunDirect(p, c, o) ==
  /\ \/ o.mode = "SUPPORTS"
     \/ o.mode \in {"REQUIRED", "MANDATORY"} /\ Existing(p, o) # None
     \/ o.mode \in {"NOT_SUPPORTED", "NEVER"} /\ Existing(p, o) = None
  /\ Invoke(p, c, o, "direct", None)
  /\ Goto(c, "body")
  /\ UNCHANGED <<err, context>>

\* NOT_SUPPORTED takes the transaction out of the Map while fn runs.
RunSuspended(p, c, o) ==
  /\ o.mode = "NOT_SUPPORTED" /\ Existing(p, o) # None
  /\ Invoke(p, c, o, "direct", Existing(p, o))
  /\ RemoveActive(CallerScope(p), o.key)
  /\ Goto(c, "body")
  /\ UNCHANGED err

\* NEVER inside a transaction, MANDATORY outside one.
RunRefused(p, c, o) ==
  /\ \/ o.mode = "NEVER" /\ Existing(p, o) # None
     \/ o.mode = "MANDATORY" /\ Existing(p, o) = None
  /\ Invoke(p, c, o, "direct", None)
  /\ err' = [err EXCEPT ![c] = [cls |-> "IllegalTransactionStateError", of |-> Own(c)]]
  /\ Goto(c, "done")
  /\ UNCHANGED context

StartsNew(p, o) == \/ o.mode = "REQUIRES_NEW"
                   \/ o.mode \in {"REQUIRED", "NESTED"} /\ Existing(p, o) = None

\* REQUIRES_NEW suspends what it finds; normalizeRetry may refuse the options.
RunNew(p, c, o) ==
  /\ StartsNew(p, o)
  /\ Invoke(p, c, o, "new", Existing(p, o))
  /\ IF Existing(p, o) # None THEN RemoveActive(CallerScope(p), o.key)
     ELSE UNCHANGED context
  /\ \/ /\ o.maxAttempts > 0
        /\ Goto(c, "begin")
        /\ UNCHANGED err
     \/ /\ o.maxAttempts = 0
        /\ Goto(c, IF Existing(p, o) # None THEN "restore" ELSE "done")
        /\ err' = [err EXCEPT ![c] = [cls |-> "TypeError", of |-> Own(c)]]

RunNested(p, c, o) ==
  /\ o.mode = "NESTED" /\ Existing(p, o) # None
  /\ Invoke(p, c, o, "savepoint", None)
  /\ Goto(c, "savepoint")
  /\ UNCHANGED <<err, context>>

Run(p, c, o) ==
  /\ MayInvoke(p, c)
  /\ \/ RunDirect(p, c, o) \/ RunSuspended(p, c, o) \/ RunRefused(p, c, o)
     \/ RunNew(p, c, o) \/ RunNested(p, c, o)

-------------------------------------------------------------------------------
(* startNew: the adapter opens the transaction on a connection of its pool. *)

\* Mutated form: a transaction that was rolled back keeps its connection.
Open_NotReleased == {t \in Tx : status[t] \in {"open", "rolledBack"}}

\* The transactions that hold a connection: the adapter takes one with the
\* transaction and gives it back when the transaction has ended.
Open == {t \in Tx : status[t] = "open"}

Begin(c) ==
  /\ pc[c] = "begin"
  /\ Cardinality(Open) < PoolSize
  /\ status' = [status EXCEPT ![Own(c)] = "open"]
  /\ SetActive(ScopeOf(c), Key(c), Own(c))
  /\ Goto(c, "body")
  /\ UNCHANGED <<call, attempt, err, hooks, ran, rolledBack>>

\* BEGIN fails: no transaction, no hooks, yet the error counts as rolled back.
BeginFails(c) ==
  /\ pc[c] = "begin"
  /\ \E e \in DriverError(c) :
       /\ err' = [err EXCEPT ![c] = e]
       /\ rolledBack' = rolledBack \cup {e}
  /\ Goto(c, "attemptEnd")
  /\ UNCHANGED <<call, attempt, context, status, hooks, ran>>

(* The catch and finally around fn and the before-commit hooks. *)
\* Mutated form: the finally that takes the entry out is missing.
EndInner_KeepsEntry(c, l) == UNCHANGED context /\ Goto(c, l)

EndInner(c, l) == RemoveActive(ScopeOf(c), Key(c)) /\ Goto(c, l)

\* Mutated forms: the error escapes the adapter's callback; the rules are not asked.
InnerThrows_Escapes(c, e) == Settle(c, e) /\ RemoveActive(ScopeOf(c), Key(c))
InnerThrows_NoRules(c, e) == err' = [err EXCEPT ![c] = e] /\ EndInner(c, "commit")

InnerThrows(c, e) ==
  /\ err' = [err EXCEPT ![c] = e]
  /\ EndInner(c, IF shouldRollback(e, call[c].opt) THEN "rollback" ELSE "commit")

FnReturns(c) ==
  /\ pc[c] = "body" /\ MayRun(c)
  /\ CASE call[c].kind = "direct"    -> Finish(c)
       [] call[c].kind = "savepoint" -> Goto(c, "release")
       [] call[c].kind = "new"       -> Goto(c, "beforeCommit")
  /\ UNCHANGED <<call, attempt, err, context, status, hooks, ran, rolledBack>>

FnThrows(c) ==
  /\ pc[c] = "body" /\ MayRun(c)
  /\ \E e \in Thrown(c) :
       \/ call[c].kind = "direct" /\ Settle(c, e) /\ UNCHANGED context
       \/ call[c].kind = "new" /\ InnerThrows(c, e)
       \/ /\ call[c].kind = "savepoint"
          /\ err' = [err EXCEPT ![c] = e]
          /\ Goto(c, IF shouldRollback(e, call[c].opt) THEN "rollbackTo" ELSE "release")
          /\ UNCHANGED context
  /\ UNCHANGED <<call, attempt, status, hooks, ran, rolledBack>>

BeforeCommitThrows(c) ==
  /\ pc[c] = "beforeCommit" /\ MayRun(c)
  /\ \E e \in Thrown(c) : InnerThrows(c, e)
  /\ UNCHANGED <<call, attempt, status, hooks, ran, rolledBack>>

\* Mutated form: the loop ends before the hooks do.
BeforeCommitDone_Early(c) ==
  /\ pc[c] = "beforeCommit"
  /\ EndInner(c, "commit")
  /\ UNCHANGED <<call, attempt, err, status, hooks, ran, rolledBack>>

BeforeCommitDone(c) ==
  /\ pc[c] = "beforeCommit" /\ ~UserCode(c)
  /\ EndInner(c, "commit")
  /\ UNCHANGED <<call, attempt, err, status, hooks, ran, rolledBack>>

\* A hook is over: it resolved or, after the end, threw and was only logged.
HookDone(c) ==
  /\ pc[c] \in Phases /\ MayRun(c)
  /\ ran' = [ran EXCEPT ![Own(c)][pc[c]] = @ + 1]
  /\ UNCHANGED <<pc, call, attempt, err, context, status, hooks, rolledBack>>

Commit(c) ==
  /\ pc[c] = "commit"
  /\ status' = [status EXCEPT ![Own(c)] = "committed"]
  /\ Goto(c, "afterCommit")
  /\ UNCHANGED <<call, attempt, err, context, hooks, ran, rolledBack>>

CommitFails(c) ==
  /\ pc[c] = "commit"
  /\ \E e \in DriverError(c) : err' = [err EXCEPT ![c] = e]
  /\ status' = [status EXCEPT ![Own(c)] = "rolledBack"]
  /\ Goto(c, "afterRollback")
  /\ UNCHANGED <<call, attempt, context, hooks, ran, rolledBack>>

Rollback(c) ==
  /\ pc[c] = "rollback"
  /\ status' = [status EXCEPT ![Own(c)] = "rolledBack"]
  /\ Goto(c, "afterRollback")
  /\ UNCHANGED <<call, attempt, err, context, hooks, ran, rolledBack>>

\* Mutated form: a hook that throws ends the loop.
AfterCommitDone_Early(c) ==
  /\ pc[c] = "afterCommit"
  /\ Goto(c, "attemptEnd")
  /\ UNCHANGED <<call, attempt, err, context, status, hooks, ran, rolledBack>>

AfterCommitDone(c) ==
  /\ pc[c] = "afterCommit" /\ ~UserCode(c)
  /\ Goto(c, "attemptEnd")
  /\ UNCHANGED <<call, attempt, err, context, status, hooks, ran, rolledBack>>

\* Mutated form: the error is not thrown again.
AfterRollbackDone_Swallows(c) ==
  /\ pc[c] = "afterRollback" /\ ~UserCode(c)
  /\ err' = [err EXCEPT ![c] = None]
  /\ Goto(c, "attemptEnd")
  /\ UNCHANGED <<call, attempt, context, status, hooks, ran, rolledBack>>

AfterRollbackDone(c) ==
  /\ pc[c] = "afterRollback" /\ ~UserCode(c)
  /\ rolledBack' = rolledBack \cup {err[c]}
  /\ Goto(c, "attemptEnd")
  /\ UNCHANGED <<call, attempt, err, context, status, hooks, ran>>

(* startNewWithRetry, when an attempt of c has settled. *)

\* Mutated forms: one attempt too many; the rollback is not checked.
Retryable_OffByOne(c) == /\ err[c] # None
                         /\ attempt[c] <= call[c].opt.maxAttempts
                         /\ err[c] \in rolledBack
                         /\ err[c].cls \in call[c].opt.retryIf
Retryable_Unchecked(c) == /\ err[c] # None
                          /\ attempt[c] < call[c].opt.maxAttempts
                          /\ err[c].cls \in call[c].opt.retryIf

Retryable(c) == /\ err[c] # None
                /\ attempt[c] < call[c].opt.maxAttempts
                /\ err[c] \in rolledBack
                /\ err[c].cls \in call[c].opt.retryIf

Retry(c) ==
  /\ pc[c] = "attemptEnd" /\ Retryable(c)
  /\ attempt' = [attempt EXCEPT ![c] = @ + 1]
  /\ err' = [err EXCEPT ![c] = None]
  /\ Goto(c, "begin")
  /\ UNCHANGED <<call, context, status, hooks, ran, rolledBack>>

GiveUpOrReturn(c) ==
  /\ pc[c] = "attemptEnd" /\ ~Retryable(c)
  /\ Finish(c)
  /\ UNCHANGED <<call, attempt, err, context, status, hooks, ran, rolledBack>>

\* The finally of REQUIRES_NEW and NOT_SUPPORTED: the suspended entry comes back.
Restore(c) ==
  /\ pc[c] = "restore"
  /\ SetActive(call[c].inherit, Key(c), call[c].saved)
  /\ Goto(c, "done")
  /\ UNCHANGED <<call, attempt, err, status, hooks, ran, rolledBack>>

(* runNestedSavepoint: the adapter's SAVEPOINT, RELEASE and ROLLBACK TO. *)

Savepoint(c) ==
  /\ pc[c] = "savepoint"
  /\ \/ Goto(c, "body") /\ UNCHANGED err
     \/ \E e \in DriverError(c) : Settle(c, e)
  /\ UNCHANGED <<call, attempt, context, status, hooks, ran, rolledBack>>

\* A failing RELEASE makes the adapter roll back to the savepoint.
Release(c) ==
  /\ pc[c] = "release"
  /\ \/ Finish(c) /\ UNCHANGED err
     \/ \E e \in DriverError(c) : err' = [err EXCEPT ![c] = e] /\ Goto(c, "rollbackTo")
  /\ UNCHANGED <<call, attempt, context, status, hooks, ran, rolledBack>>

\* A failing ROLLBACK TO replaces the error.
RollbackTo(c) ==
  /\ pc[c] = "rollbackTo"
  /\ \/ Finish(c) /\ UNCHANGED err
     \/ \E e \in DriverError(c) : Settle(c, e)
  /\ UNCHANGED <<call, attempt, context, status, hooks, ran, rolledBack>>

\* registerBeforeCommit, registerAfterCommit, registerAfterRollback.
Register(c, p) ==
  /\ MayRun(c)
  /\ LET t == currentTransaction(c)
     IN  /\ t # None
         /\ hooks[t][p] < MaxHooks /\ Work < MaxWork
         /\ hooks' = [hooks EXCEPT ![t][p] = @ + 1]
  /\ UNCHANGED <<pc, call, attempt, err, context, status, ran, rolledBack>>

-------------------------------------------------------------------------------
Step(c) ==
  \/ Begin(c) \/ BeginFails(c) \/ FnReturns(c) \/ FnThrows(c)
  \/ BeforeCommitThrows(c) \/ BeforeCommitDone(c) \/ HookDone(c)
  \/ Commit(c) \/ CommitFails(c) \/ Rollback(c)
  \/ AfterCommitDone(c) \/ AfterRollbackDone(c)
  \/ Retry(c) \/ GiveUpOrReturn(c) \/ Restore(c)
  \/ Savepoint(c) \/ Release(c) \/ RollbackTo(c)

\* No call is under way: the application may stop here, and only here.
Quiescent == (\A c \in Calls : ~Active(c)) /\ UNCHANGED vars

Next == \/ \E p \in Calls \cup {None}, c \in Calls, o \in Options : Run(p, c, o)
        \/ \E c \in Calls : Step(c)
        \/ \E c \in Calls, p \in Phases : Register(c, p)
        \/ Quiescent

Spec == Init /\ [][Next]_vars

\* Promises settle: user code returns, and the driver answers, sooner or later.
\* User code that has a child under way may be waiting for it, so nothing obliges
\* it to go on before the child has settled.
Awaiting(c) == UserCode(c) /\ ~InControl(c)
Fairness == \A c \in Calls : WF_vars(~Awaiting(c) /\ Step(c))
FairSpec == Spec /\ Fairness
===============================================================================
