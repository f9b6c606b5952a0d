----------------------- MODULE TransactionManagerProps -----------------------
(***************************************************************************)
(* What TransactionManager.run is required to guarantee, and the inductive *)
(* invariant behind it.                                                    *)
(***************************************************************************)
EXTENDS TransactionManager

\* Every variable holds a value of its kind.
TypeOK ==
  /\ pc \in [Calls -> PCs]
  /\ call \in [Calls -> Frames]
  /\ attempt \in [Calls -> Attempts]
  /\ err \in [Calls -> Errors \cup {None}]
  /\ context \in [Stores -> Context!Maps]
  /\ status \in [Tx -> {"none", "open", "committed", "rolledBack"}]
  /\ hooks \in [Tx -> [Phases -> Nat]]
  /\ ran \in [Tx -> [Phases -> Nat]]
  /\ rolledBack \subseteq Errors

\* A transaction is being rolled back because of an error.
ErrorInv == \A c \in Calls : pc[c] \in {"rollback", "afterRollback"} => err[c] # None

-------------------------------------------------------------------------------
(* Propagation: the Map behaves like a lexically scoped environment. *)

\* When an awaited run() settles, whatever its propagation mode, outcome and
\* retries, its caller finds under every key the transaction it had before:
\* the suspend/restore pairs of REQUIRES_NEW and NOT_SUPPORTED and the
\* set/remove pair of startNew cancel out.
RestoresContext ==
  [][\A c \in Calls : Active(c) /\ ~Active(c)' /\ call[c].inherit # None
        => context'[call[c].inherit].at = call[c].entry]_vars

\* A transaction in the Map is open, and the user code that opened it is still
\* waiting for its body or its before-commit hooks: nothing can join, or
\* register a hook on, a transaction that has begun to end.
Joinable(t) == /\ status[t] = "open"
               /\ t = Own(t[1])
               /\ pc[t[1]] \in {"body", "beforeCommit"}
AmbientIsJoinable ==
  \A c \in Calls, k \in Keys :
    LET s == ScopeOf(c)
    IN  UserCode(c) /\ s # None /\ context[s].at[k] # None => Joinable(context[s].at[k])

\* The contents of the Map that call c must see whenever none of its children
\* is under way: what its caller saw, with the entry of its own key replaced
\* as its propagation mode and its progress require.
Inside(c) ==
  LET base == IF call[c].inherit = None THEN Context!EmptyMap.at ELSE call[c].entry
  IN  CASE call[c].kind = "new" ->
             [base EXCEPT ![Key(c)] = IF pc[c] \in {"body", "beforeCommit"} THEN Own(c) ELSE None]
        [] call[c].kind = "direct" /\ call[c].saved # None -> [base EXCEPT ![Key(c)] = None]
        [] OTHER -> base

\* The shared, mutable Map is a lexically scoped environment: a call in control
\* sees exactly the transactions its place in the call tree gives it.
LexicalScope ==
  \A c \in Calls : InControl(c) /\ ScopeOf(c) # None => context[ScopeOf(c)].at = Inside(c)

-------------------------------------------------------------------------------
(* Lifecycle hooks. *)

\* The attempt that opened t has run its hooks and gone on.
Past(t) == attempt[t[1]] > t[2] \/ pc[t[1]] \in {"attemptEnd", "restore", "done"}

\* Once an attempt is over, every hook of the phase its transaction ended with
\* has run exactly once and no hook of the opposite phase ever ran: none is
\* lost because it was registered by a joined call, a nested one or a hook.
HooksMatchOutcome ==
  \A t \in Tx : Past(t) /\ status[t] # "none" =>
    /\ ran[t]["afterCommit"] = IF status[t] = "committed" THEN hooks[t]["afterCommit"] ELSE 0
    /\ ran[t]["afterRollback"] = IF status[t] = "rolledBack" THEN hooks[t]["afterRollback"] ELSE 0

\* A call that opened a transaction and returned without an error ran every
\* before-commit hook of that transaction before it committed.
SuccessRanBeforeCommit ==
  \A c \in Calls : pc[c] = "done" /\ call[c].kind = "new" /\ err[c] = None =>
    /\ status[Own(c)] = "committed"
    /\ ran[Own(c)]["beforeCommit"] = hooks[Own(c)]["beforeCommit"]

-------------------------------------------------------------------------------
(* Retry and rollback rules. *)

\* Of all the attempts of one call, only the last can have committed: work
\* that is in the database is never done a second time by a retry.
CommitsAtMostOnce ==
  \A t \in Tx : status[t] = "committed" => attempt[t[1]] = t[2]

\* What the caller is told is what happened to the data: an error reaches it
\* after a commit only if the call's own rules let that error commit, and a
\* call that returns normally has committed.
OutcomeIsTold ==
  \A c \in Calls : pc[c] = "done" /\ call[c].kind = "new" =>
    \/ err[c] = None /\ status[Own(c)] = "committed"
    \/ err[c] # None /\ status[Own(c)] = "committed" /\ ~shouldRollback(err[c], call[c].opt)
    \/ err[c] # None /\ status[Own(c)] \in {"rolledBack", "none"}

\* A finished call leaves no transaction open, in any of its attempts: every
\* connection taken from the pool is given back.
NoConnectionLeak ==
  \A t \in Tx : status[t] = "open" => attempt[t[1]] = t[2] /\ Active(t[1])

\* The abstract view of a call: RunContract, with the attempts folded into one.
phaseOf == [c \in Calls |-> IF pc[c] = "idle" THEN "idle"
                            ELSE IF pc[c] # "done" THEN "running"
                            ELSE IF err[c] = None THEN "returned" ELSE "threw"]
workOf == [c \in Calls |->
             LET seen == {status[<<c, a>>] : a \in Attempts}
             IN  IF "committed" \in seen /\ "open" \notin seen THEN "committed"
                 ELSE IF "open" \in seen THEN "open"
                 ELSE IF "rolledBack" \in seen THEN "undone" ELSE "none"]
Contract == INSTANCE RunContract WITH phase <- phaseOf, work <- workOf

\* Every call of run() keeps RunContract's promise to its caller and to the
\* database; a retry does because the attempt it follows was undone.
KeepsRunContract == Contract!Spec

\* Every connection of the pool is held by a call that waits for a child, and
\* whoever does not wait for a child waits for a connection.
CircularWait ==
  /\ Cardinality(Open) = PoolSize
  /\ \A t \in Open : Awaiting(t[1])
  /\ \A c \in Calls : Active(c) => Awaiting(c) \/ pc[c] = "begin"

\* Every invocation of run() settles unless the pool is in a circular wait: no
\* call waits for ever for a hook, a retry, a child or a connection that anybody
\* who could still go on holds.
EveryCallSettles == \A c \in Calls : Active(c) ~> pc[c] = "done" \/ CircularWait

-------------------------------------------------------------------------------
(***************************************************************************)
(* The inductive invariant of awaited programs (Concurrent = FALSE).       *)
(* LexicalScope alone is not inductive: that a call finds its Map again    *)
(* when its child ends rests on what the child remembers of its entry, on  *)
(* there being one call in control per store, and on stores and            *)
(* transactions outliving the calls that use them.                         *)
(***************************************************************************)

\* Where a call of each kind can be.
KindPCs(c) ==
  CASE call[c].kind = "new" -> Phases \cup {"begin", "body", "commit", "rollback", "attemptEnd", "restore"}
    [] call[c].kind = "savepoint" -> {"savepoint", "body", "release", "rollbackTo"}
    [] OTHER -> {"body", "restore"}

FrameInv ==
  \A c \in Calls : Active(c) =>
    /\ pc[c] \in KindPCs(c)
    /\ call[c].saved # None => call[c].inherit # None /\ call[c].saved = call[c].entry[Key(c)]
    /\ pc[c] = "restore" => call[c].saved # None
    /\ call[c].kind = "savepoint" => call[c].saved = None
    /\ call[c].kind = "new" /\ call[c].inherit # None /\ call[c].saved = None
         => call[c].entry[Key(c)] = None

IdleInv == \A c \in Calls : pc[c] = "idle" => attempt[c] = 1

\* An active call's parent is waiting for it, and for no other call.
ParentInv ==
  /\ \A c \in Calls : Active(c) /\ call[c].parent = None => call[c].inherit = None
  /\ \A c, p \in Calls : Active(c) /\ call[c].parent = p =>
       /\ UserCode(p)
       /\ call[c].level = call[p].level + 1
       /\ call[c].inherit = ScopeOf(p)
       /\ call[c].inherit # None => call[c].entry = Inside(p)
       /\ \A d \in Calls : Active(d) /\ call[d].parent = p => d = c

\* The calls of one store form a chain, of which only the innermost is in control.
ChainInv ==
  \A c, d \in Calls : Active(c) /\ Active(d) /\ c # d /\ ScopeOf(c) # None /\ ScopeOf(c) = ScopeOf(d)
    => \/ call[c].level < call[d].level /\ ~InControl(c)
       \/ call[d].level < call[c].level /\ ~InControl(d)

\* A store is in use only while the attempt that installed it runs.
StoreInv ==
  /\ \A d, e \in Calls : Active(d) /\ call[d].inherit # None /\ e = call[d].inherit[1] =>
       /\ Active(e) /\ call[e].kind = "new" /\ call[e].inherit = None
       /\ Own(e) = call[d].inherit /\ call[e].level < call[d].level
  /\ \A c \in Calls, a \in Attempts : pc[c] = "idle" \/ a > attempt[c]
       => context[<<c, a>>].at = Context!EmptyMap.at

\* The transaction of a call is open until the call ends it, and a transaction a
\* call can see belongs to an outer call that waits in its body or a hook.
OpenInv ==
  /\ \A c \in Calls : call[c].kind = "new" /\ pc[c] \in {"body", "beforeCommit", "commit", "rollback"}
       => status[Own(c)] = "open"
  /\ \A c, o \in Calls, k \in Keys :
       /\ Active(c) /\ call[c].inherit # None
       /\ call[c].entry[k] # None /\ o = call[c].entry[k][1]
       => /\ call[o].kind = "new" /\ pc[o] \in {"body", "beforeCommit"}
          /\ Own(o) = call[c].entry[k] /\ ScopeOf(o) = call[c].inherit
          /\ call[o].level < call[c].level

\* A transaction in a Map is the current one of a call of that store which is
\* still in its body or its before-commit hooks.
MapInv ==
  \A s \in Stores, k \in Keys, o \in Calls :
    context[s].at[k] # None /\ o = context[s].at[k][1] =>
      /\ call[o].kind = "new" /\ pc[o] \in {"body", "beforeCommit"}
      /\ Own(o) = context[s].at[k] /\ ScopeOf(o) = s

IInv == /\ TypeOK /\ ErrorInv /\ FrameInv /\ IdleInv /\ ParentInv /\ ChainInv /\ StoreInv
        /\ OpenInv /\ MapInv /\ LexicalScope

-------------------------------------------------------------------------------
(***************************************************************************)
(* The inductive invariant behind outcomes, for awaited and overlapping    *)
(* calls alike: it says of each place in startNew what the database holds  *)
(* of the attempt and which error is on its way.                           *)
(***************************************************************************)

PlaceInv ==
  \A c \in Calls : /\ Active(c) => pc[c] \in KindPCs(c)
                   /\ pc[c] = "idle" => attempt[c] = 1 /\ err[c] = None
                   /\ call[c].kind = "savepoint" => call[c].saved = None
                   /\ Active(c) /\ call[c].kind = "new" => pc[c] = "restore" \/ call[c].opt.maxAttempts > 0

\* Only the current attempt of a call that opens transactions can be open.
AttemptInv ==
  \A c \in Calls, a \in Attempts :
    /\ pc[c] = "idle" \/ call[c].kind # "new" \/ a > attempt[c] => status[<<c, a>>] = "none"
    /\ a < attempt[c] => status[<<c, a>>] # "open"

\* What the transaction's status s and the call's error e can be when a call
\* made with options o that opens transactions is at l.
Fits(o, l, e, s) ==
  /\ l = "begin" => s = "none" /\ e = None
  /\ l \in {"body", "beforeCommit"} => s = "open" /\ e = None
  /\ l = "commit" => s = "open" /\ (e # None => ~shouldRollback(e, o))
  /\ l = "rollback" => s = "open" /\ e # None
  /\ l = "afterCommit" => s = "committed" /\ (e # None => ~shouldRollback(e, o))
  /\ l = "afterRollback" => s = "rolledBack" /\ e # None
  /\ l \in {"attemptEnd", "restore", "done"} =>
       /\ s # "open" /\ (e = None => s = "committed")
       /\ s = "committed" /\ e # None => ~shouldRollback(e, o)
StageInv ==
  \A c \in Calls : call[c].kind = "new" => Fits(call[c].opt, pc[c], err[c], status[Own(c)])

\* Errors end up in the rolledBack set because the driver raised them or
\* because the rules of some call that gets as far as its body roll back on them.
MayUndo(e) == e.cls \in DriverErrors \/ \E o \in Options : o.maxAttempts > 0 /\ shouldRollback(e, o)
UndoneInv ==
  /\ \A e \in rolledBack : MayUndo(e)
  /\ \A c \in Calls : pc[c] \in {"rollback", "afterRollback"} => MayUndo(err[c])

OutcomeInv == TypeOK /\ ErrorInv /\ PlaceInv /\ AttemptInv /\ StageInv /\ UndoneInv

\* A configuration whose options agree: an error class that some retried call
\* commits on, and would retry, is one that nothing in the system rolls back on.
RulesAgree ==
  \A o \in Options, e \in Errors :
    o.maxAttempts > 1 /\ e.cls \in o.retryIf /\ ~shouldRollback(e, o) => ~MayUndo(e)

\* The hooks of awaited programs: counted only for open transactions, run at
\* most once, and all run when their loop is over.
HookCountInv ==
  \A t \in Tx :
    /\ status[t] = "none" => \A p \in Phases : hooks[t][p] = 0 /\ ran[t][p] = 0
    /\ \A p \in Phases : ran[t][p] <= hooks[t][p]
    /\ status[t] # "committed" => ran[t]["afterCommit"] = 0
    /\ status[t] # "rolledBack" => ran[t]["afterRollback"] = 0
BeforeCommitInv ==
  \A c \in Calls :
    /\ call[c].kind = "new" /\ err[c] = None
    /\ pc[c] \in {"commit", "afterCommit", "attemptEnd", "restore", "done"}
    => ran[Own(c)]["beforeCommit"] = hooks[Own(c)]["beforeCommit"]
HookInv == HookCountInv /\ HooksMatchOutcome /\ BeforeCommitInv
==============================================================================
