------------------------------ MODULE MCManager ------------------------------
(* Option sets of the small instances of TransactionManager that TLC checks. *)
EXTENDS TransactionManagerProps

Option(mode, key, commits, attempts) ==
  [mode |-> mode, key |-> key, noRollbackFor |-> commits, rollbackFor |-> {},
   maxAttempts |-> attempts, retryIf |-> {"Conflict"}]

\* Every propagation mode on data source "a", where REQUIRED is retried once,
\* and on "b" the modes that touch the Map; one retry option is invalid.  The
\* rules commit on a Business error although the retried call's retryIf names it.
AllModes ==
  {[Option(m, "a", {"Business"}, IF m = "REQUIRED" THEN 2 ELSE 1)
      EXCEPT !.retryIf = {"Conflict", "Business"}] : m \in Modes}
    \cup {Option(m, "b", {"Business"}, 1) : m \in {"REQUIRED", "REQUIRES_NEW", "NOT_SUPPORTED"}}
    \cup {Option("REQUIRES_NEW", "b", {}, 0)}

\* Requests that hold connections while they wait for one more, to the point where
\* the pool is in a circular wait, and siblings that overlap and may suspend the
\* transaction of each other.
ConcurrentModes == {Option("REQUIRED", "db", {}, 2), Option("REQUIRES_NEW", "db", {}, 1)}

\* An outer call that commits on Conflict and is retried, and an inner
\* REQUIRES_NEW that rolls back with the same error object.
CommitOnConflict ==
  {Option("REQUIRED", "db", {"Conflict"}, 2), Option("REQUIRES_NEW", "db", {}, 1)}
===============================================================================
