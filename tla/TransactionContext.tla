-------------------------- MODULE TransactionContext --------------------------
(***************************************************************************)
(* The store of core/src/context/transaction.context.ts: the ordered JS    *)
(* Map `activeTransactions` that every asynchronous descendant of one      *)
(* AsyncLocalStorage scope shares.  A Map is a record: `at` gives the      *)
(* transaction under each key (None: no entry), and `older` holds the      *)
(* pairs <<j, k>> of present keys such that j was inserted before k.       *)
(* Map.set of a present key keeps its place; Map.delete forgets it.        *)
(***************************************************************************)

CONSTANTS Keys,   \* context keys, "adapter:instance" in the code
          Tx,     \* transactions a key may hold
          None

Maps == [at : [Keys -> Tx \cup {None}], older : SUBSET (Keys \X Keys)]

\* The Map that TransactionContext.run installs when there is no store.
EmptyMap == [at |-> [k \in Keys |-> None], older |-> {}]

Present(m) == {k \in Keys : m.at[k] # None}

getActiveTransaction(m, k) == m.at[k]

setActiveTransaction(m, k, t) ==
  [at    |-> [m.at EXCEPT ![k] = t],
   older |-> IF k \in Present(m) THEN m.older
             ELSE m.older \cup {<<j, k>> : j \in Present(m)}]

\* Mutated form: clear() instead of delete(key).
removeActiveTransaction_Clears(m, k) == EmptyMap

removeActiveTransaction(m, k) ==
  [at    |-> [m.at EXCEPT ![k] = None],
   older |-> {p \in m.older : p[1] # k /\ p[2] # k}]

\* The first value of the Map's iteration order, None when it is empty.
FirstTransaction(m) ==
  IF Present(m) = {} THEN None
  ELSE m.at[CHOOSE k \in Present(m) : \A j \in Present(m) : <<j, k>> \notin m.older]
===============================================================================
