------------------------------ MODULE OrmRouting ------------------------------
(***************************************************************************)
(* Where a statement goes: the getters and wrappers that                   *)
(* packages/typeorm and packages/drizzle put on repositories, DataSources  *)
(* and drizzle() instances.  Each finds the transaction of the caller's    *)
(* context Map m when it is called; None is the database itself, where the *)
(* statement commits on its own.                                           *)
(*                                                                         *)
(* managed[db] is the name under which a DataSource is in the WeakSet, or  *)
(* a drizzle() instance in the WeakMap; stamp[db] is the name written on a *)
(* DataSource, which a reset of the WeakSet leaves there.                  *)
(***************************************************************************)
EXTENDS AdapterRegistry, Naturals

CONSTANT MaxDepth  \* bound: calls of manager.run on one stack

\* An ActiveTransaction: its number, its key, and the transaction whose
\* EntityManager it was begun on (None: a connection of its own).
Transactions == [id : 1..MaxDepth, key : Keys, base : 1..MaxDepth \cup {None}]

INSTANCE TransactionContext WITH Tx <- Transactions

IdOf(t) == IF t = None THEN None ELSE t.id

\* getActiveTransactionByDataSource: the first entry of that name, of any type.
FirstNamed(m, name) ==
  LET named == {k \in Present(m) : k[2] = name}
  IN  IF named = {} THEN None
      ELSE m.at[CHOOSE k \in named : \A j \in named : <<j, k>> \notin m.older]

\* Mutated form: the first entry of the Map, whatever its data source.
getActiveEntityManager_Any(m, name) ==
  LET t == FirstTransaction(m) IN IF t # None /\ t.key[1] = "typeorm" THEN t ELSE None

\* The handle of another ORM's transaction has no entityManager.
getActiveEntityManager(m, name) ==
  LET t == FirstNamed(m, name) IN IF t # None /\ t.key[1] = "typeorm" THEN t ELSE None

\* Repository.manager, also of em.getRepository() and of an extended repository.
RepositoryManager(managed, stamp, m, db) ==
  IF managed[db] = None \/ stamp[db] = None THEN None ELSE getActiveEntityManager(m, stamp[db])

\* DataSource.manager; query() and createQueryBuilder() take its queryRunner.
DataSourceManager(stamp, m, db) ==
  IF stamp[db] = None THEN None ELSE getActiveEntityManager(m, stamp[db])

\* targetOf: every method and relational property of a drizzle() instance.
DrizzleTarget(managed, m, db) ==
  IF managed[db] = None THEN None ELSE getActiveTransaction(m, <<"drizzle", managed[db]>>)

\* getCurrentEntityManager and getCurrentDrizzleTransaction, with the fallback
\* that makes them return rather than throw.
CurrentHandle(m, k) == getActiveTransaction(m, k)

\* The transactions that the ways to reach database db, of key k, lead to.
Routes(managed, stamp, m, k, db) ==
  {CurrentHandle(m, k)} \cup
  (IF k[1] = "typeorm"
   THEN {RepositoryManager(managed, stamp, m, db), DataSourceManager(stamp, m, db)}
   ELSE {DrizzleTarget(managed, m, db)})

\* What the adapters' runInTransaction begins on: TypeORM goes through the patched
\* DataSource.manager, Drizzle through the method it had before the patch.
BeginsOn(stamp, m, k, db) ==
  IF k[1] = "typeorm" THEN IdOf(DataSourceManager(stamp, m, db)) ELSE None
===============================================================================
