---------------------------- MODULE AdapterRegistry ----------------------------
(***************************************************************************)
(* core/src/manager/adapter.registry.ts: the adapters of one application   *)
(* by (type, data source), and the default.  An adapter is named by the    *)
(* database it begins transactions on; a lookup that throws gives None.    *)
(***************************************************************************)
EXTENDS FiniteSets

CONSTANTS Types,      \* adapter names: "typeorm", "drizzle", ...
          Names,      \* data source names, the registry's instanceName
          Databases,  \* DataSource and drizzle() instances
          None

\* keyFor: the "type:name" of a registration, also the key of its transactions.
Keys == Types \X Names

Registries == [adapters : [Keys -> Databases \cup {None}], default : Keys \cup {None}]

NewRegistry == [adapters |-> [k \in Keys |-> None], default |-> None]

\* Mutated form: the flag is ignored, the first registration stays the default.
register_FirstWins(reg, k, db, isDefault) ==
  [adapters |-> [reg.adapters EXCEPT ![k] = db],
   default  |-> IF reg.default = None THEN k ELSE reg.default]

\* Mutated form: the default's instance name is left at its initial value.
register_HalfDefault(reg, k, db, isDefault) ==
  [adapters |-> [reg.adapters EXCEPT ![k] = db],
   default  |-> IF isDefault \/ reg.default = None THEN <<k[1], "default">> ELSE reg.default]

register(reg, k, db, isDefault) ==
  [adapters |-> [reg.adapters EXCEPT ![k] = db],
   default  |-> IF isDefault \/ reg.default = None THEN k ELSE reg.default]

get(reg, k) == reg.adapters[k]

getAll(reg) == {k \in Keys : get(reg, k) # None}

\* The registrations under one data source name, whatever their type.
Matches(reg, name) == {k \in getAll(reg) : k[2] = name}

\* getAdapterNameByDataSource, as a whole key: refused when none or several match.
getByDataSource(reg, name) ==
  IF Cardinality(Matches(reg, name)) = 1 THEN CHOOSE k \in Matches(reg, name) : TRUE ELSE None

\* TransactionManager.resolveAdapterIdentifiers: `dataSource` wins over the pair
\* `adapter` and `adapterInstance`, whose missing half comes from the default.
resolveAdapterIdentifiers(reg, o) ==
  CASE o.dataSource # None -> getByDataSource(reg, o.dataSource)
    [] o.dataSource = None /\ o.adapter = None /\ reg.default = None -> None
    [] OTHER -> <<IF o.adapter # None THEN o.adapter ELSE reg.default[1],
                  IF o.adapterInstance # None THEN o.adapterInstance
                  ELSE IF reg.default # None THEN reg.default[2] ELSE "default">>
===============================================================================
