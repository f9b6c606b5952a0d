---------------------------- MODULE MCApplication -----------------------------
(* Instances of ApplicationLifecycle for TLC. *)
EXTENDS ApplicationLifecycle, TLC

CONSTANTS d1, d2, d3, d4

Import(via, type, name, db, isDefault) ==
  [via |-> via, key |-> <<type, name>>, db |-> db, isDefault |-> isDefault, observers |-> FALSE]

Infrastructure == Import("core", "typeorm", "default", None, FALSE)

\* "sync": infrastructure, then the adapters of the ORM modules, one of them the
\* declared default.  "async": a forRootAsync first, a synchronous adapter behind it,
\* two late registrations, and the database that "sync" used, again.  "named": two
\* synchronous adapters and a Drizzle one.  "twice": a later call with observers.
\* "renamed": one Drizzle database under two names.  "buses": refused at bootstrap.
Imported ==
  [sync  |-> <<Infrastructure, Import("orm", "typeorm", "default", d1, FALSE),
               Import("orm", "drizzle", "billing", d2, TRUE)>>,
   async |-> <<Import("coreAsync", "typeorm", "audit", d3, FALSE),
               Import("core", "drizzle", "default", d4, FALSE),
               Import("ormAsync", "typeorm", "default", d1, FALSE),
               Import("ormAsync", "drizzle", "billing", d2, TRUE)>>,
   named |-> <<Import("core", "typeorm", "audit", d3, FALSE),
               Import("core", "typeorm", "billing", d4, FALSE),
               Import("orm", "drizzle", "default", d2, FALSE)>>,
   twice |-> <<Import("core", "typeorm", "audit", d3, FALSE),
               [Import("core", "typeorm", "billing", d4, FALSE) EXCEPT !.observers = TRUE]>>,
   renamed |-> <<Infrastructure, Import("orm", "drizzle", "default", d2, FALSE),
                 Import("orm", "drizzle", "billing", d2, FALSE)>>,
   buses |-> <<Infrastructure, Import("orm", "typeorm", "default", d1, FALSE)>>]

\* Two types of adapter under one name, which callers tell apart by type.
SharedName == [shared |-> <<Infrastructure, Import("orm", "typeorm", "billing", d1, TRUE),
                            Import("orm", "drizzle", "billing", d2, FALSE)>>]

\* A forRootAsync, and a forRoot behind it.
AsyncFirst == [mixed |-> <<Import("coreAsync", "typeorm", "default", d1, FALSE),
                           Import("core", "typeorm", "billing", d2, FALSE)>>]

Plain(mode) == [NoOptions EXCEPT !.mode = mode]
On(mode, name) == [Plain(mode) EXCEPT !.dataSource = name]
With(mode, type, name) == [Plain(mode) EXCEPT !.adapter = type, !.adapterInstance = name]

Classes == [command |-> [kind |-> "command", metadata |-> On(None, "default")],
            query |-> [kind |-> "query", metadata |-> None],
            event |-> [kind |-> "event", metadata |-> None]]

\* The module's defaults but in two applications: in one only commands are wrapped,
\* and the other has a second EventBus.
Defaults == [off |-> {}, query |-> None, command |-> None, bus |-> TRUE]
Options == [a \in {"sync", "named", "twice", "renamed", "shared", "mixed"} |-> Defaults]
             @@ ("async" :> [Defaults EXCEPT !.off = {"query", "event"}])
             @@ ("buses" :> [Defaults EXCEPT !.bus = FALSE])

Methods == {Plain(None), On("REQUIRES_NEW", "default"), On("NOT_SUPPORTED", "default"),
            On("REQUIRES_NEW", "billing"), On("NESTED", "billing"), With("SUPPORTS", "typeorm", "default"),
            On("MANDATORY", "default"), On("NEVER", "billing")}
SharedMethods == {With("REQUIRED", t, "billing") : t \in {"typeorm", "drizzle"}}
===============================================================================
