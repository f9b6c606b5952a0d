------------------------- MODULE ApplicationLifecycle -------------------------
(***************************************************************************)
(* The applications that follow one another in a process (as test suites   *)
(* do) and the process-wide state the modules keep across them: the static *)
(* Map and flag of TransactionalModule, the marks of the TypeORM and       *)
(* Drizzle patches, and the handler prototypes that CqrsHandlerWrapper     *)
(* replaces.  An application declares its imports, resolves its providers, *)
(* wraps, serves requests and closes; a request nests calls of             *)
(* manager.run through wrapped handlers and services.                      *)
(***************************************************************************)
EXTENDS OrmRouting, FiniteSetsExt, SequencesExt

CONSTANTS Apps,
          Imports,   \* app -> its forRoot and forRootAsync calls, in order
          Handlers,  \* handler class -> [kind, metadata]
          Cqrs,      \* app -> [off, query, command]: its TransactionalCqrsModule options,
                     \* and bus: is its one EventBus the transactional one?
          Services,  \* the options of its @Transactional service and controller methods
          MaxApps    \* bound: applications that one process starts

Kinds == {"command", "query", "event"}

Modes == {"REQUIRED", "REQUIRES_NEW", "NESTED", "SUPPORTS", "NOT_SUPPORTED", "MANDATORY", "NEVER"}

\* What a forRoot call carries: `db` None is a call without adapter.
ImportRecords == [via : {"core", "coreAsync", "orm", "ormAsync"}, key : Keys,
                  db : Databases \cup {None}, isDefault : BOOLEAN, observers : BOOLEAN]

\* ExtendedTransactionOptions, as far as the routing reads them; None is left out.
OptionRecords == [mode : Modes \cup {None}, dataSource : Names \cup {None},
                  adapter : Types \cup {None}, adapterInstance : Names \cup {None}]

\* A request under way: its application, and which handler runs in whose manager.
Requests == [app : Apps, handler : DOMAIN Handlers \cup {None}, manager : Apps \cup {None}]

\* Is m a forRoot or forRootAsync of the TypeORM or the Drizzle module?
ByOrm(m) == m.via \in {"orm", "ormAsync"}

ASSUME BoundsAssumption == MaxApps \in Nat /\ MaxDepth \in Nat
ASSUME NoneAssumption ==
  /\ None \notin Names \cup Types \cup Databases \cup Apps \cup Modes /\ None \notin Nat
  /\ None \notin Keys /\ None \notin Transactions /\ None \notin OptionRecords /\ None \notin Requests

\* An ORM module always has an instance of its own ORM, and only it has isDefault.
ASSUME ImportsAssumption ==
  /\ "default" \in Names /\ Imports \in [Apps -> Seq(ImportRecords)]
  /\ \A a \in Apps : \A i \in DOMAIN Imports[a] :
       LET m == Imports[a][i]
       IN  /\ ByOrm(m) => m.db # None /\ m.key[1] \in {"typeorm", "drizzle"}
           /\ m.isDefault => ByOrm(m)
  /\ \A a, b \in Apps : \A i \in DOMAIN Imports[a], j \in DOMAIN Imports[b] :
       LET m == Imports[a][i]  n == Imports[b][j]
       IN  ByOrm(m) /\ ByOrm(n) /\ m.db = n.db => m.key[1] = n.key[1]

ASSUME OptionsAssumption ==
  /\ \A h \in DOMAIN Handlers : Handlers[h] \in [kind : Kinds, metadata : OptionRecords \cup {None}]
  /\ \A a \in Apps : Cqrs[a] \in [off : SUBSET Kinds, query : OptionRecords \cup {None},
                                  command : OptionRecords \cup {None}, bus : BOOLEAN]
  /\ Services \subseteq OptionRecords

VARIABLES registrations,             \* TransactionalModule.registrations
          infrastructureRegistered,
          managed, stamp,            \* see OrmRouting
          proto,      \* whose manager a handler prototype's wrapper closes over
          phase,      \* of each application
          called,     \* forRoot calls made so far
          factory,    \* its ADAPTER_REGISTRY factory: none, static or fresh
          pending,    \* imports that have yet to register their adapter
          registry,
          request, stack, context    \* the request under way and its manager.run calls

statics == <<registrations, infrastructureRegistered>>
marks == <<managed, stamp>>
startup == <<called, factory, pending, registry>>
serving == <<request, stack, context>>
vars == <<statics, marks, proto, phase, startup, serving>>

Init ==
  /\ registrations = <<>> /\ infrastructureRegistered = FALSE
  /\ managed = [db \in Databases |-> None]
  /\ stamp = [db \in Databases |-> None]
  /\ proto = [h \in DOMAIN Handlers |-> None]
  /\ phase = [a \in Apps |-> "absent"]
  /\ called = [a \in Apps |-> 0]
  /\ factory = [a \in Apps |-> "none"]
  /\ pending = [a \in Apps |-> {}]
  /\ registry = [a \in Apps |-> NewRegistry]
  /\ request = None /\ stack = <<>> /\ context = EmptyMap

Live(a) == phase[a] \notin {"absent", "failed", "closed"}

Enters(a, p) == phase' = [phase EXCEPT ![a] = p]

Calls(a) == DOMAIN Imports[a]

-------------------------------------------------------------------------------
(* Declaration: the forRoot calls of an application module, in source order *)

Start(a) ==
  /\ phase[a] = "absent" /\ \A b \in Apps : ~Live(b)
  /\ Cardinality({b \in Apps : phase[b] # "absent"}) < MaxApps
  /\ Enters(a, "declaring")
  /\ UNCHANGED <<statics, marks, proto, startup, serving>>

\* forRoot refuses a data source it knows and a second call without adapter.
Refused(m) == IF m.db # None THEN \E r \in Range(registrations) : r.key[2] = m.key[2]
              ELSE infrastructureRegistered

Recorded(m) == IF m.db # None THEN Append(registrations, m) ELSE registrations

\* The observers of a later call are refused after the Map was written.
RefusedLate(m) == m.observers /\ infrastructureRegistered

forRoot(a) ==
  LET m == Imports[a][called[a] + 1]
  IN  /\ phase[a] = "declaring" /\ called[a] < Len(Imports[a]) /\ m.via = "core"
      /\ registrations' = IF Refused(m) THEN registrations ELSE Recorded(m)
      /\ IF Refused(m) \/ RefusedLate(m)
         THEN Enters(a, "failed") /\ UNCHANGED <<infrastructureRegistered, startup>>
         ELSE /\ infrastructureRegistered' = TRUE
              /\ factory' = [factory EXCEPT ![a] = IF infrastructureRegistered THEN @ ELSE "static"]
              /\ called' = [called EXCEPT ![a] = @ + 1]
              /\ UNCHANGED <<phase, pending, registry>>
      /\ UNCHANGED <<marks, proto, serving>>

forRootAsync(a) ==
  /\ phase[a] = "declaring" /\ called[a] < Len(Imports[a])
  /\ Imports[a][called[a] + 1].via = "coreAsync"
  /\ infrastructureRegistered' = TRUE
  /\ factory' = [factory EXCEPT ![a] = IF infrastructureRegistered THEN @ ELSE "fresh"]
  /\ called' = [called EXCEPT ![a] = @ + 1]
  /\ pending' = [pending EXCEPT ![a] = @ \cup {called[a] + 1}]
  /\ UNCHANGED <<registrations, marks, proto, phase, registry, serving>>

\* forRoot and forRootAsync of the TypeORM and Drizzle modules only declare.
ormForRoot(a) ==
  /\ phase[a] = "declaring" /\ called[a] < Len(Imports[a])
  /\ ByOrm(Imports[a][called[a] + 1])
  /\ called' = [called EXCEPT ![a] = @ + 1]
  /\ pending' = [pending EXCEPT ![a] = @ \cup {called[a] + 1}]
  /\ UNCHANGED <<statics, marks, proto, phase, factory, registry, serving>>

-------------------------------------------------------------------------------
(* Resolution of the providers *)

\* The entries of the static Map, registered in its order: their names differ, and
\* the first becomes the default.
buildRegistryFromStaticStorage ==
  [adapters |-> [k \in Keys |-> IF \E m \in Range(registrations) : m.key = k
                                THEN (CHOOSE m \in Range(registrations) : m.key = k).db
                                ELSE None],
   default  |-> IF registrations = <<>> THEN None ELSE registrations[1].key]

\* The ADAPTER_REGISTRY factory; without one the injection of it fails.
BuildRegistry(a) ==
  /\ phase[a] = "declaring" /\ called[a] = Len(Imports[a])
  /\ IF factory[a] = "none" THEN Enters(a, "failed") ELSE Enters(a, "resolving")
  /\ registry' = [registry EXCEPT ![a] =
                    IF factory[a] = "static" THEN buildRegistryFromStaticStorage ELSE @]
  /\ UNCHANGED <<statics, marks, proto, called, factory, pending, serving>>

\* Factories run as what they inject resolves, in any order; onModuleInit runs
\* when every provider exists.
Ready(a, i) ==
  Imports[a][i].via = "ormAsync" => \A j \in pending[a] : Imports[a][j].via = "ormAsync"

\* Mutated form: a registration is asked for again and again.
Without_Not(a, i) == pending

Without(a, i) == [pending EXCEPT ![a] = @ \ {i}]

\* patchDrizzleInstance: one database cannot be two data sources.
OtherName(m) == m.key[1] = "drizzle" /\ managed[m.db] \notin {None, m.key[2]}

\* registerManagedDataSource and registerManagedDatabase: mark, patch, register.
registerManaged(a, m) ==
  /\ managed' = [managed EXCEPT ![m.db] = m.key[2]]
  /\ stamp' = IF m.key[1] = "typeorm" THEN [stamp EXCEPT ![m.db] = m.key[2]] ELSE stamp
  /\ registry' = [registry EXCEPT ![a] = register(@, m.key, m.db, m.isDefault)]

\* adapterEagerRegistrationProvider of TransactionalModule.forRootAsync.
registerEagerly(a, m) ==
  /\ registry' = [registry EXCEPT ![a] =
                    IF m.db = None THEN @ ELSE register(@, m.key, m.db, FALSE)]
  /\ UNCHANGED marks

RegisterAdapter(a, i) ==
  LET m == Imports[a][i]
  IN  /\ phase[a] = "resolving" /\ i \in pending[a] /\ Ready(a, i)
      /\ pending' = Without(a, i)
      /\ \/ m.via = "coreAsync" /\ registerEagerly(a, m) /\ UNCHANGED phase
         \/ m.via # "coreAsync" /\ ~OtherName(m) /\ registerManaged(a, m) /\ UNCHANGED phase
         \/ m.via # "coreAsync" /\ OtherName(m) /\ Enters(a, "failed") /\ UNCHANGED <<marks, registry>>
      /\ UNCHANGED <<statics, proto, called, factory, serving>>

-------------------------------------------------------------------------------
(* Wrapping and closing *)

\* @Transactional(o): an option that is left out is None; the mode is REQUIRED.
Transactional(o) == [o EXCEPT !.mode = IF @ = None THEN "REQUIRED" ELSE @]

NoOptions == [mode |-> None, dataSource |-> None, adapter |-> None, adapterInstance |-> None]

\* TransactionalCqrsModule: kinds are wrapped unless turned off, and queries have
\* defaults of their own, { readOnly: true }.
resolveOptions(o) ==
  [wraps |-> Kinds \ o.off,
   defaults |-> [command |-> o.command, event |-> None,
                 query |-> IF o.query = None THEN NoOptions ELSE o.query]]

\* classifyHandler and resolveMetadata: a handler's own @Transactional, on the
\* method or the class, comes before the defaults of its kind.
resolveMetadata(a, h) ==
  LET options == resolveOptions(Cqrs[a])
      kind == Handlers[h].kind
      chosen == IF Handlers[h].metadata # None THEN Handlers[h].metadata ELSE options.defaults[kind]
  IN  IF kind \notin options.wraps \/ chosen = None THEN None ELSE Transactional(chosen)

\* wrapAll: a prototype that carries the marker, from any application, is kept.
wrapAll(a) ==
  [h \in DOMAIN Handlers |->
     IF proto[h] = None /\ resolveMetadata(a, h) # None THEN a ELSE proto[h]]

\* CqrsEventBusBinding refuses a second EventBus, imported with another
\* CqrsModule, and a publisher that was replaced and not wrapped.
BusReachesPublisher(a) == Cqrs[a].bus

\* The onApplicationBootstrap hooks: TransactionalCqrsBootstrap wraps, then the
\* binding may refuse.  TransactionalMethodsBootstrap wraps this app's instances.
Bootstrap(a) ==
  /\ phase[a] = "resolving" /\ pending[a] = {}
  /\ IF BusReachesPublisher(a) THEN Enters(a, "serving") ELSE Enters(a, "failed")
  /\ proto' = wrapAll(a)
  /\ UNCHANGED <<statics, marks, startup, serving>>

\* Mutated form: the prototypes stay as the application left them.
Unwrapped_Kept == proto

\* CqrsHandlerWrapper.resetForTesting restores every tracked prototype.
Unwrapped == [h \in DOMAIN Handlers |-> None]

\* app.close(): onModuleDestroy comes first, while requests still arrive.
onModuleDestroy(a) ==
  /\ phase[a] = "serving"
  /\ Enters(a, "closing")
  /\ proto' = Unwrapped
  /\ UNCHANGED <<statics, marks, startup, serving>>

\* The server has stopped and its last request has ended.
Dispose(a) ==
  /\ phase[a] = "closing" /\ request = None
  /\ Enters(a, "closed")
  /\ UNCHANGED <<statics, marks, proto, startup, serving>>

\* Mutated form: the flag is cleared and the Map is not.
Cleared_FlagOnly == registrations

Cleared == <<>>

\* The resets that test suites call between applications, each on its own: first
\* TransactionalModule.resetForTesting.
resetForTesting ==
  /\ \A a \in Apps : ~Live(a)
  /\ registrations' = Cleared /\ infrastructureRegistered' = FALSE
  /\ UNCHANGED <<marks, proto, phase, startup, serving>>

Orms == {"typeorm", "drizzle"}

\* The databases that the module of an ORM can have marked.
DatabasesOf(orm) ==
  {db \in Databases : \E a \in Apps : \E m \in Range(Imports[a]) :
                        ByOrm(m) /\ m.db = db /\ m.key[1] = orm}

\* resetManagedRegistry and resetDrizzlePatchingForTesting: the marks go, the
\* names stamped on DataSources stay.
resetManaged(orm) ==
  /\ \A a \in Apps : ~Live(a)
  /\ managed' = [db \in Databases |-> IF db \in DatabasesOf(orm) THEN None ELSE managed[db]]
  /\ UNCHANGED <<statics, stamp, proto, phase, startup, serving>>

\* The static of CqrsHandlerWrapper, a reset of its own that few suites call.
resetHandlers ==
  /\ \A a \in Apps : ~Live(a)
  /\ proto' = Unwrapped
  /\ UNCHANGED <<statics, marks, phase, startup, serving>>

-------------------------------------------------------------------------------
(* Requests: calls of manager.run, one inside the other *)

\* What run does at key k: join (also as a savepoint), open a transaction, run
\* without one, or refuse.
Effect(mode, k) ==
  LET exists == getActiveTransaction(context, k) # None
  IN  CASE mode \in {"REQUIRED", "NESTED"} -> IF exists THEN "join" ELSE "open"
        [] mode = "REQUIRES_NEW" -> "open"
        [] mode = "NOT_SUPPORTED" -> IF exists THEN "suspend" ELSE "join"
        [] mode = "SUPPORTS" -> "join"
        [] mode = "MANDATORY" -> IF exists THEN "join" ELSE "refuse"
        [] mode = "NEVER" -> IF exists THEN "refuse" ELSE "join"

\* Mutated form: the outer transaction keeps its entry.
Suspended_Kept(k) == context

\* The context while an outer transaction at k is put aside.
Suspended(k) == removeActiveTransaction(context, k)

\* run of application a's manager.  The new transaction is begun before it gets
\* its entry, so the adapter sees the context without the outer one.
Run(a, o) ==
  LET k == resolveAdapterIdentifiers(registry[a], o)
      does == Effect(o.mode, k)
      new == [id |-> Len(stack) + 1, key |-> k,
              base |-> BeginsOn(stamp, Suspended(k), k, get(registry[a], k))]
  IN  /\ Len(stack) < MaxDepth /\ k # None /\ does # "refuse"
      /\ does = "open" => get(registry[a], k) # None
      /\ stack' = Append(stack, [key |-> k, does |-> does, outer |-> context.at[k],
                                 base |-> IF does = "open" THEN new.base ELSE None])
      /\ context' = CASE does = "join" -> context
                      [] does = "suspend" -> Suspended(k)
                      [] does = "open" -> setActiveTransaction(Suspended(k), k, new)

\* A bus looks the method up on the prototype when it is called.
Dispatch(a, h) ==
  /\ phase[a] \in {"serving", "closing"} /\ request = None
  /\ request' = [app |-> a, handler |-> h, manager |-> proto[h]]
  /\ IF proto[h] = None THEN UNCHANGED <<stack, context>>
     ELSE Run(proto[h], resolveMetadata(proto[h], h))
  /\ UNCHANGED <<statics, marks, proto, phase, startup>>

\* TransactionalInterceptor: a controller method, passed through when neither it
\* nor its class has metadata.
Intercept(a, o) ==
  /\ phase[a] \in {"serving", "closing"} /\ request = None
  /\ request' = [app |-> a, handler |-> None, manager |-> a]
  /\ IF o = None THEN UNCHANGED <<stack, context>> ELSE Run(a, Transactional(o))
  /\ UNCHANGED <<statics, marks, proto, phase, startup>>

\* A wrapped service method called on the way.
CallService(o) ==
  /\ request # None
  /\ Run(request.app, Transactional(o))
  /\ UNCHANGED <<statics, marks, proto, phase, startup, request>>

\* The innermost call ends, whatever its outcome.
Return ==
  /\ stack # <<>>
  /\ LET f == Last(stack)
         without == removeActiveTransaction(context, f.key)
     IN  context' = CASE f.does = "join" -> context
                      [] f.does = "open" /\ f.outer = None -> without
                      [] OTHER -> setActiveTransaction(without, f.key, f.outer)
  /\ stack' = Front(stack)
  /\ UNCHANGED <<statics, marks, proto, phase, startup, request>>

EndRequest ==
  /\ request # None /\ stack = <<>>
  /\ request' = None
  /\ UNCHANGED <<statics, marks, proto, phase, startup, stack, context>>

-------------------------------------------------------------------------------

Startup(a) == \/ forRoot(a) \/ forRootAsync(a) \/ ormForRoot(a) \/ BuildRegistry(a)
              \/ \E i \in Calls(a) : RegisterAdapter(a, i)
              \/ Bootstrap(a)

Next == \/ \E a \in Apps : \/ Start(a) \/ Startup(a) \/ onModuleDestroy(a) \/ Dispose(a)
                           \/ \E h \in DOMAIN Handlers : Dispatch(a, h)
                           \/ \E o \in Services \cup {None} : Intercept(a, o)
        \/ \E o \in Services : CallService(o)
        \/ Return \/ EndRequest
        \/ resetForTesting \/ resetHandlers \/ \E orm \in Orms : resetManaged(orm)

\* Nest awaits each start-up step and the event loop runs what is ready.
Spec == Init /\ [][Next]_vars /\ \A a \in Apps : WF_vars(Startup(a))

-------------------------------------------------------------------------------
(* Properties *)

Phases == {"absent", "declaring", "resolving", "serving", "closing", "closed", "failed"}

\* Types; and the default of a registry is one of its registrations.
TypeOK ==
  /\ infrastructureRegistered \in BOOLEAN
  /\ managed \in [Databases -> Names \cup {None}] /\ stamp \in [Databases -> Names \cup {None}]
  /\ proto \in [DOMAIN Handlers -> Apps \cup {None}]
  /\ phase \in [Apps -> Phases] /\ factory \in [Apps -> {"none", "static", "fresh"}]
  /\ \A a \in Apps : /\ called[a] \in 0..Len(Imports[a]) /\ pending[a] \subseteq Calls(a)
                     /\ registry[a] \in Registries
                     /\ registry[a].default \in getAll(registry[a]) \cup {None}
  /\ context \in Maps /\ Len(stack) <= MaxDepth

\* The imports of application a that carry an adapter.
Adapters(a) == {i \in Calls(a) : Imports[a][i].db # None}

\* The imported adapters that nothing registers: those of forRoot calls in an
\* application whose first call was forRootAsync, since the registry factory of that
\* call does not read the static Map.  See AdaptersAreRegistered.
Unread(a) == IF factory[a] = "fresh" THEN {i \in Adapters(a) : Imports[a][i].via = "core"} ELSE {}

\* Import i of application a is in its registry, with the database it was given.
Resolves(a, i) == get(registry[a], Imports[a][i].key) = Imports[a][i].db

\* "Each call registers one dataSource's adapter" (transactional.module.ts): an
\* application that serves can use every adapter that it imported.
AdaptersAreRegistered ==
  \A a \in Apps : phase[a] = "serving" => \A i \in Adapters(a) : Resolves(a, i)

\* A registry belongs to its application: while the application serves, every entry
\* is an adapter that it imported, with its database and left by no earlier
\* application or refused start, and every adapter it imported resolves.  Of the
\* adapters in Unread nothing is said: AdaptersAreRegistered is about them too.
RegistryIsOwn ==
  \A a \in Apps : phase[a] = "serving" =>
    /\ \A k \in getAll(registry[a]) : \E i \in Adapters(a) : Imports[a][i].key = k /\ Resolves(a, i)
    /\ \A i \in Adapters(a) \ Unread(a) : Resolves(a, i)

\* The data source that @Transactional() without options uses does not depend on
\* the order in which asynchronous factories finish: it is the one import with
\* isDefault, or else the first synchronous adapter, of those that are registered.
DefaultIsDeclared ==
  \A a \in Apps : phase[a] = "serving" =>
    LET declared == {i \in Adapters(a) : Imports[a][i].isDefault}
        sync == {i \in Adapters(a) \ Unread(a) : Imports[a][i].via = "core"}
    IN  /\ Cardinality(declared) = 1 => registry[a].default \in {Imports[a][i].key : i \in declared}
        /\ declared = {} /\ sync # {} => registry[a].default = Imports[a][Min(sync)].key

\* While an application serves, the prototype of each handler it wraps runs in
\* that application's manager, and no other handler keeps an earlier one's - but
\* for wrappers of an application that was refused in its bootstrap hooks: it never
\* reaches onModuleDestroy, and only resetHandlers removes them.
HandledByOwnManager ==
  \A a \in Apps : phase[a] = "serving" =>
    \A h \in DOMAIN Handlers :
      \/ proto[h] = IF resolveMetadata(a, h) # None THEN a ELSE None
      \/ proto[h] # None /\ phase[proto[h]] = "failed" /\ ~BusReachesPublisher(proto[h])

\* The transaction that the calls under way give key k: of the innermost call
\* that opened or suspended one.
Innermost(k) ==
  LET own == {i \in DOMAIN stack : stack[i].key = k /\ stack[i].does # "join"}
  IN  IF own = {} \/ stack[Max(own)].does = "suspend" THEN None ELSE Max(own)

\* Every way to reach a registered database leads to the innermost transaction of
\* its data source, or to the database itself when there is none.
StatementsFollowTransaction ==
  request # None =>
    \A i \in Adapters(request.app) :
      LET m == Imports[request.app][i]
      IN  ByOrm(m) =>
            \A t \in Routes(managed, stamp, context, m.key, m.db) : IdOf(t) = Innermost(m.key)

\* A transaction that is begun inside another of its data source gets a connection
\* of its own and does not become a savepoint of it.
IndependentTransactions == \A i \in DOMAIN stack : stack[i].base = None

\* An application that starts comes to serve requests, or is refused.
StartSettles == \A a \in Apps : phase[a] = "declaring" ~> phase[a] \in {"serving", "failed"}
===============================================================================
