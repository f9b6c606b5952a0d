---------------------- MODULE ApplicationLifecycleProofs ----------------------
(***************************************************************************)
(* Proofs about ApplicationLifecycle, for any applications, imports,       *)
(* handlers, options and bounds: what an application that serves finds in  *)
(* its registry and on the handler prototypes, and where its statements    *)
(* go.  The hypotheses on what is imported are OneAdapter, OneName and     *)
(* NamesApart; the instance that TLC checks satisfies them.                *)
(***************************************************************************)
EXTENDS ApplicationLifecycle, FiniteSetTheorems, TLAPS

-------------------------------------------------------------------------------
(* Hypotheses on the imports *)

\* An application that calls forRoot before any forRootAsync reads the static Map.
ReadsStatics(a) ==
  \E j \in Calls(a) : /\ Imports[a][j].via = "core"
                      /\ \A i \in Calls(a) : i < j => Imports[a][i].via # "coreAsync"

\* The imports whose adapter can reach the registry of a.
Registers(a) == {i \in Adapters(a) : Imports[a][i].via = "core" => ReadsStatics(a)}

\* An application gives each pair of type and data source one adapter.
OneAdapter ==
  \A a \in Apps : \A i, j \in Registers(a) : Imports[a][i].key = Imports[a][j].key => i = j

\* A TypeORM DataSource has one name in the whole process: its stamp outlives the
\* application that put it there.
OneName ==
  \A a, b \in Apps : \A i \in Adapters(a), j \in Adapters(b) :
    LET m == Imports[a][i]  n == Imports[b][j]
    IN  m.key[1] = "typeorm" /\ n.key[1] = "typeorm" /\ m.db = n.db => m.key = n.key

\* No other adapter shares the name of an ORM's TypeORM data source, in its own
\* application or in one whose wrappers may outlive it.
NamesApart ==
  \A a, b \in Apps : a = b \/ ~BusReachesPublisher(b) =>
    \A i \in Calls(a), j \in Registers(b) :
      LET m == Imports[a][i]  n == Imports[b][j]
      IN  ByOrm(m) /\ m.key[1] = "typeorm" /\ m.key[2] = n.key[2] => n.key[1] = "typeorm"

-------------------------------------------------------------------------------
(* The inductive invariant *)

\* An application is alone: no other is between its start and its end.
Alone == \A a, b \in Apps : Live(a) /\ Live(b) => a = b

\* A request belongs to an application that serves or closes, and between requests
\* no call is under way.
RequestInv ==
  /\ request \in Requests \cup {None}
  /\ request # None => phase[request.app] \in {"serving", "closing"}
  /\ request = None => stack = <<>>

\* Wrappers are those of the serving application or of one refused at bootstrap.
ProtoInv ==
  /\ proto \in [DOMAIN Handlers -> Apps \cup {None}]
  /\ \A h \in DOMAIN Handlers : proto[h] # None =>
       /\ resolveMetadata(proto[h], h) # None
       /\ \/ phase[proto[h]] = "serving"
          \/ phase[proto[h]] = "failed" /\ ~BusReachesPublisher(proto[h])
  /\ \A a \in Apps : phase[a] = "serving" =>
       \A h \in DOMAIN Handlers : proto[h] = None => resolveMetadata(a, h) = None

\* The synchronous adapters among the first n calls of application a.
Sync(a, n) == {i \in Calls(a) : i <= n /\ Imports[a][i].via = "core" /\ Imports[a][i].db # None}

\* The static Map: empty until the first forRoot, one entry for a name.
StaticInv ==
  /\ infrastructureRegistered \in BOOLEAN
  /\ registrations \in Seq(ImportRecords)
  /\ ~infrastructureRegistered => registrations = <<>>
  /\ \A i \in DOMAIN registrations : registrations[i].db # None
  /\ \A i, j \in DOMAIN registrations : registrations[i].key[2] = registrations[j].key[2] => i = j

\* The static Map holds what application a itself declared, in its order.
OwnStatics(a) ==
  /\ Range(registrations) = {Imports[a][i] : i \in Sync(a, called[a])}
  /\ registrations # <<>> =>
       \E i \in Sync(a, called[a]) : /\ registrations[1] = Imports[a][i]
                                     /\ \A j \in Sync(a, called[a]) : i <= j
  /\ ReadsStatics(a)

\* The start of an application, from its first call to its registry.
DeclaringAt(a) ==
  /\ phase[a] = "absent" => called[a] = 0 /\ factory[a] = "none" /\ pending[a] = {}
  /\ phase[a] \in {"absent", "declaring"} => registry[a] = NewRegistry
  /\ phase[a] = "declaring" =>
       /\ pending[a] = {i \in Calls(a) : i <= called[a] /\ Imports[a][i].via # "core"}
       /\ ~infrastructureRegistered =>
            /\ factory[a] = "none"
            /\ \A i \in Calls(a) : i <= called[a] => ByOrm(Imports[a][i])
       /\ factory[a] = "static" => OwnStatics(a)
DeclaringInv == \A a \in Apps : DeclaringAt(a)

\* An application whose registry exists.
Up(a) == phase[a] \in {"resolving", "serving", "closing"}

\* A registry has nothing but the adapters of its application, and all of those
\* that are not pending.
RegistryAt(a) ==
  /\ registry[a].default # None => get(registry[a], registry[a].default) # None
  /\ \A k \in Keys : get(registry[a], k) # None =>
       \E i \in Registers(a) : /\ Imports[a][i].key = k /\ Imports[a][i].db = get(registry[a], k)
                               /\ Imports[a][i].via = "core" => factory[a] = "static"
  /\ Up(a) =>
       /\ called[a] = Len(Imports[a]) /\ factory[a] \in {"static", "fresh"}
       /\ \A i \in Adapters(a) \ (pending[a] \cup Unread(a)) : get(registry[a], Imports[a][i].key) # None
RegistryInv == \A a \in Apps : RegistryAt(a)

\* The default is the declared one as soon as it is registered, and until then the
\* first synchronous one.
DefaultAt(a) ==
  Up(a) =>
    LET declared == {i \in Adapters(a) : Imports[a][i].isDefault}
        sync == {i \in Adapters(a) \ Unread(a) : Imports[a][i].via = "core"}
    IN  /\ \A i \in declared \ pending[a] : declared = {i} => registry[a].default = Imports[a][i].key
        /\ declared = {} /\ sync # {} =>
             \E i \in sync : registry[a].default = Imports[a][i].key /\ \A j \in sync : i <= j
DefaultInv == \A a \in Apps : DefaultAt(a)

\* What is left of the start once the registry exists: an application serves only
\* when nothing is pending.
Settled(a) ==
  /\ phase[a] \in {"serving", "closing"} => pending[a] = {}
  /\ Up(a) /\ factory[a] = "static" => ReadsStatics(a)
SettledInv == \A a \in Apps : Settled(a)

\* A stamp was put there by an import of its name.
StampInv ==
  \A db \in Databases : stamp[db] # None =>
    \E a \in Apps : \E i \in Adapters(a) :
      /\ ByOrm(Imports[a][i]) /\ Imports[a][i].key = <<"typeorm", stamp[db]>> /\ Imports[a][i].db = db

\* The marks of the application that is up are its own.
MarksAt(a) ==
  Up(a) =>
    \A i \in Calls(a) \ pending[a] : ByOrm(Imports[a][i]) =>
      LET m == Imports[a][i]
      IN  managed[m.db] = m.key[2] /\ (m.key[1] = "typeorm" => stamp[m.db] = m.key[2])
MarksInv == \A a \in Apps : MarksAt(a)

\* The keys that a transaction of the request under way can have.
Served(k) ==
  \E a \in Apps : /\ request # None /\ (a = request.app \/ ~BusReachesPublisher(a))
                  /\ \E i \in Registers(a) : Imports[a][i].key = k

FrameRecords == [key : Keys, does : {"join", "suspend", "open"}, outer : Transactions \cup {None},
                 base : 1..MaxDepth \cup {None}]

\* The Map's order of insertion is one: its pairs are of present keys, and of any
\* keys one is the first.
Ordered(m) ==
  /\ \A p \in m.older : p[1] \in Present(m) /\ p[2] \in Present(m)
  /\ \A S \in SUBSET Keys : S # {} => \E k \in S : \A j \in S : <<j, k>> \notin m.older

\* What the transaction t is for key k.
Belongs(t, k) == t # None => t.key = k /\ Served(k)

\* The calls of stack s that opened or suspended a transaction of key k, up to n.
Changers(s, k, n) == {i \in DOMAIN s : i <= n /\ s[i].key = k /\ s[i].does # "join"}

\* The first n calls leave key k with the transaction of number v, or none.
Gives(s, k, n, v) ==
  \/ Changers(s, k, n) = {} /\ v = None
  \/ \E i \in Changers(s, k, n) : /\ \A j \in Changers(s, k, n) : j <= i
                                  /\ v = IF s[i].does = "suspend" THEN None ELSE i

\* Each call of stack s remembers what the calls around it gave its key, and the
\* Map m holds what all of them give.
Nested(s, m) ==
  /\ \A k \in Keys : Gives(s, k, Len(s), IdOf(m.at[k]))
  /\ \A n \in DOMAIN s : Gives(s, s[n].key, n - 1, IdOf(s[n].outer))

StackInv ==
  /\ context \in Maps /\ Ordered(context)
  /\ stack \in Seq(FrameRecords) /\ Len(stack) <= MaxDepth
  /\ Nested(stack, context)
  /\ \A k \in Keys : Belongs(context.at[k], k)
  /\ \A n \in DOMAIN stack : /\ Belongs(stack[n].outer, stack[n].key)
                             /\ stack[n].does = "suspend" => stack[n].outer # None

\* Types, and how far an application has come in its calls.
Shapes ==
  /\ phase \in [Apps -> Phases] /\ factory \in [Apps -> {"none", "static", "fresh"}]
  /\ called \in [Apps -> Nat] /\ pending \in [Apps -> SUBSET Nat] /\ registry \in [Apps -> Registries]
  /\ \A a \in Apps : /\ called[a] <= Len(Imports[a])
                     /\ \A i \in pending[a] : i \in Calls(a) /\ Imports[a][i].via # "core"
  /\ managed \in [Databases -> Names \cup {None}] /\ stamp \in [Databases -> Names \cup {None}]

-------------------------------------------------------------------------------
(* Facts about the constants and the operators *)

LEMMA ImportFacts ==
  ASSUME NEW a \in Apps
  PROVE  /\ Len(Imports[a]) \in Nat /\ Calls(a) = 1 .. Len(Imports[a])
         /\ \A i \in Calls(a) :
              /\ Imports[a][i] \in ImportRecords
              /\ Imports[a][i].via \in {"core", "coreAsync", "orm", "ormAsync"}
              /\ Imports[a][i].key \in Keys /\ Imports[a][i].db \in Databases \cup {None}
              /\ Imports[a][i].key[1] \in Types /\ Imports[a][i].key[2] \in Names
              /\ Imports[a][i].isDefault \in BOOLEAN /\ Imports[a][i].observers \in BOOLEAN
              /\ ByOrm(Imports[a][i]) =>
                   Imports[a][i].db \in Databases /\ Imports[a][i].key[1] \in {"typeorm", "drizzle"}
              /\ Imports[a][i].isDefault => ByOrm(Imports[a][i])
<1>1. Imports[a] \in Seq(ImportRecords)
  BY ImportsAssumption
<1>2. Len(Imports[a]) \in Nat /\ Calls(a) = 1 .. Len(Imports[a])
  BY <1>1 DEF Calls
<1>3. ASSUME NEW i \in Calls(a)
      PROVE  /\ Imports[a][i] \in ImportRecords
             /\ ByOrm(Imports[a][i]) => Imports[a][i].db # None /\ Imports[a][i].key[1] \in {"typeorm", "drizzle"}
             /\ Imports[a][i].isDefault => ByOrm(Imports[a][i])
  BY <1>1, <1>2, ImportsAssumption DEF Calls
<1> QED BY <1>2, <1>3 DEF ImportRecords, Keys

LEMMA OptionFacts ==
  /\ \A o \in Services : Transactional(o) \in OptionRecords /\ Transactional(o).mode \in Modes
  /\ \A a \in Apps, h \in DOMAIN Handlers : resolveMetadata(a, h) # None =>
       resolveMetadata(a, h) \in OptionRecords /\ resolveMetadata(a, h).mode \in Modes
<1>1. ASSUME NEW o \in OptionRecords
      PROVE  Transactional(o) \in OptionRecords /\ Transactional(o).mode \in Modes
  BY NoneAssumption DEF Transactional, OptionRecords, Modes
<1>2. NoOptions \in OptionRecords
  BY DEF NoOptions, OptionRecords
<1>3. ASSUME NEW a \in Apps, NEW h \in DOMAIN Handlers, resolveMetadata(a, h) # None
      PROVE  \E o \in OptionRecords : resolveMetadata(a, h) = Transactional(o)
  <2>1. Handlers[h].kind \in Kinds /\ Handlers[h].metadata \in OptionRecords \cup {None}
    BY OptionsAssumption
  <2>2. Cqrs[a].query \in OptionRecords \cup {None} /\ Cqrs[a].command \in OptionRecords \cup {None}
    BY OptionsAssumption
  <2>3. resolveOptions(Cqrs[a]).defaults[Handlers[h].kind] \in OptionRecords \cup {None}
    BY <1>2, <2>1, <2>2 DEF resolveOptions, Kinds
  <2> QED BY <1>3, <2>1, <2>3 DEF resolveMetadata
<1> QED BY <1>1, <1>3, OptionsAssumption

\* How a step moves the applications.
Moves == {<<"absent", "declaring">>, <<"declaring", "resolving">>, <<"declaring", "failed">>,
          <<"resolving", "serving">>, <<"resolving", "failed">>, <<"serving", "closing">>,
          <<"closing", "closed">>}

LEMMA PhaseMoves ==
  ASSUME Shapes, Next
  PROVE  \/ phase' = phase
         \/ \E a \in Apps, q \in Phases :
              /\ <<phase[a], q>> \in Moves /\ phase' = [phase EXCEPT ![a] = q]
              /\ phase[a] = "absent" => \A b \in Apps : ~Live(b)
              /\ phase[a] = "closing" => request = None
              /\ q = "serving" => BusReachesPublisher(a)
              /\ q = "failed" /\ phase[a] = "resolving" /\ proto' # proto => ~BusReachesPublisher(a)
<1> USE DEF Shapes, Phases, Enters
<1>1. ASSUME NEW a \in Apps, Start(a) PROVE /\ phase[a] = "absent" /\ phase' = [phase EXCEPT ![a] = "declaring"]
                                            /\ \A b \in Apps : ~Live(b)
  BY <1>1 DEF Start
<1>2. ASSUME NEW a \in Apps, forRoot(a)
      PROVE  phase' = phase \/ (phase[a] = "declaring" /\ phase' = [phase EXCEPT ![a] = "failed"])
  BY <1>2 DEF forRoot
<1>3. ASSUME NEW a \in Apps, forRootAsync(a) \/ ormForRoot(a) PROVE phase' = phase
  BY <1>3 DEF forRootAsync, ormForRoot
<1>4. ASSUME NEW a \in Apps, BuildRegistry(a)
      PROVE  phase[a] = "declaring" /\ \E q \in {"failed", "resolving"} : phase' = [phase EXCEPT ![a] = q]
  BY <1>4 DEF BuildRegistry
<1>5. ASSUME NEW a \in Apps, NEW i \in Calls(a), RegisterAdapter(a, i)
      PROVE  phase' = phase \/ (phase[a] = "resolving" /\ phase' = [phase EXCEPT ![a] = "failed"] /\ proto' = proto)
  BY <1>5 DEF RegisterAdapter
<1>6. ASSUME NEW a \in Apps, Bootstrap(a)
      PROVE  /\ phase[a] = "resolving"
             /\ \/ phase' = [phase EXCEPT ![a] = "serving"] /\ BusReachesPublisher(a)
                \/ phase' = [phase EXCEPT ![a] = "failed"] /\ ~BusReachesPublisher(a)
  BY <1>6 DEF Bootstrap
<1>7. ASSUME NEW a \in Apps, onModuleDestroy(a)
      PROVE  phase[a] = "serving" /\ phase' = [phase EXCEPT ![a] = "closing"]
  BY <1>7 DEF onModuleDestroy
<1>8. ASSUME NEW a \in Apps, Dispose(a)
      PROVE  phase[a] = "closing" /\ request = None /\ phase' = [phase EXCEPT ![a] = "closed"]
  BY <1>8 DEF Dispose
<1>9. ASSUME \/ \E a \in Apps : \/ \E h \in DOMAIN Handlers : Dispatch(a, h)
                                \/ \E o \in Services \cup {None} : Intercept(a, o)
             \/ \E o \in Services : CallService(o)
             \/ Return \/ EndRequest \/ resetForTesting \/ resetHandlers \/ (\E orm \in Orms : resetManaged(orm))
      PROVE  phase' = phase
  BY <1>9 DEF Dispatch, Intercept, CallService, Return, EndRequest, resetForTesting, resetHandlers, resetManaged
<1> HIDE DEF Enters, Shapes
<1>10. ASSUME NEW a \in Apps, Startup(a)
       PROVE  \/ phase' = phase
              \/ phase[a] = "declaring" /\ phase' = [phase EXCEPT ![a] = "failed"]
              \/ phase[a] = "declaring" /\ phase' = [phase EXCEPT ![a] = "resolving"]
              \/ phase[a] = "resolving" /\ phase' = [phase EXCEPT ![a] = "failed"] /\ proto' = proto
              \/ phase[a] = "resolving" /\ phase' = [phase EXCEPT ![a] = "serving"] /\ BusReachesPublisher(a)
              \/ phase[a] = "resolving" /\ phase' = [phase EXCEPT ![a] = "failed"] /\ ~BusReachesPublisher(a)
  BY <1>10, <1>2, <1>3, <1>4, <1>5, <1>6 DEF Startup
<1> QED BY <1>1, <1>7, <1>8, <1>9, <1>10 DEF Next, Moves

LEMMA AloneStep == Shapes /\ Alone /\ [Next]_vars => Alone'
<1> SUFFICES ASSUME Shapes, Alone, [Next]_vars PROVE Alone'
  OBVIOUS
<1>1. CASE phase' = phase
  BY <1>1 DEF Alone, Live
<1>2. CASE \E a \in Apps, q \in Phases :
             /\ <<phase[a], q>> \in Moves /\ phase' = [phase EXCEPT ![a] = q]
             /\ phase[a] = "absent" => \A b \in Apps : ~Live(b)
  BY <1>2 DEF Alone, Live, Shapes, Moves
<1> QED BY <1>1, <1>2, PhaseMoves DEF vars

LEMMA RequestStep == Shapes /\ ProtoInv /\ RequestInv /\ [Next]_vars => RequestInv'
<1> SUFFICES ASSUME Shapes, ProtoInv, RequestInv, [Next]_vars PROVE RequestInv'
  OBVIOUS
<1>1. ASSUME request' = request, stack' = stack PROVE RequestInv'
  <2>1. ASSUME request # None PROVE phase'[request.app] \in {"serving", "closing"}
    <3>1. request.app \in Apps /\ phase[request.app] \in {"serving", "closing"}
      BY <2>1 DEF RequestInv, Requests
    <3>2. CASE phase' = phase
      BY <3>1, <3>2
    <3>3. CASE \E a \in Apps, q \in Phases :
                 /\ <<phase[a], q>> \in Moves /\ phase' = [phase EXCEPT ![a] = q]
                 /\ phase[a] = "closing" => request = None
      BY <2>1, <3>1, <3>3 DEF Moves, Shapes
    <3> QED BY <3>2, <3>3, PhaseMoves DEF vars
  <2> QED BY <1>1, <2>1 DEF RequestInv
<1>2. ASSUME NEW a \in Apps, NEW h \in DOMAIN Handlers \cup {None}, NEW m \in Apps \cup {None},
             phase[a] \in {"serving", "closing"}, phase' = phase,
             request' = [app |-> a, handler |-> h, manager |-> m]
      PROVE  RequestInv'
  <2>1. request' \in Requests /\ request' # None /\ request'.app = a
    BY <1>2, NoneAssumption DEF Requests
  <2> QED BY <1>2, <2>1 DEF RequestInv
<1>3. ASSUME NEW a \in Apps, Startup(a) PROVE request' = request /\ stack' = stack
  BY <1>3 DEF Startup, forRoot, forRootAsync, ormForRoot, BuildRegistry, RegisterAdapter, Bootstrap, serving
<1>4. ASSUME NEW a \in Apps, Start(a) \/ onModuleDestroy(a) \/ Dispose(a) PROVE request' = request /\ stack' = stack
  BY <1>4 DEF Start, onModuleDestroy, Dispose, serving
<1>5. ASSUME resetForTesting \/ resetHandlers \/ (\E orm \in Orms : resetManaged(orm)) \/ UNCHANGED vars PROVE request' = request /\ stack' = stack
  BY <1>5 DEF resetForTesting, resetHandlers, resetManaged, serving, vars
<1>6. ASSUME Return PROVE RequestInv'
  <2>1. request' = request /\ phase' = phase /\ request # None
    BY <1>6 DEF Return, RequestInv
  <2> QED BY <2>1 DEF RequestInv
<1>7. ASSUME EndRequest PROVE RequestInv'
  BY <1>7 DEF EndRequest, RequestInv
<1>8. ASSUME NEW o \in Services, CallService(o) PROVE RequestInv'
  BY <1>8 DEF CallService, RequestInv
<1>9. ASSUME NEW a \in Apps, NEW h \in DOMAIN Handlers, Dispatch(a, h) PROVE RequestInv'
  <2>1. proto[h] \in Apps \cup {None}
    BY DEF ProtoInv
  <2> QED BY <1>2, <1>9, <2>1 DEF Dispatch
<1>10. ASSUME NEW a \in Apps, NEW o \in Services \cup {None}, Intercept(a, o) PROVE RequestInv'
  BY <1>2, <1>10 DEF Intercept
<1> QED BY <1>1, <1>3, <1>4, <1>5, <1>6, <1>7, <1>8, <1>9, <1>10 DEF Next

LEMMA ProtoStep == Shapes /\ Alone /\ ProtoInv /\ [Next]_vars => ProtoInv'
<1> SUFFICES ASSUME Shapes, Alone, ProtoInv, [Next]_vars PROVE ProtoInv'
  OBVIOUS
<1>0. \A h \in DOMAIN Handlers : proto[h] # None => proto[h] \in Apps
  BY DEF ProtoInv
<1>1. ASSUME proto' = proto, phase' = phase PROVE ProtoInv'
  BY <1>1 DEF ProtoInv
<1>2. ASSUME proto' = Unwrapped, \A a \in Apps : phase'[a] # "serving" PROVE ProtoInv'
  BY <1>2 DEF ProtoInv, Unwrapped
<1>3. ASSUME NEW a \in Apps, NEW q \in Phases, <<phase[a], q>> \in Moves, phase' = [phase EXCEPT ![a] = q],
             q # "serving", phase[a] # "serving", proto' = proto
      PROVE  ProtoInv'
  <2>1. \A b \in Apps : phase'[b] = "serving" => phase[b] = "serving"
    BY <1>3 DEF Shapes
  <2>2. \A b \in Apps : phase[b] \in {"serving", "failed"} => phase'[b] = phase[b]
    BY <1>3 DEF Shapes, Moves
  <2> QED BY <1>0, <1>3, <2>1, <2>2 DEF ProtoInv
<1>4. ASSUME NEW a \in Apps, Bootstrap(a) PROVE ProtoInv'
  <2>1. phase[a] = "resolving" /\ \A b \in Apps : phase[b] # "serving"
    BY <1>4 DEF Bootstrap, Alone, Live
  <2>2. \A b \in Apps : b # a => phase'[b] = phase[b]
    BY <1>4 DEF Bootstrap, Enters, Shapes
  <2>3. \/ phase'[a] = "serving"
        \/ phase'[a] = "failed" /\ ~BusReachesPublisher(a)
    BY <1>4 DEF Bootstrap, Enters, Shapes
  <2>4. /\ proto' \in [DOMAIN Handlers -> Apps \cup {None}]
        /\ \A h \in DOMAIN Handlers :
             \/ proto[h] # None /\ proto'[h] = proto[h]
             \/ proto[h] = None /\ resolveMetadata(a, h) # None /\ proto'[h] = a
             \/ proto[h] = None /\ resolveMetadata(a, h) = None /\ proto'[h] = None
    BY <1>4 DEF Bootstrap, wrapAll, ProtoInv
  <2>5. \A h \in DOMAIN Handlers : proto[h] # None => phase'[proto[h]] = "failed" /\ phase[proto[h]] = "failed"
    BY <1>0, <2>1, <2>2 DEF ProtoInv
  <2>6. a # None
    BY NoneAssumption
  <2>7. \A h \in DOMAIN Handlers : proto'[h] # None =>
          /\ resolveMetadata(proto'[h], h) # None
          /\ \/ phase'[proto'[h]] = "serving"
             \/ phase'[proto'[h]] = "failed" /\ ~BusReachesPublisher(proto'[h])
    BY <2>1, <2>3, <2>4, <2>5 DEF ProtoInv
  <2>8. \A b \in Apps : phase'[b] = "serving" => b = a
    BY <2>1, <2>2
  <2>9. \A h \in DOMAIN Handlers : proto'[h] = None => resolveMetadata(a, h) = None
    BY <2>4, <2>6
  <2> QED BY <2>4, <2>7, <2>8, <2>9 DEF ProtoInv
<1>5. ASSUME NEW a \in Apps, Start(a) \/ Dispose(a) PROVE ProtoInv'
  BY <1>3, <1>5 DEF Start, Dispose, Enters, Moves, Phases
<1>6. ASSUME NEW a \in Apps, onModuleDestroy(a) PROVE ProtoInv'
  <2>1. \A b \in Apps : phase'[b] # "serving"
    BY <1>6 DEF onModuleDestroy, Enters, Shapes, Alone, Live
  <2> QED BY <1>2, <1>6, <2>1 DEF onModuleDestroy
<1>7. ASSUME NEW a \in Apps, forRoot(a) \/ forRootAsync(a) \/ ormForRoot(a) PROVE ProtoInv'
  BY <1>1, <1>3, <1>7 DEF forRoot, forRootAsync, ormForRoot, Enters, Moves, Phases
<1>8. ASSUME NEW a \in Apps, BuildRegistry(a) PROVE ProtoInv'
  BY <1>3, <1>8 DEF BuildRegistry, Enters, Moves, Phases
<1>9. ASSUME NEW a \in Apps, NEW i \in Calls(a), RegisterAdapter(a, i) PROVE ProtoInv'
  BY <1>1, <1>3, <1>9 DEF RegisterAdapter, Enters, Moves, Phases
<1>10. CASE resetHandlers
  BY <1>2, <1>10 DEF resetHandlers, Live
<1>11. ASSUME \/ \E a \in Apps : \/ \E h \in DOMAIN Handlers : Dispatch(a, h)
                                 \/ \E o \in Services \cup {None} : Intercept(a, o)
              \/ \E o \in Services : CallService(o)
              \/ Return \/ EndRequest \/ resetForTesting \/ (\E orm \in Orms : resetManaged(orm)) \/ UNCHANGED vars
       PROVE  ProtoInv'
  BY <1>1, <1>11 DEF Dispatch, Intercept, CallService, Return, EndRequest, resetForTesting, resetManaged, vars
<1> QED BY <1>4, <1>5, <1>6, <1>7, <1>8, <1>9, <1>10, <1>11 DEF Next, Startup

-------------------------------------------------------------------------------
(* The static Map and the registries *)

LEMMA RegisterFacts ==
  ASSUME NEW r \in Registries, NEW k \in Keys, NEW db \in Databases, NEW d \in BOOLEAN
  PROVE  /\ register(r, k, db, d) \in Registries
         /\ \A j \in Keys : get(register(r, k, db, d), j) = IF j = k THEN db ELSE get(r, j)
         /\ register(r, k, db, d).default = IF d \/ r.default = None THEN k ELSE r.default
BY DEF register, get, Registries

LEMMA BuildFacts ==
  ASSUME StaticInv
  PROVE  /\ buildRegistryFromStaticStorage \in Registries
         /\ \A k \in Keys : get(buildRegistryFromStaticStorage, k) # None =>
              \E m \in Range(registrations) : m.key = k /\ m.db = get(buildRegistryFromStaticStorage, k)
         /\ \A m \in Range(registrations) : get(buildRegistryFromStaticStorage, m.key) # None
         /\ registrations = <<>> => buildRegistryFromStaticStorage.default = None
         /\ registrations # <<>> => /\ buildRegistryFromStaticStorage.default = registrations[1].key
                                    /\ registrations[1] \in Range(registrations)
<1> DEFINE R == Range(registrations)
           of(k) == CHOOSE m \in R : m.key = k
<1>1. \A m \in R : m.key \in Keys /\ m.db \in Databases \cup {None} /\ m.db # None
  <2>1. \A i \in DOMAIN registrations : registrations[i] \in ImportRecords /\ registrations[i].db # None
    BY DEF StaticInv
  <2> QED BY <2>1 DEF ImportRecords, Range
<1>2. ASSUME NEW k \in Keys, \E m \in R : m.key = k PROVE of(k) \in R /\ of(k).key = k
  BY <1>2
<1>3. registrations # <<>> => registrations[1] \in R
  BY DEF StaticInv, Range
<1>4. \A k \in Keys : get(buildRegistryFromStaticStorage, k) =
                        IF \E m \in R : m.key = k THEN of(k).db ELSE None
  BY DEF get, buildRegistryFromStaticStorage
<1>5. buildRegistryFromStaticStorage.default = IF registrations = <<>> THEN None ELSE registrations[1].key
  BY DEF buildRegistryFromStaticStorage
<1> HIDE DEF R, of
<1>6. buildRegistryFromStaticStorage \in Registries
  <2>1. [k \in Keys |-> IF \E m \in R : m.key = k THEN of(k).db ELSE None] \in [Keys -> Databases \cup {None}]
    BY <1>1, <1>2
  <2>2. (IF registrations = <<>> THEN None ELSE registrations[1].key) \in Keys \cup {None}
    BY <1>1, <1>3
  <2> QED BY <2>1, <2>2 DEF Registries, buildRegistryFromStaticStorage, R, of
<1>7. \A k \in Keys : get(buildRegistryFromStaticStorage, k) # None =>
        \E m \in R : m.key = k /\ m.db = get(buildRegistryFromStaticStorage, k)
  BY <1>2, <1>4
<1>8. \A m \in R : get(buildRegistryFromStaticStorage, m.key) # None
  BY <1>1, <1>2, <1>4
<1> QED BY <1>3, <1>5, <1>6, <1>7, <1>8 DEF R

LEMMA StaticStep == Shapes /\ StaticInv /\ [Next]_vars => StaticInv'
<1> SUFFICES ASSUME Shapes, StaticInv, [Next]_vars PROVE StaticInv'
  OBVIOUS
<1>1. ASSUME NEW a \in Apps, forRoot(a) PROVE StaticInv'
  <2> DEFINE m == Imports[a][called[a] + 1]
  <2>1. called[a] + 1 \in Calls(a)
    BY <1>1, ImportFacts DEF forRoot, Shapes
  <2>2. m \in ImportRecords
    BY <2>1, ImportFacts
  <2>3. \/ UNCHANGED <<registrations, infrastructureRegistered>>
        \/ /\ infrastructureRegistered' /\ infrastructureRegistered' \in BOOLEAN
           /\ registrations' = registrations
        \/ /\ infrastructureRegistered' /\ infrastructureRegistered' \in BOOLEAN
           /\ registrations' = Append(registrations, m) /\ m.db # None
           /\ \A r \in Range(registrations) : r.key[2] # m.key[2]
    BY <1>1 DEF forRoot, Refused, RefusedLate, Recorded, StaticInv
  <2>4. CASE registrations' = registrations
    BY <2>3, <2>4 DEF StaticInv
  <2>5. CASE /\ infrastructureRegistered' /\ infrastructureRegistered' \in BOOLEAN
             /\ registrations' = Append(registrations, m) /\ m.db # None
             /\ \A r \in Range(registrations) : r.key[2] # m.key[2]
    <3> HIDE DEF m
    <3>1. /\ registrations' \in Seq(ImportRecords) /\ DOMAIN registrations' = DOMAIN registrations \cup {Len(registrations) + 1}
          /\ registrations'[Len(registrations) + 1] = m
          /\ \A i \in DOMAIN registrations : registrations'[i] = registrations[i]
      BY <2>2, <2>5 DEF StaticInv
    <3>2. \A i \in DOMAIN registrations : registrations[i].key[2] # m.key[2]
      BY <2>5 DEF Range
    <3>3. \A i \in DOMAIN registrations' : registrations'[i].db # None
      BY <2>5, <3>1 DEF StaticInv
    <3>4. ASSUME NEW i \in DOMAIN registrations', NEW j \in DOMAIN registrations',
                 registrations'[i].key[2] = registrations'[j].key[2]
          PROVE  i = j
      <4>1. CASE i \in DOMAIN registrations /\ j \in DOMAIN registrations
        BY <3>1, <3>4, <4>1 DEF StaticInv
      <4>2. CASE i = Len(registrations) + 1 \/ j = Len(registrations) + 1
        BY <3>1, <3>2, <3>4, <4>2
      <4> QED BY <3>1, <4>1, <4>2
    <3> QED BY <2>5, <3>1, <3>3, <3>4 DEF StaticInv
  <2> QED BY <2>3, <2>4, <2>5
<1>2. ASSUME NEW a \in Apps, forRootAsync(a) PROVE StaticInv'
  <2>1. infrastructureRegistered' = TRUE /\ registrations' = registrations
    BY <1>2 DEF forRootAsync
  <2> QED BY <2>1 DEF StaticInv
<1>3. ASSUME resetForTesting PROVE StaticInv'
  <2>1. infrastructureRegistered' = FALSE /\ registrations' = <<>>
    BY <1>3 DEF resetForTesting, Cleared
  <2>2. registrations' \in Seq(ImportRecords) /\ DOMAIN registrations' = {}
    BY <2>1
  <2> QED BY <2>1, <2>2 DEF StaticInv
<1>4. ASSUME UNCHANGED statics PROVE StaticInv'
  BY <1>4 DEF statics, StaticInv
<1>5. ASSUME NEW a \in Apps, ormForRoot(a) \/ BuildRegistry(a) \/ (\E i \in Calls(a) : RegisterAdapter(a, i)) \/ Bootstrap(a)
      PROVE  UNCHANGED statics
  BY <1>5 DEF ormForRoot, BuildRegistry, RegisterAdapter, Bootstrap
<1>6. ASSUME \/ \E a \in Apps : \/ Start(a) \/ onModuleDestroy(a) \/ Dispose(a)
                                \/ \E h \in DOMAIN Handlers : Dispatch(a, h)
                                \/ \E o \in Services \cup {None} : Intercept(a, o)
             \/ \E o \in Services : CallService(o)
             \/ Return \/ EndRequest \/ resetHandlers \/ (\E orm \in Orms : resetManaged(orm)) \/ UNCHANGED vars
      PROVE  UNCHANGED statics
  BY <1>6 DEF Start, onModuleDestroy, Dispose, Dispatch, Intercept, CallService, Return, EndRequest, resetHandlers, resetManaged, vars
<1> QED BY <1>1, <1>2, <1>3, <1>4, <1>5, <1>6 DEF Next, Startup

\* Steps that are not of a start-up leave what a start-up builds.
LEMMA ServingFrame ==
  ASSUME \/ \E a \in Apps : \/ Start(a) \/ onModuleDestroy(a) \/ Dispose(a) \/ Bootstrap(a)
                            \/ \E h \in DOMAIN Handlers : Dispatch(a, h)
                            \/ \E o \in Services \cup {None} : Intercept(a, o)
         \/ \E o \in Services : CallService(o)
         \/ Return \/ EndRequest \/ resetForTesting \/ resetHandlers \/ (\E orm \in Orms : resetManaged(orm)) \/ UNCHANGED vars
  PROVE  UNCHANGED startup
BY DEF Start, onModuleDestroy, Dispose, Bootstrap, Dispatch, Intercept, CallService, Return, EndRequest,
       resetForTesting, resetHandlers, resetManaged, vars

\* A start-up step is one of its own application.
LEMMA StartupFrame ==
  ASSUME Shapes, NEW a \in Apps, Startup(a), NEW b \in Apps, b # a
  PROVE  /\ phase'[b] = phase[b] /\ called'[b] = called[b] /\ factory'[b] = factory[b]
         /\ pending'[b] = pending[b] /\ registry'[b] = registry[b]
<1>1. CASE forRoot(a) \/ forRootAsync(a) \/ ormForRoot(a)
  BY <1>1 DEF forRoot, forRootAsync, ormForRoot, Shapes, Enters, startup
<1>2. CASE BuildRegistry(a) \/ Bootstrap(a)
  BY <1>2 DEF BuildRegistry, Bootstrap, Shapes, Enters, startup
<1>3. CASE \E i \in Calls(a) : RegisterAdapter(a, i)
  BY <1>3 DEF RegisterAdapter, registerManaged, registerEagerly, Without, Shapes, Enters
<1> QED BY <1>1, <1>2, <1>3 DEF Startup

LEMMA CallOnce ==
  ASSUME Shapes, NEW a \in Apps,
         called' = called \/ (called[a] < Len(Imports[a]) /\ called' = [called EXCEPT ![a] = @ + 1])
  PROVE  called' \in [Apps -> Nat] /\ \A b \in Apps : called'[b] <= Len(Imports[b])
<1>1. called \in [Apps -> Nat] /\ \A b \in Apps : called[b] <= Len(Imports[b])
  BY DEF Shapes
<1>2. Len(Imports[a]) \in Nat
  BY ImportFacts
<1> QED BY <1>1, <1>2

LEMMA ShapesStep == Shapes /\ StaticInv /\ [Next]_vars => Shapes'
<1> SUFFICES ASSUME Shapes, StaticInv, [Next]_vars PROVE Shapes'
  OBVIOUS
<1> DEFINE Called == /\ called' \in [Apps -> Nat] /\ \A b \in Apps : called'[b] <= Len(Imports[b])
           Pending == /\ pending' \in [Apps -> SUBSET Nat]
                      /\ \A b \in Apps : \A i \in pending'[b] : i \in Calls(b) /\ Imports[b][i].via # "core"
           Marks == managed' \in [Databases -> Names \cup {None}] /\ stamp' \in [Databases -> Names \cup {None}]
<1>0. phase' \in [Apps -> Phases]
  <2>1. CASE Next
    BY <2>1, PhaseMoves DEF Shapes
  <2> QED BY <2>1 DEF vars, Shapes
<1>1. ASSUME NEW a \in Apps, forRoot(a) PROVE Shapes'
  <2>1. Called
    <3>1. called' = called \/ (called[a] < Len(Imports[a]) /\ called' = [called EXCEPT ![a] = @ + 1])
      BY <1>1 DEF forRoot, startup
    <3> QED BY <3>1, CallOnce
  <2>2. Pending /\ factory' \in [Apps -> {"none", "static", "fresh"}]
    BY <1>1 DEF forRoot, Shapes, startup
  <2> QED BY <1>0, <1>1, <2>1, <2>2 DEF forRoot, Shapes, startup, marks
<1>2. ASSUME NEW a \in Apps, forRootAsync(a) \/ ormForRoot(a) PROVE Shapes'
  <2>1. called[a] + 1 \in Calls(a) /\ called[a] + 1 \in Nat
    BY <1>2, ImportFacts DEF forRootAsync, ormForRoot, Shapes
  <2>2. Called
    <3>1. called[a] < Len(Imports[a]) /\ called' = [called EXCEPT ![a] = @ + 1]
      BY <1>2 DEF forRootAsync, ormForRoot
    <3> QED BY <3>1, CallOnce
  <2>3. Pending /\ factory' \in [Apps -> {"none", "static", "fresh"}]
    <3>1. /\ pending' = [pending EXCEPT ![a] = @ \cup {called[a] + 1}]
          /\ Imports[a][called[a] + 1].via # "core"
      BY <1>2 DEF forRootAsync, ormForRoot, ByOrm
    <3>2. Pending
      BY <2>1, <3>1 DEF Shapes
    <3> QED BY <1>2, <3>2 DEF forRootAsync, ormForRoot, Shapes
  <2> QED BY <1>0, <1>2, <2>2, <2>3 DEF forRootAsync, ormForRoot, Shapes, marks
<1>3. ASSUME NEW a \in Apps, BuildRegistry(a) PROVE Shapes'
  <2>1. registry' \in [Apps -> Registries]
    BY <1>3, BuildFacts DEF BuildRegistry, Shapes
  <2> QED BY <1>0, <1>3, <2>1 DEF BuildRegistry, Shapes, marks
<1>4. ASSUME NEW a \in Apps, NEW i \in Calls(a), RegisterAdapter(a, i) PROVE Shapes'
  <2> DEFINE m == Imports[a][i]
  <2>0. m.via # "core"
    BY <1>4 DEF RegisterAdapter, Shapes
  <2>1. /\ m.key \in Keys /\ m.key[2] \in Names /\ m.db \in Databases \cup {None} /\ m.isDefault \in BOOLEAN
        /\ m.via # "coreAsync" => m.db \in Databases
    BY <2>0, ImportFacts DEF ByOrm
  <2>2. Pending
    BY <1>4 DEF RegisterAdapter, Without, Shapes
  <2>3. registry[a] \in Registries
    BY DEF Shapes
  <2> HIDE DEF m
  <2>4. CASE m.via = "coreAsync" /\ registerEagerly(a, m)
    <3>1. m.db # None => register(registry[a], m.key, m.db, FALSE) \in Registries
      BY <2>1, <2>3, RegisterFacts
    <3>2. registry' \in [Apps -> Registries] /\ Marks
      BY <2>4, <3>1 DEF registerEagerly, Shapes, marks
    <3> QED BY <1>0, <1>4, <2>2, <3>2 DEF RegisterAdapter, Shapes
  <2>5. CASE m.via # "coreAsync" /\ registerManaged(a, m)
    <3>1. register(registry[a], m.key, m.db, m.isDefault) \in Registries
      BY <2>1, <2>3, <2>5, RegisterFacts
    <3>2. registry' \in [Apps -> Registries] /\ Marks
      BY <2>1, <2>5, <3>1 DEF registerManaged, Shapes
    <3> QED BY <1>0, <1>4, <2>2, <3>2 DEF RegisterAdapter, Shapes
  <2>6. CASE UNCHANGED <<marks, registry>>
    BY <1>0, <1>4, <2>2, <2>6 DEF RegisterAdapter, Shapes, marks
  <2> QED BY <1>4, <2>4, <2>5, <2>6 DEF RegisterAdapter, m
<1>5. ASSUME UNCHANGED startup, Marks PROVE Shapes'
  BY <1>0, <1>5 DEF startup, Shapes
<1>6. ASSUME NEW a \in Apps, Start(a) \/ onModuleDestroy(a) \/ Dispose(a) \/ Bootstrap(a) PROVE Marks
  BY <1>6 DEF Start, onModuleDestroy, Dispose, Bootstrap, marks, Shapes
<1>7. ASSUME \/ \E a \in Apps : \/ \E h \in DOMAIN Handlers : Dispatch(a, h)
                                \/ \E o \in Services \cup {None} : Intercept(a, o)
             \/ \E o \in Services : CallService(o)
             \/ Return \/ EndRequest \/ resetForTesting \/ resetHandlers \/ (\E orm \in Orms : resetManaged(orm)) \/ UNCHANGED vars
      PROVE  Marks
  BY <1>7 DEF Dispatch, Intercept, CallService, Return, EndRequest, resetForTesting, resetHandlers, resetManaged, vars, marks, Shapes
<1> QED BY <1>1, <1>2, <1>3, <1>4, <1>5, <1>6, <1>7, ServingFrame DEF Next, Startup

\* One more call: the n-th joins the synchronous adapters or does not.
LEMMA SyncGrows ==
  ASSUME Shapes, NEW a \in Apps, phase[a] = "declaring", called[a] < Len(Imports[a])
  PROVE  LET n == called[a] + 1
             m == Imports[a][n]
         IN  /\ n \in Calls(a) /\ \A i \in Calls(a) : i <= n <=> i <= called[a] \/ i = n
             /\ m.via = "core" /\ m.db # None => Sync(a, n) = Sync(a, called[a]) \cup {n}
             /\ m.via # "core" \/ m.db = None => Sync(a, n) = Sync(a, called[a])
<1>1. /\ called[a] \in Nat /\ Len(Imports[a]) \in Nat /\ Calls(a) = 1 .. Len(Imports[a])
  BY ImportFacts DEF Shapes
<1>2. called[a] + 1 \in Calls(a) /\ \A i \in Calls(a) : i <= called[a] + 1 <=> i <= called[a] \/ i = called[a] + 1
  BY <1>1
<1> QED BY <1>2 DEF Sync

LEMMA DeclaresStatic ==
  ASSUME Shapes, StaticInv, NEW a \in Apps, DeclaringAt(a), forRoot(a), phase'[a] = "declaring"
  PROVE  DeclaringAt(a)'
<1> DEFINE n == called[a] + 1
           m == Imports[a][n]
<1>1. /\ phase[a] = "declaring" /\ called[a] < Len(Imports[a]) /\ m.via = "core"
  BY DEF forRoot
<1>2. /\ ~Refused(m) /\ registrations' = Recorded(m) /\ infrastructureRegistered' = TRUE
      /\ factory' = [factory EXCEPT ![a] = IF infrastructureRegistered THEN @ ELSE "static"]
      /\ called' = [called EXCEPT ![a] = @ + 1] /\ phase' = phase /\ pending' = pending /\ registry' = registry
  BY DEF forRoot, Enters, Shapes
<1>3. /\ n \in Calls(a) /\ \A i \in Calls(a) : i <= n <=> i <= called[a] \/ i = n
      /\ m.db # None => Sync(a, n) = Sync(a, called[a]) \cup {n}
      /\ m.db = None => Sync(a, n) = Sync(a, called[a])
  BY <1>1, SyncGrows
<1>4. called'[a] = n /\ called[a] \in Nat /\ \A i \in Sync(a, called[a]) : i <= called[a] /\ i \in Nat
  BY <1>2, ImportFacts DEF Shapes, Sync
<1>5. pending[a] = {i \in Calls(a) : i <= called[a] /\ Imports[a][i].via # "core"} /\ registry[a] = NewRegistry
  BY <1>1 DEF DeclaringAt
<1>6. pending'[a] = {i \in Calls(a) : i <= n /\ Imports[a][i].via # "core"}
  BY <1>1, <1>2, <1>3, <1>5
<1>7. ASSUME factory'[a] = "static"
      PROVE  /\ Range(registrations) = {Imports[a][i] : i \in Sync(a, called[a])}
             /\ registrations # <<>> =>
                  \E i \in Sync(a, called[a]) : /\ registrations[1] = Imports[a][i]
                                                /\ \A j \in Sync(a, called[a]) : i <= j
             /\ ReadsStatics(a)
  <2>1. CASE infrastructureRegistered
    BY <1>1, <1>2, <1>7, <2>1 DEF DeclaringAt, OwnStatics, Shapes
  <2>2. CASE ~infrastructureRegistered
    <3>1. registrations = <<>> /\ \A i \in Calls(a) : i <= called[a] => ByOrm(Imports[a][i])
      BY <1>1, <2>2 DEF DeclaringAt, StaticInv
    <3>2. Sync(a, called[a]) = {} /\ Range(registrations) = {}
      BY <3>1 DEF Sync, ByOrm, Range
    <3>3. \A i \in Calls(a) : i < n => i <= called[a]
      BY <1>4, ImportFacts
    <3>4. ReadsStatics(a)
      BY <1>1, <1>3, <3>1, <3>3 DEF ReadsStatics, ByOrm
    <3> QED BY <3>1, <3>2, <3>4
  <2> QED BY <2>1, <2>2
<1>8. ASSUME factory'[a] = "static" PROVE OwnStatics(a)'
  <2>1. CASE m.db = None
    <3>1. registrations' = registrations
      BY <1>2, <2>1 DEF Recorded
    <3> QED BY <1>3, <1>4, <1>7, <1>8, <2>1, <3>1 DEF OwnStatics
  <2>2. CASE m.db # None
    <3>1. registrations' = Append(registrations, m) /\ registrations \in Seq(ImportRecords) /\ m \in ImportRecords
      BY <1>2, <1>3, <2>2, ImportFacts DEF Recorded, StaticInv
    <3>2. Sync(a, called'[a]) = Sync(a, called[a]) \cup {n}
      BY <1>3, <1>4, <2>2
    <3> HIDE DEF m
    <3>3. /\ DOMAIN registrations' = DOMAIN registrations \cup {Len(registrations) + 1}
          /\ registrations'[Len(registrations) + 1] = m
          /\ \A i \in DOMAIN registrations : registrations'[i] = registrations[i]
      BY <3>1
    <3>4. Range(registrations') = Range(registrations) \cup {m}
      BY <3>3 DEF Range
    <3>5. Range(registrations') = {Imports[a][i] : i \in Sync(a, called'[a])}
      BY <1>7, <1>8, <3>2, <3>4 DEF m
    <3>6. \E i \in Sync(a, called'[a]) : /\ registrations'[1] = Imports[a][i]
                                         /\ \A j \in Sync(a, called'[a]) : i <= j
      <4>1. CASE registrations = <<>>
        <5>1. registrations'[1] = m
          BY <3>3, <4>1
        <5>2. Range(registrations) = {}
          BY <4>1 DEF Range
        <5>3. Sync(a, called[a]) = {}
          BY <1>7, <1>8, <5>2
        <5> QED BY <1>4, <3>2, <5>1, <5>3 DEF m
      <4>2. CASE registrations # <<>>
        <5>1. 1 \in DOMAIN registrations
          BY <3>1, <4>2
        <5>2. PICK i \in Sync(a, called[a]) : /\ registrations[1] = Imports[a][i]
                                              /\ \A j \in Sync(a, called[a]) : i <= j
          BY <1>7, <1>8, <4>2
        <5>3. i <= n
          BY <1>4
        <5> QED BY <3>2, <3>3, <5>1, <5>2, <5>3
      <4> QED BY <4>1, <4>2
    <3> QED BY <1>7, <1>8, <3>5, <3>6 DEF OwnStatics
  <2> QED BY <2>1, <2>2
<1> QED BY <1>1, <1>2, <1>4, <1>5, <1>6, <1>8 DEF DeclaringAt

LEMMA DeclaresLate ==
  ASSUME Shapes, StaticInv, NEW a \in Apps, DeclaringAt(a), forRootAsync(a) \/ ormForRoot(a)
  PROVE  DeclaringAt(a)'
<1> DEFINE n == called[a] + 1
           m == Imports[a][n]
<1>1. /\ phase[a] = "declaring" /\ called[a] < Len(Imports[a]) /\ m.via # "core"
      /\ called' = [called EXCEPT ![a] = @ + 1] /\ phase' = phase /\ registry' = registry
      /\ pending' = [pending EXCEPT ![a] = @ \cup {n}] /\ registrations' = registrations
      /\ infrastructureRegistered' \/ (infrastructureRegistered' = infrastructureRegistered /\ ByOrm(m) /\ factory' = factory)
      /\ factory'[a] \in {factory[a], "fresh"}
  BY DEF forRootAsync, ormForRoot, ByOrm, statics, Shapes
<1>2. /\ n \in Calls(a) /\ \A i \in Calls(a) : i <= n <=> i <= called[a] \/ i = n
      /\ Sync(a, n) = Sync(a, called[a])
  BY <1>1, SyncGrows
<1>3. called'[a] = n
  BY <1>1 DEF Shapes
<1>4. pending[a] = {i \in Calls(a) : i <= called[a] /\ Imports[a][i].via # "core"} /\ registry[a] = NewRegistry
  BY <1>1 DEF DeclaringAt
<1>5. pending'[a] = {i \in Calls(a) : i <= n /\ Imports[a][i].via # "core"}
  <2>1. pending'[a] = pending[a] \cup {n}
    BY <1>1 DEF Shapes
  <2> QED BY <1>1, <1>2, <1>4, <2>1
<1>6. ASSUME factory'[a] = "static" PROVE OwnStatics(a)'
  <2>1. OwnStatics(a)
    BY <1>1, <1>6 DEF DeclaringAt
  <2> QED BY <1>1, <1>2, <1>3, <2>1 DEF OwnStatics
<1>7. ASSUME ~infrastructureRegistered'
      PROVE  factory'[a] = "none" /\ \A i \in Calls(a) : i <= n => ByOrm(Imports[a][i])
  BY <1>1, <1>2, <1>7 DEF DeclaringAt
<1> QED BY <1>1, <1>3, <1>4, <1>5, <1>6, <1>7 DEF DeclaringAt

LEMMA DeclaringStep == Shapes /\ Alone /\ StaticInv /\ DeclaringInv /\ [Next]_vars => DeclaringInv'
<1> SUFFICES ASSUME Shapes, Alone, StaticInv, DeclaringInv, [Next]_vars, NEW b \in Apps PROVE DeclaringAt(b)'
  BY DEF DeclaringInv
<1>0. DeclaringAt(b)
  BY DEF DeclaringInv
<1>1. ASSUME phase'[b] \notin {"absent", "declaring"} PROVE DeclaringAt(b)'
  BY <1>1 DEF DeclaringAt
<1>2. ASSUME phase'[b] # "declaring", phase'[b] = phase[b], called'[b] = called[b], factory'[b] = factory[b],
             pending'[b] = pending[b], registry'[b] = registry[b]
      PROVE  DeclaringAt(b)'
  BY <1>0, <1>2 DEF DeclaringAt
<1>3. ASSUME NEW a \in Apps, Startup(a) PROVE DeclaringAt(b)'
  <2>1. phase[a] \in {"declaring", "resolving"}
    BY <1>3 DEF Startup, forRoot, forRootAsync, ormForRoot, BuildRegistry, RegisterAdapter, Bootstrap
  <2>2. CASE a # b
    <3>1. phase[b] # "declaring"
      BY <2>1, <2>2 DEF Alone, Live
    <3> QED BY <1>2, <1>3, <2>2, <3>1, StartupFrame
  <2>3. CASE a = b
    <3>1. CASE phase'[b] \notin {"absent", "declaring"}
      BY <1>1, <3>1
    <3>2. CASE phase'[b] \in {"absent", "declaring"}
      <4>1. ~BuildRegistry(a) /\ ~Bootstrap(a) /\ ~\E i \in Calls(a) : RegisterAdapter(a, i)
        BY <2>1, <2>3, <3>2 DEF BuildRegistry, Bootstrap, RegisterAdapter, Enters, Shapes
      <4>2. CASE forRoot(a)
        <5>1. phase'[a] = "declaring"
          BY <2>1, <2>3, <3>2, <4>2 DEF forRoot, Enters, Shapes
        <5> QED BY <1>0, <2>3, <4>2, <5>1, DeclaresStatic
      <4>3. CASE forRootAsync(a) \/ ormForRoot(a)
        BY <1>0, <2>3, <4>3, DeclaresLate
      <4> QED BY <1>3, <4>1, <4>2, <4>3 DEF Startup
    <3> QED BY <3>1, <3>2
  <2> QED BY <2>2, <2>3
<1>4. ASSUME UNCHANGED startup PROVE called'[b] = called[b] /\ factory'[b] = factory[b] /\ pending'[b] = pending[b] /\ registry'[b] = registry[b]
  BY <1>4 DEF startup
<1>5. ASSUME NEW a \in Apps, Start(a) PROVE DeclaringAt(b)'
  <2>1. UNCHANGED startup
    BY <1>5 DEF Start
  <2>2. CASE a = b
    <3>1. phase[b] = "absent" /\ phase'[b] = "declaring"
      BY <1>5, <2>2 DEF Start, Enters, Shapes
    <3>2. called[b] = 0 /\ factory[b] = "none" /\ pending[b] = {} /\ registry[b] = NewRegistry
      BY <1>0, <3>1 DEF DeclaringAt
    <3>3. \A i \in Calls(b) : ~(i <= 0)
      BY ImportFacts
    <3> QED BY <1>4, <2>1, <3>1, <3>2, <3>3 DEF DeclaringAt
  <2>3. CASE a # b
    BY <1>2, <1>4, <1>5, <2>1, <2>3 DEF Start, Enters, Shapes, Live
  <2> QED BY <2>2, <2>3
<1>6. ASSUME UNCHANGED <<startup, statics>>, phase'[b] = phase[b] PROVE DeclaringAt(b)'
  <2>1. OwnStatics(b)' <=> OwnStatics(b)
    BY <1>6 DEF OwnStatics, startup, statics
  <2> QED BY <1>0, <1>4, <1>6, <2>1 DEF DeclaringAt, statics
<1>7. ASSUME NEW a \in Apps, onModuleDestroy(a) \/ Dispose(a) PROVE DeclaringAt(b)'
  <2>1. UNCHANGED <<startup, statics>> /\ (a # b => phase'[b] = phase[b]) /\ phase'[a] \in {"closing", "closed"}
    BY <1>7 DEF onModuleDestroy, Dispose, Enters, Shapes
  <2> QED BY <1>1, <1>6, <2>1
<1>8. ASSUME resetForTesting PROVE DeclaringAt(b)'
  <2>1. UNCHANGED startup /\ phase' = phase /\ phase[b] # "declaring"
    BY <1>8 DEF resetForTesting, Live
  <2> QED BY <1>2, <1>4, <2>1
<1>9. ASSUME \/ \E a \in Apps : \/ \E h \in DOMAIN Handlers : Dispatch(a, h)
                                \/ \E o \in Services \cup {None} : Intercept(a, o)
             \/ \E o \in Services : CallService(o)
             \/ Return \/ EndRequest \/ resetHandlers \/ (\E orm \in Orms : resetManaged(orm)) \/ UNCHANGED vars
      PROVE  DeclaringAt(b)'
  BY <1>6, <1>9 DEF Dispatch, Intercept, CallService, Return, EndRequest, resetHandlers, resetManaged, vars
<1> QED BY <1>3, <1>5, <1>7, <1>8, <1>9 DEF Next

LEMMA NewRegistryIsEmpty ==
  NewRegistry.default = None /\ \A k \in Keys : get(NewRegistry, k) = None
BY DEF NewRegistry, get

\* The factory of the registry: it has every synchronous adapter, or none.
LEMMA Builds ==
  ASSUME Shapes, StaticInv, NEW a \in Apps, DeclaringAt(a), BuildRegistry(a)
  PROVE  RegistryAt(a)' /\ DefaultAt(a)'
<1> DEFINE S == Sync(a, Len(Imports[a]))
           built == buildRegistryFromStaticStorage
<1>1. /\ phase[a] = "declaring" /\ called[a] = Len(Imports[a]) /\ registry[a] = NewRegistry
      /\ called' = called /\ factory' = factory /\ pending' = pending
      /\ pending[a] = {i \in Calls(a) : i <= called[a] /\ Imports[a][i].via # "core"}
  BY DEF BuildRegistry, DeclaringAt
<1>2. \A i \in Calls(a) : i <= called[a]
  BY <1>1, ImportFacts
<1>3. /\ S = {i \in Adapters(a) : Imports[a][i].via = "core"}
      /\ \A i \in Adapters(a) : i \in pending[a] <=> Imports[a][i].via # "core"
  BY <1>1, <1>2 DEF Sync, Adapters
<1>4. CASE factory[a] # "static"
  <2>1. registry'[a] = NewRegistry
    BY <1>1, <1>4 DEF BuildRegistry, Shapes
  <2>2. Up(a)' => factory[a] = "fresh"
    BY <1>4 DEF BuildRegistry, Enters, Up, Shapes
  <2>3. Up(a)' => Adapters(a) \subseteq pending[a] \cup Unread(a)
    BY <1>3, <2>2 DEF Unread
  <2>4. RegistryAt(a)'
    BY <1>1, <2>1, <2>2, <2>3, NewRegistryIsEmpty DEF RegistryAt, Unread
  <2>5. \A i \in Adapters(a) : Imports[a][i].isDefault => i \in pending[a]
    BY <1>3, ImportFacts DEF Adapters, ByOrm
  <2> QED BY <1>1, <2>2, <2>3, <2>4, <2>5 DEF DefaultAt, Unread
<1>5. CASE factory[a] = "static"
  <2>1. /\ registry'[a] = built /\ OwnStatics(a)
    BY <1>1, <1>5 DEF BuildRegistry, Shapes, DeclaringAt
  <2>2. Range(registrations) = {Imports[a][i] : i \in S} /\ ReadsStatics(a)
    BY <1>1, <2>1 DEF OwnStatics
  <2>3. registrations # <<>> =>
          \E i \in S : registrations[1] = Imports[a][i] /\ \A j \in S : i <= j
    BY <1>1, <2>1 DEF OwnStatics
  <2>4. S # {} => registrations # <<>>
    <3>1. registrations = <<>> => Range(registrations) = {}
      BY DEF Range
    <3> QED BY <2>2, <3>1
  <2>5. Unread(a)' = {}
    BY <1>1, <1>5 DEF Unread
  <2>6. S \subseteq Registers(a)
    BY <1>3, <2>2 DEF Registers
  <2> HIDE DEF S, built
  <2>7. \A k \in Keys : get(built, k) # None => \E i \in S : Imports[a][i].key = k /\ Imports[a][i].db = get(built, k)
    BY <2>2, BuildFacts DEF built
  <2>8. \A i \in S : get(built, Imports[a][i].key) # None
    BY <2>2, BuildFacts DEF built
  <2>9. built.default # None => get(built, built.default) # None
    BY BuildFacts DEF built
  <2>10. S # {} => \E i \in S : built.default = Imports[a][i].key /\ \A j \in S : i <= j
    BY <2>3, <2>4, BuildFacts DEF built
  <2>11. \A i \in Adapters(a) \ pending[a] : i \in S
    BY <1>3
  <2>12. RegistryAt(a)'
    BY <1>1, <1>5, <2>1, <2>6, <2>7, <2>8, <2>9, <2>11 DEF RegistryAt
  <2>13. \A i \in Adapters(a) : Imports[a][i].isDefault => i \in pending[a]
    BY <1>3, ImportFacts DEF Adapters, ByOrm
  <2> QED BY <1>1, <1>3, <2>1, <2>5, <2>10, <2>12, <2>13 DEF DefaultAt
<1> QED BY <1>4, <1>5

\* One more adapter in the registry.
LEMMA Registering ==
  ASSUME Shapes, NEW a \in Apps, RegistryAt(a), DefaultAt(a), NEW i \in Calls(a), RegisterAdapter(a, i)
  PROVE  RegistryAt(a)' /\ DefaultAt(a)'
<1> DEFINE m == Imports[a][i]
<1>1. /\ phase[a] = "resolving" /\ called' = called /\ factory' = factory /\ pending'[a] = pending[a] \ {i}
      /\ m.via # "core"
  BY DEF RegisterAdapter, Without, Shapes
<1>2. Up(a) /\ Unread(a)' = Unread(a)
  BY <1>1 DEF Up, Unread
<1>3. CASE registry' = registry /\ m.db = None
  <2>1. i \notin Adapters(a)
    BY <1>3 DEF Adapters
  <2>2. \A j \in Adapters(a) : j \in pending'[a] <=> j \in pending[a]
    BY <1>1, <2>1
  <2> QED BY <1>1, <1>2, <1>3, <2>2 DEF RegistryAt, DefaultAt
<1>4. CASE phase'[a] = "failed" /\ registry' = registry
  BY <1>1, <1>4 DEF RegistryAt, DefaultAt, Up
<1>5. CASE m.db \in Databases /\ registry'[a] = register(registry[a], m.key, m.db, m.isDefault)
  <2>1. m.key \in Keys /\ m.isDefault \in BOOLEAN /\ m.db # None /\ m.key # None
    BY <1>5, ImportFacts, NoneAssumption
  <2>2. i \in Registers(a) /\ i \in Adapters(a)
    BY <1>1, <2>1 DEF Adapters, Registers
  <2>3. registry[a] \in Registries
    BY DEF Shapes
  <2>4. /\ \A j \in Keys : get(registry'[a], j) = IF j = m.key THEN m.db ELSE get(registry[a], j)
        /\ registry'[a].default = IF m.isDefault \/ registry[a].default = None THEN m.key ELSE registry[a].default
    BY <1>5, <2>1, <2>3, RegisterFacts
  <2>5. \A j \in Adapters(a) : Imports[a][j].key \in Keys
    BY ImportFacts DEF Adapters
  <2>6. registry[a].default \in Keys \cup {None}
    BY <2>3 DEF Registries
  <2>7. RegistryAt(a)'
    <3>1. registry'[a].default # None => get(registry'[a], registry'[a].default) # None
      BY <2>1, <2>4, <2>6 DEF RegistryAt
    <3>2. \A k \in Keys : get(registry'[a], k) # None =>
            \E j \in Registers(a) : /\ Imports[a][j].key = k /\ Imports[a][j].db = get(registry'[a], k)
                                    /\ Imports[a][j].via = "core" => factory[a] = "static"
      BY <1>1, <2>2, <2>4 DEF RegistryAt
    <3>3. \A j \in Adapters(a) \ (pending'[a] \cup Unread(a)) : get(registry'[a], Imports[a][j].key) # None
      BY <1>1, <1>2, <2>1, <2>4, <2>5 DEF RegistryAt
    <3> QED BY <1>1, <1>2, <3>1, <3>2, <3>3 DEF RegistryAt
  <2>8. DefaultAt(a)'
    <3> DEFINE declared == {j \in Adapters(a) : Imports[a][j].isDefault}
               sync == {j \in Adapters(a) \ Unread(a) : Imports[a][j].via = "core"}
    <3>1. ASSUME NEW j \in declared \ pending'[a], declared = {j} PROVE registry'[a].default = Imports[a][j].key
      <4>1. CASE j = i
        BY <2>4, <4>1
      <4>2. CASE j # i
        <5>1. registry[a].default = Imports[a][j].key
          BY <1>1, <1>2, <3>1, <4>2 DEF DefaultAt
        <5>2. ~m.isDefault
          BY <2>2, <3>1, <4>2
        <5> QED BY <2>4, <2>5, <5>1, <5>2, NoneAssumption
      <4> QED BY <4>1, <4>2
    <3>2. ASSUME declared = {}, sync # {}
          PROVE  \E j \in sync : registry'[a].default = Imports[a][j].key /\ \A l \in sync : j <= l
      <4>1. PICK j \in sync : registry[a].default = Imports[a][j].key /\ \A l \in sync : j <= l
        BY <1>2, <3>2 DEF DefaultAt
      <4>2. ~m.isDefault /\ Imports[a][j].key # None
        BY <2>2, <2>5, <3>2, NoneAssumption
      <4> QED BY <2>4, <4>1, <4>2
    <3> HIDE DEF m
    <3> QED BY <1>2, <3>1, <3>2 DEF DefaultAt
  <2> QED BY <2>7, <2>8
<1>6. \/ registry' = registry /\ m.db = None
      \/ phase'[a] = "failed" /\ registry' = registry
      \/ m.db \in Databases /\ registry'[a] = register(registry[a], m.key, m.db, m.isDefault)
  <2>1. m.via = "coreAsync" => ~m.isDefault /\ m.isDefault = FALSE
    BY ImportFacts DEF ByOrm
  <2>2. m.db \in Databases \cup {None} /\ (m.via # "coreAsync" => m.db \in Databases)
    BY <1>1, ImportFacts DEF ByOrm
  <2> HIDE DEF m
  <2>3. CASE m.via = "coreAsync" /\ registerEagerly(a, m)
    BY <2>1, <2>2, <2>3 DEF registerEagerly, Shapes
  <2>4. CASE m.via # "coreAsync" /\ registerManaged(a, m)
    BY <2>2, <2>4 DEF registerManaged, Shapes
  <2>5. CASE Enters(a, "failed") /\ UNCHANGED <<marks, registry>>
    BY <2>5 DEF Enters, Shapes
  <2> QED BY <2>3, <2>4, <2>5 DEF RegisterAdapter, m
<1> QED BY <1>3, <1>4, <1>5, <1>6

LEMMA RegistryStep ==
  Shapes /\ Alone /\ StaticInv /\ DeclaringInv /\ RegistryInv /\ DefaultInv /\ [Next]_vars
    => RegistryInv' /\ DefaultInv'
<1> SUFFICES ASSUME Shapes, Alone, StaticInv, DeclaringInv, RegistryInv, DefaultInv, [Next]_vars, NEW b \in Apps
             PROVE  RegistryAt(b)' /\ DefaultAt(b)'
  BY DEF RegistryInv, DefaultInv
<1>0. DeclaringAt(b) /\ RegistryAt(b) /\ DefaultAt(b)
  BY DEF DeclaringInv, RegistryInv, DefaultInv
<1>1. ASSUME Up(b)' => Up(b), called'[b] = called[b], factory'[b] = factory[b], pending'[b] = pending[b],
             registry'[b] = registry[b]
      PROVE  RegistryAt(b)' /\ DefaultAt(b)'
  <2>1. Unread(b)' = Unread(b)
    BY <1>1 DEF Unread
  <2> QED BY <1>0, <1>1, <2>1 DEF RegistryAt, DefaultAt
<1>2. ASSUME NEW a \in Apps, Startup(a), a # b PROVE RegistryAt(b)' /\ DefaultAt(b)'
  BY <1>1, <1>2, StartupFrame DEF Up
<1>3. ASSUME forRoot(b) \/ forRootAsync(b) \/ ormForRoot(b) PROVE RegistryAt(b)' /\ DefaultAt(b)'
  <2>1. phase[b] = "declaring" /\ phase'[b] \in {"declaring", "failed"} /\ registry'[b] = registry[b]
    BY <1>3 DEF forRoot, forRootAsync, ormForRoot, Enters, Shapes, startup
  <2>2. registry'[b] = NewRegistry /\ ~Up(b)'
    BY <1>0, <2>1 DEF DeclaringAt, Up
  <2> QED BY <2>2, NewRegistryIsEmpty DEF RegistryAt, DefaultAt
<1>4. ASSUME Bootstrap(b) PROVE RegistryAt(b)' /\ DefaultAt(b)'
  BY <1>1, <1>4 DEF Bootstrap, Up, startup
<1>5. ASSUME UNCHANGED startup, Up(b)' => Up(b) PROVE RegistryAt(b)' /\ DefaultAt(b)'
  BY <1>1, <1>5 DEF startup
<1>6. ASSUME NEW a \in Apps, Start(a) \/ onModuleDestroy(a) \/ Dispose(a) PROVE Up(b)' => Up(b)
  BY <1>6 DEF Start, onModuleDestroy, Dispose, Enters, Shapes, Up
<1>7. ASSUME \/ \E a \in Apps : \/ \E h \in DOMAIN Handlers : Dispatch(a, h)
                                \/ \E o \in Services \cup {None} : Intercept(a, o)
             \/ \E o \in Services : CallService(o)
             \/ Return \/ EndRequest \/ resetForTesting \/ resetHandlers \/ (\E orm \in Orms : resetManaged(orm)) \/ UNCHANGED vars
      PROVE  Up(b)' => Up(b)
  BY <1>7 DEF Dispatch, Intercept, CallService, Return, EndRequest, resetForTesting, resetHandlers, resetManaged, vars, Up
<1>8. ASSUME Startup(b) PROVE RegistryAt(b)' /\ DefaultAt(b)'
  BY <1>0, <1>3, <1>4, <1>8, Builds, Registering DEF Startup
<1> QED BY <1>2, <1>5, <1>6, <1>7, <1>8, ServingFrame DEF Next

-------------------------------------------------------------------------------
(* The marks on DataSources and drizzle() instances *)

\* Only the registration of an adapter marks, and only a reset removes marks.
LEMMA MarksFrame ==
  ASSUME [Next]_vars,
         ~ \E a \in Apps : \E i \in Calls(a) : RegisterAdapter(a, i)
  PROVE  UNCHANGED marks \/ \E orm \in Orms : resetManaged(orm)
<1>1. ASSUME NEW a \in Apps, Startup(a) PROVE UNCHANGED marks
  BY <1>1 DEF Startup, forRoot, forRootAsync, ormForRoot, BuildRegistry, Bootstrap
<1>2. ASSUME NEW a \in Apps, \/ Start(a) \/ onModuleDestroy(a) \/ Dispose(a)
                             \/ \E h \in DOMAIN Handlers : Dispatch(a, h)
                             \/ \E o \in Services \cup {None} : Intercept(a, o)
      PROVE  UNCHANGED marks
  BY <1>2 DEF Start, onModuleDestroy, Dispose, Dispatch, Intercept
<1>3. ASSUME \/ (\E o \in Services : CallService(o)) \/ Return \/ EndRequest
             \/ resetForTesting \/ resetHandlers \/ UNCHANGED vars
      PROVE  UNCHANGED marks
  BY <1>3 DEF CallService, Return, EndRequest, resetForTesting, resetHandlers, vars
<1> QED BY <1>1, <1>2, <1>3 DEF Next

LEMMA StampStep == Shapes /\ StampInv /\ [Next]_vars => StampInv'
<1> SUFFICES ASSUME Shapes, StampInv, [Next]_vars PROVE StampInv'
  OBVIOUS
<1>1. ASSUME stamp' = stamp PROVE StampInv'
  BY <1>1 DEF StampInv
<1>2. ASSUME NEW a \in Apps, NEW i \in Calls(a), RegisterAdapter(a, i) PROVE StampInv'
  <2> DEFINE m == Imports[a][i]
  <2>1. m.via # "core" /\ m.key \in Keys /\ m.key = <<m.key[1], m.key[2]>> /\ (ByOrm(m) => m.db \in Databases)
    BY <1>2, ImportFacts DEF RegisterAdapter, Shapes, Keys
  <2>2. CASE stamp' = stamp
    BY <1>1, <2>2
  <2>3. CASE m.via # "coreAsync" /\ m.key[1] = "typeorm" /\ stamp' = [stamp EXCEPT ![m.db] = m.key[2]]
    <3>1. ByOrm(m) /\ m.db \in Databases /\ m.db # None /\ m.key = <<"typeorm", m.key[2]>> /\ i \in Adapters(a)
      BY <2>1, <2>3, ImportFacts, NoneAssumption DEF ByOrm, Adapters
    <3>2. ASSUME NEW db \in Databases, stamp'[db] # None
          PROVE  \E b \in Apps : \E j \in Adapters(b) :
                   /\ ByOrm(Imports[b][j]) /\ Imports[b][j].key = <<"typeorm", stamp'[db]>> /\ Imports[b][j].db = db
      <4>1. CASE db = m.db
        <5>1. stamp'[db] = m.key[2]
          BY <2>3, <3>1, <4>1 DEF Shapes
        <5> QED BY <3>1, <4>1, <5>1
      <4>2. CASE db # m.db
        <5>1. stamp'[db] = stamp[db]
          BY <2>3, <3>1, <4>2 DEF Shapes
        <5> QED BY <3>2, <5>1 DEF StampInv
      <4> QED BY <4>1, <4>2
    <3> QED BY <3>2 DEF StampInv
  <2> QED BY <1>2, <2>2, <2>3 DEF RegisterAdapter, registerManaged, registerEagerly, marks
<1>3. ASSUME NEW orm \in Orms, resetManaged(orm) PROVE stamp' = stamp
  BY <1>3 DEF resetManaged
<1> QED BY <1>1, <1>2, <1>3, MarksFrame DEF marks

LEMMA MarksStep ==
  ASSUME OneName
  PROVE  Shapes /\ Alone /\ DeclaringInv /\ MarksInv /\ [Next]_vars => MarksInv'
<1> SUFFICES ASSUME Shapes, Alone, DeclaringInv, MarksInv, [Next]_vars, NEW b \in Apps, Up(b)' PROVE MarksAt(b)'
  BY DEF MarksInv, MarksAt
<1>0. MarksAt(b) /\ DeclaringAt(b)
  BY DEF MarksInv, DeclaringInv
<1>1. ASSUME Up(b), UNCHANGED marks, pending'[b] = pending[b] PROVE MarksAt(b)'
  BY <1>0, <1>1 DEF MarksAt, marks
<1>2. ASSUME BuildRegistry(b) PROVE MarksAt(b)'
  <2>1. \A i \in Calls(b) : i <= called[b]
    BY <1>2, ImportFacts DEF BuildRegistry
  <2>2. pending'[b] = {i \in Calls(b) : i <= called[b] /\ Imports[b][i].via # "core"}
    BY <1>0, <1>2 DEF BuildRegistry, DeclaringAt
  <2> QED BY <2>1, <2>2 DEF MarksAt, ByOrm
<1>3. ASSUME NEW i \in Calls(b), RegisterAdapter(b, i) PROVE MarksAt(b)'
  <2> DEFINE m == Imports[b][i]
  <2>1. Up(b) /\ pending'[b] = pending[b] \ {i} /\ phase'[b] # "failed" /\ m.via # "core"
    BY <1>3 DEF RegisterAdapter, Without, Up, Shapes
  <2>2. CASE m.via = "coreAsync" /\ UNCHANGED marks
    BY <1>0, <2>1, <2>2 DEF MarksAt, ByOrm, marks
  <2>3. CASE m.via # "coreAsync" /\ ~OtherName(m) /\ registerManaged(b, m)
    <3>1. ByOrm(m) /\ m.db \in Databases /\ m.key[1] \in {"typeorm", "drizzle"} /\ m.key[2] \in Names
      BY <2>1, <2>3, ImportFacts DEF ByOrm
    <3>2. managed' = [managed EXCEPT ![m.db] = m.key[2]]
      BY <2>3 DEF registerManaged
    <3>3. /\ m.key[1] = "typeorm" => stamp' = [stamp EXCEPT ![m.db] = m.key[2]]
          /\ m.key[1] # "typeorm" => stamp' = stamp
      BY <2>3 DEF registerManaged
    <3>4. ASSUME NEW j \in Calls(b) \ pending'[b], ByOrm(Imports[b][j])
          PROVE  /\ managed'[Imports[b][j].db] = Imports[b][j].key[2]
                 /\ Imports[b][j].key[1] = "typeorm" => stamp'[Imports[b][j].db] = Imports[b][j].key[2]
      <4> DEFINE n == Imports[b][j]
      <4>1. n.db \in Databases /\ n.key \in Keys /\ m.key \in Keys
        BY <3>4, ImportFacts
      <4>2. CASE j = i
        BY <3>1, <3>2, <3>3, <4>2 DEF Shapes
      <4>3. CASE j # i
        <5>1. managed[n.db] = n.key[2] /\ (n.key[1] = "typeorm" => stamp[n.db] = n.key[2])
          BY <1>0, <2>1, <3>4, <4>3 DEF MarksAt
        <5>2. CASE n.db # m.db
          BY <3>1, <3>2, <3>3, <4>1, <5>1, <5>2 DEF Shapes
        <5>3. CASE n.db = m.db
          <6>1. n.key[1] = m.key[1]
            BY <3>1, <3>4, <5>3, ImportsAssumption DEF Calls
          <6>2. n.key[2] = m.key[2]
            <7>1. CASE m.key[1] = "typeorm"
              <8>1. i \in Adapters(b) /\ j \in Adapters(b)
                BY <3>1, <4>1, NoneAssumption DEF Adapters
              <8> QED BY <5>3, <6>1, <7>1, <8>1 DEF OneName
            <7>2. CASE m.key[1] = "drizzle"
              <8>1. managed[m.db] \in {None, m.key[2]}
                BY <2>3, <7>2 DEF OtherName
              <8>2. n.key[2] # None
                BY <4>1, NoneAssumption DEF Keys
              <8> QED BY <5>1, <5>3, <8>1, <8>2
            <7> QED BY <3>1, <7>1, <7>2
          <6> HIDE DEF m, n
          <6>3. managed'[n.db] = n.key[2] /\ (n.key[1] = "typeorm" => stamp'[n.db] = n.key[2])
            BY <3>1, <3>2, <3>3, <5>3, <6>1, <6>2 DEF Shapes
          <6> QED BY <6>3 DEF n
        <5> QED BY <5>2, <5>3
      <4> QED BY <4>2, <4>3
    <3> QED BY <3>4 DEF MarksAt
  <2>4. CASE Enters(b, "failed")
    BY <2>1, <2>4 DEF Enters, Shapes
  <2> QED BY <1>3, <2>2, <2>3, <2>4 DEF RegisterAdapter, registerEagerly
<1>4. ASSUME NEW a \in Apps, Startup(a), a # b PROVE MarksAt(b)'
  <2>1. Up(b)
    BY <1>4, StartupFrame DEF Up
  <2>2. Live(a) /\ Live(b)
    BY <1>4, <2>1 DEF Up, Live, Startup, forRoot, forRootAsync, ormForRoot, BuildRegistry, RegisterAdapter, Bootstrap
  <2> QED BY <1>4, <2>2 DEF Alone
<1>5. ASSUME forRoot(b) \/ forRootAsync(b) \/ ormForRoot(b) PROVE FALSE
  BY <1>5 DEF forRoot, forRootAsync, ormForRoot, Enters, Up, Shapes
<1>6. ASSUME Bootstrap(b) PROVE MarksAt(b)'
  BY <1>1, <1>6 DEF Bootstrap, Up, startup
<1>7. ASSUME resetForTesting \/ (\E orm \in Orms : resetManaged(orm)) PROVE FALSE
  BY <1>7 DEF resetForTesting, resetManaged, Up, Live
<1>8. ASSUME NEW a \in Apps, Start(a) \/ onModuleDestroy(a) \/ Dispose(a) PROVE MarksAt(b)'
  <2>1. Up(b) /\ UNCHANGED marks /\ UNCHANGED startup
    BY <1>8 DEF Start, onModuleDestroy, Dispose, Enters, Shapes, Up
  <2> QED BY <1>1, <2>1 DEF startup
<1>9. ASSUME \/ \E a \in Apps : \/ \E h \in DOMAIN Handlers : Dispatch(a, h)
                                \/ \E o \in Services \cup {None} : Intercept(a, o)
             \/ \E o \in Services : CallService(o)
             \/ Return \/ EndRequest \/ resetHandlers \/ UNCHANGED vars
      PROVE  MarksAt(b)'
  <2>1. Up(b) /\ UNCHANGED marks /\ UNCHANGED startup
    BY <1>9 DEF Dispatch, Intercept, CallService, Return, EndRequest, resetHandlers, vars, Up
  <2> QED BY <1>1, <2>1 DEF startup
<1> QED BY <1>2, <1>3, <1>4, <1>5, <1>6, <1>7, <1>8, <1>9 DEF Next, Startup

-------------------------------------------------------------------------------
(* The context Map and the stack of calls *)

LEMMA RemoveFacts ==
  ASSUME NEW m \in Maps, Ordered(m), NEW k \in Keys
  PROVE  /\ removeActiveTransaction(m, k) \in Maps /\ Ordered(removeActiveTransaction(m, k))
         /\ removeActiveTransaction(m, k).at = [m.at EXCEPT ![k] = None]
         /\ k \notin Present(removeActiveTransaction(m, k))
<1> DEFINE r == removeActiveTransaction(m, k)
<1>1. /\ r \in Maps /\ r.at = [m.at EXCEPT ![k] = None]
      /\ r.older = {p \in m.older : p[1] # k /\ p[2] # k}
  BY DEF removeActiveTransaction, Maps
<1>2. m.at \in [Keys -> Transactions \cup {None}]
  BY DEF Maps
<1> HIDE DEF r
<1>3. Present(r) = Present(m) \ {k}
  BY <1>1, <1>2 DEF Present
<1>4. \A p \in r.older : p[1] \in Present(r) /\ p[2] \in Present(r)
  BY <1>1, <1>3 DEF Ordered
<1>5. r.older \subseteq m.older
  BY <1>1
<1>6. Ordered(r)
  BY <1>4, <1>5 DEF Ordered
<1> QED BY <1>1, <1>3, <1>6 DEF r

LEMMA SetFacts ==
  ASSUME NEW m \in Maps, Ordered(m), NEW k \in Keys, k \notin Present(m), NEW t \in Transactions
  PROVE  /\ setActiveTransaction(m, k, t) \in Maps /\ Ordered(setActiveTransaction(m, k, t))
         /\ setActiveTransaction(m, k, t).at = [m.at EXCEPT ![k] = t]
<1> DEFINE r == setActiveTransaction(m, k, t)
<1>0. Present(m) \subseteq Keys
  BY DEF Present
<1>1. r.at = [m.at EXCEPT ![k] = t] /\ r.older = m.older \cup {<<j, k>> : j \in Present(m)}
  BY DEF setActiveTransaction
<1>2. m.at \in [Keys -> Transactions \cup {None}] /\ m.older \in SUBSET (Keys \X Keys)
  BY DEF Maps
<1>3. r \in Maps
  <2>1. r.at \in [Keys -> Transactions \cup {None}]
    BY <1>1, <1>2
  <2>2. r.older \in SUBSET (Keys \X Keys)
    BY <1>0, <1>1, <1>2
  <2> QED BY <2>1, <2>2 DEF Maps, setActiveTransaction
<1> HIDE DEF r
<1>4. Present(r) = Present(m) \cup {k}
  BY <1>1, <1>2, NoneAssumption DEF Present
<1>5. \A p \in r.older : p[1] \in Present(r) /\ p[2] \in Present(r)
  BY <1>1, <1>4 DEF Ordered
<1>6. ASSUME NEW S \in SUBSET Keys, S # {} PROVE \E x \in S : \A j \in S : <<j, x>> \notin r.older
  <2>1. CASE S \ {k} = {}
    <3>1. k \in S /\ \A j \in S : j = k
      BY <1>6, <2>1
    <3>2. <<k, k>> \notin m.older
      BY DEF Ordered
    <3>3. <<k, k>> \notin r.older
      BY <1>1, <3>2
    <3> QED BY <3>1, <3>3
  <2>2. CASE S \ {k} # {}
    <3>1. PICK x \in S \ {k} : \A j \in S \ {k} : <<j, x>> \notin m.older
      BY <2>2 DEF Ordered
    <3>2. <<k, x>> \notin m.older
      BY DEF Ordered
    <3>3. \A j \in S : <<j, x>> \notin m.older
      BY <3>1, <3>2
    <3>4. \A j \in S : <<j, x>> \notin r.older
      BY <1>1, <3>1, <3>3
    <3> QED BY <3>4
  <2> QED BY <2>1, <2>2
<1>7. Ordered(r)
  BY <1>5, <1>6 DEF Ordered
<1> QED BY <1>1, <1>3, <1>7 DEF r

\* The first entry of a name is an entry of that name.
LEMMA FirstNamedFacts ==
  ASSUME NEW m \in Maps, Ordered(m), NEW name
  PROVE  \/ FirstNamed(m, name) = None /\ \A k \in Present(m) : k[2] # name
         \/ \E k \in Present(m) : k[2] = name /\ FirstNamed(m, name) = m.at[k]
<1> DEFINE named == {k \in Present(m) : k[2] = name}
           first == CHOOSE k \in named : \A j \in named : <<j, k>> \notin m.older
<1>1. CASE named = {}
  BY <1>1 DEF FirstNamed
<1>2. CASE named # {}
  <2>1. named \in SUBSET Keys
    BY DEF Present
  <2>2. \E k \in named : \A j \in named : <<j, k>> \notin m.older
    BY <1>2, <2>1 DEF Ordered
  <2>3. first \in named
    BY <2>2
  <2>4. FirstNamed(m, name) = m.at[first]
    BY <1>2 DEF FirstNamed
  <2> QED BY <2>3, <2>4
<1> QED BY <1>1, <1>2

\* The calls below the top of the stack keep what they give.
LEMMA GivesBelow ==
  ASSUME NEW S, NEW s \in Seq(S), NEW t \in Seq(S), NEW n \in Nat, n <= Len(s), n <= Len(t),
         \A i \in 1 .. n : s[i] = t[i], NEW k, NEW v, Gives(s, k, n, v)
  PROVE  Gives(t, k, n, v)
<1>1. DOMAIN s = 1 .. Len(s) /\ DOMAIN t = 1 .. Len(t) /\ Len(s) \in Nat /\ Len(t) \in Nat
  OBVIOUS
<1>2. \A i : i \in DOMAIN s /\ i <= n <=> i \in 1 .. n
  BY <1>1
<1>3. \A i : i \in DOMAIN t /\ i <= n <=> i \in 1 .. n
  BY <1>1
<1>4. Changers(s, k, n) = Changers(t, k, n) /\ \A i \in Changers(s, k, n) : s[i] = t[i]
  BY <1>2, <1>3 DEF Changers
<1> QED BY <1>4 DEF Gives

\* The n-th call adds itself to those that change its key, unless it joins.
LEMMA GivesTop ==
  ASSUME NEW S, NEW s \in Seq(S), NEW n \in DOMAIN s, NEW k, NEW v
  PROVE  /\ s[n].key # k \/ s[n].does = "join" => (Gives(s, k, n, v) <=> Gives(s, k, n - 1, v))
         /\ s[n].key = k /\ s[n].does = "suspend" => Gives(s, k, n, None)
         /\ s[n].key = k /\ s[n].does = "open" => Gives(s, k, n, n)
<1>1. DOMAIN s = 1 .. Len(s) /\ Len(s) \in Nat
  OBVIOUS
<1>2. \A i \in DOMAIN s : i \in Nat /\ (i <= n <=> i <= n - 1 \/ i = n)
  BY <1>1
<1>3. s[n].key # k \/ s[n].does = "join" => Changers(s, k, n) = Changers(s, k, n - 1)
  BY <1>2 DEF Changers
<1>4. s[n].key = k /\ s[n].does # "join" => n \in Changers(s, k, n) /\ \A j \in Changers(s, k, n) : j <= n
  BY <1>2 DEF Changers
<1> QED BY <1>3, <1>4 DEF Gives

\* A call that is pushed remembers the transaction of its key, and only that changes.
LEMMA Pushes ==
  ASSUME NEW s \in Seq(FrameRecords), NEW m \in Maps, Nested(s, m), NEW f \in FrameRecords, f.outer = m.at[f.key],
         NEW r \in Maps, NEW t \in Transactions, t.id = Len(s) + 1,
         \A k \in Keys : r.at[k] = IF k # f.key \/ f.does = "join" THEN m.at[k]
                                  ELSE IF f.does = "suspend" THEN None ELSE t
  PROVE  Nested(Append(s, f), r)
<1> DEFINE u == Append(s, f)
           n == Len(s) + 1
<1>1. /\ u \in Seq(FrameRecords) /\ Len(u) = n /\ DOMAIN u = 1 .. n /\ u[n] = f
      /\ Len(s) \in Nat /\ DOMAIN s = 1 .. Len(s) /\ \A i \in 1 .. Len(s) : u[i] = s[i]
  OBVIOUS
<1>2. f.key \in Keys /\ f.does \in {"join", "suspend", "open"}
  BY DEF FrameRecords
<1> HIDE DEF u
<1>3. ASSUME NEW i \in Nat, i <= Len(s), NEW k \in Keys, NEW v, Gives(s, k, i, v) PROVE Gives(u, k, i, v)
  <2>1. i <= Len(u) /\ \A j \in 1 .. i : s[j] = u[j]
    BY <1>1, <1>3
  <2> QED BY <1>1, <1>3, <2>1, GivesBelow
<1>4. ASSUME NEW k \in Keys PROVE Gives(u, k, n, IdOf(r.at[k]))
  <2>0. n \in DOMAIN u /\ n - 1 = Len(s) /\ m.at \in [Keys -> Transactions \cup {None}]
    BY <1>1 DEF Maps
  <2>1. Gives(u, k, n - 1, IdOf(m.at[k]))
    BY <1>1, <1>3, <2>0 DEF Nested
  <2>2. CASE f.key # k \/ f.does = "join"
    <3>1. r.at[k] = m.at[k]
      BY <1>2, <2>0, <2>2
    <3> QED BY <1>1, <2>0, <2>1, <2>2, <3>1, GivesTop
  <2>3. CASE f.key = k /\ f.does = "suspend"
    <3>1. IdOf(r.at[k]) = None
      BY <1>2, <2>0, <2>3 DEF IdOf
    <3> QED BY <1>1, <2>0, <2>3, <3>1, GivesTop
  <2>4. CASE f.key = k /\ f.does = "open"
    <3>1. IdOf(r.at[k]) = n
      BY <1>2, <2>0, <2>4, NoneAssumption DEF IdOf
    <3> QED BY <1>1, <2>0, <2>4, <3>1, GivesTop
  <2> QED BY <1>2, <2>2, <2>3, <2>4
<1>5. ASSUME NEW i \in DOMAIN u PROVE Gives(u, u[i].key, i - 1, IdOf(u[i].outer))
  <2>1. CASE i = n
    <3>1. i - 1 = Len(s) /\ u[i] = f /\ Gives(s, f.key, Len(s), IdOf(f.outer))
      BY <1>1, <1>2, <2>1 DEF Nested
    <3> QED BY <1>1, <1>2, <1>3, <3>1
  <2>2. CASE i # n
    <3>1. i \in DOMAIN s /\ u[i] = s[i] /\ i - 1 \in Nat /\ i - 1 <= Len(s)
      BY <1>1, <2>2
    <3>2. s[i] \in FrameRecords
      BY <3>1
    <3>3. s[i].key \in Keys
      BY <3>2 DEF FrameRecords
    <3> QED BY <1>3, <3>1, <3>3 DEF Nested
  <2> QED BY <2>1, <2>2
<1> QED BY <1>1, <1>4, <1>5 DEF Nested, u

\* The call that ends puts the transaction back that it had found.
LEMMA Pops ==
  ASSUME NEW s \in Seq(FrameRecords), s # <<>>, NEW m \in Maps, Nested(s, m), NEW r \in Maps,
         \A k \in Keys : r.at[k] = IF k # Last(s).key \/ Last(s).does = "join" THEN m.at[k] ELSE Last(s).outer
  PROVE  Front(s) \in Seq(FrameRecords) /\ Nested(Front(s), r)
<1> DEFINE n == Len(s)
           u == Front(s)
           f == Last(s)
<1>0. n \in Nat /\ n >= 1 /\ DOMAIN s = 1 .. n /\ f = s[n] /\ n \in DOMAIN s /\ f \in FrameRecords
  BY DEF Last
<1>1. /\ n \in Nat /\ n >= 1 /\ DOMAIN s = 1 .. n /\ f = s[n] /\ n \in DOMAIN s
      /\ u \in Seq(FrameRecords) /\ Len(u) = n - 1 /\ DOMAIN u = 1 .. (n - 1)
      /\ \A i \in 1 .. (n - 1) : u[i] = s[i]
  BY <1>0 DEF Front
<1>2. f \in FrameRecords /\ f.key \in Keys /\ f.does \in {"join", "suspend", "open"}
  BY <1>0 DEF FrameRecords
<1> HIDE DEF u
<1>3. ASSUME NEW i \in Nat, i <= n - 1, NEW k \in Keys, NEW v, Gives(s, k, i, v) PROVE Gives(u, k, i, v)
  <2>1. i <= Len(s) /\ i <= Len(u) /\ \A j \in 1 .. i : s[j] = u[j]
    BY <1>1, <1>3
  <2> QED BY <1>1, <1>3, <2>1, GivesBelow
<1>4. ASSUME NEW k \in Keys PROVE Gives(u, k, n - 1, IdOf(r.at[k]))
  <2>1. m.at \in [Keys -> Transactions \cup {None}]
    BY DEF Maps
  <2>2. CASE f.key # k \/ f.does = "join"
    <3>1. r.at[k] = m.at[k]
      BY <1>2, <2>1, <2>2
    <3>2. Gives(s, k, n, IdOf(m.at[k]))
      BY DEF Nested
    <3>3. Gives(s, k, n - 1, IdOf(m.at[k]))
      BY <1>1, <2>2, <3>2, GivesTop
    <3> QED BY <1>1, <1>3, <3>1, <3>3
  <2>3. CASE f.key = k /\ f.does # "join"
    <3>1. r.at[k] = f.outer
      BY <1>2, <2>1, <2>3
    <3>2. Gives(s, k, n - 1, IdOf(f.outer))
      BY <1>1, <2>3 DEF Nested
    <3> QED BY <1>1, <1>3, <3>1, <3>2
  <2> QED BY <2>2, <2>3
<1>5. ASSUME NEW i \in DOMAIN u PROVE Gives(u, u[i].key, i - 1, IdOf(u[i].outer))
  <2>1. i \in DOMAIN s /\ u[i] = s[i] /\ i - 1 \in Nat /\ i - 1 <= n - 1
    BY <1>1
  <2>2. s[i] \in FrameRecords
    BY <2>1
  <2>3. s[i].key \in Keys
    BY <2>2 DEF FrameRecords
  <2> QED BY <1>3, <2>1, <2>3 DEF Nested
<1> QED BY <1>1, <1>4, <1>5 DEF Nested, u

LEMMA ResolveFacts ==
  ASSUME NEW r \in Registries, NEW o \in OptionRecords
  PROVE  resolveAdapterIdentifiers(r, o) \in Keys \cup {None}
<1>1. /\ o.dataSource \in Names \cup {None} /\ o.adapter \in Types \cup {None}
      /\ o.adapterInstance \in Names \cup {None} /\ r.default \in Keys \cup {None}
  BY DEF OptionRecords, Registries
<1>2. getByDataSource(r, o.dataSource) \in Keys \cup {None}
  <2> DEFINE M == Matches(r, o.dataSource)
  <2>1. M \subseteq Keys
    BY DEF Matches, getAll
  <2>2. CASE Cardinality(M) = 1
    <3>1. M # {}
      BY <2>2, FS_EmptySet
    <3>2. (CHOOSE k \in M : TRUE) \in M
      BY <3>1
    <3> QED BY <2>1, <2>2, <3>2 DEF getByDataSource
  <2>3. CASE Cardinality(M) # 1
    BY <2>3 DEF getByDataSource
  <2> QED BY <2>2, <2>3
<1>3. "default" \in Names
  BY ImportsAssumption
<1>4. CASE o.dataSource # None
  BY <1>2, <1>4 DEF resolveAdapterIdentifiers
<1>5. CASE o.dataSource = None /\ o.adapter = None /\ r.default = None
  BY <1>5 DEF resolveAdapterIdentifiers
<1>6. CASE o.dataSource = None /\ ~(o.adapter = None /\ r.default = None)
  <2>1. resolveAdapterIdentifiers(r, o) =
          <<IF o.adapter # None THEN o.adapter ELSE r.default[1],
            IF o.adapterInstance # None THEN o.adapterInstance
            ELSE IF r.default # None THEN r.default[2] ELSE "default">>
    BY <1>6 DEF resolveAdapterIdentifiers
  <2>2. r.default # None => r.default[1] \in Types /\ r.default[2] \in Names
    BY <1>1 DEF Keys
  <2> QED BY <1>1, <1>3, <1>6, <2>1, <2>2 DEF Keys
<1> QED BY <1>4, <1>5, <1>6

\* What run does, and that a call which suspends had something to suspend.
LEMMA EffectFacts ==
  ASSUME NEW mode \in Modes, NEW k \in Keys, Effect(mode, k) # "refuse"
  PROVE  /\ Effect(mode, k) \in {"join", "suspend", "open"}
         /\ Effect(mode, k) = "suspend" => context.at[k] # None
<1>1. mode \in {"REQUIRED", "REQUIRES_NEW", "NESTED", "SUPPORTS", "NOT_SUPPORTED", "MANDATORY", "NEVER"}
  BY DEF Modes
<1>2. CASE mode \in {"REQUIRED", "NESTED"}
  BY <1>2 DEF Effect
<1>3. CASE mode \in {"REQUIRES_NEW", "SUPPORTS"}
  BY <1>3 DEF Effect
<1>4. CASE mode = "NOT_SUPPORTED"
  BY <1>4 DEF Effect, getActiveTransaction
<1>5. CASE mode \in {"MANDATORY", "NEVER"}
  BY <1>5 DEF Effect
<1> QED BY <1>1, <1>2, <1>3, <1>4, <1>5

\* A transaction begins on none or on one of those in the Map.
LEMMA BeginsFacts ==
  ASSUME NEW m \in Maps, Ordered(m), NEW k \in Keys, NEW db
  PROVE  /\ BeginsOn(stamp, m, k, db) \in 1 .. MaxDepth \cup {None}
         /\ BeginsOn(stamp, m, k, db) # None =>
              /\ k[1] = "typeorm" /\ stamp[db] # None
              /\ \E j \in Present(m) : j[2] = stamp[db] /\ m.at[j].key[1] = "typeorm"
<1>1. DataSourceManager(stamp, m, db) # None =>
        /\ stamp[db] # None
        /\ \E j \in Present(m) : /\ j[2] = stamp[db] /\ m.at[j].key[1] = "typeorm"
                                 /\ DataSourceManager(stamp, m, db) = m.at[j]
  BY FirstNamedFacts DEF DataSourceManager, getActiveEntityManager
<1>2. \A j \in Present(m) : m.at[j] \in Transactions /\ m.at[j].id \in 1 .. MaxDepth
  BY DEF Present, Maps, Transactions
<1> QED BY <1>1, <1>2 DEF BeginsOn, IdOf

\* manager.run of application a on behalf of the request.
LEMMA Runs ==
  ASSUME Shapes, RegistryInv, StackInv, NEW a \in Apps, NEW o \in OptionRecords, o.mode \in Modes, Run(a, o),
         request' # None, a = request'.app \/ ~BusReachesPublisher(a), request = None \/ request' = request
  PROVE  StackInv'
<1>1. PICK k \in Keys : k = resolveAdapterIdentifiers(registry[a], o)
  BY ResolveFacts DEF Run, Shapes
<1>2. PICK does \in {"join", "suspend", "open"} :
        does = Effect(o.mode, k) /\ (does = "suspend" => context.at[k] # None)
  BY <1>1, EffectFacts DEF Run
<1>3. PICK sus : sus = Suspended(k)
  OBVIOUS
<1>4. /\ context \in Maps /\ Ordered(context) /\ context.at \in [Keys -> Transactions \cup {None}]
      /\ sus \in Maps /\ Ordered(sus) /\ sus.at = [context.at EXCEPT ![k] = None] /\ k \notin Present(sus)
  BY <1>3, RemoveFacts DEF StackInv, Suspended, Maps
<1>5. PICK base \in 1 .. MaxDepth \cup {None} : base = BeginsOn(stamp, sus, k, get(registry[a], k))
  BY <1>4, BeginsFacts
<1>6. Len(stack) \in Nat /\ Len(stack) < MaxDepth /\ MaxDepth \in Nat /\ stack \in Seq(FrameRecords)
  BY BoundsAssumption DEF Run, StackInv
<1>7. PICK new : new = [id |-> Len(stack) + 1, key |-> k, base |-> base]
  OBVIOUS
<1>8. PICK f : f = [key |-> k, does |-> does, outer |-> context.at[k], base |-> IF does = "open" THEN base ELSE None]
  OBVIOUS
<1>9. new \in Transactions /\ new.id = Len(stack) + 1 /\ new.key = k
  <2>1. Len(stack) + 1 \in 1 .. MaxDepth
    BY <1>6
  <2> QED BY <1>7, <2>1 DEF Transactions
<1>10. f \in FrameRecords /\ f.key = k /\ f.does = does /\ f.outer = context.at[k]
  <2>1. context.at[k] \in Transactions \cup {None}
    BY <1>4
  <2>2. (IF does = "open" THEN base ELSE None) \in 1 .. MaxDepth \cup {None}
    OBVIOUS
  <2> QED BY <1>8, <2>1, <2>2 DEF FrameRecords
<1>11. stack' = Append(stack, f)
  BY <1>1, <1>2, <1>3, <1>5, <1>8 DEF Run
<1>12. /\ does = "open" => get(registry[a], k) # None /\ context' = setActiveTransaction(sus, k, new)
       /\ does = "suspend" => context' = sus
       /\ does = "join" => context' = context
  BY <1>1, <1>2, <1>3, <1>5, <1>7 DEF Run
<1>13. /\ context' \in Maps /\ Ordered(context')
       /\ context'.at = CASE does = "join" -> context.at
                          [] does = "suspend" -> [context.at EXCEPT ![k] = None]
                          [] does = "open" -> [context.at EXCEPT ![k] = new]
  BY <1>4, <1>12, <1>9, SetFacts
<1>14. Nested(stack', context')
  <2>1. Nested(stack, context)
    BY DEF StackInv
  <2>2. PICK r \in Maps : r = context'
    BY <1>13
  <2>3. \A j \in Keys : r.at[j] = IF j # f.key \/ f.does = "join" THEN context.at[j]
                                  ELSE IF f.does = "suspend" THEN None ELSE new
    BY <1>4, <1>10, <1>13, <2>2
  <2>4. f.outer = context.at[f.key]
    BY <1>10
  <2>5. Nested(Append(stack, f), r)
    BY <1>4, <1>6, <1>9, <1>10, <2>1, <2>3, <2>4, Pushes
  <2> QED BY <1>11, <2>2, <2>5
<1>15. \A j \in Keys : Served(j) => Served(j)'
  BY DEF Served
<1>16. does = "open" => Served(k)'
  <2>1. does = "open" => \E i \in Registers(a) : Imports[a][i].key = k
    BY <1>12 DEF RegistryInv, RegistryAt
  <2> QED BY <2>1 DEF Served
<1>17. ASSUME NEW j \in Keys PROVE Belongs(context.at[j], j)'
  <2>1. Belongs(context.at[j], j)
    BY DEF StackInv
  <2>2. \/ context'.at[j] \in {context.at[j], None}
        \/ does = "open" /\ j = k /\ context'.at[j] = new
    BY <1>4, <1>13
  <2> QED BY <1>9, <1>15, <1>16, <2>1, <2>2 DEF Belongs
<1>18. ASSUME NEW n \in DOMAIN stack'
       PROVE  Belongs(stack[n].outer, stack[n].key)' /\ (stack'[n].does = "suspend" => stack'[n].outer # None)
  <2>1. \/ n \in DOMAIN stack /\ stack'[n] = stack[n]
        \/ stack'[n] = f
    BY <1>6, <1>11
  <2>2. CASE stack'[n] = f
    BY <1>2, <1>10, <1>15, <2>2 DEF StackInv, Belongs
  <2>3. CASE n \in DOMAIN stack /\ stack'[n] = stack[n]
    <3>1. stack[n].key \in Keys
      <4>1. stack[n] \in FrameRecords
        BY <1>6, <2>3
      <4> QED BY <4>1 DEF FrameRecords
    <3> QED BY <1>15, <2>3, <3>1 DEF StackInv, Belongs
  <2> QED BY <2>1, <2>2, <2>3
<1>19. stack' \in Seq(FrameRecords) /\ Len(stack') <= MaxDepth
  BY <1>6, <1>10, <1>11
<1> QED BY <1>13, <1>14, <1>17, <1>18, <1>19 DEF StackInv

\* The innermost call ends.
LEMMA Returns == Shapes /\ StackInv /\ Return => StackInv'
<1> SUFFICES ASSUME Shapes, StackInv, Return PROVE StackInv'
  OBVIOUS
<1>1. /\ context \in Maps /\ Ordered(context) /\ context.at \in [Keys -> Transactions \cup {None}]
      /\ stack \in Seq(FrameRecords) /\ stack # <<>> /\ Len(stack) \in Nat /\ Len(stack) <= MaxDepth
      /\ request' = request /\ stack' = Front(stack)
  BY DEF StackInv, Maps, Return
<1>2. PICK f \in FrameRecords : f = Last(stack) /\ f = stack[Len(stack)] /\ Len(stack) \in DOMAIN stack
  BY <1>1 DEF Last
<1>3. /\ f.key \in Keys /\ f.outer \in Transactions \cup {None}
      /\ Belongs(f.outer, f.key) /\ (f.does = "suspend" => f.outer # None)
      /\ f.does \in {"join", "suspend", "open"}
  BY <1>2 DEF StackInv, FrameRecords
<1>4. PICK w : w = removeActiveTransaction(context, f.key)
  OBVIOUS
<1>5. w \in Maps /\ Ordered(w) /\ w.at = [context.at EXCEPT ![f.key] = None] /\ f.key \notin Present(w)
  BY <1>1, <1>3, <1>4, RemoveFacts
<1>6. \/ f.does = "join" /\ context' = context
      \/ f.does = "open" /\ f.outer = None /\ context' = w
      \/ f.does # "join" /\ f.outer # None /\ context' = setActiveTransaction(w, f.key, f.outer)
  BY <1>2, <1>3, <1>4 DEF Return
<1>7. f.outer # None => LET r == setActiveTransaction(w, f.key, f.outer)
                        IN  r \in Maps /\ Ordered(r) /\ r.at = [w.at EXCEPT ![f.key] = f.outer]
  BY <1>3, <1>5, SetFacts
<1>8. /\ context' \in Maps /\ Ordered(context')
      /\ \A k \in Keys : context'.at[k] = IF k # f.key \/ f.does = "join" THEN context.at[k] ELSE f.outer
  BY <1>1, <1>3, <1>5, <1>6, <1>7
<1>9. Front(stack) \in Seq(FrameRecords) /\ Nested(Front(stack), context')
  <2>1. PICK r \in Maps : r = context'
    BY <1>8
  <2>2. Nested(stack, context)
    BY DEF StackInv
  <2>3. \A k \in Keys : r.at[k] = IF k # Last(stack).key \/ Last(stack).does = "join" THEN context.at[k]
                                  ELSE Last(stack).outer
    BY <1>2, <1>8, <2>1
  <2>4. Front(stack) \in Seq(FrameRecords) /\ Nested(Front(stack), r)
    BY <1>1, <2>2, <2>3, Pops
  <2> QED BY <2>1, <2>4
<1>10. \A k \in Keys : Served(k)' <=> Served(k)
  BY <1>1 DEF Served
<1>11. ASSUME NEW k \in Keys PROVE Belongs(context.at[k], k)'
  BY <1>3, <1>8, <1>10 DEF StackInv, Belongs
<1>12. ASSUME NEW n \in DOMAIN stack'
       PROVE  Belongs(stack[n].outer, stack[n].key)' /\ (stack'[n].does = "suspend" => stack'[n].outer # None)
  <2>1. n \in DOMAIN stack /\ stack'[n] = stack[n]
    BY <1>1 DEF Front
  <2>2. stack[n] \in FrameRecords
    BY <1>1, <2>1
  <2>3. stack[n].key \in Keys
    BY <2>2 DEF FrameRecords
  <2> QED BY <1>10, <2>1, <2>3 DEF StackInv, Belongs
<1>13. Len(stack') <= MaxDepth
  BY <1>1, BoundsAssumption DEF Front
<1> QED BY <1>1, <1>8, <1>9, <1>11, <1>12, <1>13 DEF StackInv

LEMMA StackStep ==
  Shapes /\ Alone /\ RequestInv /\ ProtoInv /\ RegistryInv /\ StackInv /\ [Next]_vars => StackInv'
<1> SUFFICES ASSUME Shapes, Alone, RequestInv, ProtoInv, RegistryInv, StackInv, [Next]_vars PROVE StackInv'
  OBVIOUS
<1>1. ASSUME stack' = stack, context' = context, \A k \in Keys : context.at[k] = None \/ (Served(k) => Served(k)'),
             \A n \in DOMAIN stack : Served(stack[n].key) => Served(stack[n].key)'
      PROVE  StackInv'
  BY <1>1 DEF StackInv, Belongs
<1>2. ASSUME UNCHANGED serving PROVE StackInv'
  BY <1>1, <1>2 DEF serving, Served
<1>3. ASSUME request = None, stack' = stack, context' = context PROVE StackInv'
  <2>1. \A k \in Keys : ~Served(k)
    BY <1>3 DEF Served
  <2>2. stack = <<>>
    BY <1>3 DEF RequestInv
  <2> QED BY <1>1, <1>3, <2>1, <2>2
<1>4. ASSUME NEW a \in Apps, NEW h \in DOMAIN Handlers, Dispatch(a, h) PROVE StackInv'
  <2>1. phase[a] \in {"serving", "closing"} /\ request = None /\ request' = [app |-> a, handler |-> h, manager |-> proto[h]]
    BY <1>4 DEF Dispatch
  <2>2. request' # None /\ request'.app = a
    <3>1. request' \in Requests
      BY <2>1 DEF Requests, ProtoInv
    <3> QED BY <2>1, <3>1, NoneAssumption
  <2>3. CASE proto[h] = None
    BY <1>3, <1>4, <2>1, <2>3 DEF Dispatch
  <2>4. CASE proto[h] # None
    <3>1. PICK p \in Apps : p = proto[h]
      BY <2>4 DEF ProtoInv
    <3>2. resolveMetadata(p, h) # None /\ (p = a \/ ~BusReachesPublisher(p))
      BY <2>1, <2>4, <3>1 DEF ProtoInv, Alone, Live
    <3>3. resolveMetadata(p, h) \in OptionRecords /\ resolveMetadata(p, h).mode \in Modes
      BY <3>2, OptionFacts
    <3>4. Run(p, resolveMetadata(p, h))
      BY <1>4, <2>4, <3>1 DEF Dispatch
    <3> QED BY <2>1, <2>2, <3>2, <3>3, <3>4, Runs
  <2> QED BY <2>3, <2>4
<1>5. ASSUME NEW a \in Apps, NEW o \in Services \cup {None}, Intercept(a, o) PROVE StackInv'
  <2>1. request = None /\ request' = [app |-> a, handler |-> None, manager |-> a]
    BY <1>5 DEF Intercept
  <2>2. request' # None /\ request'.app = a
    <3>1. request' \in Requests
      BY <2>1 DEF Requests
    <3> QED BY <2>1, <3>1, NoneAssumption
  <2>3. CASE o = None
    BY <1>3, <1>5, <2>1, <2>3 DEF Intercept
  <2>4. CASE o # None
    <3>1. Transactional(o) \in OptionRecords /\ Transactional(o).mode \in Modes /\ Run(a, Transactional(o))
      BY <1>5, <2>4, OptionFacts DEF Intercept
    <3> QED BY <2>1, <2>2, <3>1, Runs
  <2> QED BY <2>3, <2>4
<1>6. ASSUME NEW o \in Services, CallService(o) PROVE StackInv'
  <2>1. request # None /\ request' = request /\ Run(request.app, Transactional(o))
    BY <1>6 DEF CallService
  <2>2. PICK a \in Apps : a = request.app
    BY <2>1 DEF RequestInv, Requests
  <2>3. Transactional(o) \in OptionRecords /\ Transactional(o).mode \in Modes
    BY OptionFacts
  <2> QED BY <2>1, <2>2, <2>3, Runs
<1>7. ASSUME EndRequest PROVE StackInv'
  <2>1. stack = <<>> /\ stack' = stack /\ context' = context
    BY <1>7 DEF EndRequest
  <2>2. ASSUME NEW k \in Keys PROVE context.at[k] = None
    <3>1. Changers(stack, k, Len(stack)) = {}
      BY <2>1 DEF Changers
    <3>2. IdOf(context.at[k]) = None
      BY <3>1 DEF StackInv, Nested, Gives
    <3>3. context.at[k] \in Transactions \cup {None}
      BY DEF StackInv, Maps
    <3> QED BY <3>2, <3>3, NoneAssumption, BoundsAssumption DEF IdOf, Transactions
  <2> QED BY <1>1, <2>1, <2>2
<1>8. ASSUME \/ \E a \in Apps : Start(a) \/ Startup(a) \/ onModuleDestroy(a) \/ Dispose(a)
             \/ resetForTesting \/ resetHandlers \/ (\E orm \in Orms : resetManaged(orm)) \/ UNCHANGED vars
      PROVE  UNCHANGED serving
  BY <1>8 DEF Start, Startup, forRoot, forRootAsync, ormForRoot, BuildRegistry, RegisterAdapter, Bootstrap,
              onModuleDestroy, Dispose, resetForTesting, resetHandlers, resetManaged, vars
<1> QED BY <1>2, <1>4, <1>5, <1>6, <1>7, <1>8, Returns DEF Next

\* manager.run begins no transaction on another: the stamp of the database is the
\* name of the key, and the entry of that key has left the Map.
LEMMA BeginsAlone ==
  ASSUME OneName, Shapes, RegistryInv, StampInv, StackInv, NEW a \in Apps, NEW k \in Keys, get(registry[a], k) # None
  PROVE  BeginsOn(stamp, Suspended(k), k, get(registry[a], k)) = None
<1> SUFFICES ASSUME BeginsOn(stamp, Suspended(k), k, get(registry[a], k)) # None PROVE FALSE
  OBVIOUS
<1>1. PICK sus : sus = Suspended(k)
  OBVIOUS
<1>2. /\ context \in Maps /\ context.at \in [Keys -> Transactions \cup {None}]
      /\ sus \in Maps /\ Ordered(sus) /\ sus.at = [context.at EXCEPT ![k] = None] /\ k \notin Present(sus)
  BY <1>1, RemoveFacts DEF StackInv, Suspended, Maps
<1>3. PICK db \in Databases : db = get(registry[a], k)
  BY DEF Shapes, Registries, get
<1>4. /\ k[1] = "typeorm" /\ stamp[db] # None
      /\ \E j \in Present(sus) : j[2] = stamp[db] /\ sus.at[j].key[1] = "typeorm"
  <2>1. BeginsOn(stamp, sus, k, db) # None
    BY <1>1, <1>3
  <2>2. sus \in Maps /\ Ordered(sus)
    BY <1>2
  <2>3. BeginsOn(stamp, sus, k, db) # None => k[1] = "typeorm"
    BY <2>2, BeginsFacts
  <2>4. BeginsOn(stamp, sus, k, db) # None => stamp[db] # None
    BY <2>2, BeginsFacts
  <2>5. BeginsOn(stamp, sus, k, db) # None =>
          \E j \in Present(sus) : j[2] = stamp[db] /\ sus.at[j].key[1] = "typeorm"
    BY <2>2, BeginsFacts
  <2> QED BY <2>1, <2>3, <2>4, <2>5
<1>5. PICK i \in Registers(a) : Imports[a][i].key = k /\ Imports[a][i].db = db
  BY <1>3 DEF RegistryInv, RegistryAt
<1>6. PICK b \in Apps : \E l \in Adapters(b) : Imports[b][l].key = <<"typeorm", stamp[db]>> /\ Imports[b][l].db = db
  BY <1>4 DEF StampInv
<1>7. k = <<"typeorm", stamp[db]>>
  <2>1. i \in Adapters(a)
    BY <1>5 DEF Registers
  <2>2. PICK l \in Adapters(b) : Imports[b][l].key = <<"typeorm", stamp[db]>> /\ Imports[b][l].db = db
    BY <1>6
  <2>3. Imports[a][i].key[1] = "typeorm" /\ Imports[b][l].key[1] = "typeorm" /\ Imports[a][i].db = Imports[b][l].db
    BY <1>4, <1>5, <2>2
  <2>4. Imports[a][i].key = Imports[b][l].key
    BY <2>1, <2>3 DEF OneName
  <2> QED BY <1>5, <2>2, <2>4
<1>8. PICK j \in Present(sus) : j[2] = stamp[db] /\ sus.at[j].key[1] = "typeorm"
  BY <1>4
<1>9. j \in Keys /\ j # k /\ sus.at[j] = context.at[j] /\ sus.at[j] # None
  BY <1>2, <1>8 DEF Present
<1>10. sus.at[j].key = j
  BY <1>9 DEF StackInv, Belongs
<1>11. j = <<"typeorm", stamp[db]>>
  BY <1>8, <1>9, <1>10 DEF Keys
<1> QED BY <1>7, <1>9, <1>11

LEMMA SettledStep == Shapes /\ DeclaringInv /\ SettledInv /\ [Next]_vars => SettledInv'
<1> SUFFICES ASSUME Shapes, DeclaringInv, SettledInv, [Next]_vars, NEW b \in Apps PROVE Settled(b)'
  BY DEF SettledInv
<1>0. Settled(b) /\ DeclaringAt(b)
  BY DEF SettledInv, DeclaringInv
<1>1. ASSUME pending'[b] = pending[b], factory'[b] = factory[b], Up(b)' => Up(b),
             phase'[b] \in {"serving", "closing"} => phase[b] \in {"serving", "closing"}
      PROVE  Settled(b)'
  BY <1>0, <1>1 DEF Settled
<1>2. ASSUME NEW a \in Apps, Startup(a), a # b PROVE Settled(b)'
  BY <1>1, <1>2, StartupFrame DEF Up
<1>3. ASSUME forRoot(b) \/ forRootAsync(b) \/ ormForRoot(b) PROVE Settled(b)'
  <2>1. phase'[b] \in {"declaring", "failed"}
    BY <1>3 DEF forRoot, forRootAsync, ormForRoot, Enters, Shapes
  <2> QED BY <2>1 DEF Settled, Up
<1>4. ASSUME BuildRegistry(b) PROVE Settled(b)'
  <2>1. phase[b] = "declaring" /\ phase'[b] \in {"resolving", "failed"} /\ factory' = factory
    BY <1>4 DEF BuildRegistry, Enters, Shapes
  <2>2. factory[b] = "static" => ReadsStatics(b)
    BY <1>0, <2>1 DEF DeclaringAt, OwnStatics
  <2> QED BY <2>1, <2>2 DEF Settled
<1>5. ASSUME NEW i \in Calls(b), RegisterAdapter(b, i) PROVE Settled(b)'
  <2>1. phase[b] = "resolving" /\ phase'[b] \in {"resolving", "failed"} /\ factory' = factory
    BY <1>5 DEF RegisterAdapter, Enters, Shapes
  <2> QED BY <1>0, <2>1 DEF Settled, Up
<1>6. ASSUME Bootstrap(b) PROVE Settled(b)'
  BY <1>0, <1>6 DEF Bootstrap, Settled, Up, startup
<1>7. ASSUME NEW a \in Apps, Start(a) \/ onModuleDestroy(a) \/ Dispose(a) PROVE Settled(b)'
  <2>1. /\ phase'[b] \in {"serving", "closing"} => phase[b] \in {"serving", "closing"}
        /\ Up(b)' => Up(b)
    BY <1>7 DEF Start, onModuleDestroy, Dispose, Enters, Shapes, Up
  <2> QED BY <1>1, <1>7, <2>1, ServingFrame DEF startup
<1>8. ASSUME \/ \E a \in Apps : \/ \E h \in DOMAIN Handlers : Dispatch(a, h)
                                \/ \E o \in Services \cup {None} : Intercept(a, o)
             \/ \E o \in Services : CallService(o)
             \/ Return \/ EndRequest \/ resetForTesting \/ resetHandlers \/ (\E orm \in Orms : resetManaged(orm)) \/ UNCHANGED vars
      PROVE  Settled(b)'
  <2>1. phase' = phase
    BY <1>8 DEF Dispatch, Intercept, CallService, Return, EndRequest, resetForTesting, resetHandlers, resetManaged, vars
  <2> QED BY <1>1, <1>8, <2>1, ServingFrame DEF startup, Up
<1> QED BY <1>2, <1>3, <1>4, <1>5, <1>6, <1>7, <1>8 DEF Next, Startup

-------------------------------------------------------------------------------
(* The invariant as a whole, and the theorems *)

LifecycleInv ==
  /\ Shapes /\ Alone /\ RequestInv /\ ProtoInv /\ StaticInv
  /\ DeclaringInv /\ RegistryInv /\ DefaultInv /\ SettledInv /\ StampInv /\ StackInv

LEMMA InitLifecycle == Init => LifecycleInv /\ MarksInv /\ IndependentTransactions
<1> SUFFICES ASSUME Init PROVE LifecycleInv /\ MarksInv /\ IndependentTransactions
  OBVIOUS
<1>1. Shapes
  <2>1. NewRegistry \in Registries
    BY DEF NewRegistry, Registries
  <2>2. \A a \in Apps : Len(Imports[a]) \in Nat
    BY ImportFacts
  <2> QED BY <2>1, <2>2 DEF Init, Shapes, Phases
<1>2. Alone /\ RequestInv /\ ProtoInv
  BY DEF Init, Alone, Live, RequestInv, ProtoInv
<1>3. StaticInv
  <2>1. registrations \in Seq(ImportRecords) /\ DOMAIN registrations = {}
    BY DEF Init
  <2> QED BY <2>1 DEF Init, StaticInv
<1>4. DeclaringInv /\ RegistryInv /\ DefaultInv /\ SettledInv /\ MarksInv
  <2>1. ASSUME NEW a \in Apps PROVE DeclaringAt(a) /\ RegistryAt(a) /\ DefaultAt(a) /\ Settled(a) /\ MarksAt(a)
    <3>1. phase[a] = "absent" /\ ~Up(a) /\ registry[a] = NewRegistry /\ called[a] = 0 /\ factory[a] = "none" /\ pending[a] = {}
      BY DEF Init, Up
    <3> QED BY <3>1, NewRegistryIsEmpty DEF DeclaringAt, RegistryAt, DefaultAt, Settled, MarksAt
  <2> QED BY <2>1 DEF DeclaringInv, RegistryInv, DefaultInv, SettledInv, MarksInv
<1>5. StampInv
  BY DEF Init, StampInv
<1>6. StackInv
  <2>1. context \in Maps /\ Present(context) = {} /\ context.older = {} /\ \A k \in Keys : context.at[k] = None
    BY DEF Init, EmptyMap, Maps, Present
  <2>2. Ordered(context)
    BY <2>1 DEF Ordered
  <2>3. stack = <<>> /\ stack \in Seq(FrameRecords) /\ Len(stack) = 0 /\ DOMAIN stack = {}
    BY DEF Init
  <2>4. Nested(stack, context)
    BY <2>1, <2>3 DEF Nested, Gives, Changers, IdOf
  <2> QED BY <2>1, <2>2, <2>3, <2>4, BoundsAssumption DEF StackInv, Belongs
<1>7. IndependentTransactions
  BY DEF Init, IndependentTransactions
<1> QED BY <1>1, <1>2, <1>3, <1>4, <1>5, <1>6, <1>7 DEF LifecycleInv

LEMMA NextLifecycle == LifecycleInv /\ [Next]_vars => LifecycleInv'
BY ShapesStep, AloneStep, RequestStep, ProtoStep, StaticStep, DeclaringStep, RegistryStep, SettledStep, StampStep,
   StackStep DEF LifecycleInv

LEMMA Lifecycle == Spec => []LifecycleInv
<1>1. Init => LifecycleInv
  BY InitLifecycle
<1> QED BY <1>1, NextLifecycle, PTL DEF Spec

\* Types; and the default of a registry is always one of its registrations.
THEOREM ApplicationTypes == Spec => []TypeOK
<1>1. LifecycleInv => TypeOK
  <2> SUFFICES ASSUME LifecycleInv PROVE TypeOK
    OBVIOUS
  <2>1. ASSUME NEW a \in Apps
        PROVE  /\ called[a] \in 0 .. Len(Imports[a]) /\ pending[a] \subseteq Calls(a) /\ registry[a] \in Registries
               /\ registry[a].default \in getAll(registry[a]) \cup {None}
    <3>1. called[a] \in Nat /\ called[a] <= Len(Imports[a]) /\ pending[a] \subseteq Calls(a) /\ registry[a] \in Registries
      BY DEF LifecycleInv, Shapes
    <3>2. registry[a].default \in Keys \cup {None}
      BY <3>1 DEF Registries
    <3>3. registry[a].default # None => get(registry[a], registry[a].default) # None
      BY DEF LifecycleInv, RegistryInv, RegistryAt
    <3> QED BY <3>1, <3>2, <3>3, ImportFacts DEF getAll
  <2> QED BY <2>1 DEF LifecycleInv, Shapes, StaticInv, ProtoInv, StackInv, TypeOK
<1> QED BY <1>1, Lifecycle, PTL

\* While an application serves, its registry holds nothing but adapters it imported,
\* each with the database it was imported with, whatever applications came before
\* it, refused or closed, reset or not, and in whatever order asynchronous factories
\* ran; and it holds all of them that are not in Unread.
THEOREM RegistriesAreOwn ==
  ASSUME OneAdapter
  PROVE  Spec => []RegistryIsOwn
<1>1. LifecycleInv => RegistryIsOwn
  <2> SUFFICES ASSUME LifecycleInv, NEW a \in Apps, phase[a] = "serving"
               PROVE  /\ \A k \in getAll(registry[a]) :
                           \E i \in Adapters(a) : Imports[a][i].key = k /\ Resolves(a, i)
                      /\ \A i \in Adapters(a) \ Unread(a) : Resolves(a, i)
    BY DEF RegistryIsOwn
  <2>1. Settled(a) /\ RegistryAt(a) /\ Up(a)
    BY DEF LifecycleInv, SettledInv, RegistryInv, Up
  <2>2. pending[a] = {} /\ factory[a] \in {"static", "fresh"} /\ (factory[a] = "static" => ReadsStatics(a))
    BY <2>1 DEF Settled, RegistryAt
  <2>3. \A i \in Adapters(a) \ Unread(a) : Imports[a][i].key \in Keys /\ get(registry[a], Imports[a][i].key) # None
    BY <2>1, <2>2, ImportFacts DEF RegistryAt, Adapters
  <2>4. ASSUME NEW k \in getAll(registry[a])
        PROVE  \E i \in Registers(a) : /\ i \in Adapters(a) /\ Imports[a][i].key = k
                                       /\ Imports[a][i].db = get(registry[a], k)
    BY <2>1 DEF RegistryAt, getAll, Registers
  <2>5. \A i \in Adapters(a) \ Unread(a) : i \in Registers(a)
    BY <2>2 DEF Registers, Unread
  <2>6. ASSUME NEW i \in Adapters(a) \ Unread(a) PROVE Resolves(a, i)
    <3>1. Imports[a][i].key \in getAll(registry[a])
      BY <2>3 DEF getAll
    <3>2. PICK j \in Registers(a) : /\ Imports[a][j].key = Imports[a][i].key
                                    /\ Imports[a][j].db = get(registry[a], Imports[a][i].key)
      BY <2>4, <3>1
    <3>3. i = j
      BY <2>5, <3>2 DEF OneAdapter
    <3> QED BY <3>2, <3>3 DEF Resolves
  <2> QED BY <2>4, <2>6 DEF Resolves
<1> QED BY <1>1, Lifecycle, PTL

\* @Transactional() without options uses the one declared default, or else the first
\* synchronous adapter, in whatever order asynchronous factories finish.
THEOREM DefaultsAreDeclared == Spec => []DefaultIsDeclared
<1>1. LifecycleInv => DefaultIsDeclared
  <2> SUFFICES ASSUME LifecycleInv, NEW a \in Apps, phase[a] = "serving"
               PROVE  LET declared == {i \in Adapters(a) : Imports[a][i].isDefault}
                          sync == {i \in Adapters(a) \ Unread(a) : Imports[a][i].via = "core"}
                      IN  /\ Cardinality(declared) = 1 => registry[a].default \in {Imports[a][i].key : i \in declared}
                          /\ declared = {} /\ sync # {} => registry[a].default = Imports[a][Min(sync)].key
    BY DEF DefaultIsDeclared
  <2> DEFINE declared == {i \in Adapters(a) : Imports[a][i].isDefault}
             sync == {i \in Adapters(a) \ Unread(a) : Imports[a][i].via = "core"}
  <2>1. pending[a] = {} /\ DefaultAt(a) /\ Up(a)
    BY DEF LifecycleInv, SettledInv, Settled, DefaultInv, Up
  <2>2. declared \subseteq 1 .. Len(Imports[a]) /\ sync \subseteq 1 .. Len(Imports[a]) /\ Len(Imports[a]) \in Nat
    BY ImportFacts DEF Adapters
  <2>3. /\ \A i \in declared : declared = {i} => registry[a].default = Imports[a][i].key
        /\ declared = {} /\ sync # {} =>
             \E i \in sync : registry[a].default = Imports[a][i].key /\ \A j \in sync : i <= j
    BY <2>1 DEF DefaultAt
  <2> HIDE DEF declared, sync
  <2>4. ASSUME Cardinality(declared) = 1 PROVE registry[a].default \in {Imports[a][i].key : i \in declared}
    <3>1. IsFiniteSet(declared)
      <4>1. IsFiniteSet(1 .. Len(Imports[a]))
        BY <2>2, FS_Interval
      <4> QED BY <2>2, <4>1, FS_Subset
    <3>2. PICK i : declared = {i}
      BY <2>4, <3>1, FS_Singleton
    <3> QED BY <2>3, <3>2
  <2>5. ASSUME declared = {}, sync # {} PROVE registry[a].default = Imports[a][Min(sync)].key
    <3>1. PICK i \in sync : registry[a].default = Imports[a][i].key /\ \A j \in sync : i <= j
      BY <2>3, <2>5
    <3>2. Min(sync) \in sync /\ Min(sync) <= i
      BY <3>1 DEF Min
    <3>3. Min(sync) = i
      BY <2>2, <3>1, <3>2
    <3> QED BY <3>1, <3>3
  <2> QED BY <2>4, <2>5 DEF declared, sync
<1> QED BY <1>1, Lifecycle, PTL

\* A handler of the application that serves runs in that application's manager, not
\* in one of an application before it, unless that one was refused at bootstrap.
THEOREM HandlersHaveOwnManager == Spec => []HandledByOwnManager
<1>1. LifecycleInv => HandledByOwnManager
  <2> SUFFICES ASSUME LifecycleInv, NEW a \in Apps, phase[a] = "serving", NEW h \in DOMAIN Handlers
               PROVE  \/ proto[h] = IF resolveMetadata(a, h) # None THEN a ELSE None
                      \/ proto[h] # None /\ phase[proto[h]] = "failed" /\ ~BusReachesPublisher(proto[h])
    BY DEF HandledByOwnManager
  <2>1. CASE proto[h] = None
    BY <2>1 DEF LifecycleInv, ProtoInv
  <2>2. CASE proto[h] # None
    BY <2>2 DEF LifecycleInv, ProtoInv, Alone, Live
  <2> QED BY <2>1, <2>2
<1> QED BY <1>1, Lifecycle, PTL

\* A call that begins a transaction begins it on a connection of its own.
LEMMA RunsAlone ==
  ASSUME OneName, LifecycleInv, IndependentTransactions, NEW a \in Apps, NEW o \in OptionRecords, Run(a, o)
  PROVE  IndependentTransactions'
<1>1. PICK k \in Keys : k = resolveAdapterIdentifiers(registry[a], o)
  BY ResolveFacts DEF Run, LifecycleInv, Shapes
<1>2. PICK does : does = Effect(o.mode, k)
  OBVIOUS
<1>3. PICK base : base = BeginsOn(stamp, Suspended(k), k, get(registry[a], k))
  OBVIOUS
<1>4. PICK f : f = [key |-> k, does |-> does, outer |-> context.at[k], base |-> IF does = "open" THEN base ELSE None]
  OBVIOUS
<1>5. stack' = Append(stack, f) /\ (does = "open" => get(registry[a], k) # None)
  BY <1>1, <1>2, <1>3, <1>4 DEF Run
<1>6. does = "open" => base = None
  BY <1>3, <1>5, BeginsAlone DEF LifecycleInv
<1>7. f.base = None
  BY <1>4, <1>6
<1>8. stack \in Seq(FrameRecords)
  BY DEF LifecycleInv, StackInv
<1>9. ASSUME NEW n \in DOMAIN stack' PROVE stack'[n] = f \/ (n \in DOMAIN stack /\ stack'[n] = stack[n])
  BY <1>5, <1>8
<1> QED BY <1>7, <1>9 DEF IndependentTransactions

LEMMA NextIndependent ==
  ASSUME OneName
  PROVE  LifecycleInv /\ IndependentTransactions /\ [Next]_vars => IndependentTransactions'
<1> SUFFICES ASSUME LifecycleInv, IndependentTransactions, [Next]_vars PROVE IndependentTransactions'
  OBVIOUS
<1>1. ASSUME stack' = stack PROVE IndependentTransactions'
  BY <1>1 DEF IndependentTransactions
<1>2. ASSUME NEW a \in Apps, NEW h \in DOMAIN Handlers, Dispatch(a, h) PROVE IndependentTransactions'
  <2>1. CASE proto[h] = None
    BY <1>1, <1>2, <2>1 DEF Dispatch
  <2>2. CASE proto[h] # None
    <3>1. proto[h] \in Apps /\ resolveMetadata(proto[h], h) # None
      BY <2>2 DEF LifecycleInv, ProtoInv
    <3>2. resolveMetadata(proto[h], h) \in OptionRecords
      BY <3>1, OptionFacts
    <3> QED BY <1>2, <2>2, <3>1, <3>2, RunsAlone DEF Dispatch
  <2> QED BY <2>1, <2>2
<1>3. ASSUME NEW a \in Apps, NEW o \in Services \cup {None}, Intercept(a, o) PROVE IndependentTransactions'
  <2>1. CASE o = None
    BY <1>1, <1>3, <2>1 DEF Intercept
  <2>2. CASE o # None
    BY <1>3, <2>2, OptionFacts, RunsAlone DEF Intercept
  <2> QED BY <2>1, <2>2
<1>4. ASSUME NEW o \in Services, CallService(o) PROVE IndependentTransactions'
  <2>1. request.app \in Apps /\ Transactional(o) \in OptionRecords /\ Run(request.app, Transactional(o))
    BY <1>4, OptionFacts DEF CallService, LifecycleInv, RequestInv, Requests
  <2> QED BY <2>1, RunsAlone
<1>5. ASSUME Return PROVE IndependentTransactions'
  <2>1. stack \in Seq(FrameRecords) /\ stack # <<>> /\ stack' = Front(stack)
    BY <1>5 DEF Return, LifecycleInv, StackInv
  <2>2. \A n \in DOMAIN stack' : n \in DOMAIN stack /\ stack'[n] = stack[n]
    BY <2>1 DEF Front
  <2> QED BY <2>2 DEF IndependentTransactions
<1>6. ASSUME EndRequest PROVE stack' = stack
  BY <1>6 DEF EndRequest
<1>7. ASSUME \/ \E a \in Apps : Start(a) \/ Startup(a) \/ onModuleDestroy(a) \/ Dispose(a)
             \/ resetForTesting \/ resetHandlers \/ (\E orm \in Orms : resetManaged(orm)) \/ UNCHANGED vars
      PROVE  stack' = stack
  BY <1>7 DEF Start, Startup, forRoot, forRootAsync, ormForRoot, BuildRegistry, RegisterAdapter, Bootstrap,
              onModuleDestroy, Dispose, resetForTesting, resetHandlers, resetManaged, vars, serving
<1> QED BY <1>1, <1>2, <1>3, <1>4, <1>5, <1>6, <1>7 DEF Next

\* A transaction begun inside another of its data source has a connection of its
\* own, also where an earlier application left its stamp on the DataSource.
THEOREM TransactionsAreIndependent ==
  ASSUME OneName
  PROVE  Spec => []IndependentTransactions
<1>1. Init => IndependentTransactions
  BY InitLifecycle
<1>2. LifecycleInv /\ IndependentTransactions /\ [Next]_vars => IndependentTransactions'
  BY NextIndependent
<1> QED BY <1>1, <1>2, Lifecycle, PTL DEF Spec

\* What the calls under way give a key is the innermost of them.
LEMMA GivesInnermost ==
  ASSUME StackInv, NEW k \in Keys
  PROVE  IdOf(context.at[k]) = Innermost(k)
<1> DEFINE own == {i \in DOMAIN stack : stack[i].key = k /\ stack[i].does # "join"}
<1>1. stack \in Seq(FrameRecords) /\ Len(stack) \in Nat /\ DOMAIN stack = 1 .. Len(stack)
  BY DEF StackInv
<1>2. Changers(stack, k, Len(stack)) = own
  BY <1>1 DEF Changers
<1>3. Gives(stack, k, Len(stack), IdOf(context.at[k]))
  BY DEF StackInv, Nested
<1>4. own \subseteq Nat
  BY <1>1
<1>5. CASE own = {}
  BY <1>2, <1>3, <1>5 DEF Gives, Innermost
<1>6. CASE own # {}
  <2> HIDE DEF own
  <2>1. PICK i \in own : /\ \A j \in own : j <= i
                         /\ IdOf(context.at[k]) = IF stack[i].does = "suspend" THEN None ELSE i
    BY <1>2, <1>3, <1>6 DEF Gives
  <2>2. Max(own) \in own /\ Max(own) >= i
    BY <1>4, <2>1 DEF Max
  <2>3. Max(own) = i
    <3>1. Max(own) \in Nat /\ i \in Nat /\ Max(own) <= i
      BY <1>4, <2>1, <2>2
    <3> QED BY <2>2, <3>1
  <2> QED BY <1>6, <2>1, <2>3 DEF Innermost, own
<1> QED BY <1>5, <1>6

\* The EntityManager that the first entry of a TypeORM data source's name gives.
LEMMA ManagerOfKey ==
  ASSUME NamesApart, RequestInv, StackInv, request # None, NEW i \in Calls(request.app),
         ByOrm(Imports[request.app][i]), Imports[request.app][i].key[1] = "typeorm"
  PROVE  getActiveEntityManager(context, Imports[request.app][i].key[2]) = context.at[Imports[request.app][i].key]
<1>1. PICK a \in Apps : a = request.app
  BY DEF RequestInv, Requests
<1>2. PICK k \in Keys : k = Imports[a][i].key /\ k = <<"typeorm", k[2]>> /\ k[2] = Imports[a][i].key[2]
  BY <1>1, ImportFacts DEF Keys
<1>3. /\ context \in Maps /\ Ordered(context) /\ Present(context) \subseteq Keys
      /\ \A j \in Present(context) : context.at[j] # None /\ context.at[j].key = j /\ Served(j)
  BY DEF StackInv, Present, Belongs
<1>4. ASSUME NEW j \in Present(context), j[2] = k[2] PROVE j = k
  <2>1. PICK b \in Apps : (b = a \/ ~BusReachesPublisher(b)) /\ \E l \in Registers(b) : Imports[b][l].key = j
    BY <1>1, <1>3 DEF Served
  <2>2. PICK l \in Registers(b) : Imports[b][l].key = j
    BY <2>1
  <2>3. j[1] = "typeorm"
    BY <1>1, <1>2, <1>4, <2>1, <2>2 DEF NamesApart
  <2> QED BY <1>2, <1>3, <1>4, <2>3 DEF Keys
<1>5. CASE FirstNamed(context, k[2]) = None /\ \A j \in Present(context) : j[2] # k[2]
  <2>1. context.at[k] = None
    BY <1>5 DEF Present
  <2>2. getActiveEntityManager(context, k[2]) = None
    BY <1>5 DEF getActiveEntityManager
  <2> QED BY <1>1, <1>2, <2>1, <2>2
<1>6. CASE \E j \in Present(context) : j[2] = k[2] /\ FirstNamed(context, k[2]) = context.at[j]
  <2>1. FirstNamed(context, k[2]) = context.at[k] /\ k \in Present(context)
    BY <1>4, <1>6
  <2>2. context.at[k] # None /\ context.at[k].key[1] = "typeorm"
    BY <1>2, <1>3, <2>1
  <2>3. getActiveEntityManager(context, k[2]) = context.at[k]
    BY <2>1, <2>2 DEF getActiveEntityManager
  <2> QED BY <1>1, <1>2, <2>3
<1> QED BY <1>3, <1>5, <1>6, FirstNamedFacts

\* Every repository, DataSource and drizzle() instance of the application leads to
\* the innermost transaction of its data source or, without one, to the database:
\* however calls nest, suspend and end, and whatever earlier applications marked.
THEOREM StatementsAreRouted ==
  ASSUME OneName, NamesApart
  PROVE  Spec => []StatementsFollowTransaction
<1>1. Init => MarksInv
  BY InitLifecycle
<1>2. LifecycleInv /\ MarksInv /\ [Next]_vars => MarksInv'
  BY MarksStep DEF LifecycleInv
<1>3. LifecycleInv /\ MarksInv => StatementsFollowTransaction
  <2> SUFFICES ASSUME LifecycleInv, MarksInv, request # None, NEW i \in Adapters(request.app),
                      ByOrm(Imports[request.app][i]),
                      NEW t \in Routes(managed, stamp, context, Imports[request.app][i].key, Imports[request.app][i].db)
               PROVE  IdOf(t) = Innermost(Imports[request.app][i].key)
    BY DEF StatementsFollowTransaction
  <2>1. PICK a \in Apps : a = request.app /\ Up(a) /\ pending[a] = {}
    BY DEF LifecycleInv, RequestInv, Requests, SettledInv, Settled, Up
  <2>2. PICK m : m = Imports[a][i]
    OBVIOUS
  <2>3. /\ m.key \in Keys /\ m.key = <<m.key[1], m.key[2]>> /\ m.key[1] \in {"typeorm", "drizzle"}
        /\ m.key[2] \in Names /\ m.key[2] # None /\ i \in Calls(a)
    BY <2>1, <2>2, ImportFacts, NoneAssumption DEF Adapters, Keys
  <2>4. managed[m.db] = m.key[2] /\ (m.key[1] = "typeorm" => stamp[m.db] = m.key[2])
    BY <2>1, <2>2, <2>3 DEF MarksInv, MarksAt
  <2>5. m.key[1] = "typeorm" => getActiveEntityManager(context, m.key[2]) = context.at[m.key]
    BY <2>1, <2>2, <2>3, ManagerOfKey DEF LifecycleInv
  <2>6. t = context.at[m.key]
    BY <2>1, <2>2, <2>3, <2>4, <2>5 DEF Routes, CurrentHandle, RepositoryManager, DataSourceManager, DrizzleTarget,
       getActiveTransaction
  <2> QED BY <2>1, <2>2, <2>3, <2>6, GivesInnermost DEF LifecycleInv
<1> QED BY <1>1, <1>2, <1>3, Lifecycle, PTL DEF Spec
===============================================================================
