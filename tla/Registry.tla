----------------------------- MODULE Registry -----------------------------
(***************************************************************************)
(* What registers itself while the program loads, in an order the linker   *)
(* chooses: object factories (ObjectRegistry.cpp) and library versions     *)
(* (LoadedVersions.cpp); and the objects the factories make for a          *)
(* container (SelfRegisteringParametricObject.cpp, .h).                    *)
(***************************************************************************)
EXTENDS Integers, Sequences, SequencesExt

CONSTANTS Factories,   \* [name, priority, singleton, type], one per static factory
          Requests,    \* of Create(): [name, id, valid, accepted], id = "" if not given
          Entries,     \* of LoadedVersions::Register(): [name, version]
          MaxCalls     \* bound on the calls of each kind

ASSUME FactoryAssumption == \A f \in Factories : f.priority \in Int
ASSUME CallsAssumption == MaxCalls \in Nat

VARIABLES
  objects,     \* name -> factory
  container,   \* the objects made, in a container or deleted, and singletons
  versions,    \* list of entries
  registered,  \* history: the factories registered, in order
  requests,    \* history: the requests that found a factory, in order
  entries      \* history: the entries given, in order

registryVars == <<objects, container, registered, requests>>
versionVars == <<versions, entries>>

NoObjects == [made |-> 0, owned |-> <<>>, deleted |-> {}, singletons |-> <<>>]

RegistryInit ==
  /\ objects = <<>> /\ registered = <<>>
  /\ container = NoObjects /\ requests = <<>>

VersionsInit == versions = <<>> /\ entries = <<>>

-----------------------------------------------------------------------------
(* ObjectRegistry.                                                         *)

With(f, x, value) == [y \in DOMAIN f \union {x} |-> IF y = x THEN value ELSE f[y]]

\* Mutation: a factory of the same priority replaces the one registered.
RegisterLater(factory) ==
  IF factory.name \notin DOMAIN objects \/ factory.priority >= objects[factory.name].priority
    THEN With(objects, factory.name, factory)
    ELSE objects

Register(factory) ==
  IF factory.name \notin DOMAIN objects \/ factory.priority > objects[factory.name].priority
    THEN With(objects, factory.name, factory)
    ELSE objects

\* The constructor of a static factory.
RegisterFactory(factory) ==
  /\ factory \notin ToSet(registered) /\ Len(registered) < MaxCalls
  /\ objects' = Register(factory)
  /\ registered' = Append(registered, factory)
  /\ UNCHANGED <<container, requests>>

-----------------------------------------------------------------------------
(* SelfRegisteringParametricObjectContainer::Create().                     *)

\* SetParameters(): an id that is not given is kept.
IdAfter(id, given) == IF given = "" THEN id ELSE given

\* A factory of singletons makes one, then sets its parameters again.  It is
\* never registered nor deleted.
SingletonSet(factory, id) ==
  LET old == IF factory \in DOMAIN container.singletons THEN container.singletons[factory] ELSE ""
  IN  [made |-> container.made, owned |-> container.owned, deleted |-> container.deleted,
       singletons |-> With(container.singletons, factory, IdAfter(old, id))]

\* Another object goes to the container, or is deleted if its constructor
\* left it invalid or the container does not accept it.
ObjectMade(kept) ==
  LET obj == container.made + 1
  IN  [made |-> obj,
       owned |-> IF kept THEN Append(container.owned, obj) ELSE container.owned,
       deleted |-> IF kept THEN container.deleted ELSE container.deleted \union {obj},
       singletons |-> container.singletons]

\* A request for a name without a factory is reported.
CreateObject(call) ==
  /\ call.name \in DOMAIN objects /\ Len(requests) < MaxCalls
  /\ LET factory == objects[call.name]
     IN  /\ container' = IF factory.singleton THEN SingletonSet(factory, call.id)
                                              ELSE ObjectMade(call.valid /\ call.accepted)
         /\ requests' = Append(requests, [factory |-> factory, id |-> call.id])
  /\ UNCHANGED <<objects, registered>>

RegistryNext ==
  \/ \E factory \in Factories : RegisterFactory(factory)
  \/ \E call \in Requests : CreateObject(call)

-----------------------------------------------------------------------------
(* LoadedVersions.                                                         *)

Entry(list, name) == SelectInSeq(list, LAMBDA e : e.name = name)
GetVersion(name) == IF Entry(versions, name) = 0 THEN "" ELSE versions[Entry(versions, name)].version

RegisterVersion(entry) ==
  /\ Len(entries) < MaxCalls
  /\ versions' = IF GetVersion(entry.name) = "" THEN Append(versions, entry) ELSE versions
  /\ entries' = Append(entries, entry)

VersionsNext == \E entry \in Entries : RegisterVersion(entry)

-----------------------------------------------------------------------------
(* Laws.                                                                   *)

\* The i-th of the factories is the first of those of its name that have the
\* highest priority.
IsBest(factories, i) ==
  \A j \in DOMAIN factories :
    factories[j].name = factories[i].name =>
      \/ factories[j].priority < factories[i].priority
      \/ factories[j].priority = factories[i].priority /\ i <= j

\* A name has the best of its factories.  So the order of registration does
\* not matter, but for two factories that have name and priority in common.
HighestPriorityWins ==
  /\ DOMAIN objects = {f.name : f \in ToSet(registered)}
  /\ \A i \in DOMAIN registered :
       IsBest(registered, i) => objects[registered[i].name] = registered[i]

\* The version of a library is the first one given; a list with one entry per
\* library needs versions that are not empty.
FirstVersionStays ==
  \A e \in ToSet(entries) :
    /\ GetVersion(e.name) = entries[Entry(entries, e.name)].version
    /\ GetVersion(e.name) # "" =>
         \A i, j \in DOMAIN versions : versions[i].name = e.name /\ versions[j].name = e.name => i = j

\* The i-th is the last of the requests for a factory that gave an id.
LastGiven(list, factory, i) ==
  /\ list[i].factory = factory /\ list[i].id # ""
  /\ \A j \in DOMAIN list : list[j].factory = factory /\ list[j].id # "" => j <= i

\* Every object made is owned or deleted, owned ones once and in order, and a
\* singleton is neither: it has the last id it was given.
ObjectsHaveOneOwner ==
  LET owned == container.owned
  IN  /\ ToSet(owned) \union container.deleted = 1 .. container.made
      /\ ToSet(owned) \intersect container.deleted = {}
      /\ \A i, j \in DOMAIN owned : i < j => owned[i] < owned[j]
      /\ \A f \in DOMAIN container.singletons :
           LET id == container.singletons[f]
           IN  /\ f.singleton
               /\ \A i \in DOMAIN requests : LastGiven(requests, f, i) => id = requests[i].id
               /\ (\A i \in DOMAIN requests : ~LastGiven(requests, f, i)) => id = ""

=============================================================================
