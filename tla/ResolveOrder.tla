---------------------------- MODULE ResolveOrder -----------------------------
(***************************************************************************)
(* plugin.ResolveOrder: the install order of a server's plugins.  A        *)
(* breadth-first walk loads the manifests of the roots and of everything   *)
(* they require; Kahn's algorithm then orders them.  Go's map iteration    *)
(* order is a nondeterministic choice; a manifest may require a plugin     *)
(* twice, itself, or one the catalog does not have.                        *)
(***************************************************************************)
EXTENDS Naturals, Sequences, FiniteSets, SequencesExt

CONSTANTS
  Plugins,
  RootLists,     \* the sequences of root plugins tried
  MaxRequires,   \* bound on the length of a manifest's requires
  Missing        \* a plugin without a manifest that loads and parses

Requires == UNION {[1 .. k -> Plugins] : k \in 0 .. MaxRequires}

ASSUME RequiresAssumption ==
  /\ MaxRequires \in Nat /\ RootLists \subseteq Seq(Plugins)
  /\ Missing \notin Requires

\* The catalog is a table of the database.
ASSUME CatalogAssumption == IsFiniteSet(Plugins)

VARIABLES
  catalog,   \* plugin -> its manifest's requires, or Missing
  roots,     \* the argument
  queue,     \* the plugins the walk has still to visit
  nodes,     \* the plugins whose manifests are loaded
  inDegree,  \* plugin -> requirements that are not in the order yet
  ready,     \* the plugins that may be placed next
  order,     \* the order so far
  pc         \* "collect", "sort", or the outcome: "done", "cycle", "missing"

rvars == <<catalog, roots, queue, nodes, inDegree, ready, order, pc>>

ResolveTypeOK ==
  /\ catalog \in [Plugins -> Requires \cup {Missing}]
  /\ roots \in RootLists
  /\ queue \in Seq(Plugins)
  /\ nodes \in SUBSET Plugins
  /\ inDegree \in [Plugins -> 0 .. MaxRequires]
  /\ ready \in Seq(Plugins) /\ order \in Seq(Plugins)
  /\ pc \in {"collect", "sort", "done", "cycle", "missing"}

ResolveInit ==
  /\ catalog \in [Plugins -> Requires \cup {Missing}]
  /\ roots \in RootLists
  /\ queue = roots
  /\ nodes = {}
  /\ inDegree = [p \in Plugins |-> 0]
  /\ ready = <<>> /\ order = <<>>
  /\ pc = "collect"

-----------------------------------------------------------------------------
(* The walk. *)

\* Mutant: the queue is not advanced past a plugin that is loaded.
CollectSkipStuck ==
  /\ pc = "collect" /\ queue # <<>> /\ Head(queue) \in nodes
  /\ UNCHANGED rvars

CollectSkip ==
  /\ pc = "collect" /\ queue # <<>> /\ Head(queue) \in nodes
  /\ queue' = Tail(queue)
  /\ UNCHANGED <<catalog, roots, nodes, inDegree, ready, order, pc>>

CollectLoad ==
  /\ pc = "collect" /\ queue # <<>>
  /\ LET name == Head(queue)
     IN  /\ name \notin nodes /\ catalog[name] # Missing
         /\ nodes' = nodes \cup {name}
         /\ queue' = Tail(queue) \o catalog[name]
  /\ UNCHANGED <<catalog, roots, inDegree, ready, order, pc>>

LoadFails ==
  /\ pc = "collect" /\ queue # <<>>
  /\ Head(queue) \notin nodes /\ catalog[Head(queue)] = Missing
  /\ pc' = "missing"
  /\ UNCHANGED <<catalog, roots, queue, nodes, inDegree, ready, order>>

-----------------------------------------------------------------------------
(* The sort. *)

\* How often p requires q.
Times(p, q) == Cardinality({i \in DOMAIN catalog[p] : catalog[p][i] = q})

\* Mutant: only the roots are looked at for a plugin to begin with.
DegreesRootsOnly ==
  /\ pc = "collect" /\ queue = <<>>
  /\ inDegree' = [p \in Plugins |-> IF p \in nodes THEN Len(catalog[p]) ELSE 0]
  /\ ready' \in SetToSeqs({p \in ToSet(roots) : inDegree'[p] = 0})
  /\ pc' = "sort"
  /\ UNCHANGED <<catalog, roots, queue, nodes, order>>

\* The degrees, and the plugins that require nothing, in the map's order.
Degrees ==
  /\ pc = "collect" /\ queue = <<>>
  /\ inDegree' = [p \in Plugins |-> IF p \in nodes THEN Len(catalog[p]) ELSE 0]
  /\ ready' \in SetToSeqs({p \in nodes : inDegree'[p] = 0})
  /\ pc' = "sort"
  /\ UNCHANGED <<catalog, roots, queue, nodes, order>>

\* Mutant: a plugin is ready with the first of its requirements.
PlaceEarly ==
  /\ pc = "sort" /\ ready # <<>>
  /\ LET name == Head(ready)
         users == {p \in nodes : Times(p, name) > 0}
     IN  /\ order' = Append(order, name)
         /\ inDegree' = [p \in Plugins |->
              IF p \in users THEN inDegree[p] - Times(p, name) ELSE inDegree[p]]
         /\ \E new \in SetToSeqs(users \ (ToSet(ready) \cup ToSet(order))) :
              ready' = Tail(ready) \o new
  /\ UNCHANGED <<catalog, roots, queue, nodes, pc>>

\* The next plugin is placed; those it was the last requirement of become ready.
Place ==
  /\ pc = "sort" /\ ready # <<>>
  /\ LET name == Head(ready)
         users == {p \in nodes : Times(p, name) > 0}
     IN  /\ order' = Append(order, name)
         /\ inDegree' = [p \in Plugins |->
              IF p \in users THEN inDegree[p] - Times(p, name) ELSE inDegree[p]]
         /\ \E new \in SetToSeqs({p \in users : inDegree'[p] = 0}) :
              ready' = Tail(ready) \o new
  /\ UNCHANGED <<catalog, roots, queue, nodes, pc>>

Finish ==
  /\ pc = "sort" /\ ready = <<>>
  /\ pc' = IF Len(order) = Cardinality(nodes) THEN "done" ELSE "cycle"
  /\ UNCHANGED <<catalog, roots, queue, nodes, inDegree, ready, order>>

ResolveNext ==
  CollectSkip \/ CollectLoad \/ LoadFails \/ Degrees \/ Place \/ Finish

ResolveSpec == ResolveInit /\ [][ResolveNext]_rvars /\ WF_rvars(ResolveNext)

-----------------------------------------------------------------------------
(* The reference: what the order has to be, in terms of the catalog only. *)

Needs(p, q) == catalog[p] # Missing /\ q \in ToSet(catalog[p])

\* A set that has the roots, and all that its members need.
Closed(S) == ToSet(roots) \subseteq S /\ \A s \in S, q \in Plugins : Needs(s, q) => q \in S

\* The roots and all they need: the least closed set.
Closure == {p \in Plugins : \A S \in SUBSET Plugins : Closed(S) => p \in S}

\* Some of them need each other in a circle.
Circular == \E S \in SUBSET Closure : S # {} /\ \A p \in S : \E q \in S : Needs(p, q)

\* An order that is returned holds the closure of the roots, each plugin once, and
\* every plugin after all it requires, whatever order Go's maps are iterated in.
OrderIsInstallable ==
  pc = "done" =>
    /\ ToSet(order) = Closure /\ IsInjective(order)
    /\ \A i \in DOMAIN order : \A q \in ToSet(catalog[order[i]]) :
         \E j \in 1 .. i - 1 : order[j] = q

\* An error is returned exactly where there is no such order: a plugin of the closure has
\* no manifest, or the closure is circular.  The order of Go's maps has no say in it.
RefusedForCause ==
  /\ pc = "cycle" => Circular
  /\ pc = "missing" => \E p \in Closure : catalog[p] = Missing
  /\ pc = "done" => ~Circular /\ \A p \in Closure : catalog[p] # Missing

-----------------------------------------------------------------------------
(* The inductive invariant behind the two (ResolveProofs).                 *)

\* The walk never leaves the closure, and what it loaded is complete but for the queue.
WalkInv ==
  /\ IsFiniteSet(nodes) /\ nodes \cup ToSet(queue) \subseteq Closure
  /\ ToSet(roots) \subseteq nodes \cup ToSet(queue)
  /\ \A p \in nodes :
       catalog[p] # Missing /\ ToSet(catalog[p]) \subseteq nodes \cup ToSet(queue)
  /\ pc = "collect" => order = <<>>
  /\ pc = "missing" => queue # <<>> /\ catalog[Head(queue)] = Missing
  /\ pc \in {"sort", "done", "cycle"} => queue = <<>>

\* Where p's manifest requires a plugin that is not placed yet.
Open(p) == {i \in DOMAIN catalog[p] : catalog[p][i] \notin ToSet(order)}

\* The degrees count what is open, with repetitions; placed or ready, once, are exactly
\* the plugins of degree zero.
SortInv ==
  /\ \A p \in nodes : inDegree[p] = Cardinality(Open(p))
  /\ IsInjective(order \o ready)
  /\ \A p \in Plugins : p \in ToSet(order \o ready) <=> p \in nodes /\ inDegree[p] = 0
  /\ \A i \in DOMAIN order : \A q \in ToSet(catalog[order[i]]) :
       \E j \in 1 .. i - 1 : order[j] = q
  /\ pc # "sort" => ready = <<>> /\ (pc = "done" <=> Len(order) = Cardinality(nodes))

ResolveInv ==
  ResolveTypeOK /\ WalkInv /\ (pc \in {"sort", "done", "cycle"} => SortInv)

-----------------------------------------------------------------------------
(* Termination.                                                            *)

\* A bound on the steps that are left: each plugin still to be loaded queues at most
\* MaxRequires others and is one step itself; then each is placed once.
Remaining ==
  CASE pc = "collect" ->
         (MaxRequires + 1) * Cardinality(Closure \ nodes) + Len(queue) + Cardinality(Closure) + 2
    [] pc = "sort" -> Cardinality(nodes) - Len(order) + 1
    [] OTHER -> 0

\* Every step of the resolution brings its end nearer, circles and repetitions in the
\* manifests notwithstanding.
StepsRunOut == [][Remaining' < Remaining /\ {Remaining, Remaining'} \subseteq Nat]_rvars

\* The resolution ends, for every catalog.
Resolves == <>(pc \in {"done", "cycle", "missing"})
=============================================================================
