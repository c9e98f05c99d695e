------------------------------- MODULE Scopes -------------------------------
(***************************************************************************)
(* The plugins, configs and env of the global, cluster and server scopes:  *)
(* the API writes them, each write one transaction or statement, while a   *)
(* worker that brings a server up reads them in several statements that    *)
(* are not one transaction: the plugin set, then the config set, then the  *)
(* config files.                                                           *)
(*                                                                         *)
(* The tables: servers (row), clusters, the catalog (manifests and config  *)
(* files), overrides (the markers that say a scope defines a set of a      *)
(* kind), assignments (item, scope), and env, of which only the scopes     *)
(* that define one key are kept.                                           *)
(***************************************************************************)
EXTENDS Naturals, FiniteSets

CONSTANTS
  Names,        \* server names
  Clusters,
  Plugins, Configs,
  EnvAsked,     \* may a create request bring env (TRUE), or none (FALSE)?
  EnvNames,     \* scope names a client may send with a global env write
  None,
  MaxBirths     \* how many server rows are ever created

ASSUME ScopesAssumption ==
  /\ None \notin Clusters /\ "" \in EnvNames /\ MaxBirths \in Nat
  /\ Plugins \cap Configs = {} /\ EnvAsked \subseteq BOOLEAN
\* None is no row and no set: the code has nil and sql.NullString for it.
ASSUME NoneAssumption ==
  /\ \A set \in SUBSET (Plugins \cup Configs) : set # None
  /\ None \notin [id : Nat, cluster : Clusters \cup {None}]

VARIABLES row, clusters, catalog, overrides, assignments, env,
          births,   \* server rows created so far
          asked,    \* what each live server was created with: kind -> set, or None
          reader,   \* each worker's reading of the scopes
          seen      \* the effective sets there were since its walk began

tables == <<row, clusters, catalog, overrides, assignments, env>>
scopeVars == <<tables, births, asked, reader, seen>>

Kinds == {"plugin", "config"}
Of(kind) == IF kind = "plugin" THEN Plugins ELSE Configs

Global == <<"global", "">>
OfCluster(c) == <<"cluster", c>>
OfServer(n) == <<"server", n>>
Scopes == {Global} \cup {OfCluster(c) : c \in Clusters} \cup {OfServer(n) : n \in Names}

\* scopedPlugins and scopedConfigs: the rows of one scope.
Items(kind, scope) == {x \in Of(kind) : <<x, scope>> \in assignments}

\* The set a server runs, from the tables as they are: the most specific scope
\* that overrides, else none.
Chain(n, c) == IF c = None THEN <<OfServer(n), Global>> ELSE <<OfServer(n), OfCluster(c), Global>>

Effective(kind, n, c) ==
  LET ch == Chain(n, c)
      over == {i \in DOMAIN ch : <<kind, ch[i]>> \in overrides}
  IN IF over = {} THEN {}
     ELSE Items(kind, ch[CHOOSE i \in over : \A j \in over : i <= j])

\* got is what the finished walks returned, todo the config files still to be read.
Idle == [pc |-> "idle", id |-> 0, cluster |-> None, kind |-> "plugin", level |-> 1,
         got |-> [k \in Kinds |-> {}], todo |-> {}]
Walking == {"marker", "items"}

Init ==
  /\ row = [n \in Names |-> None]
  /\ clusters = {} /\ catalog = {} /\ overrides = {} /\ assignments = {} /\ env = {}
  /\ births = 0
  /\ asked = [n \in Names |-> None]
  /\ reader = [n \in Names |-> Idle]
  /\ seen = [n \in Names |-> {}]

\* History: the effective sets that held during the walk of n's worker.  It is
\* part of every action.
Record == seen' = [n \in Names |->
  IF reader'[n].pc \in Walking
  THEN {Effective(reader[n].kind, n, reader[n].cluster)'}
         \cup (IF reader[n].pc \in Walking THEN seen[n] ELSE {})
  ELSE IF reader'[n].pc = "walked" THEN seen[n] ELSE {}]

-----------------------------------------------------------------------------
(* Writes of the API. *)

Asked(req) == {k \in Kinds : req[k] # None}
Nothing == [k \in Kinds |-> None]

\* The assignments after the scope's rows of the kinds asked for are replaced.
Replaced(scope, req) ==
  {a \in assignments : a[2] # scope \/ \A k \in Asked(req) : a[1] \notin Of(k)}
    \cup ((UNION {req[k] : k \in Asked(req)}) \X {scope})

\* Mutant: only a set with members is marked.
setScopedTxNonEmpty(scope, req) ==
  /\ overrides' = overrides \cup ({k \in Asked(req) : req[k] # {}} \X {scope})
  /\ assignments' = Replaced(scope, req)

\* setPluginsTx and setConfigsTx: mark the scope, replace its rows of that kind.
setScopedTx(scope, req) ==
  /\ overrides' = overrides \cup (Asked(req) \X {scope})
  /\ assignments' = Replaced(scope, req)

\* A create request: of each kind None, which inherits, or a set, which overrides.
\* An unknown name violates the foreign key and undoes the whole transaction.
Requests == {[k \in Kinds |-> IF k = "plugin" THEN plugins ELSE configs] :
               plugins \in {None} \cup SUBSET (catalog \cap Plugins),
               configs \in {None} \cup SUBSET (catalog \cap Configs)}

Created(scope, req, hasEnv) ==
  /\ setScopedTx(scope, req)
  /\ env' = IF hasEnv THEN env \cup {scope} ELSE env

CreateServer(n) ==
  /\ row[n] = None /\ births < MaxBirths
  /\ births' = births + 1
  /\ \E c \in clusters \cup {None}, req \in Requests, hasEnv \in EnvAsked :
       /\ row' = [row EXCEPT ![n] = [id |-> births + 1, cluster |-> c]]
       /\ asked' = [asked EXCEPT ![n] = req]
       /\ Created(OfServer(n), req, hasEnv)
  /\ UNCHANGED <<clusters, catalog, reader>>
  /\ Record

CreateCluster(c) ==
  /\ c \notin clusters
  /\ clusters' = clusters \cup {c}
  /\ \E req \in Requests, hasEnv \in EnvAsked : Created(OfCluster(c), req, hasEnv)
  /\ UNCHANGED <<row, catalog, births, asked, reader>>
  /\ Record

\* Mutant: the marker stays.
DroppedButMarker(scope) ==
  /\ assignments' = {a \in assignments : a[2] # scope}
  /\ env' = env \ {scope}
  /\ UNCHANGED overrides

\* The scope's rows in the assignment, override and env tables are deleted.
Dropped(scope) ==
  /\ overrides' = {o \in overrides : o[2] # scope}
  /\ assignments' = {a \in assignments : a[2] # scope}
  /\ env' = env \ {scope}

DeleteServer(n) ==
  /\ row[n] # None
  /\ row' = [row EXCEPT ![n] = None]
  /\ asked' = [asked EXCEPT ![n] = None]
  /\ Dropped(OfServer(n))
  /\ UNCHANGED <<clusters, catalog, births, reader>>
  /\ Record

\* The foreign key of the servers refuses while there are members.
DeleteCluster(c) ==
  /\ c \in clusters
  /\ \A n \in Names : row[n] # None => row[n].cluster # c
  /\ clusters' = clusters \ {c}
  /\ Dropped(OfCluster(c))
  /\ UNCHANGED <<row, catalog, births, asked, reader>>
  /\ Record

\* The only assignments that are edited in place.
SetGlobal(kind, set) ==
  /\ set \subseteq catalog
  /\ setScopedTx(Global, [Nothing EXCEPT ![kind] = set])
  /\ UNCHANGED <<row, clusters, catalog, env, births, asked, reader>>
  /\ Record

SetGlobalPlugins == \E set \in SUBSET Plugins : SetGlobal("plugin", set)
SetGlobalConfigs == \E set \in SUBSET Configs : SetGlobal("config", set)

Put(x) ==
  /\ catalog' = catalog \cup {x}
  /\ UNCHANGED <<row, clusters, overrides, assignments, env, births, asked, reader>>
  /\ Record

\* The foreign key of the assignments refuses while any scope assigns it.
Discard(x) ==
  /\ \A s \in Scopes : <<x, s>> \notin assignments
  /\ catalog' = catalog \ {x}
  /\ UNCHANGED <<row, clusters, overrides, assignments, env, births, asked, reader>>
  /\ Record

UpsertManifest == \E p \in Plugins : Put(p)
DeleteManifest == \E p \in Plugins : Discard(p)
UpsertConfigFile == \E f \in Configs : Put(f)
DeleteConfigFile == \E f \in Configs : Discard(f)

\* setEnv and deleteEnv ask that the scope be global and pass the scope name on.
SetEnv(x) ==
  /\ env' = env \cup {<<"global", x>>}
  /\ UNCHANGED <<row, clusters, catalog, overrides, assignments, births, asked, reader>>
  /\ Record

DeleteEnv(x) ==
  /\ env' = env \ {<<"global", x>>}
  /\ UNCHANGED <<row, clusters, catalog, overrides, assignments, births, asked, reader>>
  /\ Record

-----------------------------------------------------------------------------
(* A worker's bringUp reads the row, then of each kind the scopes from its *)
(* own outward.                                                            *)

Read(n, r) ==
  /\ reader' = [reader EXCEPT ![n] = r]
  /\ UNCHANGED <<tables, births, asked>>
  /\ Record

Resolve(n) ==
  /\ reader[n].pc \in {"idle", "built"} /\ row[n] # None
  /\ Read(n, [Idle EXCEPT !.pc = "marker", !.id = row[n].id, !.cluster = row[n].cluster])

Here(n) == Chain(n, reader[n].cluster)[reader[n].level]
Returns(n, set) ==
  Read(n, [reader[n] EXCEPT !.pc = "walked", !.got = [@ EXCEPT ![reader[n].kind] = set]])

\* The first statement of scopedPlugins: is the scope marked?  If not, the walk
\* goes on to the next scope, and after global it returns nothing.
ReadMarker(n) ==
  /\ reader[n].pc = "marker"
  /\ IF <<reader[n].kind, Here(n)>> \in overrides
       THEN Read(n, [reader[n] EXCEPT !.pc = "items"])
     ELSE IF Here(n) = Global THEN Returns(n, {})
     ELSE Read(n, [reader[n] EXCEPT !.level = @ + 1])

\* Mutant: a marked scope with no rows is taken for one that inherits.
ReadItemsInheritsEmpty(n) ==
  /\ reader[n].pc = "items"
  /\ IF Items(reader[n].kind, Here(n)) = {} /\ Here(n) # Global
       THEN Read(n, [reader[n] EXCEPT !.pc = "marker", !.level = @ + 1])
       ELSE Returns(n, Items(reader[n].kind, Here(n)))

\* The second: its rows, which end the walk even when there are none.
ReadItems(n) ==
  /\ reader[n].pc = "items"
  /\ Returns(n, Items(reader[n].kind, Here(n)))

EffectivePlugins(n) == reader[n].kind = "plugin" /\ (ReadMarker(n) \/ ReadItems(n))
EffectiveConfigs(n) == reader[n].kind = "config" /\ (ReadMarker(n) \/ ReadItems(n))

\* bringUp goes on with the other kind, then with the files.
NextWalk(n) ==
  /\ reader[n].pc = "walked"
  /\ Read(n, IF reader[n].kind = "plugin"
             THEN [reader[n] EXCEPT !.pc = "marker", !.kind = "config", !.level = 1]
             ELSE [reader[n] EXCEPT !.pc = "files", !.todo = reader[n].got["config"]])

\* One config file after the other; one that is gone by now fails the bring-up.
GetConfigFile(n) ==
  /\ reader[n].pc = "files" /\ reader[n].todo # {}
  /\ \E f \in reader[n].todo :
       Read(n, IF f \in catalog THEN [reader[n] EXCEPT !.todo = @ \ {f}] ELSE Idle)

Build(n) ==
  /\ reader[n].pc = "files" /\ reader[n].todo = {}
  /\ Read(n, [Idle EXCEPT !.pc = "built", !.id = reader[n].id, !.got = reader[n].got])

\* The worker notices that its row is gone.
Reap(n) ==
  /\ reader[n].pc = "built" /\ row[n] = None
  /\ Read(n, Idle)

-----------------------------------------------------------------------------
Write ==
  \/ \E n \in Names : CreateServer(n) \/ DeleteServer(n)
  \/ \E c \in Clusters : CreateCluster(c) \/ DeleteCluster(c)
  \/ UpsertManifest \/ DeleteManifest \/ UpsertConfigFile \/ DeleteConfigFile
  \/ \E x \in EnvNames : SetEnv(x) \/ DeleteEnv(x)
  \/ SetGlobalPlugins \/ SetGlobalConfigs

BringUp ==
  \E n \in Names :
    \/ Resolve(n) \/ EffectivePlugins(n) \/ EffectiveConfigs(n) \/ NextWalk(n)
    \/ GetConfigFile(n) \/ Build(n) \/ Reap(n)

Next == Write \/ BringUp

ScopesSpec == Init /\ [][Next]_scopeVars

-----------------------------------------------------------------------------
(* Properties. *)

AllItems == Plugins \cup Configs
Row == [id : Nat, cluster : Clusters \cup {None}]
Reader == [pc : {"idle", "marker", "items", "walked", "files", "built"}, id : Nat,
           cluster : Clusters \cup {None}, kind : Kinds, level : Nat,
           got : [Kinds -> SUBSET AllItems], todo : SUBSET AllItems]

\* Type invariant.
ScopesTypeOK ==
  /\ row \in [Names -> Row \cup {None}]
  /\ clusters \subseteq Clusters /\ catalog \subseteq AllItems
  /\ overrides \subseteq Kinds \X Scopes
  /\ assignments \subseteq AllItems \X Scopes
  /\ births \in Nat
  /\ asked \in [Names -> [Kinds -> (SUBSET AllItems) \cup {None}] \cup {None}]
  /\ reader \in [Names -> Reader]

\* A server or cluster that does not exist has no marker, assignment or env row
\* left, so that one created later under its name starts from what its own
\* request says (deleteScopedServer, deleteScopedCluster).
NoOrphanScope ==
  LET used == env \cup {x[2] : x \in overrides \cup assignments}
  IN  /\ \A n \in Names : row[n] = None => OfServer(n) \notin used
      /\ \A c \in Clusters \ clusters : OfCluster(c) \notin used

\* A server created with an explicit set of plugins or configs, even an empty one, is
\* never built with another while its row lives, whatever is written meanwhile.
RequestIsHonoured ==
  \A n \in Names :
    reader[n].pc = "built" /\ row[n] # None /\ reader[n].id = row[n].id =>
      \A k \in Asked(asked[n]) : reader[n].got[k] = asked[n][k]

\* EffectivePlugins and EffectiveConfigs take up to six statements each; what they
\* return for a row that is still there is the set that was in effect at one moment of
\* the walk.
ReadIsASnapshot ==
  \A n \in Names :
    reader[n].pc = "walked" /\ row[n] # None /\ reader[n].id = row[n].id
      => reader[n].got[reader[n].kind] \in seen[n]

(***************************************************************************)
(* The inductive invariant behind these (proved in ScopesProofs).          *)
(***************************************************************************)

\* A row has a number of its own, a cluster that is there, and the sets it was asked for.
RowOK(n) ==
  row[n] # None =>
    /\ row[n].id \in 1 .. births /\ row[n].cluster \in clusters \cup {None}
    /\ asked[n] \in [Kinds -> (SUBSET AllItems) \cup {None}]
    /\ \A k \in Asked(asked[n]) : /\ <<k, OfServer(n)>> \in overrides
                                  /\ Items(k, OfServer(n)) = asked[n][k]

\* A walk has passed only scopes that are still unmarked, and is where it would be if it
\* had begun now.
WalkOK(n) ==
  LET ch == Chain(n, reader[n].cluster)
      kind == reader[n].kind
  IN  /\ \A i \in DOMAIN ch : i < reader[n].level => <<kind, ch[i]>> \notin overrides
      /\ reader[n].pc = "items" => <<kind, ch[reader[n].level]>> \in overrides

\* The kinds whose walk is over.
Walked(n) ==
  CASE reader[n].pc \in Walking -> IF reader[n].kind = "config" THEN {"plugin"} ELSE {}
    [] reader[n].pc = "walked" -> IF reader[n].kind = "config" THEN Kinds ELSE {"plugin"}
    [] reader[n].pc \in {"files", "built"} -> Kinds
    [] OTHER -> {}

ReaderOK(n) ==
  /\ reader[n].id <= births
  /\ reader[n].pc = "idle" => reader[n].id = 0
  /\ reader[n].pc \in Walking =>
       /\ reader[n].level \in DOMAIN Chain(n, reader[n].cluster)
       /\ Effective(reader[n].kind, n, reader[n].cluster) \in seen[n]
  /\ row[n] # None /\ reader[n].id = row[n].id =>
       /\ reader[n].pc \in Walking \cup {"walked"} => reader[n].cluster = row[n].cluster
       /\ reader[n].pc \in Walking => WalkOK(n)
       /\ reader[n].pc = "walked" => reader[n].got[reader[n].kind] \in seen[n]
       /\ \A k \in Walked(n) \cap Asked(asked[n]) : reader[n].got[k] = asked[n][k]

ScopesInv == NoOrphanScope /\ \A n \in Names : RowOK(n) /\ ReaderOK(n)

\* The global scope has one value for a key (schema.go: "scope_name is '' for
\* global"), so that LoadEnv, which reads every global row, finds one.
GlobalEnvIsUnique == Cardinality({e \in env : e[1] = "global"}) <= 1

=============================================================================
