---------------------------- MODULE ScopesProofs ----------------------------
(***************************************************************************)
(* Proofs about Scopes, for any number of servers, clusters, plugins and   *)
(* configs and any interleaving of the API's writes with the statements of *)
(* the workers: no scope outlives its owner, a set that was asked for is   *)
(* the one that is built, and what a walk returns was in effect during it. *)
(***************************************************************************)
EXTENDS Scopes, TLAPS

-----------------------------------------------------------------------------
(* Scopes and chains.                                                      *)

\* The scopes of servers, of clusters and the global one are told apart by their names.
LEMMA ScopeNames ==
  /\ \A n : OfServer(n) # Global
  /\ \A c : OfCluster(c) # Global
  /\ \A n, c : OfServer(n) # OfCluster(c)
  /\ \A n, m : OfServer(n) = OfServer(m) => n = m
  /\ \A c, d : OfCluster(c) = OfCluster(d) => c = d
BY DEF OfServer, OfCluster, Global

\* A chain goes from the server over its cluster, if it has one, to the global scope.
LEMMA ChainFacts ==
  ASSUME NEW n, NEW c
  PROVE  /\ Chain(n, c)[1] = OfServer(n)
         /\ c = None => DOMAIN Chain(n, c) = 1 .. 2 /\ Chain(n, c)[2] = Global
         /\ c # None => /\ DOMAIN Chain(n, c) = 1 .. 3
                        /\ Chain(n, c)[2] = OfCluster(c) /\ Chain(n, c)[3] = Global
BY DEF Chain

\* Where the walk stops at a marked scope behind unmarked ones, its rows are the effective
\* set; where no scope is marked, that is empty.
LEMMA EffectiveFacts ==
  ASSUME NEW kind, NEW n, NEW c
  PROVE  /\ \A l \in DOMAIN Chain(n, c) :
              /\ <<kind, Chain(n, c)[l]>> \in overrides
              /\ \A i \in DOMAIN Chain(n, c) : i < l => <<kind, Chain(n, c)[i]>> \notin overrides
              => Effective(kind, n, c) = Items(kind, Chain(n, c)[l])
         /\ (\A i \in DOMAIN Chain(n, c) : <<kind, Chain(n, c)[i]>> \notin overrides)
              => Effective(kind, n, c) = {}
<1> DEFINE ch == Chain(n, c)
           over == {i \in DOMAIN ch : <<kind, ch[i]>> \in overrides}
<1>1. DOMAIN ch \subseteq Nat
  BY ChainFacts
<1>2. Effective(kind, n, c) =
        IF over = {} THEN {} ELSE Items(kind, ch[CHOOSE i \in over : \A j \in over : i <= j])
  BY DEF Effective
<1>3. ASSUME NEW l \in DOMAIN ch, <<kind, ch[l]>> \in overrides,
             \A i \in DOMAIN ch : i < l => <<kind, ch[i]>> \notin overrides
      PROVE  Effective(kind, n, c) = Items(kind, ch[l])
  <2>1. l \in over /\ \A j \in over : l <= j
    BY <1>1, <1>3
  <2>2. over \subseteq Nat
    BY <1>1
  <2> HIDE DEF over
  <2>3. (CHOOSE i \in over : \A j \in over : i <= j) = l
    <3>1. \A i \in over : (\A j \in over : i <= j) => i = l
      BY <2>1, <2>2
    <3>2. QED
      BY <2>1, <3>1
  <2>4. QED
    BY <1>2, <2>1, <2>3
<1>4. ASSUME \A i \in DOMAIN ch : <<kind, ch[i]>> \notin overrides
      PROVE  Effective(kind, n, c) = {}
  BY <1>2, <1>4
<1>5. QED
  BY <1>3, <1>4

\* A scope is as it was.
Same(s) ==
  \A k \in Kinds : /\ <<k, s>> \in overrides' <=> <<k, s>> \in overrides
                   /\ Items(k, s)' = Items(k, s)

\* Each kind has its own items.
LEMMA KindsApart ==
  \A j, k \in Kinds : \A x : x \in Of(j) /\ x \in Of(k) => j = k
<1>1. \A x : x \in Plugins /\ x \in Configs => FALSE
  BY ScopesAssumption
<1>2. QED
  BY <1>1 DEF Kinds, Of

\* setPluginsTx and setConfigsTx: the sets asked for are the scope's, the other scopes are
\* as they were.
LEMMA SetFacts ==
  ASSUME ScopesTypeOK, NEW scope \in Scopes, NEW req \in [Kinds -> (SUBSET AllItems) \cup {None}],
         \A k \in Asked(req) : req[k] \subseteq Of(k), setScopedTx(scope, req)
  PROVE  /\ \A s : s # scope => Same(s)
         /\ \A k \in Asked(req) : <<k, scope>> \in overrides' /\ Items(k, scope)' = req[k]
         /\ overrides \subseteq overrides'
         /\ overrides' \subseteq Kinds \X Scopes /\ assignments' \subseteq AllItems \X Scopes
<1>1. /\ overrides' = overrides \cup (Asked(req) \X {scope})
      /\ assignments' = Replaced(scope, req)
  BY DEF setScopedTx
<1>2. Asked(req) \subseteq Kinds
  BY DEF Asked
<1>3. \A x, s : <<x, s>> \in assignments' <=>
        \/ <<x, s>> \in assignments /\ (s # scope \/ \A k \in Asked(req) : x \notin Of(k))
        \/ s = scope /\ \E k \in Asked(req) : x \in req[k]
  BY <1>1 DEF Replaced
<1>4. ASSUME NEW s, s # scope PROVE Same(s)
  <2>1. \A k : <<k, s>> \in overrides' <=> <<k, s>> \in overrides
    BY <1>1, <1>4
  <2>2. \A k \in Kinds : Items(k, s)' = Items(k, s)
    BY <1>3, <1>4 DEF Items
  <2>3. QED
    BY <2>1, <2>2 DEF Same
<1>5. ASSUME NEW k \in Asked(req) PROVE <<k, scope>> \in overrides' /\ Items(k, scope)' = req[k]
  <2>1. <<k, scope>> \in overrides'
    BY <1>1
  <2>2. \A x \in Of(k) : <<x, scope>> \in assignments' <=> x \in req[k]
    BY <1>2, <1>3, KindsApart
  <2>3. req[k] \subseteq Of(k)
    OBVIOUS
  <2>4. Items(k, scope)' = req[k]
    BY <2>2, <2>3 DEF Items
  <2>5. QED
    BY <2>1, <2>4
<1>6. overrides \subseteq overrides' /\ overrides' \subseteq Kinds \X Scopes
  BY <1>1, <1>2 DEF ScopesTypeOK
<1>7. assignments' \subseteq AllItems \X Scopes
  <2>1. UNION {req[k] : k \in Asked(req)} \subseteq AllItems
    <3>1. \A k \in Asked(req) : req[k] \subseteq AllItems
      BY <1>2 DEF Of, AllItems
    <3>2. QED
      BY <3>1
  <2>2. QED
    BY <1>1, <2>1 DEF Replaced, ScopesTypeOK
<1>8. QED
  BY <1>4, <1>5, <1>6, <1>7

\* deleteScoped*: the scope has no marker or row left, the others are as they were.
LEMMA DropFacts ==
  ASSUME ScopesTypeOK, NEW scope, Dropped(scope)
  PROVE  /\ \A s : s # scope => Same(s)
         /\ overrides' \subseteq overrides /\ assignments' \subseteq assignments
         /\ env' \subseteq env
         /\ \A x : <<x, scope>> \notin overrides' /\ <<x, scope>> \notin assignments'
         /\ scope \notin env'
<1>1. /\ overrides' = {o \in overrides : o[2] # scope}
      /\ assignments' = {a \in assignments : a[2] # scope}
      /\ env' = env \ {scope}
  BY DEF Dropped
<1>2. \A x, s : /\ <<x, s>> \in overrides' <=> <<x, s>> \in overrides /\ s # scope
                /\ <<x, s>> \in assignments' <=> <<x, s>> \in assignments /\ s # scope
  BY <1>1
<1>3. ASSUME NEW s, s # scope PROVE Same(s)
  BY <1>2, <1>3 DEF Same, Items
<1>4. QED
  BY <1>1, <1>2, <1>3

-----------------------------------------------------------------------------
(* Types.                                                                  *)

\* What a create request may ask for.
LEMMA RequestFacts ==
  ASSUME ScopesTypeOK, NEW req \in Requests
  PROVE  /\ req \in [Kinds -> (SUBSET AllItems) \cup {None}]
         /\ \A k \in Asked(req) : req[k] \subseteq Of(k)
<1>1. PICK plugins \in {None} \cup SUBSET (catalog \cap Plugins),
           configs \in {None} \cup SUBSET (catalog \cap Configs) :
        req = [k \in Kinds |-> IF k = "plugin" THEN plugins ELSE configs]
  BY DEF Requests
<1>2. \A k \in Kinds : req[k] \in (SUBSET Of(k)) \cup {None}
  BY <1>1 DEF Kinds, Of
<1>3. \A k \in Kinds : Of(k) \subseteq AllItems
  BY DEF Of, AllItems
<1>4. \A k \in Kinds : req[k] \in (SUBSET AllItems) \cup {None}
  BY <1>2, <1>3
<1>5. QED
  BY <1>1, <1>2, <1>4 DEF Asked

\* The empty tables are well typed.
LEMMA InitType == Init => ScopesTypeOK
<1> SUFFICES ASSUME Init PROVE ScopesTypeOK
  OBVIOUS
<1>1. Idle \in Reader
  BY DEF Idle, Reader, Kinds
<1>2. reader \in [Names -> Reader]
  BY <1>1 DEF Init
<1>3. QED
  BY <1>2 DEF Init, ScopesTypeOK

\* A request creates its scope, with its sets.
LEMMA CreatedFacts ==
  ASSUME ScopesTypeOK, NEW scope \in Scopes, NEW req \in Requests, NEW hasEnv,
         Created(scope, req, hasEnv)
  PROVE  /\ req \in [Kinds -> (SUBSET AllItems) \cup {None}]
         /\ \A s : s # scope => Same(s)
         /\ \A k \in Asked(req) : <<k, scope>> \in overrides' /\ Items(k, scope)' = req[k]
         /\ overrides \subseteq overrides'
         /\ overrides' \subseteq Kinds \X Scopes /\ assignments' \subseteq AllItems \X Scopes
         /\ \A s : s # scope /\ s \in env' => s \in env
         /\ \A x, s : s # scope => /\ <<x, s>> \in overrides' => <<x, s>> \in overrides
                                   /\ <<x, s>> \in assignments' => <<x, s>> \in assignments
<1>1. setScopedTx(scope, req) /\ env' = IF hasEnv THEN env \cup {scope} ELSE env
  BY DEF Created
<1>2. /\ req \in [Kinds -> (SUBSET AllItems) \cup {None}]
      /\ \A k \in Asked(req) : req[k] \subseteq Of(k)
  BY RequestFacts
<1>3. \A x, s : s # scope => /\ <<x, s>> \in overrides' => <<x, s>> \in overrides
                             /\ <<x, s>> \in assignments' => <<x, s>> \in assignments
  BY <1>1 DEF setScopedTx, Replaced
<1>4. \A s : s # scope /\ s \in env' => s \in env
  BY <1>1
<1>5. QED
  BY <1>1, <1>2, <1>3, <1>4, SetFacts

\* SetGlobalPlugins and SetGlobalConfigs touch the global scope.
LEMMA SetGlobalFacts ==
  ASSUME ScopesTypeOK, NEW kind \in Kinds, NEW set \in SUBSET Of(kind), SetGlobal(kind, set)
  PROVE  /\ \A s : s # Global => Same(s)
         /\ overrides \subseteq overrides'
         /\ overrides' \subseteq Kinds \X Scopes /\ assignments' \subseteq AllItems \X Scopes
         /\ \A x, s : s # Global => /\ <<x, s>> \in overrides' => <<x, s>> \in overrides
                                    /\ <<x, s>> \in assignments' => <<x, s>> \in assignments
<1> DEFINE req == [Nothing EXCEPT ![kind] = set]
<1>1. setScopedTx(Global, req)
  BY DEF SetGlobal
<1>2. Global \in Scopes
  BY DEF Scopes
<1>3. set \in SUBSET AllItems
  BY DEF Of, AllItems
<1>4. req \in [Kinds -> (SUBSET AllItems) \cup {None}]
  BY <1>3 DEF Nothing
<1>5. \A k \in Asked(req) : req[k] \subseteq Of(k)
  BY DEF Asked, Nothing
<1> HIDE DEF req
<1>6. \A x, s : s # Global => /\ <<x, s>> \in overrides' => <<x, s>> \in overrides
                              /\ <<x, s>> \in assignments' => <<x, s>> \in assignments
  BY <1>1 DEF setScopedTx, Replaced
<1>7. QED
  BY <1>1, <1>2, <1>4, <1>5, <1>6, SetFacts

\* The writes keep the types; the reads touch no table.
LEMMA WriteType ==
  ASSUME ScopesTypeOK, Write
  PROVE  ScopesTypeOK'
<1>1. ASSUME NEW n \in Names, CreateServer(n) PROVE ScopesTypeOK'
  <2>1. PICK c \in clusters \cup {None}, req \in Requests, hasEnv \in EnvAsked :
          /\ row' = [row EXCEPT ![n] = [id |-> births + 1, cluster |-> c]]
          /\ asked' = [asked EXCEPT ![n] = req]
          /\ Created(OfServer(n), req, hasEnv)
    BY <1>1 DEF CreateServer
  <2>2. OfServer(n) \in Scopes
    BY DEF Scopes
  <2>3. /\ req \in [Kinds -> (SUBSET AllItems) \cup {None}]
        /\ overrides' \subseteq Kinds \X Scopes /\ assignments' \subseteq AllItems \X Scopes
    BY <2>1, <2>2, CreatedFacts
  <2>4. [id |-> births + 1, cluster |-> c] \in Row
    BY DEF Row, ScopesTypeOK
  <2>5. row' \in [Names -> Row \cup {None}]
    BY <2>1, <2>4 DEF ScopesTypeOK
  <2>6. asked' \in [Names -> [Kinds -> (SUBSET AllItems) \cup {None}] \cup {None}]
    BY <2>1, <2>3 DEF ScopesTypeOK
  <2>7. births' \in Nat /\ UNCHANGED <<clusters, catalog, reader>>
    BY <1>1 DEF CreateServer, ScopesTypeOK
  <2>8. QED
    BY <2>3, <2>5, <2>6, <2>7 DEF ScopesTypeOK
<1>2. ASSUME NEW c \in Clusters, CreateCluster(c) PROVE ScopesTypeOK'
  <2>1. PICK req \in Requests, hasEnv \in EnvAsked : Created(OfCluster(c), req, hasEnv)
    BY <1>2 DEF CreateCluster
  <2>2. OfCluster(c) \in Scopes
    BY DEF Scopes
  <2>3. overrides' \subseteq Kinds \X Scopes /\ assignments' \subseteq AllItems \X Scopes
    BY <2>1, <2>2, CreatedFacts
  <2>4. clusters' \subseteq Clusters /\ UNCHANGED <<row, catalog, births, asked, reader>>
    BY <1>2 DEF CreateCluster, ScopesTypeOK
  <2>5. QED
    BY <2>3, <2>4 DEF ScopesTypeOK
<1>3. ASSUME NEW n \in Names, DeleteServer(n) PROVE ScopesTypeOK'
  <2>1. overrides' \subseteq overrides /\ assignments' \subseteq assignments
    BY <1>3 DEF DeleteServer, Dropped
  <2>2. QED
    BY <1>3, <2>1 DEF DeleteServer, ScopesTypeOK
<1>4. ASSUME NEW c \in Clusters, DeleteCluster(c) PROVE ScopesTypeOK'
  <2>1. overrides' \subseteq overrides /\ assignments' \subseteq assignments
    BY <1>4 DEF DeleteCluster, Dropped
  <2>2. QED
    BY <1>4, <2>1 DEF DeleteCluster, ScopesTypeOK
<1>5. ASSUME NEW kind \in Kinds, NEW set \in SUBSET Of(kind), SetGlobal(kind, set)
      PROVE  ScopesTypeOK'
  <2>1. overrides' \subseteq Kinds \X Scopes /\ assignments' \subseteq AllItems \X Scopes
    BY <1>5, SetGlobalFacts
  <2>2. QED
    BY <1>5, <2>1 DEF SetGlobal, ScopesTypeOK
<1>6. ASSUME NEW x \in AllItems, Put(x) \/ Discard(x) PROVE ScopesTypeOK'
  BY <1>6 DEF Put, Discard, ScopesTypeOK
<1>7. ASSUME NEW x, SetEnv(x) \/ DeleteEnv(x) PROVE ScopesTypeOK'
  BY <1>7 DEF SetEnv, DeleteEnv, ScopesTypeOK
<1>8. CASE UpsertManifest \/ DeleteManifest \/ UpsertConfigFile \/ DeleteConfigFile
  BY <1>6, <1>8 DEF UpsertManifest, DeleteManifest, UpsertConfigFile, DeleteConfigFile, AllItems
<1>9. CASE SetGlobalPlugins \/ SetGlobalConfigs
  BY <1>5, <1>9 DEF SetGlobalPlugins, SetGlobalConfigs, Kinds, Of
<1>10. QED
  BY <1>1, <1>2, <1>3, <1>4, <1>7, <1>8, <1>9 DEF Write

\* A read changes one reader and no table.
LEMMA ReadType ==
  ASSUME ScopesTypeOK, NEW n \in Names, NEW r \in Reader, Read(n, r)
  PROVE  ScopesTypeOK'
BY DEF ScopesTypeOK, Read, tables

\* What the end of a walk leaves in the reader.
LEMMA ReturnsFacts ==
  ASSUME ScopesTypeOK, NEW n \in Names, NEW set \in SUBSET AllItems, Returns(n, set)
  PROVE  \E r \in Reader :
           /\ Read(n, r) /\ r.pc = "walked" /\ r.id = reader[n].id
           /\ r.cluster = reader[n].cluster /\ r.kind = reader[n].kind
           /\ r.got[reader[n].kind] = set
           /\ \A k \in Kinds \ {reader[n].kind} : r.got[k] = reader[n].got[k]
<1> DEFINE r0 == reader[n]
           g == [r0.got EXCEPT ![r0.kind] = set]
           r == [r0 EXCEPT !.pc = "walked", !.got = g]
<1>1. r0 \in Reader
  BY DEF ScopesTypeOK
<1>2. g \in [Kinds -> SUBSET AllItems]
  BY <1>1 DEF Reader
<1>3. /\ g[r0.kind] = set
      /\ \A k \in Kinds \ {r0.kind} : g[k] = r0.got[k]
  BY <1>1 DEF Reader
<1>4. Read(n, r)
  BY DEF Returns
<1> HIDE DEF g
<1>5. /\ r \in Reader /\ r.pc = "walked" /\ r.id = r0.id /\ r.cluster = r0.cluster
      /\ r.kind = r0.kind /\ r.got = g
  BY <1>1, <1>2 DEF Reader
<1> HIDE DEF r
<1>6. QED
  BY <1>3, <1>4, <1>5

\* What a scope holds is plugins or configs.
LEMMA ItemsType ==
  \A k \in Kinds : \A s : Items(k, s) \in SUBSET AllItems
BY DEF Items, Of, AllItems

\* The steps of a bring-up keep the types.
LEMMA BringUpType ==
  ASSUME ScopesTypeOK, NEW n \in Names,
         \/ Resolve(n) \/ ReadMarker(n) \/ ReadItems(n) \/ NextWalk(n)
         \/ GetConfigFile(n) \/ Build(n) \/ Reap(n)
  PROVE  ScopesTypeOK'
<1>1. reader[n] \in Reader
  BY DEF ScopesTypeOK
<1>2. Idle \in Reader
  BY DEF Idle, Reader, Kinds
<1>3. CASE Resolve(n)
  <2>1. row[n] \in Row
    BY <1>3 DEF Resolve, ScopesTypeOK
  <2>2. [Idle EXCEPT !.pc = "marker", !.id = row[n].id, !.cluster = row[n].cluster] \in Reader
    BY <1>2, <2>1 DEF Reader, Row
  <2>3. QED
    BY <1>3, <2>2, ReadType DEF Resolve
<1>4. ASSUME NEW set \in SUBSET AllItems, Returns(n, set) PROVE ScopesTypeOK'
  BY <1>4, ReturnsFacts, ReadType
<1>5. CASE ReadMarker(n)
  <2>1. [reader[n] EXCEPT !.pc = "items"] \in Reader
    BY <1>1 DEF Reader
  <2>2. [reader[n] EXCEPT !.level = @ + 1] \in Reader
    BY <1>1 DEF Reader
  <2>3. {} \in SUBSET AllItems
    OBVIOUS
  <2>4. \/ Read(n, [reader[n] EXCEPT !.pc = "items"]) \/ Returns(n, {})
        \/ Read(n, [reader[n] EXCEPT !.level = @ + 1])
    BY <1>5 DEF ReadMarker
  <2>5. QED
    BY <1>4, <2>1, <2>2, <2>3, <2>4, ReadType
<1>6. CASE ReadItems(n)
  <2>1. reader[n].kind \in Kinds
    BY <1>1 DEF Reader
  <2>2. QED
    BY <1>4, <1>6, <2>1, ItemsType DEF ReadItems
<1>7. CASE NextWalk(n)
  <2>1. [reader[n] EXCEPT !.pc = "marker", !.kind = "config", !.level = 1] \in Reader
    BY <1>1 DEF Reader, Kinds
  <2>2. [reader[n] EXCEPT !.pc = "files", !.todo = reader[n].got["config"]] \in Reader
    BY <1>1 DEF Reader, Kinds
  <2>3. QED
    BY <1>7, <2>1, <2>2, ReadType DEF NextWalk
<1>8. CASE GetConfigFile(n)
  <2>1. PICK f \in reader[n].todo :
          Read(n, IF f \in catalog THEN [reader[n] EXCEPT !.todo = @ \ {f}] ELSE Idle)
    BY <1>8 DEF GetConfigFile
  <2>2. [reader[n] EXCEPT !.todo = @ \ {f}] \in Reader
    BY <1>1 DEF Reader
  <2>3. QED
    BY <1>2, <2>1, <2>2, ReadType
<1>9. CASE Build(n)
  <2>1. [Idle EXCEPT !.pc = "built", !.id = reader[n].id, !.got = reader[n].got] \in Reader
    BY <1>1, <1>2 DEF Reader
  <2>2. QED
    BY <1>9, <2>1, ReadType DEF Build
<1>10. CASE Reap(n)
  BY <1>2, <1>10, ReadType DEF Reap
<1>11. QED
  BY <1>3, <1>5, <1>6, <1>7, <1>8, <1>9, <1>10

-----------------------------------------------------------------------------
(* What leaves a server's row and its reader in step.                      *)

\* The history keeps what was in effect during a walk.
LEMMA RecordFacts ==
  ASSUME Record, NEW n \in Names
  PROVE  /\ reader'[n].pc \in Walking =>
              /\ Effective(reader[n].kind, n, reader[n].cluster)' \in seen'[n]
              /\ reader[n].pc \in Walking => seen[n] \subseteq seen'[n]
         /\ reader'[n].pc = "walked" => seen'[n] = seen[n]
BY DEF Record, Walking

\* The step does nothing to server n or its chain, except for marking the global scope or
\* replacing its rows.
Unhurt(n) ==
  /\ row'[n] = row[n] /\ asked'[n] = asked[n] /\ reader'[n] = reader[n]
  /\ births <= births'
  /\ row[n] # None =>
       /\ row[n].cluster \in clusters' \cup {None}
       /\ Same(OfServer(n))
       /\ row[n].cluster # None => Same(OfCluster(row[n].cluster))
       /\ \A k \in Kinds : <<k, Global>> \in overrides => <<k, Global>> \in overrides'

\* A server whose scopes a write leaves alone keeps what was asked for it.
LEMMA UnhurtRow ==
  ASSUME ScopesTypeOK, ScopesTypeOK', NEW n \in Names, RowOK(n), Unhurt(n)
  PROVE  RowOK(n)'
<1> SUFFICES ASSUME row[n] # None
             PROVE  /\ row'[n].id \in 1 .. births' /\ row'[n].cluster \in clusters' \cup {None}
                    /\ asked'[n] \in [Kinds -> (SUBSET AllItems) \cup {None}]
                    /\ \A k \in Asked(asked[n]) : /\ <<k, OfServer(n)>> \in overrides'
                                                  /\ Items(k, OfServer(n))' = asked[n][k]
  BY DEF Unhurt, RowOK, Asked
<1>1. /\ row[n].id \in 1 .. births /\ births <= births' /\ births \in Nat /\ births' \in Nat
  BY DEF RowOK, Unhurt, ScopesTypeOK
<1>2. Asked(asked[n]) \subseteq Kinds
  BY DEF Asked
<1>3. QED
  BY <1>1, <1>2 DEF RowOK, Unhurt, Same

\* Its bring-up in progress stays right too: every scope it has passed is still unmarked,
\* and every set it has taken was effective at some moment since it began.
LEMMA UnhurtReader ==
  ASSUME ScopesTypeOK, ScopesTypeOK', Record, NEW n \in Names, RowOK(n), ReaderOK(n), Unhurt(n)
  PROVE  ReaderOK(n)'
<1> DEFINE r == reader[n]
           ch == Chain(n, r.cluster)
<1>1. r \in Reader /\ reader'[n] = r
  BY DEF ScopesTypeOK, Unhurt
<1>2. r.id <= births' /\ (r.pc = "idle" => r.id = 0)
  BY <1>1 DEF Unhurt, ReaderOK, ScopesTypeOK, Reader
<1>3. r.pc \in Walking =>
        /\ r.level \in DOMAIN ch
        /\ Effective(reader[n].kind, n, reader[n].cluster)' \in seen'[n]
  BY <1>1, RecordFacts DEF ReaderOK
<1>4. ASSUME row[n] # None, r.id = row[n].id, r.pc \in Walking PROVE WalkOK(n)'
  <2>1. /\ r.cluster = row[n].cluster
        /\ \A i \in DOMAIN ch : i < r.level => <<r.kind, ch[i]>> \notin overrides
        /\ r.pc = "items" => <<r.kind, ch[r.level]>> \in overrides
    BY <1>4 DEF ReaderOK, WalkOK
  <2>2. r.level \in DOMAIN ch /\ r.kind \in Kinds
    BY <1>1, <1>3, <1>4 DEF Reader
  <2>3. /\ Same(OfServer(n)) /\ (r.cluster # None => Same(OfCluster(r.cluster)))
        /\ <<r.kind, Global>> \in overrides => <<r.kind, Global>> \in overrides'
    BY <1>4, <2>1, <2>2 DEF Unhurt
  <2>4. \A i \in DOMAIN ch : i < r.level => ch[i] \in {OfServer(n), OfCluster(r.cluster)}
                                            /\ (ch[i] = OfCluster(r.cluster) => r.cluster # None)
    BY <2>2, ChainFacts, ScopeNames
  <2>5. \A i \in DOMAIN ch : i < r.level => <<r.kind, ch[i]>> \notin overrides'
    BY <2>1, <2>2, <2>3, <2>4 DEF Same
  <2>6. ch[r.level] \in {OfServer(n), OfCluster(r.cluster), Global}
          /\ (ch[r.level] = OfCluster(r.cluster) => r.cluster # None)
    BY <2>2, ChainFacts, ScopeNames
  <2>7. r.pc = "items" => <<r.kind, ch[r.level]>> \in overrides'
    BY <2>1, <2>2, <2>3, <2>6 DEF Same
  <2>8. QED
    BY <1>1, <2>5, <2>7 DEF WalkOK
<1>5. ASSUME row[n] # None, r.id = row[n].id, r.pc = "walked" PROVE r.got[r.kind] \in seen'[n]
  BY <1>1, <1>5, RecordFacts DEF ReaderOK
<1>6. ASSUME row[n] # None, r.id = row[n].id
      PROVE  \A k \in Walked(n) \cap Asked(asked[n]) : r.got[k] = asked[n][k]
  BY <1>6 DEF ReaderOK
<1>7. Walked(n)' = Walked(n) /\ Asked(asked[n])' = Asked(asked[n])
      /\ row'[n] = row[n] /\ asked'[n] = asked[n]
  BY <1>1 DEF Unhurt, Walked, Asked
<1> HIDE DEF r, ch
<1>8. row[n] # None /\ r.id = row[n].id /\ r.pc \in Walking \cup {"walked"}
        => r.cluster = row'[n].cluster
  BY <1>7 DEF ReaderOK, r
<1>9. QED
  BY <1>1, <1>2, <1>3, <1>4, <1>5, <1>6, <1>7, <1>8 DEF ReaderOK, r, ch

\* A reader whose row is gone, or is another one of the name, needs little.
LEMMA StrayReader ==
  ASSUME ScopesTypeOK, ScopesTypeOK', Record, NEW n \in Names, ReaderOK(n),
         reader'[n] = reader[n], births <= births',
         row'[n] = None \/ reader[n].id # row'[n].id
  PROVE  ReaderOK(n)'
<1>1. reader[n].id <= births' /\ (reader[n].pc = "idle" => reader[n].id = 0)
  BY DEF ReaderOK, ScopesTypeOK, Reader
<1>2. reader[n].pc \in Walking =>
        /\ reader[n].level \in DOMAIN Chain(n, reader[n].cluster)
        /\ Effective(reader[n].kind, n, reader[n].cluster)' \in seen'[n]
  BY RecordFacts DEF ReaderOK
<1>3. QED
  BY <1>1, <1>2 DEF ReaderOK

-----------------------------------------------------------------------------
(* The writes.                                                             *)

\* No table names the scope.
Unused(s) == s \notin env /\ \A x : <<x, s>> \notin overrides /\ <<x, s>> \notin assignments

\* NoOrphanScope, scope by scope: no table names a server or a cluster that is gone.
LEMMA NoOrphanIs ==
  ASSUME ScopesTypeOK
  PROVE  NoOrphanScope <=> /\ \A n \in Names : row[n] = None => Unused(OfServer(n))
                           /\ \A c \in Clusters \ clusters : Unused(OfCluster(c))
<1>1. \A s : s \in env \cup {x[2] : x \in overrides \cup assignments} <=> ~Unused(s)
  <2>1. \A z \in overrides \cup assignments : z = <<z[1], z[2]>>
    BY DEF ScopesTypeOK
  <2>2. QED
    BY <2>1 DEF Unused
<1>2. QED
  BY <1>1 DEF NoOrphanScope

\* The same of the next state.
LEMMA NoOrphanIsNext ==
  ASSUME ScopesTypeOK'
  PROVE  NoOrphanScope' <=> /\ \A n \in Names : row'[n] = None => Unused(OfServer(n))'
                            /\ \A c \in Clusters \ clusters' : Unused(OfCluster(c))'
<1>1. \A s : s \in env' \cup {x[2] : x \in overrides' \cup assignments'} <=> ~Unused(s)'
  <2>1. \A z \in overrides' \cup assignments' : z = <<z[1], z[2]>>
    BY DEF ScopesTypeOK
  <2>2. QED
    BY <2>1 DEF Unused
<1>2. QED
  BY <1>1 DEF NoOrphanScope

\* A server is created with an id of its own and exactly the sets that were asked for, in
\* a scope no table named before; no other server is hurt.
LEMMA CreateServerKeeps ==
  ASSUME ScopesTypeOK, ScopesTypeOK', ScopesInv, NEW n \in Names, CreateServer(n)
  PROVE  ScopesInv'
<1>1. PICK c \in clusters \cup {None}, req \in Requests, hasEnv \in EnvAsked :
        /\ row' = [row EXCEPT ![n] = [id |-> births + 1, cluster |-> c]]
        /\ asked' = [asked EXCEPT ![n] = req]
        /\ Created(OfServer(n), req, hasEnv)
  BY DEF CreateServer
<1>2. row[n] = None /\ births' = births + 1 /\ UNCHANGED <<clusters, reader>> /\ Record
  BY DEF CreateServer
<1>3. OfServer(n) \in Scopes
  BY DEF Scopes
<1>4. /\ req \in [Kinds -> (SUBSET AllItems) \cup {None}]
      /\ \A s : s # OfServer(n) => Same(s)
      /\ \A k \in Asked(req) : /\ <<k, OfServer(n)>> \in overrides'
                               /\ Items(k, OfServer(n))' = req[k]
      /\ overrides \subseteq overrides'
      /\ \A s : s # OfServer(n) /\ s \in env' => s \in env
      /\ \A x, s : s # OfServer(n) =>
           /\ <<x, s>> \in overrides' => <<x, s>> \in overrides
           /\ <<x, s>> \in assignments' => <<x, s>> \in assignments
  BY <1>1, <1>3, CreatedFacts
<1>5. /\ row'[n] = [id |-> births + 1, cluster |-> c] /\ asked'[n] = req
      /\ \A m \in Names \ {n} : row'[m] = row[m] /\ asked'[m] = asked[m]
      /\ births \in Nat
  BY <1>1 DEF ScopesTypeOK
<1>6. row'[n] # None
  <2>1. row'[n] \in Row
    BY <1>5 DEF Row, ScopesTypeOK
  <2>2. QED
    BY <2>1, NoneAssumption DEF Row
<1>7. ASSUME NEW m \in Names \ {n} PROVE RowOK(m)' /\ ReaderOK(m)'
  <2>1. RowOK(m) /\ ReaderOK(m)
    BY DEF ScopesInv
  <2>2. OfServer(m) # OfServer(n) /\ \A d : OfCluster(d) # OfServer(n)
    BY ScopeNames
  <2>3. row[m] # None => row[m].cluster \in clusters \cup {None}
    BY <2>1 DEF RowOK
  <2>4. Unhurt(m)
    BY <1>2, <1>4, <1>5, <2>2, <2>3 DEF Unhurt
  <2>5. QED
    BY <1>2, <2>1, <2>4, UnhurtRow, UnhurtReader
<1>8. RowOK(n)'
  <2>1. row'[n].id \in 1 .. births' /\ row'[n].cluster \in clusters' \cup {None}
    BY <1>2, <1>5
  <2>2. QED
    BY <1>4, <1>5, <2>1 DEF RowOK, Asked
<1>9. ReaderOK(n)'
  <2>1. ReaderOK(n) /\ reader[n] \in Reader
    BY DEF ScopesInv, ScopesTypeOK
  <2>2. reader[n].id # row'[n].id
    BY <1>5, <2>1 DEF ReaderOK, Reader
  <2>3. births <= births' /\ reader'[n] = reader[n]
    BY <1>2, <1>5
  <2>4. QED
    BY <1>2, <2>1, <2>2, <2>3, StrayReader
<1>10. NoOrphanScope'
  <2>1. ASSUME NEW s, s # OfServer(n), Unused(s) PROVE Unused(s)'
    BY <1>4, <2>1 DEF Unused
  <2>2. \A m \in Names : row'[m] = None => m # n /\ row[m] = None
    BY <1>5, <1>6
  <2>3. NoOrphanScope
    BY DEF ScopesInv
  <2>4. QED
    BY <1>2, <2>1, <2>2, <2>3, ScopeNames, NoOrphanIs, NoOrphanIsNext
<1>11. QED
  BY <1>7, <1>8, <1>9, <1>10 DEF ScopesInv

\* DeleteServer drops the rows of its scope with its row, and disturbs no other server.
LEMMA DeleteServerKeeps ==
  ASSUME ScopesTypeOK, ScopesTypeOK', ScopesInv, NEW n \in Names, DeleteServer(n)
  PROVE  ScopesInv'
<1>1. /\ \A s : s # OfServer(n) => Same(s)
      /\ overrides' \subseteq overrides /\ assignments' \subseteq assignments
      /\ env' \subseteq env
      /\ \A x : <<x, OfServer(n)>> \notin overrides' /\ <<x, OfServer(n)>> \notin assignments'
      /\ OfServer(n) \notin env'
  BY DropFacts DEF DeleteServer
<1>2. /\ row'[n] = None /\ UNCHANGED <<clusters, births, reader>> /\ Record
      /\ \A m \in Names \ {n} : row'[m] = row[m] /\ asked'[m] = asked[m]
      /\ births \in Nat
  BY DEF DeleteServer, ScopesTypeOK
<1>3. ASSUME NEW m \in Names \ {n} PROVE RowOK(m)' /\ ReaderOK(m)'
  <2>1. RowOK(m) /\ ReaderOK(m)
    BY DEF ScopesInv
  <2>2. /\ OfServer(m) # OfServer(n) /\ (\A d : OfCluster(d) # OfServer(n))
        /\ Global # OfServer(n)
    BY ScopeNames
  <2>3. row[m] # None => row[m].cluster \in clusters \cup {None}
    BY <2>1 DEF RowOK
  <2>4. \A k \in Kinds : <<k, Global>> \in overrides => <<k, Global>> \in overrides'
    BY <1>1, <2>2 DEF Same
  <2>5. Unhurt(m)
    BY <1>1, <1>2, <2>2, <2>3, <2>4 DEF Unhurt
  <2>6. QED
    BY <1>2, <2>1, <2>5, UnhurtRow, UnhurtReader
<1>4. RowOK(n)'
  BY <1>2 DEF RowOK
<1>5. ReaderOK(n)'
  <2>1. ReaderOK(n) /\ births <= births' /\ reader'[n] = reader[n]
    BY <1>2 DEF ScopesInv
  <2>2. QED
    BY <1>2, <2>1, StrayReader
<1>6. NoOrphanScope'
  <2>1. \A s : Unused(s) => Unused(s)'
    BY <1>1 DEF Unused
  <2>2. Unused(OfServer(n))'
    BY <1>1 DEF Unused
  <2>3. NoOrphanScope
    BY DEF ScopesInv
  <2>4. QED
    BY <1>2, <2>1, <2>2, <2>3, NoOrphanIs, NoOrphanIsNext
<1>7. QED
  BY <1>3, <1>4, <1>5, <1>6 DEF ScopesInv

\* A write that touches the row of no server, and only a cluster's scope that no row is a
\* member of, or the global one.
LEMMA QuietWrite ==
  ASSUME ScopesTypeOK, ScopesTypeOK', ScopesInv, Record,
         UNCHANGED <<row, asked, births, reader>>,
         \A n \in Names : row[n] # None => row[n].cluster \in clusters' \cup {None},
         \A n \in Names : Same(OfServer(n)),
         \A n \in Names : row[n] # None /\ row[n].cluster # None
           => Same(OfCluster(row[n].cluster)),
         \A k \in Kinds : <<k, Global>> \in overrides => <<k, Global>> \in overrides',
         \A n \in Names : Unused(OfServer(n)) => Unused(OfServer(n))',
         \A c \in Clusters \ clusters' : c \in clusters \/ Unused(OfCluster(c))
           => Unused(OfCluster(c))'
  PROVE  ScopesInv'
<1>1. ASSUME NEW n \in Names PROVE RowOK(n)' /\ ReaderOK(n)'
  <2>1. RowOK(n) /\ ReaderOK(n)
    BY DEF ScopesInv
  <2>2. births \in Nat
    BY DEF ScopesTypeOK
  <2>3. Unhurt(n)
    BY <2>2 DEF Unhurt
  <2>4. QED
    BY <2>1, <2>3, UnhurtRow, UnhurtReader
<1>2. NoOrphanScope'
  <2>1. NoOrphanScope
    BY DEF ScopesInv
  <2>2. QED
    BY <2>1, NoOrphanIs, NoOrphanIsNext
<1>3. QED
  BY <1>1, <1>2 DEF ScopesInv

\* A cluster is deleted with the rows of its scope, and only when it has no members.
LEMMA ClusterKeeps ==
  ASSUME ScopesTypeOK, ScopesTypeOK', ScopesInv, NEW c \in Clusters,
         CreateCluster(c) \/ DeleteCluster(c)
  PROVE  ScopesInv'
<1>1. UNCHANGED <<row, asked, births, reader>> /\ Record
  BY DEF CreateCluster, DeleteCluster
<1>2. \A n \in Names : row[n] # None => row[n].cluster \in clusters \cup {None}
  BY DEF ScopesInv, RowOK
<1>3. /\ \A n : OfServer(n) # OfCluster(c)
      /\ Global # OfCluster(c)
      /\ \A d : OfCluster(d) = OfCluster(c) => d = c
  BY ScopeNames
<1>4. \A n \in Names : row[n] # None =>
        row[n].cluster # c /\ row[n].cluster \in clusters' \cup {None}
  <2>1. CASE CreateCluster(c)
    BY <1>2, <2>1, ScopesAssumption DEF CreateCluster
  <2>2. CASE DeleteCluster(c)
    BY <1>2, <2>2 DEF DeleteCluster
  <2>3. QED
    BY <2>1, <2>2
<1>5. (\A s : s # OfCluster(c) => Same(s)) /\ (\A s : s # OfCluster(c) /\ Unused(s) => Unused(s)')
  <2>1. CASE CreateCluster(c)
    <3>1. PICK req \in Requests, hasEnv \in EnvAsked : Created(OfCluster(c), req, hasEnv)
      BY <2>1 DEF CreateCluster
    <3>2. OfCluster(c) \in Scopes
      BY DEF Scopes
    <3>3. QED
      BY <3>1, <3>2, CreatedFacts DEF Unused
  <2>2. CASE DeleteCluster(c)
    BY <2>2, DropFacts DEF DeleteCluster, Unused
  <2>3. QED
    BY <2>1, <2>2
<1>6. \A k \in Kinds : <<k, Global>> \in overrides => <<k, Global>> \in overrides'
  BY <1>3, <1>5 DEF Same
<1>7. \A d \in Clusters \ clusters' : d \in clusters \/ Unused(OfCluster(d))
        => Unused(OfCluster(d))'
  <2>1. CASE CreateCluster(c)
    BY <1>3, <1>5, <2>1 DEF CreateCluster
  <2>2. CASE DeleteCluster(c)
    <3>1. Unused(OfCluster(c))'
      BY <2>2, DropFacts DEF DeleteCluster, Unused
    <3>2. QED
      BY <1>3, <1>5, <2>2, <3>1 DEF DeleteCluster
  <2>3. QED
    BY <2>1, <2>2
<1>8. QED
  BY <1>1, <1>3, <1>4, <1>5, <1>6, <1>7, QuietWrite

\* The global set, the catalogs and the environment of the global scope.
LEMMA OtherWriteKeeps ==
  ASSUME ScopesTypeOK, ScopesTypeOK', ScopesInv,
         \/ \E kind \in Kinds : \E set \in SUBSET Of(kind) : SetGlobal(kind, set)
         \/ \E x : Put(x) \/ Discard(x) \/ SetEnv(x) \/ DeleteEnv(x)
  PROVE  ScopesInv'
<1>1. UNCHANGED <<row, clusters, asked, births, reader>> /\ Record
  BY DEF SetGlobal, Put, Discard, SetEnv, DeleteEnv
<1>2. \A n \in Names : row[n] # None => row[n].cluster \in clusters \cup {None}
  BY DEF ScopesInv, RowOK
<1>3. /\ \A s : s # Global => Same(s)
      /\ overrides \subseteq overrides'
  <2>1. ASSUME NEW kind \in Kinds, NEW set \in SUBSET Of(kind), SetGlobal(kind, set)
        PROVE  (\A s : s # Global => Same(s)) /\ overrides \subseteq overrides'
    BY <2>1, SetGlobalFacts
  <2>2. ASSUME NEW x, Put(x) \/ Discard(x) \/ SetEnv(x) \/ DeleteEnv(x)
        PROVE  (\A s : s # Global => Same(s)) /\ overrides \subseteq overrides'
    BY <2>2 DEF Put, Discard, SetEnv, DeleteEnv, Same, Items
  <2>3. QED
    BY <2>1, <2>2
<1>4. \A s : s[1] # "global" /\ Unused(s) => Unused(s)'
  <2>1. ASSUME NEW kind \in Kinds, NEW set \in SUBSET Of(kind), SetGlobal(kind, set),
               NEW s, s # Global, Unused(s)
        PROVE  Unused(s)'
    BY <2>1, SetGlobalFacts DEF SetGlobal, Unused
  <2>2. ASSUME NEW x, Put(x) \/ Discard(x) \/ SetEnv(x) \/ DeleteEnv(x),
               NEW s, s[1] # "global", Unused(s)
        PROVE  Unused(s)'
    BY <2>2 DEF Put, Discard, SetEnv, DeleteEnv, Unused
  <2>3. Global[1] = "global"
    BY DEF Global
  <2>4. QED
    BY <2>1, <2>2, <2>3
<1>5. /\ \A n : OfServer(n)[1] # "global" /\ OfServer(n) # Global
      /\ \A c : OfCluster(c)[1] # "global" /\ OfCluster(c) # Global
  BY DEF OfServer, OfCluster, Global
<1>6. QED
  BY <1>1, <1>2, <1>3, <1>4, <1>5, QuietWrite

\* Every write of the API keeps the invariant.
LEMMA WriteKeeps ==
  ASSUME ScopesTypeOK, ScopesTypeOK', ScopesInv, Write
  PROVE  ScopesInv'
<1>1. CASE UpsertManifest \/ DeleteManifest \/ UpsertConfigFile \/ DeleteConfigFile
  BY <1>1, OtherWriteKeeps
     DEF UpsertManifest, DeleteManifest, UpsertConfigFile, DeleteConfigFile
<1>2. CASE SetGlobalPlugins \/ SetGlobalConfigs
  <2>1. \E kind \in Kinds : \E set \in SUBSET Of(kind) : SetGlobal(kind, set)
    BY <1>2 DEF SetGlobalPlugins, SetGlobalConfigs, Kinds, Of
  <2>2. QED
    BY <2>1, OtherWriteKeeps
<1>3. CASE \E x \in EnvNames : SetEnv(x) \/ DeleteEnv(x)
  BY <1>3, OtherWriteKeeps
<1>4. QED
  BY <1>1, <1>2, <1>3, CreateServerKeeps, DeleteServerKeeps, ClusterKeeps DEF Write

-----------------------------------------------------------------------------
(* The reads.                                                              *)

\* What a reader must be after a read that leaves r in it.
ReadOK(n, r) ==
  /\ r.id <= births
  /\ r.pc = "idle" => r.id = 0
  /\ r.pc \in Walking => r.level \in DOMAIN Chain(n, r.cluster)
  /\ row[n] # None /\ r.id = row[n].id =>
       /\ r.pc \in Walking \cup {"walked"} => r.cluster = row[n].cluster
       /\ r.pc \in Walking =>
            \A i \in DOMAIN Chain(n, r.cluster) :
              i < r.level => <<r.kind, Chain(n, r.cluster)[i]>> \notin overrides
       /\ r.pc = "items" => <<r.kind, Chain(n, r.cluster)[r.level]>> \in overrides
       /\ r.pc = "walked" => r.got[r.kind] \in seen[n]
       /\ \A k \in Asked(asked[n]) :
            (\/ r.pc \in Walking /\ r.kind = "config" /\ k = "plugin"
             \/ r.pc = "walked" /\ (r.kind = "config" \/ k = "plugin")
             \/ r.pc \in {"files", "built"})
            => r.got[k] = asked[n][k]

\* The kinds that are walked, one by one.
LEMMA WalkedFacts ==
  ASSUME NEW n \in Names, reader[n].pc \in {"idle", "marker", "items", "walked", "files", "built"}
  PROVE  \A k \in Kinds : k \in Walked(n) <=>
           \/ reader[n].pc \in Walking /\ reader[n].kind = "config" /\ k = "plugin"
           \/ reader[n].pc = "walked" /\ (reader[n].kind = "config" \/ k = "plugin")
           \/ reader[n].pc \in {"files", "built"}
<1>1. CASE reader[n].pc \in Walking
  BY <1>1 DEF Walked, Walking
<1>2. CASE reader[n].pc = "walked"
  BY <1>2 DEF Walked, Walking
<1>3. CASE reader[n].pc \in {"files", "built"}
  BY <1>3 DEF Walked, Walking
<1>4. CASE reader[n].pc = "idle"
  BY <1>4 DEF Walked, Walking
<1>5. QED
  BY <1>1, <1>2, <1>3, <1>4 DEF Walking

\* The same of the next state.
LEMMA WalkedFactsNext ==
  ASSUME NEW n \in Names, reader'[n].pc \in {"idle", "marker", "items", "walked", "files", "built"}
  PROVE  \A k \in Kinds : k \in Walked(n)' <=>
           \/ reader'[n].pc \in Walking /\ reader'[n].kind = "config" /\ k = "plugin"
           \/ reader'[n].pc = "walked" /\ (reader'[n].kind = "config" \/ k = "plugin")
           \/ reader'[n].pc \in {"files", "built"}
<1>1. CASE reader'[n].pc \in Walking
  BY <1>1 DEF Walked, Walking
<1>2. CASE reader'[n].pc = "walked"
  BY <1>2 DEF Walked, Walking
<1>3. CASE reader'[n].pc \in {"files", "built"}
  BY <1>3 DEF Walked, Walking
<1>4. CASE reader'[n].pc = "idle"
  BY <1>4 DEF Walked, Walking
<1>5. QED
  BY <1>1, <1>2, <1>3, <1>4 DEF Walking

\* A statement of a bring-up keeps the invariant when the record it leaves is right (ReadOK):
\* the tables stand still meanwhile.
LEMMA ReadKeeps ==
  ASSUME ScopesTypeOK, ScopesTypeOK', ScopesInv, NEW n \in Names, NEW r \in Reader, Read(n, r),
         ReadOK(n, r)
  PROVE  ScopesInv'
<1>1. /\ UNCHANGED <<row, clusters, overrides, assignments, env, births, asked>> /\ Record
      /\ reader'[n] = r /\ \A m \in Names \ {n} : reader'[m] = reader[m]
      /\ births \in Nat
  BY DEF Read, tables, ScopesTypeOK
<1>2. \A s : Same(s)
  BY <1>1 DEF Same, Items
<1>3. ASSUME NEW m \in Names PROVE RowOK(m)'
  BY <1>1 DEF ScopesInv, RowOK, Asked, Items
<1>4. ASSUME NEW m \in Names \ {n} PROVE ReaderOK(m)'
  <2>1. RowOK(m) /\ ReaderOK(m)
    BY DEF ScopesInv
  <2>2. Unhurt(m)
    BY <1>1, <1>2, <2>1 DEF Unhurt, RowOK
  <2>3. QED
    BY <1>1, <2>1, <2>2, UnhurtReader
<1>5. ReaderOK(n)'
  <2>1. /\ r.pc \in Walking => Effective(reader[n].kind, n, reader[n].cluster)' \in seen'[n]
        /\ r.pc = "walked" => seen'[n] = seen[n]
    BY <1>1, RecordFacts
  <2>2. r.pc \in {"idle", "marker", "items", "walked", "files", "built"}
    BY DEF Reader
  <2>3. \A k \in Kinds : k \in Walked(n)' <=>
          \/ r.pc \in Walking /\ r.kind = "config" /\ k = "plugin"
          \/ r.pc = "walked" /\ (r.kind = "config" \/ k = "plugin")
          \/ r.pc \in {"files", "built"}
    BY <1>1, <2>2, WalkedFactsNext
  <2>4. Asked(asked[n])' = Asked(asked[n]) /\ Asked(asked[n]) \subseteq Kinds
    BY <1>1 DEF Asked
  <2>5. row[n] # None /\ r.id = row[n].id =>
          \A k \in Walked(n)' \cap Asked(asked[n])' : r.got[k] = asked[n][k]
    BY <2>3, <2>4 DEF ReadOK
  <2>6. row[n] # None /\ r.id = row[n].id /\ r.pc \in Walking => WalkOK(n)'
    BY <1>1 DEF ReadOK, WalkOK
  <2>7. QED
    BY <1>1, <2>1, <2>5, <2>6 DEF ReaderOK, ReadOK
<1>6. NoOrphanScope'
  BY <1>1 DEF ScopesInv, NoOrphanScope
<1>7. QED
  BY <1>3, <1>4, <1>5, <1>6 DEF ScopesInv

\* What the invariant says of a reader whose row lives.
LEMMA LiveReader ==
  ASSUME ScopesTypeOK, ScopesInv, NEW n \in Names
  PROVE  ReadOK(n, reader[n])
<1>1. reader[n] \in Reader /\ ReaderOK(n)
  BY DEF ScopesTypeOK, ScopesInv
<1>2. reader[n].pc \in {"idle", "marker", "items", "walked", "files", "built"}
  BY <1>1 DEF Reader
<1>3. Asked(asked[n]) \subseteq Kinds
  BY DEF Asked
<1>4. row[n] # None /\ reader[n].id = row[n].id /\ reader[n].pc \in Walking =>
        /\ \A i \in DOMAIN Chain(n, reader[n].cluster) : i < reader[n].level =>
             <<reader[n].kind, Chain(n, reader[n].cluster)[i]>> \notin overrides
        /\ reader[n].pc = "items" =>
             <<reader[n].kind, Chain(n, reader[n].cluster)[reader[n].level]>> \in overrides
  BY <1>1 DEF ReaderOK, WalkOK
<1>5. \A k \in Kinds : k \in Walked(n) <=>
        \/ reader[n].pc \in Walking /\ reader[n].kind = "config" /\ k = "plugin"
        \/ reader[n].pc = "walked" /\ (reader[n].kind = "config" \/ k = "plugin")
        \/ reader[n].pc \in {"files", "built"}
  BY <1>2, WalkedFacts
<1>6. row[n] # None /\ reader[n].id = row[n].id =>
        \A k \in Asked(asked[n]) :
          (\/ reader[n].pc \in Walking /\ reader[n].kind = "config" /\ k = "plugin"
           \/ reader[n].pc = "walked" /\ (reader[n].kind = "config" \/ k = "plugin")
           \/ reader[n].pc \in {"files", "built"})
          => reader[n].got[k] = asked[n][k]
  BY <1>1, <1>3, <1>5 DEF ReaderOK
<1>7. "items" \in Walking
  BY DEF Walking
<1>8. QED
  BY <1>1, <1>4, <1>6, <1>7 DEF ReaderOK, ReadOK

\* A walk that ends with the effective set, which is the set asked for if one was.
LEMMA ReturnsKeep ==
  ASSUME ScopesTypeOK, ScopesTypeOK', ScopesInv, NEW n \in Names, reader[n].pc \in Walking,
         NEW set \in SUBSET AllItems, Returns(n, set),
         row[n] # None /\ reader[n].id = row[n].id =>
           /\ set = Effective(reader[n].kind, n, reader[n].cluster)
           /\ reader[n].kind \in Asked(asked[n]) => set = asked[n][reader[n].kind]
  PROVE  ScopesInv'
<1>1. PICK r \in Reader :
        /\ Read(n, r) /\ r.pc = "walked" /\ r.id = reader[n].id
        /\ r.cluster = reader[n].cluster /\ r.kind = reader[n].kind
        /\ r.got[reader[n].kind] = set
        /\ \A k \in Kinds \ {reader[n].kind} : r.got[k] = reader[n].got[k]
  BY ReturnsFacts
<1>2. ReadOK(n, reader[n]) /\ ReaderOK(n) /\ reader[n].kind \in Kinds
  BY LiveReader DEF ScopesInv, ScopesTypeOK, Reader
<1>3. "walked" \notin Walking
  BY DEF Walking
<1>4. ASSUME row[n] # None, r.id = row[n].id, NEW k \in Asked(asked[n]),
             r.kind = "config" \/ k = "plugin"
      PROVE  r.got[k] = asked[n][k]
  <2>1. CASE k = r.kind
    BY <1>1, <1>4, <2>1
  <2>2. CASE k # r.kind
    <3>1. k \in Kinds /\ k = "plugin" /\ r.kind = "config"
      BY <1>1, <1>2, <1>4, <2>2 DEF Kinds, Asked
    <3>2. reader[n].got[k] = asked[n][k]
      BY <1>1, <1>2, <1>4, <3>1 DEF ReadOK
    <3>3. QED
      BY <1>1, <2>2, <3>1, <3>2
  <2>3. QED
    BY <2>1, <2>2
<1>5. row[n] # None /\ r.id = row[n].id => r.got[r.kind] \in seen[n]
  BY <1>1, <1>2 DEF ReaderOK
<1>6. ReadOK(n, r)
  BY <1>1, <1>2, <1>3, <1>4, <1>5 DEF ReadOK
<1>7. QED
  BY <1>1, <1>6, ReadKeeps

\* One statement of a walk.
LEMMA WalkKeeps ==
  ASSUME ScopesTypeOK, ScopesTypeOK', ScopesInv, NEW n \in Names,
         ReadMarker(n) \/ ReadItems(n)
  PROVE  ScopesInv'
<1> DEFINE r == reader[n]
           ch == Chain(n, r.cluster)
           live == row[n] # None /\ r.id = row[n].id
<1>1. r \in Reader /\ r.pc \in Walking /\ r.pc \in {"marker", "items"}
  BY DEF ReadMarker, ReadItems, Walking, ScopesTypeOK
<1>2. ReadOK(n, r) /\ r.level \in DOMAIN ch /\ r.kind \in Kinds /\ Here(n) = ch[r.level]
  BY <1>1, LiveReader DEF ReadOK, Reader, Here
<1>3. live => \A i \in DOMAIN ch : i < r.level => <<r.kind, ch[i]>> \notin overrides
  BY <1>1, <1>2 DEF ReadOK
<1>4. live /\ r.kind \in Asked(asked[n]) =>
        /\ <<r.kind, OfServer(n)>> \in overrides
        /\ Items(r.kind, OfServer(n)) = asked[n][r.kind]
  BY DEF ScopesInv, RowOK
<1>5. live /\ r.kind \in Asked(asked[n]) => r.level = 1 /\ ch[r.level] = OfServer(n)
  <2>1. 1 \in DOMAIN ch /\ ch[1] = OfServer(n) /\ (r.level # 1 => 1 < r.level)
    BY <1>2, ChainFacts
  <2>2. QED
    BY <1>3, <1>4, <2>1
<1> HIDE DEF r, ch, live
<1>6. CASE ReadItems(n)
  <2>1. Returns(n, Items(r.kind, ch[r.level])) /\ r.pc = "items"
    BY <1>2, <1>6 DEF ReadItems, r
  <2>2. live => <<r.kind, ch[r.level]>> \in overrides
    BY <1>2, <2>1 DEF ReadOK, live, r, ch
  <2>3. live => Items(r.kind, ch[r.level]) = Effective(r.kind, n, r.cluster)
    BY <1>2, <1>3, <2>2, EffectiveFacts DEF ch
  <2>4. Items(r.kind, ch[r.level]) \in SUBSET AllItems
    BY <1>2, ItemsType
  <2>5. QED
    BY <1>1, <1>4, <1>5, <2>1, <2>3, <2>4, ReturnsKeep DEF live, r
<1>7. CASE ReadMarker(n) /\ <<r.kind, ch[r.level]>> \in overrides
  <2> DEFINE s == [r EXCEPT !.pc = "items"]
  <2>1. Read(n, s)
    BY <1>2, <1>7 DEF ReadMarker, r
  <2>2. /\ s \in Reader /\ s.pc = "items" /\ s.id = r.id /\ s.cluster = r.cluster
        /\ s.kind = r.kind /\ s.level = r.level /\ s.got = r.got
    BY <1>1 DEF Reader
  <2> HIDE DEF s
  <2>3. "items" \in Walking
    BY DEF Walking
  <2>4. ReadOK(n, s)
    BY <1>1, <1>2, <1>3, <1>7, <2>2, <2>3 DEF ReadOK, live, r, ch
  <2>5. QED
    BY <2>1, <2>2, <2>4, ReadKeeps
<1>8. CASE ReadMarker(n) /\ <<r.kind, ch[r.level]>> \notin overrides /\ ch[r.level] = Global
  <2>1. Returns(n, {})
    BY <1>2, <1>8 DEF ReadMarker, r
  <2>2. \A i \in DOMAIN ch : i < r.level \/ i = r.level
    <3>1. \A j \in DOMAIN ch : ch[j] = Global => \A i \in DOMAIN ch : i < j \/ i = j
      BY ChainFacts, ScopeNames DEF ch
    <3>2. QED
      BY <1>2, <1>8, <3>1
  <2>3. live => \A i \in DOMAIN ch : <<r.kind, ch[i]>> \notin overrides
    BY <1>3, <1>8, <2>2
  <2>4. live => Effective(r.kind, n, r.cluster) = {}
    BY <2>3, EffectiveFacts DEF ch
  <2>5. ~(live /\ r.kind \in Asked(asked[n]))
    BY <1>5, <1>8, ScopeNames
  <2>6. {} \in SUBSET AllItems
    OBVIOUS
  <2>7. QED
    BY <1>1, <2>1, <2>4, <2>5, <2>6, ReturnsKeep DEF live, r
<1>9. CASE ReadMarker(n) /\ <<r.kind, ch[r.level]>> \notin overrides /\ ch[r.level] # Global
  <2> DEFINE s == [r EXCEPT !.level = @ + 1]
  <2>1. Read(n, s) /\ r.pc = "marker"
    BY <1>2, <1>9 DEF ReadMarker, r
  <2>2. /\ s \in Reader /\ s.pc = "marker" /\ s.id = r.id /\ s.cluster = r.cluster
        /\ s.kind = r.kind /\ s.level = r.level + 1 /\ s.got = r.got
    BY <1>1, <2>1 DEF Reader
  <2> HIDE DEF s
  <2>3. r.level + 1 \in DOMAIN ch /\ \A i \in DOMAIN ch : i < r.level + 1 => i < r.level \/ i = r.level
    BY <1>2, <1>9, ChainFacts DEF ch
  <2>4. ReadOK(n, s)
    BY <1>1, <1>2, <1>3, <1>9, <2>1, <2>2, <2>3 DEF ReadOK, live, r, ch
  <2>5. QED
    BY <2>1, <2>2, <2>4, ReadKeeps
<1>10. QED
  BY <1>6, <1>7, <1>8, <1>9

\* The other steps of a bring-up.
LEMMA BringUpKeeps ==
  ASSUME ScopesTypeOK, ScopesTypeOK', ScopesInv, NEW n \in Names,
         Resolve(n) \/ NextWalk(n) \/ GetConfigFile(n) \/ Build(n) \/ Reap(n)
  PROVE  ScopesInv'
<1> DEFINE r == reader[n]
<1>1. r \in Reader /\ ReadOK(n, r) /\ RowOK(n) /\ births \in Nat
  BY LiveReader DEF ScopesTypeOK, ScopesInv
<1>2. /\ Idle \in Reader /\ Idle.pc = "idle" /\ Idle.id = 0 /\ Idle.kind = "plugin"
      /\ Idle.level = 1
  BY DEF Idle, Reader, Kinds
<1>3. ReadOK(n, Idle)
  BY <1>1, <1>2 DEF ReadOK, RowOK, Walking
<1>4. CASE Resolve(n)
  <2> DEFINE s == [Idle EXCEPT !.pc = "marker", !.id = row[n].id, !.cluster = row[n].cluster]
  <2>1. Read(n, s) /\ row[n] # None /\ row[n] \in Row
    BY <1>4 DEF Resolve, ScopesTypeOK
  <2>2. /\ s \in Reader /\ s.pc = "marker" /\ s.id = row[n].id /\ s.cluster = row[n].cluster
        /\ s.kind = "plugin" /\ s.level = 1
    BY <1>2, <2>1 DEF Reader, Row
  <2> HIDE DEF s
  <2>3. 1 \in DOMAIN Chain(n, s.cluster) /\ \A i \in DOMAIN Chain(n, s.cluster) : ~(i < 1)
    BY ChainFacts
  <2>4. row[n].id <= births /\ "marker" \in Walking
    BY <1>1, <2>1 DEF RowOK, Walking
  <2>5. ReadOK(n, s)
    BY <2>2, <2>3, <2>4 DEF ReadOK
  <2>6. QED
    BY <2>1, <2>2, <2>5, ReadKeeps
<1>5. CASE NextWalk(n) /\ r.kind = "plugin"
  <2> DEFINE s == [r EXCEPT !.pc = "marker", !.kind = "config", !.level = 1]
  <2>1. Read(n, s) /\ r.pc = "walked"
    BY <1>5 DEF NextWalk
  <2>2. /\ s \in Reader /\ s.pc = "marker" /\ s.id = r.id /\ s.cluster = r.cluster
        /\ s.kind = "config" /\ s.level = 1 /\ s.got = r.got
    BY <1>1 DEF Reader, Kinds
  <2> HIDE DEF s
  <2>3. 1 \in DOMAIN Chain(n, s.cluster) /\ \A i \in DOMAIN Chain(n, s.cluster) : ~(i < 1)
    BY ChainFacts
  <2>4. "marker" \in Walking
    BY DEF Walking
  <2>5. ReadOK(n, s)
    BY <1>1, <2>1, <2>2, <2>3, <2>4 DEF ReadOK
  <2>6. QED
    BY <2>1, <2>2, <2>5, ReadKeeps
<1>6. CASE NextWalk(n) /\ r.kind # "plugin"
  <2> DEFINE s == [r EXCEPT !.pc = "files", !.todo = r.got["config"]]
  <2>1. Read(n, s) /\ r.pc = "walked" /\ r.kind = "config"
    BY <1>1, <1>6 DEF NextWalk, Reader, Kinds
  <2>2. s \in Reader /\ s.pc = "files" /\ s.id = r.id /\ s.got = r.got
    BY <1>1 DEF Reader, Kinds
  <2> HIDE DEF s
  <2>3. "files" \notin Walking \cup {"walked"}
    BY DEF Walking
  <2>4. ReadOK(n, s)
    BY <1>1, <2>1, <2>2, <2>3 DEF ReadOK
  <2>5. QED
    BY <2>1, <2>2, <2>4, ReadKeeps
<1>7. CASE GetConfigFile(n)
  <2>1. PICK f \in r.todo :
          Read(n, IF f \in catalog THEN [r EXCEPT !.todo = @ \ {f}] ELSE Idle)
    BY <1>7 DEF GetConfigFile
  <2> DEFINE s == [r EXCEPT !.todo = @ \ {f}]
  <2>2. s \in Reader /\ s.pc = "files" /\ s.id = r.id /\ s.got = r.got /\ r.pc = "files"
    BY <1>1, <1>7 DEF Reader, GetConfigFile
  <2> HIDE DEF s
  <2>3. "files" \notin Walking \cup {"walked"}
    BY DEF Walking
  <2>4. ReadOK(n, s)
    BY <1>1, <2>2, <2>3 DEF ReadOK
  <2>5. CASE f \in catalog
    BY <2>1, <2>2, <2>4, <2>5, ReadKeeps DEF s
  <2>6. CASE f \notin catalog
    BY <1>2, <1>3, <2>1, <2>6, ReadKeeps
  <2>7. QED
    BY <2>5, <2>6
<1>8. CASE Build(n)
  <2> DEFINE s == [Idle EXCEPT !.pc = "built", !.id = r.id, !.got = r.got]
  <2>1. Read(n, s) /\ r.pc = "files"
    BY <1>8 DEF Build
  <2>2. s \in Reader /\ s.pc = "built" /\ s.id = r.id /\ s.got = r.got
    BY <1>1, <1>2 DEF Reader
  <2> HIDE DEF s
  <2>3. "built" \notin Walking \cup {"walked"}
    BY DEF Walking
  <2>4. ReadOK(n, s)
    BY <1>1, <2>1, <2>2, <2>3 DEF ReadOK
  <2>5. QED
    BY <2>1, <2>2, <2>4, ReadKeeps
<1>9. CASE Reap(n)
  BY <1>2, <1>3, <1>9, ReadKeeps DEF Reap
<1>10. QED
  BY <1>4, <1>5, <1>6, <1>7, <1>8, <1>9

-----------------------------------------------------------------------------
(* Together.                                                               *)

\* Initially there is no row, no scope and no reader.
LEMMA InitScopes == Init => ScopesInv
<1> SUFFICES ASSUME Init PROVE ScopesInv
  OBVIOUS
<1>1. NoOrphanScope
  BY DEF Init, NoOrphanScope
<1>2. ASSUME NEW n \in Names PROVE RowOK(n) /\ ReaderOK(n)
  <2>1. row[n] = None /\ reader[n] = Idle /\ births = 0
    BY DEF Init
  <2>2. Idle.pc = "idle" /\ Idle.id = 0 /\ "idle" \notin Walking
    BY DEF Idle, Walking
  <2>3. QED
    BY <2>1, <2>2 DEF RowOK, ReaderOK
<1>3. QED
  BY <1>1, <1>2 DEF ScopesInv

\* Rows, scopes and readers stay in step, whatever the API writes while workers read.
THEOREM ScopesInvariant == ScopesSpec => [](ScopesTypeOK /\ ScopesInv)
<1>1. Init => ScopesTypeOK /\ ScopesInv
  BY InitType, InitScopes
<1>2. ScopesTypeOK /\ ScopesInv /\ [Next]_scopeVars => ScopesTypeOK' /\ ScopesInv'
  <2> SUFFICES ASSUME ScopesTypeOK, ScopesInv, [Next]_scopeVars
               PROVE  ScopesTypeOK' /\ ScopesInv'
    OBVIOUS
  <2>1. CASE Write
    BY <2>1, WriteType, WriteKeeps
  <2>2. CASE BringUp
    <3>1. PICK n \in Names : \/ Resolve(n) \/ ReadMarker(n) \/ ReadItems(n) \/ NextWalk(n)
                             \/ GetConfigFile(n) \/ Build(n) \/ Reap(n)
      BY <2>2 DEF BringUp, EffectivePlugins, EffectiveConfigs
    <3>2. ScopesTypeOK'
      BY <3>1, BringUpType
    <3>3. QED
      BY <3>1, <3>2, WalkKeeps, BringUpKeeps
  <2>3. CASE UNCHANGED scopeVars
    <3>1. UNCHANGED <<row, clusters, catalog, overrides, assignments, env, births, asked,
                      reader, seen>>
      BY <2>3 DEF scopeVars, tables
    <3>2. ScopesTypeOK'
      BY <3>1 DEF ScopesTypeOK
    <3>3. NoOrphanScope'
      BY <3>1 DEF ScopesInv, NoOrphanScope
    <3>4. ASSUME NEW n \in Names PROVE RowOK(n)' /\ ReaderOK(n)'
      <4>1. RowOK(n) /\ ReaderOK(n)
        BY DEF ScopesInv
      <4>2. RowOK(n)'
        BY <3>1, <4>1 DEF RowOK, Asked, Items
      <4>3. ReaderOK(n)'
        BY <3>1, <4>1 DEF ReaderOK, WalkOK, Walked, Asked, Effective, Items
      <4>4. QED
        BY <4>2, <4>3
    <3>5. QED
      BY <3>2, <3>3, <3>4 DEF ScopesInv
  <2>4. QED
    BY <2>1, <2>2, <2>3 DEF Next
<1>3. QED
  BY <1>1, <1>2, PTL DEF ScopesSpec

\* A server or cluster that does not exist has no marker, assignment or env row left
\* (deleteScopedServer, deleteScopedCluster): its name may be used again.
THEOREM NoScopeOutlivesItsOwner == ScopesSpec => []NoOrphanScope
<1>1. ScopesInv => NoOrphanScope
  BY DEF ScopesInv
<1>2. QED
  BY <1>1, ScopesInvariant, PTL

\* A server created with a set of plugins or configs is built with that set and no other
\* while its row lives, although the set is read in several statements.
THEOREM RequestsAreHonoured == ScopesSpec => []RequestIsHonoured
<1>1. ScopesTypeOK /\ ScopesInv => RequestIsHonoured
  <2> SUFFICES ASSUME ScopesTypeOK, ScopesInv, NEW n \in Names, reader[n].pc = "built",
                      row[n] # None, reader[n].id = row[n].id, NEW k \in Asked(asked[n])
               PROVE  reader[n].got[k] = asked[n][k]
    BY DEF RequestIsHonoured
  <2>1. QED
    BY LiveReader DEF ReadOK
<1>2. QED
  BY <1>1, ScopesInvariant, PTL

\* What EffectivePlugins and EffectiveConfigs return for a row that is still there was in
\* effect at one moment of the walk.
THEOREM ReadsAreSnapshots == ScopesSpec => []ReadIsASnapshot
<1>1. ScopesInv => ReadIsASnapshot
  BY DEF ScopesInv, ReaderOK, ReadIsASnapshot
<1>2. QED
  BY <1>1, ScopesInvariant, PTL

=============================================================================
