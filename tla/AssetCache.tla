----------------------------- MODULE AssetCache -----------------------------
(***************************************************************************)
(* The disk cache every download goes through (internal/install/cache.go): *)
(* per url a .blob with the body and a .meta with its validator, fetches   *)
(* shared by singleflight, conditional requests, and LRU eviction.         *)
(*                                                                         *)
(* Fetches of different urls run concurrently and each evicts whatever is  *)
(* oldest, also the files of a url that is being fetched.  A body and its  *)
(* ETag are one version number, as upstream publishes them, which is       *)
(* assumed only to grow (see WithdrawSpec); every blob has size one.  The  *)
(* process may die between any two file operations.                        *)
(***************************************************************************)
EXTENDS Naturals, Sequences, SequencesExt, FiniteSets

CONSTANTS
  Urls,
  MaxVersion,      \* bound on the versions upstream publishes
  MaxBlobs,        \* maxBytes
  NetworkMayFail,  \* whether requests may fail or be refused
  MayCrash         \* whether the process may die and be restarted

ASSUME BoundsAssumption == MaxVersion \in Nat \ {0} /\ MaxBlobs \in Nat \ {0}
ASSUME SwitchAssumption == NetworkMayFail \in BOOLEAN /\ MayCrash \in BOOLEAN

VARIABLES
  upstream,  \* url -> the version the server has
  blob,      \* url -> the version on disk, 0 if there is no .blob
  meta,      \* url -> [etag, fresh]; etag 0 if there is no .meta
  lru,       \* the urls with a blob, by modification time, oldest first
  flight     \* url -> its singleflight call

cvars == <<upstream, blob, meta, lru, flight>>
disk == <<blob, meta, lru>>

Version == 0 .. MaxVersion
\* fresh: fetched by this process, less than the TTL ago.
Meta == [etag : Version, fresh : BOOLEAN]
NoMeta == [etag |-> 0, fresh |-> FALSE]

(***************************************************************************)
(* The locals of a fetch: the meta it read, the body it downloads, the     *)
(* files its eviction has still to delete, and how it ended.               *)
(***************************************************************************)
Flight == [pc : {"idle", "check", "request", "rename", "meta", "scan", "evictBlob",
                 "evictMeta", "done"},
           read : Meta, body : Version, victims : Seq(Urls),
           how : {"", "hit", "notModified", "stored", "stale", "error"}]
Idle == [pc |-> "idle", read |-> NoMeta, body |-> 0, victims |-> <<>>, how |-> ""]

CacheTypeOK ==
  /\ upstream \in [Urls -> Version \ {0}]
  /\ blob \in [Urls -> Version]
  /\ meta \in [Urls -> Meta]
  /\ lru \in Seq(Urls) /\ ToSet(lru) = {u \in Urls : blob[u] # 0}
  /\ flight \in [Urls -> Flight]

CacheInit ==
  /\ upstream = [u \in Urls |-> 1]
  /\ blob = [u \in Urls |-> 0]
  /\ meta = [u \in Urls |-> NoMeta]
  /\ lru = <<>>
  /\ flight = [u \in Urls |-> Idle]

Proceed(u, f) == flight' = [flight EXCEPT ![u] = f]
At(u, pc) == flight[u].pc = pc

\* The list without u, which is in it at most once.
Drop(s, u) == IF u \in ToSet(s) THEN RemoveAt(s, CHOOSE i \in DOMAIN s : s[i] = u) ELSE s

\* os.Chtimes: only a file that is there gets a new time.
touch(u) == IF blob[u] = 0 THEN lru ELSE Append(Drop(lru, u), u)

\* Get, and fetch up to its stat of the blob: a call while one is in flight joins it.
Get(u) ==
  /\ At(u, "idle")
  /\ Proceed(u, [Idle EXCEPT !.pc = "check", !.read = meta[u]])
  /\ UNCHANGED <<upstream, disk>>

HaveMeta(u) == flight[u].read.etag # 0
FreshHit(u) == HaveMeta(u) /\ flight[u].read.fresh /\ blob[u] # 0

Hit(u) ==
  /\ At(u, "check") /\ FreshHit(u)
  /\ lru' = touch(u)
  /\ Proceed(u, [flight[u] EXCEPT !.pc = "done", !.how = "hit"])
  /\ UNCHANGED <<upstream, blob, meta>>

Miss(u) ==
  /\ At(u, "check") /\ ~FreshHit(u)
  /\ Proceed(u, [flight[u] EXCEPT !.pc = "request"])
  /\ UNCHANGED <<upstream, disk>>

\* Mutant: whatever the answer, a meta is taken to be current.
NotModifiedAlways(u) ==
  /\ At(u, "request") /\ HaveMeta(u)
  /\ meta' = [meta EXCEPT ![u] = [etag |-> flight[u].read.etag, fresh |-> TRUE]]
  /\ lru' = touch(u)
  /\ Proceed(u, [flight[u] EXCEPT !.pc = "done", !.how = "notModified", !.body = upstream[u]])
  /\ UNCHANGED <<upstream, blob>>

\* 304: the meta is written again and the blob taken to be there.
NotModified(u) ==
  /\ At(u, "request") /\ HaveMeta(u) /\ flight[u].read.etag = upstream[u]
  /\ meta' = [meta EXCEPT ![u] = [etag |-> upstream[u], fresh |-> TRUE]]
  /\ lru' = touch(u)
  /\ Proceed(u, [flight[u] EXCEPT !.pc = "done", !.how = "notModified", !.body = upstream[u]])
  /\ UNCHANGED <<upstream, blob>>

\* 200: the body is streamed to a temporary file.
Download(u) ==
  /\ At(u, "request") /\ flight[u].read.etag # upstream[u]
  /\ Proceed(u, [flight[u] EXCEPT !.pc = "rename", !.body = upstream[u]])
  /\ UNCHANGED <<upstream, disk>>

\* The request fails after its retries, or ends with another status: serve stale.
RequestFails(u) ==
  /\ At(u, "request") /\ NetworkMayFail
  /\ Proceed(u, [flight[u] EXCEPT !.pc = "done",
       !.how = IF HaveMeta(u) /\ blob[u] # 0 THEN "stale" ELSE "error"])
  /\ UNCHANGED <<upstream, disk>>

\* The body breaks off: no fallback.
DownloadFails(u) ==
  /\ At(u, "rename") /\ NetworkMayFail
  /\ Proceed(u, [flight[u] EXCEPT !.pc = "done", !.how = "error"])
  /\ UNCHANGED <<upstream, disk>>

StoreRename(u) ==
  /\ At(u, "rename")
  /\ blob' = [blob EXCEPT ![u] = flight[u].body]
  /\ lru' = Append(Drop(lru, u), u)
  /\ Proceed(u, [flight[u] EXCEPT !.pc = "meta"])
  /\ UNCHANGED <<upstream, meta>>

StoreMeta(u) ==
  /\ At(u, "meta")
  /\ meta' = [meta EXCEPT ![u] = [etag |-> flight[u].body, fresh |-> TRUE]]
  /\ Proceed(u, [flight[u] EXCEPT !.pc = "scan"])
  /\ UNCHANGED <<upstream, blob, lru>>

\* Mutant: the eviction stops one blob early.
EvictScanLess(u) ==
  /\ At(u, "scan")
  /\ Proceed(u, IF Len(lru) <= MaxBlobs + 1
                THEN [flight[u] EXCEPT !.pc = "done", !.how = "stored"]
                ELSE [flight[u] EXCEPT !.pc = "evictBlob",
                        !.victims = SubSeq(lru, 1, Len(lru) - MaxBlobs - 1)])
  /\ UNCHANGED <<upstream, disk>>

\* evict: list the blobs, and delete the oldest until the rest fits.
EvictScan(u) ==
  /\ At(u, "scan")
  /\ Proceed(u, IF Len(lru) <= MaxBlobs
                THEN [flight[u] EXCEPT !.pc = "done", !.how = "stored"]
                ELSE [flight[u] EXCEPT !.pc = "evictBlob",
                        !.victims = SubSeq(lru, 1, Len(lru) - MaxBlobs)])
  /\ UNCHANGED <<upstream, disk>>

EvictBlob(u) ==
  /\ At(u, "evictBlob")
  /\ LET v == Head(flight[u].victims)
     IN  blob' = [blob EXCEPT ![v] = 0] /\ lru' = Drop(lru, v)
  /\ Proceed(u, [flight[u] EXCEPT !.pc = "evictMeta"])
  /\ UNCHANGED <<upstream, meta>>

EvictMeta(u) ==
  /\ At(u, "evictMeta")
  /\ meta' = [meta EXCEPT ![Head(flight[u].victims)] = NoMeta]
  /\ LET rest == Tail(flight[u].victims)
     IN  Proceed(u, IF rest = <<>>
                    THEN [flight[u] EXCEPT !.pc = "done", !.victims = rest, !.how = "stored"]
                    ELSE [flight[u] EXCEPT !.pc = "evictBlob", !.victims = rest])
  /\ UNCHANGED <<upstream, blob, lru>>

\* The callers that shared the fetch get its path or error.
Return(u) ==
  /\ At(u, "done")
  /\ Proceed(u, Idle)
  /\ UNCHANGED <<upstream, disk>>

\* Upstream has a new body, and never an old one again.
Publish(u) ==
  /\ upstream[u] < MaxVersion
  /\ upstream' = [upstream EXCEPT ![u] = @ + 1]
  /\ UNCHANGED <<disk, flight>>

Stale(m) == [u \in Urls |-> [m[u] EXCEPT !.fresh = FALSE]]

\* The TTL of an entry passes.
Expire(u) ==
  /\ meta[u].fresh
  /\ meta' = [meta EXCEPT ![u].fresh = FALSE]
  /\ UNCHANGED <<upstream, blob, lru, flight>>

\* The process dies; to the next one, nothing on disk is fresh (startedAt).
ProcessDies ==
  /\ MayCrash
  /\ flight' = [u \in Urls |-> Idle]
  /\ meta' = Stale(meta)
  /\ UNCHANGED <<upstream, blob, lru>>

Fetch(u) ==
  \/ Hit(u) \/ Miss(u) \/ NotModified(u) \/ Download(u)
  \/ RequestFails(u) \/ DownloadFails(u)
  \/ StoreRename(u) \/ StoreMeta(u)
  \/ EvictScan(u) \/ EvictBlob(u) \/ EvictMeta(u) \/ Return(u)

CacheNext ==
  \/ \E u \in Urls : Get(u) \/ Fetch(u) \/ Publish(u) \/ Expire(u)
  \/ ProcessDies

CacheSpec == CacheInit /\ [][CacheNext]_cvars

\* Every fetch ends, and every url is asked for again and again (each start of a
\* server that uses it does).
CacheFairSpec ==
  CacheSpec /\ \A u \in Urls : WF_cvars(Fetch(u)) /\ WF_cvars(Get(u))

\* The same, where upstream may take its newest body back.
Withdraw(u) ==
  /\ upstream[u] > 1
  /\ upstream' = [upstream EXCEPT ![u] = @ - 1]
  /\ UNCHANGED <<disk, flight>>

WithdrawSpec == CacheInit /\ [][CacheNext \/ \E u \in Urls : Withdraw(u)]_cvars

-----------------------------------------------------------------------------
\* What Get returns after a 200 or a 304 is the body upstream has just confirmed,
\* never another one under its validator, however crashes cut a store short: the
\* body is in place before the meta that vouches for it.  This rests on upstream never
\* going back to an earlier body (see WithdrawSpec).  The file may be gone (see
\* PoisonHeals).
ConfirmedIsServed ==
  \A u \in Urls : At(u, "done") /\ flight[u].how \in {"notModified", "stored"} =>
    blob[u] \in {0, flight[u].body}

\* "keeps total blob size under maxBytes": once a store has evicted, and no other
\* store is between its rename and the end of its eviction, the blobs fit.
StoreKeepsBound ==
  \A u \in Urls :
    /\ At(u, "done") /\ flight[u].how = "stored"
    /\ \A v \in Urls \ {u} : flight[v].pc \notin {"meta", "scan", "evictBlob", "evictMeta"}
    => Len(lru) <= MaxBlobs

\* cache.go:65, "Get returns the path to a locally cached copy of url's body, fetching
\* or revalidating it as freshness requires": an entry whose blob is gone is fetched
\* anew by the Gets that follow.
PoisonHeals ==
  \A u \in Urls : meta[u].etag # 0 /\ blob[u] = 0 ~> meta[u].etag = 0 \/ blob[u] # 0

(***************************************************************************)
(* The inductive invariants (proved in InstallProofs).                     *)
(***************************************************************************)

\* A crash between the rename and the meta leaves a body newer than its validator, never
\* an older one: upstream can confirm a validator only if the body is just as new.
VersionOK(u) ==
  LET f == flight[u]
  IN  /\ blob[u] <= upstream[u] /\ meta[u].etag <= upstream[u]
      /\ blob[u] # 0 => meta[u].etag <= blob[u]
      /\ f.pc \in {"check", "request"} /\ blob[u] # 0 => f.read.etag <= blob[u]
      /\ f.pc = "rename" => blob[u] <= f.body /\ meta[u].etag <= f.body
      /\ f.pc \in {"rename", "meta"} => f.body \in 1 .. upstream[u]
      /\ \/ f.pc \in {"meta", "scan", "evictBlob", "evictMeta"}
         \/ f.pc = "done" /\ f.how \in {"notModified", "stored"}
         => blob[u] \in {0, f.body}

VersionInv == \A u \in Urls : VersionOK(u)

Distinct(s) == \A i, j \in DOMAIN s : s[i] = s[j] => i = j

Blobs == {u \in Urls : blob[u] # 0}
Fits(S) == Cardinality(S) <= MaxBlobs

\* The files the eviction of u has still to delete.
Doomed(u) == ToSet(IF At(u, "evictMeta") THEN Tail(flight[u].victims) ELSE flight[u].victims)
Evicting(u) == flight[u].pc \in {"evictBlob", "evictMeta"}

\* Whoever listed the blobs last leaves few enough, and if there is a newer blob than its
\* list knows of, the store of that one has its eviction before it.  After a crash
\* nobody has evicted yet.
BoundInv ==
  /\ Distinct(lru)
  /\ \A u \in Urls : Evicting(u) => flight[u].victims # <<>>
  /\ \/ \E u \in Urls : flight[u].pc \in {"meta", "scan"}
     \/ \E u \in Urls : Evicting(u) /\ Fits(Blobs \ Doomed(u))
     \/ Fits(Blobs)
     \/ \A u \in Urls : ~Evicting(u) /\ ~(At(u, "done") /\ flight[u].how = "stored")

=============================================================================
