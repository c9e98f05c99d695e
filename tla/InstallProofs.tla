---------------------------- MODULE InstallProofs ----------------------------
(***************************************************************************)
(* Proofs about what a server is built from: the download cache            *)
(* (AssetCache), for any urls, versions and sizes of the cache, and the    *)
(* overlay of a server (ServerBuild), for any catalog and any number of    *)
(* builds at a time.                                                       *)
(***************************************************************************)
EXTENDS AssetCache, ServerBuild, SequenceTheorems, FiniteSetTheorems, TLAPS

-----------------------------------------------------------------------------
(* The list of the blobs, by modification time.                            *)

\* Removing the k-th element moves the elements after it up by one.
LEMMA RemoveAtFacts ==
  ASSUME NEW S, NEW s \in Seq(S), NEW k \in DOMAIN s
  PROVE  /\ RemoveAt(s, k) \in Seq(S)
         /\ Len(RemoveAt(s, k)) = Len(s) - 1
         /\ \A j \in 1 .. Len(s) - 1 : RemoveAt(s, k)[j] = s[IF j < k THEN j ELSE j + 1]
<1> DEFINE before == SubSeq(s, 1, k - 1)
           after == SubSeq(s, k + 1, Len(s))
<1>1. k \in 1 .. Len(s) /\ Len(s) \in Nat
  OBVIOUS
<1>2. before \in Seq(S) /\ Len(before) = k - 1 /\ \A i \in 1 .. k - 1 : before[i] = s[i]
  <2>1. \A i \in 1 .. k - 1 : s[i] \in S
    BY <1>1
  <2>2. QED
    BY <1>1, <2>1, SubSeqProperties, Z3
<1>3. /\ after \in Seq(S) /\ Len(after) = Len(s) - k
      /\ \A i \in 1 .. Len(s) - k : after[i] = s[k + i]
  <2>1. \A i \in k + 1 .. Len(s) : s[i] \in S
    BY <1>1
  <2>2. QED
    BY <1>1, <2>1, SubSeqProperties, Z3
<1>4. RemoveAt(s, k) = before \o after
  BY DEF RemoveAt
<1> HIDE DEF before, after
<1>5. /\ before \o after \in Seq(S) /\ Len(before \o after) = Len(s) - 1
      /\ \A i \in 1 .. Len(s) - 1 :
           (before \o after)[i] = IF i <= k - 1 THEN before[i] ELSE after[i - (k - 1)]
  <2>1. /\ before \o after \in Seq(S) /\ Len(before \o after) = Len(before) + Len(after)
        /\ \A i \in 1 .. Len(before) + Len(after) : (before \o after)[i] =
             IF i <= Len(before) THEN before[i] ELSE after[i - Len(before)]
    BY <1>2, <1>3, ConcatProperties
  <2>2. Len(before) + Len(after) = Len(s) - 1
    BY <1>1, <1>2, <1>3
  <2>3. QED
    BY <1>2, <2>1, <2>2
<1>6. ASSUME NEW j \in 1 .. Len(s) - 1
      PROVE  (before \o after)[j] = s[IF j < k THEN j ELSE j + 1]
  <2>1. CASE j < k
    BY <1>1, <1>2, <1>5, <2>1
  <2>2. CASE ~(j < k)
    <3> DEFINE i == j - (k - 1)
    <3>1. i \in 1 .. Len(s) - k /\ k + i = j + 1 /\ ~(j <= k - 1)
      BY <1>1, <2>2
    <3>2. (before \o after)[j] = after[i]
      BY <1>5, <3>1
    <3> HIDE DEF i
    <3>3. after[i] = s[j + 1]
      BY <1>3, <3>1
    <3>4. QED
      BY <2>2, <3>2, <3>3
  <2>3. QED
    BY <2>1, <2>2
<1>7. QED
  BY <1>4, <1>5, <1>6

\* Drop takes one url out of a list and keeps the others (the removal of a file).
LEMMA DropFacts ==
  ASSUME NEW s \in Seq(Urls), NEW u \in Urls, Distinct(s)
  PROVE  /\ Drop(s, u) \in Seq(Urls) /\ Distinct(Drop(s, u))
         /\ ToSet(Drop(s, u)) = ToSet(s) \ {u}
<1>1. CASE u \notin ToSet(s)
  BY <1>1 DEF Drop
<1>2. CASE u \in ToSet(s)
  <2>1. PICK k \in DOMAIN s : s[k] = u /\ Drop(s, u) = RemoveAt(s, k)
    <3>1. \E i \in DOMAIN s : s[i] = u
      BY <1>2 DEF ToSet
    <3>2. QED
      BY <1>2, <3>1 DEF Drop
  <2> DEFINE t == RemoveAt(s, k)
             from(j) == IF j < k THEN j ELSE j + 1
  <2>2. /\ t \in Seq(Urls) /\ Len(t) = Len(s) - 1
        /\ \A j \in 1 .. Len(s) - 1 : t[j] = s[from(j)]
    BY RemoveAtFacts
  <2>3. DOMAIN s = 1 .. Len(s) /\ Len(s) \in Nat /\ DOMAIN t = 1 .. Len(s) - 1
    BY <2>2
  <2> HIDE DEF t
  <2>4. \A i, j \in 1 .. Len(s) - 1 : /\ from(i) \in DOMAIN s /\ from(i) # k
                                      /\ from(i) = from(j) => i = j
    BY <2>3
  <2>5. Distinct(t)
    BY <2>2, <2>3, <2>4 DEF Distinct
  <2>6. ToSet(t) \subseteq ToSet(s) \ {u}
    <3>1. ASSUME NEW j \in DOMAIN t PROVE t[j] \in ToSet(s) \ {u}
      <4>1. t[j] = s[from(j)] /\ from(j) \in DOMAIN s /\ from(j) # k
        BY <2>2, <2>3, <2>4
      <4>2. s[from(j)] # s[k]
        BY <4>1 DEF Distinct
      <4>3. QED
        BY <2>1, <4>1, <4>2 DEF ToSet
    <3>2. QED
      BY <3>1 DEF ToSet
  <2>7. ToSet(s) \ {u} \subseteq ToSet(t)
    <3>1. ASSUME NEW i \in DOMAIN s, s[i] # u PROVE s[i] \in ToSet(t)
      <4>1. i # k
        BY <2>1, <3>1
      <4>2. CASE i < k
        <5>1. i \in 1 .. Len(s) - 1 /\ from(i) = i
          BY <2>3, <4>2
        <5>2. QED
          BY <2>2, <2>3, <5>1 DEF ToSet
      <4>3. CASE i > k
        <5>1. i - 1 \in 1 .. Len(s) - 1 /\ from(i - 1) = i
          BY <2>3, <4>3
        <5>2. QED
          BY <2>2, <2>3, <5>1 DEF ToSet
      <4>4. QED
        BY <2>3, <4>1, <4>2, <4>3
    <3>2. QED
      BY <3>1 DEF ToSet
  <2>8. QED
    BY <2>1, <2>2, <2>5, <2>6, <2>7 DEF t
<1>3. QED
  BY <1>1, <1>2

\* A file that is written or touched becomes the newest of the list.
LEMMA NewestFacts ==
  ASSUME NEW s \in Seq(Urls), NEW u \in Urls, Distinct(s)
  PROVE  /\ Append(Drop(s, u), u) \in Seq(Urls) /\ Distinct(Append(Drop(s, u), u))
         /\ ToSet(Append(Drop(s, u), u)) = ToSet(s) \cup {u}
<1> DEFINE d == Drop(s, u)
           t == Append(d, u)
<1>1. d \in Seq(Urls) /\ Distinct(d) /\ ToSet(d) = ToSet(s) \ {u}
  BY DropFacts
<1> HIDE DEF d
<1>2. /\ t \in Seq(Urls) /\ DOMAIN t = 1 .. Len(d) + 1 /\ t[Len(d) + 1] = u
      /\ DOMAIN d = 1 .. Len(d) /\ Len(d) \in Nat
      /\ \A i \in DOMAIN d : t[i] = d[i] /\ d[i] # u
  <2>1. \A i \in DOMAIN d : d[i] # u
    BY <1>1 DEF ToSet
  <2>2. QED
    BY <1>1, <2>1, AppendProperties
<1>3. \A i \in DOMAIN t : i = Len(d) + 1 \/ i \in DOMAIN d
  BY <1>2
<1> HIDE DEF t
<1>4. Distinct(t)
  BY <1>1, <1>2, <1>3 DEF Distinct
<1>5. ToSet(t) = ToSet(d) \cup {u}
  <2>1. \A i \in DOMAIN d : i \in DOMAIN t
    BY <1>2
  <2>2. Len(d) + 1 \in DOMAIN t
    BY <1>2
  <2>3. QED
    BY <1>2, <1>3, <2>1, <2>2 DEF ToSet
<1>6. QED
  BY <1>1, <1>2, <1>4, <1>5 DEF t, d

-----------------------------------------------------------------------------
(* Types.                                                                  *)

\* A step of the fetch of u: it moves on, and no other fetch does.
Turn(u) ==
  /\ flight' \in [Urls -> Flight] /\ \A w \in Urls \ {u} : flight'[w] = flight[w]
  /\ upstream' = upstream

\* A fetch that proceeds to a well-typed record has taken its turn.
LEMMA ProceedIsTurn ==
  ASSUME CacheTypeOK, NEW u \in Urls, NEW f \in Flight, Proceed(u, f), upstream' = upstream
  PROVE  Turn(u) /\ flight'[u] = f
BY DEF CacheTypeOK, Proceed, Turn

\* The victims of an eviction are the oldest blobs, and all but MaxBlobs of them.
LEMMA VictimFacts ==
  ASSUME CacheTypeOK, ~(Len(lru) <= MaxBlobs)
  PROVE  LET v == SubSeq(lru, 1, Len(lru) - MaxBlobs)
         IN  /\ v \in Seq(Urls) /\ v # <<>>
             /\ \A i \in DOMAIN lru : lru[i] \in ToSet(v) \/ i \in Len(lru) - MaxBlobs + 1 .. Len(lru)
<1> DEFINE n == Len(lru) - MaxBlobs
           v == SubSeq(lru, 1, n)
<1>1. lru \in Seq(Urls) /\ Len(lru) \in Nat /\ MaxBlobs \in Nat /\ n \in 1 .. Len(lru)
  BY BoundsAssumption DEF CacheTypeOK
<1>2. \A i \in 1 .. n : lru[i] \in Urls
  BY <1>1
<1>3. v \in Seq(Urls) /\ Len(v) = n /\ \A i \in 1 .. n : v[i] = lru[i]
  BY <1>1, <1>2, SubSeqProperties
<1> HIDE DEF v
<1>4. \A i \in 1 .. n : lru[i] \in ToSet(v)
  BY <1>3 DEF ToSet
<1>5. \A i \in DOMAIN lru : i \in 1 .. n \/ i \in n + 1 .. Len(lru)
  BY <1>1
<1>6. v # <<>>
  BY <1>1, <1>3
<1>7. QED
  BY <1>3, <1>4, <1>5, <1>6 DEF v

\* No fetch is a fetch record, and no meta a meta.
LEMMA IdleFacts == NoMeta \in Meta /\ Idle \in Flight /\ Idle.pc = "idle"
<1>1. 0 \in Version
  BY BoundsAssumption DEF Version
<1>2. NoMeta \in Meta
  BY <1>1 DEF NoMeta, Meta
<1>3. <<>> \in Seq(Urls)
  OBVIOUS
<1>4. Idle \in Flight
  BY <1>1, <1>2, <1>3 DEF Idle, Flight
<1>5. Idle.pc = "idle"
  BY DEF Idle
<1>6. QED
  BY <1>2, <1>4, <1>5

\* Touching a blob changes the order of the list and nothing else.
LEMMA TouchFacts ==
  ASSUME CacheTypeOK, Distinct(lru), NEW u \in Urls
  PROVE  touch(u) \in Seq(Urls) /\ Distinct(touch(u)) /\ ToSet(touch(u)) = ToSet(lru)
<1>1. CASE blob[u] = 0
  BY <1>1 DEF touch, CacheTypeOK
<1>2. CASE blob[u] # 0
  <2>1. lru \in Seq(Urls) /\ u \in ToSet(lru)
    BY <1>2 DEF CacheTypeOK
  <2>2. touch(u) = Append(Drop(lru, u), u)
    BY <1>2 DEF touch
  <2>3. /\ touch(u) \in Seq(Urls) /\ Distinct(touch(u))
        /\ ToSet(touch(u)) = ToSet(lru) \cup {u}
    BY <2>1, <2>2, NewestFacts
  <2>4. QED
    BY <2>1, <2>3
<1>3. QED
  BY <1>1, <1>2

\* An eviction that is under way has a next victim.
LEMMA HeadVictim ==
  ASSUME CacheTypeOK, BoundInv, NEW u \in Urls, Evicting(u)
  PROVE  LET s == flight[u].victims
         IN  /\ s \in Seq(Urls) /\ Head(s) \in Urls /\ Tail(s) \in Seq(Urls)
             /\ ToSet(s) = {Head(s)} \cup ToSet(Tail(s))
<1> DEFINE s == flight[u].victims
<1>1. s \in Seq(Urls) /\ s # <<>>
  BY DEF CacheTypeOK, BoundInv, Flight
<1> HIDE DEF s
<1>2. /\ Head(s) \in Urls /\ Tail(s) \in Seq(Urls) /\ Len(s) \in Nat \ {0}
      /\ Len(Tail(s)) = Len(s) - 1 /\ s[1] = Head(s)
      /\ \A i \in 1 .. Len(s) - 1 : Tail(s)[i] = s[i + 1]
  BY <1>1, HeadTailProperties
<1>3. DOMAIN s = 1 .. Len(s) /\ DOMAIN Tail(s) = 1 .. Len(s) - 1
  BY <1>1, <1>2
<1>4. ASSUME NEW i \in DOMAIN s PROVE s[i] \in {Head(s)} \cup ToSet(Tail(s))
  <2>1. CASE i = 1
    BY <1>2, <2>1
  <2>2. CASE i # 1
    <3>1. i - 1 \in 1 .. Len(s) - 1 /\ (i - 1) + 1 = i
      BY <1>2, <1>3, <2>2
    <3>2. QED
      BY <1>2, <1>3, <3>1 DEF ToSet
  <2>3. QED
    BY <2>1, <2>2
<1>5. ASSUME NEW i \in DOMAIN Tail(s) PROVE Tail(s)[i] \in ToSet(s)
  BY <1>2, <1>3 DEF ToSet
<1>6. Head(s) \in ToSet(s)
  BY <1>2, <1>3 DEF ToSet
<1>7. ToSet(s) = {Head(s)} \cup ToSet(Tail(s))
  BY <1>4, <1>5, <1>6 DEF ToSet
<1>8. QED
  BY <1>1, <1>2, <1>7 DEF s

\* Every step of Get and fetch is a turn.
LEMMA FetchFacts ==
  ASSUME CacheTypeOK, BoundInv, NEW u \in Urls, Get(u) \/ Fetch(u)
  PROVE  Turn(u)
<1> DEFINE f == flight[u]
<1>1. f \in Flight /\ meta[u] \in Meta /\ upstream[u] \in Version /\ Idle \in Flight
  BY IdleFacts DEF CacheTypeOK
<1>2. CASE Get(u)
  <2>1. [Idle EXCEPT !.pc = "check", !.read = meta[u]] \in Flight
    BY <1>1 DEF Flight
  <2>2. QED
    BY <1>2, <2>1, ProceedIsTurn DEF Get
<1>3. CASE Hit(u) \/ Miss(u) \/ NotModified(u) \/ Download(u)
  <2>1. /\ [f EXCEPT !.pc = "done", !.how = "hit"] \in Flight
        /\ [f EXCEPT !.pc = "request"] \in Flight
        /\ [f EXCEPT !.pc = "done", !.how = "notModified", !.body = upstream[u]] \in Flight
        /\ [f EXCEPT !.pc = "rename", !.body = upstream[u]] \in Flight
    BY <1>1 DEF Flight
  <2>2. QED
    BY <1>3, <2>1, ProceedIsTurn DEF Hit, Miss, NotModified, Download
<1>4. CASE RequestFails(u) \/ DownloadFails(u)
  <2>1. \A h \in {"stale", "error"} : [f EXCEPT !.pc = "done", !.how = h] \in Flight
    BY <1>1 DEF Flight
  <2>2. QED
    BY <1>4, <2>1, ProceedIsTurn DEF RequestFails, DownloadFails
<1>5. CASE StoreRename(u) \/ StoreMeta(u) \/ EvictBlob(u)
  <2>1. \A p \in {"meta", "scan", "evictMeta"} : [f EXCEPT !.pc = p] \in Flight
    BY <1>1 DEF Flight
  <2>2. QED
    BY <1>5, <2>1, ProceedIsTurn DEF StoreRename, StoreMeta, EvictBlob
<1>6. CASE EvictScan(u)
  <2>1. CASE Len(lru) <= MaxBlobs
    <3>1. [f EXCEPT !.pc = "done", !.how = "stored"] \in Flight
      BY <1>1 DEF Flight
    <3>2. QED
      BY <1>6, <2>1, <3>1, ProceedIsTurn DEF EvictScan
  <2>2. CASE ~(Len(lru) <= MaxBlobs)
    <3> DEFINE v == SubSeq(lru, 1, Len(lru) - MaxBlobs)
    <3>1. v \in Seq(Urls)
      BY <2>2, VictimFacts
    <3> HIDE DEF v
    <3>2. [f EXCEPT !.pc = "evictBlob", !.victims = v] \in Flight
      BY <1>1, <3>1 DEF Flight
    <3>3. QED
      BY <1>6, <2>2, <3>2, ProceedIsTurn DEF EvictScan, v
  <2>3. QED
    BY <2>1, <2>2
<1>7. CASE EvictMeta(u)
  <2> DEFINE rest == Tail(f.victims)
  <2>1. f.victims \in Seq(Urls) /\ f.victims # <<>>
    BY <1>1, <1>7 DEF EvictMeta, BoundInv, Evicting, Flight, At
  <2>2. rest \in Seq(Urls)
    BY <2>1, HeadTailProperties
  <2> HIDE DEF rest
  <2>3. /\ [f EXCEPT !.pc = "done", !.victims = rest, !.how = "stored"] \in Flight
        /\ [f EXCEPT !.pc = "evictBlob", !.victims = rest] \in Flight
    BY <1>1, <2>2 DEF Flight
  <2>4. QED
    BY <1>7, <2>3, ProceedIsTurn DEF EvictMeta, rest
<1>8. CASE Return(u)
  BY <1>1, <1>8, ProceedIsTurn DEF Return
<1>9. QED
  BY <1>2, <1>3, <1>4, <1>5, <1>6, <1>7, <1>8 DEF Fetch

\* Every step keeps the types and lists every blob once, and only a rename and an
\* eviction change which blobs there are.
LEMMA CacheTypeStep ==
  ASSUME CacheTypeOK, VersionInv, BoundInv, [CacheNext]_cvars
  PROVE  CacheTypeOK' /\ Distinct(lru)'
<1>0. /\ upstream \in [Urls -> Version \ {0}] /\ blob \in [Urls -> Version]
      /\ meta \in [Urls -> Meta] /\ lru \in Seq(Urls) /\ ToSet(lru) = {u \in Urls : blob[u] # 0}
      /\ flight \in [Urls -> Flight] /\ Distinct(lru)
  BY DEF CacheTypeOK, BoundInv
<1>1. ASSUME NEW u \in Urls, Get(u) \/ Fetch(u) PROVE CacheTypeOK' /\ Distinct(lru)'
  <2>1. flight' \in [Urls -> Flight] /\ upstream' = upstream
    BY <1>1, FetchFacts DEF Turn
  <2>2. CASE UNCHANGED disk
    BY <1>0, <2>1, <2>2 DEF disk, CacheTypeOK
  <2>3. CASE Hit(u) \/ NotModified(u)
    <3>1. lru' = touch(u) /\ blob' = blob
      BY <2>3 DEF Hit, NotModified
    <3>2. meta' \in [Urls -> Meta]
      <4>1. CASE Hit(u)
        BY <1>0, <4>1 DEF Hit
      <4>2. CASE NotModified(u)
        BY <1>0, <4>2 DEF NotModified, Meta
      <4>3. QED
        BY <2>3, <4>1, <4>2
    <3>3. QED
      BY <1>0, <2>1, <3>1, <3>2, TouchFacts DEF CacheTypeOK
  <2>4. CASE StoreRename(u)
    <3>1. flight[u].body \in Version \ {0} /\ meta' = meta
      <4>1. flight[u].pc = "rename" /\ flight[u].body \in Version /\ VersionOK(u) /\ meta' = meta
        BY <1>0, <2>4 DEF StoreRename, At, VersionInv, Flight
      <4>2. QED
        BY <4>1 DEF VersionOK, Version
    <3>2. /\ blob' \in [Urls -> Version] /\ blob'[u] # 0
          /\ \A w \in Urls \ {u} : blob'[w] = blob[w]
      BY <1>0, <2>4, <3>1 DEF StoreRename
    <3>3. lru' \in Seq(Urls) /\ Distinct(lru)' /\ ToSet(lru)' = ToSet(lru) \cup {u}
      BY <1>0, <2>4, NewestFacts DEF StoreRename
    <3>4. ToSet(lru)' = {w \in Urls : blob'[w] # 0}
      BY <1>0, <3>2, <3>3
    <3>5. QED
      BY <1>0, <2>1, <3>1, <3>2, <3>3, <3>4 DEF CacheTypeOK
  <2>5. CASE StoreMeta(u)
    <3>1. meta' \in [Urls -> Meta] /\ blob' = blob /\ lru' = lru
      BY <1>0, <2>5 DEF StoreMeta, Meta, Flight
    <3>2. QED
      BY <1>0, <2>1, <3>1 DEF CacheTypeOK
  <2>6. CASE EvictBlob(u)
    <3>1. PICK v \in Urls : blob' = [blob EXCEPT ![v] = 0] /\ lru' = Drop(lru, v)
      BY <2>6, HeadVictim DEF EvictBlob, At, Evicting
    <3>2. /\ blob' \in [Urls -> Version] /\ blob'[v] = 0 /\ meta' = meta
          /\ \A w \in Urls \ {v} : blob'[w] = blob[w]
      <4>1. meta' = meta /\ 0 \in Version
        BY <2>6, BoundsAssumption DEF EvictBlob, Version
      <4>2. QED
        BY <1>0, <3>1, <4>1
    <3>3. lru' \in Seq(Urls) /\ Distinct(lru)' /\ ToSet(lru)' = ToSet(lru) \ {v}
      BY <1>0, <3>1, DropFacts
    <3>4. ToSet(lru)' = {w \in Urls : blob'[w] # 0}
      BY <1>0, <3>2, <3>3
    <3>5. QED
      BY <1>0, <2>1, <3>2, <3>3, <3>4 DEF CacheTypeOK
  <2>7. CASE EvictMeta(u)
    <3>1. meta' \in [Urls -> Meta] /\ blob' = blob /\ lru' = lru
      BY <1>0, <2>7, IdleFacts DEF EvictMeta
    <3>2. QED
      BY <1>0, <2>1, <3>1 DEF CacheTypeOK
  <2>8. QED
    BY <1>1, <2>2, <2>3, <2>4, <2>5, <2>6, <2>7
       DEF Fetch, Get, Miss, Download, RequestFails, DownloadFails, EvictScan, Return
<1>2. ASSUME NEW u \in Urls, Publish(u) PROVE CacheTypeOK' /\ Distinct(lru)'
  <2>1. upstream[u] + 1 \in Version \ {0}
    BY <1>0, <1>2, BoundsAssumption DEF Publish, Version
  <2>2. upstream' \in [Urls -> Version \ {0}]
    BY <1>0, <1>2, <2>1 DEF Publish
  <2>3. QED
    BY <1>0, <1>2, <2>2 DEF Publish, disk, CacheTypeOK
<1>3. ASSUME NEW u \in Urls, Expire(u) PROVE CacheTypeOK' /\ Distinct(lru)'
  <2>1. meta' \in [Urls -> Meta]
    BY <1>0, <1>3 DEF Expire, Meta
  <2>2. QED
    BY <1>0, <1>3, <2>1 DEF Expire, CacheTypeOK
<1>4. CASE ProcessDies
  <2>1. meta' \in [Urls -> Meta] /\ flight' \in [Urls -> Flight]
    BY <1>0, <1>4, IdleFacts DEF ProcessDies, Stale, Meta
  <2>2. QED
    BY <1>0, <1>4, <2>1 DEF ProcessDies, CacheTypeOK
<1>5. CASE UNCHANGED cvars
  BY <1>0, <1>5 DEF cvars, CacheTypeOK
<1>6. QED
  BY <1>1, <1>2, <1>3, <1>4, <1>5 DEF CacheNext

-----------------------------------------------------------------------------
(* What is confirmed is served.                                            *)

\* Versions are numbers.
LEMMA NumberFacts ==
  ASSUME CacheTypeOK, NEW u \in Urls
  PROVE  /\ flight[u] \in Flight /\ meta[u] \in Meta
         /\ upstream[u] \in Nat \ {0} /\ blob[u] \in Nat /\ meta[u].etag \in Nat
         /\ flight[u].read.etag \in Nat /\ flight[u].body \in Nat
<1>1. /\ flight[u] \in Flight /\ meta[u] \in Meta
      /\ upstream[u] \in Version \ {0} /\ blob[u] \in Version
  BY DEF CacheTypeOK
<1>2. flight[u].read \in Meta /\ flight[u].body \in Version
  BY <1>1 DEF Flight
<1>3. flight[u].read.etag \in Version /\ meta[u].etag \in Version
  BY <1>1, <1>2 DEF Meta
<1>4. \A v \in Version : v \in Nat
  BY BoundsAssumption DEF Version
<1>5. QED
  BY <1>1, <1>2, <1>3, <1>4

\* A fetch keeps its versions in order while others only remove its files and upstream
\* moves on.
LEMMA VersionStands ==
  ASSUME CacheTypeOK, CacheTypeOK', NEW u \in Urls, VersionOK(u), flight'[u] = flight[u],
         upstream[u] <= upstream'[u], blob'[u] \in {0, blob[u]},
         meta'[u].etag \in {0, meta[u].etag}
  PROVE  VersionOK(u)'
<1>1. /\ upstream[u] \in Nat /\ upstream'[u] \in Nat /\ blob[u] \in Nat /\ meta[u].etag \in Nat
      /\ flight[u].read.etag \in Nat /\ flight[u].body \in Nat
  BY NumberFacts, BoundsAssumption DEF CacheTypeOK, Version
<1>2. QED
  BY <1>1 DEF VersionOK

\* A turn of a fetch keeps its versions in order: a body is in place before its validator,
\* and both are upstream's or older.
LEMMA VersionTurn ==
  ASSUME CacheTypeOK, CacheTypeOK', BoundInv, NEW u \in Urls, VersionOK(u), Get(u) \/ Fetch(u)
  PROVE  VersionOK(u)'
<1> DEFINE f == flight[u]
<1>0. /\ f \in Flight /\ meta[u] \in Meta /\ meta[u].etag \in Nat
      /\ upstream[u] \in Nat \ {0} /\ blob[u] \in Nat
      /\ f.read.etag \in Nat /\ f.body \in Nat
      /\ upstream' = upstream /\ Idle \in Flight
  BY FetchFacts, IdleFacts, NumberFacts DEF Turn
<1>00. ASSUME NEW g, Proceed(u, g) PROVE flight'[u] = g
  BY <1>00 DEF Proceed, CacheTypeOK
<1>1. CASE Get(u)
  <2>1. flight'[u].pc = "check" /\ flight'[u].read = meta[u] /\ blob' = blob /\ meta' = meta
    BY <1>0, <1>00, <1>1 DEF Get, disk, Flight, Idle
  <2>2. QED
    BY <1>0, <2>1 DEF VersionOK
<1>2. CASE Hit(u)
  <2>1. flight'[u].pc = "done" /\ flight'[u].how = "hit" /\ blob' = blob /\ meta' = meta
    BY <1>0, <1>00, <1>2 DEF Hit, Flight
  <2>2. QED
    BY <1>0, <2>1 DEF VersionOK
<1>3. CASE Miss(u)
  <2>1. /\ f.pc = "check" /\ flight'[u].pc = "request" /\ flight'[u].read = f.read
        /\ blob' = blob /\ meta' = meta
    BY <1>0, <1>00, <1>3 DEF Miss, At, disk, Flight
  <2>2. QED
    BY <1>0, <2>1 DEF VersionOK
<1>4. CASE NotModified(u)
  <2>1. /\ f.pc = "request" /\ f.read.etag = upstream[u]
        /\ flight'[u].pc = "done" /\ flight'[u].body = upstream[u]
        /\ blob' = blob /\ meta'[u].etag = upstream[u]
    BY <1>0, <1>00, <1>4 DEF NotModified, At, Flight, CacheTypeOK
  <2>2. blob[u] \in {0, upstream[u]}
    BY <1>0, <2>1 DEF VersionOK
  <2>3. QED
    BY <1>0, <2>1, <2>2 DEF VersionOK
<1>5. CASE Download(u)
  <2>1. /\ flight'[u].pc = "rename" /\ flight'[u].body = upstream[u]
        /\ blob' = blob /\ meta' = meta
    BY <1>0, <1>00, <1>5 DEF Download, disk, Flight
  <2>2. QED
    BY <1>0, <2>1 DEF VersionOK
<1>6. CASE RequestFails(u) \/ DownloadFails(u)
  <2>1. /\ flight'[u].pc = "done" /\ flight'[u].how \in {"stale", "error"}
        /\ blob' = blob /\ meta' = meta
    <3>1. \A h : [f EXCEPT !.pc = "done", !.how = h].pc = "done"
                 /\ [f EXCEPT !.pc = "done", !.how = h].how = h
      BY <1>0 DEF Flight
    <3>2. QED
      BY <1>00, <1>6, <3>1 DEF RequestFails, DownloadFails, disk
  <2>2. QED
    BY <1>0, <2>1 DEF VersionOK
<1>7. CASE StoreRename(u)
  <2>1. /\ f.pc = "rename" /\ flight'[u].pc = "meta" /\ flight'[u].body = f.body
        /\ blob'[u] = f.body /\ meta' = meta
    BY <1>0, <1>00, <1>7 DEF StoreRename, At, Flight, CacheTypeOK
  <2>2. QED
    BY <1>0, <2>1 DEF VersionOK
<1>8. CASE StoreMeta(u)
  <2>1. /\ f.pc = "meta" /\ flight'[u].pc = "scan" /\ flight'[u].body = f.body
        /\ blob' = blob /\ meta'[u].etag = f.body
    BY <1>0, <1>00, <1>8 DEF StoreMeta, At, Flight, CacheTypeOK
  <2>2. QED
    BY <1>0, <2>1 DEF VersionOK
<1>9. CASE EvictScan(u) \/ EvictBlob(u) \/ EvictMeta(u)
  <2>1. /\ f.pc \in {"scan", "evictBlob", "evictMeta"}
        /\ flight'[u].pc \in {"evictBlob", "evictMeta", "done"} /\ flight'[u].body = f.body
    <3>1. CASE EvictScan(u)
      BY <1>0, <1>00, <3>1 DEF EvictScan, At, Flight
    <3>2. CASE EvictBlob(u)
      BY <1>0, <1>00, <3>2 DEF EvictBlob, At, Flight
    <3>3. CASE EvictMeta(u)
      BY <1>0, <1>00, <3>3 DEF EvictMeta, At, Flight
    <3>4. QED
      BY <1>9, <3>1, <3>2, <3>3
  <2>2. blob'[u] \in {0, blob[u]} /\ meta'[u].etag \in {0, meta[u].etag}
    <3>1. CASE EvictScan(u)
      BY <3>1 DEF EvictScan, disk
    <3>2. CASE EvictBlob(u)
      BY <3>2 DEF EvictBlob, CacheTypeOK
    <3>3. CASE EvictMeta(u)
      BY <3>3 DEF EvictMeta, CacheTypeOK, NoMeta
    <3>4. QED
      BY <1>9, <3>1, <3>2, <3>3
  <2>3. QED
    BY <1>0, <2>1, <2>2 DEF VersionOK
<1>10. CASE Return(u)
  <2>1. flight'[u] = Idle /\ blob' = blob /\ meta' = meta
    BY <1>00, <1>10 DEF Return, disk
  <2>2. flight'[u].pc = "idle"
    BY <2>1, IdleFacts
  <2>3. QED
    BY <1>0, <2>1, <2>2 DEF VersionOK
<1>11. QED
  BY <1>1, <1>2, <1>3, <1>4, <1>5, <1>6, <1>7, <1>8, <1>9, <1>10 DEF Fetch

\* Every step keeps the versions in order.
LEMMA VersionStep ==
  ASSUME CacheTypeOK, CacheTypeOK', VersionInv, BoundInv, [CacheNext]_cvars
  PROVE  VersionInv'
<1> SUFFICES ASSUME NEW w \in Urls PROVE VersionOK(w)'
  BY DEF VersionInv
<1>0. VersionOK(w) /\ upstream[w] \in Nat
  BY DEF VersionInv, CacheTypeOK, Version
<1>1. ASSUME NEW u \in Urls, Get(u) \/ Fetch(u) PROVE VersionOK(w)'
  <2>1. CASE u = w
    BY <1>0, <1>1, <2>1, VersionTurn
  <2>2. CASE u # w
    <3>1. flight'[w] = flight[w] /\ upstream' = upstream
      BY <1>1, <2>2, FetchFacts DEF Turn
    <3>2. blob'[w] \in {0, blob[w]} /\ meta'[w].etag \in {0, meta[w].etag}
      <4>1. CASE EvictBlob(u)
        BY <4>1 DEF EvictBlob, CacheTypeOK
      <4>2. CASE EvictMeta(u)
        BY <4>2 DEF EvictMeta, CacheTypeOK, NoMeta
      <4>3. CASE StoreRename(u) \/ StoreMeta(u) \/ NotModified(u) \/ Hit(u)
        BY <2>2, <4>3 DEF StoreRename, StoreMeta, NotModified, Hit, CacheTypeOK
      <4>4. QED
        BY <1>1, <4>1, <4>2, <4>3
           DEF Fetch, Get, Miss, Download, RequestFails, DownloadFails, EvictScan, Return, disk
    <3>3. QED
      BY <1>0, <3>1, <3>2, VersionStands
  <2>3. QED
    BY <2>1, <2>2
<1>2. ASSUME NEW u \in Urls, Publish(u) PROVE VersionOK(w)'
  <2>1. upstream[w] <= upstream'[w] /\ blob' = blob /\ meta' = meta /\ flight' = flight
    BY <1>0, <1>2 DEF Publish, disk, CacheTypeOK, Version
  <2>2. QED
    BY <1>0, <2>1, VersionStands
<1>3. ASSUME NEW u \in Urls, Expire(u) PROVE VersionOK(w)'
  <2>1. meta'[w].etag = meta[w].etag
    BY <1>3 DEF Expire, CacheTypeOK, Meta
  <2>2. QED
    BY <1>0, <1>3, <2>1, VersionStands DEF Expire
<1>4. CASE ProcessDies
  <2>1. /\ flight'[w] = Idle /\ blob' = blob /\ upstream' = upstream
        /\ meta'[w] = [meta[w] EXCEPT !.fresh = FALSE]
    BY <1>4 DEF ProcessDies, Stale
  <2>2. meta'[w].etag = meta[w].etag
    BY <2>1, NumberFacts DEF Meta
  <2>3. flight'[w].pc = "idle"
    BY <2>1, IdleFacts
  <2>4. QED
    BY <1>0, <2>1, <2>2, <2>3 DEF VersionOK
<1>5. CASE UNCHANGED cvars
  BY <1>0, <1>5, VersionStands DEF cvars
<1>6. QED
  BY <1>1, <1>2, <1>3, <1>4, <1>5 DEF CacheNext

-----------------------------------------------------------------------------
(* The bound.                                                              *)

\* What is part of a set that fits, fits.
LEMMA FitsSubset ==
  ASSUME NEW S, IsFiniteSet(S), Fits(S), NEW T \in SUBSET S
  PROVE  Fits(T)
<1>1. /\ Cardinality(S) \in Nat /\ Cardinality(T) \in Nat
      /\ Cardinality(T) <= Cardinality(S) /\ Cardinality(S) <= MaxBlobs
  BY FS_Subset, FS_CardinalityType DEF Fits
<1>2. QED
  BY <1>1, BoundsAssumption DEF Fits

\* There are as many blobs as the list is long.
LEMMA BlobFacts ==
  ASSUME CacheTypeOK, Distinct(lru)
  PROVE  IsFiniteSet(Blobs) /\ Cardinality(Blobs) = Len(lru)
<1>1. /\ lru \in Seq(Urls) /\ DOMAIN lru = 1 .. Len(lru) /\ Len(lru) \in Nat
      /\ Blobs = {lru[i] : i \in DOMAIN lru}
  BY DEF CacheTypeOK, Blobs, ToSet
<1>2. lru \in [1 .. Len(lru) -> Blobs]
  BY <1>1
<1>3. lru \in Surjection(1 .. Len(lru), Blobs)
  BY <1>1, <1>2 DEF Surjection
<1>4. lru \in Injection(1 .. Len(lru), Blobs)
  BY <1>1, <1>2 DEF Injection, IsInjective, Distinct
<1>5. IsFiniteSet(1 .. Len(lru)) /\ Cardinality(1 .. Len(lru)) = Len(lru)
  BY <1>1, FS_Interval
<1>6. QED
  BY <1>3, <1>4, <1>5, FS_Surjection

\* Without the victims of an eviction the blobs fit (the loop of evict ends when the total
\* is within the bound).
LEMMA VictimsSuffice ==
  ASSUME CacheTypeOK, Distinct(lru), ~(Len(lru) <= MaxBlobs)
  PROVE  Fits(Blobs \ ToSet(SubSeq(lru, 1, Len(lru) - MaxBlobs)))
<1> DEFINE v == SubSeq(lru, 1, Len(lru) - MaxBlobs)
           I == Len(lru) - MaxBlobs + 1 .. Len(lru)
           g == [i \in I |-> lru[i]]
           T == {lru[i] : i \in I}
<1>1. /\ Len(lru) \in Nat /\ MaxBlobs \in Nat /\ Blobs = {lru[i] : i \in DOMAIN lru}
  BY BoundsAssumption DEF CacheTypeOK, Blobs, ToSet
<1>2. \A i \in DOMAIN lru : lru[i] \in ToSet(v) \/ i \in I
  BY VictimFacts
<1>3. Blobs \ ToSet(v) \subseteq T
  BY <1>1, <1>2
<1>4. g \in Surjection(I, T)
  BY DEF Surjection
<1>5. IsFiniteSet(I) /\ Cardinality(I) = MaxBlobs
  <2>1. Len(lru) - MaxBlobs + 1 \in Int /\ Len(lru) \in Int
    BY <1>1
  <2>2. /\ IsFiniteSet(I)
        /\ Cardinality(I) = IF Len(lru) - MaxBlobs + 1 > Len(lru) THEN 0
                            ELSE Len(lru) - (Len(lru) - MaxBlobs + 1) + 1
    BY <2>1, FS_Interval
  <2>3. QED
    BY <1>1, <2>2, BoundsAssumption
<1> HIDE DEF I, g, T, v
<1>6. IsFiniteSet(T) /\ Cardinality(T) <= Cardinality(I)
  BY <1>4, <1>5, FS_Surjection
<1>7. Fits(T)
  BY <1>5, <1>6 DEF Fits
<1>8. QED
  BY <1>3, <1>6, <1>7, FitsSubset DEF v

\* Somebody is between a rename and the eviction that follows it; the last eviction to list
\* the blobs is under way; they fit; or there was no eviction since the process began.
Growing == \E u \in Urls : flight[u].pc \in {"meta", "scan"}
Shrinking == \E u \in Urls : Evicting(u) /\ Fits(Blobs \ Doomed(u))
Untried == \A u \in Urls : ~Evicting(u) /\ ~(At(u, "done") /\ flight[u].how = "stored")

\* A turn that neither stores nor evicts keeps the bound.
LEMMA QuietTurn ==
  ASSUME BoundInv, Distinct(lru)', NEW u \in Urls, Turn(u), blob' = blob,
         flight[u].pc \notin {"meta", "scan", "evictBlob", "evictMeta"},
         flight'[u].pc \notin {"evictBlob", "evictMeta"},
         ~(flight'[u].pc = "done" /\ flight'[u].how = "stored")
  PROVE  BoundInv'
<1>1. /\ \A w \in Urls : w # u => flight'[w] = flight[w]
      /\ Blobs' = Blobs
  BY DEF Turn, Blobs
<1>2. \A w \in Urls : Evicting(w)' => flight'[w].victims # <<>>
  BY <1>1 DEF BoundInv, Evicting
<1>3. Growing => Growing'
  BY <1>1 DEF Growing
<1>4. Shrinking => Shrinking'
  <2> SUFFICES ASSUME NEW w \in Urls, Evicting(w), Fits(Blobs \ Doomed(w)) PROVE Shrinking'
    BY DEF Shrinking
  <2>1. flight'[w] = flight[w]
    BY <1>1 DEF Evicting
  <2>2. Evicting(w)' /\ Doomed(w)' = Doomed(w)
    BY <2>1 DEF Evicting, Doomed, At
  <2>3. QED
    BY <1>1, <2>2 DEF Shrinking, Fits
<1>5. Fits(Blobs) => Fits(Blobs)'
  BY <1>1 DEF Fits
<1>6. Untried => Untried'
  BY <1>1 DEF Untried, Evicting, At
<1>7. QED
  BY <1>2, <1>3, <1>4, <1>5, <1>6 DEF BoundInv, Growing, Shrinking, Untried

\* An eviction starts with a list without whose victims the blobs fit, or finds that they
\* fit already.
LEMMA ScanTurn ==
  ASSUME CacheTypeOK, BoundInv, NEW u \in Urls, EvictScan(u)
  PROVE  BoundInv'
<1> DEFINE f == flight[u]
           v == SubSeq(lru, 1, Len(lru) - MaxBlobs)
<1>1. /\ Turn(u) /\ f \in Flight /\ Distinct(lru) /\ blob' = blob /\ lru' = lru
      /\ flight' = [flight EXCEPT ![u] = flight'[u]]
  BY FetchFacts DEF Fetch, CacheTypeOK, BoundInv, EvictScan, disk, Proceed
<1>2. Blobs' = Blobs /\ Distinct(lru)' /\ \A w \in Urls : w # u => flight'[w] = flight[w]
  BY <1>1 DEF Blobs, Turn
<1>3. CASE Len(lru) <= MaxBlobs
  <2>1. flight'[u].pc = "done"
    BY <1>1, <1>3 DEF EvictScan, Proceed, CacheTypeOK, Flight
  <2>2. Fits(Blobs)'
    BY <1>1, <1>2, <1>3, BlobFacts DEF Fits
  <2>3. \A w \in Urls : Evicting(w)' => flight'[w].victims # <<>>
    BY <1>2, <2>1 DEF BoundInv, Evicting
  <2>4. QED
    BY <1>2, <2>2, <2>3 DEF BoundInv
<1>4. CASE ~(Len(lru) <= MaxBlobs)
  <2>1. flight'[u].pc = "evictBlob" /\ flight'[u].victims = v
    BY <1>1, <1>4 DEF EvictScan, Proceed, CacheTypeOK, Flight
  <2>2. v # <<>> /\ Fits(Blobs \ ToSet(v))
    BY <1>1, <1>4, VictimFacts, VictimsSuffice
  <2>3. \A w \in Urls : Evicting(w)' => flight'[w].victims # <<>>
    BY <1>2, <2>1, <2>2 DEF BoundInv, Evicting
  <2>4. Doomed(u)' = ToSet(v) /\ Evicting(u)'
    BY <2>1 DEF Doomed, Evicting, At
  <2>5. Fits(Blobs' \ Doomed(u)')
    BY <1>2, <2>2, <2>4
  <2>6. QED
    BY <1>2, <2>3, <2>4, <2>5 DEF BoundInv, Fits
<1>5. QED
  BY <1>3, <1>4

\* Deleting a victim brings every eviction nearer to the bound.
LEMMA EvictBlobTurn ==
  ASSUME CacheTypeOK, BoundInv, Distinct(lru)', NEW u \in Urls, EvictBlob(u)
  PROVE  BoundInv'
<1> DEFINE f == flight[u]
           v == Head(f.victims)
<1>1. /\ Turn(u) /\ f \in Flight /\ f.pc = "evictBlob" /\ Evicting(u) /\ Distinct(lru)
      /\ flight'[u].pc = "evictMeta" /\ flight'[u].victims = f.victims
      /\ blob' = [blob EXCEPT ![v] = 0]
  <2>1. Turn(u) /\ f \in Flight /\ f.pc = "evictBlob" /\ Distinct(lru)
    BY FetchFacts DEF Fetch, CacheTypeOK, BoundInv, EvictBlob, At
  <2>2. flight'[u] = [f EXCEPT !.pc = "evictMeta"] /\ blob' = [blob EXCEPT ![v] = 0]
    BY DEF EvictBlob, Proceed, CacheTypeOK
  <2>3. QED
    BY <2>1, <2>2 DEF Flight, Evicting
<1>2. v \in Urls /\ ToSet(f.victims) = {v} \cup ToSet(Tail(f.victims)) /\ f.victims # <<>>
  BY <1>1, HeadVictim DEF BoundInv
<1>3. /\ Blobs' = Blobs \ {v} /\ IsFiniteSet(Blobs)
      /\ \A w \in Urls : w # u => flight'[w] = flight[w]
  <2>1. blob \in [Urls -> Version]
    BY DEF CacheTypeOK
  <2>2. Blobs' = Blobs \ {v}
    BY <1>1, <1>2, <2>1 DEF Blobs
  <2>3. QED
    BY <1>1, <2>2, BlobFacts DEF Turn
<1>4. \A w \in Urls : Evicting(w)' => flight'[w].victims # <<>>
  BY <1>1, <1>2, <1>3 DEF BoundInv, Evicting
<1>5. Growing => Growing'
  BY <1>1, <1>3 DEF Growing
<1>6. Shrinking => Shrinking'
  <2> SUFFICES ASSUME NEW w \in Urls, Evicting(w), Fits(Blobs \ Doomed(w)) PROVE Shrinking'
    BY DEF Shrinking
  <2>1. Evicting(w)' /\ Doomed(w) \subseteq Doomed(w)' \cup {v}
    <3>1. CASE w = u
      <4>1. Doomed(w) = ToSet(f.victims) /\ Doomed(w)' = ToSet(Tail(f.victims)) /\ Evicting(w)'
        BY <1>1, <3>1 DEF Doomed, At, Evicting
      <4>2. QED
        BY <1>2, <4>1
    <3>2. CASE w # u
      BY <1>3, <3>2 DEF Doomed, At, Evicting
    <3>3. QED
      BY <3>1, <3>2
  <2>2. Blobs' \ Doomed(w)' \subseteq Blobs \ Doomed(w)
    BY <1>3, <2>1
  <2>3. IsFiniteSet(Blobs \ Doomed(w))
    BY <1>3, FS_Subset
  <2>4. Fits(Blobs' \ Doomed(w)')
    BY <2>2, <2>3, FitsSubset
  <2>5. QED
    BY <2>1, <2>4 DEF Shrinking, Fits
<1>7. Fits(Blobs) => Fits(Blobs)'
  <2>1. Fits(Blobs) => Fits(Blobs')
    BY <1>3, FitsSubset
  <2>2. QED
    BY <2>1 DEF Fits
<1>8. ~Untried
  BY <1>1 DEF Untried
<1>9. QED
  BY <1>4, <1>5, <1>6, <1>7, <1>8 DEF BoundInv, Growing, Shrinking, Untried

\* The last victim of an eviction is gone before it ends.
LEMMA EvictMetaTurn ==
  ASSUME CacheTypeOK, BoundInv, NEW u \in Urls, EvictMeta(u)
  PROVE  BoundInv'
<1> DEFINE f == flight[u]
           rest == Tail(f.victims)
<1>1. /\ Turn(u) /\ f \in Flight /\ f.pc = "evictMeta" /\ Evicting(u)
      /\ blob' = blob /\ lru' = lru /\ Doomed(u) = ToSet(rest)
  BY FetchFacts DEF Fetch, CacheTypeOK, BoundInv, EvictMeta, At, Evicting, Doomed
<1>2. /\ Blobs' = Blobs /\ Distinct(lru)'
      /\ \A w \in Urls : w # u => flight'[w] = flight[w]
  BY <1>1 DEF Blobs, Turn, BoundInv
<1>3. \/ rest = <<>> /\ flight'[u].pc = "done"
      \/ rest # <<>> /\ flight'[u].pc = "evictBlob" /\ flight'[u].victims = rest
  BY <1>1 DEF EvictMeta, Proceed, CacheTypeOK, Flight
<1>4. \A w \in Urls : Evicting(w)' => flight'[w].victims # <<>>
  BY <1>2, <1>3 DEF BoundInv, Evicting
<1>5. Growing => Growing'
  BY <1>1, <1>2 DEF Growing
<1>6. Shrinking => Shrinking' \/ Fits(Blobs)'
  <2> SUFFICES ASSUME NEW w \in Urls, Evicting(w), Fits(Blobs \ Doomed(w))
               PROVE  Shrinking' \/ Fits(Blobs)'
    BY DEF Shrinking
  <2>1. CASE w = u /\ rest = <<>>
    <3>1. Doomed(w) = {}
      BY <1>1, <2>1 DEF ToSet
    <3>2. QED
      BY <1>2, <3>1 DEF Fits
  <2>2. CASE ~(w = u /\ rest = <<>>)
    <3>1. Evicting(w)' /\ Doomed(w)' = Doomed(w)
      BY <1>1, <1>2, <1>3, <2>2 DEF Evicting, Doomed, At
    <3>2. QED
      BY <1>2, <3>1 DEF Shrinking, Fits
  <2>3. QED
    BY <2>1, <2>2
<1>7. Fits(Blobs) => Fits(Blobs)'
  BY <1>2 DEF Fits
<1>8. ~Untried
  BY <1>1 DEF Untried
<1>9. QED
  BY <1>2, <1>4, <1>5, <1>6, <1>7, <1>8 DEF BoundInv, Growing, Shrinking, Untried

\* Every step keeps the bound.
LEMMA BoundStep ==
  ASSUME CacheTypeOK, CacheTypeOK', VersionInv, BoundInv, Distinct(lru)', [CacheNext]_cvars
  PROVE  BoundInv'
<1>1. ASSUME NEW u \in Urls, Get(u) \/ Fetch(u) PROVE BoundInv'
  <2> DEFINE f == flight[u]
  <2>1. Turn(u) /\ f \in Flight /\ Idle \in Flight
    BY <1>1, FetchFacts, IdleFacts DEF CacheTypeOK
  <2>2. ASSUME NEW g, Proceed(u, g) PROVE flight'[u] = g
    BY <2>2 DEF Proceed, CacheTypeOK
  <2>3. CASE StoreRename(u) \/ StoreMeta(u)
    <3>1. flight'[u].pc \in {"meta", "scan"}
      BY <2>1, <2>2, <2>3 DEF StoreRename, StoreMeta, Flight
    <3>2. \A w \in Urls : Evicting(w)' => flight'[w].victims # <<>>
      BY <2>1, <3>1 DEF Turn, BoundInv, Evicting
    <3>3. QED
      BY <3>1, <3>2 DEF BoundInv
  <2>4. CASE EvictScan(u)
    BY <2>4, ScanTurn
  <2>5. CASE EvictBlob(u)
    BY <2>5, EvictBlobTurn
  <2>6. CASE EvictMeta(u)
    BY <2>6, EvictMetaTurn
  <2>7. CASE Get(u) \/ Return(u)
    <3>1. /\ f.pc \in {"idle", "done"} /\ blob' = blob
          /\ flight'[u].pc \in {"check", "idle"}
      BY <2>1, <2>2, <2>7, IdleFacts DEF Get, Return, At, disk, Idle
    <3>2. QED
      BY <2>1, <3>1, QuietTurn
  <2>8. CASE Hit(u) \/ Miss(u) \/ NotModified(u) \/ Download(u) \/ RequestFails(u) \/ DownloadFails(u)
    <3>1. f.pc \in {"check", "request", "rename"} /\ blob' = blob
      BY <2>8 DEF Hit, Miss, NotModified, Download, RequestFails, DownloadFails, At, disk
    <3>2. \/ flight'[u].pc \in {"request", "rename"}
          \/ flight'[u].pc = "done" /\ flight'[u].how \in {"hit", "notModified", "stale", "error"}
      <4>1. CASE Hit(u) \/ Miss(u) \/ NotModified(u) \/ Download(u)
        <5>1. CASE Hit(u)
          BY <2>1, <2>2, <5>1 DEF Hit, Flight
        <5>2. CASE Miss(u) \/ Download(u)
          <6>1. \/ flight'[u] = [f EXCEPT !.pc = "request"]
                \/ flight'[u] = [f EXCEPT !.pc = "rename", !.body = upstream[u]]
            BY <2>2, <5>2 DEF Miss, Download
          <6>2. QED
            BY <2>1, <6>1 DEF Flight
        <5>3. CASE NotModified(u)
          <6>1. flight'[u] = [f EXCEPT !.pc = "done", !.how = "notModified", !.body = upstream[u]]
            BY <2>2, <5>3 DEF NotModified
          <6>2. QED
            BY <2>1, <6>1 DEF Flight
        <5>4. QED
          BY <4>1, <5>1, <5>2, <5>3
      <4>2. CASE RequestFails(u) \/ DownloadFails(u)
        <5>1. \A h : [f EXCEPT !.pc = "done", !.how = h].pc = "done"
                     /\ [f EXCEPT !.pc = "done", !.how = h].how = h
          BY <2>1 DEF Flight
        <5>2. \E h \in {"stale", "error"} : flight'[u] = [f EXCEPT !.pc = "done", !.how = h]
          BY <2>2, <4>2 DEF RequestFails, DownloadFails
        <5>3. QED
          BY <5>1, <5>2
      <4>3. QED
        BY <2>8, <4>1, <4>2
    <3>3. QED
      BY <2>1, <3>1, <3>2, QuietTurn
  <2>9. QED
    BY <1>1, <2>3, <2>4, <2>5, <2>6, <2>7, <2>8 DEF Fetch
<1>2. CASE blob' = blob /\ flight' = flight
  <2>1. Blobs' = Blobs /\ \A u \in Urls : Doomed(u)' = Doomed(u)
    BY <1>2 DEF Blobs, Doomed, At
  <2>2. QED
    BY <1>2, <2>1 DEF BoundInv, Fits, Evicting, At
<1>3. CASE ProcessDies
  <2>1. \A u \in Urls : flight'[u].pc = "idle"
    BY <1>3, IdleFacts DEF ProcessDies
  <2>2. QED
    BY <2>1 DEF BoundInv, Evicting, At
<1>4. QED
  BY <1>1, <1>2, <1>3 DEF CacheNext, cvars, Publish, Expire, disk

-----------------------------------------------------------------------------
(* The theorems on the cache.                                              *)

\* The three parts together are inductive: evict and store change the files one at a time,
\* and the list stays the list of the blobs.
THEOREM CacheInvariant == CacheSpec => [](CacheTypeOK /\ VersionInv /\ BoundInv)
<1>1. CacheInit => CacheTypeOK /\ VersionInv /\ BoundInv
  <2> SUFFICES ASSUME CacheInit PROVE CacheTypeOK /\ VersionInv /\ BoundInv
    OBVIOUS
  <2>1. /\ \A u \in Urls : flight[u].pc = "idle" /\ blob[u] = 0 /\ upstream[u] = 1
        /\ \A u \in Urls : meta[u].etag = 0
        /\ lru = <<>>
    BY IdleFacts DEF CacheInit, NoMeta
  <2>2. CacheTypeOK
    <3>1. 0 \in Version /\ 1 \in Version \ {0}
      BY BoundsAssumption DEF Version
    <3>2. ToSet(lru) = {} /\ lru \in Seq(Urls) /\ {u \in Urls : blob[u] # 0} = {}
      BY <2>1 DEF ToSet
    <3>3. QED
      BY <3>1, <3>2, IdleFacts DEF CacheInit, CacheTypeOK
  <2>3. VersionInv
    BY <2>1 DEF VersionInv, VersionOK
  <2>4. BoundInv
    BY <2>1 DEF BoundInv, Distinct, Evicting, At
  <2>5. QED
    BY <2>2, <2>3, <2>4
<1>2. CacheTypeOK /\ VersionInv /\ BoundInv /\ [CacheNext]_cvars
      => (CacheTypeOK /\ VersionInv /\ BoundInv)'
  <2> SUFFICES ASSUME CacheTypeOK, VersionInv, BoundInv, [CacheNext]_cvars
               PROVE  (CacheTypeOK /\ VersionInv /\ BoundInv)'
    OBVIOUS
  <2>1. CacheTypeOK' /\ Distinct(lru)'
    BY CacheTypeStep
  <2>2. VersionInv'
    BY <2>1, VersionStep
  <2>3. BoundInv'
    BY <2>1, BoundStep
  <2>4. QED
    BY <2>1, <2>2, <2>3
<1>3. QED
  BY <1>1, <1>2, PTL DEF CacheSpec

\* What Get returns after a 200 or a 304 is the body upstream has just confirmed, however
\* crashes cut a store short (fetch, store: cache.go).
THEOREM ConfirmedVersionIsServed == CacheSpec => []ConfirmedIsServed
<1>1. VersionInv => ConfirmedIsServed
  BY DEF VersionInv, VersionOK, ConfirmedIsServed, At
<1>2. QED
  BY <1>1, CacheInvariant, PTL

\* "keeps total blob size under maxBytes": when a store has evicted and no other store is
\* between its rename and the end of its eviction, the blobs fit, whoever's eviction
\* deleted which of them (evict: cache.go).
THEOREM StoresKeepTheBound == CacheSpec => []StoreKeepsBound
<1>1. CacheTypeOK /\ BoundInv => StoreKeepsBound
  <2> SUFFICES ASSUME CacheTypeOK, BoundInv, NEW u \in Urls,
                      At(u, "done"), flight[u].how = "stored",
                      \A v \in Urls \ {u} :
                        flight[v].pc \notin {"meta", "scan", "evictBlob", "evictMeta"}
               PROVE  Len(lru) <= MaxBlobs
    BY DEF StoreKeepsBound
  <2>1. \A v \in Urls : flight[v].pc \notin {"meta", "scan", "evictBlob", "evictMeta"}
    BY DEF At
  <2>2. Fits(Blobs)
    BY <2>1 DEF BoundInv, Evicting
  <2>3. QED
    BY <2>2, BlobFacts DEF Fits, BoundInv
<1>2. QED
  BY <1>1, CacheInvariant, PTL

-----------------------------------------------------------------------------
(* The files of a server: rules, plugins and configs.                      *)

\* The last of a set of numbers is its maximum.
LEMMA LastIsMax ==
  ASSUME NEW S \in SUBSET Nat, NEW k \in S, IsLast(S, k)
  PROVE  Max(S) = k
<1>1. \A y \in S : k >= y
  BY DEF IsLast
<1>2. \A z \in S : (\A y \in S : z >= y) => z = k
  BY <1>1
<1>3. Max(S) \in S /\ \A y \in S : Max(S) >= y
  BY <1>1 DEF Max
<1>4. QED
  BY <1>2, <1>3

\* A plugin has a rule, and rules lay files at paths, no two of them at one path.
LEMMA RuleFacts ==
  ASSUME NEW p \in Plugins
  PROVE  /\ Len(Rules(p)) \in Nat \ {0}
         /\ \A r \in 1 .. Len(Rules(p)) : /\ Rules(p)[r] \in [DOMAIN Rules(p)[r] -> Files]
                                          /\ IsInjective(Rules(p)[r])
<1>1. CASE Layout[p] = <<>>
  <2> DEFINE id == [f \in Files |-> f]
  <2>1. Rules(p) = << id >>
    BY <1>1 DEF Rules
  <2>2. id \in [DOMAIN id -> Files] /\ IsInjective(id)
    BY DEF IsInjective
  <2> HIDE DEF id
  <2>3. Len(<< id >>) = 1 /\ << id >>[1] = id
    OBVIOUS
  <2>4. QED
    BY <2>1, <2>2, <2>3
<1>2. CASE Layout[p] # <<>>
  <2> DEFINE Maps == UNION {[D -> Files] : D \in SUBSET Files}
  <2>1. Layout[p] \in Seq(Maps) /\ Rules(p) = Layout[p]
    BY <1>2, LayoutAssumption DEF Rules
  <2>2. \A m \in Maps : m \in [DOMAIN m -> Files]
    OBVIOUS
  <2> HIDE DEF Maps
  <2>3. Len(Layout[p]) \in Nat \ {0} /\ \A r \in 1 .. Len(Layout[p]) : Layout[p][r] \in Maps
    BY <1>2, <2>1
  <2>4. \A r \in 1 .. Len(Layout[p]) : IsInjective(Layout[p][r])
    BY LayoutAssumption
  <2>5. QED
    BY <2>1, <2>2, <2>3, <2>4
<1>3. QED
  BY <1>1, <1>2

\* A rule copies files of its root that are published and not ignored, and all of them if
\* the root has them all.
LEMMA CopiedFacts ==
  ASSUME NEW p \in Plugins, NEW r \in 1 .. Len(Rules(p)), NEW root,
         root \subseteq Published[Source(p)] \ Ignore[p]
  PROVE  LET c == Copied(p, r, root) IN
         /\ \A x \in DOMAIN c : x \in Files /\ \E f \in LaidBy(p, r, x) : c[x] = <<"file", p, f>>
         /\ Published[Source(p)] \ Ignore[p] \subseteq root =>
              \A x : LaidBy(p, r, x) # {} => x \in DOMAIN c
<1> DEFINE m == Rules(p)[r]
           c == Copied(p, r, root)
           D == {m[f] : f \in root \cap DOMAIN m}
<1>1. m \in [DOMAIN m -> Files]
  BY RuleFacts
<1>2. \A x : LaidBy(p, r, x) = {f \in (Published[Source(p)] \ Ignore[p]) \cap DOMAIN m : m[f] = x}
  BY DEF LaidBy
<1>3. c = [t \in D |-> <<"file", p, CHOOSE f \in root \cap DOMAIN m : m[f] = t>>]
  BY DEF Copied
<1> HIDE DEF m, c
<1>4. ASSUME NEW x \in DOMAIN c
      PROVE  x \in Files /\ \E f \in LaidBy(p, r, x) : c[x] = <<"file", p, f>>
  <2> DEFINE g == CHOOSE f \in root \cap DOMAIN m : m[f] = x
  <2>1. \E f \in root \cap DOMAIN m : m[f] = x
    BY <1>3, <1>4
  <2>2. g \in root \cap DOMAIN m /\ m[g] = x
    BY <2>1
  <2>3. c[x] = <<"file", p, g>>
    BY <1>3, <1>4
  <2> HIDE DEF g
  <2>4. g \in LaidBy(p, r, x) /\ x \in Files
    BY <1>1, <1>2, <2>2
  <2>5. QED
    BY <2>3, <2>4
<1>5. ASSUME Published[Source(p)] \ Ignore[p] \subseteq root, NEW x, LaidBy(p, r, x) # {}
      PROVE  x \in DOMAIN c
  <2>1. PICK f \in root \cap DOMAIN m : m[f] = x
    BY <1>2, <1>5
  <2>2. QED
    BY <1>3, <2>1
<1>6. QED
  BY <1>4, <1>5 DEF c

\* Where a plugin has no template, its last rule that lays a file there decides.
LEMMA FromLastRule ==
  ASSUME NEW p \in Plugins, NEW x, x \notin Template[p], NEW k \in RulesAt(p, x),
         IsLast(RulesAt(p, x), k), NEW f \in LaidBy(p, k, x)
  PROVE  FromPlugin(p, x) = <<"file", p, f>>
<1>1. RulesAt(p, x) \in SUBSET Nat /\ k \in 1 .. Len(Rules(p))
  BY RuleFacts DEF RulesAt
<1>2. Max(RulesAt(p, x)) = k
  BY <1>1, LastIsMax
<1>3. \A g \in LaidBy(p, k, x) : g = f
  <2>1. IsInjective(Rules(p)[k])
    BY <1>1, RuleFacts
  <2>2. QED
    BY <2>1 DEF IsInjective, LaidBy
<1>4. (CHOOSE g \in LaidBy(p, k, x) : TRUE) = f
  BY <1>3
<1>5. QED
  BY <1>2, <1>4 DEF FromPlugin

\* The plugins and configs of a build are the catalog's.
LEMMA PlanFacts ==
  ASSUME ShapeOK, NEW s \in Servers, StageOK(s), pc[s] \in Building
  PROVE  /\ plan[s] \in Plans
         /\ plan[s].plugins \in Seq(Plugins) /\ Len(plan[s].plugins) \in Nat
         /\ plan[s].configs \in Seq(Configs) /\ Len(plan[s].configs) \in Nat
         /\ pc[s] \in Applying => Current(s) \in Plugins /\ at[s] \in 1 .. Len(plan[s].plugins)
         /\ at[s] \in Nat /\ rule[s] \in Nat
<1>1. plan[s] \in Plans
  BY DEF StageOK
<1>2. plan[s].plugins \in Seq(Plugins) /\ plan[s].configs \in Seq(Configs)
  BY <1>1, CatalogAssumption
<1>3. pc[s] \in Applying => at[s] \in 1 .. Len(plan[s].plugins)
  BY DEF StageOK
<1>4. QED
  BY <1>1, <1>2, <1>3 DEF Current, ShapeOK

-----------------------------------------------------------------------------
(* Steps that write no file.                                               *)

\* The servers a step does not concern.
Untouched(w) ==
  /\ pc'[w] = pc[w] /\ plan'[w] = plan[w] /\ at'[w] = at[w] /\ rule'[w] = rule[w]
  /\ temp'[w] = temp[w] /\ upper'[w] = upper[w] /\ stale'[w] = stale[w]

\* As long as the same plugins, rules and configs are in place, the paths stay right.
LEMMA SameFiles ==
  ASSUME NEW s, LaidOK(s), pc[s] \in Building,
         plan'[s] = plan[s], upper'[s] = upper[s], stale'[s] = stale[s],
         PluginsLaid(s)' = PluginsLaid(s), RulesLaid(s)' = RulesLaid(s),
         ConfigsWritten(s)' = ConfigsWritten(s),
         RulesLaid(s) = 0 \/ Current(s)' = Current(s)
  PROVE  LaidOK(s)'
<1>1. ASSUME NEW x
      PROVE  /\ PluginsSoFar(s, x)' = PluginsSoFar(s, x)
             /\ ConfigsSoFar(s, x)' = ConfigsSoFar(s, x)
  BY DEF PluginsSoFar, ConfigsSoFar, PathsOf, RulesAt, LaidBy, Rules, Source
<1>2. \A x : RulesSoFar(s, x)' = RulesSoFar(s, x)
  <2>1. CASE RulesLaid(s) = 0
    <3>1. 1 .. RulesLaid(s) = {} /\ 1 .. RulesLaid(s)' = {}
      BY <2>1
    <3>2. QED
      BY <3>1 DEF RulesSoFar
  <2>2. CASE Current(s)' = Current(s)
    BY <2>2 DEF RulesSoFar, LaidBy, Rules, Source
  <2>3. QED
    BY <2>1, <2>2
<1>3. \A x : RulesSoFar(s, x) # {} => Current(s)' = Current(s)
  BY DEF RulesSoFar
<1>4. \A x \in DOMAIN upper'[s] : TracedOK(s, x)'
  BY <1>1, <1>2 DEF TracedOK, LaidOK
<1>5. ASSUME NEW x \in Files, PathOK(s, x) PROVE PathOK(s, x)'
  <2>1. \A c : Holds(s, x, c)' <=> Holds(s, x, c)
    BY DEF Holds
  <2> DEFINE C == ConfigsSoFar(s, x)
             R == RulesSoFar(s, x)
             P == PluginsSoFar(s, x)
  <2>2. C' = C /\ R' = R /\ P' = P
    BY <1>1, <1>2
  <2> HIDE DEF C, R, P
  <2>3. ASSUME C # {} PROVE \E k \in C : IsLast(C, k) /\ Holds(s, x, <<"config", plan[s].configs[k]>>)'
    BY <1>5, <2>1, <2>3 DEF PathOK, C
  <2>4. ASSUME C = {}, R # {}
        PROVE  \E k \in R : /\ IsLast(R, k)
                            /\ \E f \in LaidBy(Current(s), k, x)' : Holds(s, x, <<"file", Current(s), f>>)'
    <3>1. Current(s)' = Current(s)
      BY <1>3, <2>4 DEF R
    <3>2. PICK k \in R : IsLast(R, k) /\ \E f \in LaidBy(Current(s), k, x) : Holds(s, x, <<"file", Current(s), f>>)
      BY <1>5, <2>4 DEF PathOK, C, R
    <3>3. QED
      BY <2>1, <3>1, <3>2
  <2>5. ASSUME C = {}, R = {}, P # {}
        PROVE  \E k \in P : IsLast(P, k) /\ Holds(s, x, FromPlugin(plan[s].plugins[k], x))'
    <3>1. PICK k \in P : IsLast(P, k) /\ Holds(s, x, FromPlugin(plan[s].plugins[k], x))
      BY <1>5, <2>5 DEF PathOK, C, R, P
    <3>2. QED
      BY <2>1, <3>1
  <2>6. QED
    BY <2>2, <2>3, <2>4, <2>5 DEF PathOK, C, R, P
<1>6. QED
  BY <1>4, <1>5 DEF LaidOK, SourcesAgree

\* A server whose own state a step leaves alone stays right, whatever is deleted from the
\* local directories, as long as every manifest's files stay.
LEMMA OthersStand ==
  ASSUME ShapeOK, DirsOK', NEW w \in Servers, StageOK(w), LaidOK(w), Untouched(w),
         \A d \in Dirs : dir'[d] \subseteq dir[d]
  PROVE  StageOK(w)' /\ LaidOK(w)'
<1>1. Current(w)' = Current(w)
  BY DEF Untouched, Current
<1>2. LaidOK(w)'
  <2>1. CASE pc[w] \in Building
    <3>1. /\ PluginsLaid(w)' = PluginsLaid(w) /\ RulesLaid(w)' = RulesLaid(w)
          /\ ConfigsWritten(w)' = ConfigsWritten(w)
      BY <1>1 DEF PluginsLaid, RulesLaid, ConfigsWritten, Untouched, Rules
    <3>2. QED
      BY <1>1, <2>1, <3>1, SameFiles DEF Untouched
  <2>2. CASE pc[w] \notin Building
    BY <2>2 DEF LaidOK, Untouched
  <2>3. QED
    BY <2>1, <2>2
<1>3. ASSUME pc[w] = "ignored"
      PROVE  /\ Root(w)' \subseteq Published[Source(Current(w))] \ Ignore[Current(w)]
             /\ SourcesAgree => Published[Source(Current(w))] \ Ignore[Current(w)] \subseteq Root(w)'
  <2>1. Current(w) \in Plugins
    BY <1>3, PlanFacts DEF Building, Applying
  <2>2. CASE DirOf[Current(w)] \in Dirs
    <3>1. /\ Root(w)' = dir'[DirOf[Current(w)]] /\ Root(w) = dir[DirOf[Current(w)]]
          /\ Source(Current(w)) = DirOf[Current(w)]
      BY <1>1, <2>2 DEF Root, Source
    <3>2. SourcesAgree =>
            Published[DirOf[Current(w)]] \ Ignore[Current(w)] \subseteq dir'[DirOf[Current(w)]]
      BY <2>1, <2>2 DEF DirsOK, SourcesAgree
    <3>3. QED
      BY <1>3, <2>2, <3>1, <3>2 DEF StageOK
  <2>3. CASE DirOf[Current(w)] \notin Dirs
    <3>1. Root(w)' = Root(w)
      BY <1>1, <2>3 DEF Root, Untouched
    <3>2. QED
      BY <1>3, <3>1 DEF StageOK
  <2>4. QED
    BY <2>2, <2>3
<1>4. StageOK(w)'
  BY <1>1, <1>3 DEF StageOK, Untouched, Source, Rules, SourcesAgree
<1>5. QED
  BY <1>2, <1>4

-----------------------------------------------------------------------------
(* Steps that write files.                                                 *)

\* A step that writes the files new into the upper directory of s.
Writes(s, new) ==
  upper' = [upper EXCEPT ![s] = Write(upper[s], new)] /\ stale' = stale /\ plan' = plan

\* What a step leaves at a path.
Left(s, x, c) == x \in DOMAIN upper'[s] /\ upper'[s][x] = c

\* A write leaves the new files, and the others as they were.
LEMMA LeftFacts ==
  ASSUME ShapeOK, NEW s \in Servers, NEW new, Writes(s, new), NEW x
  PROVE  /\ x \in DOMAIN new => Left(s, x, new[x])
         /\ x \notin DOMAIN new => \A c : Left(s, x, c) <=> Holds(s, x, c)
         /\ x \in DOMAIN upper'[s] <=> x \in DOMAIN upper[s] \/ x \in DOMAIN new
<1>1. upper'[s] = Write(upper[s], new)
  BY DEF Writes, ShapeOK
<1>2. /\ DOMAIN upper'[s] = DOMAIN upper[s] \cup DOMAIN new
      /\ \A y \in DOMAIN new : upper'[s][y] = new[y]
      /\ \A y \in DOMAIN upper[s] \ DOMAIN new : upper'[s][y] = upper[s][y]
  BY <1>1 DEF Write
<1>3. QED
  BY <1>2 DEF Holds, Left

\* A layout rule is copied over what earlier rules and plugins laid.
LEMMA LayRuleFiles ==
  ASSUME ShapeOK, NEW s \in Servers, StageOK(s), LaidOK(s), LayRule(s)
  PROVE  LaidOK(s)'
<1> DEFINE p == Current(s)
           r == rule[s]
           new == Copied(p, r, Root(s))
<1>1. /\ pc[s] = "ignored" /\ pc[s] \in Building /\ p \in Plugins /\ at[s] \in Nat \ {0}
      /\ r \in 1 .. Len(Rules(p)) /\ Len(Rules(p)) \in Nat
  <2>1. pc[s] = "ignored" /\ pc[s] \in Building /\ pc[s] \in Applying
    BY DEF LayRule, Building, Applying
  <2>2. p \in Plugins /\ at[s] \in Nat \ {0}
    BY <2>1, PlanFacts
  <2>3. QED
    BY <2>1, <2>2, RuleFacts DEF StageOK
<1>2. /\ Writes(s, new) /\ at' = at /\ Current(s)' = p
      /\ \/ pc'[s] = "ignored" /\ rule'[s] = r + 1
         \/ pc'[s] = "laid" /\ r = Len(Rules(p))
  <2>1. Writes(s, new) /\ at' = at /\ Current(s)' = p
    BY DEF LayRule, Writes, Current
  <2>2. \/ pc'[s] = "ignored" /\ rule'[s] = r + 1
        \/ pc'[s] = "laid" /\ ~(r < Len(Rules(p)))
    BY <1>1 DEF LayRule, ShapeOK
  <2>3. QED
    BY <1>1, <2>1, <2>2
<1>3. /\ RulesLaid(s) = r - 1 /\ RulesLaid(s)' = r
      /\ PluginsLaid(s)' = PluginsLaid(s)
      /\ ConfigsWritten(s) = 0 /\ ConfigsWritten(s)' = 0
  BY <1>1, <1>2 DEF RulesLaid, PluginsLaid, ConfigsWritten, Applying, Rules
<1>4. /\ \A x \in DOMAIN new : x \in Files /\ \E f \in LaidBy(p, r, x) : new[x] = <<"file", p, f>>
      /\ SourcesAgree => \A x : LaidBy(p, r, x) # {} => x \in DOMAIN new
  <2>1. /\ Root(s) \subseteq Published[Source(p)] \ Ignore[p]
        /\ SourcesAgree => Published[Source(p)] \ Ignore[p] \subseteq Root(s)
    BY <1>1 DEF StageOK
  <2>2. QED
    BY <1>1, <2>1, CopiedFacts
<1> HIDE DEF p, r, new
<1>5. ASSUME NEW x
      PROVE  /\ ConfigsSoFar(s, x) = {} /\ ConfigsSoFar(s, x)' = {}
             /\ PluginsSoFar(s, x)' = PluginsSoFar(s, x)
             /\ RulesSoFar(s, x)' = {q \in 1 .. r : LaidBy(p, q, x) # {}}
             /\ RulesSoFar(s, x) = {q \in 1 .. r - 1 : LaidBy(p, q, x) # {}}
  <2>1. ConfigsSoFar(s, x) = {} /\ ConfigsSoFar(s, x)' = {}
    BY <1>3 DEF ConfigsSoFar
  <2>2. PluginsSoFar(s, x)' = PluginsSoFar(s, x)
    BY <1>2, <1>3 DEF PluginsSoFar, Writes
  <2>3. RulesSoFar(s, x)' = {q \in 1 .. r : LaidBy(p, q, x) # {}}
    BY <1>2, <1>3 DEF RulesSoFar
  <2>4. RulesSoFar(s, x) = {q \in 1 .. r - 1 : LaidBy(p, q, x) # {}}
    BY <1>3 DEF RulesSoFar, p
  <2>5. QED
    BY <2>1, <2>2, <2>3, <2>4
<1>6. r \in Nat /\ r >= 1
  BY <1>1
<1>7. ASSUME SourcesAgree, NEW x \in Files PROVE PathOK(s, x)'
  <2>0. PathOK(s, x)
    BY <1>1, <1>7 DEF LaidOK
  <2>1. CASE LaidBy(p, r, x) # {}
    <3>1. PICK f \in LaidBy(p, r, x) : new[x] = <<"file", p, f>> /\ x \in DOMAIN new
      BY <1>4, <1>7, <2>1
    <3>2. Left(s, x, <<"file", p, f>>)
      BY <1>2, <3>1, LeftFacts
    <3>3. r \in RulesSoFar(s, x)' /\ IsLast(RulesSoFar(s, x)', r)
      BY <1>5, <1>6, <2>1 DEF IsLast
    <3>4. QED
      BY <1>2, <1>5, <3>1, <3>2, <3>3 DEF PathOK, IsLast, Holds, Left
  <2>2. CASE LaidBy(p, r, x) = {}
    <3>1. RulesSoFar(s, x)' = RulesSoFar(s, x)
      <4>1. \A q : q \in 1 .. r <=> q \in 1 .. r - 1 \/ q = r
        BY <1>6
      <4>2. QED
        BY <1>5, <2>2, <4>1
    <3>2. \A c : Left(s, x, c) <=> Holds(s, x, c)
      BY <1>2, <1>4, <2>2, LeftFacts
    <3>3. CASE RulesSoFar(s, x) # {}
      <4>1. PICK k \in RulesSoFar(s, x) :
              /\ IsLast(RulesSoFar(s, x), k)
              /\ \E f \in LaidBy(p, k, x) : Holds(s, x, <<"file", p, f>>)
        BY <1>5, <2>0, <3>3 DEF PathOK, p
      <4>2. QED
        BY <1>2, <1>5, <3>1, <3>2, <3>3, <4>1 DEF PathOK, IsLast, Holds, Left
    <3>4. CASE RulesSoFar(s, x) = {}
      BY <1>2, <1>5, <2>0, <3>1, <3>2, <3>4 DEF PathOK, IsLast, Writes, Holds, Left
    <3>5. QED
      BY <3>3, <3>4
  <2>3. QED
    BY <2>1, <2>2
<1>8. ASSUME NEW x \in DOMAIN upper'[s] PROVE TracedOK(s, x)'
  <2>1. x \in DOMAIN upper[s] \/ x \in DOMAIN new
    BY <1>2, <1>8, LeftFacts
  <2>2. CASE x \in DOMAIN new
    <3>1. x \in Files /\ r \in RulesSoFar(s, x)'
      BY <1>4, <1>5, <1>6, <2>2
    <3>2. QED
      BY <3>1 DEF TracedOK
  <2>3. CASE x \in DOMAIN upper[s]
    <3>1. TracedOK(s, x)
      BY <1>1, <2>3 DEF LaidOK
    <3>2. RulesSoFar(s, x) \subseteq RulesSoFar(s, x)'
      BY <1>5, <1>6
    <3>3. QED
      BY <1>2, <1>5, <3>1, <3>2 DEF TracedOK, Writes
  <2>4. QED
    BY <2>1, <2>2, <2>3
<1>9. QED
  BY <1>7, <1>8 DEF LaidOK, SourcesAgree

\* With its templates a plugin is complete: it is the last writer of each of its paths.
LEMMA TemplatesFiles ==
  ASSUME ShapeOK, NEW s \in Servers, StageOK(s), LaidOK(s), Templates(s)
  PROVE  LaidOK(s)'
<1> DEFINE p == Current(s)
           n == at[s]
           new == [f \in Template[p] |-> <<"template", p>>]
<1>1. /\ pc[s] = "laid" /\ pc[s] \in Building /\ p \in Plugins /\ n \in Nat \ {0}
      /\ p = plan[s].plugins[n]
  <2>1. pc[s] = "laid" /\ pc[s] \in Building /\ pc[s] \in Applying
    BY DEF Templates, Building, Applying
  <2>2. QED
    BY <2>1, PlanFacts DEF Current
<1>2. Writes(s, new) /\ at'[s] = n + 1 /\ pc'[s] = "plugins"
  BY DEF Templates, Writes, ShapeOK
<1>3. /\ PluginsLaid(s) = n - 1 /\ PluginsLaid(s)' = n
      /\ RulesLaid(s) = Len(Rules(p)) /\ RulesLaid(s)' = 0
      /\ ConfigsWritten(s) = 0 /\ ConfigsWritten(s)' = 0
  BY <1>1, <1>2 DEF RulesLaid, PluginsLaid, ConfigsWritten, Applying
<1>4. /\ DOMAIN new = Template[p] /\ Template[p] \subseteq Files
      /\ \A x \in Template[p] : new[x] = <<"template", p>>
  BY <1>1, CatalogAssumption
<1>5. ASSUME NEW x
      PROVE  /\ ConfigsSoFar(s, x) = {} /\ ConfigsSoFar(s, x)' = {}
             /\ PluginsSoFar(s, x) = {i \in 1 .. n - 1 : x \in PathsOf(plan[s].plugins[i])}
             /\ PluginsSoFar(s, x)' = {i \in 1 .. n : x \in PathsOf(plan[s].plugins[i])}
             /\ RulesSoFar(s, x) = RulesAt(p, x) /\ RulesSoFar(s, x)' = {}
  <2>1. ConfigsSoFar(s, x) = {} /\ ConfigsSoFar(s, x)' = {}
    BY <1>3 DEF ConfigsSoFar
  <2>2. PluginsSoFar(s, x) = {i \in 1 .. n - 1 : x \in PathsOf(plan[s].plugins[i])}
    BY <1>3 DEF PluginsSoFar
  <2>3. PluginsSoFar(s, x)' = {i \in 1 .. n : x \in PathsOf(plan[s].plugins[i])}
    BY <1>2, <1>3 DEF PluginsSoFar, Writes
  <2>4. RulesSoFar(s, x) = RulesAt(p, x)
    BY <1>3 DEF RulesSoFar, RulesAt
  <2>5. RulesSoFar(s, x)' = {}
    BY <1>3 DEF RulesSoFar
  <2>6. QED
    BY <2>1, <2>2, <2>3, <2>4, <2>5
<1> HIDE DEF new, p, n
<1>6. \A i : i \in 1 .. n <=> i \in 1 .. n - 1 \/ i = n
  BY <1>1
<1>7. ASSUME SourcesAgree, NEW x \in Files PROVE PathOK(s, x)'
  <2>0. PathOK(s, x)
    BY <1>1, <1>7 DEF LaidOK
  <2>1. CASE x \in PathsOf(p)
    <3>1. Left(s, x, FromPlugin(p, x))
      <4>1. CASE x \in Template[p]
        <5>1. FromPlugin(p, x) = new[x]
          BY <1>4, <4>1 DEF FromPlugin
        <5>2. QED
          BY <1>2, <1>4, <4>1, <5>1, LeftFacts
      <4>2. CASE x \notin Template[p]
        <5>1. RulesAt(p, x) # {}
          BY <2>1, <4>2 DEF PathsOf
        <5>2. PICK k \in RulesAt(p, x) :
                /\ IsLast(RulesAt(p, x), k)
                /\ \E f \in LaidBy(p, k, x) : Holds(s, x, <<"file", p, f>>)
          BY <1>5, <2>0, <5>1 DEF PathOK, p
        <5>3. Holds(s, x, FromPlugin(p, x))
          BY <1>1, <4>2, <5>2, FromLastRule
        <5>4. QED
          BY <1>2, <1>4, <4>2, <5>3, LeftFacts
      <4>3. QED
        BY <4>1, <4>2
    <3>2. n \in PluginsSoFar(s, x)' /\ IsLast(PluginsSoFar(s, x)', n)
      <4>1. n \in 1 .. n /\ \A i \in 1 .. n : i <= n
        BY <1>1
      <4>2. QED
        BY <1>1, <1>5, <2>1, <4>1 DEF IsLast
    <3>3. FromPlugin(p, x) = FromPlugin(plan'[s].plugins[n], x)
      BY <1>1, <1>2 DEF Writes
    <3>4. QED
      BY <1>5, <3>1, <3>2, <3>3 DEF PathOK, IsLast, Holds, Left
  <2>2. CASE x \notin PathsOf(p)
    <3>1. x \notin Template[p] /\ RulesAt(p, x) = {}
      BY <1>7, <2>2 DEF PathsOf
    <3>2. PluginsSoFar(s, x)' = PluginsSoFar(s, x)
      BY <1>1, <1>5, <1>6, <2>2
    <3>3. \A c : Left(s, x, c) <=> Holds(s, x, c)
      BY <1>2, <1>4, <3>1, LeftFacts
    <3>4. QED
      BY <1>2, <1>5, <2>0, <3>1, <3>2, <3>3 DEF PathOK, IsLast, Writes, Holds, Left
  <2>3. QED
    BY <2>1, <2>2
<1>8. ASSUME NEW x \in DOMAIN upper'[s] PROVE TracedOK(s, x)'
  <2>1. x \in DOMAIN upper[s] \/ x \in DOMAIN new
    BY <1>2, <1>8, LeftFacts
  <2>2. CASE x \in PathsOf(p)
    <3>1. x \in Files /\ n \in PluginsSoFar(s, x)'
      BY <1>1, <1>5, <1>6, <2>2 DEF PathsOf
    <3>2. QED
      BY <3>1 DEF TracedOK
  <2>3. CASE x \notin PathsOf(p)
    <3>1. x \notin DOMAIN new /\ (x \in Files => RulesAt(p, x) = {})
      BY <1>4, <2>3 DEF PathsOf
    <3>2. TracedOK(s, x)
      BY <1>1, <2>1, <3>1 DEF LaidOK
    <3>3. PluginsSoFar(s, x)' = PluginsSoFar(s, x)
      BY <1>1, <1>5, <1>6, <2>3
    <3>4. QED
      BY <1>2, <1>5, <3>1, <3>2, <3>3 DEF TracedOK, Writes
  <2>4. QED
    BY <2>2, <2>3
<1>9. QED
  BY <1>7, <1>8 DEF LaidOK, SourcesAgree

\* A config replaces what is at its path, an earlier config too.
LEMMA WriteConfigFiles ==
  ASSUME ShapeOK, NEW s \in Servers, StageOK(s), LaidOK(s), WriteConfig(s)
  PROVE  LaidOK(s)'
<1> DEFINE n == at[s]
           cf == plan[s].configs[n]
           new == [f \in {Filename[cf]} |-> <<"config", cf>>]
<1>1. /\ pc[s] = "configs" /\ pc[s] \in Building /\ n \in Nat \ {0}
      /\ n \in 1 .. Len(plan[s].configs) /\ cf \in Configs /\ Filename[cf] \in Files
  <2>1. pc[s] = "configs" /\ pc[s] \in Building /\ n <= Len(plan[s].configs)
    BY DEF WriteConfig, Building
  <2>2. n \in 1 .. Len(plan[s].configs) /\ cf \in Configs
    BY <2>1, PlanFacts DEF StageOK
  <2>3. QED
    BY <2>1, <2>2, CatalogAssumption
<1>2. Writes(s, new) /\ at'[s] = n + 1 /\ pc'[s] = "configs" /\ rule' = rule
  BY <1>1 DEF WriteConfig, Writes, ShapeOK
<1>3. /\ ConfigsWritten(s) = n - 1 /\ ConfigsWritten(s)' = n
      /\ RulesLaid(s) = 0 /\ RulesLaid(s)' = 0 /\ PluginsLaid(s)' = PluginsLaid(s)
  BY <1>1, <1>2 DEF RulesLaid, PluginsLaid, ConfigsWritten, Applying, Writes
<1>4. DOMAIN new = {Filename[cf]} /\ new[Filename[cf]] = <<"config", cf>>
  OBVIOUS
<1>5. ASSUME NEW x
      PROVE  /\ ConfigsSoFar(s, x) = {j \in 1 .. n - 1 : Filename[plan[s].configs[j]] = x}
             /\ ConfigsSoFar(s, x)' = {j \in 1 .. n : Filename[plan[s].configs[j]] = x}
             /\ RulesSoFar(s, x) = {} /\ RulesSoFar(s, x)' = {}
             /\ PluginsSoFar(s, x)' = PluginsSoFar(s, x)
  <2>1. ConfigsSoFar(s, x) = {j \in 1 .. n - 1 : Filename[plan[s].configs[j]] = x}
    BY <1>3 DEF ConfigsSoFar
  <2>2. ConfigsSoFar(s, x)' = {j \in 1 .. n : Filename[plan[s].configs[j]] = x}
    BY <1>2, <1>3 DEF ConfigsSoFar, Writes
  <2>3. RulesSoFar(s, x) = {} /\ RulesSoFar(s, x)' = {}
    BY <1>3 DEF RulesSoFar
  <2>4. PluginsSoFar(s, x)' = PluginsSoFar(s, x)
    BY <1>2, <1>3 DEF PluginsSoFar, Writes
  <2>5. QED
    BY <2>1, <2>2, <2>3, <2>4
<1>6. \A j : j \in 1 .. n <=> j \in 1 .. n - 1 \/ j = n
  BY <1>1
<1> HIDE DEF new
<1>7. ASSUME SourcesAgree, NEW x \in Files PROVE PathOK(s, x)'
  <2>0. PathOK(s, x)
    BY <1>1, <1>7 DEF LaidOK
  <2>1. CASE x = Filename[cf]
    <3>1. Left(s, x, <<"config", cf>>)
      BY <1>2, <1>4, <2>1, LeftFacts
    <3>2. n \in ConfigsSoFar(s, x)' /\ IsLast(ConfigsSoFar(s, x)', n)
      <4>1. n \in 1 .. n /\ \A j \in 1 .. n : j <= n
        BY <1>1
      <4>2. QED
        BY <1>5, <2>1, <4>1 DEF IsLast
    <3>3. cf = plan'[s].configs[n]
      BY <1>2 DEF Writes
    <3> HIDE DEF cf, n
    <3>4. QED
      BY <3>1, <3>2, <3>3 DEF PathOK, IsLast, Holds, Left
  <2>2. CASE x # Filename[cf]
    <3>1. ConfigsSoFar(s, x)' = ConfigsSoFar(s, x)
      <4>1. Filename[plan[s].configs[n]] # x
        BY <2>2
      <4> HIDE DEF n
      <4>2. {j \in 1 .. n : Filename[plan[s].configs[j]] = x}
              = {j \in 1 .. n - 1 : Filename[plan[s].configs[j]] = x}
        BY <1>6, <4>1
      <4>3. QED
        BY <1>5, <4>2
    <3>2. \A c : Left(s, x, c) <=> Holds(s, x, c)
      BY <1>2, <1>4, <2>2, LeftFacts
    <3>3. plan'[s] = plan[s]
      BY <1>2 DEF Writes
    <3> HIDE DEF cf, n
    <3>4. CASE ConfigsSoFar(s, x) # {}
      BY <2>0, <3>1, <3>2, <3>3, <3>4 DEF PathOK, IsLast, Holds, Left
    <3>5. CASE ConfigsSoFar(s, x) = {}
      BY <1>5, <2>0, <3>1, <3>2, <3>3, <3>5 DEF PathOK, IsLast, Holds, Left
    <3>6. QED
      BY <3>4, <3>5
  <2>3. QED
    BY <2>1, <2>2
<1>8. ASSUME NEW x \in DOMAIN upper'[s] PROVE TracedOK(s, x)'
  <2>1. x \in DOMAIN upper[s] \/ x \in DOMAIN new
    BY <1>2, <1>8, LeftFacts
  <2>2. CASE x \in DOMAIN new
    <3>1. x \in Files /\ n \in ConfigsSoFar(s, x)'
      BY <1>1, <1>4, <1>5, <1>6, <2>2
    <3>2. QED
      BY <3>1 DEF TracedOK
  <2>3. CASE x \in DOMAIN upper[s]
    <3>1. TracedOK(s, x)
      BY <1>1, <2>3 DEF LaidOK
    <3>2. ConfigsSoFar(s, x) \subseteq ConfigsSoFar(s, x)'
      BY <1>5, <1>6
    <3>3. QED
      BY <1>2, <1>5, <3>1, <3>2 DEF TracedOK, Writes
  <2>4. QED
    BY <2>1, <2>2, <2>3
<1>9. QED
  BY <1>7, <1>8 DEF LaidOK, SourcesAgree

-----------------------------------------------------------------------------
(* The step.                                                               *)

\* A step of the start or the stop of server s.
Step(s) ==
  \/ Mount(s) \/ FetchSource(s) \/ ApplyIgnore(s) \/ LayRule(s) \/ Templates(s)
  \/ PluginsDone(s) \/ WriteConfig(s) \/ CreateContainer(s) \/ StartContainer(s)
  \/ StartFails(s) \/ GameWrites(s) \/ Stop(s) \/ StopBusy(s)
  \/ StartFailsBusy(s) \/ MountFails(s)

\* A step keeps the shape of the state and concerns one server.
LEMMA ShapeStep ==
  ASSUME ShapeOK, NEW s \in Servers, Step(s)
  PROVE  ShapeOK' /\ \A w \in Servers : w # s => Untouched(w)
<1>1. CASE Mount(s)
  BY <1>1 DEF Mount, ShapeOK, Untouched, Building
<1>2. CASE FetchSource(s)
  BY <1>2 DEF FetchSource, ShapeOK, Untouched, Building
<1>3. CASE ApplyIgnore(s)
  BY <1>3 DEF ApplyIgnore, ShapeOK, Untouched, Building
<1>4. CASE LayRule(s)
  <2>1. /\ \E u : upper' = [upper EXCEPT ![s] = u]
        /\ \/ pc' = pc \/ pc' = [pc EXCEPT ![s] = "laid"]
        /\ \/ rule' = rule \/ rule' = [rule EXCEPT ![s] = rule[s] + 1]
        /\ UNCHANGED <<plan, at, temp, dir, stale, losses>>
    BY <1>4 DEF LayRule
  <2>2. QED
    BY <2>1 DEF ShapeOK, Untouched, Building
<1>5. CASE Templates(s)
  BY <1>5 DEF Templates, ShapeOK, Untouched, Building
<1>6. CASE PluginsDone(s)
  BY <1>6 DEF PluginsDone, ShapeOK, Untouched, Building
<1>7. CASE CreateContainer(s) \/ StartContainer(s)
  BY <1>7 DEF CreateContainer, StartContainer, ShapeOK, Untouched, Building
<1>8. CASE WriteConfig(s)
  BY <1>8 DEF WriteConfig, ShapeOK, Untouched
<1>9. CASE GameWrites(s)
  BY <1>9 DEF GameWrites, ShapeOK, Untouched
<1>10. CASE StartFails(s) \/ Stop(s) \/ StopBusy(s) \/ StartFailsBusy(s)
  BY <1>10 DEF StartFails, Stop, StopBusy, StartFailsBusy, Unmounted, UnmountedKeepsUpper,
               ShapeOK, Untouched
<1>11. CASE MountFails(s)
  BY <1>11 DEF MountFails, ShapeOK, Untouched
<1>12. QED
  BY <1>1, <1>2, <1>3, <1>4, <1>5, <1>6, <1>7, <1>8, <1>9, <1>10, <1>11 DEF Step

\* Nothing is added to a local directory, and where the manifests agree nothing that one of
\* them installs is deleted.
LEMMA DirsStep ==
  ASSUME ShapeOK, DirsOK, NEW s \in Servers, StageOK(s), Step(s)
  PROVE  DirsOK' /\ \A d \in Dirs : dir'[d] \subseteq dir[d]
<1>1. CASE dir' = dir
  BY <1>1 DEF DirsOK, SourcesAgree
<1>2. CASE ApplyIgnore(s) /\ DirOf[Current(s)] \in Dirs
  <2> DEFINE p == Current(s)
             e == DirOf[p]
  <2>1. pc[s] = "fetched" /\ pc[s] \in Building /\ pc[s] \in Applying
    BY <1>2 DEF ApplyIgnore, Building, Applying
  <2>2. p \in Plugins /\ e \in Dirs /\ dir' = [dir EXCEPT ![e] = dir[e] \ Ignore[p]]
    BY <1>2, <2>1, PlanFacts DEF ApplyIgnore
  <2> HIDE DEF p
  <2>3. \A d \in Dirs : dir'[d] = IF d = e THEN dir[d] \ Ignore[p] ELSE dir[d]
    BY <2>2 DEF ShapeOK
  <2>4. ASSUME SourcesAgree, NEW d \in Dirs, NEW q \in Plugins, DirOf[q] = d
        PROVE  Published[d] \ Ignore[q] \subseteq dir'[d]
    <3>1. Published[d] \ Ignore[q] \subseteq dir[d]
      BY <2>4 DEF DirsOK
    <3>2. CASE d = e
      <4>1. Ignore[p] \cap Published[d] \subseteq Ignore[q]
        BY <2>2, <2>4, <3>2 DEF SourcesAgree
      <4>2. QED
        BY <2>3, <3>1, <3>2, <4>1
    <3>3. CASE d # e
      BY <2>3, <3>1, <3>3
    <3>4. QED
      BY <3>2, <3>3
  <2>5. \A d \in Dirs : dir'[d] \subseteq dir[d] /\ dir'[d] \subseteq Published[d]
    BY <2>3 DEF DirsOK
  <2>6. QED
    BY <2>4, <2>5 DEF DirsOK, SourcesAgree
<1>3. QED
  BY <1>1, <1>2
     DEF Step, Mount, FetchSource, ApplyIgnore, LayRule, Templates, PluginsDone, WriteConfig,
         CreateContainer, StartContainer, StartFails, GameWrites, Stop, StopBusy,
         StartFailsBusy, MountFails

\* The step of a build moves it to a stage that fits what it has done.
LEMMA StageStep ==
  ASSUME ShapeOK, DirsOK, DirsOK', NEW s \in Servers, StageOK(s), Step(s)
  PROVE  StageOK(s)'
<1> DEFINE p == Current(s)
<1>1. CASE Mount(s)
  <2>1. pc'[s] = "plugins" /\ plan'[s] \in Plans /\ at'[s] = 1
    BY <1>1 DEF Mount, ShapeOK
  <2>2. Len(plan'[s].plugins) \in Nat
    BY <2>1, CatalogAssumption
  <2>3. QED
    BY <2>1, <2>2 DEF StageOK, Applying
<1>2. CASE FetchSource(s)
  <2>1. pc[s] = "plugins" /\ pc[s] \in Building
    BY <1>2 DEF FetchSource, Building
  <2>2. /\ pc'[s] = "fetched" /\ plan' = plan /\ at' = at /\ Current(s)' = p
        /\ temp'[s] = IF DirOf[p] \in Dirs THEN {} ELSE Published[p]
        /\ at[s] <= Len(plan[s].plugins)
    BY <1>2 DEF FetchSource, ShapeOK, Current
  <2>3. at[s] \in 1 .. Len(plan[s].plugins) /\ plan[s] \in Plans
    BY <2>1, <2>2, PlanFacts DEF StageOK
  <2>4. QED
    BY <2>2, <2>3 DEF StageOK
<1>3. CASE ApplyIgnore(s)
  <2>1. pc[s] = "fetched" /\ pc[s] \in Building /\ pc[s] \in Applying
    BY <1>3 DEF ApplyIgnore, Building, Applying
  <2>2. p \in Plugins /\ at[s] \in 1 .. Len(plan[s].plugins) /\ plan[s] \in Plans
    BY <2>1, PlanFacts
  <2>3. pc'[s] = "ignored" /\ plan' = plan /\ at' = at /\ Current(s)' = p /\ rule'[s] = 1
    BY <1>3 DEF ApplyIgnore, ShapeOK, Current
  <2>4. 1 \in 1 .. Len(Rules(p))
    BY <2>2, RuleFacts
  <2>5. /\ Root(s)' \subseteq Published[Source(p)] \ Ignore[p]
        /\ SourcesAgree => Published[Source(p)] \ Ignore[p] \subseteq Root(s)'
    <3>1. CASE DirOf[p] \in Dirs
      <4>1. dir'[DirOf[p]] = dir[DirOf[p]] \ Ignore[p]
        BY <1>3, <3>1 DEF ApplyIgnore, ShapeOK
      <4>2. Root(s)' = dir'[DirOf[p]] /\ Source(p) = DirOf[p]
        BY <2>3, <3>1 DEF Root, Source
      <4>3. dir[DirOf[p]] \subseteq Published[DirOf[p]]
        BY <3>1 DEF DirsOK
      <4>4. SourcesAgree => Published[DirOf[p]] \ Ignore[p] \subseteq dir'[DirOf[p]]
        BY <2>2, <3>1 DEF DirsOK, SourcesAgree
      <4>5. QED
        BY <4>1, <4>2, <4>3, <4>4
    <3>2. CASE DirOf[p] \notin Dirs
      <4>1. Root(s)' = temp[s] \ Ignore[p] /\ Source(p) = p
        BY <1>3, <2>3, <3>2 DEF ApplyIgnore, ShapeOK, Root, Source
      <4>2. temp[s] = Published[p]
        BY <2>1, <3>2 DEF StageOK
      <4>3. QED
        BY <4>1, <4>2
    <3>3. QED
      BY <3>1, <3>2
  <2>6. QED
    BY <2>2, <2>3, <2>4, <2>5 DEF StageOK, Applying, SourcesAgree
<1>4. CASE LayRule(s)
  <2>1. pc[s] = "ignored" /\ pc[s] \in Building /\ pc[s] \in Applying
    BY <1>4 DEF LayRule, Building, Applying
  <2>2. /\ p \in Plugins /\ at[s] \in 1 .. Len(plan[s].plugins) /\ plan[s] \in Plans
        /\ rule[s] \in Nat /\ Len(Rules(p)) \in Nat
    BY <2>1, PlanFacts, RuleFacts
  <2>3. plan' = plan /\ at' = at /\ Current(s)' = p /\ Root(s)' = Root(s)
    BY <1>4 DEF LayRule, Current, Root
  <2>4. \/ pc'[s] = "ignored" /\ rule'[s] = rule[s] + 1 /\ rule[s] < Len(Rules(p))
        \/ pc'[s] = "laid"
    BY <1>4, <2>1 DEF LayRule, ShapeOK
  <2>5. /\ Root(s) \subseteq Published[Source(p)] \ Ignore[p]
        /\ SourcesAgree => Published[Source(p)] \ Ignore[p] \subseteq Root(s)
    BY <2>1 DEF StageOK
  <2>6. QED
    BY <2>2, <2>3, <2>4, <2>5 DEF StageOK, Applying, SourcesAgree
<1>5. CASE Templates(s)
  <2>1. pc[s] = "laid" /\ pc[s] \in Building /\ pc[s] \in Applying
    BY <1>5 DEF Templates, Building, Applying
  <2>2. /\ at[s] \in 1 .. Len(plan[s].plugins) /\ plan[s] \in Plans
        /\ Len(plan[s].plugins) \in Nat
    BY <2>1, PlanFacts
  <2>3. plan' = plan /\ at'[s] = at[s] + 1 /\ pc'[s] = "plugins"
    BY <1>5 DEF Templates, ShapeOK
  <2>4. QED
    BY <2>2, <2>3 DEF StageOK, Applying
<1>6. CASE PluginsDone(s) \/ WriteConfig(s)
  <2>1. pc[s] \in {"plugins", "configs"} /\ pc[s] \in Building
    BY <1>6 DEF PluginsDone, WriteConfig, Building
  <2>2. plan[s] \in Plans /\ Len(plan[s].configs) \in Nat /\ at[s] \in Nat
    BY <2>1, PlanFacts
  <2>3. plan' = plan /\ pc'[s] = "configs"
    BY <1>6, <2>1 DEF PluginsDone, WriteConfig, ShapeOK
  <2>4. at'[s] \in 1 .. Len(plan[s].configs) + 1
    BY <1>6, <2>2 DEF PluginsDone, WriteConfig, ShapeOK
  <2>5. QED
    BY <2>2, <2>3, <2>4 DEF StageOK, Applying
<1>7. CASE CreateContainer(s)
  <2>1. pc[s] \in Building /\ pc'[s] = "created" /\ plan' = plan
    BY <1>7 DEF CreateContainer, Building, ShapeOK
  <2>2. QED
    BY <2>1 DEF StageOK, Applying
<1>8. CASE \/ StartContainer(s) \/ StartFails(s) \/ GameWrites(s) \/ Stop(s)
           \/ StopBusy(s) \/ StartFailsBusy(s) \/ MountFails(s)
  <2>1. pc'[s] \in {"up", "down"}
    BY <1>8 DEF StartContainer, StartFails, GameWrites, Stop, StopBusy, StartFailsBusy,
                MountFails, Unmounted, UnmountedKeepsUpper, ShapeOK
  <2>2. QED
    BY <2>1 DEF StageOK, Building, Applying
<1>9. QED
  BY <1>1, <1>2, <1>3, <1>4, <1>5, <1>6, <1>7, <1>8 DEF Step

\* The step of a build keeps its paths right.
LEMMA LaidStep ==
  ASSUME ShapeOK, NEW s \in Servers, StageOK(s), LaidOK(s), Step(s)
  PROVE  LaidOK(s)'
<1>1. CASE Mount(s)
  <2>1. pc'[s] = "plugins" /\ at'[s] = 1 /\ upper' = upper /\ stale'[s] = DOMAIN upper[s]
    BY <1>1 DEF Mount, ShapeOK
  <2>2. PluginsLaid(s)' = 0 /\ RulesLaid(s)' = 0 /\ ConfigsWritten(s)' = 0
    BY <2>1 DEF PluginsLaid, RulesLaid, ConfigsWritten, Applying
  <2>3. \A x : /\ PluginsSoFar(s, x)' = {} /\ RulesSoFar(s, x)' = {}
               /\ ConfigsSoFar(s, x)' = {}
    BY <2>2 DEF PluginsSoFar, RulesSoFar, ConfigsSoFar
  <2>4. QED
    BY <2>1, <2>3 DEF LaidOK, PathOK, TracedOK
<1>2. CASE FetchSource(s)
  <2>1. /\ pc[s] = "plugins" /\ pc[s] \in Building /\ pc'[s] = "fetched"
        /\ plan' = plan /\ at' = at /\ upper' = upper /\ stale' = stale
    BY <1>2 DEF FetchSource, Building, ShapeOK
  <2>2. /\ PluginsLaid(s)' = PluginsLaid(s) /\ RulesLaid(s) = 0 /\ RulesLaid(s)' = 0
        /\ ConfigsWritten(s)' = ConfigsWritten(s)
    BY <2>1 DEF PluginsLaid, RulesLaid, ConfigsWritten, Applying
  <2>3. QED
    BY <2>1, <2>2, SameFiles
<1>3. CASE ApplyIgnore(s)
  <2>1. /\ pc[s] = "fetched" /\ pc[s] \in Building /\ pc'[s] = "ignored" /\ rule'[s] = 1
        /\ plan' = plan /\ at' = at /\ upper' = upper /\ stale' = stale
    BY <1>3 DEF ApplyIgnore, Building, ShapeOK
  <2>2. /\ PluginsLaid(s)' = PluginsLaid(s) /\ RulesLaid(s) = 0 /\ RulesLaid(s)' = 0
        /\ ConfigsWritten(s)' = ConfigsWritten(s)
    BY <2>1 DEF PluginsLaid, RulesLaid, ConfigsWritten, Applying
  <2>3. QED
    BY <2>1, <2>2, SameFiles
<1>4. CASE LayRule(s)
  BY <1>4, LayRuleFiles
<1>5. CASE Templates(s)
  BY <1>5, TemplatesFiles
<1>6. CASE WriteConfig(s)
  BY <1>6, WriteConfigFiles
<1>7. CASE PluginsDone(s)
  <2>1. /\ pc[s] = "plugins" /\ pc[s] \in Building /\ pc'[s] = "configs" /\ at'[s] = 1
        /\ plan' = plan /\ upper' = upper /\ stale' = stale
        /\ at[s] > Len(plan[s].plugins)
    BY <1>7 DEF PluginsDone, Building, ShapeOK
  <2>2. at[s] - 1 = Len(plan[s].plugins)
    BY <2>1, PlanFacts DEF StageOK
  <2>3. /\ PluginsLaid(s)' = PluginsLaid(s) /\ RulesLaid(s) = 0 /\ RulesLaid(s)' = 0
        /\ ConfigsWritten(s)' = ConfigsWritten(s)
    BY <2>1, <2>2 DEF PluginsLaid, RulesLaid, ConfigsWritten, Applying
  <2>4. QED
    BY <2>1, <2>3, SameFiles
<1>8. CASE CreateContainer(s)
  <2>1. /\ pc[s] = "configs" /\ pc[s] \in Building /\ pc'[s] = "created" /\ at' = at
        /\ plan' = plan /\ upper' = upper /\ stale' = stale
        /\ at[s] > Len(plan[s].configs)
    BY <1>8 DEF CreateContainer, Building, ShapeOK
  <2>2. at[s] - 1 = Len(plan[s].configs)
    BY <2>1, PlanFacts DEF StageOK
  <2>3. /\ PluginsLaid(s)' = PluginsLaid(s) /\ RulesLaid(s) = 0 /\ RulesLaid(s)' = 0
        /\ ConfigsWritten(s)' = ConfigsWritten(s)
    BY <2>1, <2>2 DEF PluginsLaid, RulesLaid, ConfigsWritten, Applying
  <2>4. QED
    BY <2>1, <2>3, SameFiles
<1>9. CASE \/ StartContainer(s) \/ StartFails(s) \/ GameWrites(s) \/ Stop(s)
           \/ StopBusy(s) \/ StartFailsBusy(s) \/ MountFails(s)
  <2>1. pc'[s] \in {"up", "down"}
    BY <1>9 DEF StartContainer, StartFails, GameWrites, Stop, StopBusy, StartFailsBusy,
                MountFails, Unmounted, UnmountedKeepsUpper, ShapeOK
  <2>2. QED
    BY <2>1 DEF LaidOK, Building
<1>10. QED
  BY <1>1, <1>2, <1>3, <1>4, <1>5, <1>6, <1>7, <1>8, <1>9 DEF Step

-----------------------------------------------------------------------------
(* The theorems on builds.                                                 *)

\* Where each build is fixes which files of its plan are in place, whatever the builds of
\* other servers, failures, crashes and earlier runs did.
THEOREM BuildInvariant == BuildSpec => []BuildInv
<1>1. Init => BuildInv
  <2> SUFFICES ASSUME Init PROVE BuildInv
    OBVIOUS
  <2>1. ShapeOK
    BY DEF Init, ShapeOK
  <2>2. DirsOK
    BY DEF Init, DirsOK
  <2>3. \A s \in Servers : pc[s] = "down"
    BY DEF Init
  <2>4. \A s \in Servers : StageOK(s) /\ LaidOK(s)
    BY <2>3 DEF StageOK, LaidOK, Building, Applying
  <2>5. QED
    BY <2>1, <2>2, <2>4 DEF BuildInv
<1>2. BuildInv /\ [Next]_buildVars => BuildInv'
  <2> SUFFICES ASSUME BuildInv, [Next]_buildVars PROVE BuildInv'
    OBVIOUS
  <2>0. ShapeOK /\ DirsOK /\ \A s \in Servers : StageOK(s) /\ LaidOK(s)
    BY DEF BuildInv
  <2>1. ASSUME NEW s \in Servers, Step(s) PROVE BuildInv'
    <3>1. ShapeOK' /\ \A w \in Servers : w # s => Untouched(w)
      BY <2>0, <2>1, ShapeStep
    <3>2. DirsOK' /\ \A d \in Dirs : dir'[d] \subseteq dir[d]
      BY <2>0, <2>1, DirsStep
    <3>3. StageOK(s)' /\ LaidOK(s)'
      BY <2>0, <2>1, <3>2, StageStep, LaidStep
    <3>4. \A w \in Servers : w # s => StageOK(w)' /\ LaidOK(w)'
      BY <2>0, <3>1, <3>2, OthersStand
    <3>5. QED
      BY <3>1, <3>2, <3>3, <3>4 DEF BuildInv
  <2>2. CASE Crash
    <3>1. ShapeOK' /\ DirsOK'
      BY <2>0, <2>2 DEF Crash, ShapeOK, DirsOK, SourcesAgree
    <3>2. \A s \in Servers : pc'[s] = "down"
      BY <2>2 DEF Crash
    <3>3. \A s \in Servers : StageOK(s)' /\ LaidOK(s)'
      BY <3>2 DEF StageOK, LaidOK, Building, Applying
    <3>4. QED
      BY <3>1, <3>3 DEF BuildInv
  <2>3. CASE UNCHANGED buildVars
    <3>1. ShapeOK' /\ DirsOK' /\ \A d \in Dirs : dir'[d] \subseteq dir[d]
      BY <2>0, <2>3 DEF buildVars, ShapeOK, DirsOK, SourcesAgree
    <3>2. \A w \in Servers : Untouched(w)
      BY <2>3 DEF buildVars, Untouched
    <3>3. \A w \in Servers : StageOK(w)' /\ LaidOK(w)'
      BY <2>0, <3>1, <3>2, OthersStand
    <3>4. QED
      BY <3>1, <3>3 DEF BuildInv
  <2>4. QED
    BY <2>1, <2>2, <2>3 DEF Next, Step
<1>3. QED
  BY <1>1, <1>2, PTL DEF BuildSpec

\* When the container is created the whole plan is in place.
LEMMA CreatedIsComplete ==
  ASSUME BuildInv, NEW s \in Servers, pc[s] = "created", NEW x
  PROVE  /\ ConfigsSoFar(s, x) = ConfigsAt(plan[s], x)
         /\ PluginsSoFar(s, x) = PluginsAt(plan[s], x)
         /\ RulesSoFar(s, x) = {}
         /\ ConfigsAt(plan[s], x) \in SUBSET Nat /\ PluginsAt(plan[s], x) \in SUBSET Nat
<1>1. /\ PluginsLaid(s) = Len(plan[s].plugins) /\ ConfigsWritten(s) = Len(plan[s].configs)
      /\ RulesLaid(s) = 0
  BY DEF PluginsLaid, ConfigsWritten, RulesLaid, Applying
<1>2. ConfigsSoFar(s, x) = ConfigsAt(plan[s], x) /\ PluginsSoFar(s, x) = PluginsAt(plan[s], x)
  BY <1>1 DEF ConfigsSoFar, ConfigsAt, PluginsSoFar, PluginsAt
<1>3. RulesSoFar(s, x) = {}
  BY <1>1 DEF RulesSoFar
<1>4. ConfigsAt(plan[s], x) \in SUBSET Nat /\ PluginsAt(plan[s], x) \in SUBSET Nat
  BY DEF ConfigsAt, PluginsAt
<1>5. QED
  BY <1>2, <1>3, <1>4

\* Where the manifests that share a local directory agree on what they ignore of it, a
\* container is created over exactly what the last writer of each path in its plan put
\* there (server.Start, plugin.Apply, writeConfigs).  Without the hypothesis one build's
\* ignore rules delete files of another's plugin, as BuildGaps.cfg shows.
THEOREM PlanIsInstalled ==
  ASSUME SourcesAgree
  PROVE  BuildSpec => []WantedIsInstalled
<1>1. BuildInv => WantedIsInstalled
  <2> SUFFICES ASSUME BuildInv, NEW s \in Servers, pc[s] = "created",
                      NEW x \in DOMAIN Wanted(plan[s])
               PROVE  x \in DOMAIN upper[s] /\ upper[s][x] = Wanted(plan[s])[x]
    BY DEF WantedIsInstalled
  <2> DEFINE C == ConfigsAt(plan[s], x)
             P == PluginsAt(plan[s], x)
  <2>1. /\ x \in Files /\ (C # {} \/ P # {})
        /\ Wanted(plan[s])[x] = IF C # {} THEN <<"config", plan[s].configs[Max(C)]>>
                                ELSE FromPlugin(plan[s].plugins[Max(P)], x)
    BY DEF Wanted
  <2>2. PathOK(s, x)
    BY <2>1 DEF BuildInv, LaidOK, Building
  <2>3. /\ ConfigsSoFar(s, x) = C /\ PluginsSoFar(s, x) = P /\ RulesSoFar(s, x) = {}
        /\ C \in SUBSET Nat /\ P \in SUBSET Nat
    BY CreatedIsComplete
  <2> HIDE DEF C, P
  <2>4. CASE C # {}
    <3>1. PICK k \in C : IsLast(C, k) /\ Holds(s, x, <<"config", plan[s].configs[k]>>)
      BY <2>2, <2>3, <2>4 DEF PathOK
    <3>2. Max(C) = k
      BY <2>3, <3>1, LastIsMax
    <3>3. QED
      BY <2>1, <2>4, <3>1, <3>2 DEF Holds
  <2>5. CASE C = {}
    <3>1. PICK k \in P : IsLast(P, k) /\ Holds(s, x, FromPlugin(plan[s].plugins[k], x))
      BY <2>1, <2>2, <2>3, <2>5 DEF PathOK
    <3>2. Max(P) = k
      BY <2>3, <3>1, LastIsMax
    <3>3. QED
      BY <2>1, <2>5, <3>1, <3>2 DEF Holds
  <2>6. QED
    BY <2>4, <2>5
<1>2. QED
  BY <1>1, BuildInvariant, PTL

\* Whatever the manifests share, a container is created over no other files than those of
\* its plan and those a failed unmount or a crash left behind (mount keeps what it finds).
THEOREM NothingIsAdded == BuildSpec => []NothingElseIsInstalled
<1>1. BuildInv => NothingElseIsInstalled
  <2> SUFFICES ASSUME BuildInv, NEW s \in Servers, pc[s] = "created",
                      NEW x \in DOMAIN upper[s], x \notin stale[s]
               PROVE  x \in DOMAIN Wanted(plan[s])
    BY DEF NothingElseIsInstalled
  <2>1. TracedOK(s, x)
    BY DEF BuildInv, LaidOK, Building
  <2>2. x \in Files /\ (ConfigsAt(plan[s], x) # {} \/ PluginsAt(plan[s], x) # {})
    BY <2>1, CreatedIsComplete DEF TracedOK
  <2>3. QED
    BY <2>2 DEF Wanted
<1>2. QED
  BY <1>1, BuildInvariant, PTL
=============================================================================
