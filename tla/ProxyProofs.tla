---------------------------- MODULE ProxyProofs ----------------------------
(***************************************************************************)
(* Proofs about Proxy, for any number of ports, addresses, clients and     *)
(* generations and any interleaving of the entrypoints with the handler:   *)
(* types, pools without duplicates, an @pool element for every backend the *)
(* router can choose, one address per generation, and the refinement of    *)
(* Directory.  Then about ProxyLifecycle: under the workers' order Flush,  *)
(* Start, Add and Remove, Flush, Stop a server that is drained has no      *)
(* flow, and no flow outlives the instance it was opened to, wherever      *)
(* deletions succeed.                                                      *)
(***************************************************************************)
EXTENDS ProxyLifecycle, SequenceTheorems, TLAPS

-----------------------------------------------------------------------------
(* The router's operators on a pool.                                       *)

\* find returns 0 exactly if the address is not in the pool, and else an index of it.
LEMMA FindFacts ==
  ASSUME NEW s \in Seq(Backend), NEW ip
  PROVE  /\ find(s, ip) \in 0 .. Len(s)
         /\ find(s, ip) = 0 => \A i \in DOMAIN s : s[i].ip # ip
         /\ find(s, ip) # 0 => find(s, ip) \in DOMAIN s /\ s[find(s, ip)].ip = ip
BY DEF find

\* RemoveAt, as removeBackend uses it: the elements after the k-th move up by one.
LEMMA RemoveAtFacts ==
  ASSUME NEW S, NEW s \in Seq(S), NEW k \in DOMAIN s
  PROVE  /\ RemoveAt(s, k) \in Seq(S)
         /\ Len(RemoveAt(s, k)) = Len(s) - 1
         /\ \A j \in 1 .. Len(s) - 1 :
              RemoveAt(s, k)[j] = s[IF j < k THEN j ELSE j + 1]
<1> DEFINE a == SubSeq(s, 1, k - 1)
           b == SubSeq(s, k + 1, Len(s))
<1>0. k \in 1 .. Len(s) /\ Len(s) \in Nat
  OBVIOUS
<1>1. /\ a \in Seq(S) /\ Len(a) = k - 1
      /\ \A i \in 1 .. k - 1 : a[i] = s[i]
  <2>1. \A i \in 1 .. k - 1 : s[i] \in S
    BY <1>0
  <2>2. QED
    BY <1>0, <2>1, SubSeqProperties, Z3
<1>2. /\ b \in Seq(S) /\ Len(b) = Len(s) - k
      /\ \A i \in 1 .. Len(s) - k : b[i] = s[k + i]
  <2>1. \A i \in k + 1 .. Len(s) : s[i] \in S
    BY <1>0
  <2>2. QED
    BY <1>0, <2>1, SubSeqProperties, Z3
<1>3. RemoveAt(s, k) = a \o b
  BY DEF RemoveAt
<1> HIDE DEF a, b
<1>4. /\ a \o b \in Seq(S)
      /\ Len(a \o b) = Len(s) - 1
      /\ \A i \in 1 .. Len(s) - 1 : (a \o b)[i] = IF i <= k - 1 THEN a[i] ELSE b[i - (k - 1)]
  BY <1>0, <1>1, <1>2, ConcatProperties
<1>5. ASSUME NEW j \in 1 .. Len(s) - 1
      PROVE  (a \o b)[j] = s[IF j < k THEN j ELSE j + 1]
  <2>1. CASE j < k
    BY <1>0, <1>1, <1>4, <2>1
  <2>2. CASE ~(j < k)
    <3>1. j - (k - 1) \in 1 .. Len(s) - k /\ k + (j - (k - 1)) = j + 1
      BY <1>0, <2>2
    <3>2. QED
      BY <1>0, <1>2, <1>4, <2>2, <3>1
  <2>3. QED
    BY <2>1, <2>2
<1>6. QED
  BY <1>3, <1>4, <1>5

\* addBackend leaves one backend with the address, under the new generation, and
\* the others where they were.
LEMMA AddFacts ==
  ASSUME NEW s \in Seq(Backend), NEW ip \in IPs, NEW g \in Gen
  PROVE  /\ addBackend(s, ip, g) \in Seq(Backend)
         /\ \E k \in DOMAIN addBackend(s, ip, g) :
              /\ addBackend(s, ip, g)[k] = [ip |-> ip, gen |-> g]
              /\ find(s, ip) # 0 => k = find(s, ip)
              /\ \A j \in DOMAIN addBackend(s, ip, g) \ {k} :
                   j \in DOMAIN s /\ addBackend(s, ip, g)[j] = s[j]
              /\ find(s, ip) = 0 => \A j \in DOMAIN s : s[j].ip # ip
<1> DEFINE b == [ip |-> ip, gen |-> g]
<1>0. b \in Backend
  BY DEF Backend
<1> HIDE DEF b
<1>1. CASE find(s, ip) = 0
  <2>1. addBackend(s, ip, g) = Append(s, b)
    BY <1>1 DEF addBackend, b
  <2>2. /\ Append(s, b) \in Seq(Backend)
        /\ Len(s) + 1 \in DOMAIN Append(s, b)
        /\ Append(s, b)[Len(s) + 1] = b
        /\ \A j \in DOMAIN Append(s, b) \ {Len(s) + 1} :
             j \in DOMAIN s /\ Append(s, b)[j] = s[j]
    BY <1>0, AppendProperties
  <2>3. \A j \in DOMAIN s : s[j].ip # ip
    BY <1>1, FindFacts
  <2>4. QED
    BY <1>1, <2>1, <2>2, <2>3 DEF b
<1>2. CASE find(s, ip) # 0
  <2>1. find(s, ip) \in DOMAIN s
    BY <1>2, FindFacts
  <2>2. addBackend(s, ip, g) = [s EXCEPT ![find(s, ip)] = b]
    BY <1>2 DEF addBackend, b
  <2>3. /\ [s EXCEPT ![find(s, ip)] = b] \in Seq(Backend)
        /\ DOMAIN [s EXCEPT ![find(s, ip)] = b] = DOMAIN s
    BY <1>0, <2>1
  <2>4. QED
    BY <1>2, <2>1, <2>2, <2>3 DEF b
<1>3. QED
  BY <1>1, <1>2

\* removeBackend keeps the order of the others, each once, and nothing else.
LEMMA RemoveFacts ==
  ASSUME NEW s \in Seq(Backend), NEW ip
  PROVE  /\ removeBackend(s, ip) \in Seq(Backend)
         /\ \A j \in DOMAIN removeBackend(s, ip) : \E i \in DOMAIN s :
              /\ removeBackend(s, ip)[j] = s[i]
              /\ i # find(s, ip)
         /\ \A j1, j2 \in DOMAIN removeBackend(s, ip) : j1 # j2 =>
              \E i1, i2 \in DOMAIN s :
                /\ i1 # i2
                /\ removeBackend(s, ip)[j1] = s[i1]
                /\ removeBackend(s, ip)[j2] = s[i2]
<1> DEFINE k == find(s, ip)
           t == removeBackend(s, ip)
<1>1. CASE k = 0
  <2>1. t = s
    BY <1>1 DEF removeBackend
  <2>2. QED
    BY <1>1, <2>1
<1>2. CASE k # 0
  <2>1. k \in DOMAIN s /\ k \in 1 .. Len(s) /\ Len(s) \in Nat
    BY <1>2, FindFacts
  <2>2. t = RemoveAt(s, k)
    BY <1>2 DEF removeBackend
  <2> HIDE DEF k, t
  <2>3. /\ t \in Seq(Backend)
        /\ DOMAIN t = 1 .. Len(s) - 1
        /\ \A j \in DOMAIN t : t[j] = s[IF j < k THEN j ELSE j + 1]
    <3>1. /\ RemoveAt(s, k) \in Seq(Backend)
          /\ Len(RemoveAt(s, k)) = Len(s) - 1
          /\ \A j \in 1 .. Len(s) - 1 :
               RemoveAt(s, k)[j] = s[IF j < k THEN j ELSE j + 1]
      BY <2>1, RemoveAtFacts, Zenon
    <3>2. /\ t \in Seq(Backend) /\ Len(t) = Len(s) - 1
          /\ \A j \in 1 .. Len(s) - 1 : t[j] = s[IF j < k THEN j ELSE j + 1]
      BY <2>2, <3>1, Zenon
    <3>3. QED
      BY <3>2
  <2> DEFINE from(j) == IF j < k THEN j ELSE j + 1
  <2>4. \A j \in DOMAIN t : from(j) \in DOMAIN s /\ from(j) # k /\ t[j] = s[from(j)]
    BY <2>1, <2>3
  <2>5. \A j1, j2 \in DOMAIN t : j1 # j2 => from(j1) # from(j2)
    BY <2>1, <2>3
  <2> HIDE DEF from
  <2>6. QED
    BY <2>3, <2>4, <2>5 DEF k, t
<1>3. QED
  BY <1>1, <1>2

\* genOf is a generation of the pool, or 0.
LEMMA GenOfFacts ==
  ASSUME NEW s \in Seq(Backend), NEW ip
  PROVE  /\ genOf(s, ip) \in 0 .. MaxGen
         /\ find(s, ip) # 0 => genOf(s, ip) = s[find(s, ip)].gen
         /\ find(s, ip) = 0 => genOf(s, ip) = 0
<1>1. CASE find(s, ip) = 0
  BY <1>1, MaxGenAssumption DEF genOf
<1>2. CASE find(s, ip) # 0
  <2>1. s[find(s, ip)] \in Backend
    BY <1>2, FindFacts
  <2>2. QED
    BY <1>2, <2>1, MaxGenAssumption DEF genOf, Backend, Gen
<1>3. QED
  BY <1>1, <1>2

-----------------------------------------------------------------------------
(* Types.                                                                  *)

USE NoIPAssumption, MaxGenAssumption, TimeAssumption, FailAssumption, RRAssumption

\* Init starts with empty pools, no session, no element and no flow.
LEMMA InitType == Init => TypeOK
BY DEF Init, TypeOK, NoSession, Session, NoEntry, Entry, Gen

\* delPoolElement, whether it fails or not, leaves a map of generations to addresses.
LEMMA DelElementType ==
  ASSUME NEW els \in [Gen -> IPs \cup {NoIP}], NEW g \in 0 .. MaxGen,
         NEW d \in DelElement(els, g)
  PROVE  d \in [Gen -> IPs \cup {NoIP}]
BY DEF DelElement

\* unmanage empties the pool of a port.
LEMMA UnmanageType ==
  ASSUME TypeOK, NEW p \in Ports, unmanage(p)
  PROVE  /\ managed' \in SUBSET Ports
         /\ backends' \in [Ports -> Seq(Backend)]
         /\ rr' \in [Ports -> 0 .. RRWrap - 1]
<1>1. <<>> \in Seq(Backend) /\ 0 \in 0 .. RRWrap - 1
  OBVIOUS
<1>2. QED
  BY <1>1 DEF TypeOK, unmanage

\* The entrypoints keep the types.
LEMMA EntrypointType ==
  ASSUME TypeOK
  PROVE  /\ \A p \in Ports, ip \in IPs : AddBackend(p, ip) => TypeOK'
         /\ AddBackendElement => TypeOK'
         /\ AddBackendFails => TypeOK'
         /\ \A p \in Ports, ip \in IPs, unbind \in BOOLEAN :
              RemoveBackend(p, ip, unbind) => TypeOK'
         /\ RemoveBackendElement => TypeOK'
         /\ \A ip \in IPs : FlushConntrack(ip) => TypeOK'
         /\ \A p \in Ports : Unmanage(p) => TypeOK'
<1>1. ASSUME NEW p \in Ports, NEW ip \in IPs, AddBackend(p, ip) PROVE TypeOK'
  <2>1. gen + 1 \in Gen /\ gen' \in 0 .. MaxGen
    BY <1>1 DEF AddBackend, TypeOK, Gen
  <2>2. backends[p] \in Seq(Backend)
    BY DEF TypeOK
  <2>3. backends' \in [Ports -> Seq(Backend)]
    BY <1>1, <2>1, <2>2, AddFacts DEF AddBackend, TypeOK
  <2>4. genOf(backends[p], ip) \in 0 .. MaxGen
    BY <2>2, GenOfFacts
  <2>5. op' \in SUBSET (AddOp \cup RemoveOp)
    BY <1>1, <2>1, <2>4 DEF AddBackend, AddOp
  <2>6. QED
    BY <1>1, <2>1, <2>3, <2>5 DEF AddBackend, TypeOK, kernelVars
<1>2. ASSUME AddBackendElement PROVE TypeOK'
  <2>1. PICK o \in op : /\ o.kind = "add"
                        /\ \E els \in DelElement(elements, o.old) :
                             elements' = [els EXCEPT ![o.gen] = o.ip]
    BY <1>2 DEF AddBackendElement
  <2>2. o \in AddOp
    BY <2>1 DEF TypeOK, RemoveOp
  <2>3. o.old \in 0 .. MaxGen /\ o.gen \in Gen /\ o.ip \in IPs
    BY <2>2 DEF AddOp
  <2>4. elements' \in [Gen -> IPs \cup {NoIP}]
    <3>1. PICK els \in DelElement(elements, o.old) :
                 elements' = [els EXCEPT ![o.gen] = o.ip]
      BY <2>1
    <3>2. els \in [Gen -> IPs \cup {NoIP}]
      BY <2>3, DelElementType DEF TypeOK
    <3>3. QED
      BY <2>3, <3>1, <3>2
  <2>5. QED
    BY <1>2, <2>4 DEF AddBackendElement, TypeOK, routerVars
<1>3. ASSUME AddBackendFails PROVE TypeOK'
  <2>1. PICK o \in op :
          /\ o.kind = "add"
          /\ elements' \in DelElement(elements, o.old)
          /\ backends' = [backends EXCEPT ![o.port] = removeBackend(@, o.ip)]
    BY <1>3 DEF AddBackendFails
  <2>2. o \in AddOp
    BY <2>1 DEF TypeOK, RemoveOp
  <2>3. o.old \in 0 .. MaxGen /\ o.port \in Ports
    BY <2>2 DEF AddOp
  <2>4. elements' \in [Gen -> IPs \cup {NoIP}]
    BY <2>1, <2>3, DelElementType DEF TypeOK
  <2>5. backends' \in [Ports -> Seq(Backend)]
    BY <2>1, <2>3, RemoveFacts DEF TypeOK
  <2>6. QED
    BY <1>3, <2>4, <2>5 DEF AddBackendFails, TypeOK
<1>4. ASSUME NEW p \in Ports, NEW ip \in IPs, NEW unbind \in BOOLEAN,
             RemoveBackend(p, ip, unbind)
      PROVE  TypeOK'
  <2>1. backends[p] \in Seq(Backend)
    BY DEF TypeOK
  <2>2. backends' \in [Ports -> Seq(Backend)]
    BY <1>4, <2>1, RemoveFacts DEF RemoveBackend, TypeOK
  <2>3. genOf(backends[p], ip) \in 0 .. MaxGen
    BY <2>1, GenOfFacts
  <2>4. (unbind /\ p \in managed /\ backends'[p] = <<>>) \in BOOLEAN
    OBVIOUS
  <2>5. op' \in SUBSET (AddOp \cup RemoveOp)
    BY <1>4, <2>3, <2>4 DEF RemoveBackend, RemoveOp
  <2>6. QED
    BY <1>4, <2>2, <2>5 DEF RemoveBackend, TypeOK, kernelVars
<1>5. ASSUME RemoveBackendElement PROVE TypeOK'
  <2>1. PICK o \in op :
          /\ o.kind = "remove"
          /\ elements' \in DelElement(elements, o.old)
          /\ IF o.unbind THEN unmanage(o.port) ELSE UNCHANGED <<managed, backends, rr>>
    BY <1>5 DEF RemoveBackendElement
  <2>2. o \in RemoveOp
    BY <2>1 DEF TypeOK, AddOp
  <2>3. o.old \in 0 .. MaxGen /\ o.port \in Ports
    BY <2>2 DEF RemoveOp
  <2>4. elements' \in [Gen -> IPs \cup {NoIP}]
    BY <2>1, <2>3, DelElementType DEF TypeOK
  <2>5. /\ managed' \in SUBSET Ports
        /\ backends' \in [Ports -> Seq(Backend)]
        /\ rr' \in [Ports -> 0 .. RRWrap - 1]
    <3>1. CASE o.unbind
      BY <2>1, <2>3, <3>1, UnmanageType
    <3>2. CASE ~o.unbind
      BY <2>1, <3>2 DEF TypeOK
    <3>3. QED
      BY <3>1, <3>2
  <2>6. QED
    BY <1>5, <2>4, <2>5 DEF RemoveBackendElement, TypeOK
<1>6. ASSUME NEW ip \in IPs, FlushConntrack(ip) PROVE TypeOK'
  <2>1. NoEntry \in Entry
    BY DEF NoEntry, Entry
  <2>2. conntrack' \in [Flows -> Entry]
    BY <1>6, <2>1 DEF FlushConntrack, TypeOK
  <2>3. QED
    BY <1>6, <2>2 DEF FlushConntrack, TypeOK, routerVars
<1>7. ASSUME NEW p \in Ports, Unmanage(p) PROVE TypeOK'
  BY <1>7, UnmanageType DEF Unmanage, TypeOK, kernelVars
<1>8. QED
  BY <1>1, <1>2, <1>3, <1>4, <1>5, <1>6, <1>7, Zenon

\* A packet or a reply refreshes an entry.
LEMMA EntryRefresh ==
  ASSUME NEW e \in Entry
  PROVE  /\ [e EXCEPT !.idle = 0] \in Entry
         /\ [e EXCEPT !.state = "established", !.idle = 0] \in Entry
<1>1. \A x \in Entry : [x EXCEPT !.idle = 0] \in Entry
  BY DEF Entry
<1>2. \A x \in Entry : [x EXCEPT !.state = "established"] \in Entry
  BY DEF Entry
<1>3. QED
  BY <1>1, <1>2

\* A packet that does not create a conntrack entry leaves one of the type.
LEMMA TouchedType ==
  ASSUME TypeOK, NEW f \in Flows
  PROVE  Touched(f) \in Entry
<1>1. NoEntry \in Entry
  BY DEF NoEntry, Entry
<1>2. conntrack[f] \in Entry
  BY DEF TypeOK
<1>3. [conntrack[f] EXCEPT !.idle = 0] \in Entry
  BY <1>2, EntryRefresh
<1>4. QED
  BY <1>1, <1>3 DEF Touched

\* Traffic keeps the types.
LEMMA TrafficType ==
  ASSUME TypeOK, Traffic
  PROVE  TypeOK'
<1>1. ASSUME NEW c \in Clients, NEW p \in Ports, RouteAccept(c, p) PROVE TypeOK'
  <2>1. <<c, p>> \in Flows
    BY DEF Flows
  <2>2. [NoEntry EXCEPT !.state = "new"] \in Entry
    BY DEF NoEntry, Entry
  <2>3. conntrack' \in [Flows -> Entry]
    BY <1>1, <2>1, <2>2, TouchedType DEF RouteAccept, TypeOK
  <2>4. QED
    BY <1>1, <2>3 DEF RouteAccept, TypeOK, routerVars
<1>2. ASSUME NEW c \in Clients, NEW p \in Ports, RouteDrop(c, p) PROVE TypeOK'
  <2>1. conntrack' \in [Flows -> Entry]
    BY <1>2, TouchedType DEF RouteDrop, TypeOK, Flows
  <2>2. QED
    BY <1>2, <2>1 DEF RouteDrop, TypeOK, routerVars
<1>3. ASSUME NEW c \in Clients, NEW p \in Ports, RouteSession(c, p) PROVE TypeOK'
  <2>1. conntrack' \in [Flows -> Entry]
    BY <1>3, TouchedType DEF RouteSession, TypeOK, Flows
  <2>2. sessions[c] \in Session
    BY DEF TypeOK
  <2>3. [sessions[c] EXCEPT !.age = 0] \in Session
    BY <2>2 DEF Session
  <2>4. sessions' \in [Clients -> Session]
    BY <1>3, <2>3 DEF RouteSession, TypeOK
  <2>5. sessions[c].gen \in Gen
    BY <1>3, <2>2 DEF RouteSession, HasSession, Session, Gen
  <2>6. inflight' \in SUBSET Packet
    BY <1>3, <2>5 DEF RouteSession, Packet
  <2>7. QED
    BY <1>3, <2>1, <2>4, <2>6 DEF RouteSession, TypeOK
<1>4. ASSUME NEW c \in Clients, NEW p \in Ports, RouteNew(c, p) PROVE TypeOK'
  <2>1. conntrack' \in [Flows -> Entry]
    BY <1>4, TouchedType DEF RouteNew, TypeOK, Flows
  <2> DEFINE k == (rr[p] % Len(backends[p])) + 1
             b == backends[p][k]
  <2>2. backends[p] \in Seq(Backend) /\ rr[p] \in Nat
    BY DEF TypeOK
  <2>3. backends[p] # <<>>
    BY <1>4 DEF RouteNew, routeVerdict
  <2>4. Len(backends[p]) \in Nat /\ Len(backends[p]) > 0
    BY <2>2, <2>3
  <2>5. k \in 1 .. Len(backends[p])
    BY <2>2, <2>4
  <2>6. b \in Backend
    BY <2>2, <2>5
  <2>7. /\ sessions' = [sessions EXCEPT ![c] = [backend |-> b.ip, gen |-> b.gen, age |-> 0]]
        /\ inflight' = {[client |-> c, port |-> p, mark |-> b.gen]}
    BY <1>4 DEF RouteNew
  <2> HIDE DEF k, b
  <2>8. sessions' \in [Clients -> Session] /\ inflight' \in SUBSET Packet
    <3>1. b.ip \in IPs /\ b.gen \in Gen
      BY <2>6 DEF Backend
    <3>2. [backend |-> b.ip, gen |-> b.gen, age |-> 0] \in Session
      BY <3>1 DEF Session, Gen
    <3>3. QED
      BY <2>7, <3>1, <3>2 DEF TypeOK, Packet
  <2>9. rr' \in [Ports -> 0 .. RRWrap - 1]
    <3>1. (rr[p] + 1) % RRWrap \in 0 .. RRWrap - 1
      BY <2>2
    <3>2. QED
      BY <1>4, <3>1 DEF RouteNew, TypeOK
  <2>10. QED
    BY <1>4, <2>1, <2>8, <2>9 DEF RouteNew, TypeOK
<1>5. ASSUME Reinject PROVE TypeOK'
  <2>1. PICK k \in inflight :
          conntrack' = [conntrack EXCEPT ![<<k.client, k.port>>] =
            IF @.state = "none"
            THEN [state |-> "new", nat |-> elements[k.mark], idle |-> 0,
                  mark |-> IF elements[k.mark] = NoIP THEN 0 ELSE k.mark]
            ELSE @]
    BY <1>5 DEF Reinject
  <2>2. k.client \in Clients /\ k.port \in Ports /\ k.mark \in Gen
    BY DEF TypeOK, Packet
  <2>3. elements[k.mark] \in IPs \cup {NoIP}
    BY <2>2 DEF TypeOK
  <2>4. [state |-> "new", nat |-> elements[k.mark], idle |-> 0,
         mark |-> IF elements[k.mark] = NoIP THEN 0 ELSE k.mark] \in Entry
    BY <2>2, <2>3 DEF Entry, Gen
  <2>5. conntrack' \in [Flows -> Entry]
    BY <2>1, <2>2, <2>4 DEF TypeOK, Flows
  <2>6. QED
    BY <1>5, <2>5 DEF Reinject, TypeOK, routerVars
<1>6. ASSUME VerdictFails PROVE TypeOK'
  BY <1>6 DEF VerdictFails, TypeOK, routerVars, kernelVars
<1>7. ASSUME NEW f \in Flows, Reply(f) PROVE TypeOK'
  <2>1. [conntrack[f] EXCEPT !.state = "established", !.idle = 0] \in Entry
    BY EntryRefresh DEF TypeOK
  <2>2. conntrack' \in [Flows -> Entry]
    BY <1>7, <2>1 DEF Reply, TypeOK
  <2>3. QED
    BY <1>7, <2>2 DEF Reply, TypeOK, routerVars
<1>8. ASSUME NEW f \in Flows, Forward(f) PROVE TypeOK'
  <2>1. [conntrack[f] EXCEPT !.idle = 0] \in Entry
    BY EntryRefresh DEF TypeOK
  <2>2. conntrack' \in [Flows -> Entry]
    BY <1>8, <2>1 DEF Forward, TypeOK
  <2>3. QED
    BY <1>8, <2>2 DEF Forward, TypeOK, routerVars
<1>9. ASSUME Tick PROVE TypeOK'
  <2>1. ASSUME NEW s \in Session PROVE Older(s) \in Session
    BY DEF Older, Session
  <2>2. ASSUME NEW e \in Entry PROVE Idler(e) \in Entry
    BY DEF Idler, Entry, NoEntry
  <2>3. sessions' \in [Clients -> Session] /\ conntrack' \in [Flows -> Entry]
    BY <1>9, <2>1, <2>2 DEF Tick, TypeOK
  <2>4. QED
    BY <1>9, <2>3 DEF Tick, TypeOK
<1>10. ASSUME Sweep PROVE TypeOK'
  <2>1. NoSession \in Session
    BY DEF NoSession, Session
  <2>2. QED
    BY <1>10, <2>1 DEF Sweep, TypeOK
<1>11. QED
  BY <1>1, <1>2, <1>3, <1>4, <1>5, <1>6, <1>7, <1>8, <1>9, <1>10 DEF Traffic, Handle

\* A step keeps the types.
LEMMA TypeStep ==
  ASSUME TypeOK, [Next]_vars
  PROVE  TypeOK'
<1>1. CASE UNCHANGED vars
  BY <1>1 DEF vars, TypeOK
<1>2. CASE Traffic
  BY <1>2, TrafficType
<1>3. CASE Next /\ ~Traffic
  BY <1>3, EntrypointType DEF Next
<1>4. QED
  BY <1>1, <1>2, <1>3

\* The router's pools, counters and sessions, the @pool map and the conntrack table
\* keep their types whatever the callers, the handler and the kernel interleave.
THEOREM TypeCorrect == Spec => []TypeOK
  BY InitType, TypeStep, PTL DEF Spec

-----------------------------------------------------------------------------
(* The pools, the @pool map and the entrypoint in progress.                *)

\* Init has no backend, no session and no entrypoint in progress.
LEMMA InitPool == Init => PoolInv
BY DEF Init, PoolInv, OneHolder, PoolsAreSets, GensDistinct, GensIssued, OldIsGone,
       ElementOrPending, NoSession, NoEntry

\* What a step may do to what is registered without breaking PoolsAreSets or
\* GensDistinct: every pool's backends are backends of the old pool, each once.
Thinned ==
  \A p \in Ports :
    /\ \A j \in DOMAIN backends'[p] : \E i \in DOMAIN backends[p] :
         backends'[p][j] = backends[p][i]
    /\ \A j1, j2 \in DOMAIN backends'[p] : j1 # j2 =>
         \E i1, i2 \in DOMAIN backends[p] :
           i1 # i2 /\ backends'[p][j1] = backends[p][i1] /\ backends'[p][j2] = backends[p][i2]

\* Removing backends from the pools of the router keeps what PoolInv says of pools.
LEMMA ThinnedKeepsPools ==
  ASSUME TypeOK, TypeOK', PoolsAreSets, GensDistinct, Thinned
  PROVE  PoolsAreSets' /\ GensDistinct'
<1>1. PoolsAreSets'
  BY DEF PoolsAreSets, Thinned
<1>2. ASSUME NEW p \in Ports, NEW q \in Ports,
             NEW i \in DOMAIN backends'[p], NEW j \in DOMAIN backends'[q],
             backends'[p][i].gen = backends'[q][j].gen
      PROVE  p = q /\ i = j
  <2>1. PICK k \in DOMAIN backends[p] : backends'[p][i] = backends[p][k]
    BY DEF Thinned
  <2>2. PICK l \in DOMAIN backends[q] : backends'[q][j] = backends[q][l]
    BY DEF Thinned
  <2>3. p = q
    BY <1>2, <2>1, <2>2 DEF GensDistinct
  <2>4. i = j
    BY <1>2, <2>3 DEF GensDistinct, Thinned
  <2>5. QED
    BY <2>3, <2>4
<1>3. QED
  BY <1>1, <1>2 DEF GensDistinct

\* unmanage only takes backends away.
LEMMA UnmanageThins ==
  ASSUME TypeOK, NEW p \in Ports, backends' = [backends EXCEPT ![p] = <<>>]
  PROVE  Thinned
BY DEF Thinned, TypeOK

\* So does removeBackend, and the removed address and generation are gone.
LEMMA RemoveThins ==
  ASSUME TypeOK, PoolsAreSets, GensDistinct, NEW p \in Ports, NEW ip \in IPs,
         backends' = [backends EXCEPT ![p] = removeBackend(@, ip)]
  PROVE  /\ Thinned
         /\ \A q \in Ports : \A j \in DOMAIN backends'[q] :
              backends'[q][j].gen # genOf(backends[p], ip)
         /\ \A j \in DOMAIN backends'[p] : backends'[p][j].ip # ip
<1>1. backends[p] \in Seq(Backend) /\ backends'[p] = removeBackend(backends[p], ip)
  BY DEF TypeOK
<1>2. \A q \in Ports \ {p} : backends'[q] = backends[q]
  BY DEF TypeOK
<1>3. /\ \A j \in DOMAIN backends'[p] : \E i \in DOMAIN backends[p] :
           backends'[p][j] = backends[p][i] /\ i # find(backends[p], ip)
      /\ \A j1, j2 \in DOMAIN backends'[p] : j1 # j2 =>
           \E i1, i2 \in DOMAIN backends[p] :
             i1 # i2 /\ backends'[p][j1] = backends[p][i1] /\ backends'[p][j2] = backends[p][i2]
  BY <1>1, RemoveFacts
<1>4. Thinned
  BY <1>2, <1>3 DEF Thinned
<1>5. ASSUME NEW q \in Ports, NEW j \in DOMAIN backends'[q]
      PROVE  backends'[q][j].gen # genOf(backends[p], ip)
  <2>1. PICK i \in DOMAIN backends[q] : /\ backends'[q][j] = backends[q][i]
                                        /\ q = p => i # find(backends[p], ip)
    BY <1>2, <1>3
  <2>2. CASE find(backends[p], ip) = 0
    <3>1. backends[q][i] \in Backend
      BY DEF TypeOK
    <3>2. backends[q][i].gen # 0
      BY <3>1 DEF Backend, Gen
    <3>3. genOf(backends[p], ip) = 0
      BY <1>1, <2>2, GenOfFacts
    <3>4. QED
      BY <2>1, <3>2, <3>3
  <2>3. CASE find(backends[p], ip) # 0
    <3>1. /\ find(backends[p], ip) \in DOMAIN backends[p]
          /\ genOf(backends[p], ip) = backends[p][find(backends[p], ip)].gen
      BY <1>1, <2>3, FindFacts, GenOfFacts
    <3>2. QED
      BY <2>1, <3>1 DEF GensDistinct
  <2>4. QED
    BY <2>2, <2>3
<1>6. ASSUME NEW j \in DOMAIN backends'[p] PROVE backends'[p][j].ip # ip
  <2>1. PICK i \in DOMAIN backends[p] :
          backends'[p][j] = backends[p][i] /\ i # find(backends[p], ip)
    BY <1>3
  <2>2. CASE find(backends[p], ip) = 0
    BY <1>1, <2>1, <2>2, FindFacts
  <2>3. CASE find(backends[p], ip) # 0
    <3>1. /\ find(backends[p], ip) \in DOMAIN backends[p]
          /\ backends[p][find(backends[p], ip)].ip = ip
      BY <1>1, <2>3, FindFacts
    <3>2. QED
      BY <2>1, <3>1 DEF PoolsAreSets
  <2>4. QED
    BY <2>2, <2>3
<1>7. QED
  BY <1>4, <1>5, <1>6

\* AddBackend bumps the generation of an address or appends it: the new registration
\* has a fresh generation, the others are the old ones with another address.
LEMMA AddBackendRegisters ==
  ASSUME TypeOK, PoolInv, NEW p \in Ports, NEW ip \in IPs, AddBackend(p, ip)
  PROVE  \E k \in DOMAIN backends'[p] :
           /\ backends'[p][k] = [ip |-> ip, gen |-> gen + 1]
           /\ \A q \in Ports : \A j \in DOMAIN backends'[q] : q # p \/ j # k =>
                /\ j \in DOMAIN backends[q] /\ backends'[q][j] = backends[q][j]
                /\ q = p => backends[q][j].ip # ip
                /\ backends[q][j].gen # genOf(backends[p], ip)
<1>1. gen + 1 \in Gen
  BY DEF AddBackend, TypeOK, Gen
<1>2. /\ backends[p] \in Seq(Backend)
      /\ backends'[p] = addBackend(backends[p], ip, gen + 1)
      /\ \A q \in Ports \ {p} : backends'[q] = backends[q]
  BY DEF AddBackend, TypeOK
<1>3. PICK k \in DOMAIN backends'[p] :
        /\ backends'[p][k] = [ip |-> ip, gen |-> gen + 1]
        /\ find(backends[p], ip) # 0 => k = find(backends[p], ip)
        /\ \A j \in DOMAIN backends'[p] \ {k} :
             j \in DOMAIN backends[p] /\ backends'[p][j] = backends[p][j]
        /\ find(backends[p], ip) = 0 => \A j \in DOMAIN backends[p] : backends[p][j].ip # ip
  BY <1>1, <1>2, AddFacts
<1>4. ASSUME NEW q \in Ports, NEW j \in DOMAIN backends'[q], q # p \/ j # k
      PROVE  /\ j \in DOMAIN backends[q] /\ backends'[q][j] = backends[q][j]
             /\ q = p => backends[q][j].ip # ip
             /\ backends[q][j].gen # genOf(backends[p], ip)
  <2>1. j \in DOMAIN backends[q] /\ backends'[q][j] = backends[q][j]
    BY <1>2, <1>3, <1>4
  <2>2. CASE find(backends[p], ip) = 0
    <3>1. backends[q][j].gen # 0
      <4>1. backends[q] \in Seq(Backend)
        BY DEF TypeOK
      <4>2. backends[q][j] \in Backend
        BY <2>1, <4>1
      <4>3. QED
        BY <4>2 DEF Backend, Gen
    <3>2. genOf(backends[p], ip) = 0
      BY <1>2, <2>2, GenOfFacts
    <3>3. QED
      BY <1>3, <2>1, <2>2, <3>1, <3>2
  <2>3. CASE find(backends[p], ip) # 0
    <3>1. k \in DOMAIN backends[p] /\ backends[p][k].ip = ip
      BY <1>2, <1>3, <2>3, FindFacts
    <3>2. genOf(backends[p], ip) = backends[p][k].gen
      BY <1>2, <1>3, <2>3, GenOfFacts
    <3>3. QED
      BY <1>4, <2>1, <3>1, <3>2 DEF PoolInv, PoolsAreSets, GensDistinct
  <2>4. QED
    BY <2>2, <2>3
<1>5. QED
  BY <1>3, <1>4

\* The element an entrypoint deletes is not the element of a registered backend.
LEMMA DelElementKeeps ==
  ASSUME TypeOK, NEW o \in op, NEW els \in DelElement(elements, o.old),
         NEW g \in Gen, g # o.old
  PROVE  els[g] = elements[g]
BY DEF DelElement, TypeOK

\* delPoolElement adds no element: what is there afterwards was there before.
LEMMA DelElementIssued ==
  ASSUME TypeOK, NEW o \in op, NEW els \in DelElement(elements, o.old),
         NEW g \in Gen, els[g] # NoIP
  PROVE  elements[g] # NoIP
BY DEF DelElement, TypeOK

\* Steps that leave pools, elements and opMu alone.
LEMMA PoolQuiet ==
  ASSUME TypeOK, TypeOK', PoolInv, UNCHANGED <<backends, gen, elements, op>>,
         \A c \in Clients : sessions'[c].gen <= gen,
         \A f \in Flows : conntrack'[f].mark <= gen
  PROVE  PoolInv'
BY DEF PoolInv, OneHolder, PoolsAreSets, GensDistinct, GensIssued, OldIsGone,
       ElementOrPending

\* A thinned pool table keeps the invariant if the elements that are left do.
LEMMA PoolThinned ==
  ASSUME TypeOK, TypeOK', PoolInv, Thinned, UNCHANGED <<gen, sessions, conntrack>>,
         \A o1, o2 \in op' : o1 = o2,
         \A o \in op' : o.gen <= gen,
         \A g \in Gen : elements'[g] # NoIP => g <= gen,
         OldIsGone', ElementOrPending'
  PROVE  PoolInv'
<1>1. PoolsAreSets' /\ GensDistinct'
  BY ThinnedKeepsPools DEF PoolInv
<1>2. ASSUME NEW p \in Ports, NEW j \in DOMAIN backends'[p]
      PROVE  backends'[p][j].gen <= gen
  BY DEF PoolInv, GensIssued, Thinned
<1>3. GensIssued'
  BY <1>2 DEF PoolInv, GensIssued
<1>4. QED
  BY <1>1, <1>3 DEF PoolInv, OneHolder

\* The generation of a registered backend is a key of the @pool map.
LEMMA RegisteredGen ==
  ASSUME TypeOK, NEW p \in Ports, NEW i \in DOMAIN backends[p]
  PROVE  backends[p][i].gen \in Gen /\ backends[p][i].ip \in IPs
<1>1. backends[p] \in Seq(Backend)
  BY DEF TypeOK
<1>2. backends[p][i] \in Backend
  BY <1>1
<1>3. QED
  BY <1>2 DEF Backend

\* The entrypoints keep PoolInv.
LEMMA EntrypointPool ==
  ASSUME TypeOK, TypeOK', PoolInv
  PROVE  /\ \A p \in Ports, ip \in IPs : AddBackend(p, ip) => PoolInv'
         /\ AddBackendElement => PoolInv'
         /\ AddBackendFails => PoolInv'
         /\ \A p \in Ports, ip \in IPs, unbind \in BOOLEAN :
              RemoveBackend(p, ip, unbind) => PoolInv'
         /\ RemoveBackendElement => PoolInv'
         /\ \A ip \in IPs : FlushConntrack(ip) => PoolInv'
         /\ \A p \in Ports : Unmanage(p) => PoolInv'
<1>1. ASSUME NEW p \in Ports, NEW ip \in IPs, AddBackend(p, ip) PROVE PoolInv'
  <2>1. PICK k \in DOMAIN backends'[p] :
          /\ backends'[p][k] = [ip |-> ip, gen |-> gen + 1]
          /\ \A q \in Ports : \A j \in DOMAIN backends'[q] : q # p \/ j # k =>
               /\ j \in DOMAIN backends[q] /\ backends'[q][j] = backends[q][j]
               /\ q = p => backends[q][j].ip # ip
               /\ backends[q][j].gen # genOf(backends[p], ip)
    BY <1>1, AddBackendRegisters
  <2>2. op = {} /\ gen \in Nat /\ gen' = gen + 1
    BY <1>1 DEF AddBackend, TypeOK
  <2> DEFINE o == [kind |-> "add", port |-> p, ip |-> ip, gen |-> gen + 1,
                   old |-> genOf(backends[p], ip), unbind |-> FALSE]
  <2>3. /\ op' = {o} /\ o.port = p /\ o.ip = ip
        /\ o.gen = gen + 1 /\ o.old = genOf(backends[p], ip)
    BY <1>1 DEF AddBackend
  <2> HIDE DEF o
  <2>4. \A q \in Ports : \A j \in DOMAIN backends[q] : backends[q][j].gen <= gen
    BY DEF PoolInv, GensIssued
  <2>5. \A q \in Ports : \A j \in DOMAIN backends[q] : backends[q][j].gen \in Nat
    BY RegisteredGen DEF Gen
  <2>6. OneHolder'
    BY <2>3 DEF OneHolder
  <2>7. PoolsAreSets'
    BY <2>1 DEF PoolInv, PoolsAreSets
  <2>8. GensDistinct'
    BY <2>1, <2>2, <2>4, <2>5 DEF PoolInv, GensDistinct
  <2>9. GensIssued'
    <3>1. \A q \in Ports : \A j \in DOMAIN backends'[q] : backends'[q][j].gen <= gen'
      BY <2>1, <2>2, <2>4, <2>5
    <3>2. /\ \A g \in Gen : elements'[g] # NoIP => g <= gen'
          /\ \A c \in Clients : sessions'[c].gen <= gen'
          /\ \A f \in Flows : conntrack'[f].mark <= gen'
      <4>1. UNCHANGED <<elements, sessions, conntrack>>
        BY <1>1 DEF AddBackend, kernelVars
      <4>2. /\ \A c \in Clients : sessions[c].gen \in Nat
            /\ \A f \in Flows : conntrack[f].mark \in Nat
        BY DEF TypeOK, Session, Entry
      <4>3. QED
        BY <2>2, <4>1, <4>2 DEF PoolInv, GensIssued, Gen
    <3>3. \A x \in op' : x.gen <= gen'
      BY <2>2, <2>3
    <3>4. QED
      BY <3>1, <3>2, <3>3 DEF GensIssued
  <2>10. OldIsGone'
    <3>1. genOf(backends[p], ip) # gen + 1
      <4>1. backends[p] \in Seq(Backend)
        BY DEF TypeOK
      <4>2. CASE find(backends[p], ip) = 0
        BY <2>2, <4>1, <4>2, GenOfFacts
      <4>3. CASE find(backends[p], ip) # 0
        BY <2>2, <2>4, <2>5, <4>1, <4>3, GenOfFacts, FindFacts
      <4>4. QED
        BY <4>2, <4>3
    <3>2. QED
      BY <2>1, <2>3, <3>1 DEF OldIsGone
  <2>11. ElementOrPending'
    <3>1. UNCHANGED elements
      BY <1>1 DEF AddBackend, kernelVars
    <3>2. ASSUME NEW q \in Ports, NEW j \in DOMAIN backends[q]
          PROVE  elements[backends[q][j].gen] = backends[q][j].ip
      BY <2>2 DEF PoolInv, ElementOrPending
    <3>3. QED
      BY <2>1, <2>2, <2>3, <2>4, <2>5, <3>1, <3>2 DEF ElementOrPending
  <2>12. QED
    BY <2>6, <2>7, <2>8, <2>9, <2>10, <2>11 DEF PoolInv
<1>2. ASSUME AddBackendElement PROVE PoolInv'
  <2>1. PICK o \in op : o.kind = "add" /\ \E els \in DelElement(elements, o.old) :
                          elements' = [els EXCEPT ![o.gen] = o.ip]
    BY <1>2 DEF AddBackendElement
  <2>2. PICK els \in DelElement(elements, o.old) : elements' = [els EXCEPT ![o.gen] = o.ip]
    BY <2>1
  <2>3. o.gen \in Gen /\ o.old \in 0 .. MaxGen
    BY <2>1 DEF TypeOK, AddOp, RemoveOp
  <2>4. els \in [Gen -> IPs \cup {NoIP}]
    BY <2>3, DelElementType DEF TypeOK
  <2>5. UNCHANGED <<backends, gen, sessions, conntrack>> /\ op' = {}
    BY <1>2 DEF AddBackendElement, routerVars
  <2>6. Thinned
    BY <2>5 DEF Thinned
  <2>7. \A g \in Gen : elements'[g] # NoIP => g <= gen
    BY <2>2, <2>3, <2>4, DelElementIssued DEF PoolInv, GensIssued
  <2>8. OldIsGone'
    BY <2>5 DEF OldIsGone
  <2>9. ASSUME NEW p \in Ports, NEW i \in DOMAIN backends[p]
        PROVE  elements'[backends[p][i].gen] = backends[p][i].ip
    <3>1. backends[p][i].gen \in Gen /\ backends[p][i].gen # o.old
      BY RegisteredGen DEF PoolInv, OldIsGone
    <3>2. els[backends[p][i].gen] = elements[backends[p][i].gen]
      BY <3>1, DelElementKeeps
    <3>3. CASE backends[p][i].gen = o.gen
      <4>1. o.ip = backends[p][i].ip
        BY <3>3 DEF PoolInv, ElementOrPending
      <4>2. QED
        BY <2>2, <2>3, <2>4, <3>3, <4>1
    <3>4. CASE backends[p][i].gen # o.gen
      <4>1. elements[backends[p][i].gen] = backends[p][i].ip
        BY <3>4 DEF PoolInv, ElementOrPending, OneHolder
      <4>2. QED
        BY <2>2, <2>4, <3>1, <3>2, <3>4, <4>1
    <3>5. QED
      BY <3>3, <3>4
  <2>10. ElementOrPending'
    BY <2>5, <2>9 DEF ElementOrPending
  <2>11. QED
    BY <2>5, <2>6, <2>7, <2>8, <2>10, PoolThinned
<1>3. ASSUME AddBackendFails PROVE PoolInv'
  <2>1. PICK o \in op :
          /\ o.kind = "add"
          /\ elements' \in DelElement(elements, o.old)
          /\ backends' = [backends EXCEPT ![o.port] = removeBackend(@, o.ip)]
    BY <1>3 DEF AddBackendFails
  <2>2. o.port \in Ports /\ o.ip \in IPs
    BY <2>1 DEF TypeOK, AddOp, RemoveOp
  <2>3. UNCHANGED <<gen, sessions, conntrack>> /\ op' = {}
    BY <1>3 DEF AddBackendFails
  <2>4. Thinned /\ \A j \in DOMAIN backends'[o.port] : backends'[o.port][j].ip # o.ip
    BY <2>1, <2>2, RemoveThins DEF PoolInv
  <2>5. \A g \in Gen : elements'[g] # NoIP => g <= gen
    BY <2>1, DelElementIssued DEF PoolInv, GensIssued
  <2>6. OldIsGone'
    BY <2>3 DEF OldIsGone
  <2>7. ASSUME NEW p \in Ports, NEW j \in DOMAIN backends'[p]
        PROVE  elements'[backends'[p][j].gen] = backends'[p][j].ip
    <3>1. PICK i \in DOMAIN backends[p] : backends'[p][j] = backends[p][i]
      BY <2>4 DEF Thinned
    <3>2. backends[p][i].gen \in Gen /\ backends[p][i].gen # o.old
      BY RegisteredGen DEF PoolInv, OldIsGone
    <3>3. elements'[backends[p][i].gen] = elements[backends[p][i].gen]
      BY <2>1, <3>2, DelElementKeeps
    <3>4. backends[p][i].gen # o.gen
      BY <2>4, <3>1 DEF PoolInv, ElementOrPending
    <3>5. elements[backends[p][i].gen] = backends[p][i].ip
      BY <3>4 DEF PoolInv, ElementOrPending, OneHolder
    <3>6. QED
      BY <3>1, <3>3, <3>5
  <2>8. ElementOrPending'
    BY <2>3, <2>7 DEF ElementOrPending
  <2>9. QED
    BY <2>3, <2>4, <2>5, <2>6, <2>8, PoolThinned
<1>4. ASSUME NEW p \in Ports, NEW ip \in IPs, NEW unbind \in BOOLEAN,
             RemoveBackend(p, ip, unbind)
      PROVE  PoolInv'
  <2>1. op = {} /\ backends' = [backends EXCEPT ![p] = removeBackend(@, ip)]
    BY <1>4 DEF RemoveBackend
  <2> DEFINE o == [kind |-> "remove", port |-> p, ip |-> ip, gen |-> 0,
                   old |-> genOf(backends[p], ip),
                   unbind |-> unbind /\ p \in managed /\ backends'[p] = <<>>]
  <2>2. op' = {o} /\ o.gen = 0 /\ o.old = genOf(backends[p], ip)
    BY <1>4 DEF RemoveBackend
  <2> HIDE DEF o
  <2>3. UNCHANGED <<gen, sessions, conntrack, elements>> /\ gen \in Nat
    BY <1>4 DEF RemoveBackend, kernelVars, TypeOK
  <2>4. /\ Thinned
        /\ \A q \in Ports : \A j \in DOMAIN backends'[q] :
             backends'[q][j].gen # genOf(backends[p], ip)
    BY <2>1, RemoveThins DEF PoolInv
  <2>5. OldIsGone'
    BY <2>2, <2>4 DEF OldIsGone
  <2>6. ASSUME NEW q \in Ports, NEW j \in DOMAIN backends'[q]
        PROVE  /\ backends'[q][j].gen # 0
               /\ elements'[backends'[q][j].gen] = backends'[q][j].ip
    <3>1. PICK i \in DOMAIN backends[q] : backends'[q][j] = backends[q][i]
      BY <2>4 DEF Thinned
    <3>2. elements[backends[q][i].gen] = backends[q][i].ip
      BY <2>1 DEF PoolInv, ElementOrPending
    <3>3. QED
      BY <2>3, <3>1, <3>2, RegisteredGen DEF Gen
  <2>7. ElementOrPending'
    BY <2>2, <2>6 DEF ElementOrPending
  <2>8. \A g \in Gen : elements'[g] # NoIP => g <= gen
    BY <2>3 DEF PoolInv, GensIssued
  <2>9. QED
    BY <2>2, <2>3, <2>4, <2>5, <2>7, <2>8, PoolThinned
<1>5. ASSUME RemoveBackendElement PROVE PoolInv'
  <2>1. PICK o \in op :
          /\ o.kind = "remove"
          /\ elements' \in DelElement(elements, o.old)
          /\ IF o.unbind THEN unmanage(o.port) ELSE UNCHANGED <<managed, backends, rr>>
    BY <1>5 DEF RemoveBackendElement
  <2>2. o.port \in Ports /\ o.gen = 0
    BY <2>1 DEF TypeOK, AddOp, RemoveOp
  <2>3. UNCHANGED <<gen, sessions, conntrack>> /\ op' = {}
    BY <1>5 DEF RemoveBackendElement
  <2>4. Thinned
    <3>1. CASE o.unbind
      BY <2>1, <2>2, <3>1, UnmanageThins DEF unmanage
    <3>2. CASE ~o.unbind
      BY <2>1, <3>2 DEF Thinned
    <3>3. QED
      BY <3>1, <3>2
  <2>5. \A g \in Gen : elements'[g] # NoIP => g <= gen
    BY <2>1, DelElementIssued DEF PoolInv, GensIssued
  <2>6. OldIsGone'
    BY <2>3 DEF OldIsGone
  <2>7. ASSUME NEW p \in Ports, NEW j \in DOMAIN backends'[p]
        PROVE  elements'[backends'[p][j].gen] = backends'[p][j].ip
    <3>1. PICK i \in DOMAIN backends[p] : backends'[p][j] = backends[p][i]
      BY <2>4 DEF Thinned
    <3>2. backends[p][i].gen \in Gen /\ backends[p][i].gen # o.old
      BY RegisteredGen DEF PoolInv, OldIsGone
    <3>3. elements'[backends[p][i].gen] = elements[backends[p][i].gen]
      BY <2>1, <3>2, DelElementKeeps
    <3>4. backends[p][i].gen # o.gen
      BY <2>2, <3>2 DEF Gen
    <3>5. elements[backends[p][i].gen] = backends[p][i].ip
      BY <3>4 DEF PoolInv, ElementOrPending, OneHolder
    <3>6. QED
      BY <3>1, <3>3, <3>5
  <2>8. ElementOrPending'
    BY <2>3, <2>7 DEF ElementOrPending
  <2>9. QED
    BY <2>3, <2>4, <2>5, <2>6, <2>8, PoolThinned
<1>6. ASSUME NEW ip \in IPs, FlushConntrack(ip) PROVE PoolInv'
  <2>1. UNCHANGED <<backends, gen, elements, op, sessions>>
    BY <1>6 DEF FlushConntrack, routerVars
  <2>2. \A f \in Flows : conntrack'[f] \in {conntrack[f], NoEntry}
    BY <1>6 DEF FlushConntrack
  <2>3. NoEntry.mark = 0 /\ gen \in Nat
    BY DEF NoEntry, TypeOK
  <2>4. \A f \in Flows : conntrack'[f].mark <= gen
    BY <2>2, <2>3 DEF PoolInv, GensIssued
  <2>5. \A c \in Clients : sessions'[c].gen <= gen
    BY <2>1 DEF PoolInv, GensIssued
  <2>6. QED
    BY <2>1, <2>4, <2>5, PoolQuiet
<1>7. ASSUME NEW p \in Ports, Unmanage(p) PROVE PoolInv'
  <2>1. Thinned
    BY <1>7, UnmanageThins DEF Unmanage, unmanage
  <2>2. UNCHANGED <<gen, sessions, conntrack, elements, op>>
    BY <1>7 DEF Unmanage, kernelVars
  <2>3. OldIsGone' /\ ElementOrPending'
    BY <2>1, <2>2 DEF PoolInv, OldIsGone, ElementOrPending, Thinned
  <2>4. /\ \A o1, o2 \in op' : o1 = o2
        /\ \A o \in op' : o.gen <= gen
        /\ \A g \in Gen : elements'[g] # NoIP => g <= gen
    BY <2>2 DEF PoolInv, OneHolder, GensIssued
  <2>5. QED
    BY <2>1, <2>2, <2>3, <2>4, PoolThinned
<1>8. QED
  BY <1>1, <1>2, <1>3, <1>4, <1>5, <1>6, <1>7, Zenon

\* The backend answers a flow, or the kernel forwards a packet of an established one:
\* mark and address stay.
LEMMA ReplyKeeps ==
  ASSUME TypeOK, NEW f \in Flows, Reply(f) \/ Forward(f)
  PROVE  /\ conntrack'[f].mark = conntrack[f].mark /\ conntrack'[f].nat = conntrack[f].nat
         /\ conntrack'[f].state = "established"
         /\ \A g \in Flows \ {f} : conntrack'[g] = conntrack[g]
<1>1. PICK e \in Entry : /\ e.mark = conntrack[f].mark /\ e.nat = conntrack[f].nat
                         /\ e.state = "established"
                         /\ conntrack' = [conntrack EXCEPT ![f] = e]
  <2>1. conntrack[f] \in Entry
    BY DEF TypeOK
  <2>2. CASE Reply(f)
    <3> DEFINE e == [conntrack[f] EXCEPT !.state = "established", !.idle = 0]
    <3>1. /\ e \in Entry /\ e.mark = conntrack[f].mark /\ e.nat = conntrack[f].nat
          /\ e.state = "established"
      <4> DEFINE y == [conntrack[f] EXCEPT !.state = "established"]
      <4>1. /\ y \in Entry /\ y.mark = conntrack[f].mark /\ y.nat = conntrack[f].nat
            /\ y.state = "established"
        BY <2>1 DEF Entry
      <4>2. e = [y EXCEPT !.idle = 0]
        OBVIOUS
      <4> HIDE DEF y, e
      <4>3. e \in Entry
        BY <4>1, <4>2, TimeAssumption DEF Entry
      <4>4. e.mark = y.mark /\ e.nat = y.nat /\ e.state = y.state
        BY <4>1, <4>2 DEF Entry
      <4>5. QED
        BY <4>1, <4>3, <4>4
    <3>2. conntrack' = [conntrack EXCEPT ![f] = e]
      BY <2>2 DEF Reply, TypeOK
    <3>3. QED
      BY <3>1, <3>2
  <2>3. CASE Forward(f)
    <3> DEFINE e == [conntrack[f] EXCEPT !.idle = 0]
    <3>1. /\ e \in Entry /\ e.mark = conntrack[f].mark /\ e.nat = conntrack[f].nat
          /\ e.state = conntrack[f].state
      BY <2>1, TimeAssumption DEF Entry
    <3>2. conntrack' = [conntrack EXCEPT ![f] = e] /\ conntrack[f].state = "established"
      BY <2>3 DEF Forward, TypeOK
    <3>3. QED
      BY <3>1, <3>2
  <2>4. QED
    BY <2>2, <2>3
<1>2. QED
  BY <1>1 DEF TypeOK

\* What traffic may do to sessions and marks: keep them, clear them, take the
\* generation of a registered backend, or that of an element.
LEMMA TrafficSources ==
  ASSUME TypeOK, Traffic
  PROVE  /\ UNCHANGED <<managed, backends, gen, elements, op>>
         /\ \A c \in Clients :
              \/ /\ sessions'[c].gen = sessions[c].gen
                 /\ sessions'[c].backend = sessions[c].backend
              \/ sessions'[c].gen = 0
              \/ /\ sessions[c].gen = 0
                 /\ \E p \in Ports : \E i \in DOMAIN backends[p] :
                   /\ sessions'[c].gen = backends[p][i].gen
                   /\ sessions'[c].backend = backends[p][i].ip
         /\ \A f \in Flows :
              \/ /\ conntrack'[f].mark = conntrack[f].mark
                 /\ conntrack'[f].nat = conntrack[f].nat
              \/ conntrack'[f].mark = 0
              \/ /\ conntrack'[f].mark \in Gen
                 /\ elements[conntrack'[f].mark] # NoIP
                 /\ conntrack'[f].nat = elements[conntrack'[f].mark]
<1> DEFINE Kept(f) == /\ conntrack'[f].mark = conntrack[f].mark
                      /\ conntrack'[f].nat = conntrack[f].nat
           Same(c) == /\ sessions'[c].gen = sessions[c].gen
                      /\ sessions'[c].backend = sessions[c].backend
<1>0. NoEntry.mark = 0 /\ NoSession.gen = 0
  BY DEF NoEntry, NoSession
<1>a. ASSUME NEW c \in Clients, NEW p \in Ports,
             conntrack' = [conntrack EXCEPT ![<<c, p>>] = Touched(<<c, p>>)]
      PROVE  \A f \in Flows : Kept(f) \/ conntrack'[f].mark = 0
  <2>1. \A e \in Entry : /\ [e EXCEPT !.idle = 0].mark = e.mark
                         /\ [e EXCEPT !.idle = 0].nat = e.nat
    BY DEF Entry
  <2>2. <<c, p>> \in Flows
    BY DEF Flows
  <2>3. \/ Touched(<<c, p>>).mark = 0
        \/ /\ Touched(<<c, p>>).mark = conntrack[<<c, p>>].mark
           /\ Touched(<<c, p>>).nat = conntrack[<<c, p>>].nat
    BY <1>0, <2>1, <2>2 DEF Touched, TypeOK
  <2>4. QED
    BY <1>a, <2>2, <2>3 DEF TypeOK
<1>1. ASSUME NEW c \in Clients, NEW p \in Ports, RouteAccept(c, p)
      PROVE  /\ UNCHANGED <<managed, backends, gen, elements, op, sessions>>
             /\ \A f \in Flows : Kept(f) \/ conntrack'[f].mark = 0
  <2>1. UNCHANGED <<managed, backends, gen, elements, op, sessions>>
    BY <1>1 DEF RouteAccept, routerVars
  <2>2. CASE conntrack[<<c, p>>].state = "none"
    <3>1. [NoEntry EXCEPT !.state = "new"].mark = 0
      BY DEF NoEntry
    <3>2. conntrack' = [conntrack EXCEPT ![<<c, p>>] = [NoEntry EXCEPT !.state = "new"]]
      BY <1>1, <2>2 DEF RouteAccept, TypeOK, Flows
    <3>3. QED
      BY <2>1, <3>1, <3>2 DEF TypeOK
  <2>3. CASE conntrack[<<c, p>>].state # "none"
    <3>1. conntrack' = [conntrack EXCEPT ![<<c, p>>] = Touched(<<c, p>>)]
      BY <1>1, <2>3 DEF RouteAccept, TypeOK, Flows
    <3>2. QED
      BY <1>a, <2>1, <3>1
  <2>4. QED
    BY <2>2, <2>3
<1>2. ASSUME NEW c \in Clients, NEW p \in Ports, RouteDrop(c, p)
      PROVE  /\ UNCHANGED <<managed, backends, gen, elements, op, sessions>>
             /\ \A f \in Flows : Kept(f) \/ conntrack'[f].mark = 0
  BY <1>2, <1>a DEF RouteDrop, routerVars
<1>3. ASSUME NEW c \in Clients, NEW p \in Ports, RouteSession(c, p)
      PROVE  /\ UNCHANGED <<managed, backends, gen, elements, op>>
             /\ \A d \in Clients : Same(d)
             /\ \A f \in Flows : Kept(f) \/ conntrack'[f].mark = 0
  <2>1. \A x \in Session : /\ [x EXCEPT !.age = 0].gen = x.gen
                           /\ [x EXCEPT !.age = 0].backend = x.backend
    BY DEF Session
  <2>2. sessions' = [sessions EXCEPT ![c] = [sessions[c] EXCEPT !.age = 0]]
    BY <1>3 DEF RouteSession, TypeOK
  <2>3. \A d \in Clients : Same(d)
    BY <2>1, <2>2 DEF TypeOK
  <2>4. QED
    BY <1>3, <1>a, <2>3 DEF RouteSession
<1>4. ASSUME NEW c \in Clients, NEW p \in Ports, RouteNew(c, p)
      PROVE  /\ UNCHANGED <<managed, backends, gen, elements, op>>
             /\ \A d \in Clients \ {c} : Same(d)
             /\ sessions[c].gen = 0
             /\ \E i \in DOMAIN backends[p] : /\ sessions'[c].gen = backends[p][i].gen
                                              /\ sessions'[c].backend = backends[p][i].ip
             /\ \A f \in Flows : Kept(f) \/ conntrack'[f].mark = 0
  <2> DEFINE k == (rr[p] % Len(backends[p])) + 1
  <2>1. backends[p] \in Seq(Backend) /\ rr[p] \in Nat /\ backends[p] # <<>>
    BY <1>4 DEF TypeOK, RouteNew, routeVerdict
  <2>2. Len(backends[p]) \in Nat /\ Len(backends[p]) > 0
    BY <2>1
  <2>3. k \in DOMAIN backends[p]
    BY <2>1, <2>2
  <2>4. sessions' = [sessions EXCEPT ![c] =
          [backend |-> backends[p][k].ip, gen |-> backends[p][k].gen, age |-> 0]]
    BY <1>4 DEF RouteNew
  <2> HIDE DEF k
  <2>5. /\ sessions'[c].gen = backends[p][k].gen
        /\ sessions'[c].backend = backends[p][k].ip
        /\ \A d \in Clients \ {c} : Same(d)
    BY <2>4 DEF TypeOK
  <2>6. QED
    BY <1>4, <1>a, <2>3, <2>5 DEF RouteNew, HasSession
<1>5. ASSUME Reinject
      PROVE  /\ UNCHANGED <<managed, backends, gen, elements, op, sessions>>
             /\ \A f \in Flows :
                  \/ Kept(f)
                  \/ conntrack'[f].mark = 0
                  \/ /\ conntrack'[f].mark \in Gen
                     /\ elements[conntrack'[f].mark] # NoIP
                     /\ conntrack'[f].nat = elements[conntrack'[f].mark]
  <2>1. PICK k \in inflight :
          conntrack' = [conntrack EXCEPT ![<<k.client, k.port>>] =
            IF @.state = "none"
            THEN [state |-> "new", nat |-> elements[k.mark], idle |-> 0,
                  mark |-> IF elements[k.mark] = NoIP THEN 0 ELSE k.mark]
            ELSE @]
    BY <1>5 DEF Reinject
  <2>2. k.client \in Clients /\ k.port \in Ports /\ k.mark \in Gen
    BY DEF TypeOK, Packet
  <2>3. <<k.client, k.port>> \in Flows
    BY <2>2 DEF Flows
  <2>4. \A f \in Flows \ {<<k.client, k.port>>} : Kept(f)
    BY <2>1 DEF TypeOK
  <2>5. CASE conntrack[<<k.client, k.port>>].state # "none"
    BY <1>5, <2>1, <2>3, <2>4, <2>5 DEF TypeOK, Reinject, routerVars
  <2>6. CASE conntrack[<<k.client, k.port>>].state = "none"
    <3>1. /\ conntrack'[<<k.client, k.port>>].nat = elements[k.mark]
          /\ conntrack'[<<k.client, k.port>>].mark =
               IF elements[k.mark] = NoIP THEN 0 ELSE k.mark
      BY <2>1, <2>3, <2>6 DEF TypeOK
    <3>2. QED
      BY <1>5, <2>2, <2>4, <3>1 DEF Reinject, routerVars
  <2>7. QED
    BY <2>5, <2>6
<1>6. ASSUME VerdictFails
      PROVE  UNCHANGED <<managed, backends, gen, elements, op, sessions, conntrack>>
  BY <1>6 DEF VerdictFails, routerVars, kernelVars
<1>7. ASSUME NEW f \in Flows, Reply(f) \/ Forward(f)
      PROVE  /\ UNCHANGED <<managed, backends, gen, elements, op, sessions>>
             /\ \A g \in Flows : Kept(g)
  <2>1. /\ conntrack'[f].mark = conntrack[f].mark
        /\ conntrack'[f].nat = conntrack[f].nat
        /\ \A g \in Flows \ {f} : conntrack'[g] = conntrack[g]
    BY <1>7, ReplyKeeps
  <2>2. QED
    BY <1>7, <2>1 DEF Reply, Forward, routerVars
<1>8. ASSUME Tick
      PROVE  /\ UNCHANGED <<managed, backends, gen, elements, op>>
             /\ \A c \in Clients : Same(c)
             /\ \A f \in Flows : Kept(f) \/ conntrack'[f].mark = 0
  <2>1. \A x \in Session : Older(x).gen = x.gen /\ Older(x).backend = x.backend
    BY DEF Older, Session
  <2>2. \A e \in Entry : \/ Idler(e).mark = 0
                         \/ Idler(e).mark = e.mark /\ Idler(e).nat = e.nat
    BY DEF Idler, Entry, NoEntry
  <2>3. QED
    BY <1>8, <2>1, <2>2 DEF Tick, TypeOK
<1>9. ASSUME Sweep
      PROVE  /\ UNCHANGED <<managed, backends, gen, elements, op, conntrack>>
             /\ \A c \in Clients : Same(c) \/ sessions'[c].gen = 0
  BY <1>9, <1>0 DEF Sweep
<1>10. QED
  BY <1>1, <1>2, <1>3, <1>4, <1>5, <1>6, <1>7, <1>8, <1>9 DEF Traffic, Handle

\* Packets, replies, ticks and sweeps leave pools, elements and op alone: PoolInv stays.
LEMMA TrafficPool ==
  ASSUME TypeOK, TypeOK', PoolInv, Traffic
  PROVE  PoolInv'
<1>1. UNCHANGED <<backends, gen, elements, op>> /\ gen \in Nat
  BY TrafficSources DEF TypeOK
<1>2. \A c \in Clients : sessions'[c].gen <= gen
  BY <1>1, TrafficSources DEF PoolInv, GensIssued
<1>3. \A f \in Flows : conntrack'[f].mark <= gen
  BY <1>1, TrafficSources DEF PoolInv, GensIssued
<1>4. QED
  BY <1>1, <1>2, <1>3, PoolQuiet

\* PoolInv holds in every reachable state, for all constants.
THEOREM PoolInvariant == Spec => [](TypeOK /\ PoolInv)
<1>1. Init => PoolInv
  BY InitPool
<1>2. TypeOK /\ TypeOK' /\ PoolInv /\ [Next]_vars => PoolInv'
  <2> SUFFICES ASSUME TypeOK, TypeOK', PoolInv, [Next]_vars PROVE PoolInv'
    OBVIOUS
  <2>1. CASE UNCHANGED vars
    BY <2>1, PoolQuiet DEF vars, PoolInv, GensIssued
  <2>2. CASE Traffic
    BY <2>2, TrafficPool
  <2>3. CASE Next /\ ~Traffic
    BY <2>3, EntrypointPool DEF Next
  <2>4. QED
    BY <2>1, <2>2, <2>3
<1>3. QED
  BY <1>1, <1>2, TypeCorrect, PTL DEF Spec

\* No sequence of additions, removals, failures and unmanages makes a pool list an
\* address twice.
THEOREM PoolsStaySets == Spec => []PoolsAreSets
<1>1. PoolInv => PoolsAreSets
  BY DEF PoolInv
<1>2. QED
  BY <1>1, PoolInvariant, PTL

\* Between entrypoints every backend route() can choose has its @pool element, so the
\* mark route() stamps is executed: the roll-back of a failed AddBackend and the
\* clean-up of stale elements never leave a routable backend without one.
THEOREM RoutableIsExecutable == Spec => []RoutableHasElement
<1>1. PoolInv => RoutableHasElement
  BY DEF PoolInv, ElementOrPending, RoutableHasElement
<1>2. QED
  BY <1>1, PoolInvariant, PTL

\* route() never moves a session: only the sweep ends it.
THEOREM SessionsStayPinned == Spec => SessionPinned
<1>1. TypeOK /\ [Next]_vars =>
        [\A c \in Clients : HasSession(c) /\ HasSession(c)' =>
           /\ sessions'[c].backend = sessions[c].backend
           /\ sessions'[c].gen = sessions[c].gen]_vars
  <2> SUFFICES ASSUME TypeOK, Next
               PROVE  \A c \in Clients : HasSession(c) /\ HasSession(c)' =>
                        /\ sessions'[c].backend = sessions[c].backend
                        /\ sessions'[c].gen = sessions[c].gen
    OBVIOUS
  <2>1. CASE Traffic
    BY <2>1, TrafficSources DEF HasSession
  <2>2. CASE ~Traffic
    <3>1. UNCHANGED sessions
      BY <2>2 DEF Next, AddBackend, AddBackendElement, AddBackendFails, RemoveBackend,
                  RemoveBackendElement, FlushConntrack, Unmanage, routerVars
    <3>2. QED
      BY <3>1
  <2>3. QED
    BY <2>1, <2>2
<1>2. QED
  BY <1>1, TypeCorrect, PTL DEF Spec, SessionPinned

-----------------------------------------------------------------------------
(* A generation names one backend.  The witness is a history: own[g] is    *)
(* the address the g-th AddBackend was called with.                        *)

Agrees(own) ==
  /\ \A p \in Ports : \A i \in DOMAIN backends[p] :
       own[backends[p][i].gen] = backends[p][i].ip
  /\ \A g \in Gen : elements[g] \in {own[g], NoIP}
  /\ \A c \in Clients : sessions[c].gen # 0 => own[sessions[c].gen] = sessions[c].backend
  /\ \A f \in Flows : conntrack[f].mark # 0 => own[conntrack[f].mark] = conntrack[f].nat
  /\ \A o \in op : o.kind = "add" => own[o.gen] = o.ip

Owner == [Gen -> IPs \cup {NoIP}]
OwnerInv == \E own \in Owner : Agrees(own)

\* Initially no generation has an owner.
LEMMA InitOwner == Init => OwnerInv
<1> SUFFICES ASSUME Init PROVE OwnerInv
  OBVIOUS
<1>1. elements \in Owner
  BY DEF Init, Owner
<1>2. Agrees(elements)
  BY DEF Init, Agrees, NoSession, NoEntry
<1>3. QED
  BY <1>1, <1>2 DEF OwnerInv

\* DelElement changes an element only to NoIP.
LEMMA DelElementOwner ==
  ASSUME NEW els \in [Gen -> IPs \cup {NoIP}], NEW g \in 0 .. MaxGen,
         NEW d \in DelElement(els, g), NEW h \in Gen
  PROVE  d[h] \in {els[h], NoIP}
BY DEF DelElement

\* A step of the proxy preserves the agreement on what each generation stands for.
LEMMA OwnerStep ==
  ASSUME TypeOK, TypeOK', PoolInv, OwnerInv, [Next]_vars
  PROVE  OwnerInv'
<1>0. PICK own \in Owner : Agrees(own)
  BY DEF OwnerInv
<1> SUFFICES \E x \in Owner : Agrees(x)'
  BY DEF OwnerInv
<1>1. ASSUME NEW p \in Ports, NEW ip \in IPs, AddBackend(p, ip)
      PROVE  \E x \in Owner : Agrees(x)'
  <2>1. gen \in Nat /\ gen + 1 \in Gen
    BY <1>1 DEF AddBackend, TypeOK, Gen
  <2>2. PICK x \in Owner : /\ x[gen + 1] = ip
                           /\ \A g \in Gen : g # gen + 1 => x[g] = own[g]
    <3>1. [own EXCEPT ![gen + 1] = ip] \in Owner
      BY <1>0, <2>1 DEF Owner
    <3>2. QED
      BY <1>0, <2>1, <3>1 DEF Owner
  <2>3. PICK k \in DOMAIN backends'[p] :
          /\ backends'[p][k] = [ip |-> ip, gen |-> gen + 1]
          /\ \A q \in Ports : \A j \in DOMAIN backends'[q] : q # p \/ j # k =>
               j \in DOMAIN backends[q] /\ backends'[q][j] = backends[q][j]
    BY <1>1, AddBackendRegisters
  <2>4. UNCHANGED <<elements, sessions, conntrack>>
    BY <1>1 DEF AddBackend, kernelVars
  <2>5. \A q \in Ports : \A j \in DOMAIN backends'[q] :
          x[backends'[q][j].gen] = backends'[q][j].ip
    <3>1. ASSUME NEW q \in Ports, NEW j \in DOMAIN backends[q]
          PROVE  x[backends[q][j].gen] = backends[q][j].ip
      <4>1. backends[q][j].gen \in Gen /\ backends[q][j].gen <= gen
        BY RegisteredGen DEF PoolInv, GensIssued
      <4>2. x[backends[q][j].gen] = own[backends[q][j].gen]
        BY <2>1, <2>2, <4>1 DEF Gen
      <4>3. QED
        BY <1>0, <4>2 DEF Agrees
    <3>2. QED
      BY <2>2, <2>3, <3>1
  <2>6. \A g \in Gen : elements[g] \in {x[g], NoIP}
    BY <1>0, <2>1, <2>2 DEF Agrees, PoolInv, GensIssued, Gen
  <2>7. ASSUME NEW c \in Clients, sessions[c].gen # 0
        PROVE  x[sessions[c].gen] = sessions[c].backend
    <3>1. sessions[c].gen \in Gen /\ sessions[c].gen <= gen
      BY <2>7 DEF TypeOK, Session, Gen, PoolInv, GensIssued
    <3>2. x[sessions[c].gen] = own[sessions[c].gen]
      BY <2>1, <2>2, <3>1 DEF Gen
    <3>3. QED
      BY <1>0, <2>7, <3>2 DEF Agrees
  <2>8. ASSUME NEW f \in Flows, conntrack[f].mark # 0
        PROVE  x[conntrack[f].mark] = conntrack[f].nat
    <3>1. conntrack[f].mark \in Gen /\ conntrack[f].mark <= gen
      BY <2>8 DEF TypeOK, Entry, Gen, PoolInv, GensIssued
    <3>2. x[conntrack[f].mark] = own[conntrack[f].mark]
      BY <2>1, <2>2, <3>1 DEF Gen
    <3>3. QED
      BY <1>0, <2>8, <3>2 DEF Agrees
  <2>9. \A o \in op' : x[o.gen] = o.ip
    BY <1>1, <2>2 DEF AddBackend
  <2>10. Agrees(x)'
    BY <2>4, <2>5, <2>6, <2>7, <2>8, <2>9 DEF Agrees
  <2>11. QED
    BY <2>2, <2>10
<1>2. CASE Traffic
  <2>1. UNCHANGED <<backends, elements, op>>
    BY <1>2, TrafficSources
  <2>2. \A c \in Clients : sessions'[c].gen # 0 =>
          own[sessions'[c].gen] = sessions'[c].backend
    BY <1>0, <1>2, TrafficSources DEF Agrees
  <2>3. \A f \in Flows : conntrack'[f].mark # 0 =>
          own[conntrack'[f].mark] = conntrack'[f].nat
    BY <1>0, <1>2, TrafficSources DEF Agrees
  <2>4. Agrees(own)'
    BY <1>0, <2>1, <2>2, <2>3 DEF Agrees
  <2>5. QED
    BY <1>0, <2>4
<1>3. CASE AddBackendElement
  <2>1. PICK o \in op : o.kind = "add" /\ \E els \in DelElement(elements, o.old) :
                          elements' = [els EXCEPT ![o.gen] = o.ip]
    BY <1>3 DEF AddBackendElement
  <2>2. PICK els \in DelElement(elements, o.old) : elements' = [els EXCEPT ![o.gen] = o.ip]
    BY <2>1
  <2>3. o.gen \in Gen /\ o.old \in 0 .. MaxGen
    BY <2>1 DEF TypeOK, AddOp, RemoveOp
  <2>4. /\ els \in [Gen -> IPs \cup {NoIP}]
        /\ \A g \in Gen : els[g] \in {elements[g], NoIP}
    BY <2>3, DelElementType, DelElementOwner DEF TypeOK
  <2>5. \A g \in Gen : elements'[g] \in {own[g], NoIP}
    BY <1>0, <2>1, <2>2, <2>3, <2>4 DEF Agrees
  <2>6. UNCHANGED <<backends, sessions, conntrack>> /\ op' = {}
    BY <1>3 DEF AddBackendElement, routerVars
  <2>7. Agrees(own)'
    BY <1>0, <2>5, <2>6 DEF Agrees
  <2>8. QED
    BY <1>0, <2>7
<1>4. ASSUME Thinned, UNCHANGED sessions, \A o \in op' : o \in op \/ o.kind = "remove",
             \A g \in Gen : elements'[g] \in {elements[g], NoIP},
             \A f \in Flows : conntrack'[f] \in {conntrack[f], NoEntry}
      PROVE  \E x \in Owner : Agrees(x)'
  <2>1. NoEntry.mark = 0
    BY DEF NoEntry
  <2>2. \A q \in Ports : \A j \in DOMAIN backends'[q] :
          own[backends'[q][j].gen] = backends'[q][j].ip
    BY <1>0, <1>4 DEF Agrees, Thinned
  <2>3. \A f \in Flows : conntrack'[f].mark # 0 =>
          own[conntrack'[f].mark] = conntrack'[f].nat
    BY <1>0, <1>4, <2>1 DEF Agrees
  <2>4. \A o \in op' : o.kind = "add" => own[o.gen] = o.ip
    BY <1>0, <1>4 DEF Agrees
  <2>5. \A g \in Gen : elements'[g] \in {own[g], NoIP}
    BY <1>0, <1>4 DEF Agrees
  <2>6. Agrees(own)'
    BY <1>0, <1>4, <2>2, <2>3, <2>4, <2>5 DEF Agrees
  <2>7. QED
    BY <1>0, <2>6
<1>5. CASE AddBackendFails
  <2>1. PICK o \in op :
          /\ o.kind = "add"
          /\ elements' \in DelElement(elements, o.old)
          /\ backends' = [backends EXCEPT ![o.port] = removeBackend(@, o.ip)]
    BY <1>5 DEF AddBackendFails
  <2>2. o.port \in Ports /\ o.ip \in IPs /\ o.old \in 0 .. MaxGen
    BY <2>1 DEF TypeOK, AddOp, RemoveOp
  <2>3. Thinned
    BY <2>1, <2>2, RemoveThins DEF PoolInv
  <2>4. \A g \in Gen : elements'[g] \in {elements[g], NoIP}
    BY <2>1, <2>2, DelElementOwner DEF TypeOK
  <2>5. QED
    BY <1>4, <1>5, <2>3, <2>4 DEF AddBackendFails
<1>6. ASSUME NEW p \in Ports, NEW ip \in IPs, NEW unbind \in BOOLEAN,
             RemoveBackend(p, ip, unbind)
      PROVE  \E x \in Owner : Agrees(x)'
  <2>1. Thinned
    BY <1>6, RemoveThins DEF PoolInv, RemoveBackend
  <2>2. \A o \in op' : o.kind = "remove"
    BY <1>6 DEF RemoveBackend
  <2>3. QED
    BY <1>4, <1>6, <2>1, <2>2 DEF RemoveBackend, kernelVars
<1>7. CASE RemoveBackendElement
  <2>1. PICK o \in op :
          /\ o.kind = "remove"
          /\ elements' \in DelElement(elements, o.old)
          /\ IF o.unbind THEN unmanage(o.port) ELSE UNCHANGED <<managed, backends, rr>>
    BY <1>7 DEF RemoveBackendElement
  <2>2. o.port \in Ports /\ o.old \in 0 .. MaxGen
    BY <2>1 DEF TypeOK, AddOp, RemoveOp
  <2>3. Thinned
    <3>1. CASE o.unbind
      BY <2>1, <2>2, <3>1, UnmanageThins DEF unmanage
    <3>2. CASE ~o.unbind
      BY <2>1, <3>2 DEF Thinned
    <3>3. QED
      BY <3>1, <3>2
  <2>4. \A g \in Gen : elements'[g] \in {elements[g], NoIP}
    BY <2>1, <2>2, DelElementOwner DEF TypeOK
  <2>5. QED
    BY <1>4, <1>7, <2>3, <2>4 DEF RemoveBackendElement
<1>8. ASSUME NEW ip \in IPs, FlushConntrack(ip) PROVE \E x \in Owner : Agrees(x)'
  <2>1. \A f \in Flows : conntrack'[f] \in {conntrack[f], NoEntry}
    BY <1>8 DEF FlushConntrack
  <2>2. Thinned
    BY <1>8 DEF FlushConntrack, routerVars, Thinned
  <2>3. QED
    BY <1>4, <1>8, <2>1, <2>2 DEF FlushConntrack, routerVars
<1>9. ASSUME NEW p \in Ports, Unmanage(p) PROVE \E x \in Owner : Agrees(x)'
  <2>1. Thinned
    BY <1>9, UnmanageThins DEF Unmanage, unmanage
  <2>2. QED
    BY <1>4, <1>9, <2>1 DEF Unmanage, kernelVars
<1>10. CASE UNCHANGED vars
  BY <1>0, <1>10 DEF vars, Agrees
<1>11. QED
  BY <1>1, <1>2, <1>3, <1>5, <1>6, <1>7, <1>8, <1>9, <1>10 DEF Next

\* Every holder of a generation agrees on its address, in every reachable state.
THEOREM OwnerInvariant == Spec => [](TypeOK /\ PoolInv /\ OwnerInv)
<1>1. Init => OwnerInv
  BY InitOwner
<1>2. QED
  BY <1>1, PoolInvariant, OwnerStep, PTL DEF Spec

\* The router, the sessions, the @pool map and the NATed flows never disagree on the
\* backend a generation stands for, so a mark stamped before a re-registration cannot
\* be executed as another backend's.
THEOREM GenerationsAreUnique == Spec => []GenNamesOneBackend
<1>1. TypeOK /\ PoolInv /\ OwnerInv => GenNamesOneBackend
  <2> SUFFICES ASSUME TypeOK, PoolInv, OwnerInv,
                      NEW p \in Ports, NEW i \in DOMAIN backends[p]
               PROVE  LET b == backends[p][i]
                      IN  /\ \A q \in Ports : \A j \in DOMAIN backends[q] :
                               backends[q][j].gen = b.gen => q = p /\ j = i
                          /\ elements[b.gen] \in {b.ip, NoIP}
                          /\ \A c \in Clients :
                               sessions[c].gen = b.gen => sessions[c].backend = b.ip
                          /\ \A f \in Flows :
                               conntrack[f].mark = b.gen => conntrack[f].nat = b.ip
    BY DEF GenNamesOneBackend
  <2>1. PICK own \in Owner : Agrees(own)
    BY DEF OwnerInv
  <2>2. backends[p][i].gen \in Gen /\ backends[p][i].gen # 0
    BY RegisteredGen DEF Gen
  <2>3. own[backends[p][i].gen] = backends[p][i].ip
    BY <2>1 DEF Agrees
  <2>4. QED
    BY <2>1, <2>2, <2>3 DEF Agrees, PoolInv, GensDistinct
<1>2. QED
  BY <1>1, OwnerInvariant, PTL

\* A flow that carries its client's session mark goes to the session's backend.
THEOREM FlowsFollowSessions == Spec => []FlowFollowsSession
<1>1. TypeOK /\ OwnerInv => FlowFollowsSession
  <2> SUFFICES ASSUME TypeOK, OwnerInv, NEW f \in Flows, conntrack[f].mark # 0,
                      conntrack[f].mark = sessions[f[1]].gen
               PROVE  conntrack[f].nat = sessions[f[1]].backend
    BY DEF FlowFollowsSession
  <2>1. PICK own \in Owner : Agrees(own)
    BY DEF OwnerInv
  <2>2. PICK c \in Clients, p \in Ports : f = <<c, p>>
    BY DEF Flows
  <2>3. f[1] = c
    BY <2>2
  <2>4. own[conntrack[f].mark] = conntrack[f].nat
    BY <2>1 DEF Agrees
  <2>5. own[sessions[c].gen] = sessions[c].backend
    BY <2>1, <2>3 DEF Agrees
  <2>6. QED
    BY <2>3, <2>4, <2>5
<1>2. QED
  BY <1>1, OwnerInvariant, PTL

-----------------------------------------------------------------------------
(***************************************************************************)
(* The refinement: the proxy implements the directory.  First the packet   *)
(* between its verdict and its execution.                                  *)
(***************************************************************************)
SessionKept(c) == /\ sessions'[c].gen = sessions[c].gen
                  /\ sessions'[c].backend = sessions[c].backend
FlowKept(f) == /\ conntrack'[f].mark = conntrack[f].mark
               /\ conntrack'[f].nat = conntrack[f].nat

\* What a step of the traffic is to the clients: flows end, a client is bound, clients
\* are forgotten, or a flow is opened to the instance its client is bound to.
FlowsEnd == /\ \A c \in Clients : SessionKept(c)
            /\ \A f \in Flows :
                 FlowKept(f) \/ (conntrack'[f].mark = 0 /\ conntrack'[f].nat = NoIP)

Binds(c, p) ==
  /\ ~HasSession(c) /\ \A d \in Clients \ {c} : SessionKept(d)
  /\ \E i \in DOMAIN backends[p] : /\ sessions'[c].gen = backends[p][i].gen
                                   /\ sessions'[c].backend = backends[p][i].ip
  /\ \A f \in Flows : FlowKept(f)

Forgets == /\ \A c \in Clients : SessionKept(c) \/ sessions'[c].gen = 0
           /\ \A f \in Flows : FlowKept(f)

Opens(c, p) ==
  /\ HasSession(c) /\ conntrack[<<c, p>>].mark = 0
  /\ \A d \in Clients : SessionKept(d)
  /\ conntrack'[<<c, p>>].mark = sessions[c].gen
  /\ conntrack'[<<c, p>>].nat = sessions[c].backend
  /\ elements[sessions[c].gen] = sessions[c].backend
  /\ \A f \in Flows \ {<<c, p>>} : FlowKept(f)

\* A packet that does not create an entry changes nothing but its idle time.
LEMMA TouchedKeeps ==
  ASSUME TypeOK, PacketInv, NEW c \in Clients, NEW p \in Ports,
         conntrack' = [conntrack EXCEPT ![<<c, p>>] = Touched(<<c, p>>)]
  PROVE  \A f \in Flows :
           FlowKept(f) /\ (conntrack'[f].state = "none" => conntrack'[f] = NoEntry)
<1> DEFINE g == <<c, p>>
<1>1. g \in Flows /\ conntrack[g] \in Entry
  BY DEF TypeOK, Flows
<1>2. \A e \in Entry : /\ [e EXCEPT !.idle = 0].mark = e.mark
                       /\ [e EXCEPT !.idle = 0].nat = e.nat
                       /\ [e EXCEPT !.idle = 0].state = e.state
  BY DEF Entry
<1>3. /\ conntrack'[g] = Touched(g)
      /\ \A f \in Flows \ {g} : conntrack'[f] = conntrack[f]
  BY <1>1 DEF TypeOK
<1>4. CASE conntrack[g].state = "none"
  <2>1. Touched(g) = NoEntry /\ conntrack[g] = NoEntry
    BY <1>1, <1>4 DEF Touched, PacketInv
  <2>2. QED
    BY <1>3, <2>1 DEF FlowKept, PacketInv
<1>5. CASE conntrack[g].state # "none"
  <2>1. Touched(g) = [conntrack[g] EXCEPT !.idle = 0]
    BY <1>5 DEF Touched
  <2>2. /\ Touched(g).mark = conntrack[g].mark /\ Touched(g).nat = conntrack[g].nat
        /\ Touched(g).state # "none"
    BY <1>1, <1>2, <1>5, <2>1
  <2>3. QED
    BY <1>3, <2>2 DEF FlowKept, PacketInv
<1>6. QED
  BY <1>4, <1>5

\* The packet that onPacket decides about.
LEMMA HandleMoves ==
  ASSUME TypeOK, PacketInv, NEW c \in Clients, NEW p \in Ports, Handle(c, p)
  PROVE  PacketInv' /\ (FlowsEnd \/ Binds(c, p))
<1>1. CASE RouteAccept(c, p)
  <2>1. UNCHANGED <<sessions, inflight>> /\ inflight = {}
    BY <1>1 DEF RouteAccept, Queued, routerVars
  <2>2. CASE conntrack[<<c, p>>].state = "none"
    <3> DEFINE e == [NoEntry EXCEPT !.state = "new"]
    <3>1. e.mark = 0 /\ e.nat = NoIP /\ e.state = "new"
      BY DEF NoEntry
    <3>2. conntrack' = [conntrack EXCEPT ![<<c, p>>] = e]
      BY <1>1, <2>2 DEF RouteAccept, TypeOK, Flows
    <3> HIDE DEF e
    <3>3. \A f \in Flows : conntrack'[f] \in {conntrack[f], e}
      BY <3>2 DEF TypeOK
    <3>4. QED
      BY <2>1, <3>1, <3>3 DEF PacketInv, FlowsEnd, SessionKept, FlowKept
  <2>3. CASE conntrack[<<c, p>>].state # "none"
    <3>1. conntrack' = [conntrack EXCEPT ![<<c, p>>] = Touched(<<c, p>>)]
      BY <1>1, <2>3 DEF RouteAccept, TypeOK, Flows
    <3>2. QED
      BY <2>1, <3>1, TouchedKeeps DEF PacketInv, FlowsEnd, SessionKept
  <2>4. QED
    BY <2>2, <2>3
<1>2. CASE RouteDrop(c, p)
  <2>1. UNCHANGED <<sessions, inflight>> /\ inflight = {}
    BY <1>2 DEF RouteDrop, Queued, routerVars
  <2>2. QED
    BY <1>2, <2>1, TouchedKeeps DEF RouteDrop, PacketInv, FlowsEnd, SessionKept
<1>3. CASE RouteSession(c, p)
  <2>1. \A x \in Session : /\ [x EXCEPT !.age = 0].gen = x.gen
                           /\ [x EXCEPT !.age = 0].backend = x.backend
                           /\ [x EXCEPT !.age = 0].age = 0
    BY DEF Session
  <2>2. sessions' = [sessions EXCEPT ![c] = [sessions[c] EXCEPT !.age = 0]]
    BY <1>3 DEF RouteSession, TypeOK
  <2>3. sessions'[c].age = 0 /\ \A d \in Clients : SessionKept(d)
    BY <2>1, <2>2 DEF TypeOK, SessionKept
  <2>4. inflight' = {[client |-> c, port |-> p, mark |-> sessions[c].gen]}
    BY <1>3 DEF RouteSession
  <2>5. \A k \in inflight' : sessions'[k.client].gen = k.mark /\ sessions'[k.client].age = 0
    BY <2>3, <2>4 DEF SessionKept
  <2>6. QED
    BY <1>3, <2>3, <2>5, TouchedKeeps DEF RouteSession, PacketInv, FlowsEnd
<1>4. CASE RouteNew(c, p)
  <2> DEFINE k == (rr[p] % Len(backends[p])) + 1
  <2>1. backends[p] \in Seq(Backend) /\ rr[p] \in Nat /\ backends[p] # <<>>
    BY <1>4 DEF TypeOK, RouteNew, routeVerdict
  <2>2. Len(backends[p]) \in Nat /\ Len(backends[p]) > 0
    BY <2>1
  <2>3. k \in DOMAIN backends[p]
    BY <2>1, <2>2
  <2>4. /\ sessions' = [sessions EXCEPT ![c] =
             [backend |-> backends[p][k].ip, gen |-> backends[p][k].gen, age |-> 0]]
        /\ inflight' = {[client |-> c, port |-> p, mark |-> backends[p][k].gen]}
        /\ ~HasSession(c)
    BY <1>4 DEF RouteNew
  <2> HIDE DEF k
  <2>5. /\ sessions'[c].gen = backends[p][k].gen /\ sessions'[c].age = 0
        /\ sessions'[c].backend = backends[p][k].ip
        /\ \A d \in Clients \ {c} : SessionKept(d)
    BY <2>4 DEF TypeOK, SessionKept
  <2>6. \A j \in inflight' : sessions'[j.client].gen = j.mark /\ sessions'[j.client].age = 0
    BY <2>4, <2>5
  <2>7. conntrack' = [conntrack EXCEPT ![<<c, p>>] = Touched(<<c, p>>)]
    BY <1>4 DEF RouteNew
  <2>8. \A f \in Flows :
          FlowKept(f) /\ (conntrack'[f].state = "none" => conntrack'[f] = NoEntry)
    BY <2>7, TouchedKeeps
  <2>9. PacketInv'
    BY <2>6, <2>8 DEF PacketInv
  <2>10. Binds(c, p)
    BY <2>3, <2>4, <2>5, <2>8 DEF Binds
  <2>11. QED
    BY <2>9, <2>10
<1>5. QED
  BY <1>1, <1>2, <1>3, <1>4 DEF Handle

\* The packet whose verdict is executed: OwnerInv says that the element its mark finds,
\* if there still is one, is its session's backend.
LEMMA ReinjectMoves ==
  ASSUME TypeOK, PacketInv, OwnerInv, Reinject
  PROVE  PacketInv' /\ (FlowsEnd \/ \E c \in Clients, p \in Ports : Opens(c, p))
<1>1. PICK k \in inflight :
        conntrack' = [conntrack EXCEPT ![<<k.client, k.port>>] =
          IF @.state = "none"
          THEN [state |-> "new", nat |-> elements[k.mark], idle |-> 0,
                mark |-> IF elements[k.mark] = NoIP THEN 0 ELSE k.mark]
          ELSE @]
  BY DEF Reinject
<1>2. UNCHANGED sessions /\ inflight' = {} /\ \A c \in Clients : SessionKept(c)
  BY DEF Reinject, routerVars, SessionKept
<1> DEFINE c == k.client
           f == <<k.client, k.port>>
<1>3. c \in Clients /\ k.port \in Ports /\ k.mark \in Gen /\ f \in Flows
  BY DEF TypeOK, Packet, Flows
<1>4. sessions[c].gen = k.mark /\ k.mark # 0
  BY <1>3 DEF PacketInv, Gen
<1>5. CASE conntrack[f].state # "none"
  <2>1. \A g \in Flows : conntrack'[g] = conntrack[g]
    BY <1>1, <1>3, <1>5 DEF TypeOK
  <2>2. QED
    BY <1>2, <2>1 DEF PacketInv, FlowsEnd, FlowKept
<1>6. CASE conntrack[f].state = "none"
  <2>1. conntrack[f].mark = 0
    BY <1>3, <1>6 DEF PacketInv, NoEntry
  <2>2. /\ conntrack'[f].state = "new" /\ conntrack'[f].nat = elements[k.mark]
        /\ conntrack'[f].mark = IF elements[k.mark] = NoIP THEN 0 ELSE k.mark
        /\ \A g \in Flows \ {f} : conntrack'[g] = conntrack[g]
    BY <1>1, <1>3, <1>6 DEF TypeOK
  <2>3. PacketInv'
    BY <1>2, <2>2 DEF PacketInv
  <2>4. CASE elements[k.mark] = NoIP
    BY <1>2, <2>2, <2>3, <2>4 DEF FlowsEnd, FlowKept
  <2>5. CASE elements[k.mark] # NoIP
    <3>1. PICK own \in Owner : Agrees(own)
      BY DEF OwnerInv
    <3>2. elements[k.mark] = sessions[c].backend
      BY <1>3, <1>4, <2>5, <3>1 DEF Agrees
    <3>3. Opens(c, k.port)
      BY <1>2, <1>4, <2>1, <2>2, <2>5, <3>2 DEF Opens, HasSession, FlowKept
    <3>4. QED
      BY <1>3, <2>3, <3>3
  <2>6. QED
    BY <2>4, <2>5
<1>7. QED
  BY <1>5, <1>6

\* Every step of the traffic.
LEMMA TrafficMoves ==
  ASSUME TypeOK, PacketInv, OwnerInv, Traffic
  PROVE  /\ UNCHANGED <<backends, gen>> /\ PacketInv'
         /\ \/ FlowsEnd \/ Forgets
            \/ \E c \in Clients, p \in Ports : Binds(c, p) \/ Opens(c, p)
<1>1. UNCHANGED <<backends, gen>>
  BY TrafficSources
<1>2. CASE \E c \in Clients, p \in Ports : Handle(c, p)
  BY <1>1, <1>2, HandleMoves
<1>3. CASE Reinject
  BY <1>1, <1>3, ReinjectMoves
<1>4. CASE VerdictFails
  BY <1>1, <1>4 DEF VerdictFails, routerVars, kernelVars, PacketInv, FlowsEnd, SessionKept,
                    FlowKept
<1>5. ASSUME NEW f \in Flows, Reply(f) \/ Forward(f) PROVE PacketInv' /\ FlowsEnd
  <2>1. /\ conntrack'[f].mark = conntrack[f].mark /\ conntrack'[f].nat = conntrack[f].nat
        /\ conntrack'[f].state = "established"
        /\ \A g \in Flows \ {f} : conntrack'[g] = conntrack[g]
    BY <1>5, ReplyKeeps
  <2>2. UNCHANGED <<sessions, inflight>>
    BY <1>5 DEF Reply, Forward, routerVars
  <2>3. QED
    BY <2>1, <2>2 DEF PacketInv, FlowsEnd, SessionKept, FlowKept
<1>6. CASE Tick
  <2>1. \A x \in Session : Older(x).gen = x.gen /\ Older(x).backend = x.backend
    BY DEF Older, Session
  <2>2. \A e \in Entry : \/ Idler(e) = NoEntry
                         \/ /\ Idler(e).mark = e.mark /\ Idler(e).nat = e.nat
                            /\ Idler(e).state # "none"
    BY DEF Idler, Entry
  <2>3. /\ \A c \in Clients : sessions'[c] = Older(sessions[c]) /\ sessions[c] \in Session
        /\ \A f \in Flows : conntrack'[f] = Idler(conntrack[f]) /\ conntrack[f] \in Entry
        /\ inflight' = {}
    BY <1>6 DEF Tick, TypeOK
  <2>4. NoEntry.mark = 0 /\ NoEntry.nat = NoIP
    BY DEF NoEntry
  <2>5. QED
    BY <1>1, <2>1, <2>2, <2>3, <2>4 DEF PacketInv, FlowsEnd, SessionKept, FlowKept
<1>7. CASE Sweep
  <2>1. /\ UNCHANGED <<conntrack, inflight>>
        /\ \A c \in Clients : sessions'[c] =
             IF sessions[c].age > SessionTTL THEN NoSession ELSE sessions[c]
    BY <1>7 DEF Sweep
  <2>2. \A k \in inflight : sessions'[k.client] = sessions[k.client]
    <3>1. \A k \in inflight : k.client \in Clients /\ ~(sessions[k.client].age > SessionTTL)
      BY TimeAssumption DEF PacketInv, TypeOK, Packet
    <3>2. QED
      BY <2>1, <3>1
  <2>3. NoSession.gen = 0
    BY DEF NoSession
  <2>4. QED
    BY <1>1, <2>1, <2>2, <2>3 DEF PacketInv, Forgets, SessionKept, FlowKept
<1>8. QED
  BY <1>1, <1>2, <1>3, <1>4, <1>5, <1>6, <1>7 DEF Traffic

\* The entrypoints leave the sessions and the packet alone and at most end flows.
LEMMA EntrypointKeepsClients ==
  ASSUME TypeOK, PacketInv, Next, ~Traffic
  PROVE  /\ UNCHANGED <<sessions, inflight>> /\ PacketInv'
         /\ \/ UNCHANGED conntrack
            \/ FlowsEnd /\ UNCHANGED <<backends, gen>>
<1>1. CASE \E ip \in IPs : FlushConntrack(ip)
  <2>1. \A f \in Flows : conntrack'[f] \in {conntrack[f], NoEntry}
    BY <1>1 DEF FlushConntrack
  <2>2. UNCHANGED <<backends, gen, sessions, inflight>>
    BY <1>1 DEF FlushConntrack, routerVars
  <2>3. NoEntry.mark = 0 /\ NoEntry.nat = NoIP
    BY DEF NoEntry
  <2>4. QED
    BY <2>1, <2>2, <2>3 DEF PacketInv, FlowsEnd, SessionKept, FlowKept
<1>2. CASE ~\E ip \in IPs : FlushConntrack(ip)
  <2>1. UNCHANGED <<sessions, inflight, conntrack>>
    BY <1>2 DEF Next, AddBackend, AddBackendElement, AddBackendFails, RemoveBackend,
                RemoveBackendElement, Unmanage, routerVars, kernelVars
  <2>2. QED
    BY <2>1 DEF PacketInv
<1>3. QED
  BY <1>1, <1>2

\* PacketInv holds in every reachable state.
THEOREM PacketInvariant == Spec => []PacketInv
<1>1. Init => PacketInv
  BY DEF Init, PacketInv
<1>2. TypeOK /\ PoolInv /\ OwnerInv /\ PacketInv /\ [Next]_vars => PacketInv'
  <2> SUFFICES ASSUME TypeOK, OwnerInv, PacketInv, [Next]_vars PROVE PacketInv'
    OBVIOUS
  <2>1. CASE UNCHANGED vars
    BY <2>1 DEF vars, PacketInv
  <2>2. CASE Next
    BY <2>2, TrafficMoves, EntrypointKeepsClients
  <2>3. QED
    BY <2>1, <2>2
<1>3. QED
  BY <1>1, <1>2, OwnerInvariant, PTL DEF Spec

(***************************************************************************)
(* Then what the entrypoints do to the instances that are listed.          *)
(***************************************************************************)
Instance(p, b) == [port |-> p, ip |-> b.ip, id |-> b.gen]

\* An instance is listed if it is of a backend of its port's pool, and so after a step.
LEMMA ListedIs ==
  /\ \A x : x \in ListedInstances <=>
       \E p \in Ports : \E i \in DOMAIN backends[p] : x = Instance(p, backends[p][i])
  /\ \A x : x \in ListedInstances' <=>
       \E p \in Ports : \E i \in DOMAIN backends'[p] : x = Instance(p, backends'[p][i])
<1>1. ASSUME NEW x
      PROVE  x \in ListedInstances <=>
               \E p \in Ports : \E i \in DOMAIN backends[p] : x = Instance(p, backends[p][i])
  BY DEF ListedInstances, Instance
<1>2. ASSUME NEW x
      PROVE  x \in ListedInstances' <=>
               \E p \in Ports : \E i \in DOMAIN backends'[p] : x = Instance(p, backends'[p][i])
  BY DEF ListedInstances, Instance
<1>3. QED
  BY <1>1, <1>2

\* addBackend keeps the backends with other addresses where they are.
LEMMA AddKeeps ==
  ASSUME NEW s \in Seq(Backend), NEW ip \in IPs, NEW g \in Gen, NEW j \in DOMAIN s,
         s[j].ip # ip
  PROVE  j \in DOMAIN addBackend(s, ip, g) /\ addBackend(s, ip, g)[j] = s[j]
<1> DEFINE b == [ip |-> ip, gen |-> g]
<1>0. b \in Backend
  BY DEF Backend
<1> HIDE DEF b
<1>1. CASE find(s, ip) = 0
  <2>1. addBackend(s, ip, g) = Append(s, b)
    BY <1>1 DEF addBackend, b
  <2>2. QED
    BY <1>0, <2>1
<1>2. CASE find(s, ip) # 0
  <2>1. addBackend(s, ip, g) = [s EXCEPT ![find(s, ip)] = b]
    BY <1>2 DEF addBackend, b
  <2>2. find(s, ip) \in DOMAIN s /\ s[find(s, ip)].ip = ip
    BY <1>2, FindFacts
  <2>3. QED
    BY <2>1, <2>2
<1>3. QED
  BY <1>1, <1>2

\* removeBackend keeps the backends with other addresses.
LEMMA RemoveKeeps ==
  ASSUME NEW s \in Seq(Backend), NEW ip, NEW j \in DOMAIN s, s[j].ip # ip
  PROVE  \E i \in DOMAIN removeBackend(s, ip) : removeBackend(s, ip)[i] = s[j]
<1> DEFINE k == find(s, ip)
<1>1. CASE k = 0
  BY <1>1 DEF removeBackend
<1>2. CASE k # 0
  <2>1. k \in DOMAIN s /\ s[k].ip = ip /\ removeBackend(s, ip) = RemoveAt(s, k)
    BY <1>2, FindFacts DEF removeBackend
  <2> DEFINE t == RemoveAt(s, k)
             i == IF j < k THEN j ELSE j - 1
  <2>2. /\ t \in Seq(Backend) /\ Len(t) = Len(s) - 1
        /\ \A l \in 1 .. Len(s) - 1 : t[l] = s[IF l < k THEN l ELSE l + 1]
    BY <2>1, RemoveAtFacts
  <2>3. j # k /\ j \in 1 .. Len(s) /\ k \in 1 .. Len(s) /\ Len(s) \in Nat
    BY <2>1
  <2> HIDE DEF k, t
  <2>4. i \in 1 .. Len(s) - 1 /\ (IF i < k THEN i ELSE i + 1) = j
    BY <2>3
  <2> HIDE DEF i
  <2>5. DOMAIN t = 1 .. Len(s) - 1
    BY <2>2
  <2>6. t[i] = s[j]
    BY <2>2, <2>4
  <2>7. QED
    BY <2>1, <2>4, <2>5, <2>6 DEF t
<1>3. QED
  BY <1>1, <1>2

\* AddBackend lists one instance, in place of the one the port had at the address.
LEMMA AddLists ==
  ASSUME TypeOK, PoolInv, NEW p \in Ports, NEW ip \in IPs, AddBackend(p, ip)
  PROVE  ListedInstances' = {i \in ListedInstances : i.port # p \/ i.ip # ip}
                              \cup {[port |-> p, ip |-> ip, id |-> gen + 1]}
<1> DEFINE new == [port |-> p, ip |-> ip, id |-> gen + 1]
           rest == {i \in ListedInstances : i.port # p \/ i.ip # ip}
<1>1. PICK k \in DOMAIN backends'[p] :
        /\ backends'[p][k] = [ip |-> ip, gen |-> gen + 1]
        /\ \A q \in Ports : \A j \in DOMAIN backends'[q] : q # p \/ j # k =>
             /\ j \in DOMAIN backends[q] /\ backends'[q][j] = backends[q][j]
             /\ q = p => backends[q][j].ip # ip
  BY AddBackendRegisters
<1>2. Instance(p, backends'[p][k]) = new
  BY <1>1 DEF Instance
<1>3. ASSUME NEW x \in ListedInstances' PROVE x \in rest \cup {new}
  <2>1. PICK q \in Ports : \E j \in DOMAIN backends'[q] : x = Instance(q, backends'[q][j])
    BY ListedIs
  <2>2. PICK j \in DOMAIN backends'[q] : x = Instance(q, backends'[q][j])
    BY <2>1
  <2>3. CASE q = p /\ j = k
    BY <1>2, <2>2, <2>3
  <2>4. CASE q # p \/ j # k
    <3>1. /\ j \in DOMAIN backends[q] /\ backends'[q][j] = backends[q][j]
          /\ q = p => backends[q][j].ip # ip
      BY <1>1, <2>4
    <3>2. x \in ListedInstances
      BY <2>2, <3>1, ListedIs
    <3>3. x.port = q /\ x.ip = backends[q][j].ip
      BY <2>2, <3>1 DEF Instance
    <3>4. QED
      BY <3>1, <3>2, <3>3
  <2>5. QED
    BY <2>3, <2>4
<1>4. new \in ListedInstances'
  BY <1>2, ListedIs
<1>5. ASSUME NEW x \in rest PROVE x \in ListedInstances'
  <2>1. PICK q \in Ports : \E j \in DOMAIN backends[q] : x = Instance(q, backends[q][j])
    BY ListedIs
  <2>2. PICK j \in DOMAIN backends[q] : x = Instance(q, backends[q][j])
    BY <2>1
  <2>3. x.port = q /\ x.ip = backends[q][j].ip
    BY <2>2 DEF Instance
  <2>4. gen + 1 \in Gen
    BY DEF AddBackend, TypeOK, Gen
  <2>5. /\ backends[p] \in Seq(Backend)
        /\ backends'[p] = addBackend(backends[p], ip, gen + 1)
        /\ \A l \in Ports \ {p} : backends'[l] = backends[l]
    BY DEF AddBackend, TypeOK
  <2>6. j \in DOMAIN backends'[q] /\ backends'[q][j] = backends[q][j]
    <3>1. CASE q = p
      BY <2>3, <2>4, <2>5, <3>1, AddKeeps
    <3>2. CASE q # p
      BY <2>5, <3>2
    <3>3. QED
      BY <3>1, <3>2
  <2>7. QED
    BY <2>2, <2>6, ListedIs
<1> HIDE DEF new, rest
<1>6. ListedInstances' = rest \cup {new}
  BY <1>3, <1>4, <1>5
<1>7. QED
  BY <1>6 DEF new, rest

\* removeBackend delists the instance the port has at the address, if there is one.
LEMMA RemoveDelists ==
  ASSUME TypeOK, PoolInv, NEW p \in Ports, NEW ip \in IPs,
         backends' = [backends EXCEPT ![p] = removeBackend(@, ip)]
  PROVE  ListedInstances' = {i \in ListedInstances : i.port # p \/ i.ip # ip}
<1> DEFINE rest == {i \in ListedInstances : i.port # p \/ i.ip # ip}
<1>1. /\ Thinned
      /\ \A j \in DOMAIN backends'[p] : backends'[p][j].ip # ip
  BY RemoveThins DEF PoolInv
<1>2. /\ backends[p] \in Seq(Backend)
      /\ backends'[p] = removeBackend(backends[p], ip)
      /\ \A l \in Ports \ {p} : backends'[l] = backends[l]
  BY DEF TypeOK
<1>3. ASSUME NEW x \in ListedInstances' PROVE x \in rest
  <2>1. PICK q \in Ports : \E j \in DOMAIN backends'[q] : x = Instance(q, backends'[q][j])
    BY ListedIs
  <2>2. PICK j \in DOMAIN backends'[q] : x = Instance(q, backends'[q][j])
    BY <2>1
  <2>3. PICK i \in DOMAIN backends[q] : backends'[q][j] = backends[q][i]
    BY <1>1 DEF Thinned
  <2>4. x \in ListedInstances
    BY <2>2, <2>3, ListedIs
  <2>5. x.port = q /\ x.ip = backends'[q][j].ip
    BY <2>2 DEF Instance
  <2>6. QED
    BY <1>1, <2>4, <2>5
<1>4. ASSUME NEW x \in rest PROVE x \in ListedInstances'
  <2>1. PICK q \in Ports : \E j \in DOMAIN backends[q] : x = Instance(q, backends[q][j])
    BY ListedIs
  <2>2. PICK j \in DOMAIN backends[q] : x = Instance(q, backends[q][j])
    BY <2>1
  <2>3. x.port = q /\ x.ip = backends[q][j].ip
    BY <2>2 DEF Instance
  <2>4. \E i \in DOMAIN backends'[q] : backends'[q][i] = backends[q][j]
    <3>1. CASE q = p
      BY <1>2, <2>3, <3>1, RemoveKeeps
    <3>2. CASE q # p
      BY <1>2, <3>2
    <3>3. QED
      BY <3>1, <3>2
  <2>5. QED
    BY <2>2, <2>4, ListedIs
<1> HIDE DEF rest
<1>5. ListedInstances' = rest
  BY <1>3, <1>4
<1>6. QED
  BY <1>5 DEF rest

\* unmanage closes the port.
LEMMA UnmanageCloses ==
  ASSUME TypeOK, NEW p \in Ports, backends' = [backends EXCEPT ![p] = <<>>]
  PROVE  ListedInstances' = {i \in ListedInstances : i.port # p}
<1> DEFINE rest == {i \in ListedInstances : i.port # p}
<1>1. backends'[p] = <<>> /\ \A q \in Ports \ {p} : backends'[q] = backends[q]
  BY DEF TypeOK
<1>2. DOMAIN backends'[p] = {}
  BY <1>1
<1>3. ASSUME NEW x PROVE x \in ListedInstances' <=> x \in rest
  <2>1. \A q \in Ports : \A j : Instance(q, backends[q][j]).port = q
    BY DEF Instance
  <2>2. QED
    BY <1>1, <1>2, <2>1, ListedIs
<1> HIDE DEF rest
<1>4. ListedInstances' = rest
  BY <1>3
<1>5. QED
  BY <1>4 DEF rest

(***************************************************************************)
(* And the mapping itself.                                                 *)
(***************************************************************************)
BoundTo == [c \in Clients |-> [id |-> sessions[c].gen, ip |-> sessions[c].backend]]
LeadsTo == [f \in Flows |-> [id |-> conntrack[f].mark, ip |-> conntrack[f].nat]]

\* Sessions and flows that are kept map to the same.
LEMMA KeptMaps ==
  /\ (\A c \in Clients : SessionKept(c)) => BoundTo' = BoundTo
  /\ (\A f \in Flows : FlowKept(f)) => LeadsTo' = LeadsTo
  BY DEF SessionKept, FlowKept, BoundTo, LeadsTo

\* The initial states map to initial states.
LEMMA InitMaps == Init => Dir!DirInit
<1> SUFFICES ASSUME Init PROVE Dir!DirInit
  OBVIOUS
<1>1. ListedInstances = {}
  BY ListedIs DEF Init
<1>2. \A c \in Clients : sessions[c].gen = 0
  BY DEF Init, NoSession
<1>3. \A f \in Flows : conntrack[f].mark = 0
  BY DEF Init, NoEntry
<1>4. QED
  BY <1>1, <1>2, <1>3 DEF Init, Dir!DirInit, Dir!Unbound, Flows

\* A step of the traffic maps to End, Forget, Bind or Open.
LEMMA TrafficMaps ==
  ASSUME TypeOK, PacketInv, OwnerInv, Traffic
  PROVE  [Dir!DirNext]_(Dir!dirVars)
<1>1. UNCHANGED <<backends, gen>>
  BY TrafficMoves
<1>2. ListedInstances' = ListedInstances
  BY <1>1 DEF ListedInstances
<1>3. CASE FlowsEnd
  <2>1. BoundTo' = BoundTo
    BY <1>3, KeptMaps DEF FlowsEnd
  <2>2. \A f \in Flows : LeadsTo'[f] = LeadsTo[f] \/ LeadsTo'[f].id = 0
    BY <1>3 DEF FlowsEnd, FlowKept, LeadsTo
  <2>3. Dir!End
    BY <1>1, <1>2, <2>1, <2>2 DEF Dir!End, Dir!Unbound, BoundTo, LeadsTo, Flows
  <2>4. QED
    BY <2>3 DEF Dir!DirNext
<1>4. CASE Forgets
  <2>1. LeadsTo' = LeadsTo
    BY <1>4, KeptMaps DEF Forgets
  <2>2. \A c \in Clients : BoundTo'[c] = BoundTo[c] \/ BoundTo'[c].id = 0
    BY <1>4 DEF Forgets, SessionKept, BoundTo
  <2>3. Dir!Forget
    BY <1>1, <1>2, <2>1, <2>2 DEF Dir!Forget, Dir!Unbound, BoundTo, LeadsTo
  <2>4. QED
    BY <2>3 DEF Dir!DirNext
<1>5. ASSUME NEW c \in Clients, NEW p \in Ports, Binds(c, p) PROVE Dir!Bind(c, p)
  <2>1. LeadsTo' = LeadsTo
    BY <1>5, KeptMaps DEF Binds
  <2>2. PICK i \in DOMAIN backends[p] : /\ sessions'[c].gen = backends[p][i].gen
                                        /\ sessions'[c].backend = backends[p][i].ip
    BY <1>5 DEF Binds
  <2> DEFINE x == Instance(p, backends[p][i])
  <2>3. x \in ListedInstances /\ x.port = p
    BY ListedIs DEF Instance
  <2>4. x.id = sessions'[c].gen /\ x.ip = sessions'[c].backend
    BY <2>2 DEF Instance
  <2> HIDE DEF x
  <2>5. BoundTo' = [BoundTo EXCEPT ![c] = [id |-> x.id, ip |-> x.ip]]
    BY <1>5, <2>4 DEF Binds, SessionKept, BoundTo
  <2>6. BoundTo[c].id = 0
    BY <1>5 DEF Binds, HasSession, BoundTo
  <2>7. QED
    BY <1>1, <1>2, <2>1, <2>3, <2>5, <2>6
       DEF Dir!Bind, Dir!Unbound, Dir!Of, BoundTo, LeadsTo
<1>6. ASSUME NEW c \in Clients, NEW p \in Ports, Opens(c, p) PROVE Dir!Open(c, p)
  <2>1. BoundTo' = BoundTo
    BY <1>6, KeptMaps DEF Opens
  <2>2. <<c, p>> \in Flows
    BY DEF Flows
  <2>3. LeadsTo' = [LeadsTo EXCEPT ![<<c, p>>] = BoundTo[c]]
    BY <1>6, <2>2 DEF Opens, FlowKept, LeadsTo, BoundTo
  <2>4. LeadsTo[<<c, p>>].id = 0 /\ BoundTo[c].id # 0
    BY <1>6, <2>2 DEF Opens, HasSession, LeadsTo, BoundTo
  <2>5. QED
    BY <1>1, <1>2, <2>1, <2>3, <2>4 DEF Dir!Open, Dir!Unbound, BoundTo, LeadsTo
<1>7. QED
  BY <1>3, <1>4, <1>5, <1>6, TrafficMoves DEF Dir!DirNext

\* A step of an entrypoint maps to List, Delist, Close, End or a stutter.
LEMMA EntrypointMaps ==
  ASSUME TypeOK, PoolInv, PacketInv, Next, ~Traffic
  PROVE  [Dir!DirNext]_(Dir!dirVars)
<1>1. BoundTo' = BoundTo
  BY EntrypointKeepsClients DEF BoundTo
<1>2. CASE ~UNCHANGED conntrack
  <2>1. FlowsEnd /\ UNCHANGED <<backends, gen>>
    BY <1>2, EntrypointKeepsClients
  <2>2. ListedInstances' = ListedInstances
    BY <2>1 DEF ListedInstances
  <2>3. \A f \in Flows : LeadsTo'[f] = LeadsTo[f] \/ LeadsTo'[f].id = 0
    BY <2>1 DEF FlowsEnd, FlowKept, LeadsTo
  <2>4. Dir!End
    BY <1>1, <2>1, <2>2, <2>3 DEF Dir!End, Dir!Unbound, BoundTo, LeadsTo, Flows
  <2>5. QED
    BY <2>4 DEF Dir!DirNext
<1>3. CASE UNCHANGED conntrack
  <2>1. LeadsTo' = LeadsTo
    BY <1>3 DEF LeadsTo
  <2>2. CASE UNCHANGED <<backends, gen>>
    <3>1. ListedInstances' = ListedInstances
      BY <2>2 DEF ListedInstances
    <3>2. UNCHANGED Dir!dirVars
      BY <1>1, <2>1, <2>2, <3>1 DEF Dir!dirVars, BoundTo, LeadsTo
    <3>3. QED
      BY <3>2
  <2>3. ASSUME NEW p \in Ports, NEW ip \in IPs, AddBackend(p, ip) PROVE Dir!List(p, ip)
    <3>1. gen' = gen + 1
      BY <2>3 DEF AddBackend
    <3>2. QED
      BY <1>1, <2>1, <2>3, <3>1, AddLists DEF Dir!List, BoundTo, LeadsTo
  <2>4. ASSUME NEW p \in Ports, NEW ip \in IPs, UNCHANGED gen,
               backends' = [backends EXCEPT ![p] = removeBackend(@, ip)]
        PROVE  Dir!Delist(p, ip)
    BY <1>1, <2>1, <2>4, RemoveDelists DEF Dir!Delist, BoundTo, LeadsTo
  <2>5. ASSUME NEW p \in Ports, UNCHANGED gen, backends' = [backends EXCEPT ![p] = <<>>]
        PROVE  Dir!Close(p)
    BY <1>1, <2>1, <2>5, UnmanageCloses DEF Dir!Close, BoundTo, LeadsTo
  <2>6. CASE \E p \in Ports, ip \in IPs : AddBackend(p, ip)
    BY <2>3, <2>6 DEF Dir!DirNext
  <2>7. CASE \E p \in Ports, ip \in IPs, unbind \in BOOLEAN : RemoveBackend(p, ip, unbind)
    <3>1. \E p \in Ports, ip \in IPs :
            UNCHANGED gen /\ backends' = [backends EXCEPT ![p] = removeBackend(@, ip)]
      BY <2>7 DEF RemoveBackend
    <3>2. QED
      BY <2>4, <3>1 DEF Dir!DirNext
  <2>8. CASE AddBackendFails
    <3>1. \E o \in op :
            UNCHANGED gen /\ backends' = [backends EXCEPT ![o.port] = removeBackend(@, o.ip)]
      BY <2>8 DEF AddBackendFails
    <3>2. \A o \in op : o.port \in Ports /\ o.ip \in IPs
      BY DEF TypeOK, AddOp, RemoveOp
    <3>3. QED
      BY <2>4, <3>1, <3>2 DEF Dir!DirNext
  <2>9. CASE RemoveBackendElement
    <3>1. PICK o \in op :
            /\ IF o.unbind THEN unmanage(o.port) ELSE UNCHANGED <<managed, backends, rr>>
            /\ UNCHANGED gen
      BY <2>9 DEF RemoveBackendElement
    <3>2. o.port \in Ports
      BY DEF TypeOK, AddOp, RemoveOp
    <3>3. CASE o.unbind
      BY <2>5, <3>1, <3>2, <3>3 DEF unmanage, Dir!DirNext
    <3>4. CASE ~o.unbind
      BY <2>2, <3>1, <3>4
    <3>5. QED
      BY <3>3, <3>4
  <2>10. CASE \E p \in Ports : Unmanage(p)
    BY <2>5, <2>10 DEF Unmanage, unmanage, Dir!DirNext
  <2>11. CASE AddBackendElement \/ \E ip \in IPs : FlushConntrack(ip)
    BY <2>2, <2>11 DEF AddBackendElement, FlushConntrack, routerVars
  <2>12. QED
    BY <2>6, <2>7, <2>8, <2>9, <2>10, <2>11 DEF Next
<1>4. QED
  BY <1>2, <1>3

\* The router, the @pool map, the marks and conntrack together are a directory of
\* instances, for any number of ports, backends and clients, and every interleaving and
\* failure: a client is bound to a listed instance and never moved, and the kernel opens
\* its flow to that instance or not at all (route, onPacket and the execute chain).
THEOREM ProxyImplementsDirectory == Spec => ImplementsDirectory
<1>1. TypeOK /\ PoolInv /\ OwnerInv /\ PacketInv /\ [Next]_vars
        => [Dir!DirNext]_(Dir!dirVars)
  <2> SUFFICES ASSUME TypeOK, PoolInv, OwnerInv, PacketInv, [Next]_vars
               PROVE  [Dir!DirNext]_(Dir!dirVars)
    OBVIOUS
  <2>1. CASE Traffic
    BY <2>1, TrafficMaps
  <2>2. CASE Next /\ ~Traffic
    BY <2>2, EntrypointMaps
  <2>3. CASE UNCHANGED vars
    <3>1. UNCHANGED <<backends, gen, sessions, conntrack>>
      BY <2>3 DEF vars
    <3>2. ListedInstances' = ListedInstances
      BY <3>1 DEF ListedInstances
    <3>3. UNCHANGED Dir!dirVars
      BY <3>1, <3>2 DEF Dir!dirVars
    <3>4. QED
      BY <3>3
  <2>4. QED
    BY <2>1, <2>2, <2>3
<1>2. QED
  BY <1>1, InitMaps, OwnerInvariant, PacketInvariant, PTL
     DEF Spec, ImplementsDirectory, Dir!DirSpec

-----------------------------------------------------------------------------
(* The workers only call the proxy's entrypoints.                          *)

\* A step of the workers or of the traffic is a step of the proxy.
LEMMA WorkerStepIsProxyStep ==
  ASSUME LTypeOK, [LNext]_lvars
  PROVE  [Next]_vars
<1>1. ASSUME NEW ip \in IPs, BringUpFlush(ip) \/ TeardownFlush(ip) PROVE Next
  BY <1>1 DEF BringUpFlush, TeardownFlush, Next
<1>2. ASSUME NEW ip \in IPs, NEW p \in Ports, BringUpAdd(ip, p) \/ RebindAdd(ip, p) PROVE Next
  BY <1>2 DEF BringUpAdd, RebindAdd, Next
<1>3. ASSUME NEW ip \in IPs, AddReturns(ip) \/ AddReturnsError(ip) \/ RemoveReturns(ip)
      PROVE  Next
  BY <1>3 DEF AddReturns, AddReturnsError, RemoveReturns, Next
<1>4. ASSUME NEW ip \in IPs, TeardownRemove(ip) \/ RebindRemove(ip) PROVE Next
  <2>1. port[ip] \in Ports
    BY <1>4 DEF TeardownRemove, RebindRemove, Goto, LTypeOK
  <2>2. RemoveBackend(port[ip], ip, FALSE) \/ RemoveBackend(port[ip], ip, TRUE)
    BY <1>4 DEF TeardownRemove, RebindRemove
  <2>3. QED
    BY <2>1, <2>2 DEF Next
<1>5. ASSUME NEW ip \in IPs, ReapUnmanage(ip) PROVE Next
  <2>1. port[ip] \in Ports
    BY <1>5 DEF ReapUnmanage, LTypeOK
  <2>2. QED
    BY <1>5, <2>1 DEF ReapUnmanage, Next
<1>6. ASSUME NEW ip \in IPs, BringUpStart(ip) \/ TeardownStop(ip) PROVE UNCHANGED vars
  BY <1>6 DEF BringUpStart, TeardownStop
<1>7. CASE Traffic
  BY <1>7 DEF Next
<1>8. CASE UNCHANGED lvars
  BY <1>8 DEF lvars
<1>9. QED
  BY <1>1, <1>2, <1>3, <1>4, <1>5, <1>6, <1>7, <1>8 DEF LNext

\* The workers keep their stages, ports and start times.
LEMMA WorkerType ==
  ASSUME LTypeOK, [LNext]_lvars
  PROVE  LTypeOK'
<1>1. TypeOK /\ TypeOK'
  BY WorkerStepIsProxyStep, TypeStep DEF LTypeOK
<1>2. \A ip \in IPs, from, to \in Stages : Goto(ip, from, to) => stage' \in [IPs -> Stages]
  BY DEF LTypeOK, Goto
<1>3. \A ip \in IPs : \A from, to \in Stages \ {"up"} :
        Goto(ip, from, to) => \A m \in IPs : stage'[m] = "up" => stage[m] = "up"
  BY DEF LTypeOK, Goto
<1>4. ASSUME NEW ip \in IPs, BringUpStart(ip) PROVE LTypeOK'
  <2>1. Goto(ip, "flushed", "started") /\ "flushed" \in Stages \ {"up"} /\ "started" \in Stages \ {"up"}
    BY <1>4 DEF BringUpStart, Stages
  <2>2. started' \in [IPs -> 0 .. MaxGen] /\ UNCHANGED <<port, stranded>>
    BY <1>1, <1>4 DEF BringUpStart, LTypeOK, TypeOK
  <2>3. QED
    BY <1>1, <1>2, <1>3, <2>1, <2>2 DEF LTypeOK
<1>5. ASSUME NEW ip \in IPs, AddReturns(ip) PROVE LTypeOK'
  <2>1. PICK o \in op : port' = [port EXCEPT ![ip] = o.port]
    BY <1>5 DEF AddReturns
  <2>2. o.port \in Ports /\ o.port # NoPort
    BY <1>1, NoPortAssumption DEF TypeOK, AddOp, RemoveOp
  <2>3. /\ port' \in [IPs -> Ports \cup {NoPort}] /\ port'[ip] # NoPort
        /\ \A m \in IPs \ {ip} : port'[m] = port[m]
    BY <2>1, <2>2 DEF LTypeOK
  <2>4. /\ stage' \in [IPs -> Stages] /\ \A m \in IPs \ {ip} : stage'[m] = stage[m]
        /\ UNCHANGED <<started, stranded>>
    BY <1>2, <1>5 DEF AddReturns, Goto, LTypeOK, Stages
  <2>5. QED
    BY <1>1, <2>3, <2>4 DEF LTypeOK
<1>6. ASSUME NEW ip \in IPs, NEW p \in Ports, BringUpAdd(ip, p) \/ RebindAdd(ip, p)
      PROVE  LTypeOK'
  <2>1. /\ stage' \in [IPs -> Stages] /\ UNCHANGED <<port, started, stranded>>
        /\ \A m \in IPs : stage'[m] = "up" => stage[m] = "up"
    BY <1>2, <1>3, <1>6 DEF BringUpAdd, RebindAdd, Stages
  <2>2. QED
    BY <1>1, <2>1 DEF LTypeOK
<1>7. ASSUME NEW ip \in IPs,
             BringUpFlush(ip) \/ AddReturnsError(ip) \/ RemoveReturns(ip)
               \/ TeardownFlush(ip) \/ TeardownStop(ip)
      PROVE  LTypeOK'
  <2>1. /\ stage' \in [IPs -> Stages] /\ UNCHANGED <<port, started, stranded>>
        /\ \A m \in IPs : stage'[m] = "up" => stage[m] = "up"
    BY <1>2, <1>3, <1>7 DEF BringUpFlush, AddReturnsError, RemoveReturns,
       TeardownFlush, TeardownStop, Stages
  <2>2. QED
    BY <1>1, <2>1 DEF LTypeOK
<1>8. ASSUME NEW ip \in IPs, TeardownRemove(ip) \/ RebindRemove(ip) PROVE LTypeOK'
  <2>1. /\ stage' \in [IPs -> Stages] /\ UNCHANGED <<port, started, stranded>>
        /\ \A m \in IPs : stage'[m] = "up" => stage[m] = "up"
    BY <1>2, <1>8 DEF TeardownRemove, RebindRemove, Goto, Stages, LTypeOK
  <2>2. QED
    BY <1>1, <2>1 DEF LTypeOK
<1>9. ASSUME NEW ip \in IPs, ReapUnmanage(ip) PROVE LTypeOK'
  <2>1. /\ port' = [port EXCEPT ![ip] = NoPort] /\ stage[ip] # "up"
        /\ UNCHANGED <<stage, started>> /\ stranded' = stranded \cup GensOn(port[ip])
    BY <1>9 DEF ReapUnmanage
  <2>2. GensOn(port[ip]) \subseteq Gen
    <3>1. backends[port[ip]] \in Seq(Backend)
      BY <1>1, <1>9 DEF ReapUnmanage, LTypeOK, TypeOK
    <3>2. \A i \in DOMAIN backends[port[ip]] : backends[port[ip]][i] \in Backend
      BY <3>1
    <3>3. \A b \in Backend : b.gen \in Gen
      BY DEF Backend
    <3>4. QED
      BY <3>2, <3>3 DEF GensOn
  <2>3. QED
    BY <1>1, <2>1, <2>2 DEF LTypeOK
<1>10. CASE UNCHANGED <<workerVars, stranded>>
  BY <1>1, <1>10 DEF workerVars, LTypeOK
<1>11. QED
  BY <1>4, <1>5, <1>6, <1>7, <1>8, <1>9, <1>10 DEF LNext, lvars, workerVars

\* The proxy under the workers' discipline is the proxy: what is proved of it for any
\* order of calls (ProxyProofs) holds here.
THEOREM LifecycleIsProxy == LSpec => Spec /\ []LTypeOK
<1>1. LInit => LTypeOK /\ Init
  <2> SUFFICES ASSUME LInit PROVE LTypeOK /\ Init
    OBVIOUS
  <2>1. Init /\ TypeOK
    BY InitType DEF LInit
  <2>2. /\ stage \in [IPs -> Stages] /\ port \in [IPs -> Ports \cup {NoPort}]
        /\ \A ip \in IPs : stage[ip] = "up" => port[ip] # NoPort
        /\ started \in [IPs -> 0 .. MaxGen] /\ stranded \in SUBSET Gen
    <3>1. "down" \in Stages /\ 0 \in 0 .. MaxGen
      BY DEF Stages
    <3>2. QED
      BY <3>1 DEF LInit
  <2>3. QED
    BY <2>1, <2>2 DEF LTypeOK
<1>2. LTypeOK /\ [LNext]_lvars => LTypeOK' /\ [Next]_vars
  BY WorkerStepIsProxyStep, WorkerType
<1>3. QED
  BY <1>1, <1>2, PTL DEF LSpec, Spec

-----------------------------------------------------------------------------
(* What the traffic and the entrypoints do to one server.                  *)

\* What LifecycleInv says of one server.
Sound(ip) == started[ip] <= gen /\ ElementOK(ip) /\ FlowOK(ip)

\* A step leaves server m alone: its worker does not move, its registrations stand
\* or are stranded, and it gets no element or flow.
LeftAlone(m) ==
  /\ stage'[m] = stage[m] /\ port'[m] = port[m] /\ started'[m] = started[m]
  /\ gen <= gen' /\ stranded \subseteq stranded'
  /\ \A p \in Ports, g \in Gen : Registered(p, m, g) => Registered(p, m, g)' \/ g \in stranded'
  /\ \A g \in Gen : elements'[g] = m => elements[g] = m
  /\ \A o \in op : o.ip = m => o \in op'
  /\ \A f \in Flows : conntrack'[f].nat = m =>
       conntrack[f].nat = m /\ conntrack'[f].mark = conntrack[f].mark

\* A server that a step leaves alone stays sound.
LEMMA LeftAloneStaysSound ==
  ASSUME LTypeOK, LTypeOK', NEW m \in IPs, Sound(m), LeftAlone(m)
  PROVE  Sound(m)'
<1>1. started'[m] <= gen'
  BY DEF Sound, LeftAlone, LTypeOK, TypeOK
<1>2. ElementOK(m)'
  <2> SUFFICES ASSUME NEW g \in Gen, g \notin stranded', elements'[g] = m
               PROVE  /\ \/ stage'[m] = "up" /\ Registered(port[m], m, g)'
                         \/ /\ stage'[m] \in {"removing", "moving"}
                            /\ \E o \in op' : o.ip = m /\ o.old = g
                      /\ g > started'[m]
    BY DEF ElementOK, Registered
  <2>1. /\ \/ stage[m] = "up" /\ Registered(port[m], m, g)
           \/ stage[m] \in {"removing", "moving"} /\ \E o \in op : o.ip = m /\ o.old = g
        /\ g > started[m]
    BY DEF LeftAlone, Sound, ElementOK
  <2>2. port'[m] = port[m] /\ (stage[m] = "up" => port[m] \in Ports)
    BY DEF LTypeOK, LeftAlone
  <2>3. stage[m] = "up" /\ Registered(port[m], m, g) => Registered(port[m], m, g)'
    BY <2>2 DEF LeftAlone, Registered
  <2>4. QED
    BY <2>1, <2>2, <2>3 DEF LeftAlone, Registered
<1>3. FlowOK(m)'
  BY DEF Sound, LeftAlone, FlowOK
<1>4. QED
  BY <1>1, <1>2, <1>3 DEF Sound

-----------------------------------------------------------------------------
(* The workers' steps, one by one.                                         *)

\* FlushConntrack, every deletion of which succeeds, leaves no flow to the server.
LEMMA FlushSound ==
  ASSUME LTypeOK, LTypeOK', LifecycleInv, DeletesSucceed, NEW ip \in IPs,
         BringUpFlush(ip) \/ TeardownFlush(ip)
  PROVE  LifecycleInv'
<1>1. FlushConntrack(ip) /\ UNCHANGED <<port, started, stranded>>
  BY DEF BringUpFlush, TeardownFlush
<1>2. /\ stage[ip] \in {"down", "lost", "removed"} /\ stage'[ip] \in {"flushed", "drained"}
      /\ \A m \in IPs \ {ip} : stage'[m] = stage[m]
  BY DEF BringUpFlush, TeardownFlush, Goto, LTypeOK
<1>3. op = {} /\ UNCHANGED <<op, backends, gen, elements>>
  BY <1>1 DEF FlushConntrack, routerVars
<1>4. \A f \in Flows : conntrack'[f] = IF conntrack[f].nat = ip THEN NoEntry ELSE conntrack[f]
  <2>1. "flush" \notin NetlinkFaults
    BY DEF DeletesSucceed
  <2>2. QED
    BY <1>1, <2>1 DEF FlushConntrack
<1>5. \A f \in Flows : conntrack'[f].nat # ip
  BY <1>4 DEF NoEntry
<1>6. CallOK'
  BY <1>3 DEF CallOK
<1>7. Sound(ip)'
  BY <1>1, <1>2, <1>3, <1>5 DEF LifecycleInv, Sound, ElementOK, FlowOK
<1>8. ASSUME NEW m \in IPs \ {ip} PROVE Sound(m)'
  <2>1. \A f \in Flows : conntrack'[f].nat = m => conntrack'[f] = conntrack[f]
    BY <1>4 DEF NoEntry
  <2>2. LeftAlone(m)
    BY <1>1, <1>2, <1>3, <2>1 DEF LeftAlone, Registered, LTypeOK, TypeOK
  <2>3. QED
    BY <2>2, LeftAloneStaysSound DEF LifecycleInv, Sound
<1>9. QED
  BY <1>6, <1>7, <1>8 DEF LifecycleInv, Sound

\* A new instance starts, or the drained one stops, where nothing leads to the address.
LEMMA StartStopSound ==
  ASSUME LTypeOK, LTypeOK', LifecycleInv, NEW ip \in IPs,
         BringUpStart(ip) \/ TeardownStop(ip)
  PROVE  LifecycleInv'
<1>1. /\ UNCHANGED <<vars, port, stranded>>
      /\ stage[ip] \in {"flushed", "drained"} /\ stage'[ip] \in {"started", "down"}
      /\ started'[ip] \in {gen, started[ip]}
      /\ \A m \in IPs \ {ip} : stage'[m] = stage[m] /\ started'[m] = started[m]
  BY DEF BringUpStart, TeardownStop, Goto, LTypeOK
<1>2. UNCHANGED <<op, backends, gen, elements, conntrack>>
  BY <1>1 DEF vars
<1>3. CallOK'
  <2> SUFFICES ASSUME NEW o \in op
               PROVE  /\ o.kind = "add" => /\ stage'[o.ip] \in {"adding", "readding"}
                                           /\ o.gen > started'[o.ip]
                                           /\ \/ Registered(o.port, o.ip, o.gen)'
                                              \/ o.gen \in stranded
                      /\ o.kind = "remove" => stage'[o.ip] \in {"removing", "moving"}
                      /\ o.unbind => backends'[o.port] = <<>>
    BY <1>1, <1>2 DEF CallOK, Registered
  <2>1. o.ip \in IPs /\ o.kind \in {"add", "remove"}
    BY DEF LTypeOK, TypeOK, AddOp, RemoveOp
  <2>2. o.ip # ip
    BY <1>1, <2>1 DEF LifecycleInv, CallOK
  <2>3. QED
    BY <1>1, <1>2, <2>1, <2>2 DEF LifecycleInv, CallOK, Registered
<1>4. Sound(ip)'
  <2>1. started'[ip] <= gen'
    BY <1>1, <1>2 DEF LifecycleInv, LTypeOK, TypeOK
  <2>2. ElementOK(ip)'
    BY <1>1, <1>2 DEF LifecycleInv, ElementOK
  <2>3. FlowOK(ip)'
    BY <1>1, <1>2 DEF LifecycleInv, FlowOK
  <2>4. QED
    BY <2>1, <2>2, <2>3 DEF Sound
<1>5. ASSUME NEW m \in IPs \ {ip} PROVE Sound(m)'
  <2>1. LeftAlone(m)
    BY <1>1, <1>2 DEF LeftAlone, Registered, LTypeOK, TypeOK
  <2>2. QED
    BY <2>1, LeftAloneStaysSound DEF LifecycleInv, Sound
<1>6. QED
  BY <1>3, <1>4, <1>5 DEF LifecycleInv, Sound

\* AddBackend registers a server that has no element yet, under a generation later than
\* its start.
LEMMA AddSound ==
  ASSUME LTypeOK, LTypeOK', PoolInv, LifecycleInv, NEW ip \in IPs, NEW p \in Ports,
         BringUpAdd(ip, p) \/ RebindAdd(ip, p)
  PROVE  LifecycleInv'
<1>1. AddBackend(p, ip) /\ UNCHANGED <<port, started, stranded>>
  BY DEF BringUpAdd, RebindAdd
<1>2. /\ \/ stage[ip] = "started" /\ stage'[ip] = "adding"
         \/ stage[ip] = "moved" /\ stage'[ip] = "readding"
      /\ \A m \in IPs \ {ip} : stage'[m] = stage[m]
  BY DEF BringUpAdd, RebindAdd, Goto, LTypeOK
<1>3. /\ op = {} /\ gen' = gen + 1 /\ gen \in Nat /\ gen + 1 \in Gen
      /\ UNCHANGED <<elements, conntrack>>
  BY <1>1 DEF AddBackend, kernelVars, LTypeOK, TypeOK, Gen
<1>4. op' = {[kind |-> "add", port |-> p, ip |-> ip, gen |-> gen + 1,
              old |-> genOf(backends[p], ip), unbind |-> FALSE]}
  BY <1>1 DEF AddBackend
<1>5. \E k \in DOMAIN backends'[p] : backends'[p][k] = [ip |-> ip, gen |-> gen + 1]
  BY <1>1, AddBackendRegisters DEF LTypeOK
<1>6. CallOK'
  <2>1. started'[ip] = started[ip] /\ started[ip] <= gen /\ started[ip] \in Nat
    BY <1>1 DEF LifecycleInv, LTypeOK
  <2>2. QED
    BY <1>2, <1>3, <1>4, <1>5, <2>1 DEF CallOK, Registered
<1>7. Sound(ip)'
  <2>1. started'[ip] = started[ip] /\ started[ip] <= gen /\ started[ip] \in Nat
    BY <1>1 DEF LifecycleInv, LTypeOK
  <2>2. ElementOK(ip)'
    BY <1>1, <1>2, <1>3 DEF LifecycleInv, ElementOK
  <2>3. FlowOK(ip)'
    BY <1>1, <1>2, <1>3, <2>1 DEF LifecycleInv, FlowOK
  <2>4. QED
    BY <1>3, <2>1, <2>2, <2>3 DEF Sound
<1>8. ASSUME NEW m \in IPs \ {ip} PROVE Sound(m)'
  <2>1. ASSUME NEW q \in Ports, NEW g \in Gen, Registered(q, m, g) PROVE Registered(q, m, g)'
    <3>1. PICK i \in DOMAIN backends[q] : backends[q][i].ip = m /\ backends[q][i].gen = g
      BY <2>1 DEF Registered
    <3>2. /\ backends[q] \in Seq(Backend)
          /\ backends'[q] = IF q = p THEN addBackend(backends[q], ip, gen + 1) ELSE backends[q]
      BY <1>1 DEF AddBackend, LTypeOK, TypeOK
    <3>3. i \in DOMAIN backends'[q] /\ backends'[q][i] = backends[q][i]
      BY <1>3, <3>1, <3>2, AddKeeps
    <3>4. QED
      BY <3>1, <3>3 DEF Registered
  <2>2. LeftAlone(m)
    BY <1>1, <1>2, <1>3, <2>1 DEF LeftAlone
  <2>3. QED
    BY <2>2, LeftAloneStaysSound DEF LifecycleInv, Sound
<1>9. QED
  BY <1>6, <1>7, <1>8 DEF LifecycleInv, Sound

\* removeBackend of one server leaves the registrations of the others.
LEMMA OthersStayRegistered ==
  ASSUME TypeOK, NEW p \in Ports, NEW ip \in IPs, NEW m \in IPs \ {ip}, NEW q \in Ports,
         NEW g \in Gen, Registered(q, m, g),
         backends' = [backends EXCEPT ![p] = removeBackend(@, ip)]
  PROVE  Registered(q, m, g)'
<1>1. PICK i \in DOMAIN backends[q] : backends[q][i].ip = m /\ backends[q][i].gen = g
  BY DEF Registered
<1>2. /\ backends[q] \in Seq(Backend)
      /\ backends'[q] = IF q = p THEN removeBackend(backends[q], ip) ELSE backends[q]
  BY DEF TypeOK
<1>3. \E j \in DOMAIN backends'[q] : backends'[q][j] = backends[q][i]
  BY <1>1, <1>2, RemoveKeeps
<1>4. QED
  BY <1>1, <1>3 DEF Registered

\* A successful delPoolElement leaves no element of the generation.
LEMMA DeletedElement ==
  ASSUME NEW els \in [Gen -> IPs \cup {NoIP}], NEW g \in 0 .. MaxGen,
         NEW d \in DelElement(els, g), DeletesSucceed, g \in Gen
  PROVE  d[g] = NoIP
BY DEF DelElement, DeletesSucceed, Gen

\* The end of AddBackend: the element that is installed is the registered instance's.
LEMMA AddReturnsSound ==
  ASSUME LTypeOK, LTypeOK', PoolInv, LifecycleInv, NEW ip \in IPs, AddReturns(ip)
  PROVE  LifecycleInv'
<1>1. PICK o \in op : /\ o.kind = "add"
                      /\ \E els \in DelElement(elements, o.old) :
                           elements' = [els EXCEPT ![o.gen] = o.ip]
                      /\ op' = {}
                      /\ UNCHANGED <<routerVars, conntrack, inflight>>
  BY DEF AddReturns, AddBackendElement
<1>2. o.ip = ip /\ port' = [port EXCEPT ![ip] = o.port]
  BY DEF AddReturns, PoolInv, OneHolder
<1>3. /\ o.port \in Ports /\ o.gen \in Gen /\ o.old \in 0 .. MaxGen
      /\ stage[ip] \in {"adding", "readding"}
      /\ Registered(o.port, ip, o.gen) \/ o.gen \in stranded
      /\ o.gen > started[ip]
  <2>1. o \in AddOp
    BY <1>1 DEF LTypeOK, TypeOK, RemoveOp
  <2>2. QED
    BY <1>1, <1>2, <2>1 DEF LifecycleInv, CallOK, AddOp
<1>4. /\ stage'[ip] = "up" /\ port'[ip] = o.port /\ UNCHANGED <<started, stranded>>
      /\ \A m \in IPs \ {ip} : stage'[m] = stage[m] /\ port'[m] = port[m]
  BY <1>2 DEF AddReturns, Goto, LTypeOK
<1>5. UNCHANGED <<backends, gen, conntrack>> /\ op' = {}
  BY <1>1 DEF routerVars
<1>6. /\ elements'[o.gen] = ip
      /\ \A g \in Gen \ {o.gen} : \A m \in IPs : elements'[g] = m => elements[g] = m
  <2>1. PICK els \in DelElement(elements, o.old) : elements' = [els EXCEPT ![o.gen] = o.ip]
    BY <1>1
  <2>2. elements \in [Gen -> IPs \cup {NoIP}]
    BY DEF LTypeOK, TypeOK
  <2>3. els \in [Gen -> IPs \cup {NoIP}]
    BY <1>3, <2>2, DelElementType
  <2>4. \A h \in Gen, m \in IPs : els[h] = m => elements[h] = m
    BY <1>3, <2>2, DelElementOwner
  <2>5. QED
    BY <1>2, <1>3, <2>1, <2>3, <2>4
<1>7. CallOK'
  BY <1>5 DEF CallOK
<1>8. Sound(ip)'
  <2>1. \A g \in Gen \ stranded : elements[g] # ip
    BY <1>3 DEF LifecycleInv, ElementOK
  <2>2. ElementOK(ip)'
    BY <1>3, <1>4, <1>5, <1>6, <2>1 DEF ElementOK, Registered
  <2>3. FlowOK(ip)'
    BY <1>3, <1>4, <1>5 DEF LifecycleInv, FlowOK
  <2>4. QED
    BY <1>4, <1>5, <2>2, <2>3 DEF LifecycleInv, Sound
<1>9. ASSUME NEW m \in IPs \ {ip} PROVE Sound(m)'
  <2>1. \A o2 \in op : o2.ip = ip
    BY <1>2 DEF PoolInv, OneHolder
  <2>2. \A g \in Gen : elements'[g] = m => elements[g] = m
    BY <1>6
  <2>3. LeftAlone(m)
    BY <1>4, <1>5, <2>1, <2>2 DEF LeftAlone, Registered, LTypeOK, TypeOK
  <2>4. QED
    BY <2>3, LeftAloneStaysSound DEF LifecycleInv, Sound
<1>10. QED
  BY <1>7, <1>8, <1>9 DEF LifecycleInv, Sound

\* The end of an AddBackend that failed: the registration is gone and nothing leads to it.
LEMMA AddErrorSound ==
  ASSUME LTypeOK, LTypeOK', PoolInv, LifecycleInv, NEW ip \in IPs, AddReturnsError(ip)
  PROVE  LifecycleInv'
<1>1. PICK o \in op : /\ o.kind = "add"
                      /\ elements' \in DelElement(elements, o.old)
                      /\ backends' = [backends EXCEPT ![o.port] = removeBackend(@, o.ip)]
                      /\ op' = {}
                      /\ UNCHANGED <<managed, rr, sessions, gen, conntrack, inflight>>
  BY DEF AddReturnsError, AddBackendFails
<1>2. o.ip = ip /\ UNCHANGED <<port, started, stranded>>
  BY DEF AddReturnsError, PoolInv, OneHolder
<1>3. /\ o.port \in Ports /\ o.old \in 0 .. MaxGen
      /\ stage[ip] \in {"adding", "readding"}
  <2>1. o \in AddOp
    BY <1>1 DEF LTypeOK, TypeOK, RemoveOp
  <2>2. QED
    BY <1>1, <1>2, <2>1 DEF LifecycleInv, CallOK, AddOp
<1>4. /\ \/ stage[ip] = "adding" /\ stage'[ip] = "down"
         \/ stage[ip] = "readding" /\ stage'[ip] = "lost"
      /\ \A m \in IPs \ {ip} : stage'[m] = stage[m]
  BY DEF AddReturnsError, Goto, LTypeOK
<1>5. \A g \in Gen, m \in IPs : elements'[g] = m => elements[g] = m
  <2>1. elements \in [Gen -> IPs \cup {NoIP}]
    BY DEF LTypeOK, TypeOK
  <2>2. QED
    BY <1>1, <1>3, <2>1, DelElementOwner
<1>6. CallOK'
  BY <1>1 DEF CallOK
<1>7. Sound(ip)'
  <2>1. \A g \in Gen \ stranded : elements[g] # ip
    BY <1>3 DEF LifecycleInv, ElementOK
  <2>2. ElementOK(ip)'
    BY <1>2, <1>5, <2>1 DEF ElementOK
  <2>3. FlowOK(ip)'
    BY <1>1, <1>2, <1>4 DEF LifecycleInv, FlowOK
  <2>4. QED
    BY <1>1, <1>2, <2>2, <2>3 DEF LifecycleInv, Sound
<1>8. ASSUME NEW m \in IPs \ {ip} PROVE Sound(m)'
  <2>1. \A o2 \in op : o2.ip = ip
    BY <1>2 DEF PoolInv, OneHolder
  <2>2. \A q \in Ports, g \in Gen : Registered(q, m, g) => Registered(q, m, g)'
    BY <1>1, <1>2, <1>3, OthersStayRegistered DEF LTypeOK
  <2>3. LeftAlone(m)
    BY <1>1, <1>2, <1>4, <1>5, <2>1, <2>2 DEF LeftAlone, LTypeOK, TypeOK
  <2>4. QED
    BY <2>3, LeftAloneStaysSound DEF LifecycleInv, Sound
<1>9. QED
  BY <1>6, <1>7, <1>8 DEF LifecycleInv, Sound

\* RemoveBackend takes the registration that the server's element belongs to.
LEMMA RemoveSound ==
  ASSUME LTypeOK, LTypeOK', PoolInv, LifecycleInv, NEW ip \in IPs,
         TeardownRemove(ip) \/ RebindRemove(ip)
  PROVE  LifecycleInv'
<1> DEFINE p == port[ip]
<1>1. p \in Ports /\ backends[p] \in Seq(Backend)
  BY DEF TeardownRemove, RebindRemove, Goto, LTypeOK, TypeOK
<1>2. PICK unbind \in BOOLEAN : RemoveBackend(p, ip, unbind)
  BY DEF TeardownRemove, RebindRemove
<1>3. /\ stage[ip] = "up" /\ stage'[ip] \in {"removing", "moving"}
      /\ UNCHANGED <<port, started, stranded>>
      /\ \A m \in IPs \ {ip} : stage'[m] = stage[m]
  BY DEF TeardownRemove, RebindRemove, Goto, LTypeOK
<1>4. /\ op = {} /\ UNCHANGED <<gen, elements, conntrack>>
      /\ backends' = [backends EXCEPT ![p] = removeBackend(@, ip)]
      /\ op' = {[kind |-> "remove", port |-> p, ip |-> ip, gen |-> 0,
                 old |-> genOf(backends[p], ip),
                 unbind |-> unbind /\ p \in managed /\ backends'[p] = <<>>]}
  BY <1>2 DEF RemoveBackend, kernelVars
<1> HIDE DEF p
<1>5. CallOK'
  <2>1. \A o \in op' : /\ o.kind = "remove" /\ o.ip = ip /\ o.port = p
                       /\ o.unbind => backends'[p] = <<>>
    <3> DEFINE u == unbind /\ p \in managed /\ backends'[p] = <<>>
    <3>1. u \in BOOLEAN /\ (u => backends'[p] = <<>>)
      OBVIOUS
    <3>2. op' = {[kind |-> "remove", port |-> p, ip |-> ip, gen |-> 0,
                  old |-> genOf(backends[p], ip), unbind |-> u]}
      BY <1>4
    <3> HIDE DEF u
    <3>3. QED
      BY <3>1, <3>2
  <2>2. QED
    BY <1>3, <2>1 DEF CallOK
<1>6. Sound(ip)'
  <2>1. ASSUME NEW g \in Gen \ stranded, elements'[g] = ip
        PROVE  (\E o \in op' : o.ip = ip /\ o.old = g) /\ g > started'[ip]
    <3>1. Registered(p, ip, g) /\ g > started[ip]
      BY <1>3, <1>4, <2>1 DEF LifecycleInv, ElementOK, p
    <3>2. PICK i \in DOMAIN backends[p] : backends[p][i].ip = ip /\ backends[p][i].gen = g
      BY <3>1 DEF Registered
    <3>3. find(backends[p], ip) = i
      BY <1>1, <3>2, FindFacts DEF PoolInv, PoolsAreSets
    <3>4. find(backends[p], ip) # 0
      BY <1>1, <3>2, <3>3
    <3>5. genOf(backends[p], ip) = g
      BY <1>1, <3>2, <3>3, <3>4, GenOfFacts
    <3>6. QED
      BY <1>3, <1>4, <3>1, <3>5
  <2>2. ElementOK(ip)'
    BY <1>3, <2>1 DEF ElementOK
  <2>3. FlowOK(ip)'
    BY <1>3, <1>4 DEF LifecycleInv, FlowOK
  <2>4. QED
    BY <1>3, <1>4, <2>2, <2>3 DEF LifecycleInv, Sound
<1>7. ASSUME NEW m \in IPs \ {ip} PROVE Sound(m)'
  <2>1. \A q \in Ports, g \in Gen : Registered(q, m, g) => Registered(q, m, g)'
    BY <1>1, <1>4, OthersStayRegistered DEF LTypeOK
  <2>2. LeftAlone(m)
    BY <1>3, <1>4, <2>1 DEF LeftAlone, LTypeOK, TypeOK
  <2>3. QED
    BY <2>2, LeftAloneStaysSound DEF LifecycleInv, Sound
<1>8. QED
  BY <1>5, <1>6, <1>7 DEF LifecycleInv, Sound

\* The end of RemoveBackend*: the server's only element is deleted, and a port that is
\* unmanaged had no backends.
LEMMA RemoveReturnsSound ==
  ASSUME LTypeOK, LTypeOK', PoolInv, LifecycleInv, DeletesSucceed, NEW ip \in IPs,
         RemoveReturns(ip)
  PROVE  LifecycleInv'
<1>1. PICK o \in op :
        /\ o.kind = "remove"
        /\ elements' \in DelElement(elements, o.old)
        /\ IF o.unbind THEN unmanage(o.port) ELSE UNCHANGED <<managed, backends, rr>>
        /\ op' = {}
        /\ UNCHANGED <<sessions, gen, conntrack, inflight>>
  BY DEF RemoveReturns, RemoveBackendElement
<1>2. o.ip = ip /\ (\A o2 \in op : o2 = o) /\ UNCHANGED <<port, started, stranded>>
  BY DEF RemoveReturns, PoolInv, OneHolder
<1>3. /\ o.port \in Ports /\ o.old \in 0 .. MaxGen
      /\ stage[ip] \in {"removing", "moving"}
      /\ o.unbind => backends[o.port] = <<>>
  <2>1. o \in RemoveOp
    BY <1>1 DEF LTypeOK, TypeOK, AddOp
  <2>2. QED
    BY <1>1, <1>2, <2>1 DEF LifecycleInv, CallOK, RemoveOp
<1>4. /\ \/ stage[ip] = "removing" /\ stage'[ip] = "removed"
         \/ stage[ip] = "moving" /\ stage'[ip] = "moved"
      /\ \A m \in IPs \ {ip} : stage'[m] = stage[m]
  BY DEF RemoveReturns, Goto, LTypeOK
<1>5. /\ \A g \in Gen, m \in IPs : elements'[g] = m => elements[g] = m
      /\ \A g \in Gen : g = o.old => elements'[g] = NoIP
  <2>1. elements \in [Gen -> IPs \cup {NoIP}]
    BY DEF LTypeOK, TypeOK
  <2>2. \A g \in Gen, m \in IPs : elements'[g] = m => elements[g] = m
    BY <1>1, <1>3, <2>1, DelElementOwner
  <2>3. o.old \in Gen => elements'[o.old] = NoIP
    BY <1>1, <1>3, <2>1, DeletedElement
  <2>4. QED
    BY <2>2, <2>3
<1>6. backends' = backends
  <2>1. CASE o.unbind
    <3>1. backends' = [backends EXCEPT ![o.port] = <<>>] /\ backends[o.port] = <<>>
      BY <1>1, <1>3, <2>1 DEF unmanage
    <3>2. \E S : backends \in [Ports -> S]
      BY DEF LTypeOK, TypeOK
    <3>3. QED
      BY <1>3, <3>1, <3>2
  <2>2. CASE ~o.unbind
    BY <1>1, <2>2
  <2>3. QED
    BY <2>1, <2>2
<1>7. CallOK'
  BY <1>1 DEF CallOK
<1>8. Sound(ip)'
  <2>1. \A g \in Gen \ stranded : elements[g] = ip => o.old = g
    BY <1>2, <1>3 DEF LifecycleInv, ElementOK
  <2>2. \A g \in Gen \ stranded : elements'[g] # ip
    BY <1>5, <2>1
  <2>3. ElementOK(ip)'
    BY <1>2, <2>2 DEF ElementOK
  <2>4. FlowOK(ip)'
    BY <1>1, <1>2, <1>4 DEF LifecycleInv, FlowOK
  <2>5. QED
    BY <1>1, <1>2, <2>3, <2>4 DEF LifecycleInv, Sound
<1>9. ASSUME NEW m \in IPs \ {ip} PROVE Sound(m)'
  <2>1. LeftAlone(m)
    BY <1>1, <1>2, <1>4, <1>5, <1>6 DEF LeftAlone, Registered, LTypeOK, TypeOK
  <2>2. QED
    BY <2>1, LeftAloneStaysSound DEF LifecycleInv, Sound
<1>10. QED
  BY <1>7, <1>8, <1>9 DEF LifecycleInv, Sound

\* Unmanaging a port strands the generations that are registered on it and changes nothing
\* for the others.  The server whose worker does it is not up.
LEMMA UnmanageSound ==
  ASSUME LTypeOK, LTypeOK', LifecycleInv, NEW ip \in IPs, ReapUnmanage(ip)
  PROVE  LifecycleInv'
<1>1. /\ stage[ip] \in {"down", "lost"} /\ port[ip] \in Ports
      /\ backends' = [backends EXCEPT ![port[ip]] = <<>>]
      /\ stranded' = stranded \cup GensOn(port[ip])
      /\ UNCHANGED <<stage, started, gen, op, elements, conntrack>>
  BY DEF ReapUnmanage, Unmanage, unmanage, kernelVars, LTypeOK
<1>2. \A m \in IPs \ {ip} : port'[m] = port[m]
  BY DEF ReapUnmanage, LTypeOK
<1>3. ASSUME NEW q \in Ports, NEW m, NEW g, Registered(q, m, g)
      PROVE  Registered(q, m, g)' \/ g \in stranded'
  <2>1. CASE q = port[ip]
    BY <1>1, <1>3, <2>1 DEF Registered, GensOn
  <2>2. CASE q # port[ip]
    <3>1. backends'[q] = backends[q]
      BY <1>1, <2>2 DEF LTypeOK, TypeOK
    <3>2. QED
      BY <1>3, <3>1 DEF Registered
  <2>3. QED
    BY <2>1, <2>2
<1>4. ASSUME NEW q \in Ports, backends[q] = <<>> PROVE backends'[q] = <<>>
  BY <1>1, <1>4 DEF LTypeOK, TypeOK
<1>5. CallOK'
  <2> SUFFICES ASSUME NEW o \in op
               PROVE  /\ o.kind = "add" => /\ stage[o.ip] \in {"adding", "readding"}
                                           /\ o.gen > started[o.ip]
                                           /\ \/ Registered(o.port, o.ip, o.gen)'
                                              \/ o.gen \in stranded'
                      /\ o.kind = "remove" => stage[o.ip] \in {"removing", "moving"}
                      /\ o.unbind => backends'[o.port] = <<>>
    BY <1>1 DEF CallOK, Registered
  <2>1. o.port \in Ports
    BY DEF LTypeOK, TypeOK, AddOp, RemoveOp
  <2>2. Registered(o.port, o.ip, o.gen) => Registered(o.port, o.ip, o.gen)' \/ o.gen \in stranded'
    BY <1>3, <2>1
  <2>3. QED
    BY <1>1, <1>4, <2>1, <2>2 DEF LifecycleInv, CallOK
<1>6. Sound(ip)'
  BY <1>1 DEF LifecycleInv, Sound, ElementOK, FlowOK
<1>7. ASSUME NEW m \in IPs \ {ip} PROVE Sound(m)'
  <2>1. LeftAlone(m)
    BY <1>1, <1>2, <1>3 DEF LeftAlone, LTypeOK, TypeOK
  <2>2. QED
    BY <2>1, LeftAloneStaysSound DEF LifecycleInv, Sound
<1>8. QED
  BY <1>5, <1>6, <1>7 DEF LifecycleInv, Sound

\* A packet opens a flow only through an element, and the element is its instance's.
LEMMA TrafficSound ==
  ASSUME LTypeOK, LTypeOK', PacketInv, OwnerInv, LifecycleInv, Traffic,
         UNCHANGED <<workerVars, stranded>>
  PROVE  LifecycleInv'
<1>1. UNCHANGED <<stage, port, started, stranded, backends, gen, elements, op>>
  BY TrafficSources DEF LTypeOK, workerVars
<1>2. \A f \in Flows :
        \/ FlowKept(f) \/ conntrack'[f].nat = NoIP
        \/ conntrack'[f].mark \in Gen /\ elements[conntrack'[f].mark] = conntrack'[f].nat
  <2>1. TypeOK
    BY DEF LTypeOK
  <2>2. CASE FlowsEnd
    BY <2>2 DEF FlowsEnd
  <2>3. CASE Forgets
    BY <2>3 DEF Forgets
  <2>4. ASSUME NEW c \in Clients, NEW p \in Ports, Binds(c, p), NEW f \in Flows
        PROVE  FlowKept(f)
    BY <2>4 DEF Binds
  <2>5. ASSUME NEW c \in Clients, NEW p \in Ports, Opens(c, p), NEW f \in Flows, ~FlowKept(f)
        PROVE  conntrack'[f].mark \in Gen /\ elements[conntrack'[f].mark] = conntrack'[f].nat
    <3>1. sessions[c].gen \in Gen
      BY <2>1, <2>5 DEF Opens, HasSession, TypeOK, Session, Gen
    <3>2. QED
      BY <2>5, <3>1 DEF Opens
  <2>6. QED
    BY <2>1, <2>2, <2>3, <2>4, <2>5, TrafficMoves
<1>3. CallOK'
  BY <1>1 DEF LifecycleInv, CallOK, Registered
<1>4. ASSUME NEW m \in IPs PROVE Sound(m)'
  <2>1. ElementOK(m)'
    BY <1>1 DEF LifecycleInv, ElementOK, Registered
  <2>2. ASSUME NEW f \in Flows, conntrack'[f].nat = m, conntrack'[f].mark \notin stranded
        PROVE  /\ stage'[m] \notin {"drained", "down", "flushed", "started", "adding"}
               /\ stage'[m] \in {"up", "moving", "moved", "readding", "lost"} =>
                    conntrack'[f].mark > started'[m]
    <3>1. CASE FlowKept(f)
      BY <1>1, <2>2, <3>1 DEF FlowKept, LifecycleInv, FlowOK
    <3>2. CASE conntrack'[f].mark \in Gen /\ elements[conntrack'[f].mark] = m
      BY <1>1, <2>2, <3>2 DEF LifecycleInv, ElementOK
    <3>3. QED
      BY <1>2, <2>2, <3>1, <3>2
  <2>3. FlowOK(m)'
    BY <1>1, <2>2 DEF FlowOK
  <2>4. QED
    BY <1>1, <2>1, <2>3 DEF LifecycleInv, Sound
<1>5. QED
  BY <1>3, <1>4 DEF LifecycleInv, Sound

-----------------------------------------------------------------------------
(* Together.                                                               *)

\* Initially every server is down and there is no element, flow or entrypoint.
LEMMA InitSound == LInit => LifecycleInv
<1> SUFFICES ASSUME LInit PROVE LifecycleInv
  OBVIOUS
<1>1. op = {} /\ gen = 0 /\ \A ip \in IPs : started[ip] = 0
  BY DEF LInit, Init
<1>2. \A g \in Gen : elements[g] = NoIP
  BY DEF LInit, Init
<1>3. \A f \in Flows : conntrack[f].nat = NoIP
  BY DEF LInit, Init, NoEntry
<1>4. QED
  BY <1>1, <1>2, <1>3 DEF LifecycleInv, CallOK, ElementOK, FlowOK

\* Every step of the workers and of the traffic preserves the invariant.
LEMMA LifecycleStep ==
  ASSUME LTypeOK, LTypeOK', PoolInv, PacketInv, OwnerInv, LifecycleInv, DeletesSucceed,
         [LNext]_lvars
  PROVE  LifecycleInv'
<1>1. CASE UNCHANGED lvars
  <2>1. UNCHANGED <<stage, port, started, stranded, backends, gen, op, elements, conntrack>>
    BY <1>1 DEF lvars, vars
  <2>2. CallOK'
    BY <2>1 DEF LifecycleInv, CallOK, Registered
  <2>3. ASSUME NEW m \in IPs PROVE Sound(m)'
    BY <2>1 DEF LifecycleInv, Sound, ElementOK, FlowOK, Registered
  <2>4. QED
    BY <2>2, <2>3 DEF LifecycleInv, Sound
<1>2. ASSUME NEW ip \in IPs,
             \/ BringUpFlush(ip) \/ BringUpStart(ip)
             \/ \E p \in Ports : BringUpAdd(ip, p) \/ RebindAdd(ip, p)
             \/ AddReturns(ip) \/ AddReturnsError(ip)
             \/ TeardownRemove(ip) \/ RemoveReturns(ip) \/ TeardownFlush(ip)
             \/ TeardownStop(ip) \/ RebindRemove(ip) \/ ReapUnmanage(ip)
      PROVE  LifecycleInv'
  BY <1>2, FlushSound, StartStopSound, AddSound, AddReturnsSound, AddErrorSound,
     RemoveSound, RemoveReturnsSound, UnmanageSound, Zenon
<1>3. CASE Traffic /\ UNCHANGED <<workerVars, stranded>>
  BY <1>3, TrafficSound
<1>4. QED
  BY <1>1, <1>2, <1>3 DEF LNext

\* Where deletions of elements and flows succeed, every element leads to a server that is
\* up or being removed, and every flow to the instance it was opened to, but for the
\* generations that a reap stranded by unmanaging their port.
THEOREM LifecycleInvariant ==
  ASSUME DeletesSucceed
  PROVE  LSpec => [](LTypeOK /\ LifecycleInv)
<1>1. LTypeOK /\ LTypeOK' /\ PoolInv /\ PacketInv /\ OwnerInv /\ LifecycleInv
        /\ [LNext]_lvars => LifecycleInv'
  BY LifecycleStep
<1>2. QED
  BY <1>1, InitSound, LifecycleIsProxy, PoolInvariant, OwnerInvariant, PacketInvariant, PTL
     DEF LSpec

\* Remove, then Flush, drains: from the flush of teardownLive to the AddBackend of the next
\* bringUp no flow leads to the server, whatever packets are on their way meanwhile, but a
\* flow of a generation whose port was unmanaged under it.
THEOREM DrainIsQuiet ==
  ASSUME DeletesSucceed
  PROVE  LSpec => []DrainedMeansQuiet
<1>1. LifecycleInv => DrainedMeansQuiet
  BY DEF LifecycleInv, FlowOK, DrainedMeansQuiet
<1>2. QED
  BY <1>1, LifecycleInvariant, PTL

\* A flow is only forwarded to the instance it was opened to: none leads from before the
\* last Start of its server to the instance that answers now (worker.bringUp, rebind), but
\* a flow of a generation whose port was unmanaged under it.
THEOREM FlowsKeepTheirInstance ==
  ASSUME DeletesSucceed
  PROVE  LSpec => []FlowOnlyToItsInstance
<1>1. LifecycleInv => FlowOnlyToItsInstance
  BY DEF LifecycleInv, FlowOK, FlowOnlyToItsInstance
<1>2. QED
  BY <1>1, LifecycleInvariant, PTL
=============================================================================
