------------------------------- MODULE Proxy -------------------------------
(***************************************************************************)
(* The UDP reverse proxy of csfleet (orchestration/proxy): the in-memory   *)
(* router, the nft map @pool that turns a packet mark into a backend       *)
(* address, the kernel's UDP conntrack table, and the steps of packets     *)
(* through them.                                                           *)
(*                                                                         *)
(* The entrypoints AddBackend, RemoveBackend* and FlushConntrack are       *)
(* serialised by opMu, but the NFQUEUE handler and Unmanage take only the  *)
(* router's own mutex: they run between the router change and the netlink  *)
(* change of an entrypoint.  An entrypoint is therefore two actions, and   *)
(* `op' holds the record of the one that owns opMu.  A packet with a dnat  *)
(* verdict is likewise `inflight' from route() until the kernel reinjects  *)
(* it; the handler is one goroutine, so at most one packet is.             *)
(*                                                                         *)
(* Here the entrypoints are called in any order with any arguments;        *)
(* ProxyLifecycle restricts them to the order the fleet's workers keep.    *)
(***************************************************************************)
EXTENDS Naturals, Sequences, SequencesExt

CONSTANTS
  Ports,           \* external UDP ports
  IPs,             \* backend addresses on the bridge
  Clients,         \* client source addr:port pairs
  NoIP,            \* no address: an absent @pool element, an un-NATed flow
  MaxGen,          \* bound on the generation counter
  RRWrap,          \* modulus of the round-robin cursor (see RRAssumption)
  CtTimeout,       \* conntrackUDPTimeout, in ticks
  SessionTTL,      \* sessionTTL, in ticks
  NetlinkFaults    \* the netlink requests that may return an error: to "add" or
                   \* "delete" an element, to "flush" flows, to set a "verdict"

ASSUME NoIPAssumption == NoIP \notin IPs
ASSUME MaxGenAssumption == MaxGen \in Nat
ASSUME TimeAssumption == CtTimeout \in Nat /\ SessionTTL \in Nat
                         /\ CtTimeout < SessionTTL
ASSUME FailAssumption == NetlinkFaults \subseteq {"add", "delete", "flush", "verdict"}
(***************************************************************************)
(* The cursor is only used modulo the length of a pool; a modulus that     *)
(* every possible length divides keeps the choice exact and the cursor     *)
(* finite.  The proofs need only that it is positive.                      *)
(***************************************************************************)
ASSUME RRAssumption == RRWrap \in Nat \ {0}

VARIABLES
  managed,    \* the ports that have a pool: the keys of router.pools
  backends,   \* port -> sequence of [ip, gen]: pool.backends
  rr,         \* port -> round-robin cursor: pool.rr
  sessions,   \* client -> [backend, gen, age]; gen 0 is "no session"
  gen,        \* router.gen
  elements,   \* the @pool map: generation -> address, NoIP where absent
  conntrack,  \* <<client, port>> -> conntrack entry
  op,         \* the entrypoint that holds opMu: at most one record
  inflight    \* the packet between its dnat verdict and reinjection

routerVars == <<managed, backends, rr, sessions, gen>>
kernelVars == <<elements, conntrack>>
vars == <<managed, backends, rr, sessions, gen, elements, conntrack, op, inflight>>

Gen == 1 .. MaxGen
Backend == [ip : IPs, gen : Gen]

NoSession == [backend |-> NoIP, gen |-> 0, age |-> 0]
Session == [backend : IPs \cup {NoIP}, gen : 0 .. MaxGen, age : 0 .. SessionTTL + 1]

(***************************************************************************)
(* A conntrack entry is "new" until a reply is seen and "established"      *)
(* after; nat is the address its destination is rewritten to, fixed by the *)
(* packet that creates the entry; mark is the generation it was NATed by.  *)
(***************************************************************************)
NoEntry == [state |-> "none", nat |-> NoIP, mark |-> 0, idle |-> 0]
Entry == [state : {"none", "new", "established"}, nat : IPs \cup {NoIP},
          mark : 0 .. MaxGen, idle : 0 .. CtTimeout]

AddOp == [kind : {"add"}, port : Ports, ip : IPs, gen : Gen, old : 0 .. MaxGen,
          unbind : {FALSE}]
RemoveOp == [kind : {"remove"}, port : Ports, ip : IPs, gen : {0}, old : 0 .. MaxGen,
             unbind : BOOLEAN]
Packet == [client : Clients, port : Ports, mark : Gen]

Flows == Clients \X Ports

TypeOK ==
  /\ managed \in SUBSET Ports
  /\ backends \in [Ports -> Seq(Backend)]
  /\ rr \in [Ports -> 0 .. RRWrap - 1]
  /\ sessions \in [Clients -> Session]
  /\ gen \in 0 .. MaxGen
  /\ elements \in [Gen -> IPs \cup {NoIP}]
  /\ conntrack \in [Flows -> Entry]
  /\ op \in SUBSET (AddOp \cup RemoveOp)
  /\ inflight \in SUBSET Packet

Init ==
  /\ managed = {}
  /\ backends = [p \in Ports |-> <<>>]
  /\ rr = [p \in Ports |-> 0]
  /\ sessions = [c \in Clients |-> NoSession]
  /\ gen = 0
  /\ elements = [g \in Gen |-> NoIP]
  /\ conntrack = [f \in Flows |-> NoEntry]
  /\ op = {}
  /\ inflight = {}

-----------------------------------------------------------------------------
(* The router's operations, as functions of the backends of one pool.      *)

\* pool.find: the index of the backend with this address, 0 if there is none.
\* A pool holds an address at most once (PoolsAreSets), so any match is the first.
find(s, ip) ==
  LET matches == {i \in DOMAIN s : s[i].ip = ip}
  IN  IF matches = {} THEN 0 ELSE CHOOSE i \in matches : TRUE

\* The pool after addBackend: the generation bumped in place, or one backend more.
addBackend(s, ip, g) ==
  LET i == find(s, ip)
  IN  IF i = 0 THEN Append(s, [ip |-> ip, gen |-> g])
               ELSE [s EXCEPT ![i] = [ip |-> ip, gen |-> g]]

\* The pool after removeBackend.
removeBackend(s, ip) ==
  LET i == find(s, ip)
  IN  IF i = 0 THEN s ELSE RemoveAt(s, i)

\* The generation under which the pool holds ip, 0 if it does not.
genOf(s, ip) ==
  LET i == find(s, ip)
  IN  IF i = 0 THEN 0 ELSE s[i].gen

HasSession(c) == sessions[c].gen # 0

\* The verdict of route() on a packet of c to port p.
routeVerdict(c, p) ==
  IF p \notin managed THEN "accept"
  ELSE IF HasSession(c)
       THEN IF genOf(backends[p], sessions[c].backend) = sessions[c].gen
            THEN "dnat" ELSE "drop"
       ELSE IF backends[p] = <<>> THEN "drop" ELSE "dnat"

-----------------------------------------------------------------------------
(* opMu-serialised entrypoints.                                            *)

\* AddBackend, up to the netlink calls: the router learns of the backend.
AddBackend(p, ip) ==
  /\ op = {}
  /\ gen < MaxGen
  /\ gen' = gen + 1
  /\ managed' = managed \cup {p}
  /\ backends' = [backends EXCEPT ![p] = addBackend(@, ip, gen + 1)]
  /\ op' = {[kind |-> "add", port |-> p, ip |-> ip, gen |-> gen + 1,
             old |-> genOf(backends[p], ip), unbind |-> FALSE]}
  /\ UNCHANGED <<rr, sessions, inflight, kernelVars>>

\* delPoolElement; an error is only logged.
DelElement(els, g) ==
  {IF g = 0 THEN els ELSE [els EXCEPT ![g] = NoIP]}
    \cup (IF "delete" \in NetlinkFaults THEN {els} ELSE {})

\* The rest of AddBackend: drop the stale element, install the new one.
AddBackendElement ==
  \E o \in op :
    /\ o.kind = "add"
    /\ \E els \in DelElement(elements, o.old) :
         elements' = [els EXCEPT ![o.gen] = o.ip]
    /\ op' = {}
    /\ UNCHANGED <<routerVars, conntrack, inflight>>

\* Mutant: the failed addition is not rolled back.
AddBackendFailsKeeps ==
  \E o \in op :
    /\ o.kind = "add"
    /\ "add" \in NetlinkFaults
    /\ elements' \in DelElement(elements, o.old)
    /\ op' = {}
    /\ UNCHANGED <<routerVars, conntrack, inflight>>

\* Mutant: the roll-back hands the generation out again.
AddBackendFailsReuses ==
  \E o \in op :
    /\ o.kind = "add"
    /\ "add" \in NetlinkFaults
    /\ elements' \in DelElement(elements, o.old)
    /\ backends' = [backends EXCEPT ![o.port] = removeBackend(@, o.ip)]
    /\ gen' = gen - 1
    /\ op' = {}
    /\ UNCHANGED <<managed, rr, sessions, conntrack, inflight>>

\* The rest of AddBackend when addPoolElement fails: the router forgets the backend.
AddBackendFails ==
  \E o \in op :
    /\ o.kind = "add"
    /\ "add" \in NetlinkFaults
    /\ elements' \in DelElement(elements, o.old)
    /\ backends' = [backends EXCEPT ![o.port] = removeBackend(@, o.ip)]
    /\ op' = {}
    /\ UNCHANGED <<managed, rr, sessions, gen, conntrack, inflight>>

\* RemoveBackendDoNotUnbind (unbind = FALSE) and RemoveBackendMaybeUnbind, up to
\* the netlink call.  MaybeUnbind unmanages the port if the pool is left empty.
RemoveBackend(p, ip, unbind) ==
  /\ op = {}
  /\ backends' = [backends EXCEPT ![p] = removeBackend(@, ip)]
  /\ op' = {[kind |-> "remove", port |-> p, ip |-> ip, gen |-> 0,
             old |-> genOf(backends[p], ip),
             unbind |-> unbind /\ p \in managed /\ backends'[p] = <<>>]}
  /\ UNCHANGED <<managed, rr, sessions, gen, inflight, kernelVars>>

unmanage(p) ==
  /\ managed' = managed \ {p}
  /\ backends' = [backends EXCEPT ![p] = <<>>]
  /\ rr' = [rr EXCEPT ![p] = 0]

\* Mutant: the element of the removed backend stays in @pool.
RemoveBackendElementKept ==
  \E o \in op :
    /\ o.kind = "remove"
    /\ IF o.unbind THEN unmanage(o.port) ELSE UNCHANGED <<managed, backends, rr>>
    /\ op' = {}
    /\ UNCHANGED <<sessions, gen, elements, conntrack, inflight>>

\* The rest of RemoveBackend*: delete the element, unmanage a drained port.
RemoveBackendElement ==
  \E o \in op :
    /\ o.kind = "remove"
    /\ elements' \in DelElement(elements, o.old)
    /\ IF o.unbind THEN unmanage(o.port) ELSE UNCHANGED <<managed, backends, rr>>
    /\ op' = {}
    /\ UNCHANGED <<sessions, gen, conntrack, inflight>>

\* Mutant: flows that no reply was seen of are not flushed.
FlushConntrackReplied(ip) ==
  /\ op = {}
  /\ conntrack' = [f \in Flows |->
       IF conntrack[f].nat = ip /\ conntrack[f].state = "established"
       THEN NoEntry ELSE conntrack[f]]
  /\ UNCHANGED <<routerVars, elements, op, inflight>>

\* FlushConntrack: delete the flows whose replies come from ip.  The deletion of
\* an entry may fail, which is logged, and a failed dump deletes nothing.
FlushConntrack(ip) ==
  /\ op = {}
  /\ \E kept \in SUBSET {f \in Flows : conntrack[f].nat = ip} :
       /\ kept = {} \/ "flush" \in NetlinkFaults
       /\ conntrack' = [f \in Flows |->
            IF conntrack[f].nat = ip /\ f \notin kept THEN NoEntry ELSE conntrack[f]]
  /\ UNCHANGED <<routerVars, elements, op, inflight>>

\* Proxy.Unmanage does not take opMu.
Unmanage(p) ==
  /\ unmanage(p)
  /\ UNCHANGED <<sessions, gen, op, inflight, kernelVars>>

-----------------------------------------------------------------------------
(* Packets.                                                                *)

\* The state of a flow after a packet of it that does not create an entry.
Touched(f) ==
  IF conntrack[f].state = "none" THEN NoEntry ELSE [conntrack[f] EXCEPT !.idle = 0]

\* The decide chain queues a packet whose flow is new or not yet replied to.
Queued(c, p) == conntrack[<<c, p>>].state # "established" /\ inflight = {}

\* onPacket, verdict accept: an unmanaged port.  The host gets the packet.
RouteAccept(c, p) ==
  /\ Queued(c, p)
  /\ routeVerdict(c, p) = "accept"
  /\ conntrack' = [conntrack EXCEPT ![<<c, p>>] =
       IF @.state = "none" THEN [NoEntry EXCEPT !.state = "new"] ELSE Touched(<<c, p>>)]
  /\ UNCHANGED <<routerVars, elements, op, inflight>>

\* Mutant: a dropped packet refreshes its session.
RouteDropRefreshes(c, p) ==
  /\ Queued(c, p)
  /\ routeVerdict(c, p) = "drop"
  /\ sessions' = [sessions EXCEPT ![c].age = 0]
  /\ conntrack' = [conntrack EXCEPT ![<<c, p>>] = Touched(<<c, p>>)]
  /\ UNCHANGED <<managed, backends, rr, gen, elements, op, inflight>>

\* onPacket, verdict drop: an orphan, or a managed port without backends.
RouteDrop(c, p) ==
  /\ Queued(c, p)
  /\ routeVerdict(c, p) = "drop"
  /\ conntrack' = [conntrack EXCEPT ![<<c, p>>] = Touched(<<c, p>>)]
  /\ UNCHANGED <<routerVars, elements, op, inflight>>

\* onPacket, verdict dnat for a client with a session: lastSeen is refreshed.
RouteSession(c, p) ==
  /\ Queued(c, p)
  /\ HasSession(c)
  /\ routeVerdict(c, p) = "dnat"
  /\ sessions' = [sessions EXCEPT ![c].age = 0]
  /\ inflight' = {[client |-> c, port |-> p, mark |-> sessions[c].gen]}
  /\ conntrack' = [conntrack EXCEPT ![<<c, p>>] = Touched(<<c, p>>)]
  /\ UNCHANGED <<managed, backends, rr, gen, elements, op>>

\* Mutant: the session is not looked up, every packet goes round robin.
RouteNewAlways(c, p) ==
  /\ Queued(c, p)
  /\ routeVerdict(c, p) = "dnat"
  /\ LET b == backends[p][(rr[p] % Len(backends[p])) + 1]
     IN  /\ sessions' = [sessions EXCEPT ![c] =
              [backend |-> b.ip, gen |-> b.gen, age |-> 0]]
         /\ inflight' = {[client |-> c, port |-> p, mark |-> b.gen]}
  /\ rr' = [rr EXCEPT ![p] = (@ + 1) % RRWrap]
  /\ conntrack' = [conntrack EXCEPT ![<<c, p>>] = Touched(<<c, p>>)]
  /\ UNCHANGED <<managed, backends, gen, elements, op>>

\* onPacket, verdict dnat for a client without a session: round robin.
RouteNew(c, p) ==
  /\ Queued(c, p)
  /\ ~HasSession(c)
  /\ routeVerdict(c, p) = "dnat"
  /\ LET b == backends[p][(rr[p] % Len(backends[p])) + 1]
     IN  /\ sessions' = [sessions EXCEPT ![c] =
              [backend |-> b.ip, gen |-> b.gen, age |-> 0]]
         /\ inflight' = {[client |-> c, port |-> p, mark |-> b.gen]}
  /\ rr' = [rr EXCEPT ![p] = (@ + 1) % RRWrap]
  /\ conntrack' = [conntrack EXCEPT ![<<c, p>>] = Touched(<<c, p>>)]
  /\ UNCHANGED <<managed, backends, gen, elements, op>>

\* The execute chain: the marked packet is reinjected and, if it is the first of
\* its flow, DNATed to the mark's element; a mark without one leaves it as it is.
Reinject ==
  \E k \in inflight :
    /\ conntrack' = [conntrack EXCEPT ![<<k.client, k.port>>] =
         IF @.state = "none"
         THEN [state |-> "new", nat |-> elements[k.mark], idle |-> 0,
               mark |-> IF elements[k.mark] = NoIP THEN 0 ELSE k.mark]
         ELSE @]
    /\ inflight' = {}
    /\ UNCHANGED <<routerVars, elements, op>>

\* The verdict could not be set: the packet is lost.
VerdictFails ==
  /\ inflight # {}
  /\ "verdict" \in NetlinkFaults
  /\ inflight' = {}
  /\ UNCHANGED <<routerVars, kernelVars, op>>

\* The backend answers a flow: from now on the kernel forwards it by itself.
Reply(f) ==
  /\ conntrack[f].state = "new" /\ conntrack[f].nat # NoIP
  /\ conntrack' = [conntrack EXCEPT ![f] = [@ EXCEPT !.state = "established", !.idle = 0]]
  /\ UNCHANGED <<routerVars, elements, op, inflight>>

\* A packet of an established flow never reaches the handler.
Forward(f) ==
  /\ conntrack[f].state = "established"
  /\ conntrack' = [conntrack EXCEPT ![f].idle = 0]
  /\ UNCHANGED <<routerVars, elements, op, inflight>>

-----------------------------------------------------------------------------
(* Time.                                                                   *)

Older(s) == IF s.gen = 0 \/ s.age > SessionTTL THEN s ELSE [s EXCEPT !.age = @ + 1]
Idler(e) ==
  IF e.state = "none" \/ e.idle = CtTimeout THEN NoEntry ELSE [e EXCEPT !.idle = @ + 1]

\* A tick of the clock: sessions age, idle flows expire.  Ticks are much longer
\* than the way of a packet from route() to its reinjection.
Tick ==
  /\ inflight = {}
  /\ sessions' = [c \in Clients |-> Older(sessions[c])]
  /\ conntrack' = [f \in Flows |-> Idler(conntrack[f])]
  /\ UNCHANGED <<managed, backends, rr, gen, elements, op, inflight>>

\* sweepLoop: forget the sessions not refreshed for longer than the TTL.
Sweep ==
  /\ sessions' = [c \in Clients |->
       IF sessions[c].age > SessionTTL THEN NoSession ELSE sessions[c]]
  /\ UNCHANGED <<managed, backends, rr, gen, elements, conntrack, op, inflight>>

-----------------------------------------------------------------------------
Handle(c, p) ==
  RouteAccept(c, p) \/ RouteDrop(c, p) \/ RouteSession(c, p) \/ RouteNew(c, p)

\* What happens whatever the callers of the entrypoints do.
Traffic ==
  \/ \E c \in Clients, p \in Ports : Handle(c, p)
  \/ \E f \in Flows : Reply(f) \/ Forward(f)
  \/ Reinject \/ VerdictFails
  \/ Tick \/ Sweep

Next ==
  \/ \E p \in Ports, ip \in IPs : AddBackend(p, ip)
  \/ \E p \in Ports, ip \in IPs, unbind \in BOOLEAN : RemoveBackend(p, ip, unbind)
  \/ \E ip \in IPs : FlushConntrack(ip)
  \/ \E p \in Ports : Unmanage(p)
  \/ AddBackendElement \/ AddBackendFails \/ RemoveBackendElement
  \/ Traffic

Spec == Init /\ [][Next]_vars

-----------------------------------------------------------------------------
(* Safety.                                                                 *)

\* AddBackend bumps the generation of an address in place: a pool never lists an
\* address twice, so removing it once removes it.
PoolsAreSets ==
  \A p \in Ports : \A i, j \in DOMAIN backends[p] :
    backends[p][i].ip = backends[p][j].ip => i = j

\* A generation names one registration for ever ("unique per add"): the router's
\* backends, the sessions, the @pool map and the NATed flows never disagree on the
\* address a generation stands for, whatever raced or failed.
GenNamesOneBackend ==
  \A p \in Ports : \A i \in DOMAIN backends[p] :
    LET b == backends[p][i]
    IN  /\ \A q \in Ports : \A j \in DOMAIN backends[q] :
             backends[q][j].gen = b.gen => q = p /\ j = i
        /\ elements[b.gen] \in {b.ip, NoIP}
        /\ \A c \in Clients : sessions[c].gen = b.gen => sessions[c].backend = b.ip
        /\ \A f \in Flows : conntrack[f].mark = b.gen => conntrack[f].nat = b.ip

\* A flow NATed under its client's session goes to the session's backend.
FlowFollowsSession ==
  \A f \in Flows :
    conntrack[f].mark # 0 /\ conntrack[f].mark = sessions[f[1]].gen
      => conntrack[f].nat = sessions[f[1]].backend

\* Whenever no entrypoint is running, every backend the router can choose has its
\* @pool element: a failed addPoolElement was rolled back, and no clean-up of a
\* stale element took the element of a live backend.
RoutableHasElement ==
  op = {} => \A p \in Ports : \A i \in DOMAIN backends[p] :
               elements[backends[p][i].gen] = backends[p][i].ip

\* A session is never moved: it keeps its backend and generation until it is swept.
SessionPinned ==
  [][\A c \in Clients : HasSession(c) /\ HasSession(c)' =>
       /\ sessions'[c].backend = sessions[c].backend
       /\ sessions'[c].gen = sessions[c].gen]_vars

(***************************************************************************)
(* The inductive invariant behind PoolsAreSets and RoutableHasElement, and *)
(* the one behind GenNamesOneBackend (proved in ProxyProofs).              *)
(***************************************************************************)

\* opMu has one holder.
OneHolder == \A o1, o2 \in op : o1 = o2

\* No two registrations share a generation.
GensDistinct ==
  \A p, q \in Ports : \A i \in DOMAIN backends[p], j \in DOMAIN backends[q] :
    backends[p][i].gen = backends[q][j].gen => p = q /\ i = j

\* Every generation in use was issued by the counter.
GensIssued ==
  /\ \A p \in Ports : \A i \in DOMAIN backends[p] : backends[p][i].gen <= gen
  /\ \A g \in Gen : elements[g] # NoIP => g <= gen
  /\ \A c \in Clients : sessions[c].gen <= gen
  /\ \A f \in Flows : conntrack[f].mark <= gen
  /\ \A o \in op : o.gen <= gen

\* The generation whose element an entrypoint is about to delete is not registered.
OldIsGone ==
  \A o \in op : \A p \in Ports : \A i \in DOMAIN backends[p] :
    backends[p][i].gen # o.old

\* A backend has its element, or is the one AddBackend is about to install it for.
ElementOrPending ==
  \A p \in Ports : \A i \in DOMAIN backends[p] :
    LET b == backends[p][i]
    IN  /\ \A o \in op : o.gen = b.gen => o.port = p /\ o.ip = b.ip
        /\ (\A o \in op : o.gen # b.gen) => elements[b.gen] = b.ip

\* AddBackend and RemoveBackend leave the router, the @pool map and the entrypoint in
\* progress in step with each other at every point where a packet may be routed.
PoolInv ==
  OneHolder /\ PoolsAreSets /\ GensDistinct /\ GensIssued /\ OldIsGone /\ ElementOrPending

\* A packet carries the mark of its client's session, which cannot be swept before the
\* packet is reinjected, and a flow that is not there has no address.
PacketInv ==
  /\ \A k \in inflight : sessions[k.client].gen = k.mark /\ sessions[k.client].age = 0
  /\ \A f \in Flows : conntrack[f].state = "none" => conntrack[f] = NoEntry

(***************************************************************************)
(* The promise to the clients.                                             *)
(***************************************************************************)

\* The instances the router lists.
ListedInstances ==
  UNION {{[port |-> p, ip |-> backends[p][i].ip, id |-> backends[p][i].gen] :
            i \in DOMAIN backends[p]} : p \in Ports}

Dir == INSTANCE Directory WITH
  listed <- ListedInstances,
  next <- gen,
  bound <- [c \in Clients |-> [id |-> sessions[c].gen, ip |-> sessions[c].backend]],
  flow <- [f \in Flows |-> [id |-> conntrack[f].mark, ip |-> conntrack[f].nat]]

\* Router, @pool map, marks and conntrack together implement the directory, for any
\* interleaving of entrypoints, packets and failures: a client is bound only to a
\* listed instance, never moved, and the kernel opens its flow to that instance or
\* not at all, although the verdict and the execution of it are two steps between
\* which the instance may be removed.
ImplementsDirectory == Dir!DirSpec

(***************************************************************************)
(* Claims of the source that TLC refutes (see the README).                *)
(***************************************************************************)

\* router.go:153, "orphan: backend gone or generation stale": a session is
\* dropped on a managed port only if no pool has its backend any more.
OrphanMeansGone ==
  \A c \in Clients, p \in Ports :
    HasSession(c) /\ routeVerdict(c, p) = "drop" =>
      ~ \E q \in Ports : genOf(backends[q], sessions[c].backend) = sessions[c].gen

\* router.go:126, "the handler stamps on the packet so the kernel DNATs it to that
\* backend": once the verdict of a flow is dnat and nothing is in progress, the
\* flow's conntrack entry, if it has one, is NATed.
DnatVerdictIsExecuted ==
  op = {} /\ inflight = {} =>
    \A c \in Clients, p \in Ports :
      /\ routeVerdict(c, p) = "dnat"
      /\ HasSession(c)
      /\ conntrack[<<c, p>>].state # "none"
      => conntrack[<<c, p>>].nat # NoIP

=============================================================================
