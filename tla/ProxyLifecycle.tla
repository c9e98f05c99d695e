--------------------------- MODULE ProxyLifecycle ---------------------------
(***************************************************************************)
(* The proxy under the discipline of its callers, the fleet's workers: one *)
(* server per address, brought up in the order Flush -> Start -> Add and   *)
(* down in the order Remove -> Flush -> Stop (proxy.go:156, 188), moved to *)
(* another port by rebind (Remove, then Add, without a flush), and its     *)
(* port unmanaged when its definition is deleted, whoever is registered on *)
(* the port by then or is being registered on it.                          *)
(***************************************************************************)
EXTENDS Proxy

CONSTANT NoPort    \* the port of a worker that never registered

ASSUME NoPortAssumption == NoPort \notin Ports

VARIABLES
  stage,    \* address -> where its worker is between two entrypoints
  port,     \* address -> worker.port: the port last registered
  started,  \* address -> value of router.gen when its container was started
  stranded  \* history: the generations whose port was unmanaged under them

workerVars == <<stage, port, started>>
lvars == <<vars, stage, port, started, stranded>>

Stages == {"down", "flushed", "started", "adding", "up", "removing", "removed",
           "drained", "moving", "moved", "readding", "lost"}

LTypeOK ==
  /\ TypeOK
  /\ stage \in [IPs -> Stages]
  /\ port \in [IPs -> Ports \cup {NoPort}]
  /\ \A ip \in IPs : stage[ip] = "up" => port[ip] # NoPort
  /\ started \in [IPs -> 0 .. MaxGen]
  /\ stranded \in SUBSET Gen

LInit ==
  /\ Init
  /\ stage = [ip \in IPs |-> "down"]
  /\ port = [ip \in IPs |-> NoPort]
  /\ started = [ip \in IPs |-> 0]
  /\ stranded = {}

Goto(ip, from, to) == stage[ip] = from /\ stage' = [stage EXCEPT ![ip] = to]

-----------------------------------------------------------------------------
(* worker.bringUp *)

\* Flush first.  A worker whose rebind failed is "lost" and comes up this way too.
BringUpFlush(ip) ==
  /\ Goto(ip, "down", "flushed") \/ Goto(ip, "lost", "flushed")
  /\ FlushConntrack(ip)
  /\ UNCHANGED <<port, started, stranded>>

\* server.Start: a new instance answers on the address.
BringUpStart(ip) ==
  /\ Goto(ip, "flushed", "started")
  /\ started' = [started EXCEPT ![ip] = gen]
  /\ UNCHANGED <<vars, port, stranded>>

BringUpAdd(ip, p) ==
  /\ Goto(ip, "started", "adding")
  /\ AddBackend(p, ip)
  /\ UNCHANGED <<port, started, stranded>>

\* AddBackend returns nil to bringUp or to rebind: the worker records the port.
AddReturns(ip) ==
  /\ \E o \in op : o.ip = ip /\ port' = [port EXCEPT ![ip] = o.port]
  /\ Goto(ip, "adding", "up") \/ Goto(ip, "readding", "up")
  /\ AddBackendElement
  /\ UNCHANGED <<started, stranded>>

\* AddBackend returns an error: bringUp stops the container again; rebind leaves it
\* running, unregistered.
AddReturnsError(ip) ==
  /\ \E o \in op : o.ip = ip
  /\ Goto(ip, "adding", "down") \/ Goto(ip, "readding", "lost")
  /\ AddBackendFails
  /\ UNCHANGED <<port, started, stranded>>

-----------------------------------------------------------------------------
(* worker.teardownLive *)

TeardownRemove(ip) ==
  /\ Goto(ip, "up", "removing")
  /\ RemoveBackend(port[ip], ip, FALSE)
  /\ UNCHANGED <<port, started, stranded>>

RemoveReturns(ip) ==
  /\ \E o \in op : o.ip = ip
  /\ Goto(ip, "removing", "removed") \/ Goto(ip, "moving", "moved")
  /\ RemoveBackendElement
  /\ UNCHANGED <<port, started, stranded>>

TeardownFlush(ip) ==
  /\ Goto(ip, "removed", "drained")
  /\ FlushConntrack(ip)
  /\ UNCHANGED <<port, started, stranded>>

TeardownStop(ip) ==
  /\ Goto(ip, "drained", "down")
  /\ UNCHANGED <<vars, port, started, stranded>>

-----------------------------------------------------------------------------
(* worker.rebind *)

RebindRemove(ip) ==
  /\ Goto(ip, "up", "moving")
  /\ RemoveBackend(port[ip], ip, TRUE)
  /\ UNCHANGED <<port, started, stranded>>

RebindAdd(ip, p) ==
  /\ p # port[ip]
  /\ Goto(ip, "moved", "readding")
  /\ AddBackend(p, ip)
  /\ UNCHANGED <<port, started, stranded>>

\* The generations registered on a port.
GensOn(p) == {backends[p][i].gen : i \in DOMAIN backends[p]}

\* worker.reap of a standalone server whose row is gone: the server is down, or was lost
\* to a failed rebind, and its worker unmanages the port it last registered and ends.
\* Nobody asks whether the port was given to another server meanwhile.
ReapUnmanage(ip) ==
  /\ stage[ip] \in {"down", "lost"} /\ port[ip] # NoPort
  /\ Unmanage(port[ip])
  /\ stranded' = stranded \cup GensOn(port[ip])
  /\ port' = [port EXCEPT ![ip] = NoPort]
  /\ UNCHANGED <<stage, started>>

LNext ==
  \/ \E ip \in IPs :
       \/ BringUpFlush(ip) \/ BringUpStart(ip)
       \/ \E p \in Ports : BringUpAdd(ip, p) \/ RebindAdd(ip, p)
       \/ AddReturns(ip) \/ AddReturnsError(ip)
       \/ TeardownRemove(ip) \/ RemoveReturns(ip) \/ TeardownFlush(ip) \/ TeardownStop(ip)
       \/ RebindRemove(ip)
       \/ ReapUnmanage(ip)
  \/ Traffic /\ UNCHANGED <<workerVars, stranded>>

LSpec == LInit /\ [][LNext]_lvars

(***************************************************************************)
(* Fairness: time passes and the sweep's ticker fires; nothing is assumed  *)
(* of the workers or the clients.                                          *)
(***************************************************************************)
LFairSpec == LSpec /\ WF_lvars(Tick /\ UNCHANGED <<workerVars, stranded>>)
                   /\ WF_lvars(Sweep /\ UNCHANGED <<workerVars, stranded>>)
                   /\ WF_lvars(Reinject /\ UNCHANGED <<workerVars, stranded>>)

-----------------------------------------------------------------------------
\* After Remove -> Flush no flow leads to the server, and none does until it is
\* added again: neither a packet routed before the removal nor one that was in
\* flight during the flush may open a flow to it.  The exception is a registration
\* whose port a reap unmanaged: RemoveBackend finds no pool and leaves its element.
DrainedMeansQuiet ==
  \A ip \in IPs : stage[ip] \in {"drained", "down", "flushed", "started"} =>
    \A f \in Flows : conntrack[f].nat = ip => conntrack[f].mark \in stranded

\* A flow is only ever forwarded to the instance it was opened to: none survives
\* from before the last Start of its backend ("so a same-IP restart is
\* distinguishable from the instance a client was already talking to"), with the same
\* exception.
FlowOnlyToItsInstance ==
  \A f \in Flows : \A ip \in IPs :
    conntrack[f].nat = ip /\ stage[ip] \in {"started", "adding", "up", "moving", "moved",
                                            "readding", "lost"}
      => conntrack[f].mark > started[ip] \/ conntrack[f].mark \in stranded

(***************************************************************************)
(* The inductive invariant behind these two (proved in ProxyProofs),       *)
(* where every deletion of an element or of a flow succeeds.               *)
(***************************************************************************)
DeletesSucceed == NetlinkFaults \cap {"delete", "flush"} = {}

Registered(p, ip, g) ==
  \E i \in DOMAIN backends[p] : backends[p][i].ip = ip /\ backends[p][i].gen = g

\* The entrypoint in progress is its worker's, and what it is about to install or has
\* found empty is so still.
CallOK ==
  \A o \in op :
    /\ o.kind = "add" =>
         /\ stage[o.ip] \in {"adding", "readding"} /\ o.gen > started[o.ip]
         /\ Registered(o.port, o.ip, o.gen) \/ o.gen \in stranded
    /\ o.kind = "remove" => stage[o.ip] \in {"removing", "moving"}
    /\ o.unbind => backends[o.port] = <<>>

\* An element leads to the instance that is up, its removal is in progress, or nobody
\* can remove it any more.
ElementOK(ip) ==
  \A g \in Gen \ stranded : elements[g] = ip =>
    /\ \/ stage[ip] = "up" /\ Registered(port[ip], ip, g)
       \/ stage[ip] \in {"removing", "moving"} /\ \E o \in op : o.ip = ip /\ o.old = g
    /\ g > started[ip]

\* A server that is not up has no flow, and one that is none of an earlier instance.
FlowOK(ip) ==
  \A f \in Flows : conntrack[f].nat = ip /\ conntrack[f].mark \notin stranded =>
    /\ stage[ip] \notin {"drained", "down", "flushed", "started", "adding"}
    /\ stage[ip] \in {"up", "moving", "moved", "readding", "lost"} =>
         conntrack[f].mark > started[ip]

LifecycleInv ==
  CallOK /\ \A ip \in IPs : started[ip] <= gen /\ ElementOK(ip) /\ FlowOK(ip)

\* A session is an orphan if no pool holds its backend under its generation.
Orphan(c) ==
  /\ HasSession(c)
  /\ \A p \in Ports : genOf(backends[p], sessions[c].backend) # sessions[c].gen

\* An orphan ages out from its last accepted packet however often it is dropped:
\* its client is not locked out for ever.
OrphansAgeOut == \A c \in Clients : Orphan(c) ~> ~Orphan(c)

\* proxy.go:188, "MUST perform these in order: Remove Backend -> Flush Conntrack", for
\* every server: after the two no flow leads to it.
DrainedIsQuiet ==
  \A ip \in IPs : stage[ip] = "drained" => \A f \in Flows : conntrack[f].nat # ip

\* nftables.go:181, "Go never stamps a removed backend's mark anyway".
StampedIsRegistered ==
  \A k \in inflight : \E p \in Ports : \E i \in DOMAIN backends[p] :
    backends[p][i].gen = k.mark

=============================================================================
