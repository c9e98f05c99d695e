------------------------------- MODULE Leases -------------------------------
(***************************************************************************)
(* Who owns a bridge address.  A server's row leases it: createServer      *)
(* takes the lowest address no row has (api/servers.go), and deleting the  *)
(* row returns it at once.  The worker uses it: it starts a container on   *)
(* the address it read and remembers it for its teardown                   *)
(* (fleet/worker.go), which comes after the row is gone.  Docker refuses a *)
(* second running container on an address; the proxy knows a backend by    *)
(* nothing but its address.                                                *)
(*                                                                         *)
(* The servers are members of one cluster, whose port does not change.     *)
(* The handlers that read the database before they write it are two steps, *)
(* and run concurrently.  Of a worker there is what decides about          *)
(* addresses: a pass between its calls, and whether it holds an instance.  *)
(* What bringUp reads of a server it reads at once here; Scopes takes that *)
(* apart.                                                                  *)
(* The phases that are not live are one here, the backoff, the contexts    *)
(* and the manager's shutdown are left to Fleet.                           *)
(***************************************************************************)
EXTENDS Naturals, FiniteSetsExt

CONSTANTS
  Names,    \* server names
  IPs,      \* the addresses ipAllocMin .. ipAllocMax
  NoIP,     \* an address never set
  Defs,     \* what a server is created with: plugins, configs, env
  NoDef,    \* the definition of a worker that never started an instance
  Handlers, \* the requests the API can have in flight
  None,     \* no row, no request, no container
  Faults    \* what may go wrong: "start", "add", "stop" fail

ASSUME LeasesAssumption ==
  /\ IPs \subseteq Nat /\ NoIP \notin IPs /\ NoDef \notin Defs
  /\ Faults \subseteq {"start", "add", "stop"}

VARIABLES
  rows,       \* csfleet_servers: name -> [ip, desired, def] or None
  req,        \* a handler between its read and its write, or None
  wk,         \* name -> its worker
  container,  \* name -> [ip, running] or None
  reg,        \* the addresses registered with the proxy on the cluster's port
  lost        \* history: addresses on which a container died by itself and whose
              \* registration may since have gone to, or with, another worker

vars == <<rows, req, wk, container, reg, lost>>

Desired == {"running", "stopped"}
Row == [ip : IPs, desired : Desired, def : Defs]
Request == [kind : {"create", "update"}, name : Names, row : Row]
Container == [ip : IPs, running : BOOLEAN]
ASSUME NoneAssumption == None \notin Container

\* "none" is no worker; ip and def are of the instance, or of the one being started;
\* live is w.inst # nil; exit is a teardown after which the worker ends.
Worker == [pc : {"none", "select", "start", "add", "remove", "stop"},
           ip : IPs \cup {NoIP}, def : Defs \cup {NoDef},
           live : BOOLEAN, exit : BOOLEAN]
NoWorker == [pc |-> "none", ip |-> NoIP, def |-> NoDef, live |-> FALSE, exit |-> FALSE]

LeasesTypeOK ==
  /\ rows \in [Names -> Row \cup {None}]
  /\ req \in [Handlers -> Request \cup {None}]
  /\ wk \in [Names -> Worker]
  /\ container \in [Names -> Container \cup {None}]
  /\ reg \in SUBSET IPs /\ lost \in SUBSET IPs

Init ==
  /\ rows = [n \in Names |-> None]
  /\ req = [h \in Handlers |-> None]
  /\ wk = [n \in Names |-> NoWorker]
  /\ container = [n \in Names |-> None]
  /\ reg = {} /\ lost = {}

-----------------------------------------------------------------------------
(* The API.                                                                *)

Leased == {rows[n].ip : n \in {m \in Names : rows[m] # None}}
FreeIPs == IPs \ Leased

\* createServer up to the insert: allocateIP lists the rows and takes the lowest
\* address none has.  With no address left the request is refused.
CreateAllocate(h, n, d) ==
  /\ req[h] = None /\ FreeIPs # {}
  /\ req' = [req EXCEPT ![h] = [kind |-> "create", name |-> n,
               row |-> [ip |-> Min(FreeIPs), desired |-> "running", def |-> d]]]
  /\ UNCHANGED <<rows, wk, container, reg, lost>>

\* UNIQUE (ip), for a row of the given name.
UniqueIP(n, ip) == \A m \in Names \ {n} : rows[m] # None => rows[m].ip # ip

\* The insert is refused where the name or the address has a row by now.
CreateInsert(h) ==
  /\ req[h] # None /\ req[h].kind = "create"
  /\ LET r == req[h] IN
       rows' = IF rows[r.name] = None /\ UniqueIP(r.name, r.row.ip)
               THEN [rows EXCEPT ![r.name] = r.row] ELSE rows
  /\ req' = [req EXCEPT ![h] = None]
  /\ UNCHANGED <<wk, container, reg, lost>>

\* updateServer up to the UPDATE: the row it read, with the desired state asked for.
UpdateRead(h, n, desired) ==
  /\ req[h] = None /\ rows[n] # None
  /\ req' = [req EXCEPT ![h] = [kind |-> "update", name |-> n,
               row |-> [rows[n] EXCEPT !.desired = desired]]]
  /\ UNCHANGED <<rows, wk, container, reg, lost>>

\* The UPDATE writes the address of the row it read into the row of that name, if
\* there is one; the definition is not among its columns.
UpdateWrite(h) ==
  /\ req[h] # None /\ req[h].kind = "update"
  /\ LET r == req[h] IN
       rows' = IF rows[r.name] # None /\ UniqueIP(r.name, r.row.ip)
               THEN [rows EXCEPT ![r.name].ip = r.row.ip,
                                 ![r.name].desired = r.row.desired]
               ELSE rows
  /\ req' = [req EXCEPT ![h] = None]
  /\ UNCHANGED <<wk, container, reg, lost>>

\* startServer and stopServer.
SetDesired(n, desired) ==
  /\ rows[n] # None /\ rows[n].desired # desired
  /\ rows' = [rows EXCEPT ![n].desired = desired]
  /\ UNCHANGED <<req, wk, container, reg, lost>>

DeleteServer(n) ==
  /\ rows[n] # None
  /\ rows' = [rows EXCEPT ![n] = None]
  /\ UNCHANGED <<req, wk, container, reg, lost>>

-----------------------------------------------------------------------------
(* A worker's pass, up to its first call.                                  *)

Step(n, r) == wk' = [wk EXCEPT ![n] = r]
RunningAt(n, ip) == container[n] # None /\ container[n].running /\ container[n].ip = ip
AddressInUse(n, ip) == \E m \in Names \ {n} : RunningAt(m, ip)
Up(n) == container[n] # None /\ container[n].running

Dispatch(n) ==
  /\ wk[n].pc = "none" /\ rows[n] # None
  /\ Step(n, [NoWorker EXCEPT !.pc = "select"])
  /\ UNCHANGED <<rows, req, container, reg, lost>>

\* The row is gone: reap.
ReconcileReap(n) ==
  /\ wk[n].pc = "select" /\ rows[n] = None
  /\ Step(n, IF wk[n].live THEN [wk[n] EXCEPT !.pc = "remove", !.exit = TRUE] ELSE NoWorker)
  /\ UNCHANGED <<rows, req, container, reg, lost>>

\* The container is gone (handleCrash), or the server is to be stopped (bringDown).
ReconcileDown(n) ==
  /\ wk[n].pc = "select" /\ rows[n] # None /\ wk[n].live
  /\ ~Up(n) \/ rows[n].desired = "stopped"
  /\ Step(n, [wk[n] EXCEPT !.pc = "remove"])
  /\ UNCHANGED <<rows, req, container, reg, lost>>

\* bringUp reads the address and the definition the instance is made of.
ReconcileUp(n) ==
  /\ wk[n].pc = "select" /\ rows[n] # None /\ ~wk[n].live
  /\ rows[n].desired = "running"
  /\ Step(n, [wk[n] EXCEPT !.pc = "start", !.ip = rows[n].ip, !.def = rows[n].def])
  /\ UNCHANGED <<rows, req, container, reg, lost>>

-----------------------------------------------------------------------------
(* The calls of bringUp and teardownLive.                                  *)

Idle(r) == [r EXCEPT !.pc = "select", !.ip = NoIP, !.def = NoDef]

\* server.Start removes the container of its name, creates and starts the new one.
StartOK(n) ==
  /\ wk[n].pc = "start" /\ ~AddressInUse(n, wk[n].ip)
  /\ container' = [container EXCEPT ![n] = [ip |-> wk[n].ip, running |-> TRUE]]
  /\ Step(n, [wk[n] EXCEPT !.pc = "add"])
  /\ UNCHANGED <<rows, req, reg, lost>>

\* Docker refuses the address, or the start fails before or after the old container
\* of the name was removed.
StartError(n) ==
  /\ wk[n].pc = "start"
  /\ \E c \in {None} \cup (IF "start" \in Faults THEN {container[n]} ELSE {}) :
       container' = [container EXCEPT ![n] = c]
  /\ AddressInUse(n, wk[n].ip) \/ "start" \in Faults
  /\ Step(n, Idle(wk[n]))
  /\ UNCHANGED <<rows, req, reg, lost>>

\* The history of an address starts anew once a worker gives it up that is its only holder.
GiveUp(n) ==
  lost' = IF \E m \in Names \ {n} : (wk[m].live \/ wk[m].pc = "add") /\ wk[m].ip = wk[n].ip
          THEN lost ELSE lost \ {wk[n].ip}

\* AddBackend of an address that is registered only renews its registration.
AddOK(n) ==
  /\ wk[n].pc = "add"
  /\ reg' = reg \cup {wk[n].ip}
  /\ Step(n, [wk[n] EXCEPT !.pc = "select", !.live = TRUE])
  /\ UNCHANGED <<rows, req, container, lost>>

AddError(n) ==
  /\ wk[n].pc = "add" /\ "add" \in Faults
  /\ reg' = reg \ {wk[n].ip}
  /\ container' = [container EXCEPT ![n] = None]
  /\ Step(n, Idle(wk[n])) /\ GiveUp(n)
  /\ UNCHANGED <<rows, req>>

\* Mutant: the teardown stops the container first.
TeardownStopsFirst(n) ==
  /\ wk[n].pc = "remove"
  /\ IF container[n] # None
     THEN /\ container' = [container EXCEPT ![n] = None]
          /\ UNCHANGED <<wk, reg>>
     ELSE /\ reg' = reg \ {wk[n].ip}
          /\ Step(n, [wk[n] EXCEPT !.live = FALSE, !.pc = "stop"])
          /\ UNCHANGED container
  /\ UNCHANGED <<rows, req, lost>>

\* Mutant: the teardown removes the address of the row, not of the instance.
TeardownRemovesRows(n) ==
  /\ wk[n].pc = "remove"
  /\ reg' = reg \ {IF rows[n] = None THEN wk[n].ip ELSE rows[n].ip}
  /\ Step(n, [wk[n] EXCEPT !.live = FALSE, !.pc = "stop"]) /\ GiveUp(n)
  /\ UNCHANGED <<rows, req, container>>

TeardownRemove(n) ==
  /\ wk[n].pc = "remove"
  /\ reg' = reg \ {wk[n].ip}
  /\ Step(n, [wk[n] EXCEPT !.live = FALSE, !.pc = "stop"]) /\ GiveUp(n)
  /\ UNCHANGED <<rows, req, container>>

\* Mutant: the container of a deleted server is left to the next start of its name.
TeardownStopUnlessExit(n) ==
  /\ wk[n].pc = "stop"
  /\ container' = IF wk[n].exit THEN container ELSE [container EXCEPT ![n] = None]
  /\ Step(n, IF wk[n].exit THEN NoWorker ELSE Idle(wk[n]))
  /\ UNCHANGED <<rows, req, reg, lost>>

\* Instance.Stop ignores docker's errors.
TeardownStop(n) ==
  /\ wk[n].pc = "stop"
  /\ \E c \in {None} \cup (IF "stop" \in Faults THEN {container[n]} ELSE {}) :
       container' = [container EXCEPT ![n] = c]
  /\ Step(n, IF wk[n].exit THEN NoWorker ELSE Idle(wk[n]))
  /\ UNCHANGED <<rows, req, reg, lost>>

\* A container dies by itself: docker frees its address at once.
ContainerDies(n) ==
  /\ Up(n)
  /\ container' = [container EXCEPT ![n].running = FALSE]
  /\ lost' = lost \cup {container[n].ip}
  /\ UNCHANGED <<rows, req, wk, reg>>

-----------------------------------------------------------------------------
API ==
  \/ \E h \in Handlers, n \in Names :
       \/ \E d \in Defs : CreateAllocate(h, n, d)
       \/ \E desired \in Desired : UpdateRead(h, n, desired)
  \/ \E h \in Handlers : CreateInsert(h) \/ UpdateWrite(h)
  \/ \E n \in Names : DeleteServer(n) \/ \E desired \in Desired : SetDesired(n, desired)

Reconcile(n) == ReconcileReap(n) \/ ReconcileDown(n) \/ ReconcileUp(n)
Continue(n) ==
  \/ StartOK(n) \/ StartError(n) \/ AddOK(n) \/ AddError(n)
  \/ TeardownRemove(n) \/ TeardownStop(n)

Next ==
  \/ API
  \/ \E n \in Names : Dispatch(n) \/ Reconcile(n) \/ Continue(n) \/ ContainerDies(n)

Spec == Init /\ [][Next]_vars

\* Workers and manager go on (Fleet explains why), and a start that can succeed and is
\* tried again and again does.  Nothing is assumed of the API or the containers.
FairSpec ==
  /\ Spec
  /\ \A n \in Names : /\ WF_vars(Dispatch(n)) /\ WF_vars(Reconcile(n))
                      /\ WF_vars(Continue(n)) /\ SF_vars(StartOK(n))

-----------------------------------------------------------------------------
(* Properties.                                                             *)

\* Two workers never hold instances on one address, although the address of a
\* deleted server goes to the next one before its worker has torn it down: the
\* teardown gives up the registration before the container, and docker gives the
\* address only to one running container.  The exception is an address on which a
\* container died by itself.
OneHolder ==
  \A n, m \in Names :
    n # m /\ wk[n].live /\ wk[m].live /\ wk[n].ip = wk[m].ip => wk[n].ip \in lost

\* A server its worker holds is registered with the proxy: no reap, failed start or
\* stop of a former or later owner of the address takes the registration away, with
\* the same exception.
HeldIsRegistered ==
  \A n \in Names : wk[n].live /\ wk[n].pc # "remove" => wk[n].ip \in reg \cup lost

\* A worker that holds an instance on another address than its row's: the row was
\* deleted and created again, or written back, between two passes.
Stale(n) == wk[n].live /\ rows[n] # None /\ rows[n].ip # wk[n].ip

\* A server that is wanted gets the address its row leases, whoever had it before, or
\* stops being wanted, or a stale worker keeps it from its address.
LeaseIsServed ==
  \A n \in Names :
    (rows[n] # None /\ rows[n].desired = "running") ~>
      \/ rows[n] = None \/ rows[n].desired = "stopped"
      \/ RunningAt(n, rows[n].ip)
      \/ Stale(n) \/ \E m \in Names : Stale(m) /\ wk[m].ip = rows[n].ip

(***************************************************************************)
(* The inductive invariant behind OneHolder and HeldIsRegistered (proved   *)
(* in LeasesProofs).                                                       *)
(***************************************************************************)

\* The worker has a container on wk[n].ip, as far as it knows.
Holding(n) == wk[n].live \/ wk[n].pc = "add"

\* Between which calls a worker has an instance, and that it then has an address.
PassInv ==
  \A n \in Names :
    /\ wk[n].pc \in {"none", "start", "add", "stop"} => ~wk[n].live
    /\ wk[n].pc = "remove" => wk[n].live
    /\ Holding(n) \/ wk[n].pc = "start" => wk[n].ip \in IPs

\* Docker: an address has one running container.
OneRunning ==
  \A n, m \in Names : n # m /\ Up(n) /\ Up(m) => container[n].ip # container[m].ip

\* A worker's container runs on the worker's address, or has died there.
HoldingIsUp ==
  \A n \in Names : Holding(n) => RunningAt(n, wk[n].ip) \/ wk[n].ip \in lost

LeaseInv == PassInv /\ OneRunning /\ HoldingIsUp /\ HeldIsRegistered

(***************************************************************************)
(* The exceptions can happen, and a claim of the source with them (see the *)
(* README): TLC refutes these.                                             *)
(***************************************************************************)

\* OneHolder and HeldIsRegistered without their exception.
AlwaysRegistered ==
  \A n \in Names : wk[n].live /\ wk[n].pc # "remove" => wk[n].ip \in reg

NeverStale == \A n \in Names : ~Stale(n)

\* servers.go:144, "Change them by recreating the server": a live server whose row has
\* been created anew with other plugins, configs or env ends up running those.
Outdated(n) == wk[n].live /\ rows[n] # None /\ wk[n].def # rows[n].def
RecreateTakesEffect == \A n \in Names : Outdated(n) ~> ~Outdated(n)

=============================================================================
