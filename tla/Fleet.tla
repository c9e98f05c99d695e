------------------------------- MODULE Fleet -------------------------------
(***************************************************************************)
(* The fleet manager (orchestration/fleet): one worker per server row      *)
(* drives its server towards the desired state in the database, through    *)
(* the docker daemon and the proxy, while the API changes rows, containers *)
(* die and the process is told to shut down.                               *)
(*                                                                         *)
(* A worker's reconcile pass is cut wherever another actor can run: at     *)
(* every call to docker and to the proxy.  pc says which call is next.     *)
(* The proxy is seen as its router's table: the managed ports and the      *)
(* (port, server) pairs registered; Proxy models what is below.  A server  *)
(* is identified with its bridge address.                                  *)
(*                                                                         *)
(* Wake-ups (Nudge, docker events, backoff timers) only make a pass run    *)
(* sooner than the worker's own ticker would: a pass may run whenever the  *)
(* worker is in its select, and so may a discovery pass of the manager.    *)
(***************************************************************************)
EXTENDS Naturals, FiniteSets

CONSTANTS
  Names,        \* server names
  Ports,        \* external ports
  Homes,        \* server -> the homes the API may give it: ports, or Clustered
  Clustered,    \* the home of a server that is a member of the cluster
  ClusterPorts, \* the ports the API may give the cluster
  NoPort,       \* no port: a worker that never registered, an absent cluster
  NoRow,        \* no database row
  Faults,       \* what may go wrong: "start", "inspect", "add", "stop" fail, a "late" start
  Limits,       \* lifecycle limits in use: "stop" (stop_after_hrs), "restart"
  MayShutDown   \* whether the process may be told to shut down

ASSUME HomesAssumption == Homes \in [Names -> SUBSET (Ports \cup {Clustered})]
ASSUME PortsAssumption == ClusterPorts \subseteq Ports /\ Clustered \notin Ports
                          /\ NoPort \notin Ports \cup {Clustered}
ASSUME FaultsAssumption == Faults \subseteq {"start", "inspect", "add", "stop", "late"}
ASSUME LimitsAssumption == Limits \subseteq {"stop", "restart"} /\ MayShutDown \in BOOLEAN

VARIABLES
  rows,         \* csfleet_servers: server -> [home, desired] or NoRow
  clusterPort,  \* csfleet_clusters: the port of the one cluster, or NoPort
  w,            \* server -> its worker
  container,    \* server -> "none", "running", or "exited" (not running)
  managed,      \* the ports the proxy manages
  reg,          \* <<port, server>> pairs registered with the proxy
  shutdown,     \* the run context is cancelled
  waiting       \* the manager left its loop and waits for the workers

dbVars == <<rows, clusterPort>>
proxyVars == <<managed, reg>>
mgrVars == <<shutdown, waiting>>
vars == <<rows, clusterPort, w, container, managed, reg, shutdown, waiting>>

Desired == {"running", "stopped"}
Row == [home : Ports \cup {Clustered}, desired : Desired]
ASSUME NoRowAssumption == NoRow \notin Row

Phases == {"pending", "starting", "running", "stopping", "stopped", "crashed"}
PCs == {"select", "start", "add", "remove", "stop", "rebindRemove", "rebindAdd",
        "lifecycle", "unmanage"}

(***************************************************************************)
(* target and want are the local variables of a reconcile pass that its    *)
(* later calls use: the effective port and desired state it read; then is  *)
(* what follows the teardown it is in.  Between passes they are reset.     *)
(* backingOff is only read in phase crashed, and FALSE in the others.      *)
(***************************************************************************)
Worker == [alive : BOOLEAN, pc : PCs, then : {"select", "crash", "unmanage", "exit"},
           phase : Phases, inst : BOOLEAN, port : Ports \cup {NoPort},
           standalone : BOOLEAN, cancelled : BOOLEAN, backingOff : BOOLEAN,
           target : Ports \cup {NoPort}, want : Desired]

FleetTypeOK ==
  /\ rows \in [Names -> Row \cup {NoRow}]
  /\ clusterPort \in Ports \cup {NoPort}
  /\ w \in [Names -> Worker]
  /\ container \in [Names -> {"none", "running", "exited"}]
  /\ managed \in SUBSET Ports
  /\ reg \in SUBSET (Ports \X Names)
  /\ shutdown \in BOOLEAN /\ waiting \in BOOLEAN

\* Manager.spawn: a worker whose context is cancelled or not; "alive" is its place
\* in the workers map.
Spawned(alive, cancelled) ==
  [alive |-> alive, pc |-> "select", then |-> "select", phase |-> "pending",
   inst |-> FALSE, port |-> NoPort, standalone |-> FALSE, cancelled |-> cancelled,
   backingOff |-> FALSE, target |-> NoPort, want |-> "stopped"]
NoWorker == Spawned(FALSE, FALSE)

Init ==
  /\ rows = [n \in Names |-> NoRow]
  /\ clusterPort = NoPort
  /\ w = [n \in Names |-> NoWorker]
  /\ container = [n \in Names |-> "none"]
  /\ managed = {}
  /\ reg = {}
  /\ shutdown = FALSE
  /\ waiting = FALSE

-----------------------------------------------------------------------------
(* The database, as the API writes it.  The constraints are the schema's.  *)

PortFree(p) == clusterPort # p /\ \A n \in Names : rows[n] # NoRow => rows[n].home # p

\* UNIQUE and the port triggers for a port, the foreign key for a member.
Admissible(home) == IF home = Clustered THEN clusterPort # NoPort ELSE PortFree(home)

CreateServer(n, home, desired) ==
  /\ rows[n] = NoRow /\ home \in Homes[n] /\ Admissible(home)
  /\ rows' = [rows EXCEPT ![n] = [home |-> home, desired |-> desired]]
  /\ UNCHANGED <<clusterPort, w, container, proxyVars, mgrVars>>

\* updateServer: only a standalone server's port can change, to another one.  The
\* handler's read and write are one step here; FleetEdits takes them apart.
UpdateServer(n, home) ==
  /\ rows[n] # NoRow /\ rows[n].home # Clustered
  /\ home \in Homes[n] \ {Clustered, rows[n].home} /\ Admissible(home)
  /\ rows' = [rows EXCEPT ![n].home = home]
  /\ UNCHANGED <<clusterPort, w, container, proxyVars, mgrVars>>

\* setDesired: the start and stop buttons.
SetDesired(n, desired) ==
  /\ rows[n] # NoRow /\ rows[n].desired # desired
  /\ rows' = [rows EXCEPT ![n].desired = desired]
  /\ UNCHANGED <<clusterPort, w, container, proxyVars, mgrVars>>

DeleteServer(n) ==
  /\ rows[n] # NoRow
  /\ rows' = [rows EXCEPT ![n] = NoRow]
  /\ UNCHANGED <<clusterPort, w, container, proxyVars, mgrVars>>

\* createCluster and updateCluster: the cluster's port.
SetCluster(p) ==
  /\ p \in ClusterPorts /\ PortFree(p)
  /\ clusterPort' = p
  /\ UNCHANGED <<rows, w, container, proxyVars, mgrVars>>

\* deleteCluster: the foreign key refuses it while there are members.
DeleteCluster ==
  /\ clusterPort # NoPort
  /\ \A n \in Names : rows[n] # NoRow => rows[n].home # Clustered
  /\ clusterPort' = NoPort
  /\ UNCHANGED <<rows, w, container, proxyVars, mgrVars>>

\* ResolveServer: the external port a row stands for, and whether it is its own.  (Ports are
\* those of rows that fit in 16 bits; uint16() would cut off any other.)
EffPort(n) == IF rows[n].home = Clustered THEN clusterPort ELSE rows[n].home
Standalone(n) == rows[n].home # Clustered

-----------------------------------------------------------------------------
(* The proxy's entrypoints, on its table.                                  *)

AddBackendOK(p, n) ==
  /\ managed' = managed \cup {p}
  /\ reg' = reg \cup {<<p, n>>}

\* A failed AddBackend takes the backend out again but leaves the port managed.
AddBackendError(p, n) ==
  /\ managed' = managed \cup {p}
  /\ reg' = reg \ {<<p, n>>}

RemoveBackendDoNotUnbind(p, n) ==
  /\ reg' = reg \ {<<p, n>>}
  /\ UNCHANGED managed

\* Mutant: the port is unmanaged whoever else is registered on it.
RemoveBackendUnbind(p, n) ==
  /\ reg' = reg \ {<<p, n>>}
  /\ managed' = managed \ {p}

RemoveBackendMaybeUnbind(p, n) ==
  /\ reg' = reg \ {<<p, n>>}
  /\ managed' = IF \E m \in Names : <<p, m>> \in reg' THEN managed ELSE managed \ {p}

Unmanage(p) ==
  /\ managed' = managed \ {p}
  /\ reg' = {r \in reg : r[1] # p}

-----------------------------------------------------------------------------
(* worker.reconcile: the pass up to its first call to docker or the proxy. *)

InSelect(n) == w[n].alive /\ w[n].pc = "select"

\* A pass that found the row, with the fields of the worker it sets.
PassOn(n) == InSelect(n) /\ rows[n] # NoRow
Resolved(n) == [w[n] EXCEPT !.standalone = Standalone(n)]

\* The end of a pass.
Done(r) == [r EXCEPT !.pc = "select", !.then = "select", !.target = NoPort,
                     !.want = "stopped"]
Step(n, r) == w' = [w EXCEPT ![n] = r]

\* worker.bringDown, from a pass or from the run loop, up to the proxy call.
BringDown(r, then) == [r EXCEPT !.phase = "stopping", !.pc = "remove", !.then = then]

\* containerAlive asks docker with the worker's context: an error is "not alive".
LooksAlive(n) == container[n] = "running" /\ ~w[n].cancelled
LooksDead(n) == container[n] # "running" \/ w[n].cancelled \/ "inspect" \in Faults

\* The row is gone: reap.
ReconcileReap(n) ==
  /\ InSelect(n) /\ rows[n] = NoRow
  /\ Step(n, IF w[n].phase = "running" THEN BringDown(w[n], "unmanage")
                                       ELSE [w[n] EXCEPT !.pc = "unmanage"])
  /\ UNCHANGED <<dbVars, container, proxyVars, mgrVars>>

\* The container is not there any more: handleCrash.
ReconcileCrash(n) ==
  /\ PassOn(n) /\ w[n].phase = "running" /\ LooksDead(n)
  /\ Step(n, [Resolved(n) EXCEPT !.pc = "remove", !.then = "crash",
                                 !.want = rows[n].desired])
  /\ UNCHANGED <<dbVars, container, proxyVars, mgrVars>>

\* Mutant: a port change of a running server is not noticed.
ReconcileRunningNoRebind(n) ==
  /\ PassOn(n) /\ w[n].phase = "running" /\ LooksAlive(n)
  /\ rows[n].desired = "running"
  /\ Step(n, [Resolved(n) EXCEPT !.target = EffPort(n), !.pc = "lifecycle"])
  /\ UNCHANGED <<dbVars, container, proxyVars, mgrVars>>

\* Running as desired: rebind if the port changed, then the lifecycle limits.
ReconcileRunning(n) ==
  /\ PassOn(n) /\ w[n].phase = "running" /\ LooksAlive(n)
  /\ rows[n].desired = "running"
  /\ Step(n, [Resolved(n) EXCEPT !.target = EffPort(n),
       !.pc = IF w[n].port # EffPort(n) THEN "rebindRemove" ELSE "lifecycle"])
  /\ UNCHANGED <<dbVars, container, proxyVars, mgrVars>>

\* Mutant: a crashed server is not retried.
ReconcileUpOnce(n) ==
  /\ PassOn(n) /\ rows[n].desired = "running"
  /\ w[n].phase \in {"pending", "stopped"}
  /\ Step(n, [Resolved(n) EXCEPT !.phase = "starting", !.pc = "start",
                                 !.target = EffPort(n)])
  /\ UNCHANGED <<dbVars, container, proxyVars, mgrVars>>

\* Desired running and not live: bringUp, unless a backoff is running.
ReconcileUp(n) ==
  /\ PassOn(n) /\ rows[n].desired = "running"
  /\ w[n].phase \in {"pending", "stopped", "crashed"}
  /\ ~(w[n].phase = "crashed" /\ w[n].backingOff)
  /\ Step(n, [Resolved(n) EXCEPT !.phase = "starting", !.pc = "start",
                                 !.target = EffPort(n)])
  /\ UNCHANGED <<dbVars, container, proxyVars, mgrVars>>

\* Mutant: the phase is set without a bringDown.
ReconcileDownPhaseOnly(n) ==
  /\ PassOn(n) /\ rows[n].desired = "stopped"
  /\ w[n].phase = "running" /\ LooksAlive(n)
  /\ Step(n, Done([Resolved(n) EXCEPT !.phase = "stopped"]))
  /\ UNCHANGED <<dbVars, container, proxyVars, mgrVars>>

\* Desired stopped and live: bringDown.
ReconcileDown(n) ==
  /\ PassOn(n) /\ rows[n].desired = "stopped"
  /\ w[n].phase = "running" /\ LooksAlive(n)
  /\ Step(n, BringDown(Resolved(n), "select"))
  /\ UNCHANGED <<dbVars, container, proxyVars, mgrVars>>

\* Desired stopped and not live: there is only the phase to set.
ReconcileSettle(n) ==
  /\ PassOn(n) /\ rows[n].desired = "stopped"
  /\ w[n].phase \in {"pending", "crashed"}
  /\ Step(n, Done([Resolved(n) EXCEPT !.phase = "stopped", !.backingOff = FALSE]))
  /\ UNCHANGED <<dbVars, container, proxyVars, mgrVars>>

\* Nothing to do, but the worker remembers whether the row is standalone.
ReconcileIdle(n) ==
  /\ PassOn(n)
  /\ \/ rows[n].desired = "stopped" /\ w[n].phase = "stopped"
     \/ rows[n].desired = "running" /\ w[n].phase = "crashed" /\ w[n].backingOff
  /\ Step(n, Done(Resolved(n)))
  /\ UNCHANGED <<dbVars, container, proxyVars, mgrVars>>

-----------------------------------------------------------------------------
(* worker.bringUp *)

\* markCrashed, the end of every failed pass: a timer runs from here.
Crashed(r) == [r EXCEPT !.phase = "crashed", !.backingOff = TRUE]

\* server.Start replaces any container of the same name.
StartOK(n) ==
  /\ w[n].pc = "start" /\ ~w[n].cancelled
  /\ container' = [container EXCEPT ![n] = "running"]
  /\ Step(n, [w[n] EXCEPT !.pc = "add"])
  /\ UNCHANGED <<dbVars, proxyVars, mgrVars>>

\* The flush, a read of the database or server.Start fails: before it removed the
\* old container, after, or between create and start with a clean-up that fails too,
\* as it must when the context is cancelled.  With fault "late", docker carries out a
\* start request whose context was cancelled while it waited for the answer.
StartError(n) ==
  /\ w[n].pc = "start" /\ ("start" \in Faults \/ w[n].cancelled)
  /\ \E c \in {container[n], "none", "exited"}
             \cup (IF w[n].cancelled /\ "late" \in Faults THEN {"running"} ELSE {}) :
       container' = [container EXCEPT ![n] = c]
  /\ Step(n, Done(Crashed(w[n])))
  /\ UNCHANGED <<dbVars, proxyVars, mgrVars>>

AddOK(n) ==
  /\ w[n].pc = "add"
  /\ AddBackendOK(w[n].target, n)
  /\ Step(n, Done([w[n] EXCEPT !.phase = "running", !.inst = TRUE,
                               !.port = w[n].target, !.backingOff = FALSE]))
  /\ UNCHANGED <<dbVars, container, mgrVars>>

\* AddBackend fails: the new container is stopped again, as far as docker does it.
AddError(n) ==
  /\ w[n].pc = "add" /\ "add" \in Faults
  /\ AddBackendError(w[n].target, n)
  /\ \E c \in {"none"} \cup (IF "stop" \in Faults THEN {container[n]} ELSE {}) :
       container' = [container EXCEPT ![n] = c]
  /\ Step(n, Done(Crashed(w[n])))
  /\ UNCHANGED <<dbVars, mgrVars>>

-----------------------------------------------------------------------------
(* worker.teardownLive, shared by bringDown and handleCrash.               *)

TeardownRemove(n) ==
  /\ w[n].pc = "remove"
  /\ RemoveBackendDoNotUnbind(w[n].port, n)
  /\ Step(n, [w[n] EXCEPT !.inst = FALSE, !.pc = "stop"])
  /\ UNCHANGED <<dbVars, container, mgrVars>>

\* What the worker does after the teardown: bringDown sets the phase, handleCrash
\* marks the crash (and a pass that wants the server stopped then settles it).
AfterTeardown(r) ==
  CASE r.then = "select"   -> Done([r EXCEPT !.phase = "stopped"])
    [] r.then = "crash"    -> IF r.want = "running" THEN Done(Crashed(r))
                              ELSE Done([r EXCEPT !.phase = "stopped"])
    [] r.then = "unmanage" -> [r EXCEPT !.phase = "stopped", !.pc = "unmanage"]
    [] r.then = "exit"     -> NoWorker

\* Mutant: a container that did not answer the inspection is not stopped.
TeardownStopUnlessCrash(n) ==
  /\ w[n].pc = "stop"
  /\ container' = IF w[n].then = "crash" THEN container
                                         ELSE [container EXCEPT ![n] = "none"]
  /\ Step(n, AfterTeardown(w[n]))
  /\ UNCHANGED <<dbVars, proxyVars, mgrVars>>

\* Instance.Stop ignores the errors of docker.
TeardownStop(n) ==
  /\ w[n].pc = "stop"
  /\ \E c \in {"none"} \cup (IF "stop" \in Faults THEN {container[n]} ELSE {}) :
       container' = [container EXCEPT ![n] = c]
  /\ Step(n, AfterTeardown(w[n]))
  /\ UNCHANGED <<dbVars, proxyVars, mgrVars>>

-----------------------------------------------------------------------------
(* worker.rebind and checkLifecycle *)

\* Mutant: the old registration is kept.
RebindKeepsOld(n) ==
  /\ w[n].pc = "rebindRemove"
  /\ Step(n, [w[n] EXCEPT !.pc = "rebindAdd"])
  /\ UNCHANGED <<dbVars, container, proxyVars, mgrVars>>

RebindRemove(n) ==
  /\ w[n].pc = "rebindRemove"
  /\ RemoveBackendMaybeUnbind(w[n].port, n)
  /\ Step(n, [w[n] EXCEPT !.pc = "rebindAdd"])
  /\ UNCHANGED <<dbVars, container, mgrVars>>

RebindAddOK(n) ==
  /\ w[n].pc = "rebindAdd"
  /\ AddBackendOK(w[n].target, n)
  /\ Step(n, [w[n] EXCEPT !.port = w[n].target, !.pc = "lifecycle"])
  /\ UNCHANGED <<dbVars, container, mgrVars>>

\* The server is marked crashed; its container runs on.
RebindAddError(n) ==
  /\ w[n].pc = "rebindAdd" /\ "add" \in Faults
  /\ AddBackendError(w[n].target, n)
  /\ Step(n, [Crashed(w[n]) EXCEPT !.pc = "lifecycle"])
  /\ UNCHANGED <<dbVars, container, mgrVars>>

\* bringDown does nothing in a phase that is not live.
BringDownIfLive(r) == IF r.phase = "running" THEN BringDown(r, "select") ELSE Done(r)

\* No limit is reached.
LifecycleNone(n) ==
  /\ w[n].pc = "lifecycle"
  /\ Step(n, Done(w[n]))
  /\ UNCHANGED <<dbVars, container, proxyVars, mgrVars>>

\* stop_after_hrs: the stop is written to the row, if there still is one.
LifecycleStop(n) ==
  /\ w[n].pc = "lifecycle" /\ "stop" \in Limits
  /\ rows' = IF rows[n] = NoRow THEN rows ELSE [rows EXCEPT ![n].desired = "stopped"]
  /\ Step(n, BringDownIfLive(w[n]))
  /\ UNCHANGED <<clusterPort, container, proxyVars, mgrVars>>

\* restart_after_hrs: a later pass brings the server up again.
LifecycleRestart(n) ==
  /\ w[n].pc = "lifecycle" /\ "restart" \in Limits
  /\ Step(n, BringDownIfLive(w[n]))
  /\ UNCHANGED <<dbVars, container, proxyVars, mgrVars>>

-----------------------------------------------------------------------------
(* The end of a worker, and the manager.                                   *)

\* The rest of reap: release a standalone port, cancel the own context.
ReapUnmanage(n) ==
  /\ w[n].pc = "unmanage"
  /\ IF w[n].standalone /\ w[n].port # NoPort
     THEN Unmanage(w[n].port) ELSE UNCHANGED proxyVars
  /\ Step(n, Done([w[n] EXCEPT !.cancelled = TRUE]))
  /\ UNCHANGED <<dbVars, container, mgrVars>>

\* Mutant: the run loop returns without bringDown.
WorkerExitAtOnce(n) ==
  /\ InSelect(n) /\ w[n].cancelled
  /\ Step(n, NoWorker)
  /\ UNCHANGED <<dbVars, container, proxyVars, mgrVars>>

\* The run loop sees ctx.Done: bring down and leave the workers map.  A wake-up that
\* is ready at the same time may be served first: the reconcile actions stay enabled.
WorkerExit(n) ==
  /\ InSelect(n) /\ w[n].cancelled
  /\ Step(n, IF w[n].phase = "running" THEN BringDown(w[n], "exit") ELSE NoWorker)
  /\ UNCHANGED <<dbVars, container, proxyVars, mgrVars>>

\* The backoff of a crashed worker is over.
BackoffElapses(n) ==
  /\ w[n].alive /\ w[n].backingOff
  /\ Step(n, [w[n] EXCEPT !.backingOff = FALSE])
  /\ UNCHANGED <<dbVars, container, proxyVars, mgrVars>>

\* Mutant: a worker's context is not derived from the manager's.
DispatchDetached(n) ==
  /\ ~waiting /\ rows[n] # NoRow /\ ~w[n].alive
  /\ Step(n, Spawned(TRUE, FALSE))
  /\ UNCHANGED <<dbVars, container, proxyVars, mgrVars>>

\* Manager.dispatch, for one row without a worker.
Dispatch(n) ==
  /\ ~waiting /\ rows[n] # NoRow /\ ~w[n].alive
  /\ Step(n, Spawned(TRUE, shutdown))
  /\ UNCHANGED <<dbVars, container, proxyVars, mgrVars>>

\* A signal: the contexts of the manager and of all workers are cancelled.
Shutdown ==
  /\ MayShutDown /\ ~shutdown
  /\ shutdown' = TRUE
  /\ w' = [n \in Names |-> [w[n] EXCEPT !.cancelled = @ \/ w[n].alive]]
  /\ UNCHANGED <<dbVars, container, proxyVars, waiting>>

ManagerWaits ==
  /\ shutdown /\ ~waiting
  /\ waiting' = TRUE
  /\ UNCHANGED <<dbVars, w, container, proxyVars, shutdown>>

\* Manager.Run returned.
Returned == waiting /\ \A n \in Names : ~w[n].alive

\* A container dies by itself.
ContainerDies(n) ==
  /\ container[n] = "running"
  /\ container' = [container EXCEPT ![n] = "exited"]
  /\ UNCHANGED <<dbVars, w, proxyVars, mgrVars>>

-----------------------------------------------------------------------------
API ==
  \/ \E n \in Names, home \in Ports \cup {Clustered} :
       \/ \E desired \in Desired : CreateServer(n, home, desired)
       \/ UpdateServer(n, home)
  \/ \E n \in Names, desired \in Desired : SetDesired(n, desired)
  \/ \E n \in Names : DeleteServer(n)
  \/ \E p \in Ports : SetCluster(p)
  \/ DeleteCluster

Reconcile(n) ==
  \/ ReconcileReap(n) \/ ReconcileCrash(n) \/ ReconcileRunning(n) \/ ReconcileUp(n)
  \/ ReconcileDown(n) \/ ReconcileSettle(n) \/ ReconcileIdle(n)

\* The calls a pass makes.
Continue(n) ==
  \/ StartOK(n) \/ StartError(n) \/ AddOK(n) \/ AddError(n)
  \/ TeardownRemove(n) \/ TeardownStop(n)
  \/ RebindRemove(n) \/ RebindAddOK(n) \/ RebindAddError(n)
  \/ LifecycleNone(n) \/ LifecycleStop(n) \/ LifecycleRestart(n)
  \/ ReapUnmanage(n)

Next ==
  \/ API
  \/ \E n \in Names :
       \/ Reconcile(n) \/ Continue(n) \/ WorkerExit(n)
       \/ BackoffElapses(n) \/ Dispatch(n) \/ ContainerDies(n)
  \/ Shutdown \/ ManagerWaits

Spec == Init /\ [][Next]_vars

(***************************************************************************)
(* Fairness.  A worker's ticker keeps reconciling, a pass runs to its end  *)
(* (every call returns), a backoff timer fires, the discovery ticker keeps *)
(* dispatching, and a select whose ctx.Done stays ready takes it.  A start *)
(* that is tried again and again does not fail every time.  Nothing is     *)
(* assumed of the API, of the containers' health or of the operator.       *)
(***************************************************************************)
Fairness ==
  /\ \A n \in Names : /\ WF_vars(Reconcile(n)) /\ WF_vars(Continue(n))
                      /\ SF_vars(WorkerExit(n)) /\ SF_vars(StartOK(n))
                      /\ WF_vars(BackoffElapses(n)) /\ WF_vars(Dispatch(n))
  /\ WF_vars(ManagerWaits)

FairSpec == Spec /\ Fairness

-----------------------------------------------------------------------------
(* Safety.                                                                 *)

\* A server whose worker reports it running, between passes, is what the proxy
\* routes to on the port the worker believes: no other worker's reap, rebind or
\* failure took its registration away.
RunningIsRouted ==
  \A n \in Names : InSelect(n) /\ w[n].phase = "running" =>
    w[n].port \in managed /\ <<w[n].port, n>> \in reg

\* The proxy never routes to a server whose container has been removed, and to
\* each server through one port only: every path removes the backend before it
\* stops the container, and rebind leaves no second registration.
RoutedIsThere ==
  \A r \in reg :
    /\ container[r[2]] # "none"
    /\ w[r[2]].alive /\ w[r[2]].port = r[1]
    /\ \A q \in reg : q[2] = r[2] => q = r

\* A worker that reports its server as not live has no running container ("not
\* live, by intent"; "it is already stopped").
NotLiveMeansNoContainer ==
  \A n \in Names : InSelect(n) /\ w[n].phase \in {"pending", "stopped", "crashed"} =>
    container[n] # "running"

\* When the manager has returned, no server runs and the proxy has no backend: the
\* bridge can be removed.
ReturnedMeansEmpty ==
  Returned => reg = {} /\ \A n \in Names : container[n] # "running"

(***************************************************************************)
(* The inductive invariants behind these (proved in FleetProofs).          *)
(***************************************************************************)

\* A clustered row has its cluster (the foreign key).
MembersHaveCluster ==
  \A n \in Names : rows[n] # NoRow /\ rows[n].home = Clustered => clusterPort # NoPort

\* The worker takes its server for live and registered.
Holds(n) == w[n].pc \in {"select", "lifecycle"} /\ w[n].phase = "running"

\* What a worker's phase, ports and container are at each point of a pass.
PassOK(n) ==
  /\ ~w[n].alive => w[n] = NoWorker
  /\ w[n].pc \in {"select", "unmanage", "lifecycle"} =>
       w[n].phase \in {"pending", "running", "stopped", "crashed"}
  /\ w[n].pc = "unmanage" => w[n].phase # "running"
  /\ w[n].pc \in {"start", "add"} => w[n].phase = "starting"
  /\ w[n].pc \in {"rebindRemove", "rebindAdd"} => w[n].phase = "running"
  /\ w[n].pc \in {"start", "add", "rebindRemove", "rebindAdd"} => w[n].target \in Ports
  /\ w[n].phase = "running" \/ w[n].pc = "remove" => w[n].port \in Ports
  /\ Holds(n) \/ w[n].pc \in {"add", "rebindRemove", "rebindAdd"} => container[n] # "none"

\* Only a worker that has not yet taken it back has a registration, its container is
\* there, and the port is the one the worker will take it back from.
RegOK(n) ==
  \A p \in Ports : <<p, n>> \in reg =>
    /\ Holds(n) \/ w[n].pc \in {"remove", "rebindRemove"}
    /\ w[n].alive /\ w[n].port = p /\ container[n] # "none"

FleetInv == MembersHaveCluster /\ \A n \in Names : PassOK(n) /\ RegOK(n)

\* No port passes from one owner to another: a server is a member of the cluster, or
\* has ports that are nobody else's.
PortsKeepOwners ==
  \A n \in Names :
    \/ Homes[n] \subseteq {Clustered}
    \/ Homes[n] \subseteq Ports \ ClusterPorts
       /\ \A m \in Names \ {n} : Homes[n] \cap Homes[m] = {}

PortsOf(n) == IF Homes[n] \subseteq {Clustered} THEN ClusterPorts ELSE Homes[n]

\* Where PortsKeepOwners, a worker only ever deals with its own ports.
OwnPortOK(n) ==
  /\ rows[n] # NoRow => rows[n].home \in Homes[n]
  /\ w[n].port \in PortsOf(n) \cup {NoPort} /\ w[n].target \in PortsOf(n) \cup {NoPort}
  /\ w[n].standalone => ~(Homes[n] \subseteq {Clustered})

\* And nobody takes a registration away but the worker it belongs to.
HoldOK(n) ==
  /\ Holds(n) => <<w[n].port, n>> \in reg
  /\ \A p \in Ports : <<p, n>> \in reg => p \in managed

RoutingInv ==
  /\ clusterPort \in ClusterPorts \cup {NoPort}
  /\ \A n \in Names : OwnPortOK(n) /\ HoldOK(n)

\* Where every stop succeeds, and no registration fails, a container runs only between
\* its start and its stop.
StopsSucceed == Faults \subseteq {"start", "inspect"}

ContainerOK(n) ==
  w[n].phase \in {"pending", "stopped", "crashed"} \/ w[n].pc = "start" =>
    container[n] # "running"

ContainerInv == \A n \in Names : ContainerOK(n)

(***************************************************************************)
(* Claims of the source that TLC refutes (see the README).                *)
(***************************************************************************)

\* worker.go:27, "not live, by intent", and :142, "nothing to do but to set the phase
\* to stopped since it is already stopped".
StoppedIsStopped ==
  \A n \in Names : InSelect(n) /\ w[n].phase = "stopped" => container[n] # "running"

\* proxy.go:238, Unmanage is called "when a cluster is deleted or standalone server
\* definition is deleted": while the fleet runs, a managed port is the port of a row
\* or of the cluster, or of a worker that has still to act on a change.
ManagedHasOwner ==
  ~shutdown => \A p \in managed :
    ~PortFree(p) \/ \E n \in Names : w[n].alive /\ p \in {w[n].port, w[n].target}

-----------------------------------------------------------------------------
(* Liveness.                                                               *)

Wanted(n) == rows[n] # NoRow /\ rows[n].desired = "running" /\ ~shutdown
Unwanted(n) == rows[n] = NoRow \/ rows[n].desired = "stopped"

\* A server that stays wanted is brought up again after every crash and restart.
WantedComesUp ==
  \A n \in Names : <>[]Wanted(n) => []<>(w[n].phase = "running")

\* A server that stays unwanted goes down for good.
UnwantedGoesDown ==
  \A n \in Names : <>[]Unwanted(n) =>
    <>[](container[n] # "running" /\ \A p \in Ports : <<p, n>> \notin reg)

\* A port change of a server that stays wanted reaches the proxy.
PortChangeArrives ==
  \A n \in Names, p \in Ports :
    <>[](Wanted(n) /\ EffPort(n) = p) => []<>(<<p, n>> \in reg)

\* A shutdown ends: every worker tears down and exits.
ShutdownEnds == shutdown ~> Returned

=============================================================================
