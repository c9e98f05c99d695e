---------------------------- MODULE FleetProofs ----------------------------
(***************************************************************************)
(* Proofs about Fleet, for any number of servers and ports: which worker   *)
(* may have a registration and a container, at every point of a pass where *)
(* another worker, the API or docker may act.                              *)
(***************************************************************************)
EXTENDS Fleet, TLAPS

(***************************************************************************)
(* The records a pass makes of a worker.                                   *)
(***************************************************************************)

\* A worker that was never registered.
LEMMA SpawnedFields ==
  ASSUME NEW a \in BOOLEAN, NEW c \in BOOLEAN
  PROVE  LET s == Spawned(a, c)
         IN  /\ s \in Worker /\ s.alive = a /\ s.pc = "select" /\ s.phase = "pending"
             /\ s.port = NoPort /\ s.target = NoPort /\ s.standalone = FALSE
  BY DEF Spawned, Worker, PCs, Phases, Desired

\* The end of a pass keeps phase and port.
LEMMA DoneFields ==
  ASSUME NEW r \in Worker
  PROVE  /\ Done(r) \in Worker /\ Done(r).pc = "select" /\ Done(r).target = NoPort
         /\ Done(r).alive = r.alive /\ Done(r).phase = r.phase /\ Done(r).port = r.port
         /\ Done(r).standalone = r.standalone
  BY DEF Done, Worker, PCs, Desired

\* A crash is a change of phase.
LEMMA CrashedFields ==
  ASSUME NEW r \in Worker
  PROVE  /\ Crashed(r) \in Worker /\ Crashed(r).phase = "crashed" /\ Crashed(r).pc = r.pc
         /\ Crashed(r).alive = r.alive /\ Crashed(r).port = r.port
         /\ Crashed(r).target = r.target /\ Crashed(r).standalone = r.standalone
  BY DEF Crashed, Worker, Phases

\* bringDown begins with the proxy.
LEMMA BringDownFields ==
  ASSUME NEW r \in Worker, NEW t \in {"select", "crash", "unmanage", "exit"}
  PROVE  /\ BringDown(r, t) \in Worker /\ BringDown(r, t).phase = "stopping"
         /\ BringDown(r, t).pc = "remove" /\ BringDown(r, t).alive = r.alive
         /\ BringDown(r, t).port = r.port /\ BringDown(r, t).target = r.target
         /\ BringDown(r, t).standalone = r.standalone
  BY DEF BringDown, Worker, Phases, PCs

\* A pass notes whether the row is standalone.
LEMMA ResolvedFields ==
  ASSUME FleetTypeOK, NEW n \in Names
  PROVE  /\ Resolved(n) \in Worker /\ Resolved(n).phase = w[n].phase
         /\ Resolved(n).pc = w[n].pc /\ Resolved(n).alive = w[n].alive
         /\ Resolved(n).port = w[n].port /\ Resolved(n).target = w[n].target
         /\ Resolved(n).standalone = Standalone(n)
  BY DEF Resolved, Standalone, FleetTypeOK, Worker

\* What a teardown ends in: no worker, or one that is not live.
LEMMA AfterTeardownFields ==
  ASSUME NEW r \in Worker
  PROVE  \/ AfterTeardown(r) = NoWorker
         \/ LET s == AfterTeardown(r)
            IN  /\ s \in Worker /\ s.pc \in {"select", "unmanage"}
                /\ s.phase \in {"stopped", "crashed"} /\ s.alive = r.alive
                /\ s.port = r.port /\ s.target \in {r.target, NoPort}
                /\ s.standalone = r.standalone
<1>1. r.then \in {"select", "crash", "unmanage", "exit"}
  BY DEF Worker
<1> DEFINE s == [r EXCEPT !.phase = "stopped"]
<1>2. /\ s \in Worker /\ s.phase = "stopped" /\ s.alive = r.alive
      /\ s.port = r.port /\ s.target = r.target /\ s.standalone = r.standalone
  BY DEF Worker, Phases
<1>3. CASE r.then = "unmanage"
  BY <1>3 DEF AfterTeardown, Worker, Phases, PCs
<1>4. CASE r.then = "exit"
  BY <1>4 DEF AfterTeardown
<1>5. CASE r.then = "select"
  BY <1>2, <1>5, DoneFields DEF AfterTeardown
<1>6. CASE r.then = "crash"
  <2>1. AfterTeardown(r) = IF r.want = "running" THEN Done(Crashed(r)) ELSE Done(s)
    BY <1>6 DEF AfterTeardown
  <2>2. CASE r.want = "running"
    BY <2>1, <2>2, DoneFields, CrashedFields
  <2>3. CASE r.want # "running"
    BY <1>2, <2>1, <2>3, DoneFields
  <2>4. QED
    BY <2>2, <2>3
<1>7. QED
  BY <1>1, <1>3, <1>4, <1>5, <1>6

\* The port of a row that is there is a port.
LEMMA EffPortIsPort ==
  ASSUME FleetTypeOK, MembersHaveCluster, NEW n \in Names, rows[n] # NoRow
  PROVE  EffPort(n) \in Ports
  BY DEF FleetTypeOK, MembersHaveCluster, EffPort, Row

-----------------------------------------------------------------------------
\* The fleet starts empty.
LEMMA InitFleet == Init => FleetTypeOK /\ FleetInv
<1> SUFFICES ASSUME Init PROVE FleetTypeOK /\ FleetInv
  OBVIOUS
<1>1. NoWorker \in Worker /\ NoWorker.pc = "select" /\ NoWorker.phase = "pending"
  BY SpawnedFields DEF NoWorker
<1>2. FleetTypeOK
  BY <1>1 DEF Init, FleetTypeOK
<1>3. FleetInv
  BY <1>1 DEF Init, FleetInv, MembersHaveCluster, PassOK, RegOK, Holds
<1>4. QED
  BY <1>2, <1>3

\* The API writes rows and the cluster's port under the constraints of the schema.
LEMMA APISteps ==
  ASSUME FleetTypeOK, MembersHaveCluster, API
  PROVE  /\ UNCHANGED <<w, container, managed, reg, shutdown, waiting>>
         /\ rows' \in [Names -> Row \cup {NoRow}] /\ clusterPort' \in Ports \cup {NoPort}
         /\ MembersHaveCluster'
<1> USE DEF FleetTypeOK, MembersHaveCluster, proxyVars, mgrVars
<1>1. ASSUME NEW n \in Names, NEW home \in Ports \cup {Clustered}, NEW desired \in Desired,
             CreateServer(n, home, desired)
      PROVE  /\ UNCHANGED <<w, container, managed, reg, shutdown, waiting>>
             /\ rows' \in [Names -> Row \cup {NoRow}] /\ clusterPort' \in Ports \cup {NoPort}
             /\ MembersHaveCluster'
  BY <1>1 DEF CreateServer, Admissible, Row
<1>2. ASSUME NEW n \in Names, NEW home \in Ports \cup {Clustered}, UpdateServer(n, home)
      PROVE  /\ UNCHANGED <<w, container, managed, reg, shutdown, waiting>>
             /\ rows' \in [Names -> Row \cup {NoRow}] /\ clusterPort' \in Ports \cup {NoPort}
             /\ MembersHaveCluster'
  BY <1>2 DEF UpdateServer, Row
<1>3. ASSUME NEW n \in Names, NEW desired \in Desired, SetDesired(n, desired)
      PROVE  /\ UNCHANGED <<w, container, managed, reg, shutdown, waiting>>
             /\ rows' \in [Names -> Row \cup {NoRow}] /\ clusterPort' \in Ports \cup {NoPort}
             /\ MembersHaveCluster'
  BY <1>3 DEF SetDesired, Row
<1>4. ASSUME NEW n \in Names, DeleteServer(n)
      PROVE  /\ UNCHANGED <<w, container, managed, reg, shutdown, waiting>>
             /\ rows' \in [Names -> Row \cup {NoRow}] /\ clusterPort' \in Ports \cup {NoPort}
             /\ MembersHaveCluster'
  BY <1>4 DEF DeleteServer
<1>5. ASSUME NEW p \in Ports, SetCluster(p)
      PROVE  /\ UNCHANGED <<w, container, managed, reg, shutdown, waiting>>
             /\ rows' \in [Names -> Row \cup {NoRow}] /\ clusterPort' \in Ports \cup {NoPort}
             /\ MembersHaveCluster'
  BY <1>5, PortsAssumption DEF SetCluster
<1>6. CASE DeleteCluster
  BY <1>6 DEF DeleteCluster
<1>7. QED
  BY <1>1, <1>2, <1>3, <1>4, <1>5, <1>6 DEF API

\* When one worker moves, the others keep what the invariant says of them.
LEMMA OneMoves ==
  ASSUME FleetTypeOK, FleetInv, NEW n \in Names,
         w' \in [Names -> Worker], container' \in [Names -> {"none", "running", "exited"}],
         \A m \in Names \ {n} : w'[m] = w[m] /\ container'[m] = container[m],
         managed' \in SUBSET Ports, reg' \in SUBSET (Ports \X Names),
         \A p \in Ports, m \in Names \ {n} : <<p, m>> \in reg' => <<p, m>> \in reg,
         UNCHANGED <<clusterPort, shutdown, waiting>>,
         rows' \in [Names -> Row \cup {NoRow}], MembersHaveCluster',
         PassOK(n)', RegOK(n)'
  PROVE  FleetTypeOK' /\ FleetInv'
<1>1. FleetTypeOK'
  BY DEF FleetTypeOK
<1>2. ASSUME NEW m \in Names \ {n} PROVE PassOK(m)' /\ RegOK(m)'
  BY DEF FleetInv, PassOK, RegOK, Holds
<1>3. QED
  BY <1>1, <1>2 DEF FleetInv

-----------------------------------------------------------------------------
(***************************************************************************)
(* What every step of a worker does, whichever it is.  The invariants      *)
(* follow from this and not from the actions.                              *)
(***************************************************************************)

\* Whoever is registered stays so on a managed port, unless the worker unmanages the
\* port of a standalone server.
OthersKept(n) ==
  \/ \A p \in Ports, m \in Names \ {n} :
       <<p, m>> \in reg => <<p, m>> \in reg' /\ (p \in managed => p \in managed')
  \/ /\ w[n].standalone /\ w[n].port # NoPort
     /\ managed' = managed \ {w[n].port} /\ reg' = {r \in reg : r[1] # w[n].port}

WorkerMove(n) ==
  /\ w' = [w EXCEPT ![n] = w'[n]] /\ w'[n] \in Worker
  /\ UNCHANGED <<clusterPort, shutdown, waiting>>
  /\ rows' \in [Names -> Row \cup {NoRow}]
  /\ \A m \in Names : rows'[m] # NoRow => rows[m] # NoRow /\ rows'[m].home = rows[m].home
  /\ container' \in [Names -> {"none", "running", "exited"}]
  /\ \A m \in Names \ {n} : container'[m] = container[m]
  /\ managed' \in SUBSET Ports /\ reg' \in SUBSET (Ports \X Names)
  /\ \A p \in Ports, m \in Names \ {n} : <<p, m>> \in reg' => <<p, m>> \in reg
  /\ PassOK(n)' /\ RegOK(n)'
  /\ w'[n].port \in {w[n].port, w[n].target, NoPort}
  /\ \/ w'[n].target \in {w[n].target, NoPort}
     \/ rows[n] # NoRow /\ w'[n].target = EffPort(n)
  /\ w'[n].standalone => w[n].standalone \/ (rows[n] # NoRow /\ Standalone(n))
  /\ HoldOK(n) => HoldOK(n)'
  /\ OthersKept(n)
  /\ StopsSucceed /\ ContainerOK(n) => ContainerOK(n)'

(***************************************************************************)
(* The steps of a worker that call neither docker nor the proxy: what they *)
(* may change of the worker.                                               *)
(***************************************************************************)
NotLive == {"pending", "stopped", "crashed"}

\* It stays what it says it is, takes its port from the row, and gives a registration
\* up only by going to where it is taken back.
QuietMove(n) ==
  /\ w' = [w EXCEPT ![n] = w'[n]] /\ w'[n] \in Worker /\ PassOK(n)'
  /\ UNCHANGED <<clusterPort, container, managed, reg, shutdown, waiting>>
  /\ rows' \in [Names -> Row \cup {NoRow}]
  /\ \A m \in Names : rows'[m] # NoRow => rows[m] # NoRow /\ rows'[m].home = rows[m].home
  /\ w'[n].port \in {w[n].port, NoPort}
  /\ \/ w'[n].target \in {w[n].target, NoPort}
     \/ rows[n] # NoRow /\ w'[n].target = EffPort(n)
  /\ w'[n].standalone => w[n].standalone \/ (rows[n] # NoRow /\ Standalone(n))
  /\ Holds(n)' => Holds(n) /\ w'[n].port = w[n].port
  /\ Holds(n) \/ w[n].pc \in {"remove", "rebindRemove"} =>
       /\ w'[n].alive /\ w'[n].port = w[n].port
       /\ Holds(n)' \/ w'[n].pc \in {"remove", "rebindRemove"}
  /\ w'[n].phase \in NotLive \/ w'[n].pc = "start" =>
       w[n].phase \in NotLive \/ w[n].pc = "start"

\* A worker out of its select is there.
LEMMA BusyIsAlive ==
  ASSUME NEW n \in Names, FleetTypeOK, PassOK(n), w[n].pc # "select"
  PROVE  w[n].alive /\ w[n] \in Worker
<1>1. w[n] \in Worker
  BY DEF FleetTypeOK
<1>2. NoWorker.pc = "select"
  BY SpawnedFields DEF NoWorker
<1>3. ~w[n].alive => w[n] = NoWorker
  BY DEF PassOK
<1>4. QED
  BY <1>1, <1>2, <1>3

\* The part of QuietMove that all of them share.
LEMMA StepIsLocal ==
  ASSUME NEW n \in Names, FleetTypeOK, NEW r \in Worker, Step(n, r)
  PROVE  w'[n] = r /\ w' = [w EXCEPT ![n] = w'[n]]
  BY DEF FleetTypeOK, Step

\* The branches of reconcile that call neither docker nor the proxy are quiet moves.
LEMMA QuietReconcile ==
  ASSUME FleetTypeOK, FleetInv, NEW n \in Names, Reconcile(n)
  PROVE  QuietMove(n)
<1> USE DEF dbVars, proxyVars, mgrVars, NotLive
<1>0. /\ w[n] \in Worker /\ PassOK(n) /\ w[n].alive /\ w[n].pc = "select"
      /\ UNCHANGED <<clusterPort, rows, container, managed, reg, shutdown, waiting>>
      /\ rows' \in [Names -> Row \cup {NoRow}]
  BY DEF FleetTypeOK, FleetInv, Reconcile, ReconcileReap, ReconcileCrash, ReconcileRunning,
         ReconcileUp, ReconcileDown, ReconcileSettle, ReconcileIdle, PassOn, InSelect
<1>1. CASE ReconcileReap(n)
  <2>1. CASE w[n].phase = "running"
    <3>1. Step(n, BringDown(w[n], "unmanage"))
      BY <1>1, <2>1 DEF ReconcileReap
    <3>2. QED
      BY <1>0, <2>1, <3>1, StepIsLocal, BringDownFields DEF QuietMove, PassOK, Holds
  <2>2. CASE w[n].phase # "running"
    <3> DEFINE r == [w[n] EXCEPT !.pc = "unmanage"]
    <3>1. Step(n, r)
      BY <1>1, <2>2 DEF ReconcileReap
    <3>2. /\ r \in Worker /\ r.pc = "unmanage" /\ r.phase = w[n].phase /\ r.alive
          /\ r.port = w[n].port /\ r.target = w[n].target /\ r.standalone = w[n].standalone
      BY <1>0 DEF Worker, PCs
    <3> HIDE DEF r
    <3>3. QED
      BY <1>0, <2>2, <3>1, <3>2, StepIsLocal DEF QuietMove, PassOK, Holds
  <2>3. QED
    BY <2>1, <2>2
<1>2. CASE ReconcileCrash(n)
  <2> DEFINE r == [Resolved(n) EXCEPT !.pc = "remove", !.then = "crash",
                                      !.want = rows[n].desired]
  <2>1. Step(n, r) /\ rows[n] # NoRow /\ w[n].phase = "running"
    BY <1>2 DEF ReconcileCrash, PassOn
  <2>2. rows[n].desired \in Desired
    BY <2>1 DEF FleetTypeOK, Row
  <2>3. /\ r \in Worker /\ r.pc = "remove" /\ r.phase = w[n].phase /\ r.alive
        /\ r.port = w[n].port /\ r.target = w[n].target /\ r.standalone = Standalone(n)
    BY <1>0, <2>2, ResolvedFields DEF Worker, PCs
  <2> HIDE DEF r
  <2>4. QED
    BY <1>0, <2>1, <2>3, StepIsLocal DEF QuietMove, PassOK, Holds
<1>3. CASE ReconcileRunning(n)
  <2> DEFINE r == [Resolved(n) EXCEPT !.target = EffPort(n),
                     !.pc = IF w[n].port # EffPort(n) THEN "rebindRemove" ELSE "lifecycle"]
  <2>1. Step(n, r) /\ rows[n] # NoRow /\ w[n].phase = "running"
    BY <1>3 DEF ReconcileRunning, PassOn
  <2>2. EffPort(n) \in Ports
    BY <2>1, EffPortIsPort DEF FleetInv
  <2>3. /\ r \in Worker /\ r.pc \in {"rebindRemove", "lifecycle"}
        /\ r.phase = w[n].phase /\ r.alive
        /\ r.port = w[n].port /\ r.target = EffPort(n) /\ r.standalone = Standalone(n)
    BY <1>0, <2>2, ResolvedFields DEF Worker, PCs
  <2> HIDE DEF r
  <2>4. QED
    BY <1>0, <2>1, <2>2, <2>3, StepIsLocal DEF QuietMove, PassOK, Holds
<1>4. CASE ReconcileUp(n)
  <2> DEFINE r == [Resolved(n) EXCEPT !.phase = "starting", !.pc = "start",
                                      !.target = EffPort(n)]
  <2>1. Step(n, r) /\ rows[n] # NoRow /\ w[n].phase \in NotLive
    BY <1>4 DEF ReconcileUp, PassOn
  <2>2. EffPort(n) \in Ports
    BY <2>1, EffPortIsPort DEF FleetInv
  <2>3. /\ r \in Worker /\ r.pc = "start" /\ r.phase = "starting" /\ r.alive
        /\ r.port = w[n].port /\ r.target = EffPort(n) /\ r.standalone = Standalone(n)
    BY <1>0, <2>2, ResolvedFields DEF Worker, PCs, Phases
  <2> HIDE DEF r
  <2>4. QED
    BY <1>0, <2>1, <2>2, <2>3, StepIsLocal DEF QuietMove, PassOK, Holds
<1>5. CASE ReconcileDown(n)
  <2>1. Step(n, BringDown(Resolved(n), "select")) /\ rows[n] # NoRow /\ w[n].phase = "running"
    BY <1>5 DEF ReconcileDown, PassOn
  <2>2. QED
    BY <1>0, <2>1, StepIsLocal, ResolvedFields, BringDownFields DEF QuietMove, PassOK, Holds
<1>6. CASE ReconcileSettle(n)
  <2> DEFINE s == [Resolved(n) EXCEPT !.phase = "stopped", !.backingOff = FALSE]
  <2>1. Step(n, Done(s)) /\ rows[n] # NoRow /\ w[n].phase \in {"pending", "crashed"}
    BY <1>6 DEF ReconcileSettle, PassOn
  <2>2. /\ s \in Worker /\ s.phase = "stopped" /\ s.alive
        /\ s.port = w[n].port /\ s.standalone = Standalone(n)
    BY <1>0, ResolvedFields DEF Worker, Phases
  <2> HIDE DEF s
  <2>3. QED
    BY <1>0, <2>1, <2>2, StepIsLocal, DoneFields DEF QuietMove, PassOK, Holds
<1>7. CASE ReconcileIdle(n)
  <2>1. Step(n, Done(Resolved(n))) /\ rows[n] # NoRow /\ w[n].phase \in {"stopped", "crashed"}
    BY <1>7 DEF ReconcileIdle, PassOn
  <2>2. QED
    BY <1>0, <2>1, StepIsLocal, ResolvedFields, DoneFields DEF QuietMove, PassOK, Holds
<1>8. QED
  BY <1>1, <1>2, <1>3, <1>4, <1>5, <1>6, <1>7 DEF Reconcile

\* The end of a pass, of a backoff and of a worker, and a worker's first breath.
LEMMA QuietRest ==
  ASSUME FleetTypeOK, FleetInv, NEW n \in Names,
         \/ LifecycleNone(n) \/ LifecycleStop(n) \/ LifecycleRestart(n)
         \/ WorkerExit(n) \/ BackoffElapses(n) \/ Dispatch(n)
  PROVE  QuietMove(n)
<1> USE DEF dbVars, proxyVars, mgrVars, NotLive
<1>0. /\ w[n] \in Worker /\ PassOK(n)
      /\ UNCHANGED <<clusterPort, container, managed, reg, shutdown, waiting>>
  BY DEF FleetTypeOK, FleetInv, LifecycleNone, LifecycleStop, LifecycleRestart, WorkerExit,
         BackoffElapses, Dispatch
<1>1. /\ rows' \in [Names -> Row \cup {NoRow}]
      /\ \A m \in Names : rows'[m] # NoRow => rows[m] # NoRow /\ rows'[m].home = rows[m].home
  <2>1. CASE UNCHANGED rows
    BY <2>1 DEF FleetTypeOK
  <2>2. CASE LifecycleStop(n)
    <3>1. CASE rows[n] = NoRow
      BY <2>1, <2>2, <3>1 DEF LifecycleStop
    <3>2. CASE rows[n] # NoRow
      <4>1. rows' = [rows EXCEPT ![n].desired = "stopped"] /\ rows[n] \in Row
        BY <2>2, <3>2 DEF LifecycleStop, FleetTypeOK
      <4>2. /\ [rows[n] EXCEPT !.desired = "stopped"] \in Row
            /\ [rows[n] EXCEPT !.desired = "stopped"].home = rows[n].home
        BY <4>1 DEF Row, Desired
      <4>3. QED
        BY <3>2, <4>1, <4>2 DEF FleetTypeOK
    <3>3. QED
      BY <3>1, <3>2
  <2>3. QED
    BY <2>1, <2>2 DEF LifecycleNone, LifecycleRestart, WorkerExit, BackoffElapses, Dispatch
<1>2. CASE LifecycleNone(n) \/ LifecycleStop(n) \/ LifecycleRestart(n)
  <2>1. w[n].pc = "lifecycle" /\ w[n].alive
    BY <1>0, <1>2, BusyIsAlive DEF LifecycleNone, LifecycleStop, LifecycleRestart
  <2>2. Step(n, Done(w[n])) \/ (w[n].phase = "running" /\ Step(n, BringDown(w[n], "select")))
    BY <1>2 DEF LifecycleNone, LifecycleStop, LifecycleRestart, BringDownIfLive
  <2>3. CASE Step(n, Done(w[n]))
    BY <1>0, <1>1, <2>1, <2>3, StepIsLocal, DoneFields DEF QuietMove, PassOK, Holds
  <2>4. CASE w[n].phase = "running" /\ Step(n, BringDown(w[n], "select"))
    BY <1>0, <1>1, <2>1, <2>4, StepIsLocal, BringDownFields DEF QuietMove, PassOK, Holds
  <2>5. QED
    BY <2>2, <2>3, <2>4
<1>3. CASE WorkerExit(n)
  <2>1. w[n].pc = "select" /\ w[n].alive
    BY <1>3 DEF WorkerExit, InSelect
  <2>2. CASE w[n].phase = "running"
    <3>1. Step(n, BringDown(w[n], "exit"))
      BY <1>3, <2>2 DEF WorkerExit
    <3>2. QED
      BY <1>0, <1>1, <2>1, <2>2, <3>1, StepIsLocal, BringDownFields DEF QuietMove, PassOK, Holds
  <2>3. CASE w[n].phase # "running"
    <3>1. Step(n, NoWorker)
      BY <1>3, <2>3 DEF WorkerExit
    <3>2. QED
      BY <1>0, <1>1, <2>1, <2>3, <3>1, StepIsLocal, SpawnedFields
         DEF QuietMove, PassOK, Holds, NoWorker
  <2>4. QED
    BY <2>2, <2>3
<1>4. CASE BackoffElapses(n)
  <2> DEFINE r == [w[n] EXCEPT !.backingOff = FALSE]
  <2>1. Step(n, r) /\ w[n].alive
    BY <1>4 DEF BackoffElapses
  <2>2. /\ r \in Worker /\ r.pc = w[n].pc /\ r.phase = w[n].phase /\ r.alive
        /\ r.port = w[n].port /\ r.target = w[n].target /\ r.standalone = w[n].standalone
    BY <1>0, <2>1 DEF Worker
  <2> HIDE DEF r
  <2>3. QED
    BY <1>0, <1>1, <2>1, <2>2, StepIsLocal DEF QuietMove, PassOK, Holds
<1>5. CASE Dispatch(n)
  <2>1. Step(n, Spawned(TRUE, shutdown)) /\ ~w[n].alive /\ shutdown \in BOOLEAN
    BY <1>5 DEF Dispatch, FleetTypeOK
  <2>2. w[n] = NoWorker /\ w[n].pc = "select" /\ w[n].phase = "pending"
    BY <1>0, <2>1, SpawnedFields DEF PassOK, NoWorker
  <2>3. QED
    BY <1>0, <1>1, <2>1, <2>2, StepIsLocal, SpawnedFields DEF QuietMove, PassOK, Holds
<1>6. QED
  BY <1>2, <1>3, <1>4, <1>5

\* So they are worker moves.
LEMMA QuietIsMove ==
  ASSUME FleetTypeOK, FleetInv, NEW n \in Names, QuietMove(n)
  PROVE  WorkerMove(n)
<1>1. RegOK(n)'
  BY DEF FleetInv, RegOK, QuietMove, Holds
<1>2. HoldOK(n) => HoldOK(n)'
  BY DEF HoldOK, QuietMove, Holds
<1>3. ContainerOK(n) => ContainerOK(n)'
  BY DEF ContainerOK, QuietMove, NotLive
<1>4. OthersKept(n)
  BY DEF OthersKept, QuietMove
<1>5. QED
  BY <1>1, <1>2, <1>3, <1>4 DEF QuietMove, WorkerMove, FleetTypeOK

(***************************************************************************)
(* The calls of a pass to docker and to the proxy.                         *)
(***************************************************************************)

\* None of them changes a row, and each touches its own worker and container only.
LEMMA CallIsLocal ==
  ASSUME FleetTypeOK, NEW n \in Names,
         \/ StartOK(n) \/ StartError(n) \/ AddOK(n) \/ AddError(n)
         \/ TeardownRemove(n) \/ TeardownStop(n)
         \/ RebindRemove(n) \/ RebindAddOK(n) \/ RebindAddError(n) \/ ReapUnmanage(n)
  PROVE  /\ UNCHANGED <<rows, clusterPort, shutdown, waiting>>
         /\ rows' \in [Names -> Row \cup {NoRow}]
         /\ container' \in [Names -> {"none", "running", "exited"}]
         /\ \A m \in Names \ {n} : container'[m] = container[m]
<1> USE DEF FleetTypeOK, dbVars, proxyVars, mgrVars
<1>1. CASE StartOK(n) \/ AddOK(n) \/ AddError(n) \/ TeardownRemove(n)
           \/ RebindRemove(n) \/ RebindAddOK(n) \/ RebindAddError(n) \/ ReapUnmanage(n)
  BY <1>1 DEF StartOK, AddOK, AddError, TeardownRemove, RebindRemove, RebindAddOK,
              RebindAddError, ReapUnmanage
<1>2. CASE StartError(n)
  BY <1>2 DEF StartError
<1>3. CASE TeardownStop(n)
  BY <1>3 DEF TeardownStop
<1>4. QED
  BY <1>1, <1>2, <1>3

\* The worker in the middle of a pass, and the record the call makes of it.
LEMMA CallRecord ==
  ASSUME FleetTypeOK, FleetInv, NEW n \in Names, NEW r \in Worker, Step(n, r),
         w[n].pc # "select"
  PROVE  /\ w[n] \in Worker /\ w[n].alive /\ PassOK(n) /\ RegOK(n)
         /\ w'[n] = r /\ w' = [w EXCEPT ![n] = w'[n]]
  BY StepIsLocal, BusyIsAlive DEF FleetInv

\* Docker: a start and a stop.  The proxy is not called.
LEMMA DockerCalls ==
  ASSUME FleetTypeOK, FleetInv, NEW n \in Names,
         StartOK(n) \/ StartError(n) \/ TeardownStop(n)
  PROVE  WorkerMove(n)
<1>1. /\ UNCHANGED <<rows, clusterPort, shutdown, waiting>>
      /\ rows' \in [Names -> Row \cup {NoRow}]
      /\ container' \in [Names -> {"none", "running", "exited"}]
      /\ \A m \in Names \ {n} : container'[m] = container[m]
  BY CallIsLocal
<1>2. w[n] \in Worker /\ UNCHANGED <<managed, reg>> /\ managed \in SUBSET Ports
      /\ reg \in SUBSET (Ports \X Names)
  BY DEF FleetTypeOK, StartOK, StartError, TeardownStop, proxyVars
<1>3. OthersKept(n)
  BY <1>2 DEF OthersKept
<1>4. CASE StartOK(n)
  <2> DEFINE r == [w[n] EXCEPT !.pc = "add"]
  <2>1. Step(n, r) /\ w[n].pc = "start" /\ container'[n] = "running"
    BY <1>4 DEF StartOK, FleetTypeOK
  <2>2. /\ r \in Worker /\ r.pc = "add" /\ r.alive = w[n].alive /\ r.phase = w[n].phase
        /\ r.port = w[n].port /\ r.target = w[n].target /\ r.standalone = w[n].standalone
    BY <1>2 DEF Worker, PCs
  <2> HIDE DEF r
  <2>3. /\ w[n].alive /\ PassOK(n) /\ RegOK(n) /\ w'[n] = r /\ w' = [w EXCEPT ![n] = w'[n]]
    BY <2>1, <2>2, CallRecord
  <2>4. PassOK(n)' /\ RegOK(n)'
    BY <1>2, <2>1, <2>2, <2>3 DEF PassOK, RegOK, Holds
  <2>5. (HoldOK(n) => HoldOK(n)') /\ ContainerOK(n)'
    BY <1>2, <2>1, <2>2, <2>3 DEF HoldOK, ContainerOK, Holds, PassOK
  <2>6. QED
    BY <1>1, <1>2, <1>3, <2>2, <2>3, <2>4, <2>5 DEF WorkerMove
<1>5. CASE StartError(n)
  <2> DEFINE r == Done(Crashed(w[n]))
  <2>1. Step(n, r) /\ w[n].pc = "start"
    BY <1>5 DEF StartError
  <2>2. /\ r \in Worker /\ r.pc = "select" /\ r.alive = w[n].alive /\ r.phase = "crashed"
        /\ r.port = w[n].port /\ r.target = NoPort /\ r.standalone = w[n].standalone
    BY <1>2, DoneFields, CrashedFields
  <2>3. StopsSucceed => container'[n] \in {container[n], "none", "exited"}
    BY <1>5 DEF StartError, FleetTypeOK, StopsSucceed
  <2> HIDE DEF r
  <2>4. /\ w[n].alive /\ PassOK(n) /\ RegOK(n) /\ w'[n] = r /\ w' = [w EXCEPT ![n] = w'[n]]
    BY <2>1, <2>2, CallRecord
  <2>5. PassOK(n)' /\ RegOK(n)'
    BY <1>2, <2>1, <2>2, <2>4 DEF PassOK, RegOK, Holds
  <2>6. HoldOK(n) => HoldOK(n)'
    BY <1>2, <2>1, <2>2, <2>4 DEF HoldOK, Holds
  <2>7. StopsSucceed /\ ContainerOK(n) => ContainerOK(n)'
    BY <2>1, <2>3 DEF ContainerOK
  <2>8. QED
    BY <1>1, <1>2, <1>3, <2>2, <2>4, <2>5, <2>6, <2>7 DEF WorkerMove
<1>6. CASE TeardownStop(n)
  <2> DEFINE r == AfterTeardown(w[n])
  <2>1. Step(n, r) /\ w[n].pc = "stop"
    BY <1>6 DEF TeardownStop
  <2>2. /\ r \in Worker /\ r.pc \in {"select", "unmanage"}
        /\ r.phase \in {"pending", "stopped", "crashed"}
        /\ r = NoWorker \/ r.alive = w[n].alive
        /\ r.port \in {w[n].port, NoPort} /\ r.target \in {w[n].target, NoPort}
        /\ r.standalone => w[n].standalone
    BY <1>2, AfterTeardownFields, SpawnedFields DEF NoWorker
  <2>3. StopsSucceed => container'[n] = "none"
    BY <1>6 DEF TeardownStop, FleetTypeOK, StopsSucceed
  <2> HIDE DEF r
  <2>4. /\ w[n].alive /\ PassOK(n) /\ RegOK(n) /\ w'[n] = r /\ w' = [w EXCEPT ![n] = w'[n]]
    BY <2>1, <2>2, CallRecord
  <2>5. PassOK(n)' /\ RegOK(n)'
    BY <1>2, <2>1, <2>2, <2>4 DEF PassOK, RegOK, Holds
  <2>6. HoldOK(n) => HoldOK(n)'
    BY <1>2, <2>1, <2>2, <2>4 DEF HoldOK, Holds
  <2>7. StopsSucceed /\ ContainerOK(n) => ContainerOK(n)'
    BY <2>1, <2>3 DEF ContainerOK
  <2>8. QED
    BY <1>1, <1>2, <1>3, <2>2, <2>4, <2>5, <2>6, <2>7 DEF WorkerMove
<1>7. QED
  BY <1>4, <1>5, <1>6

\* The proxy: a registration is added, after the start or in a rebind.
LEMMA AddCalls ==
  ASSUME FleetTypeOK, FleetInv, NEW n \in Names,
         AddOK(n) \/ AddError(n) \/ RebindAddOK(n) \/ RebindAddError(n)
  PROVE  WorkerMove(n)
<1> DEFINE t == w[n].target
<1>1. /\ UNCHANGED <<rows, clusterPort, shutdown, waiting>>
      /\ rows' \in [Names -> Row \cup {NoRow}]
      /\ container' \in [Names -> {"none", "running", "exited"}]
      /\ \A m \in Names \ {n} : container'[m] = container[m]
  BY CallIsLocal
<1>2. w[n] \in Worker /\ w[n].pc \in {"add", "rebindAdd"}
  BY DEF FleetTypeOK, AddOK, AddError, RebindAddOK, RebindAddError
<1>3. t \in Ports /\ PassOK(n) /\ RegOK(n) /\ container[n] # "none"
  BY <1>2 DEF FleetInv, PassOK
<1>4. \A p \in Ports : <<p, n>> \notin reg
  BY <1>2, <1>3 DEF RegOK, Holds
<1>5. /\ managed' = managed \cup {t}
      /\ reg' = reg \cup {<<t, n>>} \/ reg' = reg \ {<<t, n>>}
  BY DEF AddOK, AddError, RebindAddOK, RebindAddError, AddBackendOK, AddBackendError
<1>6. /\ managed' \in SUBSET Ports /\ reg' \in SUBSET (Ports \X Names)
      /\ \A p \in Ports, m \in Names \ {n} : <<p, m>> \in reg' => <<p, m>> \in reg
      /\ OthersKept(n)
  BY <1>3, <1>5 DEF FleetTypeOK, OthersKept
<1>7. CASE AddOK(n) \/ RebindAddOK(n)
  <2>1. reg' = reg \cup {<<t, n>>} /\ container' = container
    BY <1>7 DEF AddOK, RebindAddOK, AddBackendOK
  <2>2. PICK r \in Worker : /\ Step(n, r) /\ r.pc \in {"select", "lifecycle"}
                            /\ r.phase = "running" /\ r.alive = w[n].alive
                            /\ r.port = t /\ r.target \in {t, NoPort}
                            /\ r.standalone = w[n].standalone
    <3>1. CASE AddOK(n)
      <4> DEFINE s == [w[n] EXCEPT !.phase = "running", !.inst = TRUE, !.port = t,
                                   !.backingOff = FALSE]
      <4>1. /\ s \in Worker /\ s.phase = "running" /\ s.alive = w[n].alive /\ s.port = t
            /\ s.standalone = w[n].standalone
        BY <1>2, <1>3 DEF Worker, Phases
      <4>2. Step(n, Done(s))
        BY <3>1 DEF AddOK
      <4> HIDE DEF s
      <4>3. QED
        BY <4>1, <4>2, DoneFields
    <3>2. CASE RebindAddOK(n)
      <4> DEFINE s == [w[n] EXCEPT !.port = t, !.pc = "lifecycle"]
      <4>1. w[n].phase = "running"
        BY <1>3, <3>2 DEF PassOK, RebindAddOK
      <4>2. /\ s \in Worker /\ s.phase = "running" /\ s.alive = w[n].alive /\ s.port = t
            /\ s.pc = "lifecycle" /\ s.target = t /\ s.standalone = w[n].standalone
        BY <1>2, <1>3, <4>1 DEF Worker, PCs
      <4>3. Step(n, s)
        BY <3>2 DEF RebindAddOK
      <4> HIDE DEF s
      <4>4. QED
        BY <4>2, <4>3
    <3>3. QED
      BY <1>7, <3>1, <3>2
  <2>3. w[n].alive /\ w'[n] = r /\ w' = [w EXCEPT ![n] = w'[n]]
    BY <1>2, <2>2, CallRecord
  <2>4. PassOK(n)' /\ RegOK(n)'
    BY <1>3, <1>4, <2>1, <2>2, <2>3 DEF PassOK, RegOK, Holds
  <2>5. (HoldOK(n) => HoldOK(n)') /\ ContainerOK(n)'
    BY <1>3, <1>4, <1>5, <2>1, <2>2, <2>3 DEF HoldOK, Holds, ContainerOK
  <2>6. QED
    BY <1>1, <1>6, <2>2, <2>3, <2>4, <2>5 DEF WorkerMove
<1>8. CASE AddError(n) \/ RebindAddError(n)
  <2>1. reg' = reg \ {<<t, n>>} /\ ~StopsSucceed
    BY <1>8 DEF AddError, RebindAddError, AddBackendError, StopsSucceed
  <2>2. PICK r \in Worker : /\ Step(n, r) /\ r.pc \in {"select", "lifecycle"}
                            /\ r.phase = "crashed" /\ r.alive = w[n].alive
                            /\ r.port = w[n].port /\ r.target \in {t, NoPort}
                            /\ r.standalone = w[n].standalone
    <3>1. CASE AddError(n)
      BY <1>2, <3>1, DoneFields, CrashedFields DEF AddError
    <3>2. CASE RebindAddError(n)
      <4> DEFINE s == [Crashed(w[n]) EXCEPT !.pc = "lifecycle"]
      <4>1. /\ s \in Worker /\ s.phase = "crashed" /\ s.alive = w[n].alive
            /\ s.port = w[n].port /\ s.pc = "lifecycle" /\ s.target = t
            /\ s.standalone = w[n].standalone
        BY <1>2, CrashedFields DEF Worker, PCs
      <4>2. Step(n, s)
        BY <3>2 DEF RebindAddError
      <4> HIDE DEF s
      <4>3. QED
        BY <4>1, <4>2
    <3>3. QED
      BY <1>8, <3>1, <3>2
  <2>3. w[n].alive /\ w'[n] = r /\ w' = [w EXCEPT ![n] = w'[n]]
    BY <1>2, <2>2, CallRecord
  <2>4. PassOK(n)' /\ RegOK(n)'
    BY <1>3, <1>4, <2>1, <2>2, <2>3 DEF PassOK, RegOK, Holds
  <2>5. HoldOK(n) => HoldOK(n)'
    BY <1>4, <2>1, <2>2, <2>3 DEF HoldOK, Holds
  <2>6. QED
    BY <1>1, <1>6, <2>1, <2>2, <2>3, <2>4, <2>5 DEF WorkerMove
<1>9. QED
  BY <1>7, <1>8

\* The proxy: a registration is taken back, for a teardown or in a rebind.
LEMMA RemoveCalls ==
  ASSUME FleetTypeOK, FleetInv, NEW n \in Names, TeardownRemove(n) \/ RebindRemove(n)
  PROVE  WorkerMove(n)
<1> DEFINE p == w[n].port
<1>1. /\ UNCHANGED <<rows, clusterPort, shutdown, waiting>>
      /\ rows' \in [Names -> Row \cup {NoRow}]
      /\ container' \in [Names -> {"none", "running", "exited"}]
      /\ \A m \in Names \ {n} : container'[m] = container[m]
  BY CallIsLocal
<1>2. w[n] \in Worker /\ w[n].pc \in {"remove", "rebindRemove"} /\ container' = container
  BY DEF FleetTypeOK, TeardownRemove, RebindRemove
<1>3. p \in Ports /\ PassOK(n) /\ RegOK(n)
  BY <1>2 DEF FleetInv, PassOK
<1>4. /\ reg' = reg \ {<<p, n>>}
      /\ managed' = managed
         \/ (managed' = managed \ {p} /\ \A m \in Names : <<p, m>> \notin reg')
  BY DEF TeardownRemove, RebindRemove, RemoveBackendDoNotUnbind, RemoveBackendMaybeUnbind
<1>5. \A q \in Ports : <<q, n>> \notin reg'
  BY <1>3, <1>4 DEF RegOK
<1>6. /\ managed' \in SUBSET Ports /\ reg' \in SUBSET (Ports \X Names)
      /\ \A q \in Ports, m \in Names \ {n} : <<q, m>> \in reg' => <<q, m>> \in reg
  BY <1>4 DEF FleetTypeOK
<1>7. OthersKept(n)
  <2>1. ASSUME NEW q \in Ports, NEW m \in Names \ {n}, <<q, m>> \in reg
        PROVE  <<q, m>> \in reg' /\ (q \in managed => q \in managed')
    BY <1>4, <2>1
  <2>2. QED
    BY <2>1 DEF OthersKept
<1>8. PICK r \in Worker : /\ Step(n, r) /\ r.alive = w[n].alive /\ r.phase = w[n].phase
                          /\ \/ w[n].pc = "remove" /\ r.pc = "stop"
                             \/ w[n].pc = "rebindRemove" /\ r.pc = "rebindAdd"
                          /\ r.port = p /\ r.target = w[n].target
                          /\ r.standalone = w[n].standalone
  <2>1. CASE TeardownRemove(n)
    <3> DEFINE s == [w[n] EXCEPT !.inst = FALSE, !.pc = "stop"]
    <3>1. /\ s \in Worker /\ s.phase = w[n].phase /\ s.alive = w[n].alive
          /\ s.port = p /\ s.pc = "stop" /\ s.target = w[n].target
          /\ s.standalone = w[n].standalone
      BY <1>2 DEF Worker, PCs
    <3>2. Step(n, s) /\ w[n].pc = "remove"
      BY <2>1 DEF TeardownRemove
    <3> HIDE DEF s
    <3>3. QED
      BY <3>1, <3>2
  <2>2. CASE RebindRemove(n)
    <3> DEFINE s == [w[n] EXCEPT !.pc = "rebindAdd"]
    <3>1. /\ s \in Worker /\ s.phase = w[n].phase /\ s.alive = w[n].alive
          /\ s.port = p /\ s.pc = "rebindAdd" /\ s.target = w[n].target
          /\ s.standalone = w[n].standalone
      BY <1>2 DEF Worker, PCs
    <3>2. Step(n, s) /\ w[n].pc = "rebindRemove"
      BY <2>2 DEF RebindRemove
    <3> HIDE DEF s
    <3>3. QED
      BY <3>1, <3>2
  <2>3. QED
    BY <2>1, <2>2
<1>9. w[n].alive /\ w'[n] = r /\ w' = [w EXCEPT ![n] = w'[n]]
  BY <1>2, <1>8, CallRecord
<1>10. PassOK(n)' /\ RegOK(n)'
  BY <1>2, <1>3, <1>5, <1>8, <1>9 DEF PassOK, RegOK, Holds
<1>11. HoldOK(n)' /\ (ContainerOK(n) => ContainerOK(n)')
  BY <1>2, <1>5, <1>8, <1>9 DEF HoldOK, Holds, ContainerOK
<1>12. QED
  BY <1>1, <1>6, <1>7, <1>8, <1>9, <1>10, <1>11 DEF WorkerMove

\* The proxy: a reaped standalone server gives its port back.
LEMMA ReapCall ==
  ASSUME FleetTypeOK, FleetInv, NEW n \in Names, ReapUnmanage(n)
  PROVE  WorkerMove(n)
<1> DEFINE s == [w[n] EXCEPT !.cancelled = TRUE]
<1>1. /\ UNCHANGED <<rows, clusterPort, shutdown, waiting>>
      /\ rows' \in [Names -> Row \cup {NoRow}]
      /\ container' \in [Names -> {"none", "running", "exited"}]
      /\ \A m \in Names \ {n} : container'[m] = container[m]
  BY CallIsLocal
<1>2. /\ w[n] \in Worker /\ w[n].pc = "unmanage" /\ container' = container
      /\ PassOK(n) /\ RegOK(n) /\ Step(n, Done(s))
  BY DEF FleetTypeOK, FleetInv, ReapUnmanage
<1>3. /\ s \in Worker /\ s.alive = w[n].alive /\ s.phase = w[n].phase /\ s.port = w[n].port
      /\ s.standalone = w[n].standalone
  BY <1>2 DEF Worker
<1> HIDE DEF s
<1>4. /\ Done(s) \in Worker /\ Done(s).pc = "select" /\ Done(s).target = NoPort
      /\ Done(s).alive = w[n].alive /\ Done(s).phase = w[n].phase
      /\ Done(s).port = w[n].port /\ Done(s).standalone = w[n].standalone
  BY <1>3, DoneFields
<1>5. w[n].alive /\ w'[n] = Done(s) /\ w' = [w EXCEPT ![n] = w'[n]]
  BY <1>2, <1>4, CallRecord
<1>6. \/ UNCHANGED <<managed, reg>>
      \/ /\ w[n].standalone /\ w[n].port # NoPort
         /\ managed' = managed \ {w[n].port} /\ reg' = {r \in reg : r[1] # w[n].port}
  BY DEF ReapUnmanage, Unmanage, proxyVars
<1>7. managed' \subseteq managed /\ reg' \subseteq reg
  BY <1>6
<1>8. OthersKept(n)
  BY <1>6 DEF OthersKept
<1>9. \A p \in Ports : <<p, n>> \notin reg
  BY <1>2 DEF RegOK, Holds
<1>10. PassOK(n)' /\ RegOK(n)'
  BY <1>2, <1>4, <1>5, <1>7, <1>9 DEF PassOK, RegOK, Holds
<1>11. HoldOK(n)' /\ (ContainerOK(n) => ContainerOK(n)')
  BY <1>2, <1>4, <1>5, <1>7, <1>9 DEF HoldOK, Holds, ContainerOK, PassOK
<1>12. QED
  BY <1>1, <1>4, <1>5, <1>7, <1>8, <1>10, <1>11 DEF WorkerMove, FleetTypeOK

\* Every step of a worker.
LEMMA WorkerMoves ==
  ASSUME FleetTypeOK, FleetInv, NEW n \in Names,
         \/ Reconcile(n) \/ Continue(n) \/ WorkerExit(n) \/ BackoffElapses(n) \/ Dispatch(n)
  PROVE  WorkerMove(n)
<1>1. CASE \/ Reconcile(n) \/ LifecycleNone(n) \/ LifecycleStop(n) \/ LifecycleRestart(n)
           \/ WorkerExit(n) \/ BackoffElapses(n) \/ Dispatch(n)
  BY <1>1, QuietReconcile, QuietRest, QuietIsMove
<1>2. CASE Continue(n) /\ ~(LifecycleNone(n) \/ LifecycleStop(n) \/ LifecycleRestart(n))
  BY <1>2, DockerCalls, AddCalls, RemoveCalls, ReapCall DEF Continue
<1>3. QED
  BY <1>1, <1>2

-----------------------------------------------------------------------------
(***************************************************************************)
(* What happens to the workers from outside: a container dies, the process *)
(* is told to shut down, the manager leaves its loop.                      *)
(***************************************************************************)
OutsideMove ==
  /\ UNCHANGED <<rows, clusterPort, managed, reg>>
  /\ shutdown' \in BOOLEAN /\ waiting' \in BOOLEAN
  /\ w' \in [Names -> Worker] /\ container' \in [Names -> {"none", "running", "exited"}]
  /\ \A m \in Names :
       /\ ~w[m].alive => w'[m] = w[m]
       /\ w'[m].alive = w[m].alive /\ w'[m].pc = w[m].pc /\ w'[m].phase = w[m].phase
       /\ w'[m].port = w[m].port /\ w'[m].target = w[m].target
       /\ w'[m].standalone = w[m].standalone
       /\ container'[m] = container[m] \/ container'[m] = "exited"

\* A container that dies, the shutdown and the manager's wait are outside moves.
LEMMA OutsideMoves ==
  ASSUME FleetTypeOK, FleetInv,
         \/ \E n \in Names : ContainerDies(n)
         \/ Shutdown \/ ManagerWaits \/ UNCHANGED vars
  PROVE  OutsideMove
<1> USE DEF dbVars, proxyVars, mgrVars
<1>1. ASSUME NEW n \in Names, ContainerDies(n) PROVE OutsideMove
  BY <1>1 DEF ContainerDies, OutsideMove, FleetTypeOK
<1>2. CASE ManagerWaits
  BY <1>2 DEF ManagerWaits, OutsideMove, FleetTypeOK
<1>3. CASE UNCHANGED vars
  BY <1>3 DEF vars, OutsideMove, FleetTypeOK
<1>4. CASE Shutdown
  <2>1. ASSUME NEW m \in Names
        PROVE  /\ w'[m] \in Worker
               /\ ~w[m].alive => w'[m] = w[m]
               /\ w'[m].alive = w[m].alive /\ w'[m].pc = w[m].pc /\ w'[m].phase = w[m].phase
               /\ w'[m].port = w[m].port /\ w'[m].target = w[m].target
               /\ w'[m].standalone = w[m].standalone
    <3> DEFINE c == w[m].cancelled \/ w[m].alive
    <3>1. w[m] \in Worker /\ c \in BOOLEAN
      BY DEF FleetTypeOK
    <3>2. w'[m] = [w[m] EXCEPT !.cancelled = c]
      BY <1>4 DEF Shutdown, FleetTypeOK
    <3> HIDE DEF c
    <3>3. /\ w'[m] \in Worker
          /\ w'[m].alive = w[m].alive /\ w'[m].pc = w[m].pc /\ w'[m].phase = w[m].phase
          /\ w'[m].port = w[m].port /\ w'[m].target = w[m].target
          /\ w'[m].standalone = w[m].standalone
      BY <3>1, <3>2 DEF Worker
    <3>4. ASSUME ~w[m].alive PROVE w'[m] = w[m]
      <4>1. w[m].cancelled \in BOOLEAN
        BY <3>1 DEF Worker
      <4>2. c = w[m].cancelled
        BY <3>4, <4>1 DEF c
      <4>3. [w[m] EXCEPT !.cancelled = w[m].cancelled] = w[m]
        BY <3>1 DEF Worker
      <4>4. QED
        BY <3>2, <4>2, <4>3
    <3>5. QED
      BY <3>3, <3>4
  <2>2. w' \in [Names -> Worker]
    <3>1. w' = [m \in Names |-> w'[m]]
      BY <1>4 DEF Shutdown
    <3>2. QED
      BY <2>1, <3>1
  <2>3. /\ UNCHANGED <<rows, clusterPort, managed, reg, container, waiting>>
        /\ shutdown' = TRUE
    BY <1>4 DEF Shutdown
  <2>4. QED
    BY <2>1, <2>2, <2>3 DEF OutsideMove, FleetTypeOK
<1>5. QED
  BY <1>1, <1>2, <1>3, <1>4

\* A step is the API's, a worker's or comes from outside.
LEMMA NextCases ==
  ASSUME FleetTypeOK, FleetInv, [Next]_vars
  PROVE  API \/ (\E n \in Names : WorkerMove(n)) \/ OutsideMove
  BY WorkerMoves, OutsideMoves DEF Next

-----------------------------------------------------------------------------
(***************************************************************************)
(* The proxy and the workers, under every fault.                           *)
(***************************************************************************)

\* The inductive step.
LEMMA StepKeepsFleet ==
  ASSUME FleetTypeOK, FleetInv, [Next]_vars
  PROVE  FleetTypeOK' /\ FleetInv'
<1>1. CASE API
  <2>1. /\ UNCHANGED <<w, container, managed, reg, shutdown, waiting>>
        /\ rows' \in [Names -> Row \cup {NoRow}] /\ clusterPort' \in Ports \cup {NoPort}
        /\ MembersHaveCluster'
    BY <1>1, APISteps DEF FleetInv
  <2>2. QED
    BY <2>1 DEF FleetTypeOK, FleetInv, PassOK, RegOK, Holds
<1>2. ASSUME NEW n \in Names, WorkerMove(n)
      PROVE  FleetTypeOK' /\ FleetInv'
  <2>1. w' \in [Names -> Worker] /\ \A m \in Names \ {n} : w'[m] = w[m]
    BY <1>2 DEF FleetTypeOK, WorkerMove
  <2>2. MembersHaveCluster'
    BY <1>2 DEF FleetInv, MembersHaveCluster, WorkerMove
  <2>3. QED
    BY <1>2, <2>1, <2>2, OneMoves DEF WorkerMove
<1>3. CASE OutsideMove
  <2>1. FleetTypeOK' /\ MembersHaveCluster'
    BY <1>3 DEF OutsideMove, FleetTypeOK, FleetInv, MembersHaveCluster
  <2>2. ASSUME NEW m \in Names PROVE PassOK(m)' /\ RegOK(m)'
    <3>1. PassOK(m) /\ RegOK(m)
      BY DEF FleetInv
    <3>2. /\ ~w[m].alive => w'[m] = w[m]
          /\ w'[m].alive = w[m].alive /\ w'[m].pc = w[m].pc /\ w'[m].phase = w[m].phase
          /\ w'[m].port = w[m].port /\ w'[m].target = w[m].target
          /\ container'[m] = container[m] \/ container'[m] = "exited"
          /\ reg' = reg
      BY <1>3 DEF OutsideMove
    <3>3. QED
      BY <3>1, <3>2 DEF PassOK, RegOK, Holds
  <2>3. QED
    BY <2>1, <2>2 DEF FleetInv
<1>4. QED
  BY <1>1, <1>2, <1>3, NextCases

\* At every point of every pass, whatever fails and whatever the API, docker or the
\* operator do meanwhile: only a worker that has still to take it back has a
\* registration with the proxy.
THEOREM FleetInvariant == Spec => [](FleetTypeOK /\ FleetInv)
<1>1. FleetTypeOK /\ FleetInv /\ [Next]_vars => (FleetTypeOK /\ FleetInv)'
  BY StepKeepsFleet
<1>2. QED
  BY InitFleet, <1>1, PTL DEF Spec

\* The proxy never routes to a server whose container has been removed, nor through a
\* port its worker would not take back: of any number of servers, under every fault
\* (worker.teardownLive and rebind call the proxy first).
THEOREM ProxyRoutesOnlyToLiveServers == Spec => []RoutedIsThere
<1>1. FleetTypeOK /\ FleetInv => RoutedIsThere
  <2> SUFFICES ASSUME FleetTypeOK, FleetInv, NEW r \in reg
               PROVE  /\ container[r[2]] # "none"
                      /\ w[r[2]].alive /\ w[r[2]].port = r[1]
                      /\ \A q \in reg : q[2] = r[2] => q = r
    BY DEF RoutedIsThere
  <2>1. ASSUME NEW q \in reg
        PROVE  /\ q[1] \in Ports /\ q[2] \in Names /\ q = <<q[1], q[2]>>
    BY DEF FleetTypeOK
  <2>2. ASSUME NEW q \in reg
        PROVE  container[q[2]] # "none" /\ w[q[2]].alive /\ w[q[2]].port = q[1]
    BY <2>1 DEF FleetInv, RegOK
  <2>3. QED
    BY <2>1, <2>2
<1>2. QED
  BY <1>1, FleetInvariant, PTL

-----------------------------------------------------------------------------
(***************************************************************************)
(* The routes of running servers, where ports do not change hands.         *)
(***************************************************************************)

\* The port of a row is one of its server's own.
LEMMA EffPortIsOwn ==
  ASSUME PortsKeepOwners, FleetTypeOK, FleetInv, NEW n \in Names, rows[n] # NoRow,
         OwnPortOK(n), clusterPort \in ClusterPorts \cup {NoPort}
  PROVE  /\ EffPort(n) \in PortsOf(n)
         /\ Standalone(n) => ~(Homes[n] \subseteq {Clustered})
<1>1. rows[n].home \in Homes[n]
  BY DEF OwnPortOK
<1>2. CASE rows[n].home = Clustered
  <2>1. Homes[n] \subseteq {Clustered}
    BY <1>1, <1>2, PortsAssumption DEF PortsKeepOwners
  <2>2. EffPort(n) = clusterPort /\ clusterPort # NoPort
    BY <1>2 DEF EffPort, FleetInv, MembersHaveCluster
  <2>3. QED
    BY <1>2, <2>1, <2>2 DEF PortsOf, Standalone
<1>3. CASE rows[n].home # Clustered
  BY <1>1, <1>3 DEF PortsOf, EffPort
<1>4. QED
  BY <1>2, <1>3

\* Two servers have ports of their own, or both have the cluster's.
LEMMA OwnPortsApart ==
  ASSUME PortsKeepOwners, NEW n \in Names, NEW m \in Names \ {n},
         ~(Homes[n] \subseteq {Clustered})
  PROVE  PortsOf(n) = Homes[n] /\ PortsOf(n) \cap PortsOf(m) = {}
<1>1. /\ Homes[n] \subseteq Ports \ ClusterPorts
      /\ Homes[n] \cap Homes[m] = {}
  BY DEF PortsKeepOwners
<1>2. QED
  BY <1>1 DEF PortsOf

\* The inductive step.
LEMMA StepKeepsRouting ==
  ASSUME PortsKeepOwners, FleetTypeOK, FleetInv, RoutingInv, [Next]_vars
  PROVE  RoutingInv'
<1> USE DEF FleetTypeOK
<1>1. CASE API
  <2>1. /\ UNCHANGED <<w, container, managed, reg, shutdown, waiting>>
        /\ rows' \in [Names -> Row \cup {NoRow}] /\ MembersHaveCluster'
    BY <1>1, APISteps DEF FleetInv
  <2> DEFINE OwnHomes == /\ clusterPort \in ClusterPorts \cup {NoPort}
                         /\ \A n \in Names : rows[n] # NoRow => rows[n].home \in Homes[n]
  <2>2. OwnHomes'
    <3>1. clusterPort \in ClusterPorts \cup {NoPort}
      BY DEF RoutingInv
    <3>2. \A n \in Names : rows[n] # NoRow => rows[n].home \in Homes[n]
      BY DEF RoutingInv, OwnPortOK
    <3>3. ASSUME NEW n \in Names, NEW home \in Ports \cup {Clustered}, NEW desired \in Desired,
                 CreateServer(n, home, desired)
          PROVE  OwnHomes'
      BY <3>1, <3>2, <3>3 DEF CreateServer
    <3>4. ASSUME NEW n \in Names, NEW home \in Ports \cup {Clustered}, UpdateServer(n, home)
          PROVE  OwnHomes'
      BY <3>1, <3>2, <3>4 DEF UpdateServer, Row
    <3>5. ASSUME NEW n \in Names, NEW desired \in Desired, SetDesired(n, desired)
          PROVE  OwnHomes'
      BY <3>1, <3>2, <3>5 DEF SetDesired, Row
    <3>6. ASSUME NEW n \in Names, DeleteServer(n) PROVE OwnHomes'
      BY <3>1, <3>2, <3>6 DEF DeleteServer
    <3>7. ASSUME NEW p \in Ports, SetCluster(p) PROVE OwnHomes'
      BY <3>1, <3>2, <3>7 DEF SetCluster
    <3>8. CASE DeleteCluster
      BY <3>1, <3>2, <3>8 DEF DeleteCluster
    <3>9. QED
      BY <1>1, <3>3, <3>4, <3>5, <3>6, <3>7, <3>8 DEF API
  <2>3. QED
    BY <2>1, <2>2 DEF RoutingInv, OwnPortOK, HoldOK, Holds
<1>2. ASSUME NEW n \in Names, WorkerMove(n)
      PROVE  RoutingInv'
  <2>1. clusterPort' \in ClusterPorts \cup {NoPort}
    BY <1>2 DEF WorkerMove, RoutingInv
  <2>2. OwnPortOK(n)' /\ HoldOK(n)'
    <3>1. OwnPortOK(n) /\ HoldOK(n) /\ clusterPort \in ClusterPorts \cup {NoPort}
      BY DEF RoutingInv
    <3>2. HoldOK(n)'
      BY <1>2, <3>1 DEF WorkerMove
    <3>3. rows'[n] # NoRow => rows'[n].home \in Homes[n]
      BY <1>2, <3>1 DEF WorkerMove, OwnPortOK
    <3>4. /\ w'[n].port \in PortsOf(n) \cup {NoPort}
          /\ w'[n].target \in PortsOf(n) \cup {NoPort}
      BY <1>2, <3>1, EffPortIsOwn DEF WorkerMove, OwnPortOK
    <3>5. w'[n].standalone => ~(Homes[n] \subseteq {Clustered})
      BY <1>2, <3>1, EffPortIsOwn DEF WorkerMove, OwnPortOK
    <3>6. QED
      BY <3>2, <3>3, <3>4, <3>5 DEF OwnPortOK, PortsOf
  <2>3. ASSUME NEW m \in Names \ {n} PROVE OwnPortOK(m)' /\ HoldOK(m)'
    <3>1. OwnPortOK(m) /\ HoldOK(m) /\ OwnPortOK(n) /\ RegOK(m)
      BY DEF RoutingInv, FleetInv
    <3>2. w'[m] = w[m]
      BY <1>2 DEF WorkerMove
    <3>3. OwnPortOK(m)'
      BY <1>2, <3>1, <3>2 DEF WorkerMove, OwnPortOK, PortsOf
    <3>4. \A p \in Ports : <<p, m>> \in reg' => <<p, m>> \in reg
      BY <1>2 DEF WorkerMove
    <3>5. \A p \in Ports : <<p, m>> \in reg =>
            <<p, m>> \in reg' /\ (p \in managed => p \in managed')
      <4>1. CASE /\ w[n].standalone /\ w[n].port # NoPort
                 /\ managed' = managed \ {w[n].port} /\ reg' = {r \in reg : r[1] # w[n].port}
        <5>1. w[n].port \in PortsOf(n) /\ ~(Homes[n] \subseteq {Clustered})
          BY <3>1, <4>1 DEF OwnPortOK
        <5>2. ASSUME NEW p \in Ports, <<p, m>> \in reg PROVE p \in PortsOf(m)
          BY <3>1, <5>2, PortsAssumption DEF RegOK, OwnPortOK
        <5>3. \A p \in Ports : <<p, m>> \in reg => p # w[n].port
          BY <5>1, <5>2, OwnPortsApart
        <5>4. QED
          BY <4>1, <5>3
      <4>2. QED
        BY <1>2, <4>1 DEF WorkerMove, OthersKept
    <3>6. HoldOK(m)'
      <4>1. w[m].port \in Ports \/ ~Holds(m)
        BY DEF FleetInv, PassOK, Holds
      <4>2. QED
        BY <3>1, <3>2, <3>4, <3>5, <4>1 DEF HoldOK, Holds
    <3>7. QED
      BY <3>3, <3>6
  <2>4. QED
    BY <2>1, <2>2, <2>3 DEF RoutingInv
<1>3. CASE OutsideMove
  BY <1>3 DEF OutsideMove, RoutingInv, OwnPortOK, HoldOK, Holds, PortsOf
<1>4. QED
  BY <1>1, <1>2, <1>3, NextCases

\* Where no port passes from one owner to another, a server its worker reports running
\* is what the proxy routes to on the worker's port: no other worker's reap, rebind or
\* failed AddBackend takes a registration away, whatever fails (worker.reap unmanages
\* standalone ports only, RemoveBackend unbinds an empty one only).
THEOREM RunningServersAreRouted ==
  ASSUME PortsKeepOwners
  PROVE  Spec => []RunningIsRouted
<1>1. Init => RoutingInv
  <2> SUFFICES ASSUME Init PROVE RoutingInv
    OBVIOUS
  <2>1. /\ NoWorker.pc = "select" /\ NoWorker.phase = "pending" /\ NoWorker.port = NoPort
        /\ NoWorker.target = NoPort /\ NoWorker.standalone = FALSE
    BY SpawnedFields DEF NoWorker
  <2>2. QED
    BY <2>1 DEF Init, RoutingInv, OwnPortOK, HoldOK, Holds
<1>2. FleetTypeOK /\ FleetInv /\ RoutingInv /\ [Next]_vars => RoutingInv'
  BY StepKeepsRouting
<1>3. FleetTypeOK /\ FleetInv /\ RoutingInv => RunningIsRouted
  BY DEF RunningIsRouted, FleetTypeOK, FleetInv, PassOK, RoutingInv, HoldOK, Holds, InSelect
<1>4. QED
  BY <1>1, <1>2, <1>3, FleetInvariant, PTL DEF Spec

-----------------------------------------------------------------------------
(***************************************************************************)
(* Containers, where docker does what it is told.                          *)
(***************************************************************************)

\* The inductive step.
LEMMA StepKeepsContainers ==
  ASSUME StopsSucceed, FleetTypeOK, FleetInv, ContainerInv, [Next]_vars
  PROVE  ContainerInv'
<1>1. CASE API
  BY <1>1, APISteps DEF FleetInv, ContainerInv, ContainerOK
<1>2. ASSUME NEW n \in Names, WorkerMove(n) PROVE ContainerInv'
  <2>1. ContainerOK(n)'
    BY <1>2 DEF WorkerMove, ContainerInv
  <2>2. ASSUME NEW m \in Names \ {n} PROVE ContainerOK(m)'
    BY <1>2 DEF WorkerMove, FleetTypeOK, ContainerInv, ContainerOK
  <2>3. QED
    BY <2>1, <2>2 DEF ContainerInv
<1>3. CASE OutsideMove
  BY <1>3 DEF OutsideMove, ContainerInv, ContainerOK
<1>4. QED
  BY <1>1, <1>2, <1>3, NextCases

\* Where stops and registrations succeed, a container runs only between its start and
\* its stop, although starts fail halfway and inspections report the living as dead.
THEOREM ContainerInvariant ==
  ASSUME StopsSucceed
  PROVE  Spec => []ContainerInv
<1>1. Init => ContainerInv
  BY DEF Init, ContainerInv, ContainerOK
<1>2. FleetTypeOK /\ FleetInv /\ ContainerInv /\ [Next]_vars => ContainerInv'
  BY StepKeepsContainers
<1>3. QED
  BY <1>1, <1>2, FleetInvariant, PTL DEF Spec

\* So a worker that reports its server as not live has no running container (worker.go,
\* "not live, by intent"; with failing stops, TLC refutes it).
THEOREM NotLiveHasNoContainer ==
  ASSUME StopsSucceed
  PROVE  Spec => []NotLiveMeansNoContainer
<1>1. ContainerInv => NotLiveMeansNoContainer
  BY DEF ContainerInv, ContainerOK, NotLiveMeansNoContainer
<1>2. QED
  BY <1>1, ContainerInvariant, PTL

\* When the manager has returned from a shutdown, no server runs and the proxy has no
\* backend (Manager.Run waits for all workers; main then removes the bridge).
THEOREM ShutdownLeavesNothing ==
  ASSUME StopsSucceed
  PROVE  Spec => []ReturnedMeansEmpty
<1>1. FleetTypeOK /\ FleetInv /\ ContainerInv => ReturnedMeansEmpty
  <2> SUFFICES ASSUME FleetTypeOK, FleetInv, ContainerInv, Returned
               PROVE  reg = {} /\ \A n \in Names : container[n] # "running"
    BY DEF ReturnedMeansEmpty
  <2>1. ASSUME NEW n \in Names PROVE ~w[n].alive /\ w[n].phase = "pending"
    <3>1. ~w[n].alive
      BY DEF Returned
    <3>2. w[n] = NoWorker
      BY <3>1 DEF FleetInv, PassOK
    <3>3. QED
      BY <3>1, <3>2, SpawnedFields DEF NoWorker
  <2>2. reg = {}
    BY <2>1 DEF FleetInv, RegOK, FleetTypeOK
  <2>3. QED
    BY <2>1, <2>2 DEF ContainerInv, ContainerOK
<1>2. QED
  BY <1>1, FleetInvariant, ContainerInvariant, PTL

=============================================================================
