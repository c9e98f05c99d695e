---------------------------- MODULE LeasesProofs ----------------------------
(***************************************************************************)
(* Proofs about Leases, for any number of servers, addresses, requests in  *)
(* flight and faults: although an address changes hands before its former  *)
(* owner is torn down, it has one holder and the holder is registered.     *)
(***************************************************************************)
EXTENDS Leases, WellFoundedInduction, TLAPS

\* allocateIP finds an address whenever one is free.
LEMMA LeastIsMember ==
  ASSUME NEW S \in SUBSET Nat, S # {}
  PROVE  Min(S) \in S
<1>1. PICK x \in S : \A y \in S : ~(<<y, x>> \in OpToRel(<, Nat))
  BY NatLessThanWellFounded, WFMin
<1>2. \A y \in S : ~(y < x)
  BY <1>1, Zenon DEF OpToRel
<1>3. \A y \in S : x <= y
  BY <1>2
<1>4. QED
  BY <1>3, Zenon DEF Min

-----------------------------------------------------------------------------
\* The database, the workers and docker start empty.
LEMMA InitLeases == Init => LeasesTypeOK /\ LeaseInv
  BY DEF Init, LeasesTypeOK, LeaseInv, PassInv, OneRunning, HoldingIsUp, HeldIsRegistered,
         NoWorker, Worker, Holding, Up

\* The handlers write rows and requests, of the right types, and nothing else.
LEMMA APIType ==
  ASSUME LeasesTypeOK, API
  PROVE  LeasesTypeOK' /\ UNCHANGED <<wk, container, reg, lost>>
<1> USE DEF LeasesTypeOK
<1>1. ASSUME NEW h \in Handlers, NEW n \in Names, NEW d \in Defs, CreateAllocate(h, n, d)
      PROVE  LeasesTypeOK' /\ UNCHANGED <<wk, container, reg, lost>>
  <2>1. Min(FreeIPs) \in IPs
    BY <1>1, LeastIsMember, LeasesAssumption DEF CreateAllocate, FreeIPs
  <2>2. [ip |-> Min(FreeIPs), desired |-> "running", def |-> d] \in Row
    BY <2>1 DEF Row, Desired
  <2>3. QED
    BY <1>1, <2>2 DEF CreateAllocate, Request
<1>2. ASSUME NEW h \in Handlers, NEW n \in Names, NEW desired \in Desired,
             UpdateRead(h, n, desired)
      PROVE  LeasesTypeOK' /\ UNCHANGED <<wk, container, reg, lost>>
  <2>1. [rows[n] EXCEPT !.desired = desired] \in Row
    BY <1>2 DEF UpdateRead, Row
  <2>2. QED
    BY <1>2, <2>1 DEF UpdateRead, Request
<1>3. ASSUME NEW h \in Handlers, CreateInsert(h)
      PROVE  LeasesTypeOK' /\ UNCHANGED <<wk, container, reg, lost>>
  BY <1>3 DEF CreateInsert, Request
<1>4. ASSUME NEW h \in Handlers, UpdateWrite(h)
      PROVE  LeasesTypeOK' /\ UNCHANGED <<wk, container, reg, lost>>
  <2>1. req[h] \in Request
    BY <1>4 DEF UpdateWrite
  <2>2. rows' \in [Names -> Row \cup {None}]
    BY <1>4, <2>1 DEF UpdateWrite, Request, Row
  <2>3. QED
    BY <1>4, <2>2 DEF UpdateWrite
<1>5. ASSUME NEW n \in Names, DeleteServer(n)
      PROVE  LeasesTypeOK' /\ UNCHANGED <<wk, container, reg, lost>>
  BY <1>5 DEF DeleteServer
<1>6. ASSUME NEW n \in Names, NEW desired \in Desired, SetDesired(n, desired)
      PROVE  LeasesTypeOK' /\ UNCHANGED <<wk, container, reg, lost>>
  BY <1>6 DEF SetDesired, Row
<1>7. QED
  BY <1>1, <1>2, <1>3, <1>4, <1>5, <1>6 DEF API

\* A worker and its container keep their types.
LEMMA WorkerType ==
  ASSUME LeasesTypeOK, PassInv, NEW n \in Names,
         Dispatch(n) \/ Reconcile(n) \/ Continue(n) \/ ContainerDies(n)
  PROVE  LeasesTypeOK'
<1> USE DEF LeasesTypeOK, Step
<1>0. wk[n] \in Worker /\ NoWorker \in Worker /\ Idle(wk[n]) \in Worker
  BY DEF Worker, NoWorker, Idle
<1>1. CASE Dispatch(n)
  BY <1>0, <1>1 DEF Dispatch, Worker, NoWorker
<1>2. CASE ReconcileReap(n)
  BY <1>0, <1>2 DEF ReconcileReap, Worker
<1>3. CASE ReconcileDown(n)
  BY <1>0, <1>3 DEF ReconcileDown, Worker
<1>4. CASE ReconcileUp(n)
  <2>1. rows[n] \in Row
    BY <1>4 DEF ReconcileUp
  <2>2. QED
    BY <1>0, <1>4, <2>1 DEF ReconcileUp, Worker, Row
<1>5. CASE StartOK(n)
  <2>1. wk[n].ip \in IPs
    BY <1>5 DEF StartOK, PassInv
  <2>2. QED
    BY <1>0, <1>5, <2>1 DEF StartOK, Worker, Container
<1>6. CASE StartError(n)
  BY <1>0, <1>6 DEF StartError
<1>7. CASE AddOK(n)
  <2>1. wk[n].ip \in IPs
    BY <1>7 DEF AddOK, PassInv, Holding
  <2>2. QED
    BY <1>0, <1>7, <2>1 DEF AddOK, Worker
<1>8. CASE AddError(n)
  BY <1>0, <1>8 DEF AddError, GiveUp
<1>9. CASE TeardownRemove(n)
  BY <1>0, <1>9 DEF TeardownRemove, GiveUp, Worker
<1>10. CASE TeardownStop(n)
  BY <1>0, <1>10 DEF TeardownStop
<1>11. CASE ContainerDies(n)
  BY <1>11 DEF ContainerDies, Up, Container
<1>12. QED
  BY <1>1, <1>2, <1>3, <1>4, <1>5, <1>6, <1>7, <1>8, <1>9, <1>10, <1>11
  DEF Reconcile, Continue

-----------------------------------------------------------------------------
\* What keeps the invariant when only one worker moves: the others hold what they held
\* where it was, their containers run on, and the mover meets its own part.
LEMMA OneMoves ==
  ASSUME LeasesTypeOK, LeaseInv, LeasesTypeOK', NEW n \in Names,
         \A m \in Names \ {n} : wk'[m] = wk[m] /\ container'[m] = container[m],
         \* the mover's own part
         wk'[n].pc \in {"none", "start", "add", "stop"} => ~wk'[n].live,
         wk'[n].pc = "remove" => wk'[n].live,
         Holding(n)' \/ wk'[n].pc = "start" => wk'[n].ip \in IPs,
         Holding(n)' => RunningAt(n, wk[n].ip)' \/ wk'[n].ip \in lost',
         wk'[n].live /\ wk'[n].pc # "remove" => wk'[n].ip \in reg' \cup lost',
         \* what it takes from others
         Up(n)' => \A m \in Names \ {n} : Up(m) => container[m].ip # container'[n].ip,
         \A m \in Names \ {n} : Holding(m) /\ wk[m].ip \in lost => wk[m].ip \in lost',
         \A m \in Names \ {n} :
           Holding(m) /\ wk[m].ip \in reg \cup lost => wk[m].ip \in reg' \cup lost'
  PROVE  LeaseInv'
<1>1. PassInv'
  BY DEF LeaseInv, PassInv, Holding
<1>2. OneRunning'
  BY DEF LeaseInv, OneRunning, Up
<1>3. HoldingIsUp'
  BY DEF LeaseInv, HoldingIsUp, Holding, RunningAt
<1>4. HeldIsRegistered'
  BY DEF LeaseInv, HeldIsRegistered, Holding
<1>5. QED
  BY <1>1, <1>2, <1>3, <1>4 DEF LeaseInv

\* The heart of the argument.  A worker that gives its address up takes no registration
\* from another holder: docker gave the address to one running container, so that one
\* of two holders has lost its own, and then the history remembers.
LEMMA GivingUpIsSafe ==
  ASSUME LeasesTypeOK, LeaseInv, NEW n \in Names, Holding(n), GiveUp(n),
         reg' = reg \ {wk[n].ip}
  PROVE  \A m \in Names \ {n} : Holding(m) =>
           /\ wk[m].ip \in lost => wk[m].ip \in lost'
           /\ wk[m].ip \in reg \cup lost => wk[m].ip \in reg' \cup lost'
<1> SUFFICES ASSUME NEW m \in Names \ {n}, Holding(m)
             PROVE  /\ wk[m].ip \in lost => wk[m].ip \in lost'
                    /\ wk[m].ip \in reg \cup lost => wk[m].ip \in reg' \cup lost'
  OBVIOUS
<1>1. CASE wk[m].ip # wk[n].ip
  BY <1>1 DEF GiveUp
<1>2. CASE wk[m].ip = wk[n].ip
  <2>1. wk[m].ip \in lost
    BY <1>2 DEF LeaseInv, HoldingIsUp, OneRunning, RunningAt, Up
  <2>2. lost' = lost
    BY <1>2 DEF GiveUp, Holding
  <2>3. QED
    BY <2>1, <2>2
<1>3. QED
  BY <1>1, <1>2

\* Every step of a worker, of docker and of a container keeps the invariant.
LEMMA WorkerInv ==
  ASSUME LeasesTypeOK, LeaseInv, LeasesTypeOK', NEW n \in Names,
         Dispatch(n) \/ Reconcile(n) \/ Continue(n) \/ ContainerDies(n)
  PROVE  LeaseInv'
<1>0. /\ wk[n] \in Worker
      /\ Idle(wk[n]).pc = "select" /\ Idle(wk[n]).live = wk[n].live
      /\ NoWorker.pc = "none" /\ NoWorker.live = FALSE
  BY DEF LeasesTypeOK, Worker, Idle, NoWorker
<1>p. /\ wk[n].pc \in {"none", "start", "add", "stop"} => ~wk[n].live
      /\ wk[n].pc = "remove" => wk[n].live
      /\ Holding(n) \/ wk[n].pc = "start" => wk[n].ip \in IPs
  BY DEF LeaseInv, PassInv
<1>u. /\ Holding(n) => RunningAt(n, wk[n].ip) \/ wk[n].ip \in lost
      /\ wk[n].live /\ wk[n].pc # "remove" => wk[n].ip \in reg \cup lost
      /\ \A m \in Names \ {n} : Up(n) /\ Up(m) => container[m].ip # container[n].ip
  BY DEF LeaseInv, HoldingIsUp, HeldIsRegistered, OneRunning
<1>1. ASSUME Dispatch(n) \/ Reconcile(n)
      PROVE  LeaseInv'
  <2>1. /\ UNCHANGED <<container, reg, lost>>
        /\ \A m \in Names \ {n} : wk'[m] = wk[m]
        /\ wk'[n].live => wk[n].live /\ wk'[n].ip = wk[n].ip
        /\ wk'[n].pc \in {"none", "start", "add", "stop"} => ~wk'[n].live
        /\ wk'[n].pc = "remove" => wk'[n].live
        /\ wk'[n].pc # "add"
        /\ wk'[n].pc = "start" => wk'[n].ip \in IPs
        /\ wk[n].pc # "remove"
    <3> USE DEF LeasesTypeOK, Step
    <3>1. CASE Dispatch(n)
      BY <1>0, <1>p, <3>1 DEF Dispatch, NoWorker
    <3>2. CASE ReconcileReap(n)
      BY <1>0, <1>p, <3>2 DEF ReconcileReap, Worker
    <3>3. CASE ReconcileDown(n)
      BY <1>0, <1>p, <3>3 DEF ReconcileDown, Worker
    <3>4. CASE ReconcileUp(n)
      <4>1. rows[n] \in Row
        BY <3>4 DEF ReconcileUp
      <4>2. QED
        BY <1>0, <1>p, <3>4, <4>1 DEF ReconcileUp, Worker, Row
    <3>5. QED
      BY <1>1, <3>1, <3>2, <3>3, <3>4 DEF Reconcile
  <2>2. Holding(n)' => Holding(n) /\ wk'[n].ip = wk[n].ip
    BY <2>1 DEF Holding
  <2>3. QED
    BY <1>p, <1>u, <2>1, <2>2, OneMoves DEF Holding, RunningAt, Up
<1>2. CASE StartOK(n)
  <2>1. /\ UNCHANGED <<reg, lost>>
        /\ \A m \in Names \ {n} : wk'[m] = wk[m] /\ container'[m] = container[m]
        /\ wk'[n].pc = "add" /\ ~wk'[n].live /\ wk'[n].ip = wk[n].ip /\ wk[n].ip \in IPs
        /\ container'[n] = [ip |-> wk[n].ip, running |-> TRUE]
    BY <1>0, <1>p, <1>2 DEF StartOK, Step, LeasesTypeOK, Worker
  <2>2. container'[n] # None
    <3>1. [ip |-> wk[n].ip, running |-> TRUE] \in Container
      BY <2>1 DEF Container
    <3>2. QED
      BY <2>1, <3>1, NoneAssumption, Zenon
  <2>3. QED
    BY <1>2, <2>1, <2>2, OneMoves DEF StartOK, AddressInUse, Holding, RunningAt, Up
<1>3. CASE StartError(n)
  <2>1. /\ UNCHANGED <<reg, lost>>
        /\ \A m \in Names \ {n} : wk'[m] = wk[m] /\ container'[m] = container[m]
        /\ wk'[n].pc = "select" /\ ~wk'[n].live
        /\ container'[n] \in {None, container[n]}
    BY <1>0, <1>p, <1>3 DEF StartError, Step, LeasesTypeOK
  <2>2. QED
    BY <1>u, <2>1, OneMoves DEF Holding, Up
<1>4. CASE AddOK(n)
  <2>1. /\ UNCHANGED <<container, lost>> /\ reg' = reg \cup {wk[n].ip}
        /\ \A m \in Names \ {n} : wk'[m] = wk[m]
        /\ wk'[n].pc = "select" /\ wk'[n].live /\ wk'[n].ip = wk[n].ip
        /\ Holding(n)
    BY <1>0, <1>4 DEF AddOK, Step, LeasesTypeOK, Worker, Holding
  <2>2. QED
    BY <1>p, <1>u, <2>1, OneMoves DEF Holding, RunningAt, Up
<1>5. CASE AddError(n)
  <2>1. /\ \A m \in Names \ {n} : wk'[m] = wk[m] /\ container'[m] = container[m]
        /\ wk'[n].pc = "select" /\ ~wk'[n].live /\ container'[n] = None
        /\ Holding(n) /\ GiveUp(n) /\ reg' = reg \ {wk[n].ip}
    BY <1>0, <1>p, <1>5 DEF AddError, Step, LeasesTypeOK, Holding
  <2>2. QED
    BY <2>1, GivingUpIsSafe, OneMoves DEF Holding, Up
<1>6. CASE TeardownRemove(n)
  <2>1. /\ UNCHANGED container
        /\ \A m \in Names \ {n} : wk'[m] = wk[m]
        /\ wk'[n].pc = "stop" /\ ~wk'[n].live
        /\ Holding(n) /\ GiveUp(n) /\ reg' = reg \ {wk[n].ip}
    BY <1>0, <1>p, <1>6 DEF TeardownRemove, Step, LeasesTypeOK, Holding, Worker
  <2>2. QED
    BY <1>u, <2>1, GivingUpIsSafe, OneMoves DEF Holding, Up
<1>7. CASE TeardownStop(n)
  <2>1. /\ UNCHANGED <<reg, lost>>
        /\ \A m \in Names \ {n} : wk'[m] = wk[m] /\ container'[m] = container[m]
        /\ wk'[n].pc \in {"none", "select"} /\ ~wk'[n].live
        /\ container'[n] \in {None, container[n]}
    BY <1>0, <1>p, <1>7 DEF TeardownStop, Step, LeasesTypeOK
  <2>2. QED
    BY <1>u, <2>1, OneMoves DEF Holding, Up
<1>8. CASE ContainerDies(n)
  <2>1. /\ UNCHANGED <<wk, reg>> /\ lost' = lost \cup {container[n].ip}
        /\ \A m \in Names \ {n} : container'[m] = container[m]
        /\ container[n] \in Container /\ ~Up(n)'
    BY <1>8 DEF ContainerDies, LeasesTypeOK, Up, Container
  <2>2. QED
    BY <1>p, <1>u, <2>1, OneMoves DEF Holding, RunningAt
<1>9. QED
  BY <1>1, <1>2, <1>3, <1>4, <1>5, <1>6, <1>7, <1>8 DEF Continue

-----------------------------------------------------------------------------
\* The types and the inductive invariant hold in every state of every behaviour.
THEOREM LeaseInvariant == Spec => [](LeasesTypeOK /\ LeaseInv)
<1>1. Init => LeasesTypeOK /\ LeaseInv
  BY InitLeases
<1>2. LeasesTypeOK /\ LeaseInv /\ [Next]_vars => (LeasesTypeOK /\ LeaseInv)'
  <2> SUFFICES ASSUME LeasesTypeOK, LeaseInv, [Next]_vars
               PROVE  LeasesTypeOK' /\ LeaseInv'
    OBVIOUS
  <2>1. ASSUME UNCHANGED <<wk, container, reg, lost>> PROVE LeaseInv'
    BY <2>1 DEF LeaseInv, PassInv, OneRunning, HoldingIsUp, HeldIsRegistered, Holding,
                RunningAt, Up
  <2>2. CASE UNCHANGED vars
    BY <2>1, <2>2 DEF vars, LeasesTypeOK
  <2>3. CASE API
    BY <2>1, <2>3, APIType
  <2>4. ASSUME NEW n \in Names,
               Dispatch(n) \/ Reconcile(n) \/ Continue(n) \/ ContainerDies(n)
        PROVE  LeasesTypeOK' /\ LeaseInv'
    BY <2>4, WorkerType, WorkerInv DEF LeaseInv
  <2>5. QED
    BY <2>2, <2>3, <2>4 DEF Next
<1>3. QED
  BY <1>1, <1>2, PTL DEF Spec

\* Whoever creates, updates and deletes servers in whatever order, two workers never
\* hold instances on one address, unless a container died there by itself.
THEOREM AddressHasOneHolder == Spec => []OneHolder
<1>1. LeaseInv => OneHolder
  BY DEF LeaseInv, HoldingIsUp, OneRunning, OneHolder, Holding, RunningAt, Up
<1>2. QED
  BY <1>1, LeaseInvariant, PTL

\* No teardown or failed start of another owner of the address takes a server's
\* registration away, with the same exception.
THEOREM HolderStaysRegistered == Spec => []HeldIsRegistered
<1>1. LeaseInv => HeldIsRegistered
  BY DEF LeaseInv
<1>2. QED
  BY <1>1, LeaseInvariant, PTL
=============================================================================
