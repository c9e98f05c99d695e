-------------------------------- MODULE Boot --------------------------------
(***************************************************************************)
(* The life of the orchestrator process across crashes: main() with what   *)
(* it does to the host (the docker bridge, the MariaDB container, the game *)
(* containers, the nft table, the DOCKER-USER rule).                       *)
(*                                                                         *)
(* main runs its steps in order and registers a teardown after each; a     *)
(* step that fails calls log.Fatalf, which exits without running any of    *)
(* them.  A signal that comes once main waits for one takes the orderly    *)
(* way out: the manager stops, then the teardowns run last-in first-out.   *)
(* Everything a process leaves behind is what the next one starts from.    *)
(*                                                                         *)
(* Calls whose errors the code returns or logs may fail.  Ones whose       *)
(* errors it drops (the stop and removal of the MariaDB container in       *)
(* store.Close, deleteTable) are taken to succeed, except the removals in  *)
(* killOrphans.                                                            *)
(***************************************************************************)
EXTENDS Naturals, FiniteSets

CONSTANTS
  Subnets,      \* subnets that builds of the orchestrator have been made with
  None,
  MaxLosses     \* crashes, failed starts, rules not removed and host reboots

ASSUME BootAssumption == None \notin Subnets /\ MaxLosses \in Nat

VARIABLES
  stage,    \* the step of main about to be taken
  subnet,   \* netSubnet of the installed build
  net,      \* the bridge: None or its subnet
  db,       \* the MariaDB container: its state, and the bridge it is on
  games,    \* game containers: "old" of an earlier process, "own" of this one
  table,    \* the nft table: None, or whose it is
  rules,    \* how many DOCKER-USER rules are in the chain
  found,    \* how many there were when the last process was launched
  listed,   \* did killOrphans of this process remove every container
  exit,     \* how the last process ended: "clean", "partly" if a removal failed, "died"
  losses

bootVars == <<stage, subnet, net, db, games, table, rules, found, listed, exit, losses>>

MainSteps == {"orphans", "network", "container", "connect", "provision", "table", "rule", "serve",
              "ready", "stopping", "stopProxy", "closeStore", "removeNetwork"}

NoDb == [state |-> "none", on |-> None]

Init ==
  /\ stage = "off" /\ exit = "clean"
  /\ subnet \in Subnets
  /\ net = None /\ db = NoDb /\ games = {} /\ table = None
  /\ rules = 0 /\ found = 0 /\ listed = TRUE /\ losses = 0

-----------------------------------------------------------------------------
(* Starting. *)

Launch ==
  /\ stage = "off"
  /\ stage' = "orphans"
  /\ table' = IF table = None THEN None ELSE "old"
  /\ games' = IF games = {} THEN {} ELSE {"old"}
  /\ exit' = "clean" /\ found' = rules
  /\ UNCHANGED <<subnet, net, db, rules, listed, losses>>

\* killOrphans lists running and stopped csfleet-* containers and removes
\* them; when the list or a removal fails, main goes on.
KillOrphans ==
  /\ stage = "orphans" /\ stage' = "network"
  /\ \/ listed' = TRUE /\ games' = {}
     \/ listed' = FALSE /\ UNCHANGED games
  /\ UNCHANGED <<subnet, net, db, table, rules, found, exit, losses>>

\* removeNetwork disconnects whatever is attached, then removes the bridge.
Disconnected == [db EXCEPT !.on = None]

\* ensureNetwork keeps a bridge with the wanted subnet and replaces any other.
EnsureNetwork ==
  /\ stage = "network" /\ stage' = "container"
  /\ net' = subnet
  /\ db' = IF net \in {None, subnet} THEN db ELSE Disconnected
  /\ UNCHANGED <<subnet, games, table, rules, found, listed, exit, losses>>

\* Mutant: a stopped container is not removed first, so that its name is taken.
StartContainerConflict ==
  /\ stage = "container"
  /\ IF db.state = "stopped"
       THEN stage' = "off" /\ exit' = "died" /\ UNCHANGED db
       ELSE /\ stage' = "connect" /\ UNCHANGED exit
            /\ db' = [state |-> "running", on |-> IF db.state = "running" THEN db.on ELSE net]
  /\ UNCHANGED <<subnet, net, games, table, rules, found, listed, losses>>

\* database.Start keeps a container that runs on our data directory, and
\* removes and creates any other; then waitReady asks it through docker exec.
StartContainer ==
  /\ stage = "container" /\ stage' = "connect"
  /\ db' = IF db.state = "running" THEN db ELSE [state |-> "running", on |-> net]
  /\ UNCHANGED <<subnet, net, games, table, rules, found, listed, exit, losses>>

\* openDB, migrate and seedDefaults reach MariaDB at its address on the bridge.
Reachable == db.state = "running" /\ db.on = net

Connect ==
  /\ stage = "connect" /\ Reachable
  /\ stage' = "provision"
  /\ UNCHANGED <<subnet, net, db, games, table, rules, found, listed, exit, losses>>

ProvisionRun ==
  /\ stage = "provision" /\ stage' = "table"
  /\ UNCHANGED <<subnet, net, db, games, table, rules, found, listed, exit, losses>>

\* Mutant: a table that is there is kept.
InstallTableKeeps ==
  /\ stage = "table" /\ stage' = "rule"
  /\ table' = IF table = None THEN "own" ELSE table
  /\ UNCHANGED <<subnet, net, db, games, rules, found, listed, exit, losses>>

\* installTable deletes the table of that name first.
InstallTable ==
  /\ stage = "table" /\ stage' = "rule"
  /\ table' = "own"
  /\ UNCHANGED <<subnet, net, db, games, rules, found, listed, exit, losses>>

\* iptables -I adds a rule whether or not it is there already.
InstallDockerUser ==
  /\ stage = "rule" /\ stage' = "serve"
  /\ rules' = rules + 1
  /\ UNCHANGED <<subnet, net, db, games, table, found, listed, exit, losses>>

\* conntrack, NFQUEUE and the callback are set up; main starts the manager and
\* the API and waits.
Serve ==
  /\ stage = "serve" /\ stage' = "ready"
  /\ UNCHANGED <<subnet, net, db, games, table, rules, found, listed, exit, losses>>

\* While main waits, the workers create and remove containers.  A new one
\* takes over the name of an old one.
Works ==
  /\ stage = "ready"
  /\ games' \in {g \in SUBSET {"old", "own"} : "old" \in g => "old" \in games}
  /\ UNCHANGED <<stage, subnet, net, db, table, rules, found, listed, exit, losses>>

-----------------------------------------------------------------------------
(* Failing. *)

\* Whatever the process has put on the host stays.
Dies ==
  /\ losses < MaxLosses /\ losses' = losses + 1
  /\ stage' = "off" /\ exit' = "died"

\* teardownKernel removes one rule, and the table.  If the rule cannot be removed, that is
\* logged, and the table goes all the same.
RuleRemoved == rules' = rules - 1

\* A step of proxy.Start fails: it takes back what it did, and main exits.  The timeouts
\* are set before installTable, which begins by deleting the old table.
ProxyStartFails ==
  /\ losses < MaxLosses /\ losses' = losses + 1
  /\ stage' = "off" /\ exit' = "died"
  /\ \/ stage = "table" /\ table' \in {table, None} /\ UNCHANGED rules
     \/ stage = "rule" /\ table' = None /\ UNCHANGED rules
     \/ stage = "serve" /\ table' = None /\ (RuleRemoved \/ UNCHANGED rules)
  /\ UNCHANGED <<subnet, net, db, games, found, listed>>

\* log.Fatalf in an earlier step, which may have got part of the way: the old
\* bridge is emptied, or gone and the new one not there; the old container is removed, or
\* the new one created and not started.
Fatal ==
  /\ stage \in {"network", "container", "connect", "provision"}
  /\ Dies
  /\ \/ UNCHANGED <<net, db>>
     \/ stage = "network" /\ net # subnet /\ net' \in {None, net} /\ db' = Disconnected
     \/ /\ stage = "container" /\ db.state # "running"
        /\ db' \in {NoDb, [state |-> "stopped", on |-> net]}
        /\ UNCHANGED net
  /\ UNCHANGED <<subnet, games, table, rules, found, listed>>

\* A database that cannot be reached: openDB fails, however often it is tried.
\* (Only an upgrade beside a running database leads there, see UpgradeAnytime.)
Unreachable ==
  /\ stage = "connect" /\ ~Reachable
  /\ stage' = "off" /\ exit' = "died"
  /\ UNCHANGED <<subnet, net, db, games, table, rules, found, listed, losses>>

\* The process is killed at any point; a signal before main asked for signals
\* does the same.
Crash ==
  /\ stage # "off"
  /\ Dies
  /\ UNCHANGED <<subnet, net, db, games, table, rules, found, listed>>

\* The host restarts: nft and iptables start empty, containers are stopped and
\* kept, and so is the bridge.
Reboot ==
  /\ Dies
  /\ table' = None /\ rules' = 0
  /\ db' = IF db.state = "none" THEN db ELSE [db EXCEPT !.state = "stopped"]
  /\ UNCHANGED <<subnet, net, games, found, listed>>

\* Another build is installed while nothing of MariaDB runs.  (ensureNetwork's comment speaks
\* of an upgrade after a crash, when it may run: that is UpgradeAnytime, and BootRecovers is
\* false of it.)
Upgrade ==
  /\ stage = "off" /\ db.state # "running"
  /\ \E s \in Subnets : s # subnet /\ subnet' = s
  /\ UNCHANGED <<stage, net, db, games, table, rules, found, listed, exit, losses>>

\* The same while MariaDB of the build before may still run, after a crash.
UpgradeAnytime ==
  /\ stage = "off"
  /\ \E s \in Subnets : s # subnet /\ subnet' = s
  /\ UNCHANGED <<stage, net, db, games, table, rules, found, listed, exit, losses>>

-----------------------------------------------------------------------------
(* The orderly way out. *)

Signal ==
  /\ stage = "ready" /\ stage' = "stopping"
  /\ UNCHANGED <<subnet, net, db, games, table, rules, found, listed, exit, losses>>

\* mgr.Stop; the workers have stopped their containers.  One that was being
\* created may appear in between (see Fleet), and ones of an earlier process
\* stay.
ManagerDone ==
  /\ stage = "stopping" /\ stage' = "stopProxy"
  /\ games' \in SUBSET games
  /\ UNCHANGED <<subnet, net, db, table, rules, found, listed, exit, losses>>

StopProxy ==
  /\ stage = "stopProxy" /\ stage' = "closeStore"
  /\ table' = None
  /\ \/ RuleRemoved /\ UNCHANGED <<exit, losses>>
     \/ losses < MaxLosses /\ losses' = losses + 1 /\ exit' = "partly" /\ UNCHANGED rules
  /\ UNCHANGED <<subnet, net, db, games, found, listed>>

\* Mutant: the connection pool is closed and the container kept.
CloseStorePool ==
  /\ stage = "closeStore" /\ stage' = "removeNetwork"
  /\ UNCHANGED <<subnet, net, db, games, table, rules, found, listed, exit, losses>>

CloseStore ==
  /\ stage = "closeStore" /\ stage' = "removeNetwork"
  /\ db' = NoDb
  /\ UNCHANGED <<subnet, net, games, table, rules, found, listed, exit, losses>>

\* The last teardown.  If the bridge cannot be removed, that is logged and main returns.
RemoveNetwork ==
  /\ stage = "removeNetwork" /\ stage' = "off"
  /\ \/ net' = None /\ UNCHANGED exit
     \/ exit' = "partly" /\ UNCHANGED net
  /\ db' = Disconnected
  /\ UNCHANGED <<subnet, games, table, rules, found, listed, losses>>

-----------------------------------------------------------------------------
Boots == Launch \/ KillOrphans \/ EnsureNetwork \/ StartContainer \/ Connect
           \/ ProvisionRun \/ InstallTable \/ InstallDockerUser \/ Serve
Fail == ProxyStartFails \/ Fatal \/ Crash \/ Reboot
Leave == ManagerDone \/ StopProxy \/ CloseStore \/ RemoveNetwork

Next == Boots \/ Works \/ Fail \/ Signal \/ Leave \/ Upgrade

BootSpec == Init /\ [][Next]_bootVars

\* The operator starts the orchestrator again when it is off, and a process
\* that is not killed takes its next step.
BootFairSpec == BootSpec /\ WF_bootVars(Boots \/ Leave)

UpgradeFairSpec == /\ Init /\ [][Next \/ UpgradeAnytime \/ Unreachable]_bootVars
                   /\ WF_bootVars(Boots \/ Leave \/ Unreachable)

-----------------------------------------------------------------------------
(* Properties. *)

\* Type invariant.
BootTypeOK ==
  /\ stage \in MainSteps \cup {"off"} /\ exit \in {"clean", "partly", "died"}
  /\ subnet \in Subnets /\ net \in Subnets \cup {None}
  /\ db \in [state : {"none", "running", "stopped"}, on : Subnets \cup {None}]
  /\ games \subseteq {"old", "own"} /\ table \in {None, "old", "own"}
  /\ listed \in BOOLEAN /\ losses \in Nat
  /\ rules \in Nat /\ found \in Nat

\* A process that serves has its own table and an accept rule, a database it
\* can reach, on a bridge of its own build's subnet, and no containers of an
\* earlier process unless killOrphans could not list them - whatever the
\* processes before it left behind, and at whatever step they died.
ReadyIsFresh ==
  stage = "ready" =>
    /\ table = "own" /\ rules > 0
    /\ net = subnet /\ Reachable
    /\ listed => "old" \notin games

\* After an orderly end neither the database container nor the table is left, and, where
\* every removal succeeded, no bridge and no more accept rules than the process found: one
\* teardown that fails keeps no other from running.  Game containers may be left.
OrderlyExitCleansUp ==
  stage = "off" /\ exit # "died" =>
    /\ db = NoDb /\ table = None
    /\ exit = "clean" => net = None /\ rules = found

(***************************************************************************)
(* The inductive invariant behind ReadyIsFresh and OrderlyExitCleansUp     *)
(* (proved in StartupProofs): how far a process that has come to a step    *)
(* has got, whatever it started from.                                      *)
(***************************************************************************)
Serving == {"serve", "ready", "stopping", "stopProxy"}

\* A running MariaDB is on the bridge there is, and that is the installed build's: so
\* the Fatal of a database out of reach cannot happen.
Attached == db.state = "running" => net = subnet /\ db.on = net

BootInv ==
  /\ Attached
  /\ stage \in MainSteps \ {"orphans", "network"} => net = subnet
  /\ stage \in {"connect", "provision", "table", "rule", "closeStore"} \cup Serving => Reachable
  /\ stage \in {"rule"} \cup Serving => table = "own"
  /\ stage \in {"closeStore", "removeNetwork"} => table = None
  /\ stage = "removeNetwork" => db = NoDb
  /\ stage \in MainSteps \ {"orphans"} /\ listed => "old" \notin games
  /\ stage \in MainSteps \ (Serving \cup {"closeStore", "removeNetwork"}) => rules = found
  /\ stage \in Serving => rules = found + 1
  /\ stage \in {"closeStore", "removeNetwork"} /\ exit = "clean" => rules = found
  /\ stage \in MainSteps => exit # "died"
  /\ OrderlyExitCleansUp

\* Starting the orchestrator again gets it serving, whatever a crash, a failed start or a
\* reboot left behind, and whatever an upgrade beside a stopped MariaDB changed.
BootRecovers == stage = "off" ~> stage = "ready"

=============================================================================
